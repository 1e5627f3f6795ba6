----------------------------- MODULE CanphyLink -----------------------------
(***************************************************************************)
(* The CAN PHY agent of the CAN FD bench on one bus line, bit by bit:      *)
(* canphy_driver.sv drives frames on can_phy_rx, canphy_monitor.sv cuts    *)
(* the line into frames again.  A step is a nominal bit time (frames       *)
(* without bit rate switch): the monitor samples each bit once.            *)
(*                                                                         *)
(* The driver extends its bit arrays by "x = new[x.size()+1]", which keeps *)
(* nothing of the old array: only the last bit of a data frame has the     *)
(* value it was given, all others are 0.  Of the contents of a frame the   *)
(* line shows the length and nothing else.                                 *)
(***************************************************************************)
EXTENDS Naturals, Sequences, FiniteSets

CONSTANTS Frames,   \* what sequences send
          NFrames,  \* bound: how many of them
          MaxIdle   \* bound: recessive bits between frames, beside the IFS

(* The frame's bits up to the end of the data field and the last of them,   *)
(* or an error or overload frame; err is a position to invert, -1 for none. *)
ASSUME FrameAssumption ==
  /\ \A f \in Frames :
       /\ f.kind \in {"data", "flag"} /\ f.err \in Nat \cup {0 - 1}
       /\ f.kind = "data" => f.bits \in Nat \ {0} /\ f.last \in 0..1 /\ f.fdf \in BOOLEAN
  /\ NFrames \in Nat /\ MaxIdle \in Nat

VARIABLES driven,   \* the frames started so far, the last one under way
          pos,      \* bits of it that are on the line
          idle,     \* idle bits before each frame, and since the last
          line,     \* the line
          state, prev, queue, ones, \* the monitor: watching or capturing
          inside,   \* which frames' bits the capture has
          seen,     \* the frames whose first bit was in a capture
          published \* which frames' bits each transaction was parsed from

vars == <<driven, pos, idle, line, state, prev, queue, ones, inside, seen, published>>

-----------------------------------------------------------------------------
(* drive_can_frame: bits of the array "stuffed".  The raw stream is zeros   *)
(* up to its last bit, so a stuff bit follows every five of them; the CRC   *)
(* and the ten recessive bits from the CRC delimiter to the end of frame    *)
(* are not stuffed.                                                         *)
StuffBits(f) == (f.bits - f.last) \div 5
DataLength(f) == f.bits + StuffBits(f) + (IF f.fdf THEN 17 ELSE 15) + 10

(* drive_error_frame, drive_overload_frame: 6 dominant, 8 recessive bits.   *)
Length(f) == IF f.kind = "data" THEN DataLength(f) ELSE 14

(* Bit i (from 0) of the array as it was built.                             *)
Built(f, i) ==
  IF f.kind = "data" THEN IF i = DataLength(f) - 1 THEN 1 ELSE 0
  ELSE IF i < 6 THEN 0 ELSE 1

IFS == 3

(* drive_frame: bit i on the line, inverted where an error is injected, and *)
(* the recessive interframe space.                                          *)
Driven(f, i) ==
  IF i >= Length(f) THEN 1
  ELSE IF f.kind = "data" /\ i = f.err THEN 1 - Built(f, i) ELSE Built(f, i)

-----------------------------------------------------------------------------
(* capture_frame and parse_frame.                                           *)
MaxBits == 200

EofBits == 7

(* Destuffing as parse_frame does it.  A pass of its loop takes a bit into  *)
(* "destuffed", of which size is kept; behind five equal bits one is        *)
(* skipped, the next one is taken and looked at again.                      *)
Shortest == 20

Over(q, s) == s.i >= Len(q) \/ s.i >= 150

OtherBit(q, s) == [i |-> s.i + 1, same |-> 1, last |-> q[s.i + 1], size |-> s.size + 1]
EqualBit(s) == [i |-> s.i + 1, same |-> s.same + 1, last |-> s.last, size |-> s.size + 1]

Skip(q, s) ==
  LET next == IF s.i + 1 < Len(q) THEN s.i + 2 ELSE s.i + 1
  IN IF next < Len(q)
     THEN [i |-> next, same |-> 1, last |-> q[next + 1], size |-> s.size + 1]
     ELSE [i |-> next, same |-> 1, last |-> s.last, size |-> s.size]

Pass(q, s) ==
  IF Over(q, s) THEN s
  ELSE IF q[s.i + 1] # s.last THEN OtherBit(q, s)
  ELSE IF s.same + 1 < 5 THEN EqualBit(s)
  ELSE Skip(q, s)

FivePasses(q, s) == Pass(q, Pass(q, Pass(q, Pass(q, Pass(q, s)))))

(* The size after twenty passes: it is Shortest then, or the loop is over,  *)
(* as every pass but the last takes a bit.                                  *)
Destuffed(q) ==
  LET start == [i |-> 1, same |-> 1, last |-> q[1], size |-> 1]
  IN FivePasses(q, FivePasses(q, FivePasses(q, FivePasses(q, start)))).size

(* Mutant: no frame is too short.                                           *)
AnyLength(q) == TRUE

(* A capture that destuffs to fewer than 20 bits is dropped.                *)
LongEnough(q) == Destuffed(q) >= Shortest

Init ==
  /\ driven = <<>> /\ pos = 0 /\ idle = <<0>> /\ line = 1
  /\ state = "watch" /\ prev = 1 /\ queue = <<>> /\ ones = 0
  /\ inside = {} /\ seen = {} /\ published = <<>>

(* Mutant: prev is what it was when the capture began.                      *)
SampleStalePrev(bit, k, first) ==
  LET ends == ones' >= EofBits \/ Len(queue) = MaxBits
  IN /\ queue' = Append(queue, bit)
     /\ ones' = IF bit = 1 THEN ones + 1 ELSE 0
     /\ state' = IF ends THEN "watch" ELSE "capture"
     /\ prev' = prev
     /\ inside' = inside \cup k
     /\ seen' = IF first THEN seen \cup k ELSE seen
     /\ published' = IF ends /\ LongEnough(Append(queue, bit)) THEN Append(published, inside') ELSE published

(* The monitor at the next bit; k names the frame the bit is of (but for    *)
(* its recessive end), first tells that it is the frame's first bit.        *)
Sample(bit, k, first) ==
  LET ends == ones' >= EofBits \/ Len(queue) = MaxBits
  IN /\ queue' = Append(queue, bit)
     /\ ones' = IF bit = 1 THEN ones + 1 ELSE 0
     /\ state' = IF ends THEN "watch" ELSE "capture"
     /\ prev' = IF ends THEN bit ELSE prev
     /\ inside' = inside \cup k
     /\ seen' = IF first THEN seen \cup k ELSE seen
     /\ published' = IF ends /\ LongEnough(Append(queue, bit)) THEN Append(published, inside') ELSE published

(* The monitor between captures: it waits for a falling edge.               *)
Watch(bit, k, first) ==
  /\ prev' = bit /\ UNCHANGED published
  /\ IF prev = 1 /\ bit = 0
     THEN /\ state' = "capture" /\ queue' = <<0>> /\ ones' = 0 /\ inside' = k
          /\ seen' = IF first THEN seen \cup k ELSE seen
     ELSE UNCHANGED <<state, queue, ones, inside, seen>>

Monitor(bit, k, first) ==
  IF state = "capture" THEN Sample(bit, k, first) ELSE Watch(bit, k, first)

-----------------------------------------------------------------------------
(* main_phase and drive_frame: a frame's next bit, the first bit of the     *)
(* next frame, or, between frames, an idle bit.                             *)
Current  == driven[Len(driven)]
Busy     == driven # <<>> /\ pos < Length(Current) + IFS

Bit ==
  /\ Busy
  /\ line' = Driven(Current, pos) /\ pos' = pos + 1
  /\ Monitor(line', IF pos < Length(Current) THEN {Len(driven)} ELSE {}, FALSE)
  /\ UNCHANGED <<driven, idle>>

Start ==
  /\ ~Busy /\ Len(driven) < NFrames
  /\ \E f \in Frames :
       /\ driven' = Append(driven, f) /\ pos' = 1
       /\ line' = Driven(f, 0)
       /\ idle' = Append(idle, 0)
       /\ Monitor(line', {Len(driven) + 1}, line' = 0)

Idle ==
  /\ ~Busy /\ idle[Len(idle)] < MaxIdle
  /\ idle' = [idle EXCEPT ![Len(idle)] = @ + 1]
  /\ line' = 1 /\ Monitor(1, {}, FALSE)
  /\ UNCHANGED <<driven, pos>>

Next == Bit \/ Start \/ Idle

Spec == Init /\ [][Next]_vars

-----------------------------------------------------------------------------
(* The line, the driver's place on it and the monitor's capture have their  *)
(* types; a capture never holds more than the bits it may.                  *)
TypeOK ==
  /\ driven \in Seq(Frames) /\ Len(driven) <= NFrames
  /\ pos \in 0..IF driven = <<>> THEN 0 ELSE Length(Current) + IFS
  /\ idle \in Seq(0..MaxIdle) /\ Len(idle) = Len(driven) + 1
  /\ line \in 0..1 /\ prev \in 0..1 /\ state \in {"watch", "capture"}
  /\ queue \in Seq(0..1) /\ Len(queue) <= MaxBits + 1 /\ ones \in 0..EofBits
  /\ inside \cup seen \subseteq DOMAIN driven
  /\ published \in Seq(SUBSET (1..NFrames))

(* The monitor never sleeps through the start of a frame: the first bit of  *)
(* every frame, if it is dominant, is in a capture (monitor_rx_bus compares *)
(* with the level it left capture_frame at).                                *)
EverySofSeen ==
  \A k \in DOMAIN driven : Driven(driven[k], 0) = 0 => k \in seen

(* The seven recessive bits at the end of a frame, of the CAN protocol.     *)
EndOfFrame == 7

(* Idle bits after which a capture has ended whatever frame it was of: with *)
(* the interframe space they make the seven that end a frame.               *)
Apart(k) ==
  /\ k = 1 \/ idle[k] >= EndOfFrame - IFS
  /\ idle[k + 1] >= EndOfFrame - IFS

Publications(k) == {n \in DOMAIN published : k \in published[n]}

(* Traffic that leaves the monitor time is reported exactly: a data frame   *)
(* with enough idle time around it, that is driven as built or that fits    *)
(* into one capture, becomes one transaction and shares it with no other    *)
(* frame, however it was cut at 200 bits and wherever an error was injected;*)
(* an error or overload frame becomes none (capture_frame, parse_frame).    *)
ApartPublishedOnce ==
  \A k \in DOMAIN driven :
    Apart(k) =>
      IF driven[k].kind = "flag" THEN Publications(k) = {}
      ELSE driven[k].err < 0 \/ Length(driven[k]) < MaxBits =>
             \E n \in DOMAIN published :
               Publications(k) = {n} /\ published[n] = {k}
=============================================================================
