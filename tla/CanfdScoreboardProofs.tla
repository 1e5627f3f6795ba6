----------------------- MODULE CanfdScoreboardProofs -----------------------
(***************************************************************************)
(* The scoreboard for any depths, budgets and accesses: no frame is lost   *)
(* on the way to the reference model, and the mirror's TX buffers are the  *)
(* device's.                                                               *)
(***************************************************************************)
EXTENDS CanfdScoreboard, CanfdRefModelProofs

-----------------------------------------------------------------------------
(* What is under way                                                       *)

Dues == {{"device"}, {"monitor"}, {"device", "monitor"}}

\* What the assumption on the accesses of a test says of one of them.
Legal(op) ==
    /\ op.dir \in {"READ", "WRITE"} /\ op.at \in Nat
    /\ op.dir = "WRITE" /\ op.target \in {"TXBUF", "AFR"} => op.value \in Words
    /\ op.dir = "WRITE" /\ op.target = "CEN" => op.value \in {0, 1}
    /\ op.dir = "WRITE" /\ op.target \in {"TRR", "TCR"} => op.value \subseteq TxBufs

\* At most one frame and one access are on the buses, and each analysis FIFO
\* holds at most what was published at this edge.
OneEach ==
    /\ wire = {} \/ \E f \in Frames, d \in Dues : wire = {[frame |-> f, due |-> d]}
    /\ access = {} \/ \E op : access = {op} /\ Legal(op)
    /\ canphy_rx_q = <<>> \/ ("rx" \in served /\ \E f \in Frames : canphy_rx_q = <<f>>)
    /\ axi4lite_q = <<>> \/ ("axi" \in served /\ \E op : axi4lite_q = <<op>> /\ Legal(op))

LEMMA OneEachInit == ScbInit => OneEach
BY DEF ScbInit, OneEach

LEMMA SingleQueue ==
    ASSUME NEW x
    PROVE  <<x>> # <<>> /\ Head(<<x>>) = x /\ Tail(<<x>>) = <<>> /\ Append(<<>>, x) = <<x>>
           /\ DOMAIN <<x>> = {1} /\ <<x>>[1] = x
OBVIOUS

\* The frame on the bus, as the one element of wire.
LEMMA FrameOnWire ==
    ASSUME OneEach, NEW w \in wire
    PROVE  \E f \in Frames, d \in Dues :
              wire = {[frame |-> f, due |-> d]} /\ w = [frame |-> f, due |-> d]
<1>1. PICK f \in Frames, d \in Dues : wire = {[frame |-> f, due |-> d]}
  BY DEF OneEach
<1>2. w = [frame |-> f, due |-> d]
  BY <1>1
<1> QED
  BY <1>1, <1>2

\* What it becomes when one of the two has seen its end.
LEMMA SeenByOne ==
    ASSUME NEW f, NEW d, NEW one
    PROVE  SeenBy([frame |-> f, due |-> d], one)
              = IF d = {one} THEN {} ELSE {[frame |-> f, due |-> d \ {one}]}
BY DEF SeenBy

LEMMA DuesLeft == ASSUME NEW d \in Dues, NEW one \in d, d # {one} PROVE d \ {one} \in Dues
BY DEF Dues

LEMMA WireLeft ==
    ASSUME NEW f \in Frames, NEW d \in Dues, NEW one \in d,
           wire' = SeenBy([frame |-> f, due |-> d], one)
    PROVE  wire' = {} \/ \E ff \in Frames, dd \in Dues : wire' = {[frame |-> ff, due |-> dd]}
<1>1. CASE d = {one}
  <2>1. SeenBy([frame |-> f, due |-> d], one) = {}
    BY <1>1, SeenByOne
  <2> QED
    BY <2>1
<1>2. CASE d # {one}
  <2>1. d \ {one} \in Dues
    BY <1>2, DuesLeft
  <2>2. wire' = {[frame |-> f, due |-> d \ {one}]}
    BY <1>2, SeenByOne
  <2> QED
    BY <2>1, <2>2
<1> QED
  BY <1>1, <1>2

LEMMA OneEachStep == OneEach /\ [ScbNext]_scbVars => OneEach'
<1> SUFFICES ASSUME OneEach, [ScbNext]_scbVars PROVE OneEach'
  OBVIOUS
<1> USE DEF queues, bench
<1>1. CASE TxThread
  BY <1>1 DEF TxThread, OneEach
<1>2. CASE RxThread
  BY <1>2, SingleQueue DEF RxThread, OneEach
<1>3. CASE AxiThread
  BY <1>3, SingleQueue DEF AxiThread, OneEach
<1>4. CASE TickThread
  BY <1>4 DEF TickThread, OneEach
<1>5. CASE NextEdge
  BY <1>5 DEF NextEdge, OneEach, Drained
<1>6. ASSUME NEW f \in Frames, InjectFrame(f) PROVE OneEach'
  BY <1>6 DEF InjectFrame, OneEach, Dues
<1>7. CASE DeviceReceives
  <2>1. PICK w \in wire : "device" \in w.due /\ wire' = SeenBy(w, "device")
    BY <1>7 DEF DeviceReceives
  <2>2. UNCHANGED <<queues, served, access>>
    BY <1>7 DEF DeviceReceives
  <2>3. PICK f \in Frames, d \in Dues : w = [frame |-> f, due |-> d]
    BY FrameOnWire
  <2>4. "device" \in d
    BY <2>1, <2>3
  <2>5. wire' = SeenBy([frame |-> f, due |-> d], "device")
    BY <2>1, <2>3
  <2>6. wire' = {} \/ \E ff \in Frames, dd \in Dues : wire' = {[frame |-> ff, due |-> dd]}
    BY <2>4, <2>5, WireLeft
  <2> QED
    BY <2>2, <2>6 DEF OneEach
<1>8. CASE MonitorRx
  <2>1. PICK w \in wire : /\ "monitor" \in w.due /\ "rx" \notin served
                          /\ canphy_rx_q' = Append(canphy_rx_q, w.frame)
                          /\ served' = served \cup {"rx"}
                          /\ wire' = SeenBy(w, "monitor")
    BY <1>8 DEF MonitorRx
  <2>2. UNCHANGED <<axi4lite_q, access>>
    BY <1>8 DEF MonitorRx
  <2>3. PICK f \in Frames, d \in Dues : w = [frame |-> f, due |-> d]
    BY FrameOnWire
  <2>4. canphy_rx_q' = <<f>>
    BY <2>1, <2>3, SingleQueue DEF OneEach
  <2>5. "monitor" \in d
    BY <2>1, <2>3
  <2>6. wire' = SeenBy([frame |-> f, due |-> d], "monitor")
    BY <2>1, <2>3
  <2>7. wire' = {} \/ \E ff \in Frames, dd \in Dues : wire' = {[frame |-> ff, due |-> dd]}
    BY <2>5, <2>6, WireLeft
  <2> QED
    BY <2>1, <2>2, <2>4, <2>7 DEF OneEach
<1>9. ASSUME NEW op \in HostOps, HostStart(op) PROVE OneEach'
  <2>1. Legal(op)
    BY ScoreboardAssumption DEF Legal
  <2>2. CASE access' = {op}
    BY <1>9, <2>1, <2>2 DEF HostStart, OneEach
  <2>3. CASE access' = {[dir |-> "READ", target |-> op.target, at |-> op.at,
                         value |-> DeviceRead(op.target), resp |-> op.resp]}
    BY <1>9, <2>1, <2>3 DEF HostStart, OneEach, Legal
  <2> QED
    BY <1>9, <2>2, <2>3 DEF HostStart
<1>10. CASE MonitorAxi
  BY <1>10, SingleQueue DEF MonitorAxi, OneEach
<1>11. ASSUME NEW i \in TxBufs, DeviceTransmits(i) PROVE OneEach'
  BY <1>11 DEF DeviceTransmits, OneEach
<1>12. ASSUME NEW f \in Frames, DeviceSignals(f) PROVE OneEach'
  BY <1>12 DEF DeviceSignals, OneEach
<1>13. CASE UNCHANGED scbVars
  BY <1>13 DEF scbVars, OneEach
<1> QED
  BY <1>1, <1>2, <1>3, <1>4, <1>5, <1>6, <1>7, <1>8, <1>9, <1>10, <1>11, <1>12, <1>13
  DEF ScbNext

-----------------------------------------------------------------------------
(* No frame is lost                                                        *)

QueuedIn(q) == Cardinality({i \in DOMAIN q : IsData(q[i])})
ComingOn(w) == Cardinality({x \in w : IsData(x.frame) /\ "monitor" \in x.due})

One(condition) == IF condition THEN 1 ELSE 0

LEMMA Counts ==
    /\ QueuedIn(<<>>) = 0 /\ ComingOn({}) = 0
    /\ \A f : QueuedIn(<<f>>) = One(IsData(f))
    /\ \A f, d : ComingOn({[frame |-> f, due |-> d]}) = One(IsData(f) /\ "monitor" \in d)
<1>1. Cardinality({}) = 0 /\ \A x : Cardinality({x}) = 1
  BY FS_EmptySet, FS_Singleton
<1>2. QueuedIn(<<>>) = 0 /\ ComingOn({}) = 0
  BY <1>1 DEF QueuedIn, ComingOn
<1>3. ASSUME NEW f PROVE QueuedIn(<<f>>) = One(IsData(f))
  <2>1. {i \in DOMAIN <<f>> : IsData(<<f>>[i])} = IF IsData(f) THEN {1} ELSE {}
    BY SingleQueue
  <2> QED
    BY <1>1, <2>1 DEF QueuedIn, One
<1>4. ASSUME NEW f, NEW d
      PROVE  ComingOn({[frame |-> f, due |-> d]}) = One(IsData(f) /\ "monitor" \in d)
  <2> DEFINE w == [frame |-> f, due |-> d]
  <2>1. {x \in {w} : IsData(x.frame) /\ "monitor" \in x.due}
            = IF IsData(f) /\ "monitor" \in d THEN {w} ELSE {}
    OBVIOUS
  <2> QED
    BY <1>1, <2>1 DEF ComingOn, One
<1> QED
  BY <1>2, <1>3, <1>4

CountsTyped ==
    /\ canphy_rx_count \in Nat /\ frames \in Nat
    /\ canphy_rx_count + QueuedIn(canphy_rx_q) + ComingOn(wire) = FrameBudget - frames

ConservedInv == OneEach /\ CountsTyped

LEMMA ConservedInit == ScbInit => ConservedInv
BY Counts, OneEachInit, ScoreboardAssumption DEF ScbInit, ConservedInv, CountsTyped

LEMMA ConservedStep == ConservedInv /\ [ScbNext]_scbVars => ConservedInv'
<1> SUFFICES ASSUME OneEach, CountsTyped, [ScbNext]_scbVars PROVE CountsTyped'
  BY OneEachStep DEF ConservedInv
<1> USE DEF queues, results, bench
<1>1. CASE UNCHANGED <<canphy_rx_count, canphy_rx_q, wire, frames>>
  BY <1>1 DEF CountsTyped
<1>2. CASE TxThread
  <2>1. UNCHANGED canphy_rx_count
    BY <1>2 DEF TxThread, ProcessTxFrame
  <2> QED
    BY <1>1, <1>2, <2>1 DEF TxThread
<1>3. CASE RxThread
  <2>1. PICK f \in Frames : canphy_rx_q = <<f>>
    BY <1>3 DEF RxThread, OneEach
  <2>2. canphy_rx_q' = <<>> /\ UNCHANGED <<wire, frames>>
    BY <1>3, <2>1, SingleQueue DEF RxThread
  <2>3. canphy_rx_count' = canphy_rx_count + One(IsData(f))
    <3>1. ProcessRxFrame(f) /\ canphy_rx_count \in Nat
      BY <1>3, <2>1, SingleQueue DEF RxThread, CountsTyped
    <3>2. CASE f \in ErrorFrames
      <4>1. canphy_rx_count' = canphy_rx_count
        BY <3>1, <3>2 DEF ProcessRxFrame
      <4> QED
        BY <3>1, <3>2, <4>1 DEF IsData, One
    <3>3. CASE f \notin ErrorFrames
      BY <3>1, <3>3 DEF ProcessRxFrame, IsData, One
    <3> QED
      BY <3>2, <3>3
  <2>4. QueuedIn(canphy_rx_q) = One(IsData(f)) /\ QueuedIn(canphy_rx_q') = 0
    BY <2>1, <2>2, Counts
  <2>5. One(IsData(f)) \in Nat
    BY DEF One
  <2>6. ComingOn(wire) \in Nat
    <3>1. CASE wire = {}
      BY <3>1, Counts
    <3>2. ASSUME NEW g \in Frames, NEW d \in Dues, wire = {[frame |-> g, due |-> d]}
          PROVE  ComingOn(wire) \in Nat
      <4>1. ComingOn(wire) = One(IsData(g) /\ "monitor" \in d)
        BY <3>2, Counts
      <4> QED
        BY <4>1 DEF One
    <3> QED
      BY <3>1, <3>2 DEF OneEach
  <2>7. ComingOn(wire') = ComingOn(wire) /\ frames' = frames
    BY <2>2 DEF ComingOn
  <2>8. canphy_rx_count' + 0 + ComingOn(wire) = canphy_rx_count + One(IsData(f)) + ComingOn(wire)
        /\ canphy_rx_count' \in Nat
    BY <2>3, <2>5, <2>6 DEF CountsTyped
  <2> QED
    BY <2>4, <2>7, <2>8 DEF CountsTyped
<1>4. CASE AxiThread
  BY <1>1, <1>4 DEF AxiThread, ProcessAxi4liteTr
<1>5. ASSUME NEW f \in Frames, InjectFrame(f) PROVE CountsTyped'
  <2>1. /\ wire = {} /\ wire' = {[frame |-> f, due |-> {"device", "monitor"}]}
        /\ frames > 0 /\ frames' = IF IsData(f) THEN frames - 1 ELSE frames
        /\ UNCHANGED <<canphy_rx_count, canphy_rx_q>>
    BY <1>5 DEF InjectFrame, IsData
  <2>2. ComingOn(wire) = 0 /\ ComingOn(wire') = One(IsData(f))
    <3>1. ComingOn(wire') = One(IsData(f) /\ "monitor" \in {"device", "monitor"})
      BY <2>1, Counts
    <3>2. ComingOn(wire) = 0
      BY <2>1, Counts
    <3> QED
      BY <3>1, <3>2 DEF One
  <2>3. QueuedIn(canphy_rx_q) \in Nat
    BY Counts DEF OneEach, One
  <2>4. QueuedIn(canphy_rx_q') = QueuedIn(canphy_rx_q) /\ canphy_rx_count' = canphy_rx_count
    BY <2>1 DEF QueuedIn
  <2>5. canphy_rx_count \in Nat /\ frames \in Nat /\ FrameBudget \in Nat
        /\ canphy_rx_count + QueuedIn(canphy_rx_q) + 0 = FrameBudget - frames
    BY <2>2, ScoreboardAssumption DEF CountsTyped
  <2>6. CASE IsData(f)
    <3>1. ComingOn(wire') = 1 /\ frames' = frames - 1
      BY <2>1, <2>2, <2>6 DEF One
    <3> QED
      BY <2>1, <2>3, <2>4, <2>5, <3>1 DEF CountsTyped
  <2>7. CASE ~IsData(f)
    <3>1. ComingOn(wire') = 0 /\ frames' = frames
      BY <2>1, <2>2, <2>7 DEF One
    <3> QED
      BY <2>3, <2>4, <2>5, <3>1 DEF CountsTyped
  <2> QED
    BY <2>6, <2>7
<1>6. CASE DeviceReceives
  <2>1. PICK w \in wire : "device" \in w.due /\ wire' = SeenBy(w, "device")
    BY <1>6 DEF DeviceReceives
  <2>2. UNCHANGED <<canphy_rx_count, canphy_rx_q, frames>>
    BY <1>6 DEF DeviceReceives
  <2>3. PICK f \in Frames, d \in Dues :
            wire = {[frame |-> f, due |-> d]} /\ w = [frame |-> f, due |-> d]
    BY FrameOnWire
  <2>4. wire' = SeenBy([frame |-> f, due |-> d], "device")
    BY <2>1, <2>3
  <2>5. ComingOn(wire') = ComingOn(wire)
    <3>1. CASE d = {"device"}
      <4>1. wire' = {} /\ ~("monitor" \in d)
        BY <2>4, <3>1, SeenByOne
      <4> QED
        BY <2>3, <4>1, Counts DEF One
    <3>2. CASE d # {"device"}
      <4>1. wire' = {[frame |-> f, due |-> d \ {"device"}]}
        BY <2>4, <3>2, SeenByOne
      <4>2. ("monitor" \in d \ {"device"}) <=> ("monitor" \in d)
        OBVIOUS
      <4>3. ComingOn(wire') = One(IsData(f) /\ "monitor" \in d \ {"device"})
        BY <4>1, Counts
      <4>4. ComingOn(wire) = One(IsData(f) /\ "monitor" \in d)
        BY <2>3, Counts
      <4> QED
        BY <4>2, <4>3, <4>4 DEF One
    <3> QED
      BY <3>1, <3>2
  <2> QED
    BY <2>2, <2>5 DEF CountsTyped
<1>7. CASE MonitorRx
  <2>1. PICK w \in wire : /\ "monitor" \in w.due /\ "rx" \notin served
                          /\ canphy_rx_q' = Append(canphy_rx_q, w.frame)
                          /\ wire' = SeenBy(w, "monitor")
    BY <1>7 DEF MonitorRx
  <2>2. UNCHANGED <<canphy_rx_count, frames>>
    BY <1>7 DEF MonitorRx
  <2>3. PICK f \in Frames, d \in Dues :
            wire = {[frame |-> f, due |-> d]} /\ w = [frame |-> f, due |-> d]
    BY FrameOnWire
  <2>a. "monitor" \in d
    BY <2>1, <2>3
  <2>b. wire' = SeenBy([frame |-> f, due |-> d], "monitor")
    BY <2>1, <2>3
  <2>4. canphy_rx_q = <<>> /\ canphy_rx_q' = <<f>>
    BY <2>1, <2>3, SingleQueue DEF OneEach
  <2>5. ComingOn(wire) = One(IsData(f)) /\ ComingOn(wire') = 0
    <3>1. ComingOn(wire) = One(IsData(f))
      BY <2>3, <2>a, Counts DEF One
    <3>2. CASE d = {"monitor"}
      BY <2>b, <3>1, <3>2, SeenByOne, Counts
    <3>3. CASE d # {"monitor"}
      <4>1. wire' = {[frame |-> f, due |-> d \ {"monitor"}]}
        BY <2>b, <3>3, SeenByOne
      <4>2. ComingOn(wire') = One(IsData(f) /\ "monitor" \in d \ {"monitor"})
        BY <4>1, Counts
      <4> QED
        BY <3>1, <4>2 DEF One
    <3> QED
      BY <3>2, <3>3
  <2>6. QueuedIn(canphy_rx_q) = 0 /\ QueuedIn(canphy_rx_q') = One(IsData(f))
    BY <2>4, Counts
  <2>7. One(IsData(f)) \in Nat
    BY DEF One
  <2> QED
    BY <2>2, <2>5, <2>6, <2>7 DEF CountsTyped
<1>8. CASE \/ TickThread \/ NextEdge \/ (\E op \in HostOps : HostStart(op))
           \/ MonitorAxi \/ (\E i \in TxBufs : DeviceTransmits(i))
           \/ (\E f \in Frames : DeviceSignals(f)) \/ UNCHANGED scbVars
  BY <1>1, <1>8 DEF TickThread, NextEdge, HostStart, MonitorAxi, DeviceTransmits,
                    DeviceSignals, scbVars
<1> QED
  BY <1>2, <1>3, <1>4, <1>5, <1>6, <1>7, <1>8 DEF ScbNext

\* For any number of frames and any depths every data frame that began on the
\* bus is on its way or was counted, exactly once (process_rx_frame).
THEOREM FramesAreConserved == ScbSpec => []FramesConserved
<1>1. ConservedInv => FramesConserved
  BY DEF ConservedInv, CountsTyped, FramesConserved, QueuedIn, ComingOn
<1> QED
  BY <1>1, ConservedInit, ConservedStep, PTL DEF ScbSpec
-----------------------------------------------------------------------------
(* The TX buffers.  A write reaches the device first and the mirror later,  *)
(* with at most one access in the analysis FIFO and one on the bus between  *)
(* them: applied in that order to the mirror, they give the device.         *)

Resets(op)     == op.dir = "WRITE" /\ op.target = "SRST"
Requests(op)   == op.dir = "WRITE" /\ op.target = "TRR"
WritesId(op, i) == /\ op.dir = "WRITE" /\ op.target = "TXBUF"
                   /\ BufIdx(op.at) = i /\ BufOffset(op.at) = 0

\* What an access makes of the identifier of a buffer and of the requests.
IdAfter(op, i, id) ==
    IF Resets(op) THEN 0 ELSE IF WritesId(op, i) THEN IdField(op.value) ELSE id
RequestedAfter(op, reqs) ==
    IF Resets(op) THEN {} ELSE IF Requests(op) THEN reqs \cup op.value ELSE reqs

\* The mirror when the thread has taken what is in the FIFO.
IdSoon(i) ==
    IF axi4lite_q = <<>> THEN tx_bufs[i].id ELSE IdAfter(axi4lite_q[1], i, tx_bufs[i].id)
RequestedSoon ==
    IF axi4lite_q = <<>> THEN trr ELSE RequestedAfter(axi4lite_q[1], trr)

DeviceType ==
    [cen : {0, 1}, afr : Words, isr : SUBSET Nat, level : Nat, ri : Nat,
     requested : SUBSET TxBufs, idw : [TxBufs -> Words], dlcw : [TxBufs -> Words],
     written : SUBSET TxBufs]

MirrorTyped ==
    /\ tx_bufs \in [TxBufs -> TxBuf] /\ trr \subseteq TxBufs
    /\ \A i \in TxBufs : tx_bufs[i].ready_req = FALSE

DeviceAhead ==
    /\ dut \in DeviceType
    /\ access = {} => /\ \A i \in dut.written : IdField(dut.idw[i]) = IdSoon(i)
                      /\ dut.requested \subseteq RequestedSoon
    /\ \A op \in access :
          /\ \A i \in dut.written : IdField(dut.idw[i]) = IdAfter(op, i, IdSoon(i))
          /\ dut.requested \subseteq RequestedAfter(op, RequestedSoon)

MirrorInv == OneEach /\ MirrorTyped /\ DeviceAhead

LEMMA PowerUpType == DeviceAtPowerUp \in DeviceType
BY SizeAssumption DEF DeviceAtPowerUp, DeviceType

LEMMA ResetDeviceType ==
    ASSUME NEW d \in DeviceType
    PROVE  /\ ResetDevice(d) \in DeviceType
           /\ ResetDevice(d).written = {} /\ ResetDevice(d).requested = {}
<1>1. d.idw \in [TxBufs -> Words] /\ d.dlcw \in [TxBufs -> Words]
  BY DEF DeviceType
<1>2. ResetDevice(d) = [DeviceAtPowerUp EXCEPT !.idw = d.idw, !.dlcw = d.dlcw]
  BY DEF ResetDevice
<1>3. ResetDevice(d) \in DeviceType
  BY <1>1, <1>2, PowerUpType DEF DeviceType
<1>4. /\ ResetDevice(d).written = DeviceAtPowerUp.written
      /\ ResetDevice(d).requested = DeviceAtPowerUp.requested
  BY <1>2, PowerUpType DEF DeviceType
<1>5. DeviceAtPowerUp.written = {} /\ DeviceAtPowerUp.requested = {}
  BY DEF DeviceAtPowerUp
<1> QED
  BY <1>3, <1>4, <1>5

LEMMA MirrorInit == ScbInit => MirrorInv
<1> SUFFICES ASSUME ScbInit PROVE MirrorTyped /\ DeviceAhead
  BY OneEachInit DEF MirrorInv
<1>1. tx_bufs = [i \in TxBufs |-> EmptyBuf] /\ trr = {}
  BY DEF ScbInit, Init
<1>2. MirrorTyped
  BY <1>1, EmptyBufType DEF MirrorTyped, EmptyBuf
<1>3. /\ dut = DeviceAtPowerUp /\ access = {} /\ axi4lite_q = <<>>
  BY DEF ScbInit
<1>4. dut.written = {} /\ dut.requested = {}
  BY <1>3 DEF DeviceAtPowerUp
<1> QED
  BY <1>2, <1>3, <1>4, PowerUpType DEF DeviceAhead

\* Without a buffer that is ready no frame is expected, so none is arbitrated.
LEMMA NothingExpected == MirrorTyped => ExpectedTxFrame = {} /\ Winner(tx_bufs) = {}
BY DEF MirrorTyped, ExpectedTxFrame, Winner, Pending

LEMMA SlotType == ASSUME NEW at \in Nat PROVE BufIdx(at) \in Nat /\ BufOffset(at) \in Nat
BY DEF BufIdx, BufOffset

\* The first word of a buffer, the one with its identifier.
LEMMA FirstWord ==
    ASSUME tx_bufs \in [TxBufs -> TxBuf], NEW i \in TxBufs, NEW w, WriteTxBuf(i, 0, w)
    PROVE  tx_bufs'[i].ready_req = tx_bufs[i].ready_req /\ tx_bufs'[i].id = IdField(w)
<1>1. tx_bufs[i] \in TxBuf
  OBVIOUS
<1>2. tx_bufs'[i].ready_req = tx_bufs[i].ready_req
  BY <1>1 DEF WriteTxBuf, TxBuf
<1>3. 0 - 2 \notin DataIndices
  BY SizeAssumption DEF DataIndices
<1>4. tx_bufs'[i].id = IdField(w)
  BY <1>1, <1>3 DEF WriteTxBuf, TxBuf
<1> QED
  BY <1>2, <1>4

\* What a write does to the mirror.
LEMMA MirrorWritten ==
    ASSUME MirrorTyped, NEW op, Legal(op), op.dir = "WRITE", MirrorWrite(op)
    PROVE  /\ MirrorTyped'
           /\ \A i \in TxBufs : tx_bufs'[i].id = IdAfter(op, i, tx_bufs[i].id)
           /\ trr' = RequestedAfter(op, trr)
<1> USE DEF regVars, errVars, reqVars, txVars, rxVars
<1>1. CASE op.target = "SRST"
  <2>1. tx_bufs' = [i \in TxBufs |-> EmptyBuf] /\ trr' = {}
    BY <1>1 DEF MirrorWrite, SoftReset, ResetState
  <2>2. MirrorTyped'
    BY <2>1, EmptyBufType DEF MirrorTyped, EmptyBuf
  <2> QED
    BY <1>1, <2>1, <2>2 DEF IdAfter, RequestedAfter, Resets, EmptyBuf
<1>2. CASE op.target = "TRR"
  <2>1. WriteTRR(op.value)
    BY <1>2 DEF MirrorWrite
  <2>2. tx_bufs' = tx_bufs /\ trr' = trr \cup op.value
    BY <2>1, NothingExpected DEF WriteTRR, ProcessTxArbitration
  <2>3. op.value \subseteq TxBufs
    BY <1>2 DEF Legal
  <2>4. MirrorTyped'
    BY <2>2, <2>3 DEF MirrorTyped
  <2> QED
    BY <1>2, <2>2, <2>4 DEF IdAfter, RequestedAfter, Resets, Requests, WritesId
<1>3. CASE op.target = "TCR"
  <2>1. WriteTCR(op.value)
    BY <1>3 DEF MirrorWrite
  <2>2. trr' = trr
    BY <2>1 DEF WriteTCR
  <2>3. tx_bufs' = [i \in TxBufs |->
            IF i \in op.value THEN [tx_bufs[i] EXCEPT !.ready_req = FALSE, !.valid = FALSE]
                              ELSE tx_bufs[i]]
    BY <2>1 DEF WriteTCR
  <2>4. ASSUME NEW i \in TxBufs
        PROVE  /\ tx_bufs'[i] \in TxBuf /\ tx_bufs'[i].ready_req = FALSE
               /\ tx_bufs'[i].id = tx_bufs[i].id
    <3>1. tx_bufs[i] \in TxBuf /\ tx_bufs[i].ready_req = FALSE
      BY DEF MirrorTyped
    <3>2. CASE i \in op.value
      BY <2>3, <3>1, <3>2 DEF TxBuf
    <3>3. CASE i \notin op.value
      BY <2>3, <3>1, <3>3
    <3> QED
      BY <3>2, <3>3
  <2>5. tx_bufs' \in [TxBufs -> TxBuf]
    BY <2>3, <2>4
  <2>6. MirrorTyped'
    BY <2>2, <2>4, <2>5 DEF MirrorTyped
  <2> QED
    BY <1>3, <2>2, <2>4, <2>6 DEF IdAfter, RequestedAfter, Resets, Requests, WritesId
<1>4. CASE op.target = "TXBUF" /\ BufIdx(op.at) \in TxBufs
  <2> DEFINE b == BufIdx(op.at)
             o == BufOffset(op.at)
  <2>1. WriteTxBuf(b, o, op.value)
    BY <1>4 DEF MirrorWrite
  <2>2. trr' = trr
    BY <2>1 DEF WriteTxBuf
  <2>3. b \in TxBufs /\ o \in Nat /\ op.value \in Words
    BY <1>4, SlotType DEF Legal
  <2>4. tx_bufs' \in [TxBufs -> TxBuf]
    BY <2>1, <2>3, WriteTxBufType DEF MirrorTyped
  <2>5. ASSUME NEW i \in TxBufs, i # b PROVE tx_bufs'[i] = tx_bufs[i]
    BY <2>1, <2>5 DEF WriteTxBuf, MirrorTyped
  <2>6. tx_bufs'[b].ready_req = FALSE
        /\ tx_bufs'[b].id = IF o = 0 THEN IdField(op.value) ELSE tx_bufs[b].id
    <3>1. tx_bufs[b] \in TxBuf /\ tx_bufs[b].ready_req = FALSE
      BY <2>3 DEF MirrorTyped
    <3>2. CASE o = 0
      BY <2>1, <2>3, <3>1, <3>2, FirstWord DEF MirrorTyped
    <3>3. CASE o = 1
      BY <2>1, <2>3, <3>1, <3>3 DEF WriteTxBuf, MirrorTyped, TxBuf
    <3>4. CASE o \notin {0, 1} /\ o - 2 \in DataIndices
      BY <2>1, <2>3, <3>1, <3>4 DEF WriteTxBuf, MirrorTyped, TxBuf
    <3>5. CASE o \notin {0, 1} /\ o - 2 \notin DataIndices
      BY <2>1, <2>3, <3>1, <3>5 DEF WriteTxBuf, MirrorTyped, TxBuf
    <3> QED
      BY <3>2, <3>3, <3>4, <3>5
  <2>7. MirrorTyped'
    BY <2>2, <2>4, <2>5, <2>6 DEF MirrorTyped
  <2>8. \A i \in TxBufs : tx_bufs'[i].id = IdAfter(op, i, tx_bufs[i].id)
    BY <1>4, <2>3, <2>5, <2>6 DEF IdAfter, Resets, WritesId
  <2> QED
    BY <1>4, <2>2, <2>7, <2>8 DEF RequestedAfter, Resets, Requests
<1>5. CASE /\ op.target \notin {"SRST", "TRR", "TCR"}
           /\ ~(op.target = "TXBUF" /\ BufIdx(op.at) \in TxBufs)
  <2>1. UNCHANGED <<tx_bufs, trr>>
    BY <1>5 DEF MirrorWrite, WriteSRR, WritePlain, WriteICR, vars
  <2>2. MirrorTyped'
    BY <2>1 DEF MirrorTyped
  <2> QED
    BY <1>5, <2>1, <2>2 DEF IdAfter, RequestedAfter, Resets, Requests, WritesId
<1> QED
  BY <1>1, <1>2, <1>3, <1>4, <1>5

\* What it did to the device: to the words of its buffers ...
LEMMA WordStored ==
    ASSUME dut \in DeviceType, NEW b, NEW offset, NEW w \in Words
    PROVE  LET d == StoreWord(dut, b, offset, w)
           IN  /\ d \in DeviceType /\ d.requested = dut.requested
               /\ \A i \in d.written :
                     \/ i = b /\ offset = 0 /\ d.idw[i] = w
                     \/ /\ ~(i = b /\ offset = 0)
                        /\ i \in dut.written /\ d.idw[i] = dut.idw[i]
<1> DEFINE d == StoreWord(dut, b, offset, w)
<1>1. CASE b \in TxBufs /\ offset = 0
  <2>1. d = [dut EXCEPT !.idw = [@ EXCEPT ![b] = w], !.written = @ \cup {b}]
    BY <1>1 DEF StoreWord
  <2>2. [dut.idw EXCEPT ![b] = w] \in [TxBufs -> Words] /\ dut.written \cup {b} \in SUBSET TxBufs
    BY <1>1 DEF DeviceType
  <2>3. d \in DeviceType
    BY <2>1, <2>2 DEF DeviceType
  <2>4. d.idw = [dut.idw EXCEPT ![b] = w] /\ d.written = dut.written \cup {b}
        /\ d.requested = dut.requested
    BY <2>1 DEF DeviceType
  <2>5. dut.idw \in [TxBufs -> Words] /\ dut.written \subseteq TxBufs
    BY DEF DeviceType
  <2> QED
    BY <1>1, <2>3, <2>4, <2>5
<1>2. CASE b \in TxBufs /\ offset = 4
  <2>1. d = [dut EXCEPT !.dlcw = [@ EXCEPT ![b] = w]]
    BY <1>2 DEF StoreWord
  <2>2. [dut.dlcw EXCEPT ![b] = w] \in [TxBufs -> Words]
    BY DEF DeviceType
  <2>3. d \in DeviceType
    BY <2>1, <2>2 DEF DeviceType
  <2>4. d.idw = dut.idw /\ d.written = dut.written /\ d.requested = dut.requested
    BY <2>1 DEF DeviceType
  <2> QED
    BY <1>2, <2>3, <2>4
<1>3. CASE ~(b \in TxBufs /\ offset = 0) /\ ~(b \in TxBufs /\ offset = 4)
  <2>1. d = dut
    BY <1>3 DEF StoreWord
  <2>2. dut.written \subseteq TxBufs
    BY DEF DeviceType
  <2> QED
    BY <1>3, <2>1, <2>2
<1> QED
  BY <1>1, <1>2, <1>3

\* ... and to everything.  id is an identifier the mirror may have.
LEMMA DeviceWritten ==
    ASSUME dut \in DeviceType, NEW op, Legal(op), op.dir = "WRITE"
    PROVE  /\ DeviceWrite(op) \in DeviceType
           /\ \A i \in DeviceWrite(op).written :
                 \A id : (i \in dut.written => id = IdField(dut.idw[i]))
                          => IdField(DeviceWrite(op).idw[i]) = IdAfter(op, i, id)
           /\ DeviceWrite(op).requested \subseteq RequestedAfter(op, dut.requested)
<1> USE DEF IdAfter, RequestedAfter, Resets, Requests, WritesId
<1> DEFINE d == DeviceWrite(op)
<1>1. CASE op.target = "SRST"
  <2>1. d = ResetDevice(dut)
    BY <1>1 DEF DeviceWrite
  <2> QED
    BY <1>1, <2>1, ResetDeviceType
<1>2. CASE op.target = "CEN"
  <2>1. d = [dut EXCEPT !.cen = op.value] /\ op.value \in {0, 1}
    BY <1>2 DEF DeviceWrite, Legal
  <2> QED
    BY <1>2, <2>1 DEF DeviceType
<1>3. CASE op.target = "AFR"
  <2>1. d = [dut EXCEPT !.afr = op.value] /\ op.value \in Words
    BY <1>3 DEF DeviceWrite, Legal
  <2> QED
    BY <1>3, <2>1 DEF DeviceType
<1>4. CASE op.target = "ICR"
  <2>1. d = [dut EXCEPT !.isr = @ \ op.value]
    BY <1>4 DEF DeviceWrite
  <2> QED
    BY <1>4, <2>1 DEF DeviceType
<1>5. CASE op.target = "FSR"
  <2>1. d = IncrementReadIndex(dut)
    BY <1>5 DEF DeviceWrite
  <2>2. CASE dut.level = 0
    BY <1>5, <2>1, <2>2 DEF IncrementReadIndex
  <2>3. CASE dut.level # 0
    <3>1. d = [dut EXCEPT !.level = @ - 1, !.ri = (@ + 1) % RxDepth]
      BY <2>1, <2>3 DEF IncrementReadIndex
    <3>2. dut.level - 1 \in Nat /\ dut.ri + 1 \in Nat
      BY <2>3 DEF DeviceType
    <3>3. (dut.ri + 1) % RxDepth \in Nat
      BY <3>2, SizeAssumption, DivMod
    <3>4. d \in DeviceType
      BY <3>1, <3>2, <3>3 DEF DeviceType
    <3>5. d.written = dut.written /\ d.idw = dut.idw /\ d.requested = dut.requested
      BY <3>1 DEF DeviceType
    <3> QED
      BY <1>5, <3>4, <3>5
  <2> QED
    BY <2>2, <2>3
<1>6. CASE op.target = "TRR"
  <2>1. d = [dut EXCEPT !.requested = @ \cup op.value]
    BY <1>6 DEF DeviceWrite
  <2> QED
    BY <1>6, <2>1 DEF DeviceType, Legal
<1>7. CASE op.target = "TCR"
  <2>1. d = [dut EXCEPT !.requested = @ \ op.value]
    BY <1>7 DEF DeviceWrite
  <2> QED
    BY <1>7, <2>1 DEF DeviceType
<1>8. CASE op.target = "TXBUF"
  <2>1. d = StoreWord(dut, BufIdx(op.at), BufOffset(op.at), op.value) /\ op.value \in Words
    BY <1>8 DEF DeviceWrite, Legal
  <2>2. /\ d \in DeviceType /\ d.requested = dut.requested
        /\ \A i \in d.written :
              \/ i = BufIdx(op.at) /\ BufOffset(op.at) = 0 /\ d.idw[i] = op.value
              \/ /\ ~(i = BufIdx(op.at) /\ BufOffset(op.at) = 0)
                 /\ i \in dut.written /\ d.idw[i] = dut.idw[i]
    BY <2>1, WordStored
  <2> QED
    BY <1>8, <2>2
<1>9. CASE op.target \notin {"SRST", "CEN", "AFR", "ICR", "FSR", "TRR", "TCR", "TXBUF"}
  <2>1. d = dut
    BY <1>9 DEF DeviceWrite
  <2> QED
    BY <1>9, <2>1
<1> QED
  BY <1>1, <1>2, <1>3, <1>4, <1>5, <1>6, <1>7, <1>8, <1>9

\* A received frame changes neither.
LEMMA FrameTaken ==
    ASSUME NEW d \in DeviceType, NEW f
    PROVE  /\ TakeFrame(d, f) \in DeviceType /\ TakeFrame(d, f).idw = d.idw
           /\ TakeFrame(d, f).requested = d.requested /\ TakeFrame(d, f).written = d.written
<1> DEFINE t == TakeFrame(d, f)
<1>1. CASE t = d
  BY <1>1
<1>2. CASE t = [d EXCEPT !.level = @ + 1, !.isr = @ \cup {4}]
  <2>1. d.level + 1 \in Nat /\ d.isr \cup {4} \in SUBSET Nat
    BY DEF DeviceType
  <2>2. t \in DeviceType
    BY <1>2, <2>1 DEF DeviceType
  <2> QED
    BY <1>2, <2>2 DEF DeviceType
<1>3. CASE t = [d EXCEPT !.isr = @ \cup {6}]
  <2>1. d.isr \cup {6} \in SUBSET Nat
    BY DEF DeviceType
  <2>2. t \in DeviceType
    BY <1>3, <2>1 DEF DeviceType
  <2> QED
    BY <1>3, <2>2 DEF DeviceType
<1>4. DeviceIsr.RXOK = 4 /\ DeviceIsr.RXFOFLW = 6
  BY DEF DeviceIsr
<1> QED
  BY <1>1, <1>2, <1>3, <1>4 DEF TakeFrame

LEMMA MirrorStep == MirrorInv /\ [ScbNext]_scbVars => MirrorInv'
<1> SUFFICES ASSUME OneEach, MirrorTyped, DeviceAhead, [ScbNext]_scbVars
             PROVE  MirrorTyped' /\ DeviceAhead'
  BY OneEachStep DEF MirrorInv
<1> USE DEF queues, results, bench
<1>0. dut.written \subseteq TxBufs
  BY DEF DeviceAhead, DeviceType
<1>1. CASE UNCHANGED <<tx_bufs, trr, dut, access, axi4lite_q>>
  BY <1>1 DEF MirrorTyped, DeviceAhead, IdSoon, RequestedSoon
<1>2. CASE TxThread
  <2>1. UNCHANGED vars
    BY <1>2, NothingExpected DEF TxThread, ProcessTxFrame
  <2> QED
    BY <1>1, <1>2, <2>1 DEF TxThread, vars, txVars, reqVars
<1>3. CASE RxThread
  <2>1. UNCHANGED <<tx_bufs, trr>>
    BY <1>3 DEF RxThread, ProcessRxFrame, OnCanFrameReceived, vars, txVars, reqVars
  <2> QED
    BY <1>1, <1>3, <2>1 DEF RxThread
<1>4. CASE AxiThread
  <2>1. PICK op : axi4lite_q = <<op>> /\ Legal(op)
    BY <1>4 DEF AxiThread, OneEach
  <2>2. Head(axi4lite_q) = op /\ axi4lite_q[1] = op /\ axi4lite_q # <<>> /\ Tail(axi4lite_q) = <<>>
    BY <2>1, SingleQueue
  <2>3. ProcessAxi4liteTr(op) /\ axi4lite_q' = <<>> /\ UNCHANGED <<dut, access>>
    BY <1>4, <2>2 DEF AxiThread
  <2>4. /\ MirrorTyped'
        /\ \A i \in TxBufs : tx_bufs'[i].id = IdAfter(op, i, tx_bufs[i].id)
        /\ trr' = RequestedAfter(op, trr)
    <3>1. CASE op.dir = "WRITE"
      <4>1. MirrorWrite(op)
        BY <2>3, <3>1 DEF ProcessAxi4liteTr
      <4> QED
        BY <2>1, <3>1, <4>1, MirrorWritten
    <3>2. CASE op.dir # "WRITE"
      <4>1. UNCHANGED <<tx_bufs, trr>>
        BY <2>3, <3>2 DEF ProcessAxi4liteTr, vars, txVars, reqVars
      <4> QED
        BY <3>2, <4>1 DEF MirrorTyped, IdAfter, RequestedAfter, Resets, Requests, WritesId
    <3> QED
      BY <3>1, <3>2
  <2>5. \A i \in TxBufs : IdSoon(i)' = IdSoon(i)
    BY <2>2, <2>3, <2>4 DEF IdSoon
  <2>6. RequestedSoon' = RequestedSoon
    BY <2>2, <2>3, <2>4 DEF RequestedSoon
  <2> QED
    BY <1>0, <2>3, <2>4, <2>5, <2>6 DEF DeviceAhead
<1>5. CASE DeviceReceives
  <2>1. PICK w \in wire : dut' = TakeFrame(dut, w.frame)
    BY <1>5 DEF DeviceReceives
  <2>2. UNCHANGED <<tx_bufs, trr, access, axi4lite_q>>
    BY <1>5 DEF DeviceReceives, vars, txVars, reqVars
  <2>3. /\ dut' \in DeviceType /\ dut'.idw = dut.idw
        /\ dut'.requested = dut.requested /\ dut'.written = dut.written
    BY <2>1, FrameTaken DEF DeviceAhead
  <2> QED
    BY <2>2, <2>3 DEF MirrorTyped, DeviceAhead, IdSoon, RequestedSoon
<1>6. ASSUME NEW op \in HostOps, HostStart(op) PROVE MirrorTyped' /\ DeviceAhead'
  <2>1. Legal(op)
    BY ScoreboardAssumption DEF Legal
  <2>2. access = {} /\ UNCHANGED <<tx_bufs, trr, axi4lite_q>>
    BY <1>6 DEF HostStart, vars, txVars, reqVars
  <2>3. MirrorTyped'
    BY <2>2 DEF MirrorTyped
  <2>4. /\ \A i \in dut.written : IdField(dut.idw[i]) = IdSoon(i)
        /\ \A i \in TxBufs : IdSoon(i)' = IdSoon(i)
        /\ dut.requested \subseteq RequestedSoon /\ RequestedSoon' = RequestedSoon
        /\ dut \in DeviceType
    BY <2>2 DEF DeviceAhead, IdSoon, RequestedSoon
  <2>5. CASE op.dir = "WRITE" /\ dut' = DeviceWrite(op) /\ access' = {op}
    <3>1. /\ dut' \in DeviceType
          /\ \A i \in dut'.written : IdField(dut'.idw[i]) = IdAfter(op, i, IdSoon(i))
          /\ dut'.requested \subseteq RequestedAfter(op, dut.requested)
      BY <2>1, <2>4, <2>5, DeviceWritten
    <3>3. dut'.written \subseteq TxBufs
      BY <3>1 DEF DeviceType
    <3>4. \A i \in dut'.written : IdAfter(op, i, IdSoon(i)) = IdAfter(op, i, IdSoon(i)')
      BY <2>4, <3>3 DEF IdAfter
    <3>2. RequestedAfter(op, dut.requested) \subseteq RequestedAfter(op, RequestedSoon')
      BY <2>4 DEF RequestedAfter
    <3> QED
      BY <2>3, <2>5, <3>1, <3>2, <3>4 DEF DeviceAhead
  <2>6. CASE UNCHANGED dut /\ access' = {[dir |-> "READ", target |-> op.target, at |-> op.at,
                                          value |-> DeviceRead(op.target), resp |-> op.resp]}
    <3> DEFINE r == [dir |-> "READ", target |-> op.target, at |-> op.at,
                     value |-> DeviceRead(op.target), resp |-> op.resp]
    <3>1. /\ \A i \in TxBufs : IdAfter(r, i, IdSoon(i)') = IdSoon(i)'
          /\ RequestedAfter(r, RequestedSoon') = RequestedSoon'
      BY DEF IdAfter, RequestedAfter, Resets, Requests, WritesId
    <3> QED
      BY <1>0, <2>3, <2>4, <2>6, <3>1 DEF DeviceAhead
  <2> QED
    BY <1>6, <2>5, <2>6 DEF HostStart
<1>7. CASE MonitorAxi
  <2>1. PICK op \in access : axi4lite_q' = Append(axi4lite_q, op)
    BY <1>7 DEF MonitorAxi
  <2>2. axi4lite_q = <<>> /\ access' = {} /\ UNCHANGED <<tx_bufs, trr, dut>>
    BY <1>7 DEF MonitorAxi, OneEach, vars, txVars, reqVars
  <2>3. axi4lite_q' = <<op>> /\ axi4lite_q' # <<>> /\ axi4lite_q'[1] = op
    BY <2>1, <2>2, SingleQueue
  <2>4. \A i \in TxBufs : IdSoon(i)' = IdAfter(op, i, IdSoon(i))
    BY <2>2, <2>3 DEF IdSoon
  <2>5. RequestedSoon' = RequestedAfter(op, RequestedSoon)
    BY <2>2, <2>3 DEF RequestedSoon
  <2> QED
    BY <1>0, <2>2, <2>4, <2>5 DEF DeviceAhead, MirrorTyped
<1>8. ASSUME NEW i \in TxBufs, DeviceTransmits(i) PROVE MirrorTyped' /\ DeviceAhead'
  <2>1. dut' = [dut EXCEPT !.requested = @ \ {i}, !.isr = @ \cup {1}]
        /\ UNCHANGED <<tx_bufs, trr, access, axi4lite_q>>
    BY <1>8 DEF DeviceTransmits, DeviceIsr, vars, txVars, reqVars
  <2>2. dut.requested \ {i} \in SUBSET TxBufs /\ dut.isr \cup {1} \in SUBSET Nat
    BY DEF DeviceAhead, DeviceType
  <2>3. dut' \in DeviceType
    BY <2>1, <2>2 DEF DeviceAhead, DeviceType
  <2>4. /\ dut'.idw = dut.idw /\ dut'.requested \subseteq dut.requested
        /\ dut'.written = dut.written
    BY <2>1 DEF DeviceAhead, DeviceType
  <2> QED
    BY <1>0, <2>1, <2>3, <2>4 DEF MirrorTyped, DeviceAhead, IdSoon, RequestedSoon
<1>9. CASE \/ TickThread \/ NextEdge \/ (\E f \in Frames : InjectFrame(f))
           \/ MonitorRx \/ (\E f \in Frames : DeviceSignals(f)) \/ UNCHANGED scbVars
  BY <1>1, <1>9 DEF TickThread, Tick, NextEdge, InjectFrame, MonitorRx, DeviceSignals, scbVars,
                    vars, txVars, reqVars
<1> QED
  BY <1>2, <1>3, <1>4, <1>5, <1>6, <1>7, <1>8, <1>9 DEF ScbNext

\* For any number of buffers, accesses and edges the mirror's TX buffers have the
\* identifiers and the requests of the device's once nothing is under way, although
\* the mirror sees every write later (process_axi4lite_tr, write_tx_buf).
THEOREM BuffersAreMirrored == ScbSpec => []TxBuffersMirrored
<1>1. MirrorInv => TxBuffersMirrored
  BY DEF MirrorInv, DeviceAhead, TxBuffersMirrored, Drained, IdSoon, RequestedSoon
<1> QED
  BY <1>1, MirrorInit, MirrorStep, PTL DEF ScbSpec
=============================================================================
