--------------------------- MODULE CanfdScoreboard ---------------------------
(***************************************************************************)
(* The CAN FD scoreboard (canfd/env/canfd_scoreboard.sv) around its        *)
(* reference model, from the release of the reset on.                      *)
(*                                                                         *)
(* Three monitors publish into three analysis FIFOs; a thread per FIFO     *)
(* feeds the reference model, and a fourth one ticks it at every clock     *)
(* edge.  What is published at an edge is processed before time advances   *)
(* to the next one, but the threads woken by the same edge run in any      *)
(* order.                                                                  *)
(*                                                                         *)
(* The device under test is external.  It is modelled after its product    *)
(* guide (pg223_canfd_中文翻译.md), with registers, conditions and layouts of its *)
(* own; only the addresses of the TX buffers are those the tests use.  It  *)
(* takes over a received frame and shows it in its registers at one        *)
(* moment, the monitor publishes the frame at another, in either order,    *)
(* and a test reads and writes registers at any time in between.           *)
(***************************************************************************)
EXTENDS CanfdRefModel

CONSTANTS
    HostOps,        \* the AXI4-Lite transactions a test may start
    HostBudget,     \* bound on the number of them
    FrameBudget,    \* bound on the number of data frames injected
    EdgeBound,      \* a test starts nothing after this many clock edges
    OverloadFrames  \* those of ErrorFrames that are overload frames

ASSUME ScoreboardAssumption ==
    /\ HostBudget \in Nat /\ FrameBudget \in Nat /\ EdgeBound \in Nat
    /\ OverloadFrames \subseteq ErrorFrames
    /\ FrameBudget <= CountBound /\ EdgeBound + 1 < Timestamps
    /\ \A op \in HostOps :
          /\ op.dir \in {"READ", "WRITE"} /\ op.at \in Nat
          /\ op.dir = "WRITE" /\ op.target \in {"TXBUF", "AFR"} => op.value \in Words
          /\ op.dir = "WRITE" /\ op.target = "CEN" => op.value \in {0, 1}
          /\ op.dir = "WRITE" /\ op.target \in {"TRR", "TCR"} => op.value \subseteq TxBufs

VARIABLES
    canphy_tx_q, canphy_rx_q, axi4lite_q,       \* the analysis FIFOs
    canphy_tx_count, canphy_rx_count,
    pass_count, fail_count,
    served,         \* the threads of the test bench that ran at this edge
    dut,            \* the device
    wire,           \* the frame on the RX bus, and who has yet to see its end:
                    \* at most one element
    access,         \* the AXI4-Lite transaction on the bus: at most one element
    ops, frames     \* what is left of the budgets

queues  == <<canphy_tx_q, canphy_rx_q, axi4lite_q>>
results == <<canphy_tx_count, canphy_rx_count, pass_count, fail_count>>
bench   == <<dut, wire, access, ops, frames>>
scbVars == <<vars, queues, results, served, bench>>

-----------------------------------------------------------------------------
(* AXI4-Lite transactions.  TX buffer addresses are offsets from 0x100, ISR *)
(* and the mask of ICR are the sets of their bits.                          *)

Targets == {"SRST", "CEN", "ICR", "TRR", "TCR", "AFR", "FSR", "TXBUF", "ISR", "UNMAPPED"}

\* buf_idx and offset of process_axi4lite_tr: 16 bytes per buffer, as the tests
\* write them (canfd_common_task_function.sv:102; 72 bytes in pg223).
BufIdx(at)  == at \div 16
BufOffset(at) == at % 16

\* The response the scoreboard expects: DECERR at 0x8000 and above.
ExpectedResp(target) == IF target = "UNMAPPED" THEN "DECERR" ELSE "OKAY"

-----------------------------------------------------------------------------
(* The device, after pg223.  RX FIFO 1 is not enabled, a filter that is in *)
(* use accepts every frame, and the timestamp counter does not wrap.       *)

\* Bits of its ISR (table 11).
DeviceIsr == [TXOK |-> 1, RXOK |-> 4, RXFOFLW |-> 6]

\* CEN, AFR, ISR, the fill level and the read index of RX FIFO 0, the TX buffers
\* with a ready request, the first two words of every TX buffer, and the buffers
\* whose first word was written since the last reset.
DeviceAtPowerUp ==
    [cen |-> 0, afr |-> 0, isr |-> {}, level |-> 0, ri |-> 0, requested |-> {},
     idw |-> [i \in TxBufs |-> 0], dlcw |-> [i \in TxBufs |-> 0], written |-> {}]

\* A soft reset clears the registers, and never the block RAM of the buffers (1141).
ResetDevice(d) ==
    [DeviceAtPowerUp EXCEPT !.idw = d.idw, !.dlcw = d.dlcw]

\* The end of a frame: nothing is received in configuration mode (322) and
\* nothing stored while no filter is in use (720); a full FIFO loses the frame.
TakeFrame(d, f) ==
    IF f \in ErrorFrames \/ d.cen = 0 \/ d.afr = 0 THEN d
    ELSE IF d.level < RxDepth
         THEN [d EXCEPT !.level = @ + 1, !.isr = @ \cup {DeviceIsr.RXOK}]
         ELSE [d EXCEPT !.isr = @ \cup {DeviceIsr.RXFOFLW}]

\* The host has read a message (IRI of FSR).
IncrementReadIndex(d) ==
    IF d.level = 0 THEN d ELSE [d EXCEPT !.level = @ - 1, !.ri = (@ + 1) % RxDepth]

\* The first or the second word of buffer b.
StoreWord(d, b, offset, w) ==
    CASE b \in TxBufs /\ offset = 0 ->
            [d EXCEPT !.idw = [@ EXCEPT ![b] = w], !.written = @ \cup {b}]
      [] b \in TxBufs /\ offset = 4 -> [d EXCEPT !.dlcw = [@ EXCEPT ![b] = w]]
      [] OTHER -> d

\* What a write does to the device.
DeviceWrite(op) ==
    CASE op.target = "SRST" -> ResetDevice(dut)
      [] op.target = "CEN"  -> [dut EXCEPT !.cen = op.value]
      [] op.target = "AFR"  -> [dut EXCEPT !.afr = op.value]
      [] op.target = "ICR"  -> [dut EXCEPT !.isr = @ \ op.value]
      [] op.target = "FSR"  -> IncrementReadIndex(dut)
      [] op.target = "TRR"  -> [dut EXCEPT !.requested = @ \cup op.value]
      [] op.target = "TCR"  -> [dut EXCEPT !.requested = @ \ op.value]
      [] op.target = "TXBUF" -> StoreWord(dut, BufIdx(op.at), BufOffset(op.at), op.value)
      [] OTHER -> dut

\* ISR, and FSR with RI in bits 5:0 and FL in 14:8 (table 27).
DeviceRead(target) ==
    CASE target = "ISR" -> dut.isr
      [] target = "FSR" -> dut.ri + 256 * dut.level
      [] target = "AFR" -> dut.afr
      [] OTHER -> {}

-----------------------------------------------------------------------------
(* The scoreboard                                                          *)

ScbInit ==
    /\ Init
    /\ canphy_tx_q = <<>> /\ canphy_rx_q = <<>> /\ axi4lite_q = <<>>
    /\ canphy_tx_count = 0 /\ canphy_rx_count = 0
    /\ pass_count = 0 /\ fail_count = 0
    /\ served = {}
    /\ dut = DeviceAtPowerUp
    /\ wire = {} /\ access = {}
    /\ ops = HostBudget /\ frames = FrameBudget

\* get_expected_tx_frame: the buffer arbitration would pick next, if any.
ExpectedTxFrame ==
    {[id |-> tx_bufs[i].id, format |-> tx_bufs[i].format, dlc |-> tx_bufs[i].dlc] :
        i \in Winner(tx_bufs)}

\* process_tx_frame, which skips error frames only.  Without an expectation it
\* only warns; arbitration then is not called either, and does nothing where it
\* is called in vain.
ProcessTxFrame(tr) ==
    IF tr \in ErrorFrames \ OverloadFrames \/ ExpectedTxFrame = {}
    THEN UNCHANGED <<vars, results>>
    ELSE /\ IF tr \in ExpectedTxFrame
            THEN pass_count' = pass_count + 1 /\ UNCHANGED fail_count
            ELSE fail_count' = fail_count + 1 /\ UNCHANGED pass_count
         /\ ProcessTxArbitration
         /\ canphy_tx_count' = canphy_tx_count + 1
         /\ UNCHANGED <<canphy_rx_count, regVars, errVars, reqVars, rxVars, filters, tsr>>

\* Mutant: the count comes before the early return.
ProcessRxFrameCountsAll(tr) ==
    /\ IF tr \in ErrorFrames THEN UNCHANGED vars ELSE OnCanFrameReceived(tr)
    /\ canphy_rx_count' = canphy_rx_count + 1
    /\ UNCHANGED <<canphy_tx_count, pass_count, fail_count>>

ProcessRxFrame(tr) ==
    IF tr \in ErrorFrames
    THEN UNCHANGED <<vars, results>>
    ELSE /\ OnCanFrameReceived(tr)
         /\ canphy_rx_count' = canphy_rx_count + 1
         /\ UNCHANGED <<canphy_tx_count, pass_count, fail_count>>

\* The bits of ISR the mirror raises.
IsrBit == [EWARN |-> 0, TXOK |-> 2, RXOK |-> 3, RXOVF |-> 4, TSCNT |-> 7]

\* ref_model.write_reg (which has no case for FSR), and write_tx_buf for the addresses of the buffers.
MirrorWrite(tr) ==
    CASE tr.target = "SRST" -> SoftReset
      [] tr.target = "CEN"  -> WriteSRR(tr.value = 1)
      [] tr.target = "AFR"  -> WritePlain("AFR", tr.value)
      [] tr.target = "ICR"  -> WriteICR({flag \in IsrFlags : IsrBit[flag] \in tr.value})
      [] tr.target = "TRR"  -> WriteTRR(tr.value)
      [] tr.target = "TCR"  -> WriteTCR(tr.value)
      [] tr.target = "TXBUF" /\ BufIdx(tr.at) \in TxBufs ->
            WriteTxBuf(BufIdx(tr.at), BufOffset(tr.at), tr.value)
      [] OTHER -> UNCHANGED vars

\* ref_model.read_reg of the registers the modelled tests read; FSR is depth1 and
\* depth0, six bits each.
ReadReg(target) ==
    CASE target = "ISR" -> {IsrBit[flag] : flag \in isr}
      [] target = "FSR" -> fsr[0] + FillLevels * fsr[1]
      [] target = "AFR" -> regs["AFR"]

\* Differences of a read: only registers up to 0xFF are compared.
ReadPasses(tr) == tr.dir = "READ" /\ tr.target # "UNMAPPED" /\ tr.value = ReadReg(tr.target)
ReadFails(tr)  == tr.dir = "READ" /\ tr.target # "UNMAPPED" /\ tr.value # ReadReg(tr.target)
BadResponse(tr) == tr.resp # ExpectedResp(tr.target)

ProcessAxi4liteTr(tr) ==
    /\ IF tr.dir = "WRITE" THEN MirrorWrite(tr) ELSE UNCHANGED vars
    /\ pass_count' = pass_count + (IF ReadPasses(tr) THEN 1 ELSE 0)
    /\ fail_count' = fail_count + (IF ReadFails(tr) THEN 1 ELSE 0)
                                + (IF BadResponse(tr) THEN 1 ELSE 0)
    /\ UNCHANGED <<canphy_tx_count, canphy_rx_count>>

\* The four threads of run_phase.
TxThread ==
    /\ canphy_tx_q # <<>>
    /\ ProcessTxFrame(Head(canphy_tx_q))
    /\ canphy_tx_q' = Tail(canphy_tx_q)
    /\ UNCHANGED <<canphy_rx_q, axi4lite_q, served, bench>>

\* Mutant: the thread waits for room in the mirror's FIFO.
RxThreadBlocks ==
    /\ canphy_rx_q # <<>> /\ Len(rx_fifo[0]) < RxDepth
    /\ ProcessRxFrame(Head(canphy_rx_q))
    /\ canphy_rx_q' = Tail(canphy_rx_q)
    /\ UNCHANGED <<canphy_tx_q, axi4lite_q, served, bench>>

RxThread ==
    /\ canphy_rx_q # <<>>
    /\ ProcessRxFrame(Head(canphy_rx_q))
    /\ canphy_rx_q' = Tail(canphy_rx_q)
    /\ UNCHANGED <<canphy_tx_q, axi4lite_q, served, bench>>

AxiThread ==
    /\ axi4lite_q # <<>>
    /\ ProcessAxi4liteTr(Head(axi4lite_q))
    /\ axi4lite_q' = Tail(axi4lite_q)
    /\ UNCHANGED <<canphy_tx_q, canphy_rx_q, served, bench>>

TickThread ==
    /\ "tick" \notin served
    /\ Tick
    /\ served' = served \cup {"tick"}
    /\ UNCHANGED <<queues, results, bench>>

-----------------------------------------------------------------------------
(* The bench around it: clock, monitors, test and device.                  *)

Drained == canphy_tx_q = <<>> /\ canphy_rx_q = <<>> /\ axi4lite_q = <<>>

\* Time advances when the threads woken at this edge have finished.
NextEdge ==
    /\ Drained /\ "tick" \in served
    /\ tsr <= EdgeBound
    /\ served' = {}
    /\ UNCHANGED <<vars, queues, results, bench>>

Idle == wire = {} /\ access = {} /\ Drained

\* A frame begins on the RX bus.
InjectFrame(f) ==
    /\ frames > 0 /\ wire = {} /\ tsr < EdgeBound
    /\ wire' = {[frame |-> f, due |-> {"device", "monitor"}]}
    /\ frames' = IF f \in ErrorFrames THEN frames ELSE frames - 1
    /\ UNCHANGED <<vars, queues, results, served, dut, access, ops>>

\* The frame leaves the bus when both the device and the monitor have it.
SeenBy(w, one) ==
    IF w.due = {one} THEN {} ELSE {[frame |-> w.frame, due |-> w.due \ {one}]}

\* The end of the frame for the device.
DeviceReceives ==
    \E w \in wire :
        /\ "device" \in w.due
        /\ dut' = TakeFrame(dut, w.frame)
        /\ wire' = SeenBy(w, "device")
        /\ UNCHANGED <<vars, queues, results, served, access, ops, frames>>

\* The end of the frame for the monitor.
MonitorRx ==
    \E w \in wire :
        /\ "monitor" \in w.due /\ "rx" \notin served
        /\ canphy_rx_q' = Append(canphy_rx_q, w.frame)
        /\ served' = served \cup {"rx"}
        /\ wire' = SeenBy(w, "monitor")
        /\ UNCHANGED <<vars, canphy_tx_q, axi4lite_q, results, dut, access, ops, frames>>

\* The test starts an access; the device serves it.
HostStart(op) ==
    /\ ops > 0 /\ access = {} /\ tsr < EdgeBound
    /\ ops' = ops - 1
    /\ \/ /\ op.dir = "WRITE"
          /\ dut' = DeviceWrite(op)
          /\ access' = {op}
       \/ /\ op.dir = "READ"
          /\ access' = {[dir |-> "READ", target |-> op.target, at |-> op.at,
                         value |-> DeviceRead(op.target), resp |-> op.resp]}
          /\ UNCHANGED dut
    /\ UNCHANGED <<vars, queues, results, served, wire, frames>>

MonitorAxi ==
    \E op \in access :
        /\ "axi" \notin served
        /\ axi4lite_q' = Append(axi4lite_q, op)
        /\ served' = served \cup {"axi"}
        /\ access' = {}
        /\ UNCHANGED <<vars, canphy_tx_q, canphy_rx_q, results, dut, wire, ops, frames>>

\* The device sends a requested buffer and the monitor publishes the frame.
DeviceTransmits(i) ==
    /\ "tx" \notin served /\ dut.cen = 1 /\ i \in dut.requested
    /\ canphy_tx_q' = Append(canphy_tx_q,
          [id |-> IdField(dut.idw[i]), format |-> FormatField(dut.idw[i]),
           dlc |-> DlcField(dut.dlcw[i])])
    /\ dut' = [dut EXCEPT !.requested = @ \ {i}, !.isr = @ \cup {DeviceIsr.TXOK}]
    /\ served' = served \cup {"tx"}
    /\ UNCHANGED <<vars, canphy_rx_q, axi4lite_q, results, wire, access, ops, frames>>

\* It may also signal an error or an overload.
DeviceSignals(f) ==
    /\ "tx" \notin served /\ dut.cen = 1 /\ f \in ErrorFrames
    /\ canphy_tx_q' = Append(canphy_tx_q, f)
    /\ served' = served \cup {"tx"}
    /\ UNCHANGED <<vars, canphy_rx_q, axi4lite_q, results, bench>>

-----------------------------------------------------------------------------
ScbNext ==
    \/ TxThread \/ RxThread \/ AxiThread \/ TickThread
    \/ NextEdge
    \/ \E f \in Frames : InjectFrame(f)
    \/ DeviceReceives \/ MonitorRx
    \/ \E op \in HostOps : HostStart(op)
    \/ MonitorAxi
    \/ \E i \in TxBufs : DeviceTransmits(i)
    \/ \E f \in Frames : DeviceSignals(f)

\* A thread that is woken runs, a frame on the bus comes to its end, and a
\* transaction the device has served is seen by the monitor.
Fairness ==
    /\ WF_scbVars(TxThread) /\ WF_scbVars(RxThread) /\ WF_scbVars(AxiThread)
    /\ WF_scbVars(TickThread) /\ WF_scbVars(NextEdge)
    /\ WF_scbVars(DeviceReceives) /\ WF_scbVars(MonitorRx) /\ WF_scbVars(MonitorAxi)

ScbSpec == ScbInit /\ [][ScbNext]_scbVars /\ Fairness

-----------------------------------------------------------------------------
(* Properties                                                              *)

\* The scoreboard reports no mismatch.  The device behaves as its product guide
\* says, so none of the differences it can report is a real one
\* (canfd_scoreboard.sv:223-224: every difference is a real mismatch).
NoFalseAlarm == fail_count = 0

IsData(f) == f \notin ErrorFrames

\* Every data frame that began on the RX bus is on its way or was handed to
\* the reference model, exactly once, whatever resets came in between.
FramesConserved ==
    canphy_rx_count + Cardinality({i \in DOMAIN canphy_rx_q : IsData(canphy_rx_q[i])})
        + Cardinality({w \in wire : IsData(w.frame) /\ "monitor" \in w.due})
    = FrameBudget - frames

\* Writes reach the mirror in the order the device served them, each at the
\* buffer it addresses: when none is under way, every buffer whose first word was
\* written since the last reset has the device's identifier, and every request
\* the device has yet to serve is in TRR, however resets, cancellations and
\* transmissions came in between.
TxBuffersMirrored ==
    (access = {} /\ Drained) =>
        \A i \in TxBufs :
            /\ i \in dut.written => tx_bufs[i].id = IdField(dut.idw[i])
            /\ i \in dut.requested => i \in trr

\* Everything that began comes to its end on the bus and is processed, even
\* when the mirror's FIFOs are full and at the last edge of the test.
EverythingProcessed == []<>Idle
=============================================================================
