---------------------------- MODULE CanfdRefModel ----------------------------
(***************************************************************************)
(* The behavioural reference model of the CAN FD controller                *)
(* (canfd/env/canfd_ref_model.sv).  It mirrors the registers and buffers   *)
(* of the device under test; the scoreboard feeds it every AXI4-Lite write *)
(* and every received frame and reads from it what the device should show. *)
(*                                                                         *)
(* Every public method that changes state is one action: a SystemVerilog   *)
(* function runs without letting time pass, so a call is atomic.  The      *)
(* class is modelled as its users may drive it: the scoreboard calls       *)
(* write_reg, write_tx_buf, on_can_frame_received, process_tx_arbitration  *)
(* and tick; on_error_detected, read_rx_fifo and the public fields         *)
(* tx_bufs[i].ready_req and filters0/1 are for other users, and the        *)
(* constants Requesters, FilterSettings, Errors and Readers say which of   *)
(* those there are (all four are empty in the repository's own test bench).*)
(***************************************************************************)
EXTENDS Naturals, Sequences, FiniteSets

CONSTANTS
    NTxBuf,          \* number of TX buffers: 32
    MaxId,           \* the all-ones identifier, 29'h1FFFFFFF
    NDlc,            \* values of the 4-bit DLC field: 16
    NDataWord,       \* data words of a TX buffer: 16
    Offsets,         \* offsets passed to write_tx_buf: 0 .. 15
    Words,           \* the 32-bit words written to registers and buffers
    PlainRegs,       \* registers that only store what is written to them
    Frames,          \* frames on the CAN bus
    ErrorFrames,     \* those of them that are error or overload frames
    RxDepth,         \* rx_fifo0_depth, rx_fifo1_depth: 64
    FillLevels,      \* values of the 6-bit variables depth0, depth1: 64
    TxEventDepth,    \* tx_event_depth: 32
    EWARN_LIMIT, EPAS_LIMIT, BUSOFF_LIMIT,   \* 96, 128, 256
    ErrorStep,       \* the increment of an error counter: 8
    CounterValues,   \* values of the 9-bit counters TEC and REC: 512
    Timestamps,      \* values of the 16-bit counter tsr: 65536
    CountBound,      \* bound of the model on tx_count and rx_count
    RequestMasks,    \* masks the host writes to TRR
    CancelMasks,     \* masks the host writes to TCR
    Requesters,      \* buffers whose ready_req a user of the class sets
    FilterSettings,  \* frame sets a user of the class makes a filter accept
    Errors,          \* error types a user of the class reports
    Readers          \* FIFOs a user of the class reads

TxBufs == 0 .. NTxBuf - 1
Fifos  == {0, 1}
Ids    == 0 .. MaxId
ErrorTypes == {"BIT", "STUFF", "CRC", "FORM", "ACK"}

ASSUME SizeAssumption ==
    /\ NTxBuf \in Nat \ {0} /\ MaxId \in Nat /\ NDlc \in Nat \ {0}
    /\ NDataWord \in Nat /\ Offsets \subseteq Nat /\ Words \subseteq Nat /\ 0 \in Words
    /\ RxDepth \in Nat \ {0} /\ FillLevels \in Nat \ {0} /\ RxDepth <= FillLevels
    /\ TxEventDepth \in Nat
    /\ Timestamps \in Nat \ {0} /\ CountBound \in Nat

ASSUME LimitAssumption ==
    /\ EWARN_LIMIT \in Nat /\ EPAS_LIMIT \in Nat /\ BUSOFF_LIMIT \in Nat
    /\ ErrorStep \in Nat /\ CounterValues \in Nat
    /\ EWARN_LIMIT <= EPAS_LIMIT /\ EPAS_LIMIT <= BUSOFF_LIMIT
    /\ 0 < EPAS_LIMIT /\ BUSOFF_LIMIT + ErrorStep < CounterValues

ASSUME UserAssumption ==
    /\ ErrorFrames \subseteq Frames
    /\ RequestMasks \subseteq SUBSET TxBufs /\ CancelMasks \subseteq SUBSET TxBufs
    /\ Requesters \subseteq TxBufs /\ Readers \subseteq Fifos
    /\ FilterSettings \subseteq SUBSET Frames /\ Errors \subseteq ErrorTypes

VARIABLES
    cen,            \* SRR bit 1, the only bit of SRR that is not reserved besides SRST
    regs,           \* the registers in PlainRegs
    esr,            \* ESR, the set of its flags
    sr,             \* the stored SR (read_reg computes another one)
    isr,            \* ISR, the set of its flags
    trr, tcr,       \* TRR and TCR, the sets of their bits
    txe_fsr,        \* TXE_FSR
    fsr,            \* FSR = {depth1, depth0}
    tx_bufs, rx_fifo, tx_event_fifo,
    tec, rec,       \* TEC and REC
    filters,        \* filters0, filters1
    tsr,            \* the timestamp counter (not the register TSR)
    tx_count, rx_count

regVars == <<cen, regs>>
errVars == <<esr, sr, rec>>
reqVars == <<trr, tcr>>
txVars  == <<tx_bufs, tx_event_fifo, txe_fsr, tx_count, tec>>
rxVars  == <<rx_fifo, fsr, rx_count>>
vars    == <<regVars, errVars, reqVars, txVars, rxVars, isr, filters, tsr>>

-----------------------------------------------------------------------------
(* Fields of the words and the values of the buffers.                      *)

\* data[28:0] of the first word of a TX buffer.
IdField(w) == w % (MaxId + 1)

\* data[31:29] of the first word: IDE, RTR and FDF.
FormatField(w) == w \div (MaxId + 1)

\* data[3:0] of the second word.
DlcField(w) == w % NDlc

\* data[5:4] of the second word: BRS and ESI.
FlagField(w) == w \div NDlc

DataIndices == 0 .. NDataWord - 1

\* '{default:0}
EmptyBuf == [valid |-> FALSE, ready_req |-> FALSE, id |-> 0, format |-> 0,
             dlc |-> 0, flags |-> 0, data |-> [k \in DataIndices |-> 0]]

TxBuf == [valid : BOOLEAN, ready_req : BOOLEAN, id : Ids, format : Nat,
          dlc : 0 .. NDlc - 1, flags : Nat, data : [DataIndices -> Words]]

Stamps  == 0 .. Timestamps - 1
RxMsg   == [frame : Frames, timestamp : Stamps]
TxEvent == [id : Ids, dlc : 0 .. NDlc - 1, timestamp : Stamps]

\* A filter of the model is the set of frames it accepts; a disabled one
\* is absent, so a table is the set of its enabled filters.
CheckFilter(f, table) == table = {} \/ \E accepted \in table : f \in accepted

-----------------------------------------------------------------------------
\* Mutant: a reset that forgets the TX events.
ResetQueuesButEvents ==
    /\ rx_fifo' = [k \in Fifos |-> <<>>] /\ fsr' = [k \in Fifos |-> 0]
    /\ UNCHANGED <<tx_event_fifo, txe_fsr>>

ResetQueues ==
    /\ rx_fifo' = [k \in Fifos |-> <<>>] /\ fsr' = [k \in Fifos |-> 0]
    /\ tx_event_fifo' = <<>> /\ txe_fsr' = 0

ResetState ==
    /\ cen' = FALSE
    /\ regs' = [r \in PlainRegs |-> 0]
    /\ esr' = {} /\ sr' = {"CONFIG"} /\ isr' = {}
    /\ trr' = {} /\ tcr' = {}
    /\ tx_bufs' = [i \in TxBufs |-> EmptyBuf]
    /\ ResetQueues
    /\ tec' = 0 /\ rec' = 0
    /\ filters' = [k \in Fifos |-> {}]
    /\ tsr' = 0
    /\ tx_count' = 0 /\ rx_count' = 0

Init ==
    /\ cen = FALSE
    /\ regs = [r \in PlainRegs |-> 0]
    /\ esr = {} /\ sr = {"CONFIG"} /\ isr = {}
    /\ trr = {} /\ tcr = {}
    /\ txe_fsr = 0 /\ fsr = [k \in Fifos |-> 0]
    /\ tx_bufs = [i \in TxBufs |-> EmptyBuf]
    /\ rx_fifo = [k \in Fifos |-> <<>>]
    /\ tx_event_fifo = <<>>
    /\ tec = 0 /\ rec = 0
    /\ filters = [k \in Fifos |-> {}]
    /\ tsr = 0
    /\ tx_count = 0 /\ rx_count = 0

-----------------------------------------------------------------------------
(* TX arbitration                                                          *)

Pending(bufs) == {i \in TxBufs : bufs[i].ready_req /\ bufs[i].valid}

\* Mutant: `<=` in the scan, so that the last of equal identifiers wins.
WinnerLastOfEqual(bufs) ==
    {i \in Pending(bufs) :
        \A j \in Pending(bufs) :
              bufs[i].id < bufs[j].id \/ (bufs[i].id = bufs[j].id /\ j <= i)}

\* The scan of process_tx_arbitration: the running minimum starts at the
\* all-ones identifier and only a smaller one replaces it, so the first
\* buffer with the least identifier below MaxId wins.  Empty or a singleton.
Winner(bufs) ==
    {i \in Pending(bufs) :
        /\ bufs[i].id < MaxId
        /\ \A j \in Pending(bufs) :
              bufs[i].id < bufs[j].id \/ (bufs[i].id = bufs[j].id /\ i <= j)}

PushEvent(i) ==
    IF Len(tx_event_fifo) < TxEventDepth
    THEN /\ tx_event_fifo' = Append(tx_event_fifo,
                [id |-> tx_bufs[i].id, dlc |-> tx_bufs[i].dlc, timestamp |-> tsr])
         /\ txe_fsr' = Len(tx_event_fifo')
    ELSE UNCHANGED <<tx_event_fifo, txe_fsr>>

ProcessTxArbitration ==
    \/ /\ Winner(tx_bufs) = {}
       /\ UNCHANGED <<txVars, isr>>
    \/ \E i \in Winner(tx_bufs) :
          /\ tx_count < CountBound
          /\ tx_bufs' = [tx_bufs EXCEPT ![i].ready_req = FALSE]
          /\ tx_count' = tx_count + 1
          /\ isr' = isr \cup {"TXOK"}
          /\ PushEvent(i)
          /\ tec' = IF tec > 0 THEN tec - 1 ELSE tec

-----------------------------------------------------------------------------
(* write_reg, one action per register with an effect of its own            *)

\* SRR with bit 0 (SRST) set.
SoftReset == ResetState

\* SRR with bit 0 clear: bit 1 is CEN.
WriteSRR(b) ==
    /\ cen' = b
    /\ UNCHANGED <<regs, errVars, reqVars, txVars, rxVars, isr, filters, tsr>>

WritePlain(r, w) ==
    /\ regs' = [regs EXCEPT ![r] = w]
    /\ UNCHANGED <<cen, errVars, reqVars, txVars, rxVars, isr, filters, tsr>>

\* ESR is cleared by writing ones.
WriteESR(mask) ==
    /\ esr' = esr \ mask
    /\ UNCHANGED <<regVars, sr, rec, reqVars, txVars, rxVars, isr, filters, tsr>>

\* Mutant: the mask is not inverted.
WriteICRUninverted(mask) ==
    /\ isr' = isr \cap mask
    /\ UNCHANGED <<regVars, errVars, reqVars, txVars, rxVars, filters, tsr>>

WriteICR(mask) ==
    /\ isr' = isr \ mask
    /\ UNCHANGED <<regVars, errVars, reqVars, txVars, rxVars, filters, tsr>>

\* Mutant: `=` for `|=`, a new request drops the earlier ones.
WriteTRRReplaces(mask) ==
    /\ trr' = mask
    /\ ProcessTxArbitration
    /\ UNCHANGED <<regVars, errVars, tcr, rxVars, filters, tsr>>

WriteTRR(mask) ==
    /\ trr' = trr \cup mask
    /\ ProcessTxArbitration
    /\ UNCHANGED <<regVars, errVars, tcr, rxVars, filters, tsr>>

\* Mutant: TXE_FSR is not updated.
PopEventsOnly(n) ==
    /\ tx_event_fifo' = IF n < Len(tx_event_fifo)
                        THEN SubSeq(tx_event_fifo, 1, Len(tx_event_fifo) - n)
                        ELSE <<>>
    /\ UNCHANGED txe_fsr

\* The loop pops one event from the back for every bit of the mask.
PopEvents(n) ==
    IF n = 0 \/ tx_event_fifo = <<>>
    THEN UNCHANGED <<tx_event_fifo, txe_fsr>>
    ELSE /\ tx_event_fifo' =
               IF n < Len(tx_event_fifo)
               THEN SubSeq(tx_event_fifo, 1, Len(tx_event_fifo) - n)
               ELSE <<>>
         /\ txe_fsr' = Len(tx_event_fifo')

WriteTCR(mask) ==
    /\ tcr' = tcr \cup mask
    /\ tx_bufs' = [i \in TxBufs |->
          IF i \in mask THEN [tx_bufs[i] EXCEPT !.ready_req = FALSE, !.valid = FALSE]
                        ELSE tx_bufs[i]]
    /\ PopEvents(Cardinality(mask))
    /\ UNCHANGED <<regVars, errVars, trr, tx_count, tec, rxVars, isr, filters, tsr>>

\* write_tx_buf; word indices past the end of the data are dropped.
WriteTxBuf(i, offset, w) ==
    /\ tx_bufs' = [tx_bufs EXCEPT ![i] =
          CASE offset = 0 ->
                 [@ EXCEPT !.valid = TRUE, !.id = IdField(w), !.format = FormatField(w)]
            [] offset = 1 ->
                 [@ EXCEPT !.valid = TRUE, !.dlc = DlcField(w), !.flags = FlagField(w)]
            [] offset - 2 \in DataIndices ->
                 [@ EXCEPT !.valid = TRUE, !.data[offset - 2] = w]
            [] OTHER -> [@ EXCEPT !.valid = TRUE]]
    /\ UNCHANGED <<regVars, errVars, reqVars, tx_event_fifo, txe_fsr, tx_count,
                   tec, rxVars, isr, filters, tsr>>

-----------------------------------------------------------------------------
(* Reception                                                               *)

Matches(k, f) == CheckFilter(f, filters[k])

\* Mutants: `>` for the full FIFO; the overflow flag already raised by the frame that fills it.
LosesOffByOne(k, f) == Matches(k, f) /\ Len(rx_fifo[k]) > RxDepth
LosesEarly(k, f) == Matches(k, f) /\ Len(rx_fifo[k]) + 1 >= RxDepth

Stores(k, f)  == Matches(k, f) /\ Len(rx_fifo[k]) < RxDepth
Loses(k, f)   == Matches(k, f) /\ Len(rx_fifo[k]) >= RxDepth

\* update_fifo_status: the sizes are truncated to 6 bits.
FillLevel(fifo) == [k \in Fifos |-> Len(fifo[k]) % FillLevels]

OnCanFrameReceived(f) ==
    /\ f \notin ErrorFrames
    /\ Stores(0, f) => rx_count < CountBound
    /\ rx_fifo' = [k \in Fifos |->
          IF Stores(k, f) THEN Append(rx_fifo[k], [frame |-> f, timestamp |-> tsr])
                          ELSE rx_fifo[k]]
    /\ fsr' = IF \E k \in Fifos : Stores(k, f) THEN FillLevel(rx_fifo') ELSE fsr
    /\ rx_count' = IF Stores(0, f) THEN rx_count + 1 ELSE rx_count
    /\ isr' = isr \cup (IF Stores(0, f) THEN {"RXOK"} ELSE {})
                  \cup (IF \E k \in Fifos : Loses(k, f) THEN {"RXOVF"} ELSE {})
    /\ UNCHANGED <<regVars, errVars, reqVars, txVars, filters, tsr>>

\* Mutant: update_fifo_status is not called.
ReadRxFifoOnly(k) ==
    /\ rx_fifo[k] # <<>>
    /\ rx_fifo' = [rx_fifo EXCEPT ![k] = Tail(@)]
    /\ UNCHANGED <<regVars, errVars, reqVars, txVars, rx_count, fsr, isr, filters, tsr>>

ReadRxFifo(k) ==
    /\ rx_fifo[k] # <<>>
    /\ rx_fifo' = [rx_fifo EXCEPT ![k] = Tail(@)]
    /\ fsr' = FillLevel(rx_fifo')
    /\ UNCHANGED <<regVars, errVars, reqVars, txVars, rx_count, isr, filters, tsr>>

-----------------------------------------------------------------------------
(* The register read_reg computes                                          *)

\* compute_sr
ComputeSR ==
    (IF cen THEN {} ELSE {"CONFIG"})
        \cup (IF tec >= BUSOFF_LIMIT THEN {"BOFF"} ELSE {})
        \cup (IF tec >= EPAS_LIMIT \/ rec >= EPAS_LIMIT THEN {"EPAS"} ELSE {})

-----------------------------------------------------------------------------
(* Errors and time                                                         *)

\* The flag of ESR an error sets, in the nominal or the data phase.
EsrFlag(err, is_fd) ==
    CASE err = "BIT"   -> IF is_fd THEN "F_BERR" ELSE "BERR"
      [] err = "STUFF" -> IF is_fd THEN "F_STER" ELSE "STER"
      [] err = "FORM"  -> IF is_fd THEN "F_FMER" ELSE "FMER"
      [] err = "CRC"   -> "CRCER"
      [] err = "ACK"   -> "ACKER"

EsrFlags == {"F_BERR", "BERR", "F_STER", "STER", "F_FMER", "FMER", "CRCER", "ACKER"}

\* Nine-bit addition.
Bump(count) == (count + ErrorStep) % CounterValues

\* Mutant: no saturation.
Unsaturated(count, limit) == count

Saturated(count, limit) == IF count > limit THEN limit ELSE count

\* Mutant: `>` for `>=` in the state transitions.
LatchedSRLate(t, r) ==
    LET s == IF t > EPAS_LIMIT \/ r > EPAS_LIMIT THEN sr \cup {"EPAS"} ELSE sr
    IN  IF t > BUSOFF_LIMIT THEN (s \cup {"BOFF"}) \ {"CONFIG"} ELSE s

\* SR after the transitions, t and r being TEC and REC before saturation.
LatchedSR(t, r) ==
    LET s == IF t >= EPAS_LIMIT \/ r >= EPAS_LIMIT THEN sr \cup {"EPAS"} ELSE sr
    IN  IF t >= BUSOFF_LIMIT THEN (s \cup {"BOFF"}) \ {"CONFIG"} ELSE s

OnErrorDetected(err, is_fd, is_tx) ==
    LET t == IF is_tx THEN Bump(tec) ELSE tec
        r == IF is_tx THEN rec ELSE Bump(rec)
        warned == t >= EWARN_LIMIT \/ r >= EWARN_LIMIT
    IN  /\ esr' = esr \cup {EsrFlag(err, is_fd)}
        /\ isr' = IF warned THEN isr \cup {"EWARN"} ELSE isr
        /\ sr' = LatchedSR(t, r)
        /\ tec' = Saturated(t, BUSOFF_LIMIT)
        /\ rec' = Saturated(r, EPAS_LIMIT)
        /\ UNCHANGED <<regVars, reqVars, tx_bufs, tx_event_fifo, txe_fsr, tx_count,
                       rxVars, filters, tsr>>

Tick ==
    /\ tsr' = (tsr + 1) % Timestamps
    /\ isr' = IF tsr' = 0 THEN isr \cup {"TSCNT"} ELSE isr
    /\ UNCHANGED <<regVars, errVars, reqVars, txVars, rxVars, filters>>

-----------------------------------------------------------------------------
(* Other users of the class write its public fields                        *)

SetReadyReq(i) ==
    /\ tx_bufs' = [tx_bufs EXCEPT ![i].ready_req = TRUE]
    /\ UNCHANGED <<regVars, errVars, reqVars, tx_event_fifo, txe_fsr, tx_count,
                   tec, rxVars, isr, filters, tsr>>

EnableFilter(k, accepted) ==
    /\ filters' = [filters EXCEPT ![k] = @ \cup {accepted}]
    /\ UNCHANGED <<regVars, errVars, reqVars, txVars, rxVars, isr, tsr>>

-----------------------------------------------------------------------------
IsrFlags == {"EWARN", "TXOK", "RXOK", "RXOVF", "TSCNT"}

WriteReg ==
    \/ SoftReset
    \/ \E b \in BOOLEAN : WriteSRR(b)
    \/ \E r \in PlainRegs, w \in Words : WritePlain(r, w)
    \/ \E mask \in SUBSET esr : WriteESR(mask)
    \/ \E mask \in SUBSET isr : WriteICR(mask)
    \/ \E mask \in RequestMasks : WriteTRR(mask)
    \/ \E mask \in CancelMasks : WriteTCR(mask)

WriteTxBuffers ==
    \E i \in TxBufs, offset \in Offsets, w \in Words : WriteTxBuf(i, offset, w)

ReceiveFrame == \E f \in Frames : OnCanFrameReceived(f)

DetectError ==
    \E err \in Errors, is_fd, is_tx \in BOOLEAN : OnErrorDetected(err, is_fd, is_tx)

ReadFifos == \E k \in Readers : ReadRxFifo(k)

UserFields ==
    \/ \E i \in Requesters : SetReadyReq(i)
    \/ \E k \in Fifos, accepted \in FilterSettings : EnableFilter(k, accepted)

Next ==
    \/ WriteReg
    \/ WriteTxBuffers
    \/ ReceiveFrame
    \/ ReadFifos
    \/ DetectError
    \/ Tick
    \/ UserFields

Spec == Init /\ [][Next]_vars
-----------------------------------------------------------------------------
(* Properties                                                              *)

\* Every variable keeps the width and the shape its declaration gives it: in
\* particular the FIFOs never outgrow their depths and the error counters
\* saturate (at BUSOFF_LIMIT and EPAS_LIMIT) before their 9 bits overflow.
TypeOK ==
    /\ cen \in BOOLEAN /\ regs \in [PlainRegs -> Words]
    /\ esr \subseteq EsrFlags /\ sr \subseteq {"CONFIG", "EPAS", "BOFF"}
    /\ isr \subseteq IsrFlags
    /\ trr \subseteq TxBufs /\ tcr \subseteq TxBufs
    /\ txe_fsr \in 0 .. TxEventDepth /\ fsr \in [Fifos -> 0 .. FillLevels - 1]
    /\ tx_bufs \in [TxBufs -> TxBuf]
    /\ rx_fifo \in [Fifos -> Seq(RxMsg)]
    /\ \A k \in Fifos : Len(rx_fifo[k]) <= RxDepth
    /\ tx_event_fifo \in Seq(TxEvent) /\ Len(tx_event_fifo) <= TxEventDepth
    /\ tec \in 0 .. BUSOFF_LIMIT /\ rec \in 0 .. EPAS_LIMIT
    /\ filters \in [Fifos -> SUBSET FilterSettings]
    /\ tsr \in Stamps
    /\ tx_count \in Nat /\ rx_count \in Nat

\* TXE_FSR is written where an event is stored or popped and never recomputed
\* on a read: whatever was called, it shows how many events are queued.
EventStatusExact == txe_fsr = Len(tx_event_fifo)

\* FSR is written by the calls that store or read a frame only, yet it shows how
\* many frames each FIFO holds, with the one exception of a full FIFO of 64: its
\* six bits read 0 (canfd_ref_model.sv:332-335), where FL goes from 0 to 64
\* (pg223_canfd_中文翻译.md:741).
FillStatusExact ==
    \A k \in Fifos :
        fsr[k] = IF Len(rx_fifo[k]) = FillLevels THEN 0 ELSE Len(rx_fifo[k])

\* Nothing is in a queue that was not counted since the last reset: a reset
\* leaves neither an event nor a frame of the time before it behind.
QueuesAccounted ==
    /\ Len(tx_event_fifo) <= tx_count
    /\ Len(rx_fifo[0]) <= rx_count

\* The stored SR, which only reset_state lowers, has latched every error state
\* the counters are in, so it can never show less than compute_sr does.
ErrorStateLatched ==
    /\ ComputeSR \ {"CONFIG"} \subseteq sr
    /\ "BOFF" \in sr <=> "CONFIG" \notin sr

\* A transmission serves a request of a valid buffer, consumes that request and
\* no other, and no valid request with a smaller identifier, or with the same
\* one and a smaller index, was waiting (pg223_canfd_中文翻译.md:1097).
TransmitsHighestPriority ==
    [][tx_count' > tx_count =>
        \E i \in Pending(tx_bufs) :
            /\ Pending(tx_bufs') = Pending(tx_bufs) \ {i}
            /\ \A j \in Pending(tx_bufs) \ {i} :
                  \/ tx_bufs[i].id < tx_bufs[j].id
                  \/ tx_bufs[i].id = tx_bufs[j].id /\ i < j]_vars

\* The reception side implements the pair of bounded queues it promises, the
\* flag RXOVF of ISR being the shared overflow flag.
Rx == INSTANCE RxQueues WITH
        Queues <- Fifos, Items <- RxMsg, Depth <- RxDepth,
        queue <- rx_fifo, overflow <- "RXOVF" \in isr

RxImplementsQueues == Rx!Spec
=============================================================================
