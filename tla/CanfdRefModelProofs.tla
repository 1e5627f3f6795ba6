------------------------ MODULE CanfdRefModelProofs ------------------------
(***************************************************************************)
(* Theorems about the reference model, for every value of its constants.   *)
(***************************************************************************)
EXTENDS CanfdRefModel, TLAPS, FiniteSetTheorems, SequenceTheorems

USE DEF Fifos

-----------------------------------------------------------------------------
(* The fields of a word stay within the widths of the fields of a buffer.   *)

LEMMA DivMod ==
  ASSUME NEW n \in Nat, NEW d \in Nat \ {0}
  PROVE  n % d \in 0 .. d - 1 /\ n \div d \in Nat
BY SMT

LEMMA FieldTypes ==
  ASSUME NEW w \in Words
  PROVE  /\ IdField(w) \in Ids /\ DlcField(w) \in 0 .. NDlc - 1
         /\ FormatField(w) \in Nat /\ FlagField(w) \in Nat
<1>1. w \in Nat /\ MaxId + 1 \in Nat \ {0} /\ NDlc \in Nat \ {0} /\ MaxId \in Nat
  BY SizeAssumption
<1>2. w % (MaxId + 1) \in 0 .. (MaxId + 1) - 1 /\ w \div (MaxId + 1) \in Nat
  BY <1>1, DivMod, Zenon
<1>3. w % NDlc \in 0 .. NDlc - 1 /\ w \div NDlc \in Nat
  BY <1>1, DivMod, Zenon
<1>4. 0 .. (MaxId + 1) - 1 = 0 .. MaxId
  BY <1>1
<1> QED
  BY <1>2, <1>3, <1>4, Zenon DEF IdField, DlcField, FormatField, FlagField, Ids

LEMMA EmptyBufType == EmptyBuf \in TxBuf
BY SizeAssumption DEF EmptyBuf, TxBuf, Ids

-----------------------------------------------------------------------------
(* Type correctness, by induction: one step per method of the class.        *)

LEMMA TypeInit == Init => TypeOK
<1> SUFFICES ASSUME Init PROVE TypeOK
  OBVIOUS
<1>1. cen \in BOOLEAN /\ regs \in [PlainRegs -> Words]
  BY SizeAssumption DEF Init
<1>2. /\ esr \subseteq EsrFlags /\ sr \subseteq {"CONFIG", "EPAS", "BOFF"}
      /\ isr \subseteq IsrFlags /\ trr \subseteq TxBufs /\ tcr \subseteq TxBufs
  BY DEF Init
<1>3. txe_fsr \in 0 .. TxEventDepth /\ fsr \in [Fifos -> 0 .. FillLevels - 1]
  BY SizeAssumption DEF Init
<1>4. tx_bufs \in [TxBufs -> TxBuf]
  BY EmptyBufType DEF Init
<1>5. /\ rx_fifo \in [Fifos -> Seq(RxMsg)] /\ \A k \in Fifos : Len(rx_fifo[k]) <= RxDepth
      /\ tx_event_fifo \in Seq(TxEvent) /\ Len(tx_event_fifo) <= TxEventDepth
  BY SizeAssumption DEF Init
<1>6. /\ tec \in 0 .. BUSOFF_LIMIT /\ rec \in 0 .. EPAS_LIMIT
      /\ filters \in [Fifos -> SUBSET FilterSettings]
      /\ tsr \in Stamps /\ tx_count \in Nat /\ rx_count \in Nat
  BY SizeAssumption, LimitAssumption DEF Init, Stamps
<1> QED
  BY <1>1, <1>2, <1>3, <1>4, <1>5, <1>6 DEF TypeOK

LEMMA ResetType == ResetState => TypeOK'
<1> SUFFICES ASSUME ResetState PROVE TypeOK'
  OBVIOUS
<1>1. cen' \in BOOLEAN /\ regs' \in [PlainRegs -> Words]
  BY SizeAssumption DEF ResetState, ResetQueues
<1>2. /\ esr' \subseteq EsrFlags /\ sr' \subseteq {"CONFIG", "EPAS", "BOFF"}
      /\ isr' \subseteq IsrFlags /\ trr' \subseteq TxBufs /\ tcr' \subseteq TxBufs
  BY DEF ResetState, ResetQueues
<1>3. txe_fsr' \in 0 .. TxEventDepth /\ fsr' \in [Fifos -> 0 .. FillLevels - 1]
  BY SizeAssumption DEF ResetState, ResetQueues
<1>4. tx_bufs' \in [TxBufs -> TxBuf]
  BY EmptyBufType DEF ResetState, ResetQueues
<1>5. /\ rx_fifo' \in [Fifos -> Seq(RxMsg)] /\ \A k \in Fifos : Len(rx_fifo'[k]) <= RxDepth
      /\ tx_event_fifo' \in Seq(TxEvent) /\ Len(tx_event_fifo') <= TxEventDepth
  BY SizeAssumption DEF ResetState, ResetQueues
<1>6. /\ tec' \in 0 .. BUSOFF_LIMIT /\ rec' \in 0 .. EPAS_LIMIT
      /\ filters' \in [Fifos -> SUBSET FilterSettings]
      /\ tsr' \in Stamps /\ tx_count' \in Nat /\ rx_count' \in Nat
  BY SizeAssumption, LimitAssumption DEF ResetState, ResetQueues, Stamps
<1> QED
  BY <1>1, <1>2, <1>3, <1>4, <1>5, <1>6 DEF TypeOK

\* The part of TypeOK the scan of the TX buffers and its effects can disturb.
LEMMA ArbitrationType ==
  ASSUME TypeOK, ProcessTxArbitration
  PROVE  /\ tx_bufs' \in [TxBufs -> TxBuf]
         /\ tx_event_fifo' \in Seq(TxEvent) /\ Len(tx_event_fifo') <= TxEventDepth
         /\ txe_fsr' \in 0 .. TxEventDepth
         /\ tec' \in 0 .. BUSOFF_LIMIT /\ tx_count' \in Nat
         /\ isr' \subseteq IsrFlags
<1>1. CASE UNCHANGED <<txVars, isr>>
  BY <1>1 DEF TypeOK, txVars
<1>2. ASSUME NEW i \in Winner(tx_bufs),
             tx_bufs' = [tx_bufs EXCEPT ![i].ready_req = FALSE],
             tx_count' = tx_count + 1,
             isr' = isr \cup {"TXOK"},
             PushEvent(i),
             tec' = IF tec > 0 THEN tec - 1 ELSE tec
      PROVE  /\ tx_bufs' \in [TxBufs -> TxBuf]
             /\ tx_event_fifo' \in Seq(TxEvent) /\ Len(tx_event_fifo') <= TxEventDepth
             /\ txe_fsr' \in 0 .. TxEventDepth
             /\ tec' \in 0 .. BUSOFF_LIMIT /\ tx_count' \in Nat
             /\ isr' \subseteq IsrFlags
  <2>1. i \in TxBufs /\ tx_bufs[i] \in TxBuf
    BY <1>2 DEF Winner, Pending, TypeOK
  <2>2. tx_bufs' \in [TxBufs -> TxBuf]
    BY <1>2, <2>1 DEF TypeOK, TxBuf
  <2>3. [id |-> tx_bufs[i].id, dlc |-> tx_bufs[i].dlc, timestamp |-> tsr] \in TxEvent
    BY <2>1 DEF TypeOK, TxBuf, TxEvent
  <2>4. /\ tx_event_fifo' \in Seq(TxEvent) /\ Len(tx_event_fifo') <= TxEventDepth
        /\ txe_fsr' \in 0 .. TxEventDepth
    <3>1. /\ tx_event_fifo \in Seq(TxEvent) /\ Len(tx_event_fifo) <= TxEventDepth
          /\ txe_fsr \in 0 .. TxEventDepth
      BY DEF TypeOK
    <3>2. CASE Len(tx_event_fifo) < TxEventDepth
      <4> DEFINE ev == [id |-> tx_bufs[i].id, dlc |-> tx_bufs[i].dlc, timestamp |-> tsr]
      <4>1. tx_event_fifo' = Append(tx_event_fifo, ev) /\ txe_fsr' = Len(tx_event_fifo')
        BY <1>2, <3>2 DEF PushEvent
      <4> HIDE DEF ev
      <4>2. /\ tx_event_fifo' \in Seq(TxEvent)
            /\ Len(tx_event_fifo') = Len(tx_event_fifo) + 1
        BY <2>3, <3>1, <4>1, AppendProperties DEF ev
      <4> QED
        BY <3>1, <3>2, <4>1, <4>2, SizeAssumption
    <3>3. CASE ~(Len(tx_event_fifo) < TxEventDepth)
      BY <1>2, <3>1, <3>3 DEF PushEvent
    <3> QED
      BY <3>2, <3>3
  <2>5. tec' \in 0 .. BUSOFF_LIMIT /\ tx_count' \in Nat /\ isr' \subseteq IsrFlags
    <3>1. tec \in 0 .. BUSOFF_LIMIT /\ tx_count \in Nat /\ isr \subseteq IsrFlags
      BY DEF TypeOK
    <3>2. tec' \in 0 .. BUSOFF_LIMIT
      BY <1>2, <3>1, LimitAssumption
    <3> QED
      BY <1>2, <3>1, <3>2 DEF IsrFlags
  <2> QED
    BY <2>2, <2>4, <2>5
<1> QED
  BY <1>1, <1>2 DEF ProcessTxArbitration

LEMMA PopEventsType ==
  ASSUME TypeOK, NEW n \in Nat, PopEvents(n)
  PROVE  /\ tx_event_fifo' \in Seq(TxEvent) /\ Len(tx_event_fifo') <= TxEventDepth
         /\ txe_fsr' \in 0 .. TxEventDepth
<1> DEFINE m == Len(tx_event_fifo) - n
<1>1. tx_event_fifo \in Seq(TxEvent) /\ Len(tx_event_fifo) \in Nat
  BY DEF TypeOK
<1>2. CASE n < Len(tx_event_fifo) /\ tx_event_fifo' = SubSeq(tx_event_fifo, 1, m)
                                  /\ txe_fsr' = Len(tx_event_fifo')
  <2>1. m \in 0 .. Len(tx_event_fifo)
    BY <1>1, <1>2
  <2>2. tx_event_fifo' \in Seq(TxEvent) /\ Len(tx_event_fifo') = m
    BY <1>1, <1>2, <2>1, SubSeqProperties
  <2> QED
    BY <1>2, <2>1, <2>2, SizeAssumption DEF TypeOK
<1>3. CASE tx_event_fifo' = <<>> /\ txe_fsr' = Len(tx_event_fifo')
  BY <1>3, SizeAssumption
<1>4. CASE UNCHANGED <<tx_event_fifo, txe_fsr>>
  BY <1>4 DEF TypeOK
<1> QED
  BY <1>2, <1>3, <1>4 DEF PopEvents

LEMMA WriteTxBufType ==
  ASSUME tx_bufs \in [TxBufs -> TxBuf], NEW i \in TxBufs, NEW offset \in Nat, NEW w \in Words,
         WriteTxBuf(i, offset, w)
  PROVE  tx_bufs' \in [TxBufs -> TxBuf]
<1>1. tx_bufs[i] \in TxBuf /\ offset \in Nat
  OBVIOUS
<1>2. CASE offset = 0
  BY <1>1, <1>2, FieldTypes DEF WriteTxBuf, TxBuf
<1>3. CASE offset = 1
  BY <1>1, <1>3, FieldTypes DEF WriteTxBuf, TxBuf
<1>4. CASE offset \notin {0, 1} /\ offset - 2 \in DataIndices
  <2>1. tx_bufs' = [tx_bufs EXCEPT ![i] = [@ EXCEPT !.valid = TRUE, !.data[offset - 2] = w]]
    BY <1>4 DEF WriteTxBuf
  <2>2. [tx_bufs[i].data EXCEPT ![offset - 2] = w] \in [DataIndices -> Words]
    BY <1>1 DEF TxBuf
  <2> QED
    BY <1>1, <2>1, <2>2 DEF TxBuf
<1>5. CASE offset \notin {0, 1} /\ offset - 2 \notin DataIndices
  BY <1>1, <1>5 DEF WriteTxBuf, TxBuf
<1> QED
  BY <1>2, <1>3, <1>4, <1>5

LEMMA ReceiveType ==
  ASSUME TypeOK, NEW f \in Frames, OnCanFrameReceived(f)
  PROVE  /\ rx_fifo' \in [Fifos -> Seq(RxMsg)]
         /\ \A k \in Fifos : Len(rx_fifo'[k]) <= RxDepth
<1> DEFINE msg == [frame |-> f, timestamp |-> tsr]
<1>1. msg \in RxMsg
  BY DEF TypeOK, RxMsg
<1>2. ASSUME NEW k \in Fifos
      PROVE  rx_fifo'[k] \in Seq(RxMsg) /\ Len(rx_fifo'[k]) <= RxDepth
  <2>1. rx_fifo[k] \in Seq(RxMsg) /\ Len(rx_fifo[k]) <= RxDepth
    BY DEF TypeOK
  <2>2. rx_fifo'[k] = IF Stores(k, f) THEN Append(rx_fifo[k], msg) ELSE rx_fifo[k]
    BY DEF OnCanFrameReceived
  <2> HIDE DEF msg
  <2>3. CASE Stores(k, f)
    BY <1>1, <2>1, <2>2, <2>3, AppendProperties, SizeAssumption DEF Stores
  <2>4. CASE ~Stores(k, f)
    BY <2>1, <2>2, <2>4
  <2> QED
    BY <2>3, <2>4
<1>3. DOMAIN rx_fifo' = Fifos /\ rx_fifo' = [k \in Fifos |-> rx_fifo'[k]]
  BY DEF OnCanFrameReceived
<1> QED
  BY <1>2, <1>3

LEMMA FillLevelType ==
  ASSUME NEW fifo, \A k \in Fifos : fifo[k] \in Seq(RxMsg)
  PROVE  FillLevel(fifo) \in [Fifos -> 0 .. FillLevels - 1]
<1>1. ASSUME NEW k \in Fifos
      PROVE  Len(fifo[k]) % FillLevels \in 0 .. FillLevels - 1
  <2>1. Len(fifo[k]) \in Nat /\ FillLevels \in Nat \ {0}
    BY SizeAssumption
  <2> QED
    BY <2>1, DivMod, Zenon
<1> QED
  BY <1>1 DEF FillLevel

LEMMA ReadFifoType ==
  ASSUME TypeOK, NEW k \in Fifos, ReadRxFifo(k)
  PROVE  /\ rx_fifo' \in [Fifos -> Seq(RxMsg)]
         /\ \A j \in Fifos : Len(rx_fifo'[j]) <= RxDepth
<1>1. rx_fifo[k] \in Seq(RxMsg) /\ rx_fifo[k] # <<>> /\ Len(rx_fifo[k]) <= RxDepth
  BY DEF TypeOK, ReadRxFifo
<1>2. Tail(rx_fifo[k]) \in Seq(RxMsg) /\ Len(Tail(rx_fifo[k])) = Len(rx_fifo[k]) - 1
  BY <1>1, HeadTailProperties
<1>3. Len(Tail(rx_fifo[k])) <= RxDepth
  BY <1>1, <1>2, SizeAssumption
<1> QED
  BY <1>2, <1>3 DEF TypeOK, ReadRxFifo

LEMMA ErrorType ==
  ASSUME TypeOK, NEW err \in Errors, NEW is_fd \in BOOLEAN, NEW is_tx \in BOOLEAN,
         OnErrorDetected(err, is_fd, is_tx)
  PROVE  /\ esr' \subseteq EsrFlags /\ sr' \subseteq {"CONFIG", "EPAS", "BOFF"}
         /\ isr' \subseteq IsrFlags
         /\ tec' \in 0 .. BUSOFF_LIMIT /\ rec' \in 0 .. EPAS_LIMIT
<1>1. err \in ErrorTypes
  BY UserAssumption
<1>2. EsrFlag(err, is_fd) \in EsrFlags
  BY <1>1 DEF EsrFlag, EsrFlags, ErrorTypes
<1>3. esr' \subseteq EsrFlags
  BY <1>2 DEF OnErrorDetected, TypeOK
<1>4. sr' \subseteq {"CONFIG", "EPAS", "BOFF"} /\ isr' \subseteq IsrFlags
  BY DEF OnErrorDetected, LatchedSR, TypeOK, IsrFlags
<1>5. tec \in Nat /\ rec \in Nat /\ CounterValues \in Nat \ {0} /\ ErrorStep \in Nat
  BY LimitAssumption DEF TypeOK
<1>6. Bump(tec) \in Nat /\ Bump(rec) \in Nat
  <2>1. tec + ErrorStep \in Nat /\ rec + ErrorStep \in Nat
    BY <1>5
  <2>2. /\ (tec + ErrorStep) % CounterValues \in 0 .. CounterValues - 1
        /\ (rec + ErrorStep) % CounterValues \in 0 .. CounterValues - 1
    BY <1>5, <2>1, DivMod, Zenon
  <2> QED
    BY <1>5, <2>2 DEF Bump
<1>7. /\ tec' = Saturated(IF is_tx THEN Bump(tec) ELSE tec, BUSOFF_LIMIT)
      /\ rec' = Saturated(IF is_tx THEN rec ELSE Bump(rec), EPAS_LIMIT)
  BY DEF OnErrorDetected
<1> QED
  BY <1>3, <1>4, <1>5, <1>6, <1>7, LimitAssumption DEF Saturated

LEMMA TypeStep == TypeOK /\ [Next]_vars => TypeOK'
<1> SUFFICES ASSUME TypeOK, [Next]_vars PROVE TypeOK'
  OBVIOUS
<1> USE DEF regVars, errVars, reqVars, txVars, rxVars
<1>1. CASE SoftReset
  BY <1>1, ResetType DEF SoftReset
<1>2. CASE \E b \in BOOLEAN : WriteSRR(b)
  BY <1>2 DEF WriteSRR, TypeOK
<1>3. CASE \E r \in PlainRegs, w \in Words : WritePlain(r, w)
  BY <1>3 DEF WritePlain, TypeOK
<1>4. CASE \E mask \in SUBSET esr : WriteESR(mask)
  BY <1>4 DEF WriteESR, TypeOK
<1>5. CASE \E mask \in SUBSET isr : WriteICR(mask)
  BY <1>5 DEF WriteICR, TypeOK
<1>6. ASSUME NEW mask \in RequestMasks, WriteTRR(mask) PROVE TypeOK'
  <2>1. ProcessTxArbitration /\ trr' \subseteq TxBufs
    BY <1>6, UserAssumption DEF WriteTRR, TypeOK
  <2> QED
    BY <1>6, <2>1, ArbitrationType DEF WriteTRR, TypeOK
<1>7. ASSUME NEW mask \in CancelMasks, WriteTCR(mask) PROVE TypeOK'
  <2>1. mask \subseteq TxBufs
    BY <1>7, UserAssumption
  <2>2. Cardinality(mask) \in Nat
    <3>1. IsFiniteSet(TxBufs)
      BY SizeAssumption, FS_Interval DEF TxBufs
    <3> QED
      BY <2>1, <3>1, FS_Subset, FS_CardinalityType
  <2>3. tx_bufs' \in [TxBufs -> TxBuf]
    BY <1>7, ZenonT(60) DEF WriteTCR, TypeOK, TxBuf
  <2>4. tcr' \subseteq TxBufs /\ PopEvents(Cardinality(mask))
    BY <1>7, <2>1 DEF WriteTCR, TypeOK
  <2> QED
    BY <1>7, <2>2, <2>3, <2>4, PopEventsType DEF WriteTCR, TypeOK
<1>8. CASE WriteTxBuffers
  <2>1. PICK i \in TxBufs, offset \in Offsets, w \in Words : WriteTxBuf(i, offset, w)
    BY <1>8 DEF WriteTxBuffers
  <2>2. tx_bufs' \in [TxBufs -> TxBuf]
    BY <2>1, WriteTxBufType, SizeAssumption DEF TypeOK
  <2> QED
    BY <2>1, <2>2 DEF WriteTxBuf, TypeOK
<1>9. CASE ReceiveFrame
  <2>1. PICK f \in Frames : OnCanFrameReceived(f)
    BY <1>9 DEF ReceiveFrame
  <2>2. /\ rx_fifo' \in [Fifos -> Seq(RxMsg)]
        /\ \A k \in Fifos : Len(rx_fifo'[k]) <= RxDepth
    BY <2>1, ReceiveType
  <2>3. fsr' \in [Fifos -> 0 .. FillLevels - 1]
    BY <2>1, <2>2, FillLevelType DEF OnCanFrameReceived, TypeOK
  <2>4. isr' \subseteq IsrFlags /\ rx_count' \in Nat
    BY <2>1 DEF OnCanFrameReceived, TypeOK, IsrFlags
  <2> QED
    BY <2>1, <2>2, <2>3, <2>4 DEF OnCanFrameReceived, TypeOK
<1>10. CASE ReadFifos
  <2>1. PICK k \in Fifos : ReadRxFifo(k)
    BY <1>10, UserAssumption DEF ReadFifos
  <2>2. /\ rx_fifo' \in [Fifos -> Seq(RxMsg)]
        /\ \A j \in Fifos : Len(rx_fifo'[j]) <= RxDepth
    BY <2>1, ReadFifoType
  <2>3. fsr' \in [Fifos -> 0 .. FillLevels - 1]
    BY <2>1, <2>2, FillLevelType DEF ReadRxFifo
  <2> QED
    BY <2>1, <2>2, <2>3 DEF ReadRxFifo, TypeOK
<1>11. CASE DetectError
  <2>1. PICK err \in Errors, is_fd \in BOOLEAN, is_tx \in BOOLEAN :
          OnErrorDetected(err, is_fd, is_tx)
    BY <1>11 DEF DetectError
  <2>2. /\ esr' \subseteq EsrFlags /\ sr' \subseteq {"CONFIG", "EPAS", "BOFF"}
        /\ isr' \subseteq IsrFlags
        /\ tec' \in 0 .. BUSOFF_LIMIT /\ rec' \in 0 .. EPAS_LIMIT
    BY <2>1, ErrorType
  <2>3. UNCHANGED <<regVars, reqVars, tx_bufs, tx_event_fifo, txe_fsr, tx_count,
                    rxVars, filters, tsr>>
    BY <2>1 DEF OnErrorDetected, LatchedSR
  <2> QED
    BY <2>2, <2>3 DEF TypeOK
<1>12. CASE Tick
  <2>1. tsr' \in Stamps
    <3>1. tsr + 1 \in Nat /\ Timestamps \in Nat \ {0}
      BY SizeAssumption DEF TypeOK, Stamps
    <3>2. (tsr + 1) % Timestamps \in 0 .. Timestamps - 1
      BY <3>1, DivMod, Zenon
    <3> QED
      BY <1>12, <3>2 DEF Tick, Stamps
  <2>2. isr' \subseteq IsrFlags
    BY <1>12 DEF Tick, TypeOK, IsrFlags
  <2> QED
    BY <1>12, <2>1, <2>2 DEF Tick, TypeOK
<1>13. CASE \E i \in Requesters : SetReadyReq(i)
  <2>1. PICK i \in TxBufs : SetReadyReq(i)
    BY <1>13, UserAssumption
  <2>2. tx_bufs' \in [TxBufs -> TxBuf]
    BY <2>1 DEF SetReadyReq, TypeOK, TxBuf
  <2> QED
    BY <2>1, <2>2 DEF SetReadyReq, TypeOK
<1>14. CASE \E k \in Fifos, accepted \in FilterSettings : EnableFilter(k, accepted)
  BY <1>14 DEF EnableFilter, TypeOK
<1>15. CASE UNCHANGED vars
  BY <1>15 DEF vars, TypeOK
<1> QED
  BY <1>1, <1>2, <1>3, <1>4, <1>5, <1>6, <1>7, <1>8, <1>9, <1>10, <1>11, <1>12,
     <1>13, <1>14, <1>15 DEF Next, WriteReg, UserFields

\* Every reachable state of the reference model is well typed: the FIFOs keep
\* their depths and the 9-bit error counters never overflow.
THEOREM TypeCorrect == Spec => []TypeOK
BY TypeInit, TypeStep, PTL DEF Spec

-----------------------------------------------------------------------------
(* The status registers show the queues.  The queues change at four places; *)
(* every other method leaves both the queues and the registers alone.       *)

LEMMA EmptyFillLevel ==
  ASSUME NEW fifo, \A k \in Fifos : fifo[k] = <<>>
  PROVE  FillLevel(fifo) = [k \in Fifos |-> 0]
<1>1. FillLevels \in Nat \ {0}
  BY SizeAssumption
<1>2. 0 % FillLevels = 0
  BY <1>1
<1>3. \A k \in Fifos : Len(fifo[k]) % FillLevels = 0
  BY <1>2
<1> QED
  BY <1>3 DEF FillLevel

\* Methods that touch neither queue nor the counters and registers about them.
queueVars == <<tx_event_fifo, txe_fsr, tx_count, rx_fifo, fsr, rx_count>>

\* The registers as the code computes them.
StoredStatus == EventStatusExact /\ fsr = FillLevel(rx_fifo)

Accounted == StoredStatus /\ QueuesAccounted

LEMMA AccountedInit == Init => Accounted
BY EmptyFillLevel DEF Init, Accounted, StoredStatus, EventStatusExact, QueuesAccounted

LEMMA AccountedReset == ResetState => Accounted'
<1> SUFFICES ASSUME ResetState PROVE Accounted'
  OBVIOUS
<1>1. fsr' = FillLevel(rx_fifo')
  BY EmptyFillLevel DEF ResetState, ResetQueues
<1>2. txe_fsr' = Len(tx_event_fifo')
  BY DEF ResetState, ResetQueues
<1>3. Len(tx_event_fifo') <= tx_count' /\ Len(rx_fifo'[0]) <= rx_count'
  BY DEF ResetState, ResetQueues
<1> QED
  BY <1>1, <1>2, <1>3 DEF Accounted, StoredStatus, EventStatusExact, QueuesAccounted, FillLevel

LEMMA AccountedArbitration ==
  ASSUME TypeOK, Accounted, ProcessTxArbitration
  PROVE  txe_fsr' = Len(tx_event_fifo') /\ Len(tx_event_fifo') <= tx_count'
<1>1. /\ txe_fsr = Len(tx_event_fifo) /\ Len(tx_event_fifo) <= tx_count
      /\ tx_event_fifo \in Seq(TxEvent) /\ tx_count \in Nat
  BY DEF Accounted, StoredStatus, EventStatusExact, QueuesAccounted, TypeOK
<1>2. CASE UNCHANGED <<txVars, isr>>
  BY <1>1, <1>2 DEF txVars
<1>3. ASSUME NEW i \in Winner(tx_bufs), tx_count' = tx_count + 1, PushEvent(i)
      PROVE  txe_fsr' = Len(tx_event_fifo') /\ Len(tx_event_fifo') <= tx_count'
  <2> DEFINE ev == [id |-> tx_bufs[i].id, dlc |-> tx_bufs[i].dlc, timestamp |-> tsr]
  <2>1. CASE UNCHANGED <<tx_event_fifo, txe_fsr>>
    BY <1>1, <1>3, <2>1
  <2>2. CASE tx_event_fifo' = Append(tx_event_fifo, ev) /\ txe_fsr' = Len(tx_event_fifo')
    <3>1. Len(tx_event_fifo') = Len(tx_event_fifo) + 1
      BY <1>1, <2>2
    <3> QED
      BY <1>1, <1>3, <2>2, <3>1
  <2> QED
    BY <1>3, <2>1, <2>2 DEF PushEvent
<1> QED
  BY <1>2, <1>3 DEF ProcessTxArbitration

LEMMA AccountedPop ==
  ASSUME TypeOK, Accounted, NEW n \in Nat, PopEvents(n)
  PROVE  txe_fsr' = Len(tx_event_fifo') /\ Len(tx_event_fifo') <= tx_count
<1> DEFINE m == Len(tx_event_fifo) - n
<1>1. /\ txe_fsr = Len(tx_event_fifo) /\ Len(tx_event_fifo) <= tx_count
      /\ tx_event_fifo \in Seq(TxEvent) /\ tx_count \in Nat
      /\ Len(tx_event_fifo) \in Nat
  BY DEF Accounted, StoredStatus, EventStatusExact, QueuesAccounted, TypeOK
<1>2. CASE UNCHANGED <<tx_event_fifo, txe_fsr>>
  BY <1>1, <1>2
<1>3. CASE n < Len(tx_event_fifo) /\ tx_event_fifo' = SubSeq(tx_event_fifo, 1, m)
                                  /\ txe_fsr' = Len(tx_event_fifo')
  <2>1. m \in 0 .. Len(tx_event_fifo)
    BY <1>1, <1>3
  <2>2. Len(tx_event_fifo') = m
    BY <1>1, <1>3, <2>1, SubSeqProperties
  <2> QED
    BY <1>1, <1>3, <2>1, <2>2
<1>4. CASE tx_event_fifo' = <<>> /\ txe_fsr' = Len(tx_event_fifo')
  BY <1>1, <1>4
<1> QED
  BY <1>2, <1>3, <1>4 DEF PopEvents

LEMMA AccountedReceive ==
  ASSUME TypeOK, Accounted, NEW f \in Frames, OnCanFrameReceived(f)
  PROVE  fsr' = FillLevel(rx_fifo') /\ Len(rx_fifo'[0]) <= rx_count'
<1>1. /\ fsr = FillLevel(rx_fifo) /\ Len(rx_fifo[0]) <= rx_count
      /\ rx_fifo \in [Fifos -> Seq(RxMsg)] /\ rx_count \in Nat
  BY DEF Accounted, StoredStatus, EventStatusExact, QueuesAccounted, TypeOK
<1>2. fsr' = FillLevel(rx_fifo')
  <2>1. CASE \E k \in Fifos : Stores(k, f)
    BY <2>1 DEF OnCanFrameReceived
  <2>2. CASE \A k \in Fifos : ~Stores(k, f)
    <3>1. rx_fifo' = [k \in Fifos |-> rx_fifo[k]] /\ fsr' = fsr
      BY <2>2 DEF OnCanFrameReceived
    <3> QED
      BY <1>1, <3>1 DEF FillLevel
  <2> QED
    BY <2>1, <2>2
<1>3. Len(rx_fifo'[0]) <= rx_count'
  <2> DEFINE msg == [frame |-> f, timestamp |-> tsr]
  <2>1. CASE Stores(0, f)
    <3>1. rx_fifo'[0] = Append(rx_fifo[0], msg) /\ rx_count' = rx_count + 1
      BY <2>1 DEF OnCanFrameReceived
    <3>2. Len(rx_fifo'[0]) = Len(rx_fifo[0]) + 1 /\ Len(rx_fifo[0]) \in Nat
      BY <1>1, <3>1
    <3> QED
      BY <1>1, <3>1, <3>2
  <2>2. CASE ~Stores(0, f)
    BY <1>1, <2>2 DEF OnCanFrameReceived
  <2> QED
    BY <2>1, <2>2
<1> QED
  BY <1>2, <1>3

LEMMA AccountedRead ==
  ASSUME TypeOK, Accounted, NEW k \in Fifos, ReadRxFifo(k)
  PROVE  fsr' = FillLevel(rx_fifo') /\ Len(rx_fifo'[0]) <= rx_count'
<1>1. /\ Len(rx_fifo[0]) <= rx_count /\ rx_count' = rx_count /\ rx_count \in Nat
      /\ rx_fifo \in [Fifos -> Seq(RxMsg)] /\ fsr' = FillLevel(rx_fifo')
  BY DEF Accounted, QueuesAccounted, TypeOK, ReadRxFifo, rxVars
<1>2. CASE k = 0
  <2>1. rx_fifo[0] \in Seq(RxMsg) /\ rx_fifo[0] # <<>> /\ rx_fifo'[0] = Tail(rx_fifo[0])
    BY <1>1, <1>2 DEF ReadRxFifo
  <2>2. Len(rx_fifo'[0]) = Len(rx_fifo[0]) - 1 /\ Len(rx_fifo[0]) \in Nat
    BY <2>1, HeadTailProperties
  <2> QED
    BY <1>1, <2>2
<1>3. CASE k # 0
  BY <1>1, <1>3 DEF ReadRxFifo
<1> QED
  BY <1>2, <1>3

LEMMA AccountedStep == TypeOK /\ Accounted /\ [Next]_vars => Accounted'
<1> SUFFICES ASSUME TypeOK, Accounted, [Next]_vars PROVE Accounted'
  OBVIOUS
<1> USE DEF regVars, errVars, reqVars, txVars, rxVars
<1>1. CASE SoftReset
  BY <1>1, AccountedReset DEF SoftReset
<1>2. CASE UNCHANGED queueVars
  BY <1>2 DEF queueVars, Accounted, StoredStatus, EventStatusExact, QueuesAccounted, FillLevel
<1>3. CASE WriteReg /\ ~SoftReset
  <2>1. ASSUME NEW mask \in RequestMasks, WriteTRR(mask) PROVE Accounted'
    <3>1. txe_fsr' = Len(tx_event_fifo') /\ Len(tx_event_fifo') <= tx_count'
      BY <2>1, AccountedArbitration DEF WriteTRR
    <3>2. UNCHANGED <<rx_fifo, fsr, rx_count>>
      BY <2>1 DEF WriteTRR
    <3> QED
      BY <3>1, <3>2 DEF Accounted, StoredStatus, EventStatusExact, QueuesAccounted, FillLevel
  <2>2. ASSUME NEW mask \in CancelMasks, WriteTCR(mask) PROVE Accounted'
    <3>1. Cardinality(mask) \in Nat
      <4>1. mask \subseteq TxBufs /\ IsFiniteSet(TxBufs)
        BY UserAssumption, SizeAssumption, FS_Interval DEF TxBufs
      <4> QED
        BY <4>1, FS_Subset, FS_CardinalityType
    <3>2. txe_fsr' = Len(tx_event_fifo') /\ Len(tx_event_fifo') <= tx_count
      BY <2>2, <3>1, AccountedPop DEF WriteTCR
    <3>3. UNCHANGED <<rx_fifo, fsr, rx_count, tx_count>>
      BY <2>2 DEF WriteTCR
    <3> QED
      BY <3>2, <3>3 DEF Accounted, StoredStatus, EventStatusExact, QueuesAccounted, FillLevel
  <2>3. CASE \/ \E b \in BOOLEAN : WriteSRR(b)
             \/ \E r \in PlainRegs, w \in Words : WritePlain(r, w)
             \/ \E mask \in SUBSET esr : WriteESR(mask)
             \/ \E mask \in SUBSET isr : WriteICR(mask)
    BY <1>2, <2>3 DEF WriteSRR, WritePlain, WriteESR, WriteICR, queueVars
  <2> QED
    BY <1>3, <2>1, <2>2, <2>3 DEF WriteReg
<1>4. CASE WriteTxBuffers
  BY <1>2, <1>4 DEF WriteTxBuffers, WriteTxBuf, queueVars
<1>5. CASE ReceiveFrame
  <2>1. PICK f \in Frames : OnCanFrameReceived(f)
    BY <1>5 DEF ReceiveFrame
  <2>2. fsr' = FillLevel(rx_fifo') /\ Len(rx_fifo'[0]) <= rx_count'
    BY <2>1, AccountedReceive
  <2>3. UNCHANGED <<tx_event_fifo, txe_fsr, tx_count>>
    BY <2>1 DEF OnCanFrameReceived
  <2> QED
    BY <2>2, <2>3 DEF Accounted, StoredStatus, EventStatusExact, QueuesAccounted, FillLevel
<1>6. CASE ReadFifos
  <2>1. PICK k \in Fifos : ReadRxFifo(k)
    BY <1>6, UserAssumption DEF ReadFifos
  <2>2. fsr' = FillLevel(rx_fifo') /\ Len(rx_fifo'[0]) <= rx_count'
    BY <2>1, AccountedRead
  <2>3. UNCHANGED <<tx_event_fifo, txe_fsr, tx_count>>
    BY <2>1 DEF ReadRxFifo
  <2> QED
    BY <2>2, <2>3 DEF Accounted, StoredStatus, EventStatusExact, QueuesAccounted, FillLevel
<1>7. CASE DetectError
  BY <1>2, <1>7 DEF DetectError, OnErrorDetected, LatchedSR, queueVars
<1>8. CASE Tick
  BY <1>2, <1>8 DEF Tick, queueVars
<1>9. CASE UserFields
  BY <1>2, <1>9 DEF UserFields, SetReadyReq, EnableFilter, queueVars
<1>10. CASE UNCHANGED vars
  BY <1>2, <1>10 DEF vars, queueVars
<1> QED
  BY <1>1, <1>3, <1>4, <1>5, <1>6, <1>7, <1>8, <1>9, <1>10 DEF Next

\* Queues, registers and counters agree, in the form that is inductive under TypeOK
\* (the methods of the class).
THEOREM AccountedAlways == Spec => []Accounted
<1>1. TypeOK /\ Accounted /\ [Next]_vars => TypeOK' /\ Accounted'
  BY TypeStep, AccountedStep
<1>2. Init => TypeOK /\ Accounted
  BY TypeInit, AccountedInit
<1> QED
  BY <1>1, <1>2, PTL DEF Spec

\* What the scoreboard reads as TXE_FSR is the number of queued events (the places
\* that set TXE_FSR).
THEOREM EventStatusCorrect == Spec => []EventStatusExact
<1>1. Accounted => EventStatusExact
  BY DEF Accounted, StoredStatus
<1> QED
  BY <1>1, AccountedAlways, PTL

\* Six bits hold every fill level but the one of a full FIFO.
LEMMA Truncation ==
  ASSUME NEW n \in Nat, NEW d \in Nat \ {0}, n <= d
  PROVE  n % d = IF n = d THEN 0 ELSE n
<1>1. CASE n = d
  BY <1>1
<1>2. CASE n < d
  BY <1>2
<1> QED
  BY <1>1, <1>2

\* What the scoreboard reads as FSR is the number of frames in each FIFO, except
\* that a FIFO of 64 frames reads 0 (update_fifo_status).
THEOREM FillStatusCorrect == Spec => []FillStatusExact
<1>1. TypeOK /\ Accounted => FillStatusExact
  <2> SUFFICES ASSUME TypeOK, Accounted, NEW k \in Fifos
               PROVE  fsr[k] = IF Len(rx_fifo[k]) = FillLevels THEN 0 ELSE Len(rx_fifo[k])
    BY DEF FillStatusExact
  <2>1. Len(rx_fifo[k]) \in Nat /\ Len(rx_fifo[k]) <= RxDepth
    BY DEF TypeOK
  <2>2. FillLevels \in Nat \ {0} /\ RxDepth \in Nat /\ RxDepth <= FillLevels
    BY SizeAssumption
  <2>3. Len(rx_fifo[k]) <= FillLevels
    BY <2>1, <2>2
  <2>4. fsr[k] = Len(rx_fifo[k]) % FillLevels
    BY DEF Accounted, StoredStatus, FillLevel
  <2> QED
    BY <2>1, <2>2, <2>3, <2>4, Truncation
<1> QED
  BY <1>1, TypeCorrect, AccountedAlways, PTL

\* Nothing in a queue is older than the last reset (reset_state).
THEOREM QueuesAreAccounted == Spec => []QueuesAccounted
<1>1. Accounted => QueuesAccounted
  BY DEF Accounted
<1> QED
  BY <1>1, AccountedAlways, PTL

-----------------------------------------------------------------------------
(* The stored SR has latched the error states.                             *)

LEMMA LatchedEquiv ==
  ErrorStateLatched <=>
      /\ (tec >= EPAS_LIMIT \/ rec >= EPAS_LIMIT) => "EPAS" \in sr
      /\ tec >= BUSOFF_LIMIT => "BOFF" \in sr
      /\ "BOFF" \in sr <=> "CONFIG" \notin sr
BY DEF ErrorStateLatched, ComputeSR

LEMMA LatchedPrime ==
  ErrorStateLatched' <=>
      /\ (tec' >= EPAS_LIMIT \/ rec' >= EPAS_LIMIT) => "EPAS" \in sr'
      /\ tec' >= BUSOFF_LIMIT => "BOFF" \in sr'
      /\ "BOFF" \in sr' <=> "CONFIG" \notin sr'
BY DEF ErrorStateLatched, ComputeSR

LEMMA LatchedInit == Init => ErrorStateLatched
BY LatchedEquiv, LimitAssumption DEF Init

\* A step that leaves SR and REC alone and does not raise TEC.
LEMMA LatchedLower ==
  ASSUME TypeOK, ErrorStateLatched, sr' = sr, rec' = rec, tec' \in Nat, tec' <= tec
  PROVE  ErrorStateLatched'
<1>1. tec \in Nat /\ rec \in Nat
  BY LimitAssumption DEF TypeOK
<1>2. tec' >= EPAS_LIMIT => tec >= EPAS_LIMIT
  BY <1>1, LimitAssumption
<1>3. tec' >= BUSOFF_LIMIT => tec >= BUSOFF_LIMIT
  BY <1>1, LimitAssumption
<1> QED
  BY <1>2, <1>3, LatchedEquiv, LatchedPrime

LEMMA LatchedError ==
  ASSUME TypeOK, ErrorStateLatched, NEW err \in Errors, NEW is_fd \in BOOLEAN,
         NEW is_tx \in BOOLEAN, OnErrorDetected(err, is_fd, is_tx)
  PROVE  ErrorStateLatched'
<1> DEFINE t == IF is_tx THEN Bump(tec) ELSE tec
           r == IF is_tx THEN rec ELSE Bump(rec)
           passive == t >= EPAS_LIMIT \/ r >= EPAS_LIMIT
           busoff  == t >= BUSOFF_LIMIT
           s == IF passive THEN sr \cup {"EPAS"} ELSE sr
<1>1. tec + ErrorStep \in Nat /\ rec + ErrorStep \in Nat /\ CounterValues \in Nat \ {0}
      /\ tec \in Nat /\ rec \in Nat
  BY LimitAssumption DEF TypeOK
<1>2. Bump(tec) \in Nat /\ Bump(rec) \in Nat
  <2>1. /\ (tec + ErrorStep) % CounterValues \in 0 .. CounterValues - 1
        /\ (rec + ErrorStep) % CounterValues \in 0 .. CounterValues - 1
    BY <1>1, DivMod, Zenon
  <2> QED
    BY <1>1, <2>1 DEF Bump
<1>3. t \in Nat /\ r \in Nat
  BY <1>1, <1>2
<1>4. tec' = Saturated(t, BUSOFF_LIMIT) /\ rec' = Saturated(r, EPAS_LIMIT)
  BY DEF OnErrorDetected
<1>5. sr' = IF busoff THEN (s \cup {"BOFF"}) \ {"CONFIG"} ELSE s
  BY DEF OnErrorDetected, LatchedSR
<1> HIDE DEF t, r
<1>6. tec' >= EPAS_LIMIT \/ rec' >= EPAS_LIMIT => passive
  BY <1>3, <1>4, LimitAssumption DEF Saturated
<1>7. tec' >= BUSOFF_LIMIT => busoff
  BY <1>3, <1>4, LimitAssumption DEF Saturated
<1>8. passive => "EPAS" \in sr'
  BY <1>5
<1>9. busoff => "BOFF" \in sr' /\ "CONFIG" \notin sr'
  BY <1>5
<1>10. ~busoff => ("BOFF" \in sr' <=> "BOFF" \in sr) /\ ("CONFIG" \in sr' <=> "CONFIG" \in sr)
  BY <1>5
<1> QED
  BY <1>6, <1>7, <1>8, <1>9, <1>10, LatchedEquiv, LatchedPrime

LEMMA LatchedStep == TypeOK /\ ErrorStateLatched /\ [Next]_vars => ErrorStateLatched'
<1> SUFFICES ASSUME TypeOK, ErrorStateLatched, [Next]_vars PROVE ErrorStateLatched'
  OBVIOUS
<1> USE DEF errVars, txVars
<1>0. tec \in Nat
  BY LimitAssumption DEF TypeOK
<1>1. CASE SoftReset
  BY <1>1, LatchedPrime, LimitAssumption DEF SoftReset, ResetState, ResetQueues
<1>2. CASE UNCHANGED <<sr, rec, tec>>
  BY <1>0, <1>2, LatchedLower
<1>3. ASSUME NEW mask \in RequestMasks, WriteTRR(mask) PROVE ErrorStateLatched'
  <2>1. sr' = sr /\ rec' = rec
    BY <1>3 DEF WriteTRR
  <2>2. tec' = tec \/ tec' = IF tec > 0 THEN tec - 1 ELSE tec
    BY <1>3 DEF WriteTRR, ProcessTxArbitration
  <2>3. tec' \in Nat /\ tec' <= tec
    BY <1>0, <2>2
  <2> QED
    BY <2>1, <2>3, LatchedLower
<1>4. CASE WriteReg /\ ~SoftReset
  BY <1>2, <1>3, <1>4 DEF WriteReg, WriteSRR, WritePlain, WriteESR, WriteICR, WriteTCR
<1>5. CASE WriteTxBuffers
  BY <1>2, <1>5 DEF WriteTxBuffers, WriteTxBuf
<1>6. CASE ReceiveFrame
  BY <1>2, <1>6 DEF ReceiveFrame, OnCanFrameReceived
<1>7. CASE ReadFifos
  BY <1>2, <1>7 DEF ReadFifos, ReadRxFifo
<1>8. CASE DetectError
  BY <1>8, LatchedError DEF DetectError
<1>9. CASE Tick
  BY <1>2, <1>9 DEF Tick
<1>10. CASE UserFields
  BY <1>2, <1>10 DEF UserFields, SetReadyReq, EnableFilter
<1>11. CASE UNCHANGED vars
  BY <1>2, <1>11 DEF vars
<1> QED
  BY <1>1, <1>4, <1>5, <1>6, <1>7, <1>8, <1>9, <1>10, <1>11 DEF Next

\* The error states compute_sr derives from the counters are always latched in
\* the stored SR, and bus-off and the configuration bit exclude each other.
THEOREM ErrorStateCorrect == Spec => []ErrorStateLatched
<1>1. TypeOK /\ ErrorStateLatched /\ [Next]_vars => TypeOK' /\ ErrorStateLatched'
  BY TypeStep, LatchedStep
<1> QED
  BY <1>1, TypeInit, LatchedInit, PTL DEF Spec

-----------------------------------------------------------------------------
(* The reception side implements the pair of queues.                       *)

LEMMA RxInit == Init => Rx!Init
BY DEF Init, Rx!Init

LEMMA RxArrive ==
  ASSUME TypeOK, NEW f \in Frames, OnCanFrameReceived(f)
  PROVE  Rx!Next
<1> DEFINE msg  == [frame |-> f, timestamp |-> tsr]
           dest == {k \in Fifos : Matches(k, f)}
<1>1. msg \in RxMsg /\ dest \in SUBSET Fifos
  BY DEF TypeOK, RxMsg
<1>2. \A k \in Fifos : Len(rx_fifo[k]) \in Nat /\ RxDepth \in Nat
  BY SizeAssumption DEF TypeOK
<1>3. \A k \in Fifos : /\ Stores(k, f) <=> k \in dest /\ ~Rx!Full(k)
                       /\ Loses(k, f) <=> k \in dest /\ Rx!Full(k)
  BY <1>2 DEF Stores, Loses, Rx!Full
<1>4. rx_fifo' = [k \in Fifos |->
         IF k \in dest /\ ~Rx!Full(k) THEN Append(rx_fifo[k], msg) ELSE rx_fifo[k]]
  BY <1>3 DEF OnCanFrameReceived
<1>5. "RXOVF" \in isr' <=> "RXOVF" \in isr \/ \E k \in Fifos : Loses(k, f)
  BY DEF OnCanFrameReceived
<1>6. "RXOVF" \in isr' <=> "RXOVF" \in isr \/ \E k \in dest : Rx!Full(k)
  BY <1>3, <1>5
<1>7. ("RXOVF" \in isr') = ("RXOVF" \in isr \/ \E k \in dest : Rx!Full(k))
  BY <1>6
<1>8. Rx!Arrive(dest, msg)
  BY <1>4, <1>7 DEF Rx!Arrive
<1> QED
  BY <1>1, <1>8 DEF Rx!Next

LEMMA RxStep == TypeOK /\ [Next]_vars => [Rx!Next]_(Rx!vars)
<1> SUFFICES ASSUME TypeOK, [Next]_vars PROVE Rx!Next \/ UNCHANGED Rx!vars
  OBVIOUS
<1> USE DEF rxVars, txVars
<1>1. CASE SoftReset
  <2>1. rx_fifo' = [k \in Fifos |-> <<>>] /\ ("RXOVF" \in isr') = FALSE
    BY <1>1 DEF SoftReset, ResetState, ResetQueues
  <2> QED
    BY <2>1 DEF Rx!Next, Rx!Reset
<1>2. CASE rx_fifo' = rx_fifo /\ ("RXOVF" \in isr' <=> "RXOVF" \in isr)
  <2>1. ("RXOVF" \in isr') = ("RXOVF" \in isr)
    BY <1>2
  <2> QED
    BY <1>2, <2>1 DEF Rx!vars
<1>3. ASSUME NEW mask \in SUBSET isr, WriteICR(mask)
      PROVE  Rx!Next \/ UNCHANGED Rx!vars
  <2>1. rx_fifo' = rx_fifo /\ isr' = isr \ mask
    BY <1>3 DEF WriteICR
  <2>2. CASE "RXOVF" \in mask
    <3>1. ("RXOVF" \in isr') = FALSE
      BY <2>1, <2>2
    <3> QED
      BY <2>1, <3>1 DEF Rx!Next, Rx!ClearOverflow
  <2>3. CASE "RXOVF" \notin mask
    BY <1>2, <2>1, <2>3
  <2> QED
    BY <2>2, <2>3
<1>4. ASSUME NEW mask \in RequestMasks, WriteTRR(mask)
      PROVE  Rx!Next \/ UNCHANGED Rx!vars
  <2>1. isr' = isr \/ isr' = isr \cup {"TXOK"}
    BY <1>4 DEF WriteTRR, ProcessTxArbitration
  <2>2. rx_fifo' = rx_fifo
    BY <1>4 DEF WriteTRR
  <2> QED
    BY <1>2, <2>1, <2>2
<1>5. CASE \/ \E b \in BOOLEAN : WriteSRR(b)
           \/ \E r \in PlainRegs, w \in Words : WritePlain(r, w)
           \/ \E mask \in SUBSET esr : WriteESR(mask)
           \/ \E mask \in CancelMasks : WriteTCR(mask)
  BY <1>2, <1>5 DEF WriteSRR, WritePlain, WriteESR, WriteTCR
<1>6. CASE WriteTxBuffers
  BY <1>2, <1>6 DEF WriteTxBuffers, WriteTxBuf
<1>7. CASE ReceiveFrame
  BY <1>7, RxArrive DEF ReceiveFrame
<1>8. CASE ReadFifos
  <2>1. PICK k \in Fifos : ReadRxFifo(k)
    BY <1>8, UserAssumption DEF ReadFifos
  <2>2. Rx!Take(k)
    BY <2>1 DEF ReadRxFifo, Rx!Take
  <2> QED
    BY <2>2 DEF Rx!Next
<1>9. ASSUME NEW err \in Errors, NEW is_fd \in BOOLEAN, NEW is_tx \in BOOLEAN,
             OnErrorDetected(err, is_fd, is_tx)
      PROVE  Rx!Next \/ UNCHANGED Rx!vars
  <2>1. (isr' = isr \/ isr' = isr \cup {"EWARN"}) /\ rx_fifo' = rx_fifo
    BY <1>9 DEF OnErrorDetected, LatchedSR
  <2> QED
    BY <1>2, <2>1
<1>10. CASE Tick
  <2>1. (isr' = isr \/ isr' = isr \cup {"TSCNT"}) /\ rx_fifo' = rx_fifo
    BY <1>10 DEF Tick
  <2> QED
    BY <1>2, <2>1
<1>11. CASE UserFields
  BY <1>2, <1>11 DEF UserFields, SetReadyReq, EnableFilter
<1>12. CASE UNCHANGED vars
  BY <1>2, <1>12 DEF vars
<1> QED
  BY <1>1, <1>3, <1>4, <1>5, <1>6, <1>7, <1>8, <1>9, <1>10, <1>11, <1>12
     DEF Next, WriteReg, DetectError

\* The two receive FIFOs and the bit RXOVF of the reference model implement a
\* pair of bounded queues with a shared overflow flag: no accepted frame is
\* lost or reordered, and no frame is refused without the flag being raised.
THEOREM RxRefinement == Spec => RxImplementsQueues
<1>1. Spec => []TypeOK
  BY TypeCorrect
<1> QED
  BY <1>1, RxInit, RxStep, PTL DEF Spec, RxImplementsQueues, Rx!Spec

-----------------------------------------------------------------------------
(* Transmission order.                                                     *)

\* The step of TransmitsHighestPriority.
Transmits(i) ==
    /\ Pending(tx_bufs') = Pending(tx_bufs) \ {i}
    /\ \A j \in Pending(tx_bufs) \ {i} :
          \/ tx_bufs[i].id < tx_bufs[j].id
          \/ tx_bufs[i].id = tx_bufs[j].id /\ i < j

LEMMA WinnerTransmits ==
  ASSUME TypeOK, NEW i \in Winner(tx_bufs),
         tx_bufs' = [tx_bufs EXCEPT ![i].ready_req = FALSE]
  PROVE  i \in Pending(tx_bufs) /\ Transmits(i)
<1>1. i \in Pending(tx_bufs) /\ i \in TxBufs
  BY DEF Winner, Pending
<1>2. tx_bufs \in [TxBufs -> TxBuf]
  BY DEF TypeOK
<1>3. ~tx_bufs'[i].ready_req /\ \A j \in TxBufs \ {i} : tx_bufs'[j] = tx_bufs[j]
  BY <1>1, <1>2 DEF TxBuf
<1>4. Pending(tx_bufs') = Pending(tx_bufs) \ {i}
  BY <1>1, <1>3 DEF Pending
<1>5. ASSUME NEW j \in Pending(tx_bufs) \ {i}
      PROVE  \/ tx_bufs[i].id < tx_bufs[j].id
             \/ tx_bufs[i].id = tx_bufs[j].id /\ i < j
  <2>1. \/ tx_bufs[i].id < tx_bufs[j].id
        \/ tx_bufs[i].id = tx_bufs[j].id /\ i <= j
    BY <1>5 DEF Winner
  <2>2. i \in Nat /\ j \in Nat /\ i # j
    BY <1>1, <1>5, SizeAssumption DEF Pending, TxBufs
  <2> QED
    BY <2>1, <2>2
<1> QED
  BY <1>1, <1>4, <1>5 DEF Transmits

LEMMA TransmitStep ==
  ASSUME TypeOK, [Next]_vars, tx_count' > tx_count
  PROVE  \E i \in Pending(tx_bufs) : Transmits(i)
<1>1. tx_count \in Nat /\ ~(tx_count > tx_count) /\ ~(0 > tx_count)
  BY DEF TypeOK
<1>2. tx_count' # tx_count /\ tx_count' # 0
  BY <1>1
<1>3. \E mask \in RequestMasks : WriteTRR(mask)
  <2> USE DEF txVars, rxVars
  <2>1. WriteReg
    BY <1>2 DEF Next, vars, WriteTxBuffers, WriteTxBuf, ReceiveFrame,
                OnCanFrameReceived, ReadFifos, ReadRxFifo, DetectError,
                OnErrorDetected, LatchedSR, Tick, UserFields, SetReadyReq, EnableFilter
  <2> QED
    BY <1>2, <2>1, ZenonT(60)
       DEF WriteReg, SoftReset, ResetState, ResetQueues, WriteSRR, WritePlain,
           WriteESR, WriteICR, WriteTCR
<1>4. \E i \in Winner(tx_bufs) : tx_bufs' = [tx_bufs EXCEPT ![i].ready_req = FALSE]
  BY <1>2, <1>3 DEF WriteTRR, ProcessTxArbitration, txVars
<1>5. PICK i \in Winner(tx_bufs) : tx_bufs' = [tx_bufs EXCEPT ![i].ready_req = FALSE]
  BY <1>4
<1> QED
  BY <1>5, WinnerTransmits

\* Every transmission serves the waiting request with the smallest identifier,
\* on a tie the one of the lower buffer, and leaves the others waiting.
THEOREM TransmissionOrder == Spec => TransmitsHighestPriority
<1>1. TypeOK /\ [Next]_vars =>
        [tx_count' > tx_count =>
            \E i \in Pending(tx_bufs) :
                /\ Pending(tx_bufs') = Pending(tx_bufs) \ {i}
                /\ \A j \in Pending(tx_bufs) \ {i} :
                      \/ tx_bufs[i].id < tx_bufs[j].id
                      \/ tx_bufs[i].id = tx_bufs[j].id /\ i < j]_vars
  BY TransmitStep DEF Transmits
<1> QED
  BY <1>1, TypeCorrect, PTL DEF Spec, TransmitsHighestPriority

=============================================================================
