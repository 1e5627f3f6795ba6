--------------------------- MODULE MCCanfdRefModel ---------------------------
(***************************************************************************)
(* Instances of the reference model for TLC.  The error limits keep the    *)
(* shape of the code's (96, 128, 256, the step 8, 512 as register width):  *)
(* the two upper limits are multiples of the step, so that the counters    *)
(* meet them exactly and saturate there, and bus-off is one more than a    *)
(* field of ECR holds.                                                     *)
(***************************************************************************)
EXTENDS CanfdRefModel

CONSTANTS f1, f2, err

\* Transmission: identifiers 0 .. MaxId, requests for one buffer at a time, and
\* a cancellation of one buffer or of all.
TxWords == 0 .. 2
OneBuffer == {{i} : i \in TxBufs}
OneOrAll == {{0}, TxBufs}

\* Reception: FIFO 0 or 1 may be told to accept only f1.
RxFrames == {f1, f2, err}
OnlyF1 == {{f1}}
=============================================================================
