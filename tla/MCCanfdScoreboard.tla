-------------------------- MODULE MCCanfdScoreboard --------------------------
(***************************************************************************)
(* Instances of the scoreboard for TLC: what a test writes and reads.      *)
(***************************************************************************)
EXTENDS CanfdScoreboard

CONSTANTS f1, f2, err

RxFrames == {f1, err}

Read(target) ==
    [dir |-> "READ", target |-> target, at |-> 0, value |-> {}, resp |-> ExpectedResp(target)]
Write(target, at, value) ==
    [dir |-> "WRITE", target |-> target, at |-> at, value |-> value, resp |-> ExpectedResp(target)]

\* Transmission: the header word of the second buffer, requests for either,
\* a cancellation, a soft reset in between, and a wait for TXOK.
TxOps ==
    {Write("TRR", 0, {i}) : i \in TxBufs}
        \cup {Write("TXBUF", 16, 1), Write("TCR", 0, {0}), Write("CEN", 0, 1),
              Write("SRST", 0, {}), Read("ISR")}

\* Reception: the device enabled with or without a filter, its status read and
\* acknowledged, and its read index incremented.
RxOps ==
    {Write("CEN", 0, 1), Write("AFR", 0, 1), Write("ICR", 0, {3, 4}),
     Write("FSR", 0, 128), Write("SRST", 0, {}),
     Read("ISR"), Read("FSR"), Read("AFR"), Read("UNMAPPED")}

OneBuffer == {{i} : i \in TxBufs}

=============================================================================
