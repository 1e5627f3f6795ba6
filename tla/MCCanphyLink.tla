---------------------------- MODULE MCCanphyLink ----------------------------
EXTENDS CanphyLink

None == 0 - 1

\* A data frame with a standard identifier and n data bytes.
Std(n, last, err) == [kind |-> "data", err |-> err, bits |-> 19 + 8 * n, last |-> last, fdf |-> FALSE]

\* A CAN FD frame with a standard identifier and n data bytes.
Fd(n, err) == [kind |-> "data", err |-> err, bits |-> 22 + 8 * n, last |-> 0, fdf |-> TRUE]

Flag == [kind |-> "flag", err |-> None]

\* The shortest frame, undisturbed and inverted in its first bit; frames of
\* which the whole length or its end is inverted; the longest frame, cut by
\* the limit, undisturbed and disturbed behind the cut; an error frame.
MCFrames ==
  {Std(0, 1, None), Std(0, 0, 0), Std(0, 0, 46), Std(8, 0, None), Fd(64, None), Fd(64, 250), Flag}
=============================================================================
