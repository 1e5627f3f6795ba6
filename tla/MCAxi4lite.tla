----------------------------- MODULE MCAxi4lite -----------------------------
(***************************************************************************)
(* Instances of the AXI4-Lite agent for TLC.                               *)
(***************************************************************************)
EXTENDS Axi4lite

\* Per address a write, of a word of its own, and a read: enough to tell an
\* address, a word or a direction that went to the wrong transaction.
AnItemOfEach ==
    {[dir |-> "WRITE", addr |-> 0, data |-> 0], [dir |-> "WRITE", addr |-> 4, data |-> 1],
     [dir |-> "READ", addr |-> 0, data |-> 0], [dir |-> "READ", addr |-> 4, data |-> 0]}
=============================================================================
