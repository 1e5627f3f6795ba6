---------------------------- MODULE MCProgramGen ----------------------------
(* ProgramGen for TLC: two harts, short programs, up to two directed        *)
(* streams.  A loop's generated body and a memory stream's mixed part have  *)
(* at most one instruction, a jump stream one jump.  Loops are single or    *)
(* nested, and one of their own instructions may be a branch.  MaxDirected  *)
(* is the length of a nested loop with a body, which is then the only       *)
(* stream; two single loops fit if one of them has no body.                 *)
EXTENDS ProgramGen

=============================================================================
