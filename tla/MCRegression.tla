---------------------------- MODULE MCRegression ----------------------------
(***************************************************************************)
(* Instances of the regression manager for TLC.                            *)
(***************************************************************************)
EXTENDS Regression

\* A group that two xruns can be in together and one that comes after it.
SmallGroups == << <<"a", "b">>, <<"c">> >>

\* A simulation that passed and one with an error.
SomeLogs == {{"UVM TEST PASSED"}, {"UVM_ERROR", "UVM TEST FAILED", "$finish"}}
=============================================================================
