------------------------------ MODULE MCDebconf ------------------------------
(***************************************************************************)
(* An instance of Debconf: three steps, the last of which may ask two      *)
(* questions together, one of them for the second time.                    *)
(***************************************************************************)
EXTENDS Debconf

CONSTANTS q1, q2, q3

ThreeSteps == << {q1}, {q2}, {q1, q3} >>
=============================================================================
