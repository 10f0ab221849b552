----------------------------- MODULE MCDecimals -----------------------------
(* Instances of Decimals for TLC: with a precision of three digits, an     *)
(* integer that only fits scale 0, two values that fit together, and one   *)
(* with more fractional digits than a scale may have.                      *)
EXTENDS Decimals

MCValues == {[whole |-> 3, frac |-> 0], [whole |-> 1, frac |-> 1],
             [whole |-> 1, frac |-> 2], [whole |-> 0, frac |-> 3]}
=============================================================================
