------------------------------- MODULE MCTextUI -------------------------------
(* TextUI for TLC: one state letter the code knows and one it does not     *)
(* (the kernel's 't', a traced process), and a pad on which the list fits  *)
(* once but not twice.                                                     *)
EXTENDS TextUI

TwoLetters == {"R", "t"}
Leftover   == {"Running", "?"}
===============================================================================
