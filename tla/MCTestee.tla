------------------------------- MODULE MCTestee -------------------------------
(***************************************************************************)
(* Instances of the testee for TLC: headers of two bytes, so that one can  *)
(* be cut, and buffers and pipes smaller than the longest message.         *)
(***************************************************************************)
EXTENDS Testee

(* Empty, one byte, the largest one, and one above the limit.              *)
MCBodies == { 0, 1, MaxFrame, MaxFrame + 1 }
MCAnswers == { 1, MaxFrame, MaxFrame + 1 }
=============================================================================
