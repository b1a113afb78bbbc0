----------------------------- MODULE MCTestQueue -----------------------------
(* The instance of TestQueue that TLC checks: two goroutines call Run, so     *)
(* that one of them must be turned away, and there are more requests than     *)
(* the queue holds.                                                           *)
EXTENDS TestQueue
=============================================================================
