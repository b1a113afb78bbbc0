----------------------------- MODULE MCTestJobs -----------------------------
(* The instances of TestJobs that TLC checks.                                *)
EXTENDS TestJobs
=============================================================================
