-------------------------- MODULE MCProcessManager --------------------------
(* The instances of ProcessManager that TLC checks: main and at most one      *)
(* installation, and a core that may crash more often than it is restarted.   *)
EXTENDS ProcessManager
=============================================================================
