--------------------------- MODULE MCAdminConsole ---------------------------
(* AdminConsole on a small instance. *)
EXTENDS AdminConsole

\* Traffic is uploaded only, then the core restarts and counts from zero.
MCTotals == [v \in 0..MaxChanges |-> CASE v = 0 -> <<1, 0>> [] v = 1 -> <<1, 1>> [] OTHER -> <<0, 0>>]
=============================================================================
