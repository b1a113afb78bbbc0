-------------------------- MODULE MCEndpointCircuit --------------------------
(* The instances of EndpointCircuit that TLC checks.  The nodes of an entry  *)
(* IP are interchangeable in every safety property.                          *)
EXTENDS EndpointCircuit, TLC

NodeSymmetry == Permutations(Node)
=============================================================================
