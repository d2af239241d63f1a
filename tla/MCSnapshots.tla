---------------------------- MODULE MCSnapshots -----------------------------
(* A snapshot of the table beside two goroutines that learn one station. *)
EXTENDS Snapshots

MCCfg == [p \in 0 .. (NumPorts - 1) |-> [accessVID |-> 0, trunk |-> {}]]
=============================================================================
