----------------------------- MODULE MCHarness ------------------------------
(* Model-checking instances of the harness: the configurations give the constants. *)
EXTENDS Probe

\* A test that does nothing but measure throughput: every frame in flight is one
\* of its warm-up or of its window.
ThroughputSpec ==
  Init /\ [][/\ Next
             /\ job'.kind \in {"none", "throughput"}
             /\ job'.kind = "none" => job'.sent = 0]_vars
=============================================================================
