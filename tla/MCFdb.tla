------------------------------- MODULE MCFdb --------------------------------
(***************************************************************************)
(* Small instances of the learning table: NumPorts goroutines of a plain    *)
(* switch that contend for one station.  Keys do not interact except        *)
(* through mu, which the goroutines of one key already contend for.         *)
(***************************************************************************)
EXTENDS FdbHistory

MCCfg == [p \in 0 .. (NumPorts - 1) |-> [accessVID |-> 0, trunk |-> {}]]

\* A cell that neither the map nor a goroutine points to is garbage: its
\* contents are never read again and do not tell two states apart.
Live == [k \in macKey |-> [s \in Slots |-> IF s \in FreeSlots(k) THEN Nil ELSE heap[k][s]]]
View == <<clock, ageing, mu, table, Live, th, gc, histVars, current>>

\* A clock that is never set back.
ForwardSpec == Init /\ [][Next /\ clock' >= clock]_vars
=============================================================================
