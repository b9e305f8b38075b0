------------------------------ MODULE MCRunPanel ------------------------------
(* Two workers; two requests of one dashboard that set different variables *)
(* and share its setup, and one of another dashboard.                      *)
EXTENDS RunPanel, TLC

CONSTANTS t1, t2, k1, k2

MCThread == {t1, t2}
MCKey == {k1, k2}
MCSlot == 1..3
MCTable == 1..3
MCRequest == {[warm |-> "w1", mat |-> k1, sets |-> {"region"}],
              [warm |-> "w1", mat |-> k1, sets |-> {"year"}],
              [warm |-> "w2", mat |-> k2, sets |-> {}]}
MCSizes == {1, 3}

Symmetry == Permutations(MCThread)
=============================================================================
