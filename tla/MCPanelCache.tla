---------------------------- MODULE MCPanelCache ----------------------------
(***************************************************************************)
(* Instances of PanelCache for TLC.                                        *)
(***************************************************************************)
EXTENDS PanelCacheInv, TLC

\* Every result takes 1 of 4 bytes: the cache never evicts (the eviction order is
\* checked by ResultStore).
MCSizeOf == [k \in Keys |-> 1]

(***************************************************************************)
(* TLC's symmetry reduction is unsound for liveness, so the runs start from*)
(* one representative of every input up to renaming the requests: Req =    *)
(* 1..n, Keys and TKeys are numbers, and the requests are sorted by what   *)
(* they ask for.                                                           *)
(***************************************************************************)
Rank(r) == <<key[r], IF tkey[r] = None THEN 0 ELSE tkey[r]>>

Sorted ==
  \A r \in Req \ {1} : LET p == Rank(r - 1)  q == Rank(r) IN
    p[1] < q[1] \/ (p[1] = q[1] /\ p[2] <= q[2])

SortedInit == Init /\ Sorted

SortedSpec == SortedInit /\ [][Next]_vars /\ Fairness
=============================================================================
