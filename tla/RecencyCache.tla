---------------------------- MODULE RecencyCache ----------------------------
(***************************************************************************)
(* What the result cache promises: it is a list of results, least recently *)
(* used first, within a byte cap.  PanelCache uses this list; ResultStore  *)
(* shows that the maps of duckext/src/panel_cache.rs implement it.         *)
(***************************************************************************)
EXTENDS Recency

CONSTANTS
  Keys,   \* the keys of the results
  Sizes,  \* what a result may cost
  Cap     \* the byte cap

VARIABLE list

Init == list = << >>

\* A result is asked for; a miss changes nothing.
Lookup(k) == list' = IF k \in KeysOf(list) THEN Touch(list, k) ELSE list

\* A result is offered to the cache.
Store(k, size) == list' = Keep(list, k, size, Cap)

Next == \E k \in Keys : Lookup(k) \/ \E size \in Sizes : Store(k, size)

Spec == Init /\ [][Next]_list
=============================================================================
