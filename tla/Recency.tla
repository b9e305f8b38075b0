------------------------------ MODULE Recency ------------------------------
(***************************************************************************)
(* The result cache as a list: the kept results with their sizes, least    *)
(* recently used first.  These are the operators on such a list that       *)
(* `lookup' and `store' of duckext/src/panel_cache.rs implement with two   *)
(* maps and a tick (module ResultStore has the maps and shows that they    *)
(* implement this list).                                                   *)
(***************************************************************************)
EXTENDS Naturals, FiniteSets, SequencesExt

Entry(k, size) == [key |-> k, size |-> size]

\* The keys a list holds a result for.
KeysOf(list) == { list[i].key : i \in DOMAIN list }

\* What the kept results cost together.
Bytes(list) == SumFunction([i \in DOMAIN list |-> list[i].size])

\* `list' after a hit on `k': its entry becomes the most recent one.
Touch(list, k) ==
  LET i == CHOOSE i \in DOMAIN list : list[i].key = k
  IN  Append(RemoveAt(list, i), list[i])

\* `list' after the oldest entries were evicted until `need' bytes are free
\* under `cap': one goes for every suffix that is still too large.
Fit(list, need, cap) ==
  LET From(n) == SubSeq(list, n, Len(list))
      evicted == { n \in DOMAIN list : Bytes(From(n)) + need > cap }
  IN  From(Cardinality(evicted) + 1)

\* `list' after a result of `size' bytes for `k' was stored: refused when it
\* is larger than a quarter of the cache, or already there.
Keep(list, k, size, cap) ==
  IF size > cap \div 4 \/ k \in KeysOf(list)
  THEN list
  ELSE Append(Fit(list, size, cap), Entry(k, size))
=============================================================================
