--------------------------- MODULE ResultStoreInv ---------------------------
(***************************************************************************)
(* The inductive invariant of ResultStore, and what its eviction loop      *)
(* leaves of a cache.                                                      *)
(***************************************************************************)
EXTENDS ResultStore, Integers

Indexes == UNION {[D -> Keys] : D \in SUBSET Nat}
Maps == UNION {[D -> [size : Nat, tick : Nat]] : D \in SUBSET Keys}
Contents == [lru : Indexes, entries : Maps, bytes : Int]

\* Every entry is found under its tick, and nothing else is, and the count
\* is right: also between two turns of the loop.
Consistent(s) ==
  /\ IsFiniteSet(DOMAIN s.entries)
  /\ DOMAIN s.lru = {s.entries[k].tick : k \in DOMAIN s.entries}
  /\ \A k \in DOMAIN s.entries : s.lru[s.entries[k].tick] = k
  /\ s.bytes = Cost(s.entries)

Kept == {s \in Contents : Consistent(s)}

Now == [lru |-> lru, entries |-> entries, bytes |-> bytes]

IInv ==
  /\ Now \in Kept /\ bytes <= Cap
  /\ tick \in Nat /\ \A k \in DOMAIN entries : entries[k].tick <= tick

-----------------------------------------------------------------------------
\* What the entry of a tick costs, and the entries from a tick on.
SizeAt(s) == [t \in DOMAIN s.lru |-> s.entries[s.lru[t]].size]
After(s, t) == SumFunctionOnSet(SizeAt(s), {x \in DOMAIN s.lru : x >= t})

\* u is what is left of s: its newest entries as they were, and nothing went
\* that fitted beside `size' bytes with all that is newer.
Left(s, u, size) ==
  /\ DOMAIN u.lru \subseteq DOMAIN s.lru
  /\ \A t \in DOMAIN s.lru, x \in DOMAIN u.lru : x <= t => t \in DOMAIN u.lru
  /\ \A t \in DOMAIN u.lru :
       u.lru[t] = s.lru[t] /\ u.entries[s.lru[t]] = s.entries[s.lru[t]]
  /\ \A t \in DOMAIN s.lru \ DOMAIN u.lru : After(s, t) + size > Cap

\* The loop ends.
Fits(s, size) == s.bytes + size <= Cap \/ DOMAIN s.lru = {}

LoopOK == \A size \in Sizes :
  LET u == Evicted(size) IN u \in Kept /\ Left(Now, u, size) /\ Fits(u, size)
=============================================================================
