---------------------------- MODULE ResultStore ----------------------------
(***************************************************************************)
(* The result cache as duckext/src/panel_cache.rs keeps it (`Inner::lookup'*)
(* and `Inner::store'): a map of entries, an index from use ticks to keys, *)
(* a byte count and a tick counter, changed together under the cache's     *)
(* mutex.  It implements the list of RecencyCache.                         *)
(***************************************************************************)
EXTENDS Naturals, FiniteSets, FiniteSetsExt, Functions

CONSTANTS
  Keys,     \* the keys of the results
  Sizes,    \* what a result may cost
  Cap,      \* the byte cap
  MaxTick   \* bound: how far the tick counter is followed

ASSUME StoreAssumption == Sizes \subseteq Nat /\ Cap \in Nat /\ MaxTick \in Nat

VARIABLES
  entries,  \* key -> size and last use of the kept result
  lru,      \* tick -> key: the entries by their last use
  bytes,    \* what the entries cost together
  tick      \* the last use of any entry

vars == <<entries, lru, bytes, tick>>

\* f without its entry for x; f with y at x.
Without(f, x) == [z \in DOMAIN f \ {x} |-> f[z]]
With(f, x, y) == [z \in DOMAIN f \cup {x} |-> IF z = x THEN y ELSE f[z]]

\* What the entries of a map cost together.
Cost(es) == SumFunction([k \in DOMAIN es |-> es[k].size])

\* Wrong on purpose: the entry used last goes first.
Newest(index) == Max(DOMAIN index)

Oldest(index) == Min(DOMAIN index)

Init ==
  /\ entries = << >> /\ lru = << >>
  /\ bytes = 0 /\ tick = 0

-----------------------------------------------------------------------------
\* Every lookup takes a tick; a hit moves its entry to it.
Lookup(k) ==
  /\ tick < MaxTick
  /\ tick' = tick + 1
  /\ \/ /\ k \in DOMAIN entries
        /\ lru' = With(Without(lru, entries[k].tick), tick', k)
        /\ entries' = [entries EXCEPT ![k].tick = tick']
     \/ /\ k \notin DOMAIN entries
        /\ UNCHANGED <<entries, lru>>
  /\ UNCHANGED bytes

Refused(k, size) == size > Cap \div 4 \/ k \in DOMAIN entries

\* Wrong on purpose: an evicted entry is not deducted.
PopKeepsBytes(s, size) ==
  IF s.bytes + size <= Cap \/ DOMAIN s.lru = {} THEN s
  ELSE LET old == s.lru[Oldest(s.lru)] IN
       [lru     |-> Without(s.lru, Oldest(s.lru)),
        entries |-> Without(s.entries, old),
        bytes   |-> s.bytes]

\* One turn of the eviction loop: the oldest entry goes while there is one and
\* the new result does not fit.
Pop(s, size) ==
  IF s.bytes + size <= Cap \/ DOMAIN s.lru = {} THEN s
  ELSE LET old == s.lru[Oldest(s.lru)] IN
       [lru     |-> Without(s.lru, Oldest(s.lru)),
        entries |-> Without(s.entries, old),
        bytes   |-> s.bytes - s.entries[old].size]

\* The loop turns at most once for every entry.
Evicted(size) ==
  FoldSet(LAMBDA t, s : Pop(s, size),
          [lru |-> lru, entries |-> entries, bytes |-> bytes],
          DOMAIN lru)

Store(k, size) ==
  \/ Refused(k, size) /\ UNCHANGED vars
  \/ /\ ~Refused(k, size)
     /\ tick < MaxTick
     /\ tick' = tick + 1
     /\ LET s == Evicted(size) IN
        /\ lru' = With(s.lru, tick', k)
        /\ entries' = With(s.entries, k, [size |-> size, tick |-> tick'])
        /\ bytes' = s.bytes + size

\* The tick counter has reached the bound.
Bound == tick = MaxTick /\ UNCHANGED vars

Next ==
  \/ \E k \in Keys : Lookup(k) \/ \E size \in Sizes : Store(k, size)
  \/ Bound

Spec == Init /\ [][Next]_vars
-----------------------------------------------------------------------------
(***************************************************************************)
(* Map and index describe the same entries: every entry is found under the *)
(* tick of its last use, and the index holds nothing else.                 *)
(***************************************************************************)
IndexExact ==
  /\ DOMAIN lru = { entries[k].tick : k \in DOMAIN entries }
  /\ \A k \in DOMAIN entries : lru[entries[k].tick] = k /\ entries[k].tick <= tick

(***************************************************************************)
(* The byte count is what the entries cost: it never drifts, so the cap is *)
(* really kept and the subtraction of an eviction never underflows.        *)
(***************************************************************************)
BytesExact ==
  /\ bytes = Cost(entries)
  /\ bytes <= Cap

(***************************************************************************)
(* Both: the maps, the index and the byte count agree (`Inner::store').    *)
(***************************************************************************)
MapsAgree == IndexExact /\ BytesExact

\* The entries of a map in the order of their last use by an index.
InOrder(index, es) ==
  LET Nth(i) == CHOOSE t \in DOMAIN index : Cardinality({ s \in DOMAIN index : s <= t }) = i
  IN  [i \in 1..Cardinality(DOMAIN index) |->
         [key |-> index[Nth(i)], size |-> es[index[Nth(i)]].size]]

\* What RecencyCache calls the list.
ByUse == InOrder(lru, entries)

Abstract == INSTANCE RecencyCache WITH list <- ByUse

(***************************************************************************)
(* The maps implement the list: hits refresh an entry's place, a result is *)
(* kept or refused as promised, and the oldest ones, and no more of them   *)
(* than needed, are evicted for it.                                        *)
(***************************************************************************)
ImplementsRecency == Abstract!Spec
=============================================================================
