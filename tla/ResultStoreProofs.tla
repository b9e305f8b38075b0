------------------------- MODULE ResultStoreProofs -------------------------
(***************************************************************************)
(* Proofs about ResultStore, for every set of keys, sizes, cap and bound   *)
(* of the tick: its maps, index and byte count agree, its eviction         *)
(* loop leaves what it should, and it implements the list of RecencyCache. *)
(***************************************************************************)
EXTENDS ResultStoreInv, Recency, FoldFacts, SequenceTheorems

-----------------------------------------------------------------------------
(* What the entries cost.                                                  *)

SizesOf(es) == [k \in DOMAIN es |-> es[k].size]

LEMMA CostIs == \A es : Cost(es) = SumFunctionOnSet(SizesOf(es), DOMAIN es)
<1> TAKE es
<1>1. DOMAIN SizesOf(es) = DOMAIN es
  BY DEF SizesOf
<1>2. Cost(es) = SumFunctionOnSet(SizesOf(es), DOMAIN SizesOf(es))
  BY Zenon DEF Cost, SumFunction, SizesOf
<1>3. QED
  BY <1>1, <1>2

LEMMA MapsAre ==
  ASSUME NEW es \in Maps
  PROVE  /\ DOMAIN es \in SUBSET Keys
         /\ es \in [DOMAIN es -> [size : Nat, tick : Nat]]
         /\ \A k \in DOMAIN es : es[k].size \in Nat /\ es[k].tick \in Nat
<1>1. PICK D \in SUBSET Keys : es \in [D -> [size : Nat, tick : Nat]]
  BY DEF Maps
<1>2. DOMAIN es = D
  BY <1>1
<1>3. QED
  BY <1>1, <1>2

LEMMA IndexesAre ==
  ASSUME NEW f \in Indexes
  PROVE  /\ DOMAIN f \in SUBSET Nat /\ f \in [DOMAIN f -> Keys]
         /\ \A t \in DOMAIN f : t \in Nat /\ f[t] \in Keys
<1>1. PICK D \in SUBSET Nat : f \in [D -> Keys]
  BY DEF Indexes
<1>2. DOMAIN f = D
  BY <1>1
<1>3. QED
  BY <1>1, <1>2

LEMMA CostNat ==
  ASSUME NEW es \in Maps, IsFiniteSet(DOMAIN es)
  PROVE  /\ Cost(es) \in Nat
         /\ DOMAIN es = {} => Cost(es) = 0
         /\ \A k \in DOMAIN es : es[k].size <= Cost(es)
<1>1. \A k \in DOMAIN es : SizesOf(es)[k] \in Nat /\ SizesOf(es)[k] = es[k].size
  BY MapsAre DEF SizesOf
<1>2. /\ SumFunctionOnSet(SizesOf(es), DOMAIN es) \in Nat
      /\ \A k \in DOMAIN es : SizesOf(es)[k] <= SumFunctionOnSet(SizesOf(es), DOMAIN es)
  BY <1>1, SumNat
<1>3. QED
  BY <1>1, <1>2, CostIs, SumEmpty

\* An entry less.
LEMMA CostWithout ==
  ASSUME NEW es \in Maps, IsFiniteSet(DOMAIN es), NEW k \in DOMAIN es
  PROVE  /\ Without(es, k) \in Maps /\ IsFiniteSet(DOMAIN Without(es, k))
         /\ Cost(Without(es, k)) = Cost(es) - es[k].size
<1> DEFINE ws == Without(es, k)
<1>1. /\ DOMAIN es \in SUBSET Keys /\ es \in [DOMAIN es -> [size : Nat, tick : Nat]]
      /\ \A j \in DOMAIN es : es[j].size \in Nat
  BY MapsAre
<1>2. /\ DOMAIN ws = DOMAIN es \ {k} /\ ws \in [DOMAIN es \ {k} -> [size : Nat, tick : Nat]]
      /\ \A j \in DOMAIN es \ {k} : ws[j] = es[j]
  BY <1>1 DEF Without
<1> HIDE DEF ws
<1>3. ws \in Maps /\ IsFiniteSet(DOMAIN es \ {k})
  BY <1>1, <1>2, FS_RemoveElement DEF Maps
<1>4. SumFunctionOnSet(SizesOf(ws), DOMAIN es \ {k}) = SumFunctionOnSet(SizesOf(es), DOMAIN es \ {k})
  <2>1. \A j \in DOMAIN es \ {k} : SizesOf(ws)[j] = SizesOf(es)[j] /\ SizesOf(ws)[j] \in Int
    BY <1>1, <1>2 DEF SizesOf
  <2>2. QED
    BY <1>3, <2>1, SumAgree
<1>5. SumFunctionOnSet(SizesOf(es), DOMAIN es)
        = SizesOf(es)[k] + SumFunctionOnSet(SizesOf(es), DOMAIN es \ {k})
  <2>1. \A j \in DOMAIN es : SizesOf(es)[j] \in Int
    BY <1>1 DEF SizesOf
  <2>2. QED
    BY <2>1, SumElement
<1>6. SizesOf(es)[k] = es[k].size /\ es[k].size \in Int
  BY <1>1 DEF SizesOf
<1>7. Cost(ws) \in Int /\ Cost(es) \in Int
  BY <1>2, <1>3, CostNat
<1>8. Cost(es) = es[k].size + Cost(ws)
  BY <1>2, <1>4, <1>5, <1>6, CostIs
<1>9. QED
  BY <1>2, <1>3, <1>6, <1>7, <1>8 DEF ws

\* An entry more.
LEMMA CostWith ==
  ASSUME NEW es \in Maps, IsFiniteSet(DOMAIN es), NEW k \in Keys, k \notin DOMAIN es,
         NEW size \in Nat, NEW t \in Nat
  PROVE  LET ws == With(es, k, [size |-> size, tick |-> t]) IN
         /\ ws \in Maps /\ IsFiniteSet(DOMAIN ws) /\ Cost(ws) = Cost(es) + size
<1>1. PICK r, ws : r = [size |-> size, tick |-> t] /\ ws = With(es, k, r)
  BY Zenon
<1>2. /\ DOMAIN es \in SUBSET Keys /\ es \in [DOMAIN es -> [size : Nat, tick : Nat]]
      /\ \A j \in DOMAIN es : es[j].size \in Nat
      /\ r \in [size : Nat, tick : Nat] /\ r.size = size
  BY <1>1, MapsAre
<1>3. /\ DOMAIN ws = DOMAIN es \cup {k} /\ ws[k] = r
      /\ ws \in [DOMAIN es \cup {k} -> [size : Nat, tick : Nat]]
      /\ \A j \in DOMAIN es : ws[j] = es[j]
  <2>1. /\ ws \in [DOMAIN es \cup {k} -> [size : Nat, tick : Nat]]
        /\ ws[k] = r /\ \A z \in DOMAIN es \ {k} : ws[z] = es[z]
    <3>1. ws = [z \in DOMAIN es \cup {k} |-> IF z = k THEN r ELSE es[z]]
      BY <1>1 DEF With
    <3>2. QED
      BY <1>2, <3>1
  <2>2. QED
    BY <2>1
<1>4. ws \in Maps /\ IsFiniteSet(DOMAIN ws)
  <2>1. IsFiniteSet(DOMAIN es \cup {k})
    BY FS_AddElement
  <2>2. DOMAIN es \cup {k} \in SUBSET Keys
    BY <1>2
  <2>3. QED
    BY <1>3, <2>1, <2>2 DEF Maps
<1>5. Without(ws, k) = es
  <2>1. DOMAIN ws \ {k} = DOMAIN es
    BY <1>3
  <2>2. Without(ws, k) = [z \in DOMAIN es |-> ws[z]]
    BY <2>1 DEF Without
  <2>3. es = [z \in DOMAIN es |-> es[z]]
    BY <1>2
  <2>4. QED
    BY <1>3, <2>2, <2>3
<1>6. Cost(es) = Cost(ws) - size /\ Cost(ws) \in Nat /\ Cost(es) \in Nat
  BY <1>2, <1>3, <1>4, <1>5, CostWithout, CostNat
<1>7. Cost(ws) = Cost(es) + size
  BY <1>6
<1>8. QED
  BY <1>1, <1>4, <1>7

\* An entry used.
Used(es, k, t, us) ==
  /\ es \in Maps /\ IsFiniteSet(DOMAIN es) /\ k \in DOMAIN es /\ t \in Nat
  /\ us = [es EXCEPT ![k].tick = t]

LEMMA CostUsed ==
  ASSUME NEW es, NEW k, NEW t, NEW us, Used(es, k, t, us)
  PROVE  /\ us \in Maps /\ DOMAIN us = DOMAIN es /\ Cost(us) = Cost(es)
         /\ \A j \in DOMAIN es : us[j].size = es[j].size
         /\ us[k].tick = t /\ \A j \in DOMAIN es \ {k} : us[j] = es[j]
<1>1. /\ DOMAIN es \in SUBSET Keys /\ es \in [DOMAIN es -> [size : Nat, tick : Nat]]
      /\ \A j \in DOMAIN es : es[j].size \in Nat
  BY MapsAre DEF Used
<1>2. es[k] \in [size : Nat, tick : Nat] /\ k \in DOMAIN es /\ t \in Nat
  BY <1>1 DEF Used
<1>3. [es[k] EXCEPT !.tick = t] \in [size : Nat, tick : Nat]
  BY <1>2
<1>4. /\ DOMAIN us = DOMAIN es /\ us[k] = [es[k] EXCEPT !.tick = t]
      /\ \A j \in DOMAIN es \ {k} : us[j] = es[j]
      /\ us \in [DOMAIN es -> [size : Nat, tick : Nat]]
  BY <1>1, <1>3 DEF Used
<1>5. us[k].tick = t /\ us[k].size = es[k].size
  BY <1>2, <1>4
<1>6. us \in Maps
  BY <1>1, <1>4 DEF Maps
<1>7. \A j \in DOMAIN es : us[j].size = es[j].size
  BY <1>4, <1>5
<1>8. SumFunctionOnSet(SizesOf(us), DOMAIN es) = SumFunctionOnSet(SizesOf(es), DOMAIN es)
  <2>1. \A j \in DOMAIN es : SizesOf(us)[j] = SizesOf(es)[j] /\ SizesOf(us)[j] \in Int
    BY <1>1, <1>4, <1>7 DEF SizesOf
  <2>2. QED
    BY <2>1, SumAgree DEF Used
<1>9. QED
  BY <1>4, <1>5, <1>6, <1>7, <1>8, CostIs

-----------------------------------------------------------------------------
(* Consistent contents.                                                    *)

LEMMA KeptAre ==
  ASSUME NEW s \in Kept
  PROVE  /\ s.lru \in Indexes /\ s.entries \in Maps /\ s.bytes \in Nat
         /\ IsFiniteSet(DOMAIN s.entries) /\ IsFiniteSet(DOMAIN s.lru)
         /\ DOMAIN s.lru \in SUBSET Nat /\ DOMAIN s.entries \in SUBSET Keys
         /\ s.bytes = Cost(s.entries)
         /\ \A k \in DOMAIN s.entries :
              s.entries[k].tick \in DOMAIN s.lru /\ s.lru[s.entries[k].tick] = k
         /\ \A t \in DOMAIN s.lru :
              s.lru[t] \in DOMAIN s.entries /\ s.entries[s.lru[t]].tick = t
<1>1. s.lru \in Indexes /\ s.entries \in Maps /\ Consistent(s)
  BY DEF Kept, Contents
<1>2. DOMAIN s.lru \in SUBSET Nat /\ DOMAIN s.entries \in SUBSET Keys
  BY <1>1, MapsAre, IndexesAre
<1>3. s.bytes \in Nat
  BY <1>1, CostNat DEF Consistent
<1>4. IsFiniteSet(DOMAIN s.lru)
  <2> DEFINE b == [k \in DOMAIN s.entries |-> s.entries[k].tick]
  <2>1. b \in Surjection(DOMAIN s.entries, DOMAIN s.lru)
    BY <1>1 DEF Consistent, Surjection
  <2>2. QED
    BY <1>1, <2>1, FS_Surjection DEF Consistent
<1>5. QED
  BY <1>1, <1>2, <1>3, <1>4 DEF Consistent

\* The count, by ticks.
LEMMA CountByTick ==
  ASSUME NEW s \in Kept
  PROVE  /\ s.bytes = SumFunctionOnSet(SizeAt(s), DOMAIN s.lru)
         /\ \A t \in DOMAIN s.lru : SizeAt(s)[t] \in Nat
<1>1. /\ IsFiniteSet(DOMAIN s.entries) /\ IsFiniteSet(DOMAIN s.lru)
      /\ s.bytes = Cost(s.entries) /\ s.entries \in Maps
      /\ \A k \in DOMAIN s.entries :
           s.entries[k].tick \in DOMAIN s.lru /\ s.lru[s.entries[k].tick] = k
      /\ \A t \in DOMAIN s.lru :
           s.lru[t] \in DOMAIN s.entries /\ s.entries[s.lru[t]].tick = t
  BY KeptAre
<1>2. \A k \in DOMAIN s.entries : s.entries[k].size \in Nat
  BY <1>1, MapsAre
<1>3. \A t \in DOMAIN s.lru :
        SizeAt(s)[t] = SizesOf(s.entries)[s.lru[t]] /\ SizeAt(s)[t] \in Nat
  BY <1>1, <1>2 DEF SizeAt, SizesOf
<1> DEFINE b == [t \in DOMAIN s.lru |-> s.lru[t]]
<1>4. b \in Bijection(DOMAIN s.lru, DOMAIN s.entries)
  BY <1>1 DEF Bijection, Injection, Surjection, IsInjective
<1>5. \A t \in DOMAIN s.lru :
        SizeAt(s)[t] = SizesOf(s.entries)[b[t]] /\ SizeAt(s)[t] \in Int
  BY <1>3
<1> HIDE DEF b
<1>6. SumFunctionOnSet(SizeAt(s), DOMAIN s.lru)
        = SumFunctionOnSet(SizesOf(s.entries), DOMAIN s.entries)
  BY <1>1, <1>4, <1>5, SumRenamed
<1>7. QED
  BY <1>1, <1>3, <1>6, CostIs

-----------------------------------------------------------------------------
(* The eviction loop.                                                      *)

\* A turn that evicts.
LEMMA EvictTurn ==
  ASSUME NEW s \in Kept, NEW size \in Nat, ~Fits(s, size), NEW u, u = Pop(s, size)
  PROVE  /\ u \in Kept
         /\ Oldest(s.lru) \in DOMAIN s.lru /\ \A t \in DOMAIN s.lru : Oldest(s.lru) <= t
         /\ DOMAIN u.lru = DOMAIN s.lru \ {Oldest(s.lru)}
         /\ \A t \in DOMAIN u.lru :
              u.lru[t] = s.lru[t] /\ u.entries[s.lru[t]] = s.entries[s.lru[t]]
<1>1. PICK m, old : m = Oldest(s.lru) /\ old = s.lru[m]
  OBVIOUS
<1>2. /\ s.lru \in Indexes /\ s.entries \in Maps /\ s.bytes \in Nat
      /\ IsFiniteSet(DOMAIN s.entries)
      /\ DOMAIN s.lru \in SUBSET Nat /\ DOMAIN s.entries \in SUBSET Keys
      /\ s.bytes = Cost(s.entries)
      /\ \A k \in DOMAIN s.entries :
           s.entries[k].tick \in DOMAIN s.lru /\ s.lru[s.entries[k].tick] = k
      /\ \A t \in DOMAIN s.lru :
           s.lru[t] \in DOMAIN s.entries /\ s.entries[s.lru[t]].tick = t
  BY KeptAre
<1>3. m \in DOMAIN s.lru /\ \A t \in DOMAIN s.lru : m <= t
  <2>1. DOMAIN s.lru # {}
    BY DEF Fits
  <2>2. QED
    BY <1>1, <1>2, <2>1, MinIn DEF Oldest
<1>4. old \in DOMAIN s.entries /\ s.entries[old].tick = m
  BY <1>1, <1>2, <1>3
<1>5. /\ u.lru = Without(s.lru, m) /\ u.entries = Without(s.entries, old)
      /\ u.bytes = s.bytes - s.entries[old].size
      /\ u = [lru |-> u.lru, entries |-> u.entries, bytes |-> u.bytes]
  <2>1. u = [lru |-> Without(s.lru, m), entries |-> Without(s.entries, old),
             bytes |-> s.bytes - s.entries[old].size]
    BY <1>1 DEF Pop, Fits
  <2>2. QED
    BY <2>1
<1>6. /\ DOMAIN u.lru = DOMAIN s.lru \ {m} /\ u.lru \in Indexes
      /\ \A t \in DOMAIN s.lru \ {m} : u.lru[t] = s.lru[t]
  <2>1. s.lru \in [DOMAIN s.lru -> Keys]
    BY <1>2, IndexesAre
  <2>2. u.lru = [t \in DOMAIN s.lru \ {m} |-> s.lru[t]]
    BY <1>5 DEF Without
  <2>3. /\ u.lru \in [DOMAIN s.lru \ {m} -> Keys]
        /\ \A t \in DOMAIN s.lru \ {m} : u.lru[t] = s.lru[t]
    BY <2>1, <2>2
  <2>4. DOMAIN s.lru \ {m} \in SUBSET Nat
    BY <1>2
  <2>5. QED
    BY <2>3, <2>4 DEF Indexes
<1>7. /\ DOMAIN u.entries = DOMAIN s.entries \ {old}
      /\ \A k \in DOMAIN s.entries \ {old} : u.entries[k] = s.entries[k]
  <2>1. u.entries = [k \in DOMAIN s.entries \ {old} |-> s.entries[k]]
    BY <1>5 DEF Without
  <2>2. QED
    BY <2>1
<1>8. /\ u.entries \in Maps /\ IsFiniteSet(DOMAIN u.entries)
      /\ Cost(u.entries) = Cost(s.entries) - s.entries[old].size
  BY <1>2, <1>4, <1>5, CostWithout
<1>9. u.bytes = Cost(u.entries) /\ u.bytes \in Int
  <2>1. Cost(u.entries) \in Nat
    BY <1>8, CostNat
  <2>2. QED
    BY <1>2, <1>5, <1>8, <2>1
<1>10. \A t \in DOMAIN s.lru \ {m} : s.lru[t] \in DOMAIN s.entries \ {old}
  BY <1>2, <1>4
<1>11. \A k \in DOMAIN s.entries \ {old} : s.entries[k].tick \in DOMAIN s.lru \ {m}
  BY <1>1, <1>2
<1>12. Consistent(u)
  <2>1. ASSUME NEW k \in DOMAIN u.entries
        PROVE  u.entries[k].tick \in DOMAIN u.lru /\ u.lru[u.entries[k].tick] = k
    BY <1>2, <1>6, <1>7, <1>11
  <2>2. ASSUME NEW t \in DOMAIN u.lru
        PROVE  u.lru[t] \in DOMAIN u.entries /\ u.entries[u.lru[t]].tick = t
    BY <1>2, <1>6, <1>7, <1>10
  <2>3. DOMAIN u.lru = {u.entries[k].tick : k \in DOMAIN u.entries}
    BY <2>1, <2>2
  <2>4. QED
    BY <1>8, <1>9, <2>1, <2>3 DEF Consistent
<1>13. u \in Kept
  BY <1>5, <1>6, <1>8, <1>9, <1>12 DEF Kept, Contents
<1>14. QED
  BY <1>1, <1>3, <1>6, <1>7, <1>10, <1>13

LEMMA PopStep ==
  ASSUME NEW s \in Kept, NEW u \in Kept, NEW size \in Nat, Left(s, u, size)
  PROVE  Pop(u, size) \in Kept /\ Left(s, Pop(u, size), size)
<1>1. CASE Fits(u, size)
  BY <1>1 DEF Pop, Fits
<1>2. CASE ~Fits(u, size)
  <2>1. PICK v, m : v = Pop(u, size) /\ m = Oldest(u.lru)
    OBVIOUS
  <2>2. /\ v \in Kept /\ m \in DOMAIN u.lru /\ \A t \in DOMAIN u.lru : m <= t
        /\ DOMAIN v.lru = DOMAIN u.lru \ {m}
        /\ \A t \in DOMAIN v.lru :
             v.lru[t] = u.lru[t] /\ v.entries[u.lru[t]] = u.entries[u.lru[t]]
    BY <1>2, <2>1, EvictTurn
  <2>3. /\ DOMAIN u.lru \subseteq DOMAIN s.lru
        /\ \A t \in DOMAIN s.lru, x \in DOMAIN u.lru : x <= t => t \in DOMAIN u.lru
        /\ \A t \in DOMAIN u.lru :
             u.lru[t] = s.lru[t] /\ u.entries[s.lru[t]] = s.entries[s.lru[t]]
        /\ \A t \in DOMAIN s.lru \ DOMAIN u.lru : After(s, t) + size > Cap
    BY DEF Left
  <2>4. DOMAIN s.lru \in SUBSET Nat
    BY KeptAre
  <2>5. \A t \in DOMAIN s.lru : t >= m <=> t \in DOMAIN u.lru
    BY <2>2, <2>3, <2>4
  <2>6. u.bytes = After(s, m)
    <3>1. {x \in DOMAIN s.lru : x >= m} = DOMAIN u.lru
      BY <2>3, <2>5
    <3>2. /\ u.bytes = SumFunctionOnSet(SizeAt(u), DOMAIN u.lru)
          /\ \A t \in DOMAIN u.lru : SizeAt(u)[t] \in Nat
      BY CountByTick
    <3>3. \A t \in DOMAIN u.lru : SizeAt(u)[t] = SizeAt(s)[t]
      BY <2>3 DEF SizeAt
    <3>4. IsFiniteSet(DOMAIN u.lru)
      BY KeptAre
    <3>5. SumFunctionOnSet(SizeAt(u), DOMAIN u.lru) = SumFunctionOnSet(SizeAt(s), DOMAIN u.lru)
      BY <3>2, <3>3, <3>4, SumAgree
    <3>6. QED
      BY <3>1, <3>2, <3>5 DEF After
  <2>7. After(s, m) + size > Cap
    <3>1. u.bytes \in Nat /\ ~(u.bytes + size <= Cap)
      BY <1>2, KeptAre DEF Fits
    <3>2. QED
      BY <2>6, <3>1, StoreAssumption
  <2>8. \A t \in DOMAIN s.lru, x \in DOMAIN v.lru : x <= t => t \in DOMAIN v.lru
    <3>1. SUFFICES ASSUME NEW t \in DOMAIN s.lru, NEW x \in DOMAIN v.lru, x <= t
                   PROVE  t \in DOMAIN v.lru
      OBVIOUS
    <3>2. t \in DOMAIN u.lru /\ x \in DOMAIN u.lru /\ x # m /\ m <= x
      BY <2>2, <2>3, <3>1
    <3>3. t \in Nat /\ x \in Nat /\ m \in Nat
      BY <2>2, <2>3, <2>4, <3>2
    <3>4. t # m
      BY <3>1, <3>2, <3>3
    <3>5. QED
      BY <2>2, <3>2, <3>4
  <2>9. \A t \in DOMAIN v.lru :
          v.lru[t] = s.lru[t] /\ v.entries[s.lru[t]] = s.entries[s.lru[t]]
    BY <2>2, <2>3
  <2>10. \A t \in DOMAIN s.lru \ DOMAIN v.lru : After(s, t) + size > Cap
    BY <2>2, <2>3, <2>7
  <2>11. Left(s, v, size)
    BY <2>2, <2>3, <2>8, <2>9, <2>10 DEF Left
  <2>12. QED
    BY <2>1, <2>2, <2>11
<1>3. QED
  BY <1>1, <1>2

\* The function inside Evicted.
Loop(T, base, size) == CHOOSE g : g =
  [S \in SUBSET T |-> IF S = {} THEN base ELSE Pop(g[S \ {Pick(S)}], size)]

LEMMA EvictedIs == \A size : Evicted(size) = Loop(DOMAIN lru, Now, size)[DOMAIN lru]
BY Zenon DEF Evicted, FoldSet, MapThenFoldSet, Loop, Pick, Now

\* With every turn, the loop has ended or an entry has gone.
Turning(s, S, u, size) ==
  /\ u \in Kept /\ Left(s, u, size)
  /\ Fits(u, size) \/ Cardinality(DOMAIN u.lru) + Cardinality(S) = Cardinality(DOMAIN s.lru)

LEMMA TurnOnce ==
  ASSUME NEW s \in Kept, NEW S, IsFiniteSet(S), NEW x \in S, NEW u, NEW size \in Nat,
         Turning(s, S \ {x}, u, size)
  PROVE  Turning(s, S, Pop(u, size), size)
<1>1. u \in Kept /\ Left(s, u, size)
  BY DEF Turning
<1>2. Pop(u, size) \in Kept /\ Left(s, Pop(u, size), size)
  BY <1>1, PopStep
<1>3. CASE Fits(u, size)
  <2>1. Pop(u, size) = u
    BY <1>3 DEF Pop, Fits
  <2>2. QED
    BY <1>1, <1>3, <2>1 DEF Turning
<1>4. CASE ~Fits(u, size)
  <2>1. PICK v, m : v = Pop(u, size) /\ m = Oldest(u.lru)
    OBVIOUS
  <2>2. m \in DOMAIN u.lru /\ DOMAIN v.lru = DOMAIN u.lru \ {m}
    BY <1>1, <1>4, <2>1, EvictTurn
  <2>3. IsFiniteSet(DOMAIN u.lru) /\ IsFiniteSet(DOMAIN s.lru)
    BY <1>1, KeptAre
  <2>4. Cardinality(DOMAIN v.lru) = Cardinality(DOMAIN u.lru) - 1
    BY <2>2, <2>3, FS_RemoveElement
  <2>5. Cardinality(S \ {x}) = Cardinality(S) - 1
    BY FS_RemoveElement
  <2>6. Cardinality(S) \in Nat /\ Cardinality(DOMAIN u.lru) \in Nat
    BY <2>3, FS_CardinalityType
  <2>7. Cardinality(DOMAIN u.lru) + Cardinality(S \ {x}) = Cardinality(DOMAIN s.lru)
    BY <1>4 DEF Turning
  <2>8. Cardinality(DOMAIN v.lru) + Cardinality(S) = Cardinality(DOMAIN s.lru)
    BY <2>4, <2>5, <2>6, <2>7
  <2>9. QED
    BY <1>2, <2>1, <2>8 DEF Turning
<1>5. QED
  BY <1>3, <1>4

\* What the loop leaves: the newest entries, no fewer than fit.
LEMMA LoopLeaves ==
  ASSUME Now \in Kept, NEW size \in Nat
  PROVE  LET u == Evicted(size) IN
         u \in Kept /\ Left(Now, u, size) /\ Fits(u, size)
<1>1. PICK T : T = DOMAIN lru
  OBVIOUS
<1>2. IsFiniteSet(T) /\ T = DOMAIN Now.lru
  BY <1>1, KeptAre DEF Now
<1> DEFINE st == [s \in Kept |-> IF Left(Now, s, size) THEN Pop(s, size) ELSE s]
<1>3. st \in [Kept -> Kept]
  BY PopStep
<1>4. \A s \in Kept : Left(Now, s, size) => st[s] = Pop(s, size)
  OBVIOUS
<1> HIDE DEF st
<1>5. PICK g : Turned(Kept, Now, T, st, g)
  BY <1>2, <1>3, TurnsDefined
<1>6. \A S \in SUBSET T : g[S] = IF S = {} THEN Now ELSE st[g[S \ {Pick(S)}]]
  BY <1>5 DEF Turned
<1> DEFINE Ok(S) == Turning(Now, S, g[S], size)
           W == {S \in SUBSET T : ~Ok(S)}
<1>7. Ok({})
  <2>1. g[{}] = Now
    BY <1>6
  <2>2. Left(Now, Now, size)
    BY DEF Left
  <2>3. Cardinality({}) = 0 /\ Cardinality(T) \in Nat
    BY <1>2, FS_EmptySet, FS_CardinalityType
  <2>4. Cardinality(DOMAIN Now.lru) + Cardinality({}) = Cardinality(DOMAIN Now.lru)
    BY <1>2, <2>3
  <2>5. QED
    BY <2>1, <2>2, <2>4 DEF Turning
<1>8. ASSUME NEW S \in SUBSET T, S # {}, Ok(S \ {Pick(S)})
      PROVE  Ok(S) /\ g[S] = Pop(g[S \ {Pick(S)}], size)
  <2>1. PICK x : x = Pick(S)
    OBVIOUS
  <2>2. IsFiniteSet(S) /\ x \in S
    BY <1>2, <1>8, <2>1, FS_Subset, PickIn
  <2>3. PICK v : v = g[S \ {x}]
    OBVIOUS
  <2>4. Turning(Now, S \ {x}, v, size)
    BY <1>8, <2>1, <2>3
  <2>5. g[S] = Pop(v, size)
    BY <1>4, <1>6, <1>8, <2>1, <2>3, <2>4 DEF Turning
  <2>6. Turning(Now, S, Pop(v, size), size)
    BY <2>2, <2>4, TurnOnce
  <2>7. QED
    BY <2>1, <2>3, <2>5, <2>6
<1>9. \A S \in SUBSET T : Ok(S)
  <2>1. SUFFICES ASSUME W # {} PROVE FALSE
    OBVIOUS
  <2>2. PICK X \in W : \A Y \in SUBSET X : Y # X => Y \notin W
    <3>1. W \subseteq SUBSET T
      OBVIOUS
    <3> HIDE DEF W
    <3>2. QED
      BY <1>2, <2>1, <3>1, SmallestIn
  <2>3. X \in SUBSET T /\ ~Ok(X)
    OBVIOUS
  <2>4. X # {}
    BY <1>7, <2>3
  <2>5. Pick(X) \in X
    BY <2>4, PickIn
  <2>6. Ok(X \ {Pick(X)})
    BY <2>2, <2>3, <2>5
  <2> HIDE DEF Ok, W
  <2>7. QED
    BY <1>8, <2>3, <2>4, <2>6
<1>10. \A S \in SUBSET T : g[S] = IF S = {} THEN Now ELSE Pop(g[S \ {Pick(S)}], size)
  <2>1. \A S \in SUBSET T : S \ {Pick(S)} \in SUBSET T
    OBVIOUS
  <2> HIDE DEF Ok, W
  <2>2. QED
    BY <1>6, <1>8, <1>9, <2>1
<1>11. g = [S \in SUBSET T |-> IF S = {} THEN Now ELSE Pop(g[S \ {Pick(S)}], size)]
  <2>1. g = [S \in SUBSET T |-> g[S]]
    BY <1>5 DEF Turned
  <2>2. QED
    BY <1>10, <2>1
<1> DEFINE h == Loop(T, Now, size)
<1>12. h = [S \in SUBSET T |-> IF S = {} THEN Now ELSE Pop(h[S \ {Pick(S)}], size)]
  BY <1>11 DEF Loop
<1>13. \A S \in SUBSET T : h[S] = IF S = {} THEN Now ELSE Pop(h[S \ {Pick(S)}], size)
  BY <1>12
<1> HIDE DEF h, Ok, W
<1>14. h[T] = g[T]
  <2> DEFINE V == {S \in SUBSET T : h[S] # g[S]}
  <2>1. SUFFICES ASSUME V # {} PROVE FALSE
    OBVIOUS
  <2>2. PICK X \in V : \A Y \in SUBSET X : Y # X => Y \notin V
    <3>1. V \subseteq SUBSET T
      OBVIOUS
    <3> HIDE DEF V
    <3>2. QED
      BY <1>2, <2>1, <3>1, SmallestIn
  <2>3. X \in SUBSET T /\ h[X] # g[X]
    OBVIOUS
  <2>4. X # {}
    BY <1>10, <1>13, <2>3
  <2>5. Pick(X) \in X /\ X \ {Pick(X)} \in SUBSET T
    BY <2>3, <2>4, PickIn
  <2>6. h[X \ {Pick(X)}] = g[X \ {Pick(X)}]
    BY <2>2, <2>5
  <2>7. QED
    BY <1>10, <1>13, <2>3, <2>4, <2>6
<1>15. Evicted(size) = g[T]
  BY <1>1, <1>14, EvictedIs DEF h
<1>16. Turning(Now, T, g[T], size)
  BY <1>9 DEF Ok
<1>17. Fits(g[T], size)
  <2>1. SUFFICES ASSUME ~Fits(g[T], size) PROVE FALSE
    OBVIOUS
  <2>2. PICK u : u = g[T]
    OBVIOUS
  <2>3. u \in Kept /\ Cardinality(DOMAIN u.lru) + Cardinality(T) = Cardinality(T)
    BY <1>2, <1>16, <2>1, <2>2 DEF Turning
  <2>4. IsFiniteSet(DOMAIN u.lru)
    BY <2>3, KeptAre
  <2>5. Cardinality(DOMAIN u.lru) \in Nat /\ Cardinality(T) \in Nat
    BY <1>2, <2>4, FS_CardinalityType
  <2>6. Cardinality(DOMAIN u.lru) = 0
    BY <2>3, <2>5
  <2>7. DOMAIN u.lru = {}
    BY <2>4, <2>6, FS_EmptySet
  <2>8. QED
    BY <2>1, <2>2, <2>7 DEF Fits
<1>18. QED
  BY <1>15, <1>16, <1>17 DEF Turning

-----------------------------------------------------------------------------
(* The maps agree.                                                         *)

\* The entries of consistent contents, however they are put together.
LEMMA KeptIs ==
  ASSUME NEW f \in Indexes, NEW es \in Maps, IsFiniteSet(DOMAIN es), NEW n, n = Cost(es),
         \A k \in DOMAIN es : es[k].tick \in DOMAIN f /\ f[es[k].tick] = k,
         \A t \in DOMAIN f : f[t] \in DOMAIN es /\ es[f[t]].tick = t
  PROVE  [lru |-> f, entries |-> es, bytes |-> n] \in Kept
<1>1. PICK s : s = [lru |-> f, entries |-> es, bytes |-> n]
  OBVIOUS
<1>2. s.lru = f /\ s.entries = es /\ s.bytes = n
  BY <1>1
<1>3. n \in Int
  BY CostNat
<1>4. DOMAIN f = {es[k].tick : k \in DOMAIN es}
  OBVIOUS
<1>5. Consistent(s)
  BY <1>2, <1>4 DEF Consistent
<1>6. s \in Contents
  BY <1>1, <1>3 DEF Contents
<1>7. QED
  BY <1>1, <1>5, <1>6 DEF Kept

LEMMA NowIs ==
  ASSUME IInv
  PROVE  /\ lru \in Indexes /\ entries \in Maps /\ bytes \in Nat /\ tick \in Nat
         /\ IsFiniteSet(DOMAIN entries) /\ IsFiniteSet(DOMAIN lru)
         /\ DOMAIN lru \in SUBSET Nat /\ DOMAIN entries \in SUBSET Keys
         /\ bytes = Cost(entries)
         /\ \A k \in DOMAIN entries :
              entries[k].tick \in DOMAIN lru /\ lru[entries[k].tick] = k
         /\ \A t \in DOMAIN lru :
              lru[t] \in DOMAIN entries /\ entries[lru[t]].tick = t /\ t <= tick
<1>1. /\ Now \in Kept /\ tick \in Nat /\ Now.lru = lru /\ Now.entries = entries
      /\ Now.bytes = bytes
  BY DEF IInv, Now
<1>2. /\ lru \in Indexes /\ entries \in Maps /\ bytes \in Nat
      /\ IsFiniteSet(DOMAIN entries) /\ IsFiniteSet(DOMAIN lru)
      /\ DOMAIN lru \in SUBSET Nat /\ DOMAIN entries \in SUBSET Keys
      /\ bytes = Cost(entries)
      /\ \A k \in DOMAIN entries :
           entries[k].tick \in DOMAIN lru /\ lru[entries[k].tick] = k
      /\ \A t \in DOMAIN lru : lru[t] \in DOMAIN entries /\ entries[lru[t]].tick = t
  BY <1>1, KeptAre
<1>3. QED
  BY <1>1, <1>2 DEF IInv

\* A hit moves its entry to a new tick.
LEMMA HitStep ==
  ASSUME IInv, NEW k \in Keys, Lookup(k), k \in DOMAIN entries
  PROVE  /\ IInv' /\ DOMAIN entries' = DOMAIN entries
         /\ DOMAIN lru' = (DOMAIN lru \ {entries[k].tick}) \cup {tick + 1}
         /\ lru'[tick + 1] = k
         /\ \A t \in DOMAIN lru \ {entries[k].tick} : lru'[t] = lru[t]
         /\ \A j \in DOMAIN entries : entries'[j].size = entries[j].size
<1>1. PICK t0, t1, f, es : /\ t0 = entries[k].tick /\ t1 = tick + 1
                           /\ f = lru' /\ es = entries'
  OBVIOUS
<1>2. /\ lru \in Indexes /\ entries \in Maps /\ bytes \in Nat /\ tick \in Nat
      /\ IsFiniteSet(DOMAIN entries)
      /\ DOMAIN lru \in SUBSET Nat /\ DOMAIN entries \in SUBSET Keys
      /\ bytes = Cost(entries)
      /\ \A j \in DOMAIN entries :
           entries[j].tick \in DOMAIN lru /\ lru[entries[j].tick] = j
      /\ \A t \in DOMAIN lru :
           lru[t] \in DOMAIN entries /\ entries[lru[t]].tick = t /\ t <= tick
  BY NowIs
<1>3. /\ f = With(Without(lru, t0), t1, k) /\ es = [entries EXCEPT ![k].tick = t1]
      /\ tick' = t1 /\ bytes' = bytes
  BY <1>1 DEF Lookup
<1>4. t1 \in Nat /\ t1 \notin DOMAIN lru /\ \A t \in DOMAIN lru : t <= t1
  BY <1>1, <1>2
<1>5. /\ f \in Indexes /\ DOMAIN f = (DOMAIN lru \ {t0}) \cup {t1} /\ f[t1] = k
      /\ \A t \in DOMAIN lru \ {t0} : f[t] = lru[t]
  <2>1. lru \in [DOMAIN lru -> Keys]
    BY <1>2, IndexesAre
  <2>2. PICK w : w = Without(lru, t0)
    OBVIOUS
  <2>3. /\ w \in [DOMAIN lru \ {t0} -> Keys] /\ DOMAIN w = DOMAIN lru \ {t0}
        /\ \A t \in DOMAIN lru \ {t0} : w[t] = lru[t]
    BY <2>1, <2>2 DEF Without
  <2>4. f = [t \in (DOMAIN lru \ {t0}) \cup {t1} |-> IF t = t1 THEN k ELSE w[t]]
    BY <1>3, <2>2, <2>3 DEF With
  <2>5. f \in [(DOMAIN lru \ {t0}) \cup {t1} -> Keys]
    BY <2>3, <2>4
  <2>6. (DOMAIN lru \ {t0}) \cup {t1} \in SUBSET Nat
    BY <1>2, <1>4
  <2>7. f \in Indexes
    BY <2>5, <2>6 DEF Indexes
  <2>8. QED
    BY <1>4, <2>3, <2>4, <2>7
<1>6. /\ es \in Maps /\ DOMAIN es = DOMAIN entries /\ Cost(es) = Cost(entries)
      /\ \A j \in DOMAIN entries : es[j].size = entries[j].size
      /\ es[k].tick = t1 /\ \A j \in DOMAIN entries \ {k} : es[j] = entries[j]
  <2>1. Used(entries, k, t1, es)
    BY <1>2, <1>3, <1>4 DEF Used
  <2>2. QED
    BY <2>1, CostUsed
<1>7. \A j \in DOMAIN es : es[j].tick \in DOMAIN f /\ f[es[j].tick] = j
  <2>1. ASSUME NEW j \in DOMAIN entries, j # k
        PROVE  es[j].tick \in DOMAIN f /\ f[es[j].tick] = j
    <3>1. /\ es[j].tick = entries[j].tick /\ entries[j].tick \in DOMAIN lru
          /\ lru[entries[j].tick] = j
      BY <1>2, <1>6, <2>1
    <3>2. entries[j].tick # t0
      BY <1>1, <1>2, <2>1, <3>1
    <3>3. QED
      BY <1>5, <3>1, <3>2
  <2>2. es[k].tick \in DOMAIN f /\ f[es[k].tick] = k
    BY <1>5, <1>6
  <2>3. QED
    BY <1>6, <2>1, <2>2
<1>8. \A t \in DOMAIN f : f[t] \in DOMAIN es /\ es[f[t]].tick = t
  <2>1. ASSUME NEW t \in DOMAIN lru, t # t0
        PROVE  f[t] \in DOMAIN es /\ es[f[t]].tick = t
    <3>1. f[t] = lru[t] /\ lru[t] \in DOMAIN entries /\ entries[lru[t]].tick = t
      BY <1>2, <1>5, <2>1
    <3>2. lru[t] # k
      BY <1>1, <2>1, <3>1
    <3>3. QED
      BY <1>6, <3>1, <3>2
  <2>2. QED
    BY <1>5, <1>6, <2>1
<1>9. Now' \in Kept
  <2>1. IsFiniteSet(DOMAIN es) /\ bytes' = Cost(es)
    BY <1>2, <1>3, <1>6
  <2>2. [lru |-> f, entries |-> es, bytes |-> bytes'] \in Kept
    BY <1>5, <1>6, <1>7, <1>8, <2>1, KeptIs
  <2>3. QED
    BY <1>1, <2>2 DEF Now
<1>10. \A j \in DOMAIN es : es[j].tick <= t1
  BY <1>4, <1>5, <1>7
<1>11. IInv'
  BY <1>1, <1>3, <1>4, <1>9, <1>10 DEF IInv
<1>12. QED
  BY <1>1, <1>5, <1>6, <1>11

LEMMA MissStep ==
  ASSUME IInv, NEW k \in Keys, Lookup(k), k \notin DOMAIN entries
  PROVE  IInv' /\ UNCHANGED <<lru, entries>>
<1>1. UNCHANGED <<lru, entries, bytes>> /\ tick' = tick + 1
  BY DEF Lookup
<1>2. \A j \in DOMAIN entries : entries[j].tick \in Nat /\ entries[j].tick <= tick
  BY NowIs
<1>3. Now' = Now /\ tick \in Nat
  BY <1>1 DEF Now, IInv
<1>4. QED
  BY <1>1, <1>2, <1>3 DEF IInv

\* The cap and a quarter of it.
LEMMA QuarterFits ==
  ASSUME NEW size \in Nat, ~(size > Cap \div 4)
  PROVE  size <= Cap
BY StoreAssumption

\* A result that is not refused is kept, with the newest of the others.
LEMMA StoreStep ==
  ASSUME IInv, NEW k \in Keys, NEW size \in Sizes, Store(k, size), ~Refused(k, size)
  PROVE  \E u \in Kept :
           /\ Left(Now, u, size) /\ u.bytes + size <= Cap
           /\ IInv' /\ DOMAIN lru' = DOMAIN u.lru \cup {tick + 1} /\ lru'[tick + 1] = k
           /\ entries'[k].size = size
           /\ \A t \in DOMAIN u.lru : lru'[t] = u.lru[t] /\ entries'[u.lru[t]] = u.entries[u.lru[t]]
<1>1. PICK u, t1, f, es : /\ u = Evicted(size) /\ t1 = tick + 1
                          /\ f = lru' /\ es = entries'
  OBVIOUS
<1>2. /\ size \in Nat /\ k \notin DOMAIN entries /\ size <= Cap
  BY StoreAssumption, QuarterFits DEF Refused
<1>3. u \in Kept /\ Left(Now, u, size) /\ Fits(u, size)
  BY <1>1, <1>2, LoopLeaves DEF IInv
<1>4. /\ f = With(u.lru, t1, k) /\ es = With(u.entries, k, [size |-> size, tick |-> t1])
      /\ tick' = t1 /\ bytes' = u.bytes + size
  BY <1>1 DEF Store
<1>5. /\ u.lru \in Indexes /\ u.entries \in Maps /\ u.bytes \in Nat
      /\ IsFiniteSet(DOMAIN u.entries)
      /\ DOMAIN u.lru \in SUBSET Nat /\ DOMAIN u.entries \in SUBSET Keys
      /\ u.bytes = Cost(u.entries)
      /\ \A j \in DOMAIN u.entries :
           u.entries[j].tick \in DOMAIN u.lru /\ u.lru[u.entries[j].tick] = j
      /\ \A t \in DOMAIN u.lru :
           u.lru[t] \in DOMAIN u.entries /\ u.entries[u.lru[t]].tick = t
  BY <1>3, KeptAre
<1>6. /\ tick \in Nat
      /\ \A t \in DOMAIN lru : lru[t] \in DOMAIN entries /\ t <= tick
  BY NowIs
<1>7. \A t \in DOMAIN u.lru : t \in DOMAIN lru /\ u.lru[t] = lru[t]
  BY <1>3 DEF Left, Now
<1>8. t1 \in Nat /\ t1 \notin DOMAIN u.lru /\ \A t \in DOMAIN u.lru : t <= t1
  BY <1>1, <1>5, <1>6, <1>7
<1>9. k \notin DOMAIN u.entries
  BY <1>2, <1>5, <1>6, <1>7
<1>10. u.bytes + size <= Cap
  <2>1. CASE DOMAIN u.lru = {}
    <3>1. DOMAIN u.entries = {}
      BY <1>5, <2>1
    <3>2. u.bytes = 0
      BY <1>5, <3>1, CostNat
    <3>3. QED
      BY <1>2, <3>2, StoreAssumption
  <2>2. QED
    BY <1>3, <2>1 DEF Fits
<1>11. /\ f \in Indexes /\ DOMAIN f = DOMAIN u.lru \cup {t1} /\ f[t1] = k
       /\ \A t \in DOMAIN u.lru : f[t] = u.lru[t]
  <2>1. u.lru \in [DOMAIN u.lru -> Keys]
    BY <1>5, IndexesAre
  <2>2. f = [t \in DOMAIN u.lru \cup {t1} |-> IF t = t1 THEN k ELSE u.lru[t]]
    BY <1>4 DEF With
  <2>3. f \in [DOMAIN u.lru \cup {t1} -> Keys]
    BY <2>1, <2>2
  <2>4. DOMAIN u.lru \cup {t1} \in SUBSET Nat
    BY <1>5, <1>8
  <2>5. f \in Indexes
    BY <2>3, <2>4 DEF Indexes
  <2>6. QED
    BY <1>8, <2>2, <2>5
<1>12. PICK r : r = [size |-> size, tick |-> t1]
  OBVIOUS
<1>13. es \in Maps /\ IsFiniteSet(DOMAIN es) /\ Cost(es) = Cost(u.entries) + size
  BY <1>2, <1>4, <1>5, <1>8, <1>9, CostWith
<1>14. /\ DOMAIN es = DOMAIN u.entries \cup {k} /\ es[k].size = size /\ es[k].tick = t1
       /\ \A j \in DOMAIN u.entries : es[j] = u.entries[j]
  <2>1. es = [j \in DOMAIN u.entries \cup {k} |-> IF j = k THEN r ELSE u.entries[j]]
    BY <1>4, <1>12 DEF With
  <2>2. r.size = size /\ r.tick = t1
    BY <1>12
  <2>3. QED
    BY <1>9, <2>1, <2>2
<1>15. \A j \in DOMAIN es : es[j].tick \in DOMAIN f /\ f[es[j].tick] = j
  BY <1>5, <1>11, <1>14
<1>16. \A t \in DOMAIN f : f[t] \in DOMAIN es /\ es[f[t]].tick = t
  BY <1>5, <1>11, <1>14
<1>17. Now' \in Kept
  <2>1. bytes' = Cost(es)
    BY <1>4, <1>5, <1>13
  <2>2. [lru |-> f, entries |-> es, bytes |-> bytes'] \in Kept
    BY <1>11, <1>13, <1>15, <1>16, <2>1, KeptIs
  <2>3. QED
    BY <1>1, <2>2 DEF Now
<1>18. \A j \in DOMAIN es : es[j].tick <= t1
  BY <1>8, <1>11, <1>15
<1>19. IInv'
  BY <1>1, <1>4, <1>8, <1>10, <1>17, <1>18 DEF IInv
<1>20. /\ DOMAIN lru' = DOMAIN u.lru \cup {tick + 1} /\ lru'[tick + 1] = k
       /\ entries'[k].size = size
       /\ \A t \in DOMAIN u.lru : lru'[t] = u.lru[t] /\ entries'[u.lru[t]] = u.entries[u.lru[t]]
  BY <1>1, <1>5, <1>11, <1>14
<1>21. QED
  BY <1>3, <1>10, <1>19, <1>20

LEMMA StoreInit ==
  ASSUME Init
  PROVE  IInv
<1>1. PICK e : e = << >>
  OBVIOUS
<1>2. DOMAIN e = {} /\ e \in Indexes /\ e \in Maps
  <2>1. e \in [{} -> Keys] /\ e \in [{} -> [size : Nat, tick : Nat]]
    BY <1>1
  <2>2. QED
    BY <2>1 DEF Indexes, Maps
<1>3. IsFiniteSet(DOMAIN e) /\ Cost(e) = 0
  BY <1>2, FS_EmptySet, CostNat
<1>4. [lru |-> e, entries |-> e, bytes |-> 0] \in Kept
  BY <1>2, <1>3, KeptIs
<1>5. /\ Now = [lru |-> e, entries |-> e, bytes |-> 0] /\ entries = e
      /\ bytes = 0 /\ tick = 0
  BY <1>1 DEF Init, Now
<1>6. QED
  BY <1>2, <1>4, <1>5, StoreAssumption DEF IInv

LEMMA StoreNext ==
  ASSUME IInv, [Next]_vars
  PROVE  IInv'
<1>1. CASE UNCHANGED vars
  BY <1>1 DEF vars, IInv, Now
<1>2. ASSUME NEW k \in Keys, Lookup(k) PROVE IInv'
  BY <1>2, HitStep, MissStep
<1>3. ASSUME NEW k \in Keys, NEW size \in Sizes, Store(k, size) PROVE IInv'
  <2>1. CASE Refused(k, size)
    BY <1>1, <1>3, <2>1 DEF Store
  <2>2. CASE ~Refused(k, size)
    BY <1>3, <2>2, StoreStep
  <2>3. QED
    BY <2>1, <2>2
<1>4. QED
  BY <1>1, <1>2, <1>3 DEF Next, Bound

\* The result cache is consistent after every call (panel_cache.rs, Inner).
THEOREM StoreCorrect == Spec => []IInv
<1>1. Init => IInv
  BY StoreInit
<1>2. IInv /\ [Next]_vars => IInv'
  BY StoreNext
<1>3. QED
  BY <1>1, <1>2, PTL DEF Spec

\* Map, index and byte count agree, and the cap is kept (panel_cache.rs,
\* lookup and store).
THEOREM MapsAgreeHolds == Spec => []MapsAgree
<1>1. ASSUME IInv PROVE MapsAgree
  <2>1. /\ DOMAIN lru = {entries[k].tick : k \in DOMAIN entries}
        /\ bytes = Cost(entries)
        /\ \A k \in DOMAIN entries : lru[entries[k].tick] = k
    BY <1>1 DEF IInv, Kept, Consistent, Now
  <2>2. QED
    BY <1>1, <2>1 DEF IInv, MapsAgree, IndexExact, BytesExact
<1>2. QED
  BY <1>1, StoreCorrect, PTL

-----------------------------------------------------------------------------
(* Finite sets of numbers, in order.                                       *)

\* e lists the elements of T in order.
Enum(e, n, T) ==
  /\ n \in Nat /\ e \in [1..n -> T]
  /\ \A i, j \in 1..n : i < j => e[i] < e[j]
  /\ \A t \in T : \E i \in 1..n : e[i] = t

\* There is such a list.
LEMMA EnumExists ==
  ASSUME NEW T \in SUBSET Nat, IsFiniteSet(T)
  PROVE  \E n, e : Enum(e, n, T)
<1> DEFINE W == {S \in SUBSET T : ~ \E n, e : Enum(e, n, S)}
<1>1. SUFFICES ASSUME W # {} PROVE FALSE
  OBVIOUS
<1>2. PICK X \in W : \A Y \in SUBSET X : Y # X => Y \notin W
  <2>1. W \subseteq SUBSET T
    OBVIOUS
  <2> HIDE DEF W
  <2>2. QED
    BY <1>1, <2>1, SmallestIn
<1>3. X \in SUBSET Nat /\ ~ \E n, e : Enum(e, n, X)
  OBVIOUS
<1>4. X # {}
  <2>1. SUFFICES ASSUME X = {} PROVE FALSE
    OBVIOUS
  <2>2. PICK e : e = [i \in 1..0 |-> 0]
    OBVIOUS
  <2>3. Enum(e, 0, X)
    BY <2>1, <2>2 DEF Enum
  <2>4. QED
    BY <1>3, <2>3
<1>5. PICK m \in X : \A x \in X : m <= x
  BY <1>3, <1>4, MinIn
<1>6. PICK n, e : Enum(e, n, X \ {m})
  <2>1. X \ {m} \in SUBSET X /\ X \ {m} # X /\ X \ {m} \in SUBSET T
    BY <1>3
  <2>2. X \ {m} \notin W
    BY <1>2, <2>1
  <2>3. QED
    BY <2>1, <2>2
<1>7. PICK d : d = [i \in 1..n + 1 |-> IF i = 1 THEN m ELSE e[i - 1]]
  OBVIOUS
<1> HIDE DEF W
<1>8. Enum(d, n + 1, X)
  <2>1. /\ n \in Nat /\ e \in [1..n -> X \ {m}]
        /\ \A i, j \in 1..n : i < j => e[i] < e[j]
        /\ \A t \in X \ {m} : \E i \in 1..n : e[i] = t
    BY <1>6 DEF Enum
  <2>2. /\ n + 1 \in Nat /\ d[1] = m
        /\ \A i \in 1..n + 1 : i # 1 => i - 1 \in 1..n /\ d[i] = e[i - 1]
    BY <1>7, <2>1
  <2>3. d \in [1..n + 1 -> X]
    BY <1>7, <2>1
  <2>4. \A i, j \in 1..n + 1 : i < j => d[i] < d[j]
    <3>1. ASSUME NEW i \in 1..n + 1, NEW j \in 1..n + 1, i < j PROVE d[i] < d[j]
      <4>1. j - 1 \in 1..n /\ d[j] = e[j - 1] /\ e[j - 1] \in X \ {m}
        BY <2>1, <2>2, <3>1
      <4>2. CASE i = 1
        <5>1. e[j - 1] \in Nat /\ m \in Nat /\ m <= e[j - 1] /\ m # e[j - 1]
          BY <1>3, <1>5, <4>1
        <5>2. d[i] = m /\ d[j] = e[j - 1]
          BY <2>2, <4>1, <4>2
        <5>3. QED
          BY <5>1, <5>2
      <4>3. CASE i # 1
        <5>1. i - 1 \in 1..n /\ i - 1 < j - 1 /\ d[i] = e[i - 1]
          BY <2>1, <2>2, <3>1, <4>3
        <5>2. QED
          BY <2>1, <4>1, <5>1
      <4>4. QED
        BY <4>2, <4>3
    <3>2. QED
      BY <3>1
  <2>5. \A t \in X : \E i \in 1..n + 1 : d[i] = t
    <3>1. ASSUME NEW t \in X, t # m PROVE \E i \in 1..n + 1 : d[i] = t
      <4>1. PICK i \in 1..n : e[i] = t
        BY <2>1, <3>1
      <4>2. i + 1 \in 1..n + 1 /\ i + 1 # 1 /\ (i + 1) - 1 = i
        BY <2>1
      <4>3. d[i + 1] = t
        BY <2>2, <4>1, <4>2
      <4>4. QED
        BY <4>2, <4>3
    <3>2. 1 \in 1..n + 1
      BY <2>1
    <3>3. QED
      BY <2>2, <3>1, <3>2
  <2>6. QED
    BY <2>2, <2>3, <2>4, <2>5 DEF Enum
<1>9. QED
  BY <1>3, <1>8

\* The place of an element is how many come up to it.
LEMMA EnumCount ==
  ASSUME NEW T \in SUBSET Nat, NEW n, NEW e, Enum(e, n, T)
  PROVE  /\ Cardinality(T) = n
         /\ \A i \in 1..n : Cardinality({s \in T : s <= e[i]}) = i
<1>1. /\ n \in Nat /\ e \in [1..n -> T]
      /\ \A i, j \in 1..n : i < j => e[i] < e[j]
      /\ \A t \in T : \E i \in 1..n : e[i] = t
  BY DEF Enum
<1>2. \A i, j \in 1..n : e[i] \in Nat /\ (e[j] <= e[i] => j <= i) /\ (j <= i => e[j] <= e[i])
  <2>1. ASSUME NEW i \in 1..n, NEW j \in 1..n
        PROVE e[i] \in Nat /\ (e[j] <= e[i] => j <= i) /\ (j <= i => e[j] <= e[i])
    <3>1. e[i] \in Nat /\ e[j] \in Nat
      BY <1>1
    <3>2. i < j \/ j < i \/ i = j
      BY <1>1
    <3>3. QED
      BY <1>1, <3>1, <3>2
  <2>2. QED
    BY <2>1
<1>3. ASSUME NEW i \in 0..n, NEW S, S = {e[j] : j \in 1..i}
      PROVE  Cardinality(S) = i
  <2> DEFINE b == [j \in 1..i |-> e[j]]
  <2>1. i \in Nat /\ \A j \in 1..i : j \in 1..n
    BY <1>1
  <2>2. b \in Surjection(1..i, S)
    BY <1>3 DEF Surjection
  <2>3. \A j1, j2 \in 1..i : b[j1] = b[j2] => j1 = j2
    <3>1. \A j1, j2 \in 1..i : e[j1] = e[j2] => j1 = j2
      BY <1>2, <2>1
    <3>2. QED
      BY <3>1
  <2>4. b \in Bijection(1..i, S)
    BY <2>2, <2>3 DEF Bijection, Injection, IsInjective, Surjection
  <2>5. ExistsBijection(1..i, S)
    BY <2>4 DEF ExistsBijection
  <2>6. QED
    BY <2>1, <2>5, FS_CountingElements
<1>4. T = {e[j] : j \in 1..n}
  BY <1>1
<1>5. ASSUME NEW i \in 1..n PROVE Cardinality({s \in T : s <= e[i]}) = i
  <2>1. \A j \in 1..n : e[j] <= e[i] <=> j \in 1..i
    BY <1>1, <1>2
  <2>2. \A j \in 1..i : j \in 1..n
    BY <1>1
  <2>3. {s \in T : s <= e[i]} = {e[j] : j \in 1..i}
    BY <1>4, <2>1, <2>2
  <2>4. i \in 0..n
    BY <1>1
  <2>5. QED
    BY <1>3, <2>3, <2>4
<1>6. n \in 0..n
  BY <1>1
<1>7. QED
  BY <1>3, <1>4, <1>5, <1>6

-----------------------------------------------------------------------------
(* The list of the maps.                                                   *)

\* What the list says of the entry of a tick.
Row(f, es, t) == [key |-> f[t], size |-> es[f[t]].size]

\* By an enumeration of the ticks, the places of InOrder are known.
LEMMA InOrderIs ==
  ASSUME NEW f, NEW es, NEW n, NEW e, DOMAIN f \in SUBSET Nat, Enum(e, n, DOMAIN f)
  PROVE  InOrder(f, es) = [i \in 1..n |-> Row(f, es, e[i])]
<1> DEFINE Nth(i) == CHOOSE t \in DOMAIN f : Cardinality({s \in DOMAIN f : s <= t}) = i
<1>1. /\ Cardinality(DOMAIN f) = n
      /\ \A i \in 1..n : Cardinality({s \in DOMAIN f : s <= e[i]}) = i
  BY EnumCount
<1>2. ASSUME NEW i \in 1..n PROVE Nth(i) = e[i]
  <2>1. e[i] \in DOMAIN f /\ Cardinality({s \in DOMAIN f : s <= e[i]}) = i
    BY <1>1 DEF Enum
  <2>2. ASSUME NEW t \in DOMAIN f, Cardinality({s \in DOMAIN f : s <= t}) = i PROVE t = e[i]
    <3>1. PICK j \in 1..n : e[j] = t
      BY DEF Enum
    <3>2. j = i
      BY <1>1, <2>2, <3>1
    <3>3. QED
      BY <3>1, <3>2
  <2>3. QED
    BY Zenon, <2>1, <2>2
<1>3. InOrder(f, es) = [i \in 1..n |-> [key |-> f[Nth(i)], size |-> es[f[Nth(i)]].size]]
  BY Zenon, <1>1 DEF InOrder
<1> HIDE DEF Nth
<1>4. QED
  BY Zenon, <1>2, <1>3 DEF Row

-----------------------------------------------------------------------------
(* The operators of RecencyCache are those of Recency.                     *)

LEMMA AbstractKeys == \A l : Abstract!KeysOf(l) = KeysOf(l)
BY Zenon DEF Abstract!KeysOf, KeysOf

LEMMA AbstractTouch == \A l, k : Abstract!Touch(l, k) = Touch(l, k)
BY Zenon DEF Abstract!Touch, Touch, Abstract!RemoveAt, RemoveAt

LEMMA AbstractFit == \A l, n, c : Abstract!Fit(l, n, c) = Fit(l, n, c)
BY Zenon DEF Abstract!Fit, Fit, Abstract!Cardinality, Cardinality,
   Abstract!Bytes, Bytes, Abstract!SumFunction, SumFunction,
   Abstract!SumFunctionOnSet, SumFunctionOnSet,
   Abstract!FoldFunctionOnSet, FoldFunctionOnSet, Abstract!MapThenFoldSet, MapThenFoldSet

LEMMA AbstractKeep == \A l, k, n, c : Abstract!Keep(l, k, n, c) = Keep(l, k, n, c)
BY Zenon, AbstractKeys, AbstractFit DEF Abstract!Keep, Keep, Abstract!Entry, Entry

-----------------------------------------------------------------------------
(* The operators on lists.                                                 *)

\* The result for k is the i-th one, and there is no other.
At(s, k, i) == i \in 1..Len(s) /\ \A j \in 1..Len(s) : s[j].key = k <=> j = i

LEMMA TouchIs ==
  ASSUME NEW R, NEW s \in Seq(R), NEW k, NEW i, At(s, k, i)
  PROVE  /\ k \in KeysOf(s) /\ Touch(s, k) \in Seq(R) /\ Len(Touch(s, k)) = Len(s)
         /\ \A j \in 1..Len(s) :
              Touch(s, k)[j] = IF j < i THEN s[j] ELSE IF j < Len(s) THEN s[j + 1] ELSE s[i]
<1> USE DEF At
<1>1. DOMAIN s = 1..Len(s) /\ Len(s) \in Nat
  BY LenProperties
<1>2. (CHOOSE j \in DOMAIN s : s[j].key = k) = i
  BY <1>1
<1>3. Touch(s, k) = Append(RemoveAt(s, i), s[i])
  BY Zenon, <1>2 DEF Touch
<1>4. PICK a, b : a = SubSeq(s, 1, i - 1) /\ b = SubSeq(s, i + 1, Len(s))
  OBVIOUS
<1>5. \A j \in 1..Len(s) : s[j] \in R
  BY ElementOfSeq
<1>6. /\ a \in Seq(R) /\ Len(a) = i - 1 /\ \A j \in 1..i - 1 : a[j] = s[j]
  <2>1. \A j \in 1..i - 1 : s[j] \in R
    BY <1>1, <1>5
  <2>2. 1 \in Int /\ i - 1 \in Int
    OBVIOUS
  <2>3. /\ SubSeq(s, 1, i - 1) \in Seq(R)
        /\ Len(SubSeq(s, 1, i - 1)) = IF 1 <= i - 1 THEN (i - 1) - 1 + 1 ELSE 0
        /\ \A j \in 1 .. (i - 1) - 1 + 1 : SubSeq(s, 1, i - 1)[j] = s[1 + j - 1]
    BY <2>1, <2>2, SubSeqProperties
  <2>4. (i - 1) - 1 + 1 = i - 1 /\ \A j \in 1..i - 1 : 1 + j - 1 = j
    OBVIOUS
  <2>5. QED
    BY <1>4, <2>3, <2>4
<1>7. /\ b \in Seq(R) /\ Len(b) = Len(s) - i
      /\ \A j \in 1..Len(s) - i : b[j] = s[j + i]
  <2>1. \A j \in i + 1..Len(s) : s[j] \in R
    BY <1>1, <1>5
  <2>2. i + 1 \in Int /\ Len(s) \in Int
    BY <1>1
  <2>3. /\ SubSeq(s, i + 1, Len(s)) \in Seq(R)
        /\ Len(SubSeq(s, i + 1, Len(s))) = IF i + 1 <= Len(s) THEN Len(s) - (i + 1) + 1 ELSE 0
        /\ \A j \in 1..Len(s) - (i + 1) + 1 : SubSeq(s, i + 1, Len(s))[j] = s[(i + 1) + j - 1]
    BY <2>1, <2>2, SubSeqProperties
  <2>4. /\ Len(s) - (i + 1) + 1 = Len(s) - i /\ i <= Len(s)
        /\ \A j \in 1..Len(s) - i : (i + 1) + j - 1 = j + i
    BY <1>1
  <2>5. QED
    BY <1>1, <1>4, <2>3, <2>4
<1>8. PICK c : c = a \o b
  OBVIOUS
<1>9. /\ c \in Seq(R) /\ Len(c) = Len(s) - 1
      /\ \A j \in 1..Len(s) - 1 : c[j] = IF j <= i - 1 THEN a[j] ELSE b[j - (i - 1)]
  <2>1. Len(a) + Len(b) = Len(s) - 1
    BY <1>1, <1>6, <1>7
  <2>2. /\ a \o b \in Seq(R) /\ Len(a \o b) = Len(a) + Len(b)
        /\ \A j \in 1..Len(a) + Len(b) :
             (a \o b)[j] = IF j <= Len(a) THEN a[j] ELSE b[j - Len(a)]
    BY <1>6, <1>7, ConcatProperties
  <2>3. QED
    BY <1>6, <1>8, <2>1, <2>2
<1>10. \A j \in 1..Len(s) - 1 : c[j] = IF j < i THEN s[j] ELSE s[j + 1]
  <2>1. ASSUME NEW j \in 1..Len(s) - 1 PROVE c[j] = IF j < i THEN s[j] ELSE s[j + 1]
    <3>1. CASE j < i
      <4>1. j \in 1..i - 1 /\ j <= i - 1
        BY <3>1
      <4>2. QED
        BY <1>6, <1>9, <3>1, <4>1
    <3>2. CASE ~(j < i)
      <4>1. /\ ~(j <= i - 1) /\ j - (i - 1) \in 1..Len(s) - i
            /\ j - (i - 1) + i = j + 1
        BY <1>1, <3>2
      <4>2. c[j] = b[j - (i - 1)]
        BY <1>9, <4>1
      <4>3. QED
        BY <1>7, <3>2, <4>1, <4>2
    <3>3. QED
      BY <3>1, <3>2
  <2>2. QED
    BY <2>1
<1>11. Touch(s, k) = Append(c, s[i]) /\ s[i] \in R
  BY <1>3, <1>4, <1>5, <1>8 DEF RemoveAt
<1>12. PICK t : t = Append(c, s[i])
  OBVIOUS
<1>13. /\ t \in Seq(R) /\ Len(t) = Len(c) + 1
       /\ \A j \in 1..Len(c) : t[j] = c[j]
       /\ t[Len(c) + 1] = s[i]
  BY <1>9, <1>11, <1>12, AppendProperties
<1>14. Len(c) + 1 = Len(s) /\ Len(t) = Len(s)
  BY <1>1, <1>9, <1>13
<1>15. ASSUME NEW j \in 1..Len(s)
       PROVE  t[j] = IF j < i THEN s[j] ELSE IF j < Len(s) THEN s[j + 1] ELSE s[i]
  <2>1. CASE j = Len(s)
    <3>1. j = Len(c) + 1
      BY <1>14, <2>1
    <3>4. j \in Nat /\ i \in 1..j /\ ~(j < Len(s))
      BY <1>1, <2>1
    <3>5. ~(j < i)
      BY <3>4
    <3>2. t[j] = s[i]
      BY <1>13, <3>1
    <3>3. QED
      BY <3>2, <3>4, <3>5
  <2>2. CASE j # Len(s)
    <3>1. j \in 1..Len(s) - 1 /\ j \in 1..Len(c) /\ j < Len(s)
      BY <1>1, <1>9, <2>2
    <3>2. t[j] = c[j]
      BY <1>13, <3>1
    <3>3. QED
      BY <1>10, <3>1, <3>2
  <2>3. QED
    BY <2>1, <2>2
<1>16. k \in KeysOf(s)
  BY <1>1 DEF KeysOf
<1>17. QED
  BY <1>11, <1>12, <1>13, <1>14, <1>15, <1>16

-----------------------------------------------------------------------------
(* The list of the maps, and what a call does to it.                       *)

Results == [key : Keys, size : Nat]

\* What the list holds.
LEMMA RowsAre ==
  ASSUME IInv
  PROVE  /\ \A t \in DOMAIN lru : Row(lru, entries, t) \in Results
         /\ \A t \in DOMAIN lru : \A k : Row(lru, entries, t).key = k <=> lru[t] = k
         /\ \A t \in DOMAIN lru :
              Row(lru, entries, t).key = lru[t] /\ Row(lru, entries, t).size = SizeAt(Now)[t]
<1>1. /\ \A t \in DOMAIN lru : lru[t] \in DOMAIN entries
      /\ lru \in Indexes /\ entries \in Maps
  BY NowIs
<1>2. ASSUME NEW t \in DOMAIN lru
      PROVE  /\ Row(lru, entries, t).key = lru[t]
             /\ Row(lru, entries, t).size = entries[lru[t]].size
  BY DEF Row
<1>3. ASSUME NEW t \in DOMAIN lru PROVE lru[t] \in Keys /\ entries[lru[t]].size \in Nat
  BY <1>1, IndexesAre, MapsAre
<1>4. ASSUME NEW t \in DOMAIN lru PROVE Row(lru, entries, t) \in Results
  BY <1>3 DEF Row, Results
<1>5. ASSUME NEW t \in DOMAIN lru PROVE SizeAt(Now)[t] = entries[lru[t]].size
  BY DEF SizeAt, Now
<1>6. QED
  BY <1>2, <1>4, <1>5

\* The list, by an enumeration of the ticks.
Lists(e, n) ==
  /\ Enum(e, n, DOMAIN lru) /\ n \in Nat /\ e \in [1..n -> DOMAIN lru]
  /\ ByUse = [i \in 1..n |-> Row(lru, entries, e[i])]
  /\ ByUse \in Seq(Results) /\ Len(ByUse) = n
  /\ \A i \in 1..n : ByUse[i] = Row(lru, entries, e[i])

LEMMA ListsIt ==
  ASSUME IInv, NEW e, NEW n, Enum(e, n, DOMAIN lru)
  PROVE  Lists(e, n)
<1>1. DOMAIN lru \in SUBSET Nat
  BY NowIs
<1>2. ByUse = [i \in 1..n |-> Row(lru, entries, e[i])]
  BY <1>1, InOrderIs DEF ByUse
<1>3. n \in Nat /\ e \in [1..n -> DOMAIN lru]
  BY DEF Enum
<1>4. \A i \in 1..n : Row(lru, entries, e[i]) \in Results
  BY <1>3, RowsAre
<1>5. PICK l : l = ByUse
  OBVIOUS
<1>6. l = [i \in 1..n |-> Row(lru, entries, e[i])]
  BY <1>2, <1>5
<1>7. l \in [1..n -> Results] /\ \A i \in 1..n : l[i] = Row(lru, entries, e[i])
  BY <1>4, <1>6
<1>8. l \in Seq(Results) /\ Len(l) = n
  BY <1>3, <1>7
<1>9. QED
  BY <1>2, <1>3, <1>5, <1>7, <1>8 DEF Lists

LEMMA ListExists ==
  ASSUME IInv
  PROVE  \E e, n : Lists(e, n)
<1>1. DOMAIN lru \in SUBSET Nat /\ IsFiniteSet(DOMAIN lru)
  BY NowIs
<1>2. PICK n, e : Enum(e, n, DOMAIN lru)
  BY <1>1, EnumExists
<1>3. QED
  BY <1>2, ListsIt

\* The list and the map hold the same results.
LEMMA KeysAre ==
  ASSUME IInv
  PROVE  KeysOf(ByUse) = DOMAIN entries
<1>1. PICK e, n : Lists(e, n)
  BY ListExists
<1>2. DOMAIN ByUse = 1..n
  BY <1>1 DEF Lists
<1>3. \A i \in 1..n : ByUse[i].key = lru[e[i]]
  BY <1>1, RowsAre DEF Lists
<1>4. KeysOf(ByUse) = {lru[e[i]] : i \in 1..n}
  BY <1>2, <1>3 DEF KeysOf
<1>5. \A t \in DOMAIN lru : \E i \in 1..n : e[i] = t
  BY <1>1 DEF Lists, Enum
<1>6. e \in [1..n -> DOMAIN lru]
  BY <1>1 DEF Lists
<1>7. DOMAIN entries = {lru[t] : t \in DOMAIN lru}
  BY NowIs
<1>8. QED
  BY <1>4, <1>5, <1>6, <1>7

\* A hit makes its entry the last one.
LEMMA HitList ==
  ASSUME IInv, NEW k \in Keys, Lookup(k), k \in DOMAIN entries
  PROVE  ByUse' = Touch(ByUse, k)
<1>1. PICK e, n : Lists(e, n)
  BY ListExists
<1>2. PICK t0, t1, f, es : /\ t0 = entries[k].tick /\ t1 = tick + 1
                           /\ f = lru' /\ es = entries'
  OBVIOUS
<1>3. /\ DOMAIN es = DOMAIN entries /\ DOMAIN f = (DOMAIN lru \ {t0}) \cup {t1} /\ f[t1] = k
      /\ \A t \in DOMAIN lru \ {t0} : f[t] = lru[t]
      /\ \A j \in DOMAIN entries : es[j].size = entries[j].size
  BY <1>2, HitStep
<1>4. /\ DOMAIN lru \in SUBSET Nat /\ tick \in Nat /\ t0 \in DOMAIN lru /\ lru[t0] = k
      /\ \A t \in DOMAIN lru :
           lru[t] \in DOMAIN entries /\ entries[lru[t]].tick = t /\ t <= tick
  BY <1>2, NowIs
<1>5. /\ n \in Nat /\ e \in [1..n -> DOMAIN lru]
      /\ \A i, j \in 1..n : i < j => e[i] < e[j]
      /\ \A t \in DOMAIN lru : \E i \in 1..n : e[i] = t
  BY <1>1 DEF Lists, Enum
<1>6. PICK i \in 1..n : e[i] = t0
  BY <1>4, <1>5
<1>7. \A j \in 1..n : lru[e[j]] = k <=> j = i
  <2>1. ASSUME NEW j \in 1..n, lru[e[j]] = k PROVE j = i
    <3>1. e[j] = t0
      BY <1>2, <1>4, <1>5, <2>1
    <3>2. ~(i < j) /\ ~(j < i)
      BY <1>4, <1>5, <1>6, <3>1
    <3>3. QED
      BY <1>5, <3>2
  <2>2. lru[e[i]] = k
    BY <1>4, <1>6
  <2>3. QED
    BY <2>1, <2>2
<1>8. PICK l : l = ByUse
  OBVIOUS
<1>9. /\ l \in Seq(Results) /\ Len(l) = n
      /\ \A j \in 1..n : l[j] = Row(lru, entries, e[j])
      /\ \A j \in 1..n : l[j].key = k <=> j = i
  <2>1. l \in Seq(Results) /\ Len(l) = n /\ \A j \in 1..n : l[j] = Row(lru, entries, e[j])
    BY <1>1, <1>8 DEF Lists
  <2>2. \A j \in 1..n : e[j] \in DOMAIN lru
    BY <1>5
  <2>3. \A j \in 1..n : Row(lru, entries, e[j]).key = lru[e[j]]
    BY <2>2, RowsAre
  <2>4. QED
    BY <1>7, <2>1, <2>3
<1>10. /\ Touch(l, k) \in Seq(Results) /\ Len(Touch(l, k)) = n
       /\ \A j \in 1..n :
            Touch(l, k)[j] = IF j < i THEN l[j] ELSE IF j < n THEN l[j + 1] ELSE l[i]
  <2>1. At(l, k, i)
    BY <1>9 DEF At
  <2>2. PICK t : t = Touch(l, k)
    OBVIOUS
  <2>3. /\ t \in Seq(Results) /\ Len(t) = Len(l)
        /\ \A j \in 1..Len(l) :
             t[j] = IF j < i THEN l[j] ELSE IF j < Len(l) THEN l[j + 1] ELSE l[i]
    <3>1. l \in Seq(Results)
      BY <1>9
    <3>2. /\ Touch(l, k) \in Seq(Results) /\ Len(Touch(l, k)) = Len(l)
          /\ \A j \in 1..Len(l) :
               Touch(l, k)[j] = IF j < i THEN l[j] ELSE IF j < Len(l) THEN l[j + 1] ELSE l[i]
      BY <2>1, <3>1, TouchIs
    <3>3. QED
      BY Zenon, <2>2, <3>2
  <2>4. QED
    BY <1>9, <2>2, <2>3
<1>11. PICK d : d = [j \in 1..n |-> IF j < i THEN e[j] ELSE IF j < n THEN e[j + 1] ELSE t1]
  OBVIOUS
<1>12. \A j \in 1..n : /\ j < i => d[j] = e[j]
                       /\ ~(j < i) /\ j < n => j + 1 \in 1..n /\ d[j] = e[j + 1]
                       /\ ~(j < i) /\ ~(j < n) => d[j] = t1
  BY <1>5, <1>11
<1>13. \A j \in 1..n : e[j] \in Nat /\ e[j] \in DOMAIN lru /\ e[j] < t1 /\ (j # i => e[j] # t0)
  BY <1>2, <1>4, <1>5, <1>6
<1>14. \A j \in 1..n : \/ d[j] = t1 /\ j = n
                       \/ \E m \in 1..n \ {i} : d[j] = e[m] /\ m = IF j < i THEN j ELSE j + 1
  <2>1. ASSUME NEW j \in 1..n
        PROVE \/ d[j] = t1 /\ j = n
              \/ \E m \in 1..n \ {i} : d[j] = e[m] /\ m = IF j < i THEN j ELSE j + 1
    <3>1. CASE j < i
      BY <1>5, <1>12, <3>1
    <3>2. CASE ~(j < i) /\ j < n
      <4>1. j + 1 \in 1..n \ {i} /\ d[j] = e[j + 1]
        BY <1>5, <1>12, <3>2
      <4>2. QED
        BY <3>2, <4>1
    <3>3. CASE ~(j < i) /\ ~(j < n)
      BY <1>5, <1>12, <3>3
    <3>4. QED
      BY <3>1, <3>2, <3>3
  <2>2. QED
    BY <2>1
<1>15. d \in [1..n -> DOMAIN f]
  <2>1. \A j \in 1..n : d[j] \in DOMAIN f
    BY <1>3, <1>13, <1>14
  <2>2. d = [j \in 1..n |-> d[j]]
    BY <1>11
  <2>3. QED
    BY <2>1, <2>2
<1>16. \A j1, j2 \in 1..n : j1 < j2 => d[j1] < d[j2]
  <2>1. ASSUME NEW j1 \in 1..n, NEW j2 \in 1..n, j1 < j2 PROVE d[j1] < d[j2]
    <3>1. PICK m \in 1..n \ {i} : d[j1] = e[m] /\ m = IF j1 < i THEN j1 ELSE j1 + 1
      BY <1>5, <1>14, <2>1
    <3>2. CASE d[j2] = t1
      BY <1>13, <3>1, <3>2
    <3>3. ASSUME NEW p \in 1..n \ {i}, d[j2] = e[p], p = IF j2 < i THEN j2 ELSE j2 + 1
          PROVE  d[j1] < d[j2]
      <4>1. m < p
        BY <1>5, <2>1, <3>1, <3>3
      <4>2. QED
        BY <1>5, <3>1, <3>3, <4>1
    <3>4. QED
      BY <1>14, <3>2, <3>3
  <2>2. QED
    BY <2>1
<1>17. \A t \in DOMAIN f : \E j \in 1..n : d[j] = t
  <2>1. ASSUME NEW t \in DOMAIN lru, t # t0 PROVE \E j \in 1..n : d[j] = t
    <3>1. PICK m \in 1..n : e[m] = t
      BY <1>5
    <3>2. CASE m < i
      BY <1>12, <3>1, <3>2
    <3>3. CASE ~(m < i)
      <4>1. m # i
        BY <1>6, <2>1, <3>1
      <4>2. m - 1 \in 1..n /\ ~(m - 1 < i) /\ m - 1 < n /\ (m - 1) + 1 = m
        BY <1>5, <3>3, <4>1
      <4>3. d[m - 1] = e[m]
        BY <1>12, <4>2
      <4>4. QED
        BY <3>1, <4>2, <4>3
    <3>4. QED
      BY <3>2, <3>3
  <2>2. n \in 1..n /\ d[n] = t1
    BY <1>5, <1>12
  <2>3. QED
    BY <1>3, <2>1, <2>2
<1>18. Enum(d, n, DOMAIN f)
  BY <1>5, <1>15, <1>16, <1>17 DEF Enum
<1>19. DOMAIN f \in SUBSET Nat
  BY <1>2, <1>3, <1>4
<1>20. InOrder(f, es) = [j \in 1..n |-> Row(f, es, d[j])]
  BY <1>18, <1>19, InOrderIs
<1>21. \A t \in DOMAIN lru \ {t0} : Row(f, es, t) = Row(lru, entries, t)
  BY <1>3, <1>4 DEF Row
<1>22. Row(f, es, t1) = Row(lru, entries, t0)
  <2>1. f[t1] = lru[t0] /\ lru[t0] \in DOMAIN entries
    BY <1>3, <1>4
  <2>2. es[lru[t0]].size = entries[lru[t0]].size
    BY <1>3, <2>1
  <2>3. QED
    BY <2>1, <2>2 DEF Row
<1>23. ASSUME NEW j \in 1..n PROVE Row(f, es, d[j]) = Touch(l, k)[j]
  <2>1. CASE j < i
    BY <1>9, <1>10, <1>12, <1>13, <1>21, <2>1
  <2>2. CASE ~(j < i) /\ j < n
    <3>1. j + 1 \in 1..n /\ d[j] = e[j + 1] /\ j + 1 # i
      BY <1>5, <1>12, <2>2
    <3>2. Row(f, es, d[j]) = l[j + 1]
      BY <1>9, <1>13, <1>21, <3>1
    <3>3. QED
      BY <1>10, <2>2, <3>2
  <2>3. CASE ~(j < i) /\ ~(j < n)
    <3>1. d[j] = t1 /\ Touch(l, k)[j] = l[i]
      BY <1>10, <1>12, <2>3
    <3>2. l[i] = Row(lru, entries, t0)
      BY <1>6, <1>9
    <3>3. QED
      BY <1>22, <3>1, <3>2
  <2>4. QED
    BY <2>1, <2>2, <2>3
<1>24. PICK q : q = Touch(l, k)
  OBVIOUS
<1>25. q = [j \in 1..n |-> q[j]]
  BY <1>10, <1>24
<1>26. InOrder(f, es) = q
  BY <1>20, <1>23, <1>24, <1>25
<1>27. QED
  BY <1>2, <1>8, <1>24, <1>26 DEF ByUse

\* What the newest entries cost, from one of them on.
LEMMA SuffixIs ==
  ASSUME IInv, NEW e, NEW n, Lists(e, n), NEW i \in 1..n
  PROVE  Bytes(SubSeq(ByUse, i, n)) = After(Now, e[i])
<1>1. /\ n \in Nat /\ e \in [1..n -> DOMAIN lru]
      /\ \A p, q \in 1..n : p < q => e[p] < e[q]
      /\ \A t \in DOMAIN lru : \E p \in 1..n : e[p] = t
  BY DEF Lists, Enum
<1>2. DOMAIN lru \in SUBSET Nat /\ IsFiniteSet(DOMAIN lru)
  BY NowIs
<1>3. PICK l : l = ByUse
  OBVIOUS
<1>4. /\ l \in Seq(Results) /\ Len(l) = n
      /\ \A j \in 1..n : l[j] = Row(lru, entries, e[j])
      /\ \A j \in 1..n : l[j] \in Results
  BY <1>1, <1>3, RowsAre DEF Lists
<1>5. PICK s : s = SubSeq(l, i, n)
  OBVIOUS
<1>6. /\ s \in Seq(Results) /\ Len(s) = n - i + 1
      /\ \A j \in 1..n - i + 1 : s[j] = l[i + j - 1]
  <2>1. \A j \in i..n : l[j] \in Results
    BY <1>1, <1>4
  <2>2. i \in Int /\ n \in Int /\ i <= n
    BY <1>1
  <2>3. QED
    BY <1>5, <2>1, <2>2, SubSeqProperties
<1>7. DOMAIN s = 1..n - i + 1
  BY <1>6, LenProperties
<1> DEFINE g == [j \in DOMAIN s |-> s[j].size]
           I == 1..n - i + 1
           T == {x \in DOMAIN lru : x >= e[i]}
           b == [j \in I |-> e[i + j - 1]]
<1>8. Bytes(s) = SumFunctionOnSet(g, I)
  <2>1. DOMAIN g = I
    BY <1>7
  <2>2. Bytes(s) = SumFunctionOnSet(g, DOMAIN g)
    BY Zenon DEF Bytes, SumFunction
  <2>3. QED
    BY <2>1, <2>2
<1>9. \A j \in I : i + j - 1 \in 1..n
  BY <1>1
<1>10. \A j \in I : g[j] = SizeAt(Now)[b[j]] /\ g[j] \in Int
  <2>1. ASSUME NEW j \in I PROVE g[j] = SizeAt(Now)[b[j]] /\ g[j] \in Int
    <3>1. g[j] = l[i + j - 1].size
      BY <1>6, <1>7
    <3>2. b[j] = e[i + j - 1] /\ e[i + j - 1] \in DOMAIN lru
      BY <1>1, <1>9
    <3>3. l[i + j - 1] = Row(lru, entries, e[i + j - 1]) /\ l[i + j - 1] \in Results
      BY <1>4, <1>9
    <3>4. l[i + j - 1].size = SizeAt(Now)[e[i + j - 1]]
      BY <3>2, <3>3, RowsAre
    <3>5. l[i + j - 1].size \in Int
      BY <3>3 DEF Results
    <3>6. QED
      BY <3>1, <3>2, <3>4, <3>5
  <2>2. QED
    BY <2>1
<1>11. \A p, q \in 1..n : e[p] \in Nat /\ (e[p] >= e[q] <=> p >= q)
  <2>1. ASSUME NEW p \in 1..n, NEW q \in 1..n
        PROVE  e[p] \in Nat /\ (e[p] >= e[q] <=> p >= q)
    <3>1. e[p] \in Nat /\ e[q] \in Nat /\ p \in Nat /\ q \in Nat
      BY <1>1, <1>2
    <3>2. (p < q => e[p] < e[q]) /\ (q < p => e[q] < e[p]) /\ (p = q => e[p] = e[q])
      BY <1>1
    <3>3. QED
      BY <3>1, <3>2
  <2>2. QED
    BY <2>1
<1>12. b \in Bijection(I, T)
  <2>1. \A j \in I : b[j] \in T
    <3>1. ASSUME NEW j \in I PROVE b[j] \in T
      <4>1. i + j - 1 \in 1..n /\ i + j - 1 >= i
        BY <1>1, <1>9
      <4>2. b[j] = e[i + j - 1] /\ e[i + j - 1] \in DOMAIN lru
        BY <1>1, <4>1
      <4>3. e[i + j - 1] >= e[i]
        BY <1>11, <4>1
      <4>4. QED
        BY <4>2, <4>3
    <3>2. QED
      BY <3>1
  <2>2. b \in [I -> T]
    BY <2>1
  <2>3. \A t \in T : \E j \in I : b[j] = t
    <3>1. ASSUME NEW t \in T PROVE \E j \in I : b[j] = t
      <4>1. PICK p \in 1..n : e[p] = t
        BY <1>1
      <4>2. p >= i
        BY <1>11, <4>1
      <4>3. p - i + 1 \in I /\ i + (p - i + 1) - 1 = p
        BY <1>1, <4>2
      <4>4. b[p - i + 1] = e[p]
        BY <4>3
      <4>5. QED
        BY <4>1, <4>3, <4>4
    <3>2. QED
      BY <3>1
  <2>4. \A j1, j2 \in I : b[j1] = b[j2] => j1 = j2
    <3>1. ASSUME NEW j1 \in I, NEW j2 \in I, b[j1] = b[j2] PROVE j1 = j2
      <4>1. i + j1 - 1 \in 1..n /\ i + j2 - 1 \in 1..n /\ e[i + j1 - 1] = e[i + j2 - 1]
        BY <1>9, <3>1
      <4>2. e[i + j1 - 1] >= e[i + j2 - 1] /\ e[i + j2 - 1] >= e[i + j1 - 1]
        BY <1>11, <4>1
      <4>3. i + j1 - 1 = i + j2 - 1
        BY <1>11, <4>1, <4>2
      <4>4. QED
        BY <1>1, <4>3
    <3>2. QED
      BY <3>1
  <2> HIDE DEF b, T, I
  <2>5. QED
    BY <2>2, <2>3, <2>4 DEF Bijection, Injection, Surjection, IsInjective
<1>13. IsFiniteSet(I) /\ IsFiniteSet(T)
  <2>1. IsFiniteSet(1..n - i + 1)
    BY <1>1, FS_Interval
  <2>2. QED
    BY <1>2, <2>1, FS_Subset
<1> HIDE DEF b, g
<1>14. SumFunctionOnSet(g, I) = SumFunctionOnSet(SizeAt(Now), T)
  <2> HIDE DEF I, T
  <2>1. QED
    BY <1>10, <1>12, <1>13, SumRenamed
<1>15. After(Now, e[i]) = SumFunctionOnSet(SizeAt(Now), T)
  BY DEF After, Now
<1>16. QED
  BY <1>3, <1>5, <1>8, <1>14, <1>15

\* The entries that go are the first ones.
LEMMA FitIs ==
  ASSUME IInv, NEW e, NEW n, Lists(e, n), NEW size \in Nat, NEW u \in Kept,
         Left(Now, u, size), u.bytes + size <= Cap
  PROVE  \E c \in 0..n :
           /\ Fit(ByUse, size, Cap) = SubSeq(ByUse, c + 1, n)
           /\ \A i \in 1..n : e[i] \in DOMAIN u.lru <=> i > c
<1>1. /\ n \in Nat /\ e \in [1..n -> DOMAIN lru] /\ Len(ByUse) = n
      /\ \A p, q \in 1..n : p < q => e[p] < e[q]
      /\ ByUse \in Seq(Results)
  BY DEF Lists, Enum
<1>2. DOMAIN lru \in SUBSET Nat /\ IsFiniteSet(DOMAIN lru)
  BY NowIs
<1>3. /\ DOMAIN u.lru \subseteq DOMAIN lru
      /\ \A t \in DOMAIN lru, x \in DOMAIN u.lru : x <= t => t \in DOMAIN u.lru
      /\ \A t \in DOMAIN u.lru :
           u.lru[t] = lru[t] /\ u.entries[lru[t]] = entries[lru[t]]
      /\ \A t \in DOMAIN lru \ DOMAIN u.lru : After(Now, t) + size > Cap
  BY DEF Left, Now
<1> DEFINE Ev == {i \in 1..n : Bytes(SubSeq(ByUse, i, n)) + size > Cap}
<1>4. \A t \in DOMAIN lru : SizeAt(Now)[t] \in Nat
  <2>1. Now \in Kept
    BY DEF IInv
  <2>2. QED
    BY <2>1, CountByTick DEF Now
<1>5. ASSUME NEW t \in DOMAIN u.lru PROVE ~(After(Now, t) + size > Cap)
  <2> DEFINE S == {x \in DOMAIN lru : x >= t}
  <2>1. S \in SUBSET DOMAIN u.lru
    BY <1>2, <1>3
  <2>2. u.bytes = SumFunctionOnSet(SizeAt(u), DOMAIN u.lru)
    BY CountByTick
  <2>3. \A x \in DOMAIN u.lru : SizeAt(u)[x] = SizeAt(Now)[x] /\ SizeAt(u)[x] \in Int
    <3>1. \A x \in DOMAIN u.lru : SizeAt(u)[x] = u.entries[u.lru[x]].size
      BY DEF SizeAt
    <3>2. \A x \in DOMAIN lru : SizeAt(Now)[x] = entries[lru[x]].size
      BY DEF SizeAt, Now
    <3>3. QED
      BY <1>3, <1>4, <3>1, <3>2
  <2>4. IsFiniteSet(DOMAIN u.lru)
    BY <1>2, <1>3, FS_Subset
  <2>5. u.bytes = SumFunctionOnSet(SizeAt(Now), DOMAIN u.lru)
    BY <2>2, <2>3, <2>4, SumAgree
  <2>6. After(Now, t) = SumFunctionOnSet(SizeAt(Now), S)
    BY DEF After, Now
  <2>7. \A x \in DOMAIN u.lru : SizeAt(Now)[x] \in Nat
    BY <1>3, <1>4
  <2> HIDE DEF S
  <2>8. SumFunctionOnSet(SizeAt(Now), S) <= SumFunctionOnSet(SizeAt(Now), DOMAIN u.lru)
    BY <2>1, <2>4, <2>7, SumSubset
  <2>9. After(Now, t) \in Nat /\ u.bytes \in Nat
    <3>1. IsFiniteSet(S)
      BY <2>1, <2>4, FS_Subset
    <3>2. SumFunctionOnSet(SizeAt(Now), S) \in Nat
      BY <2>1, <2>7, <3>1, SumNat
    <3>3. QED
      BY <2>6, <3>2, KeptAre
  <2>10. QED
    BY <2>5, <2>6, <2>8, <2>9, StoreAssumption
<1>6. \A i \in 1..n : i \in Ev <=> e[i] \notin DOMAIN u.lru
  <2>1. ASSUME NEW i \in 1..n PROVE i \in Ev <=> e[i] \notin DOMAIN u.lru
    <3>1. i \in Ev <=> After(Now, e[i]) + size > Cap
      BY SuffixIs
    <3>2. e[i] \in DOMAIN lru
      BY <1>1
    <3>3. QED
      BY <1>3, <1>5, <3>1, <3>2
  <2>2. QED
    BY <2>1
<1>7. \A i \in Ev : \A j \in 1..n : j < i => j \in Ev
  <2>1. ASSUME NEW i \in Ev, NEW j \in 1..n, j < i PROVE j \in Ev
    <3>1. i \in 1..n
      OBVIOUS
    <3> HIDE DEF Ev
    <3>2. e[j] < e[i] /\ e[i] \in DOMAIN lru /\ e[j] \in DOMAIN lru
      BY <1>1, <2>1, <3>1
    <3>3. e[j] \in DOMAIN u.lru => e[i] \in DOMAIN u.lru
      BY <1>2, <1>3, <3>2
    <3>4. QED
      BY <1>6, <2>1, <3>1, <3>3
  <2> HIDE DEF Ev
  <2>2. QED
    BY <2>1
<1>8. PICK c : c = Cardinality(Ev)
  OBVIOUS
<1>9. Ev \in SUBSET (1..n)
  OBVIOUS
<1>10. Fit(ByUse, size, Cap) = SubSeq(ByUse, c + 1, n)
  <2>1. DOMAIN ByUse = 1..n
    BY <1>1, LenProperties
  <2>2. QED
    BY Zenon, <1>1, <1>8, <2>1 DEF Fit
<1> HIDE DEF Ev
<1>11. c \in 0..n /\ Ev = 1..c
  BY <1>1, <1>7, <1>8, <1>9, FirstOnes
<1>12. \A i \in 1..n : e[i] \in DOMAIN u.lru <=> i > c
  BY <1>1, <1>6, <1>11
<1>13. QED
  BY <1>10, <1>11, <1>12

\* A result that is kept comes last, after the newest of the others.
LEMMA StoreList ==
  ASSUME IInv, NEW k \in Keys, NEW size \in Sizes, Store(k, size), ~Refused(k, size)
  PROVE  ByUse' = Append(Fit(ByUse, size, Cap), Entry(k, size))
<1>1. PICK e, n : Lists(e, n)
  BY ListExists
<1>2. size \in Nat
  BY StoreAssumption
<1>3. PICK u \in Kept :
        /\ Left(Now, u, size) /\ u.bytes + size <= Cap
        /\ IInv' /\ DOMAIN lru' = DOMAIN u.lru \cup {tick + 1} /\ lru'[tick + 1] = k
        /\ entries'[k].size = size
        /\ \A t \in DOMAIN u.lru : lru'[t] = u.lru[t] /\ entries'[u.lru[t]] = u.entries[u.lru[t]]
  BY Zenon, StoreStep
<1>4. PICK t1, f, es, fits : t1 = tick + 1 /\ f = lru' /\ es = entries' /\ fits = Fit(ByUse, size, Cap)
  OBVIOUS
<1>5. PICK c \in 0..n :
        /\ fits = SubSeq(ByUse, c + 1, n)
        /\ \A i \in 1..n : e[i] \in DOMAIN u.lru <=> i > c
  BY <1>1, <1>2, <1>3, <1>4, FitIs
<1>6. /\ n \in Nat /\ e \in [1..n -> DOMAIN lru] /\ Len(ByUse) = n
      /\ \A p, q \in 1..n : p < q => e[p] < e[q]
      /\ \A t \in DOMAIN lru : \E i \in 1..n : e[i] = t
      /\ ByUse \in Seq(Results)
      /\ \A i \in 1..n : ByUse[i] = Row(lru, entries, e[i])
  BY <1>1 DEF Lists, Enum
<1>7. /\ DOMAIN f = DOMAIN u.lru \cup {t1} /\ f[t1] = k /\ es[k].size = size
      /\ DOMAIN u.lru \subseteq DOMAIN lru
      /\ \A t \in DOMAIN u.lru : f[t] = lru[t] /\ es[lru[t]] = entries[lru[t]]
  BY <1>3, <1>4 DEF Left, Now
<1>8. /\ DOMAIN lru \in SUBSET Nat /\ t1 \in Nat /\ \A t \in DOMAIN lru : t < t1
  <2>1. tick \in Nat /\ DOMAIN lru \in SUBSET Nat /\ \A t \in DOMAIN lru : t <= tick
    BY NowIs
  <2>2. QED
    BY <1>4, <2>1
<1>9. /\ fits \in Seq(Results) /\ Len(fits) = n - c
      /\ \A i \in 1..n - c : fits[i] = Row(lru, entries, e[c + i])
  <2>1. \A i \in c + 1..n : i \in 1..n /\ ByUse[i] \in Results
    <3>1. \A i \in c + 1..n : i \in 1..n
      BY <1>6
    <3>2. \A i \in 1..n : ByUse[i] \in Results
      BY <1>6, ElementOfSeq
    <3>3. QED
      BY <3>1, <3>2
  <2>2. /\ c + 1 \in Int /\ n \in Int /\ n - (c + 1) + 1 = n - c
        /\ (IF c + 1 <= n THEN n - (c + 1) + 1 ELSE 0) = n - c
    BY <1>6
  <2>3. /\ fits \in Seq(Results) /\ Len(fits) = n - c
        /\ \A i \in 1..n - c : fits[i] = ByUse[(c + 1) + i - 1]
    <3>1. PICK l : l = ByUse
      OBVIOUS
    <3>2. \A i \in c + 1..n : l[i] \in Results
      BY <2>1, <3>1
    <3>3. /\ SubSeq(l, c + 1, n) \in Seq(Results)
          /\ Len(SubSeq(l, c + 1, n)) = IF c + 1 <= n THEN n - (c + 1) + 1 ELSE 0
          /\ \A i \in 1..n - (c + 1) + 1 : SubSeq(l, c + 1, n)[i] = l[(c + 1) + i - 1]
      BY <2>2, <3>2, SubSeqProperties
    <3>4. QED
      BY <1>5, <2>2, <3>1, <3>3
  <2>4. \A i \in 1..n - c : (c + 1) + i - 1 = c + i /\ c + i \in 1..n
    BY <1>6
  <2>5. QED
    BY <1>6, <2>3, <2>4
<1>10. PICK m, d : m = n - c + 1 /\ d = [i \in 1..m |-> IF i <= n - c THEN e[c + i] ELSE t1]
  OBVIOUS
<1>11. /\ m \in Nat /\ m \in 1..m /\ n - c = m - 1 /\ d[m] = t1
       /\ \A i \in 1..m : i = m \/ i \in 1..m - 1
  BY <1>6, <1>10
<1>12. \A i \in 1..m - 1 :
         /\ i \in 1..m /\ c + i \in 1..n /\ c + i > c /\ d[i] = e[c + i]
         /\ e[c + i] \in DOMAIN u.lru /\ e[c + i] \in DOMAIN lru
  <2>1. \A i \in 1..m - 1 : i \in 1..m /\ c + i \in 1..n /\ c + i > c /\ d[i] = e[c + i]
    BY <1>6, <1>10, <1>11
  <2>2. QED
    BY <1>5, <1>6, <2>1
<1>13. d \in [1..m -> DOMAIN f]
  <2>1. \A i \in 1..m : d[i] \in DOMAIN f
    BY <1>7, <1>11, <1>12
  <2>2. d = [i \in 1..m |-> d[i]]
    BY <1>10
  <2>3. QED
    BY <2>1, <2>2
<1>14. \A i, j \in 1..m : i < j => d[i] < d[j]
  <2>1. ASSUME NEW i \in 1..m, NEW j \in 1..m, i < j PROVE d[i] < d[j]
    <3>1. i \in 1..m - 1
      BY <1>11, <2>1
    <3>2. CASE j = m
      BY <1>8, <1>11, <1>12, <3>1, <3>2
    <3>3. CASE j \in 1..m - 1
      <4>1. c + i < c + j
        BY <1>6, <2>1
      <4>2. QED
        BY <1>6, <1>12, <3>1, <3>3, <4>1
    <3>4. QED
      BY <1>11, <3>2, <3>3
  <2>2. QED
    BY <2>1
<1>15. \A t \in DOMAIN f : \E i \in 1..m : d[i] = t
  <2>1. ASSUME NEW t \in DOMAIN u.lru PROVE \E i \in 1..m : d[i] = t
    <3>1. PICK j \in 1..n : e[j] = t
      BY <1>6, <1>7
    <3>2. j > c
      BY <1>5, <2>1, <3>1
    <3>3. j - c \in 1..m - 1 /\ c + (j - c) = j
      BY <1>6, <1>11, <3>2
    <3>4. QED
      BY <1>12, <3>1, <3>3
  <2>2. QED
    BY <1>7, <1>11, <2>1
<1>16. Enum(d, m, DOMAIN f)
  BY <1>11, <1>13, <1>14, <1>15 DEF Enum
<1>17. DOMAIN f \in SUBSET Nat
  BY <1>7, <1>8
<1>18. InOrder(f, es) = [i \in 1..m |-> Row(f, es, d[i])]
  BY <1>16, <1>17, InOrderIs
<1>19. PICK r, q : r = Entry(k, size) /\ q = Append(fits, r)
  OBVIOUS
<1>20. r \in Results /\ r = Row(f, es, t1)
  BY <1>2, <1>7, <1>19 DEF Entry, Results, Row
<1>21. /\ q \in Seq(Results) /\ Len(q) = m
       /\ \A i \in 1..m - 1 : q[i] = fits[i]
       /\ q[m] = r
  <2>1. /\ Append(fits, r) \in Seq(Results) /\ Len(Append(fits, r)) = Len(fits) + 1
        /\ \A i \in 1..Len(fits) : Append(fits, r)[i] = fits[i]
        /\ Append(fits, r)[Len(fits) + 1] = r
    BY <1>9, <1>20, AppendProperties
  <2>2. Len(fits) + 1 = m /\ Len(fits) = m - 1
    BY <1>9, <1>10, <1>11
  <2>3. QED
    BY <1>19, <2>1, <2>2
<1>22. \A t \in DOMAIN u.lru : Row(f, es, t) = Row(lru, entries, t)
  BY <1>7 DEF Row
<1>23. ASSUME NEW i \in 1..m PROVE Row(f, es, d[i]) = q[i]
  <2>1. CASE i = m
    BY <1>11, <1>20, <1>21, <2>1
  <2>2. CASE i \in 1..m - 1
    BY <1>9, <1>11, <1>12, <1>21, <1>22, <2>2
  <2>3. QED
    BY <1>11, <2>1, <2>2
<1>24. q = [i \in 1..m |-> q[i]]
  BY <1>21
<1>25. InOrder(f, es) = q
  BY <1>18, <1>23, <1>24
<1>26. QED
  BY <1>4, <1>19, <1>25 DEF ByUse

LEMMA ListInit ==
  ASSUME Init
  PROVE  ByUse = << >>
<1>1. DOMAIN lru = {}
  BY DEF Init
<1>2. Cardinality(DOMAIN lru) = 0
  BY <1>1, FS_EmptySet
<1>3. PICK row : ByUse = [i \in 1..0 |-> row[i]]
  <2> DEFINE Nth(i) == CHOOSE t \in DOMAIN lru : Cardinality({s \in DOMAIN lru : s <= t}) = i
  <2>1. ByUse = [i \in 1..0 |-> [key |-> lru[Nth(i)], size |-> entries[lru[Nth(i)]].size]]
    BY Zenon, <1>2 DEF ByUse, InOrder
  <2> HIDE DEF Nth
  <2>2. QED
    BY <2>1
<1>4. QED
  BY <1>3

\* What a call does to the list is what it promises.
LEMMA ListNext ==
  ASSUME IInv, [Next]_vars
  PROVE  [Abstract!Next]_ByUse
<1>1. ASSUME UNCHANGED <<lru, entries>> PROVE UNCHANGED ByUse
  BY <1>1 DEF ByUse
<1>2. ASSUME NEW k \in Keys, Lookup(k) PROVE Abstract!Lookup(k)
  <2>1. k \in Abstract!KeysOf(ByUse) <=> k \in DOMAIN entries
    BY KeysAre, AbstractKeys
  <2>2. CASE k \in DOMAIN entries
    <3>1. ByUse' = Abstract!Touch(ByUse, k)
      BY <1>2, <2>2, HitList, AbstractTouch
    <3>2. QED
      BY <2>1, <2>2, <3>1 DEF Abstract!Lookup
  <2>3. CASE k \notin DOMAIN entries
    <3>1. ByUse' = ByUse
      BY <1>1, <1>2, <2>3, MissStep
    <3>2. QED
      BY <2>1, <2>3, <3>1 DEF Abstract!Lookup
  <2>4. QED
    BY <2>2, <2>3
<1>3. ASSUME NEW k \in Keys, NEW size \in Sizes, Store(k, size) PROVE Abstract!Store(k, size)
  <2>1. Refused(k, size) <=> size > Cap \div 4 \/ k \in KeysOf(ByUse)
    BY KeysAre DEF Refused
  <2>2. ByUse' = Keep(ByUse, k, size, Cap)
    <3>1. CASE Refused(k, size)
      <4>1. ByUse' = ByUse
        BY <1>1, <1>3, <3>1 DEF Store, vars
      <4>2. QED
        BY Zenon, <2>1, <3>1, <4>1 DEF Keep
    <3>2. CASE ~Refused(k, size)
      <4>1. ByUse' = Append(Fit(ByUse, size, Cap), Entry(k, size))
        BY <1>3, <3>2, StoreList
      <4>2. QED
        BY Zenon, <2>1, <3>2, <4>1 DEF Keep
    <3>3. QED
      BY <3>1, <3>2
  <2>3. QED
    BY <2>2, AbstractKeep DEF Abstract!Store
<1>4. CASE UNCHANGED vars
  BY <1>1, <1>4 DEF vars
<1>5. CASE Next
  <2>1. CASE Bound
    BY <1>4, <2>1 DEF Bound
  <2>2. CASE \E k \in Keys : Lookup(k) \/ \E size \in Sizes : Store(k, size)
    BY <1>2, <1>3, <2>2 DEF Abstract!Next
  <2>3. QED
    BY <1>5, <2>1, <2>2 DEF Next
<1>6. QED
  BY <1>4, <1>5

\* The maps implement the list: hits, refusals and evictions are those
\* RecencyCache promises (panel_cache.rs, lookup and store).
THEOREM StoreImplementsRecency == Spec => ImplementsRecency
<1>1. Init => Abstract!Init
  BY ListInit DEF Abstract!Init
<1>2. IInv /\ [Next]_vars => [Abstract!Next]_ByUse
  BY ListNext
<1>3. Spec => []IInv
  BY StoreCorrect
<1>4. QED
  BY <1>1, <1>2, <1>3, PTL DEF Spec, ImplementsRecency, Abstract!Spec
=============================================================================
