----------------------------- MODULE Materialize -----------------------------
(***************************************************************************)
(* Shared results of -- @materialize setup statements (duckext/src/        *)
(* serve.rs, MatStore and run_materialized): a heavy query runs once per   *)
(* key into a table of the snapshot's own catalog, requests copy from it,  *)
(* and at most MAT_CAP of them are kept, least recently used out.  Two     *)
(* mutexes: one for the list of entries, one per entry, held while its     *)
(* table is built.                                                         *)
(***************************************************************************)
EXTENDS Integers, Sequences, FiniteSets

CONSTANTS
  Thread,    \* requests with such a statement
  Key,       \* mat_key: dashboard, statement and what it reads
  Slot,      \* identities of the entries' mutexes (Arcs); bound: how many
  Table,     \* names of tables; fetch_add never hands one out twice; bound: how many
  MatCap,    \* MAT_CAP
  MaxLeft,   \* bound: how many tables failed DROPs leave behind
  None

ASSUME MaterializeAssumption ==
  /\ IsFiniteSet(Thread) /\ MatCap \in Nat \ {0} /\ MaxLeft \in Nat
  /\ Slot \subseteq Nat /\ Table \subseteq Nat
  /\ None \notin Thread \cup Slot \cup Table \cup Key

VARIABLES
  entries,   \* MatStore.entries, most recently used last: [key, slot]
  listed,    \* the entry taken out while `entries' stays locked
  lock,      \* per slot: the thread that holds its mutex
  built,     \* per slot: its table, inside the mutex
  tables,    \* per table name: the key its rows answer, None when dropped
  left,      \* history: the tables that are there because their DROP failed
  mat        \* per thread: where run_materialized is, its key, slot and table

matVars == <<entries, listed, lock, built, tables, left, mat>>

NoMat == [pc |-> "out", key |-> None, slot |-> None, table |-> None]

MatInit ==
  /\ entries = <<>>
  /\ listed = None
  /\ lock = [s \in Slot |-> None]
  /\ built = [s \in Slot |-> None]
  /\ tables = [n \in Table |-> None]
  /\ left = {}
  /\ mat = [t \in Thread |-> NoMat]

Goto(t, pc) == mat' = [mat EXCEPT ![t].pc = pc]
Leave(t) == mat' = [mat EXCEPT ![t] = NoMat]

InUse(s) == \/ \E i \in 1..Len(entries) : entries[i].slot = s
            \/ \E t \in Thread : mat[t].slot = s
            \/ listed = s
Named(n) == \/ tables[n] # None
            \/ \E s \in Slot : built[s] = n
            \/ \E t \in Thread : mat[t].table = n

\* A mutex nobody refers to any more is freed.
Freed(b) == built' = [s \in Slot |-> IF InUse(s)' THEN b[s] ELSE None]

Lowest(S) == CHOOSE x \in S : \A y \in S : x <= y

Entry(k) == {i \in 1..Len(entries) : entries[i].key = k}
RemoveAt(s, i) == SubSeq(s, 1, i - 1) \o SubSeq(s, i + 1, Len(s))

-----------------------------------------------------------------------------
(* MatStore::slot.                                                         *)

\* The entry is there: it is the most recently used one now.
Find(t, k) ==
  /\ mat[t].pc = "out" /\ listed = None
  /\ \E i \in Entry(k) :
       /\ entries' = Append(RemoveAt(entries, i), entries[i])
       /\ mat' = [mat EXCEPT ![t] = [pc |-> "lock", key |-> k,
                                     slot |-> entries[i].slot, table |-> None]]
  /\ UNCHANGED <<listed, lock, built, tables, left>>

\* A new entry; over the cap, the oldest one whose mutex is free is chosen.
Free(es) == {i \in 1..Len(es) : lock[es[i].slot] = None}

Push(t, k) ==
  /\ mat[t].pc = "out" /\ listed = None
  /\ Entry(k) = {}
  /\ \E s \in Slot : ~InUse(s)
  /\ LET s == Lowest({x \in Slot : ~InUse(x)})
         es == Append(entries, [key |-> k, slot |-> s])
         evicts == Len(es) > MatCap /\ Free(es) # {}
     IN /\ mat' = [mat EXCEPT ![t] = [pc |-> IF evicts THEN "evict" ELSE "lock",
                                      key |-> k, slot |-> s, table |-> None]]
        /\ IF evicts
           THEN /\ entries' = RemoveAt(es, Lowest(Free(es)))
                /\ listed' = es[Lowest(Free(es))].slot
           ELSE entries' = es /\ UNCHANGED listed
  /\ UNCHANGED <<lock, built, tables, left>>

\* It is locked again to take its table, with the list still locked: a
\* request may have begun to build it in between.
Evict(t) ==
  /\ mat[t].pc = "evict"
  /\ LET s == listed IN
       /\ lock[s] = None
       /\ built' = [built EXCEPT ![s] = None]  \* take()
       /\ mat' = [mat EXCEPT ![t].pc = IF built[s] = None THEN "lock" ELSE "drop",
                             ![t].table = built[s]]
  /\ listed' = None
  /\ UNCHANGED <<entries, lock, tables, left>>

\* DROP TABLE IF EXISTS on the request's own connection.  Its answer is not
\* looked at: it may fail, by the request's interrupt or for any other reason,
\* and then the table stays.
Drop(t) ==
  LET n == mat[t].table IN
    \/ /\ tables' = [tables EXCEPT ![n] = None]
       /\ left' = left \ {n}
    \/ /\ tables[n] # None /\ Cardinality(left) < MaxLeft
       /\ left' = left \cup {n}
       /\ UNCHANGED tables

DropEvicted(t) ==
  /\ mat[t].pc = "drop"
  /\ Drop(t)
  /\ mat' = [mat EXCEPT ![t].pc = "lock", ![t].table = None]
  /\ UNCHANGED <<entries, listed, lock, built>>

-----------------------------------------------------------------------------
(* run_materialized.                                                       *)

LockSlot(t) ==
  /\ mat[t].pc = "lock"
  /\ lock[mat[t].slot] = None
  /\ lock' = [lock EXCEPT ![mat[t].slot] = t]
  /\ Goto(t, "build")
  /\ UNCHANGED <<entries, listed, built, tables, left>>

\* Superseded, or out of time, while another request builds.
GiveUp(t) ==
  /\ mat[t].pc = "lock"
  /\ Leave(t)
  /\ UNCHANGED <<entries, listed, lock, tables, left>>
  /\ Freed(built)

Unlock(t) == lock' = [lock EXCEPT ![mat[t].slot] = None]

\* The table is there, built by an earlier holder.
Have(t) ==
  /\ mat[t].pc = "build"
  /\ built[mat[t].slot] # None
  /\ mat' = [mat EXCEPT ![t].pc = "copy", ![t].table = built[mat[t].slot]]
  /\ Unlock(t)
  /\ UNCHANGED <<entries, listed, built, tables, left>>

Build(t) ==
  /\ mat[t].pc = "build"
  /\ built[mat[t].slot] = None
  /\ \E n \in Table : ~Named(n)
  /\ LET n == Lowest({x \in Table : ~Named(x)}) IN
       /\ tables' = [tables EXCEPT ![n] = mat[t].key]
       /\ built' = [built EXCEPT ![mat[t].slot] = n]
       /\ mat' = [mat EXCEPT ![t].pc = "copy", ![t].table = n]
  /\ Unlock(t)
  /\ UNCHANGED <<entries, listed, left>>

\* The query fails or is interrupted: no table, the next one tries again.
BuildFails(t) ==
  /\ mat[t].pc = "build"
  /\ built[mat[t].slot] = None
  /\ Unlock(t)
  /\ Leave(t)
  /\ UNCHANGED <<entries, listed, tables, left>>
  /\ Freed(built)

\* Wrong on purpose (Holds): what was built is taken to be kept.
HoldsAlways(s) == TRUE

\* MatStore::holds.
Holds(s) == \E i \in 1..Len(entries) : entries[i].slot = s

\* Copied, or not: the table may be gone by now, then the caller runs the
\* statement as written.  Evicted since: nobody else finds the table.
Copy(t) ==
  /\ mat[t].pc = "copy" /\ listed = None
  /\ IF Holds(mat[t].slot) THEN UNCHANGED <<tables, left>> ELSE Drop(t)
  /\ Leave(t)
  /\ UNCHANGED <<entries, listed, lock>>
  /\ Freed(built)

-----------------------------------------------------------------------------

(* When no request is in run_materialized, the snapshot holds the tables   *)
(* of the entries kept, and beside them only tables whose DROP failed: an  *)
(* evicted entry's table is always asked to go, whoever evicts it while    *)
(* others build or copy it.  No entry points at a table that is gone or    *)
(* was to go.                                                              *)
TablesAccounted ==
  (\A t \in Thread : mat[t] = NoMat) =>
    LET kept == {built[entries[i].slot] : i \in 1..Len(entries)} \ {None} IN
      /\ {n \in Table : tables[n] # None} = kept \cup left
      /\ kept \cap left = {}
=============================================================================
