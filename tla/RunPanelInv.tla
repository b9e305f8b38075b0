----------------------------- MODULE RunPanelInv -----------------------------
(***************************************************************************)
(* The inductive invariants of RunPanel: what a connection holds at each   *)
(* place of run_panel and what an interrupt leaves behind; what the byte   *)
(* counter counts; and who answers for a shared table.                     *)
(***************************************************************************)
EXTENDS RunPanel

Vars == UNION {r.sets : r \in Request}
Conns == [vars : SUBSET Vars, setup : BOOLEAN, pending : BOOLEAN]
Pcs == {"idle", "take"} \cup Registered
Runs == [pc : Pcs, req : Request, conn : Conns, set : SUBSET Vars, more : Int]
Pooled == [key : {r.warm : r \in Request}, conn : Conns, set : SUBSET Vars]

RunTypes ==
  /\ run \in [Thread -> Runs]
  /\ pool \in Seq(Pooled)
  /\ held \in [Thread -> Nat]
  /\ cut \in [Thread -> BOOLEAN]

\* The connection's variables: the last request's until they are set.
VarsOf(r) ==
  /\ r.pc = "reuse" => r.conn.vars = r.set
  /\ r.pc \in {"mat", "query", "grown", "put"} => r.conn.vars = r.req.sets

\* An interrupt that may still hit the connection has spoilt the run.
Struck(t) == run[t].conn.pending => cut[t]

\* What waits in the pool: no interrupt, all of the setup, and the
\* variables of the request it comes from.
Ready(p) == ~p.conn.pending /\ p.conn.setup /\ p.conn.vars = p.set

IInv ==
  /\ RunTypes
  /\ \A t \in Thread : VarsOf(run[t]) /\ Struck(t)
  /\ \A i \in 1..Len(pool) : Ready(pool[i])

-----------------------------------------------------------------------------
(* The bytes.                                                              *)

\* What a request holds beyond what every one may; what it has added and is
\* about to take off again.
Large == [t \in Thread |-> IF held[t] > Free1 THEN held[t] ELSE 0]
Added == [t \in Thread |-> run[t].more]

BytesInv ==
  /\ \A t \in Thread :
       /\ held[t] \in Nat /\ run[t].more \in Nat
       /\ run[t].pc # "grown" => run[t].more = 0
  /\ used = HeldBy(Thread) + SumFunctionOnSet(Added, Thread)
  /\ SumFunctionOnSet(Large, Thread) <= Cap

-----------------------------------------------------------------------------
(* The shared results.                                                     *)

In(t, pc) == mat[t].pc = pc

MatPcs == {"out", "lock", "evict", "drop", "build", "copy"}

Hands == [pc : MatPcs, key : Key \cup {None}, slot : Slot \cup {None},
          table : Table \cup {None}]

\* The tables, but for those that are there because their DROP failed.
There == [n \in Table |-> IF n \in left THEN None ELSE tables[n]]

LeftOK ==
  /\ tables \in [Table -> Key \cup {None}]
  /\ left \in SUBSET Table
  /\ \A n \in left : tables[n] # None

MatTypes ==
  /\ entries \in Seq([key : Key, slot : Slot])
  /\ listed \in Slot \cup {None}
  /\ built \in [Slot -> Table \cup {None}]
  /\ There \in [Table -> Key \cup {None}]
  /\ mat \in [Thread -> Hands]

\* What a request has in hand where it is.
HandOK == \A t \in Thread :
  /\ In(t, "out") => mat[t] = NoMat
  /\ ~In(t, "out") => mat[t].key \in Key /\ mat[t].slot \in Slot
  /\ mat[t].pc \in {"copy", "drop"} <=> mat[t].table # None

\* The mutexes of a list of entries, and whether each has its own.
SlotIn(es, s) == \E i \in 1..Len(es) : es[i].slot = s
Distinct(es) == \A i, j \in 1..Len(es) : es[i].slot = es[j].slot => i = j

\* Every entry has a mutex of its own; the one taken out has one request that
\* will look at it, and the list stays locked until then.
ListOK ==
  /\ Distinct(entries)
  /\ listed # None <=> \E t \in Thread : In(t, "evict")
  /\ \A s, t \in Thread : In(s, "evict") /\ In(t, "evict") => s = t
  /\ listed # None => ~Holds(listed)

\* No two mutexes hold one table; a kept entry's is there; a mutex out of use
\* holds none.
BuiltOK ==
  /\ \A r, s \in Slot : built[r] # None /\ built[r] = built[s] => r = s
  /\ \A s \in Slot : built[s] # None =>
       /\ Holds(s) => There[built[s]] # None
       /\ InUse(s)

\* Whoever may drop a table has it from the entry it came for, or has taken
\* it from one.
DropsOK == \A t \in Thread, s \in Slot : built[s] = mat[t].table /\ built[s] # None =>
  In(t, "copy") /\ s = mat[t].slot

\* Who answers for a table: a kept entry, the one taken out, or a request
\* that will look whether its entry is kept.
Answers(s, n) ==
  /\ built[s] = n
  /\ \/ Holds(s) \/ listed = s
     \/ \E t \in Thread : In(t, "copy") /\ mat[t].slot = s /\ mat[t].table = n

TablesOK == \A n \in Table : There[n] # None =>
  \/ \E s \in Slot : Answers(s, n)
  \/ \E t \in Thread : In(t, "drop") /\ mat[t].table = n

MatInv == MatTypes /\ HandOK /\ ListOK /\ BuiltOK /\ DropsOK /\ TablesOK
=============================================================================
