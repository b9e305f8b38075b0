--------------------------- MODULE RunPanelProofs ---------------------------
(***************************************************************************)
(* Proofs about RunPanel's connections, for any workers, requests and      *)
(* sizes: IInv is inductive, so that a connection waits in the pool like a *)
(* fresh one and a query sees its own request's variables.                 *)
(***************************************************************************)
EXTENDS RunPanelInv, SequenceTheorems, FoldFacts

-----------------------------------------------------------------------------
(* The pool.                                                               *)

LEMMA RunType ==
  ASSUME RunTypes, NEW t \in Thread
  PROVE  /\ run[t] \in Runs /\ run[t].pc \in Pcs /\ run[t].req \in Request
         /\ run[t].conn \in Conns /\ run[t].conn.vars \in SUBSET Vars
         /\ run[t].conn.setup \in BOOLEAN /\ run[t].conn.pending \in BOOLEAN
         /\ run[t].set \in SUBSET Vars /\ run[t].req.sets \in SUBSET Vars
<1>1. run[t] \in Runs
  BY DEF RunTypes
<1>2. run[t].req \in Request /\ run[t].conn \in Conns
  BY <1>1 DEF Runs
<1>3. run[t].req.sets \in SUBSET Vars
  BY <1>2 DEF Vars
<1>4. QED
  BY <1>1, <1>2, <1>3 DEF Runs, Conns

\* Whoever is taken out, the others stay as they are.
LEMMA Removed ==
  ASSUME NEW R, NEW s \in Seq(R), NEW i \in 1..Len(s)
  PROVE  /\ RemoveAt(s, i) \in Seq(R) /\ Len(RemoveAt(s, i)) = Len(s) - 1
         /\ Len(s) \in Nat
         /\ \A j \in 1..(Len(s) - 1) : RemoveAt(s, i)[j] = IF j < i THEN s[j] ELSE s[j + 1]
<1> DEFINE a == SubSeq(s, 1, i - 1)
           b == SubSeq(s, i + 1, Len(s))
<1>1. Len(s) \in Nat /\ \A k \in 1..Len(s) : s[k] \in R
  BY LenProperties, ElementOfSeq
<1>2. a \in Seq(R) /\ Len(a) = i - 1 /\ \A j \in 1..Len(a) : a[j] = s[j]
  BY <1>1, SubSeqProperties
<1>3. /\ b \in Seq(R) /\ Len(b) = Len(s) - i
      /\ \A j \in 1..Len(b) : b[j] = s[i + j]
  BY <1>1, SubSeqProperties
<1>4. /\ a \o b \in Seq(R) /\ Len(a \o b) = Len(a) + Len(b)
      /\ \A j \in 1..Len(a) + Len(b) :
           (a \o b)[j] = IF j <= Len(a) THEN a[j] ELSE b[j - Len(a)]
  BY <1>2, <1>3, ConcatProperties
<1> HIDE DEF a, b
<1>5. ASSUME NEW j \in 1..(Len(s) - 1)
      PROVE  (a \o b)[j] = IF j < i THEN s[j] ELSE s[j + 1]
  <2>1. CASE j < i
    BY <1>1, <1>2, <1>3, <1>4, <2>1
  <2>2. CASE ~(j < i)
    <3>1. j - Len(a) \in 1..Len(b) /\ i + (j - Len(a)) = j + 1
      BY <1>1, <1>2, <1>3, <2>2
    <3>2. j \in 1..Len(a) + Len(b) /\ ~(j <= Len(a))
      BY <1>1, <1>2, <1>3, <2>2
    <3>3. (a \o b)[j] = b[j - Len(a)]
      BY <1>4, <3>2
    <3>4. b[j - Len(a)] = s[i + (j - Len(a))]
      BY <1>3, <3>1
    <3>5. QED
      BY <2>2, <3>1, <3>3, <3>4
  <2>3. QED
    BY <2>1, <2>2
<1>6. RemoveAt(s, i) = a \o b
  BY DEF RemoveAt, a, b
<1>7. Len(a \o b) = Len(s) - 1
  BY <1>1, <1>2, <1>3, <1>4
<1>8. QED
  BY <1>1, <1>4, <1>5, <1>6, <1>7

LEMMA TakenOut ==
  ASSUME NEW s \in Seq(Pooled), NEW i \in 1..Len(s)
  PROVE  /\ RemoveAt(s, i) \in Seq(Pooled)
         /\ \A j \in 1..Len(RemoveAt(s, i)) :
              \E k \in 1..Len(s) : RemoveAt(s, i)[j] = s[k]
<1>1. ASSUME NEW j \in 1..(Len(s) - 1)
      PROVE  \E k \in 1..Len(s) : RemoveAt(s, i)[j] = s[k]
  <2>1. j \in 1..Len(s) /\ j + 1 \in 1..Len(s)
    BY Removed
  <2>2. QED
    BY <2>1, Removed
<1>2. QED
  BY <1>1, Removed

\* The steps of one run concern nobody else's.
LEMMA RunKeeps ==
  ASSUME IInv, NEW t \in Thread,
         run' \in [Thread -> Runs], held' \in [Thread -> Nat],
         cut' \in [Thread -> BOOLEAN],
         \A s \in Thread \ {t} :
           run'[s] = run[s] /\ cut'[s] = cut[s],
         VarsOf(run'[t]), Struck(t)',
         pool' \in Seq(Pooled), \A i \in 1..Len(pool') : Ready(pool'[i])
  PROVE  IInv'
<1>1. RunTypes'
  BY DEF RunTypes
<1>2. ASSUME NEW s \in Thread
      PROVE  VarsOf(run'[s]) /\ Struck(s)'
  BY DEF IInv, Struck
<1>3. QED
  BY <1>1, <1>2 DEF IInv, VarsOf, Ready

\* A run that is over leaves a worker like a new one.
LEMMA EndKeeps ==
  ASSUME IInv, NEW t \in Thread, run' = [run EXCEPT ![t] = NoRun],
         cut' = [cut EXCEPT ![t] = FALSE],
         held' = [held EXCEPT ![t] = 0],
         pool' \in Seq(Pooled), \A i \in 1..Len(pool') : Ready(pool'[i])
  PROVE  IInv'
<1>1. NoRun \in Runs /\ NoRun.pc = "idle" /\ ~NoRun.conn.pending
  BY RunPanelAssumption DEF NoRun, Runs, Pcs, FreshConn, Conns
<1>2. /\ run' \in [Thread -> Runs] /\ run'[t] = NoRun
      /\ cut' \in [Thread -> BOOLEAN]
      /\ held' \in [Thread -> Nat]
      /\ \A s \in Thread \ {t} :
           run'[s] = run[s] /\ cut'[s] = cut[s]
  BY <1>1 DEF IInv, RunTypes
<1>3. VarsOf(run'[t]) /\ Struck(t)'
  BY <1>1, <1>2 DEF VarsOf, Struck
<1>4. QED
  BY <1>2, <1>3, RunKeeps

LEMMA EndStep ==
  ASSUME IInv, NEW t \in Thread, End(t), UNCHANGED pool
  PROVE  IInv'
<1>1. pool' \in Seq(Pooled) /\ \A i \in 1..Len(pool') : Ready(pool'[i])
  BY DEF IInv, RunTypes
<1>2. QED
  BY <1>1, EndKeeps DEF End

\* A run goes on: its new state r is that of a worker at its place.
LEMMA GoOn ==
  ASSUME IInv, NEW t \in Thread, NEW r \in Runs, run' = [run EXCEPT ![t] = r],
         UNCHANGED <<pool, cut>>, held' \in [Thread -> Nat],
         VarsOf(r), r.conn.pending => cut[t]
  PROVE  IInv'
<1>1. /\ run' \in [Thread -> Runs] /\ run'[t] = r
      /\ \A s \in Thread \ {t} : run'[s] = run[s]
  BY DEF IInv, RunTypes
<1>2. Struck(t)'
  BY <1>1 DEF Struck
<1>3. pool' \in Seq(Pooled) /\ \A i \in 1..Len(pool') : Ready(pool'[i])
  BY DEF IInv, RunTypes
<1>4. cut' \in [Thread -> BOOLEAN]
  BY DEF IInv, RunTypes
<1>5. QED
  BY <1>1, <1>2, <1>3, <1>4, RunKeeps

-----------------------------------------------------------------------------
(* The steps.                                                              *)

\* Going to another place with the same connection.
LEMMA StepKeeps ==
  ASSUME IInv, NEW t \in Thread, NEW pc \in Pcs, Step(t, pc),
         UNCHANGED <<pool, cut, held>>,
         pc # "reuse",
         pc \in {"mat", "query", "grown", "put"} =>
           run[t].conn.vars = run[t].req.sets
  PROVE  IInv'
<1> DEFINE r == [run[t] EXCEPT !.pc = pc]
<1>1. /\ r \in Runs /\ r.pc = pc /\ r.conn = run[t].conn /\ r.req = run[t].req
      /\ run' = [run EXCEPT ![t] = r]
  BY RunType DEF IInv, RunTypes, Runs, Step
<1>2. run[t].conn.pending => cut[t]
  BY DEF IInv, Struck
<1>3. held' \in [Thread -> Nat]
  BY DEF IInv, RunTypes
<1> HIDE DEF r
<1>4. QED
  BY <1>1, <1>2, <1>3, GoOn DEF VarsOf

LEMMA ArriveStep ==
  ASSUME IInv, NEW t \in Thread, NEW q \in Request, Arrive(t, q)
  PROVE  IInv'
<1> DEFINE r == [run[t] EXCEPT !.pc = "take", !.req = q]
<1>1. /\ r \in Runs /\ r.pc = "take" /\ r.conn = run[t].conn
      /\ run' = [run EXCEPT ![t] = r]
  BY RunType DEF IInv, RunTypes, Runs, Arrive, Pcs
<1>2. run[t].conn.pending => cut[t]
  BY DEF IInv, Struck
<1>3. held' \in [Thread -> Nat] /\ UNCHANGED <<pool, cut>>
  BY DEF IInv, RunTypes, Arrive
<1> HIDE DEF r
<1>4. QED
  BY <1>1, <1>2, <1>3, GoOn DEF VarsOf

\* A connection out of the pool is like a fresh one, but for its variables.
LEMMA TakeStep ==
  ASSUME IInv, NEW t \in Thread, Take(t)
  PROVE  IInv'
<1> DEFINE k == run[t].req.warm
<1>1. CASE Warm(k) = {}
  <2>1. CASE End(t) /\ UNCHANGED pool
    BY <2>1, EndStep
  <2>2. CASE Step(t, "setup") /\ UNCHANGED <<pool, used, held, cut>>
    BY <2>2, StepKeeps DEF Pcs, Registered, Armed
  <2>3. QED
    BY <1>1, <2>1, <2>2 DEF Take
<1>2. CASE Warm(k) # {}
  <2>1. PICK i \in Newest(k) :
          /\ pool' = RemoveAt(pool, i)
          /\ IF cut[t] THEN End(t)
             ELSE /\ run' = [run EXCEPT ![t].pc = "reuse",
                                        ![t].conn = pool[i].conn,
                                        ![t].set = pool[i].set]
                  /\ UNCHANGED <<used, held, cut>>
    BY <1>2 DEF Take
  <2>0. i \in 1..Len(pool)
    BY DEF Newest, Warm
  <2> DEFINE p == pool[i]
  <2>2. p \in Pooled /\ Ready(p)
    BY <2>0, ElementOfSeq DEF IInv, RunTypes
  <2>3. /\ RemoveAt(pool, i) \in Seq(Pooled)
        /\ \A j \in 1..Len(RemoveAt(pool, i)) : Ready(RemoveAt(pool, i)[j])
    BY <2>0, TakenOut DEF IInv, RunTypes
  <2>4. pool' = RemoveAt(pool, i)
    BY <2>1
  <2>5. CASE End(t)
    BY <2>3, <2>4, <2>5, EndKeeps DEF End
  <2>6. CASE /\ run' = [run EXCEPT ![t].pc = "reuse", ![t].conn = p.conn, ![t].set = p.set]
             /\ UNCHANGED <<used, held, cut>>
    <3> DEFINE r == [run[t] EXCEPT !.pc = "reuse", !.conn = p.conn, !.set = p.set]
    <3>1. p.conn \in Conns /\ p.set \in SUBSET Vars
      BY <2>2 DEF Pooled
    <3>2. /\ r \in Runs /\ r.pc = "reuse" /\ r.conn = p.conn /\ r.set = p.set
          /\ run' = [run EXCEPT ![t] = r]
      BY <2>6, <3>1, RunType DEF IInv, RunTypes, Runs, Pcs, Registered, Armed
    <3> HIDE DEF r
    <3>3. VarsOf(r) /\ ~r.conn.pending
      BY <2>2, <3>2 DEF VarsOf, Ready
    <3>4. /\ run' \in [Thread -> Runs] /\ run'[t] = r
          /\ \A s \in Thread \ {t} : run'[s] = run[s]
      BY <3>2 DEF IInv, RunTypes
    <3>5. VarsOf(run'[t]) /\ Struck(t)'
      BY <3>3, <3>4 DEF Struck
    <3>6. /\ held' \in [Thread -> Nat]
          /\ cut' \in [Thread -> BOOLEAN]
      BY <2>6 DEF IInv, RunTypes
    <3>7. QED
      BY <2>3, <2>4, <2>6, <3>4, <3>5, <3>6, RunKeeps
  <2>7. QED
    BY <2>1, <2>5, <2>6
<1>3. QED
  BY <1>1, <1>2

\* The variables another request set go, its own come.
LEMMA ReuseStep ==
  ASSUME IInv, NEW t \in Thread, Reuse(t)
  PROVE  IInv'
<1>1. UNCHANGED pool /\ run[t].pc = "reuse"
  BY DEF Reuse
<1>2. CASE End(t)
  BY <1>1, <1>2, EndStep
<1>3. ASSUME NEW done \in BOOLEAN, UNCHANGED <<used, held, cut>>,
             run' = [run EXCEPT ![t].pc = "query", ![t].set = {},
                                ![t].conn.vars = SetVars(run[t].conn, run[t].set,
                                                         run[t].req.sets),
                                ![t].conn.setup = done]
      PROVE  IInv'
  <2> DEFINE c == [run[t].conn EXCEPT !.vars = run[t].req.sets, !.setup = done]
             r == [run[t] EXCEPT !.pc = "query", !.set = {}, !.conn = c]
  <2>1. run[t].conn.vars = run[t].set
    BY <1>1 DEF IInv, VarsOf
  <2>2. SetVars(run[t].conn, run[t].set, run[t].req.sets) = run[t].req.sets
    BY <2>1 DEF SetVars
  <2>3. c \in Conns /\ c.vars = run[t].req.sets /\ c.pending = run[t].conn.pending
    BY RunType DEF IInv, Conns
  <2>4. run' = [run EXCEPT ![t].pc = "query", ![t].set = {},
                           ![t].conn.vars = run[t].req.sets,
                           ![t].conn.setup = done]
    BY <1>3, <2>2
  <2>5. run' = [run EXCEPT ![t] = r]
    BY <2>4, RunType DEF IInv, RunTypes, Runs, Conns
  <2>6. r \in Runs /\ r.pc = "query" /\ r.conn = c /\ r.req = run[t].req
    BY <2>3, RunType DEF IInv, Runs, Pcs, Registered, Armed
  <2> HIDE DEF c, r
  <2>7. VarsOf(r) /\ (r.conn.pending => cut[t])
    BY <2>3, <2>6 DEF IInv, Struck, VarsOf
  <2>8. held' \in [Thread -> Nat]
    BY <1>3 DEF IInv, RunTypes
  <2>9. QED
    BY <1>1, <1>3, <2>5, <2>6, <2>7, <2>8, GoOn
<1>4. QED
  BY <1>2, <1>3 DEF Reuse

LEMMA SetupStep ==
  ASSUME IInv, NEW t \in Thread, Setup(t)
  PROVE  IInv'
<1> DEFINE c == [run[t].conn EXCEPT !.vars = run[t].req.sets]
           r == [run[t] EXCEPT !.pc = "mat", !.conn = c]
<1>0. CASE End(t) /\ UNCHANGED pool
  BY <1>0, EndStep
<1>1. SUFFICES ASSUME UNCHANGED <<pool, used, held, cut>>,
                      run' = [run EXCEPT ![t].pc = "mat", ![t].conn.vars = run[t].req.sets]
               PROVE  IInv'
  BY <1>0 DEF Setup
<1>2. c \in Conns /\ c.vars = run[t].req.sets /\ c.pending = run[t].conn.pending
  BY RunType DEF IInv, Conns
<1>3. /\ r \in Runs /\ r.pc = "mat" /\ r.conn = c /\ r.req = run[t].req
      /\ run' = [run EXCEPT ![t] = r]
  BY <1>1, <1>2, RunType DEF IInv, RunTypes, Runs, Pcs, Registered, Armed
<1> HIDE DEF c, r
<1>4. VarsOf(r) /\ (r.conn.pending => cut[t])
  BY <1>2, <1>3 DEF IInv, Struck, VarsOf
<1>5. held' \in [Thread -> Nat]
  BY <1>1 DEF IInv, RunTypes
<1>6. QED
  BY <1>1, <1>3, <1>4, <1>5, GoOn

\* Nothing but the setup's outcome is noted when run_materialized is done.
LEMMA MatEndsStep ==
  ASSUME IInv, NEW t \in Thread, MatEnds(t)
  PROVE  IInv'
<1>1. UNCHANGED pool /\ run[t].pc = "mat"
  BY DEF MatEnds
<1>2. CASE End(t)
  BY <1>1, <1>2, EndStep
<1>3. ASSUME NEW done \in BOOLEAN, UNCHANGED <<used, held, cut>>,
             run' = [run EXCEPT ![t].pc = "query", ![t].conn.setup = done]
      PROVE  IInv'
  <2> DEFINE c == [run[t].conn EXCEPT !.setup = done]
             r == [run[t] EXCEPT !.pc = "query", !.conn = c]
  <2>1. c \in Conns /\ c.vars = run[t].conn.vars /\ c.pending = run[t].conn.pending
    BY RunType DEF IInv, Conns
  <2>2. /\ r \in Runs /\ r.pc = "query" /\ r.conn = c /\ r.req = run[t].req
        /\ run' = [run EXCEPT ![t] = r]
    BY <1>3, <2>1, RunType DEF IInv, RunTypes, Runs, Pcs, Registered, Armed
  <2> HIDE DEF c, r
  <2>3. VarsOf(r) /\ (r.conn.pending => cut[t])
    BY <1>1, <2>1, <2>2 DEF IInv, Struck, VarsOf
  <2>4. held' \in [Thread -> Nat]
    BY <1>3 DEF IInv, RunTypes
  <2>5. QED
    BY <1>1, <1>3, <2>2, <2>3, <2>4, GoOn
<1>4. QED
  BY <1>2, <1>3 DEF MatEnds

LEMMA GrowStep ==
  ASSUME IInv, NEW t \in Thread, NEW bytes \in Sizes, Grow(t, bytes)
  PROVE  IInv'
<1>1. bytes \in Nat /\ held[t] \in Nat
  BY RunPanelAssumption DEF IInv, RunTypes
<1>2. UNCHANGED <<pool, cut>> /\ run[t].pc = "query"
  BY DEF Grow
<1>3. run[t].conn.vars = run[t].req.sets
      /\ (run[t].conn.pending => cut[t])
  BY <1>2 DEF IInv, VarsOf, Struck
<1>4. CASE /\ run' = [run EXCEPT ![t].pc = "grown", ![t].more = bytes - held[t]]
           /\ UNCHANGED held
  <2> DEFINE more == bytes - held[t]
             r == [run[t] EXCEPT !.pc = "grown", !.more = more]
  <2>0. more \in Int
    BY <1>1
  <2> HIDE DEF more
  <2>1. /\ r \in Runs /\ r.pc = "grown" /\ r.conn = run[t].conn
        /\ r.req = run[t].req /\ run' = [run EXCEPT ![t] = r]
    <3>1. run' = [run EXCEPT ![t].pc = "grown", ![t].more = more]
      BY <1>4 DEF more
    <3>2. QED
      BY <2>0, <3>1, RunType DEF IInv, RunTypes, Runs, Pcs, Registered, Armed
  <2>2. held' \in [Thread -> Nat]
    BY <1>4 DEF IInv, RunTypes
  <2> HIDE DEF r
  <2>3. VarsOf(r)
    BY <1>3, <2>1 DEF VarsOf
  <2>4. QED
    BY <1>2, <1>3, <2>1, <2>2, <2>3, GoOn
<1>5. CASE held' = [held EXCEPT ![t] = bytes] /\ UNCHANGED run
  <2>1. held' \in [Thread -> Nat]
    BY <1>1, <1>5 DEF IInv, RunTypes
  <2>2. RunTypes'
    BY <1>2, <1>5, <2>1 DEF IInv, RunTypes
  <2>3. QED
    BY <1>2, <1>5, <2>2 DEF IInv, VarsOf, Struck, Ready
<1>6. QED
  BY <1>4, <1>5 DEF Grow

LEMMA ShrinkStep ==
  ASSUME IInv, NEW t \in Thread, NEW bytes \in Sizes, Shrink(t, bytes)
  PROVE  IInv'
<1>1. /\ bytes \in Nat /\ UNCHANGED <<run, pool, cut>>
      /\ held' = [held EXCEPT ![t] = bytes]
  BY RunPanelAssumption DEF Shrink
<1>2. RunTypes'
  BY <1>1 DEF IInv, RunTypes
<1>3. QED
  BY <1>1, <1>2 DEF IInv, VarsOf, Struck, Ready

LEMMA UndoStep ==
  ASSUME IInv, NEW t \in Thread, Undo(t)
  PROVE  IInv'
<1>1. pool' \in Seq(Pooled) /\ \A i \in 1..Len(pool') : Ready(pool'[i])
  BY DEF IInv, RunTypes, Undo
<1>2. QED
  BY <1>1, EndKeeps DEF Undo

LEMMA QueryStep ==
  ASSUME IInv, NEW t \in Thread, Query(t)
  PROVE  IInv'
<1>1. CASE End(t)
  BY <1>1, EndStep DEF Query
<1>2. CASE Step(t, "put") /\ UNCHANGED <<used, held, cut>>
  <2>1. run[t].conn.vars = run[t].req.sets
    BY DEF IInv, VarsOf, Query
  <2>2. QED
    BY <1>2, <2>1, StepKeeps DEF Query, Pcs, Registered
<1>3. QED
  BY <1>1, <1>2 DEF Query

\* Only a connection no interrupt was sent to goes back.
LEMMA PutStep ==
  ASSUME IInv, NEW t \in Thread, Put(t)
  PROVE  IInv'
<1>1. run[t].pc = "put" /\ End(t)
  BY DEF Put
<1>2. pool \in Seq(Pooled) /\ Len(pool) \in Nat
      /\ \A i \in 1..Len(pool) : Ready(pool[i])
  BY LenProperties DEF IInv, RunTypes
<1>3. CASE pool' = pool
  BY <1>1, <1>3, EndStep
<1>4. CASE Clean(t) /\ pool' = IF Len(Kept(t)) > WarmCap THEN Tail(Kept(t)) ELSE Kept(t)
  <2> DEFINE p == [key |-> run[t].req.warm, conn |-> run[t].conn,
                   set |-> run[t].req.sets]
  <2>1. p \in Pooled
    BY RunType DEF IInv, Pooled
  <2>2. Ready(p)
    BY <1>1, <1>4 DEF IInv, VarsOf, Struck, Clean, Ready
  <2> HIDE DEF p
  <2>3. /\ Kept(t) \in Seq(Pooled) /\ Len(Kept(t)) = Len(pool) + 1
        /\ \A i \in 1..Len(pool) + 1 :
             Kept(t)[i] = IF i <= Len(pool) THEN pool[i] ELSE p
    BY <1>2, <2>1, AppendProperties DEF Kept, p
  <2>4. \A i \in 1..Len(Kept(t)) : Ready(Kept(t)[i])
    BY <1>2, <2>2, <2>3
  <2>5. Kept(t) # <<>>
    BY <1>2, <2>3, EmptySeq
  <2>6. /\ Tail(Kept(t)) \in Seq(Pooled) /\ Len(Tail(Kept(t))) = Len(pool)
        /\ \A i \in 1..Len(pool) : Tail(Kept(t))[i] = Kept(t)[i + 1]
    BY <1>2, <2>3, <2>5, HeadTailProperties
  <2>7. \A i \in 1..Len(Tail(Kept(t))) : Ready(Tail(Kept(t))[i])
    BY <1>2, <2>3, <2>4, <2>6
  <2>8. pool' \in Seq(Pooled) /\ \A i \in 1..Len(pool') : Ready(pool'[i])
    BY <1>4, <2>3, <2>4, <2>6, <2>7
  <2>9. QED
    BY <1>1, <2>8, EndKeeps DEF End
<1>5. QED
  BY <1>3, <1>4 DEF Put

\* An interrupt: the run it hits is not clean any more.
LEMMA StrikeStep ==
  ASSUME IInv, NEW t \in Thread, Abandon(t) \/ Fire(t)
  PROVE  IInv'
<1>1. PICK p \in BOOLEAN : run' = [run EXCEPT ![t].conn.pending = p]
  <2>1. CASE Abandon(t)
    <3>1. (run[t].conn.pending \/ run[t].pc \in Registered) \in BOOLEAN
      OBVIOUS
    <3>2. QED
      BY <2>1, <3>1 DEF Abandon
  <2>2. CASE Fire(t)
    BY <2>2 DEF Fire
  <2>3. QED
    BY <2>1, <2>2
<1> DEFINE c == [run[t].conn EXCEPT !.pending = p]
           r == [run[t] EXCEPT !.conn = c]
<1>2. c \in Conns /\ c.vars = run[t].conn.vars
  BY RunType DEF IInv, Conns
<1>3. /\ r \in Runs /\ r.pc = run[t].pc /\ r.req = run[t].req /\ r.set = run[t].set
      /\ r.conn = c /\ run' = [run EXCEPT ![t] = r]
  BY <1>1, <1>2, RunType DEF IInv, RunTypes, Runs
<1> HIDE DEF c, r
<1>4. /\ run' \in [Thread -> Runs] /\ run'[t] = r
      /\ \A s \in Thread \ {t} : run'[s] = run[s]
  BY <1>3 DEF IInv, RunTypes
<1>5. VarsOf(run'[t])
  BY <1>2, <1>3, <1>4 DEF IInv, VarsOf
<1>6. /\ cut' \in [Thread -> BOOLEAN]
      /\ cut'[t]
      /\ \A s \in Thread \ {t} : cut'[s] = cut[s]
  BY DEF IInv, RunTypes, Abandon, Fire
<1>7. /\ held' \in [Thread -> Nat] /\ pool' \in Seq(Pooled)
      /\ \A i \in 1..Len(pool') : Ready(pool'[i])
  BY DEF IInv, RunTypes, Abandon, Fire
<1>8. Struck(t)'
  BY <1>6 DEF Struck
<1>9. QED
  BY <1>4, <1>5, <1>6, <1>7, <1>8, RunKeeps

-----------------------------------------------------------------------------

LEMMA RunPanelInit ==
  ASSUME Init
  PROVE  IInv
<1>1. NoRun \in Runs /\ NoRun.pc = "idle" /\ ~NoRun.conn.pending
  BY RunPanelAssumption DEF NoRun, Runs, Pcs, FreshConn, Conns
<1>2. <<>> \in Seq(Pooled) /\ Len(<<>>) = 0
  BY EmptySeq
<1>3. RunTypes
  BY <1>1, <1>2 DEF Init, RunTypes
<1>4. \A t \in Thread : run[t] = NoRun
  BY DEF Init
<1>5. \A t \in Thread : VarsOf(run[t]) /\ Struck(t)
  BY <1>1, <1>4 DEF VarsOf, Struck
<1>6. \A i \in 1..Len(pool) : Ready(pool[i])
  BY <1>2 DEF Init
<1>7. QED
  BY <1>3, <1>5, <1>6 DEF IInv

LEMMA RunPanelStep ==
  ASSUME IInv, [Next]_vars
  PROVE  IInv'
<1>1. ASSUME UNCHANGED runVars
      PROVE  IInv'
  <2>1. UNCHANGED <<run, pool, held, cut>>
    BY <1>1 DEF runVars
  <2>2. RunTypes'
    BY <2>1 DEF IInv, RunTypes
  <2>3. QED
    BY <2>1, <2>2 DEF IInv, VarsOf, Struck, Ready
<1>2. CASE UNCHANGED vars
  BY <1>1, <1>2 DEF vars
<1>3. ASSUME NEW t \in Thread, NEW q \in Request, Arrive(t, q)
      PROVE  IInv'
  BY <1>3, ArriveStep
<1>4. ASSUME NEW t \in Thread, Take(t) \/ Reuse(t) \/ Setup(t) \/ MatEnds(t)
      PROVE  IInv'
  BY <1>4, TakeStep, ReuseStep, SetupStep, MatEndsStep
<1>5. ASSUME NEW t \in Thread, Mat(t)
      PROVE  IInv'
  BY <1>1, <1>5 DEF Mat
<1>6. ASSUME NEW t \in Thread, NEW bytes \in Sizes, Grow(t, bytes) \/ Shrink(t, bytes)
      PROVE  IInv'
  BY <1>6, GrowStep, ShrinkStep
<1>7. ASSUME NEW t \in Thread,
             Undo(t) \/ Query(t) \/ Put(t) \/ Abandon(t) \/ Fire(t)
      PROVE  IInv'
  BY <1>7, UndoStep, QueryStep, PutStep, StrikeStep
<1>8. QED
  BY <1>2, <1>3, <1>4, <1>5, <1>6, <1>7 DEF Next

\* The inductive invariant of the connections.
THEOREM ConnectionsCorrect == Spec => []IInv
<1>1. Init => IInv
  BY RunPanelInit
<1>2. IInv /\ [Next]_vars => IInv'
  BY RunPanelStep
<1>3. QED
  BY <1>1, <1>2, PTL DEF Spec

\* A connection in the pool has no interrupt pending and all of its setup
\* (run_panel's put after Registered::drop and a clean run).
THEOREM PoolCleanHolds == Spec => []PoolClean
<1>1. IInv => PoolClean
  BY DEF IInv, Ready, PoolClean
<1>2. QED
  BY <1>1, ConnectionsCorrect, PTL

\* A query sees exactly its own request's variables, also on a connection
\* another request has used (run_panel's RESETs).
THEOREM OwnVariablesHolds == Spec => []OwnVariables
<1>1. IInv => OwnVariables
  BY DEF IInv, VarsOf, OwnVariables
<1>2. QED
  BY <1>1, ConnectionsCorrect, PTL

-----------------------------------------------------------------------------
(* The bytes.                                                              *)

LEMMA BytesTypes ==
  ASSUME BytesInv
  PROVE  /\ IsFiniteSet(Thread) /\ Cap \in Nat /\ Free1 \in Nat
         /\ \A t \in Thread : held[t] \in Int /\ Added[t] \in Nat /\ Large[t] \in Nat
         /\ \A t \in Thread : Large[t] <= held[t] /\ held[t] <= Large[t] + Free1
         /\ HeldBy(Thread) \in Int
         /\ SumFunctionOnSet(Added, Thread) \in Nat
         /\ SumFunctionOnSet(Large, Thread) \in Int
         /\ used \in Int
<1>1. /\ IsFiniteSet(Thread) /\ Cap \in Nat /\ Free1 \in Nat
      /\ \A t \in Thread : held[t] \in Int /\ Added[t] \in Nat /\ Large[t] \in Nat
      /\ \A t \in Thread : Large[t] <= held[t] /\ held[t] <= Large[t] + Free1
  BY MaterializeAssumption, RunPanelAssumption DEF BytesInv, Added, Large
<1>2. \A t \in Thread : Large[t] \in Int
  BY <1>1
<1>3. SumFunctionOnSet(held, Thread) \in Int
  BY <1>1, SumInt
<1>4. SumFunctionOnSet(Added, Thread) \in Nat
  BY <1>1, SumNat
<1>5. SumFunctionOnSet(Large, Thread) \in Int
  BY <1>1, <1>2, SumInt
<1>6. used \in Int
  BY <1>3, <1>4 DEF BytesInv, HeldBy
<1>7. QED
  BY <1>1, <1>3, <1>4, <1>5, <1>6 DEF HeldBy

\* The bytes are nobody's business outside Charge::hold and its drop.
LEMMA BytesFrame ==
  ASSUME BytesInv, UNCHANGED <<used, held>>,
         \A t \in Thread :
           /\ run'[t].more = run[t].more
           /\ run'[t].pc # "grown" => run[t].pc # "grown"
  PROVE  BytesInv'
<1>1. Added' = Added /\ Large' = Large /\ HeldBy(Thread)' = HeldBy(Thread)
  BY DEF Added, Large, HeldBy
<1>2. QED
  BY <1>1 DEF BytesInv

\* One request holds `bytes' from now on, and has `more' to take off.
LEMMA BytesChange ==
  ASSUME IInv, BytesInv, NEW t \in Thread, NEW bytes \in Nat, NEW more \in Nat,
         held'[t] = bytes, \A s \in Thread \ {t} : held'[s] = held[s],
         run'[t].more = more, run'[t].pc # "grown" => more = 0,
         \A s \in Thread \ {t} : run'[s] = run[s],
         used' = used - held[t] + bytes - run[t].more + more,
         bytes > Free1 => bytes <= held[t] \/ used' <= Cap
  PROVE  BytesInv'
<1>0. /\ IsFiniteSet(Thread) /\ Cap \in Nat /\ Free1 \in Nat
      /\ \A s \in Thread : held[s] \in Int /\ Added[s] \in Nat /\ Large[s] \in Nat
      /\ HeldBy(Thread) \in Int /\ SumFunctionOnSet(Added, Thread) \in Nat
      /\ SumFunctionOnSet(Large, Thread) \in Int /\ used \in Int
  BY BytesTypes
<1>1. \A s \in Thread : held'[s] \in Nat /\ held'[s] \in Int
  BY DEF IInv, RunTypes
<1>2. /\ Added[t] = run[t].more /\ Added'[t] = more
      /\ Large'[t] = IF bytes > Free1 THEN bytes ELSE 0
      /\ \A s \in Thread \ {t} : Added'[s] = Added[s] /\ Large'[s] = Large[s]
  BY <1>1 DEF Added, Large
<1>3. /\ \A s \in Thread :
           /\ held'[s] \in Nat /\ run'[s].more \in Nat
           /\ run'[s].pc # "grown" => run'[s].more = 0
      /\ \A s \in Thread : Added'[s] \in Nat /\ Large'[s] \in Nat /\ Large'[s] <= held'[s]
  BY <1>1, <1>0 DEF BytesInv, Added, Large
<1> IsFiniteSet(Thread)
  BY <1>0
<1>4. HeldBy(Thread)' = HeldBy(Thread) - held[t] + bytes
  <2>1. OneChanges(Thread, held, held', t)
    BY <1>0, <1>1 DEF OneChanges
  <2>2. SumFunctionOnSet(held', Thread) = SumFunctionOnSet(held, Thread) - held[t] + held'[t]
    BY <2>1, SumChange
  <2>3. QED
    BY <1>1, <2>2 DEF HeldBy
<1>5. /\ \A s \in Thread : Added[s] \in Int /\ Added'[s] \in Int
      /\ \A s \in Thread : Large[s] \in Int /\ Large'[s] \in Int
  BY <1>0, <1>3
<1>6. SumFunctionOnSet(Added, Thread)' = SumFunctionOnSet(Added, Thread) - run[t].more + more
  <2>1. OneChanges(Thread, Added, Added', t)
    BY <1>0, <1>2, <1>5 DEF OneChanges
  <2>2. SumFunctionOnSet(Added', Thread) = SumFunctionOnSet(Added, Thread) - Added[t] + Added'[t]
    BY <2>1, SumChange
  <2>3. QED
    BY <1>2, <2>2
<1>7. SumFunctionOnSet(Large, Thread)' = SumFunctionOnSet(Large, Thread) - Large[t] + Large'[t]
  <2>1. OneChanges(Thread, Large, Large', t)
    BY <1>0, <1>2, <1>5 DEF OneChanges
  <2>2. SumFunctionOnSet(Large', Thread) = SumFunctionOnSet(Large, Thread) - Large[t] + Large'[t]
    BY <2>1, SumChange
  <2>3. QED
    BY <2>2
<1>8. used = HeldBy(Thread) + SumFunctionOnSet(Added, Thread) /\ run[t].more \in Nat
  BY DEF BytesInv
<1>9. used' = HeldBy(Thread)' + SumFunctionOnSet(Added, Thread)'
  BY <1>0, <1>1, <1>4, <1>6, <1>8
<1>10. SumFunctionOnSet(Large, Thread)' <= Cap
  <2>1. CASE ~(bytes > Free1)
    <3>1. Large'[t] = 0 /\ Large[t] \in Nat /\ SumFunctionOnSet(Large, Thread) \in Int /\ Cap \in Nat
      BY <1>0, <1>2, <2>1
    <3>2. SumFunctionOnSet(Large, Thread) <= Cap
      BY DEF BytesInv
    <3>3. QED
      BY <1>7, <3>1, <3>2
  <2>2. CASE bytes > Free1 /\ bytes <= held[t]
    <3>1. /\ Large'[t] <= Large[t] /\ Large[t] \in Nat /\ Large'[t] \in Nat
          /\ SumFunctionOnSet(Large, Thread) \in Int /\ Cap \in Nat
      <4>1. held[t] \in Int /\ Free1 \in Nat /\ held[t] > Free1
        BY <1>0, <2>2
      <4>2. Large[t] = held[t] /\ Large'[t] = bytes
        BY <1>2, <2>2, <4>1 DEF Large
      <4>3. QED
        BY <1>0, <2>2, <4>2
    <3>2. SumFunctionOnSet(Large, Thread) <= Cap
      BY DEF BytesInv
    <3>3. QED
      BY <1>7, <3>1, <3>2
  <2>3. CASE bytes > Free1 /\ used' <= Cap
    <3>0. 0 \in Int
      OBVIOUS
    <3>1. \A s \in Thread : Large'[s] \in Int /\ held'[s] \in Int /\ Large'[s] <= held'[s] + 0
      BY <1>1, <1>3, <1>5
    <3>2. SumFunctionOnSet(Large', Thread) <= SumFunctionOnSet(held', Thread) + Cardinality(Thread) * 0
      BY Zenon, <1>0, <3>1, <3>0, SumBelow
    <3>3. SumFunctionOnSet(Added', Thread) \in Nat
      BY <1>3, <1>0, SumNat
    <3>4. /\ SumFunctionOnSet(held', Thread) \in Int /\ SumFunctionOnSet(Large', Thread) \in Int
          /\ Cardinality(Thread) * 0 = 0 /\ Cap \in Nat
      <4>1. Cardinality(Thread) \in Nat
        BY <1>0, FS_CardinalityType
      <4>2. SumFunctionOnSet(held', Thread) \in Int
        BY Zenon, <1>0, <1>1, SumInt
      <4>3. SumFunctionOnSet(Large', Thread) \in Int
        BY Zenon, <1>0, <1>5, SumInt
      <4>4. QED
        BY <1>0, <4>1, <4>2, <4>3
    <3>5. used' = SumFunctionOnSet(held', Thread) + SumFunctionOnSet(Added', Thread)
      BY <1>9 DEF HeldBy
    <3>6. SumFunctionOnSet(Large', Thread) <= Cap
      BY <2>3, <3>2, <3>3, <3>4, <3>5
    <3>7. QED
      BY <3>6
  <2>4. QED
    BY <2>1, <2>2, <2>3
<1>11. QED
  BY <1>3, <1>9, <1>10 DEF BytesInv

LEMMA BytesEnd ==
  ASSUME IInv, BytesInv, NEW t \in Thread, End(t), run[t].pc # "grown"
  PROVE  BytesInv'
<1>1. /\ held'[t] = 0 /\ \A s \in Thread \ {t} : held'[s] = held[s]
      /\ run'[t].more = 0 /\ \A s \in Thread \ {t} : run'[s] = run[s]
  BY DEF End, IInv, RunTypes, NoRun
<1>2. run[t].more = 0 /\ held[t] \in Nat /\ used \in Int
  BY BytesTypes DEF BytesInv
<1>3. used' = used - held[t] + 0 - run[t].more + 0
  BY <1>2 DEF End
<1>4. 0 \in Nat /\ ~(0 > Free1)
  BY RunPanelAssumption
<1>5. QED
  BY Zenon, <1>1, <1>3, <1>4, BytesChange

LEMMA GrowBytes ==
  ASSUME IInv, BytesInv, NEW t \in Thread, NEW bytes \in Sizes, Grow(t, bytes)
  PROVE  BytesInv'
<1> DEFINE more == bytes - held[t]
<1>1. /\ bytes \in Nat /\ held[t] \in Nat /\ more \in Nat /\ used \in Int
      /\ run[t].more = 0 /\ Free1 \in Nat /\ Cap \in Nat
  BY RunPanelAssumption, BytesTypes DEF BytesInv, Grow
<1>2. CASE ~TooMuch(bytes, used + more)
  <2>1. held' = [held EXCEPT ![t] = bytes] /\ UNCHANGED run /\ used' = used + more
    BY <1>2 DEF Grow
  <2>2. bytes > Free1 => used' <= Cap
    BY <1>1, <1>2, <2>1 DEF TooMuch
  <2>3. used' = used - held[t] + bytes - run[t].more + 0
    BY <1>1, <2>1
  <2>4. /\ run'[t].more = 0 /\ 0 \in Nat
        /\ held'[t] = bytes /\ \A s \in Thread \ {t} : held'[s] = held[s]
        /\ \A s \in Thread \ {t} : run'[s] = run[s]
    BY <1>1, <2>1 DEF IInv, RunTypes
  <2>5. QED
    BY Zenon, <1>1, <2>2, <2>3, <2>4, BytesChange
<1>3. CASE TooMuch(bytes, used + more)
  <2>1. /\ run' = [run EXCEPT ![t].pc = "grown", ![t].more = more]
        /\ UNCHANGED held /\ used' = used + more
    BY <1>3 DEF Grow
  <2> HIDE DEF more
  <2>2. /\ run'[t].more = more /\ run'[t].pc = "grown"
        /\ \A s \in Thread \ {t} : run'[s] = run[s]
    BY <2>1, RunType DEF IInv, RunTypes, Runs
  <2>3. used' = used - held[t] + held[t] - run[t].more + more
    BY <1>1, <2>1
  <2>4. more \in Nat /\ held'[t] = held[t] /\ held[t] <= held[t]
        /\ \A s \in Thread \ {t} : held'[s] = held[s]
    BY <1>1, <2>1
  <2>5. QED
    BY Zenon, <1>1, <2>2, <2>3, <2>4, BytesChange
<1>4. QED
  BY <1>2, <1>3

\* Less is held from now on, and the counter says so.
LEMMA ShrinkBytes ==
  ASSUME IInv, BytesInv, NEW t \in Thread, NEW bytes \in Sizes, Shrink(t, bytes)
  PROVE  BytesInv'
<1>1. /\ bytes \in Nat /\ held[t] \in Nat /\ used \in Int /\ bytes <= held[t]
      /\ run[t].more = 0
  BY RunPanelAssumption, BytesTypes DEF BytesInv, Shrink
<1>2. /\ held' = [held EXCEPT ![t] = bytes] /\ UNCHANGED run
      /\ used' = used - (held[t] - bytes)
  BY DEF Shrink
<1>3. used' = used - held[t] + bytes - run[t].more + 0
  BY <1>1, <1>2
<1>4. /\ run'[t].more = 0 /\ 0 \in Nat
      /\ held'[t] = bytes /\ \A s \in Thread \ {t} : held'[s] = held[s]
      /\ \A s \in Thread \ {t} : run'[s] = run[s]
  BY <1>1, <1>2 DEF IInv, RunTypes
<1>5. QED
  BY Zenon, <1>1, <1>3, <1>4, BytesChange

LEMMA UndoBytes ==
  ASSUME IInv, BytesInv, NEW t \in Thread, Undo(t)
  PROVE  BytesInv'
<1>1. /\ held'[t] = 0 /\ \A s \in Thread \ {t} : held'[s] = held[s]
      /\ run'[t].more = 0 /\ \A s \in Thread \ {t} : run'[s] = run[s]
  BY DEF Undo, IInv, RunTypes, NoRun
<1>2. run[t].more \in Nat /\ held[t] \in Nat /\ used \in Int /\ Free1 \in Nat
  BY BytesTypes, RunPanelAssumption DEF BytesInv
<1>3. used' = used - held[t] + 0 - run[t].more + 0
  BY <1>2 DEF Undo
<1>4. 0 \in Nat /\ ~(0 > Free1)
  BY <1>2
<1>5. QED
  BY Zenon, <1>1, <1>3, <1>4, BytesChange

LEMMA BytesStep ==
  ASSUME IInv, BytesInv, [Next]_vars
  PROVE  BytesInv'
<1>1. ASSUME UNCHANGED <<run, used, held>> PROVE BytesInv'
  BY <1>1, BytesFrame
<1>2. CASE UNCHANGED vars
  BY <1>1, <1>2 DEF vars, runVars
<1>3. ASSUME NEW t \in Thread, NEW r, run' = [run EXCEPT ![t] = r],
             UNCHANGED <<used, held>>,
             r.more = run[t].more, r.pc # "grown" => run[t].pc # "grown"
      PROVE  BytesInv'
  BY <1>3, BytesFrame DEF IInv, RunTypes
<1>4. ASSUME NEW t \in Thread, NEW r \in Request, Arrive(t, r) PROVE BytesInv'
  <2>1. run' = [run EXCEPT ![t] = [run[t] EXCEPT !.pc = "take", !.req = r]]
    BY <1>4, RunType DEF Arrive, IInv, RunTypes
  <2>2. QED
    BY <1>3, <1>4, <2>1, RunType DEF Arrive, IInv, Runs
<1>5. ASSUME NEW t \in Thread, NEW pc, Step(t, pc), UNCHANGED <<used, held>>,
             run[t].pc # "grown"
      PROVE  BytesInv'
  <2>1. run' = [run EXCEPT ![t] = [run[t] EXCEPT !.pc = pc]]
    BY <1>5, RunType DEF Step, IInv, RunTypes
  <2>2. QED
    BY <1>3, <1>5, <2>1, RunType DEF IInv, Runs
<1>6. ASSUME NEW t \in Thread, Take(t) PROVE BytesInv'
  <2>1. CASE End(t)
    BY <1>6, <2>1, BytesEnd DEF Take
  <2>2. CASE Step(t, "setup") /\ UNCHANGED <<used, held>>
    BY <1>5, <1>6, <2>2 DEF Take
  <2>3. ASSUME NEW c, NEW s, UNCHANGED <<used, held>>,
               run' = [run EXCEPT ![t].pc = "reuse", ![t].conn = c, ![t].set = s]
        PROVE  BytesInv'
    <3>1. run' = [run EXCEPT ![t] = [run[t] EXCEPT !.pc = "reuse", !.conn = c, !.set = s]]
      BY <2>3, RunType DEF IInv, RunTypes
    <3>2. QED
      BY <1>3, <1>6, <2>3, <3>1, RunType DEF Take, IInv, Runs
  <2>4. QED
    BY <1>6, <2>1, <2>2, <2>3 DEF Take
<1>7. ASSUME NEW t \in Thread, Reuse(t) PROVE BytesInv'
  <2>1. CASE End(t)
    BY <1>7, <2>1, BytesEnd DEF Reuse
  <2>2. ASSUME NEW done, NEW v, UNCHANGED <<used, held>>,
               run' = [run EXCEPT ![t].pc = "query", ![t].set = {},
                                  ![t].conn.vars = v, ![t].conn.setup = done]
        PROVE  BytesInv'
    <3>1. run' = [run EXCEPT ![t] = [run[t] EXCEPT !.pc = "query", !.set = {},
                    !.conn = [run[t].conn EXCEPT !.vars = v, !.setup = done]]]
      BY <2>2, RunType DEF IInv, RunTypes, Runs, Conns
    <3>2. QED
      BY <1>3, <1>7, <2>2, <3>1, RunType DEF Reuse, IInv, Runs
  <2>3. QED
    BY <1>7, <2>1, <2>2 DEF Reuse
<1>8. ASSUME NEW t \in Thread, Setup(t) PROVE BytesInv'
  <2>0. CASE End(t)
    BY <1>8, <2>0, BytesEnd DEF Setup
  <2> SUFFICES ASSUME UNCHANGED <<used, held>>,
                 run' = [run EXCEPT ![t].pc = "mat", ![t].conn.vars = run[t].req.sets]
      PROVE BytesInv'
    BY <1>8, <2>0 DEF Setup
  <2>1. run' = [run EXCEPT ![t] = [run[t] EXCEPT !.pc = "mat",
                  !.conn = [run[t].conn EXCEPT !.vars = run[t].req.sets]]]
    BY <1>8, RunType DEF Setup, IInv, RunTypes, Runs, Conns
  <2>2. QED
    BY <1>3, <1>8, <2>1, RunType DEF Setup, IInv, Runs
<1>9. ASSUME NEW t \in Thread, MatEnds(t) PROVE BytesInv'
  <2>1. CASE End(t)
    BY <1>9, <2>1, BytesEnd DEF MatEnds
  <2>2. ASSUME NEW done, UNCHANGED <<used, held>>,
               run' = [run EXCEPT ![t].pc = "query", ![t].conn.setup = done]
        PROVE  BytesInv'
    <3>1. run' = [run EXCEPT ![t] = [run[t] EXCEPT !.pc = "query",
                    !.conn = [run[t].conn EXCEPT !.setup = done]]]
      BY <2>2, RunType DEF IInv, RunTypes, Runs, Conns
    <3>2. QED
      BY <1>3, <1>9, <2>2, <3>1, RunType DEF MatEnds, IInv, Runs
  <2>3. QED
    BY <1>9, <2>1, <2>2 DEF MatEnds
<1>10. ASSUME NEW t \in Thread, Query(t) PROVE BytesInv'
  <2>1. CASE End(t)
    BY <1>10, <2>1, BytesEnd DEF Query
  <2>2. QED
    BY <1>5, <1>10, <2>1 DEF Query
<1>11. ASSUME NEW t \in Thread, Put(t) PROVE BytesInv'
  BY <1>11, BytesEnd DEF Put
<1>12. ASSUME NEW t \in Thread, Abandon(t) \/ Fire(t) PROVE BytesInv'
  <2>1. PICK p : run' = [run EXCEPT ![t].conn.pending = p] /\ UNCHANGED <<used, held>>
    <3>1. CASE Abandon(t)
      BY <3>1 DEF Abandon
    <3>2. CASE Fire(t)
      BY <3>2 DEF Fire
    <3>3. QED
      BY <1>12, <3>1, <3>2
  <2>2. run' = [run EXCEPT ![t] = [run[t] EXCEPT !.conn = [run[t].conn EXCEPT !.pending = p]]]
    BY <2>1, RunType DEF IInv, RunTypes, Runs, Conns
  <2>3. QED
    BY <1>3, <2>1, <2>2, RunType DEF IInv, Runs
<1>13. ASSUME NEW t \in Thread, Mat(t) PROVE BytesInv'
  BY <1>1, <1>13 DEF Mat, runVars
<1>14. QED
  BY <1>2, <1>4, <1>6, <1>7, <1>8, <1>9, <1>10, <1>11, <1>12, <1>13,
     GrowBytes, ShrinkBytes, UndoBytes DEF Next

LEMMA BytesInit ==
  ASSUME Init
  PROVE  BytesInv
<1>1. \A t \in Thread : held[t] = 0 /\ run[t].more = 0
  BY DEF Init, NoRun
<1>2. \A t \in Thread : Added[t] = 0 /\ Large[t] = 0 /\ held[t] = 0
  BY <1>1, RunPanelAssumption DEF Added, Large
<1>3. ASSUME NEW f, \A t \in Thread : f[t] = 0
      PROVE  SumFunctionOnSet(f, Thread) = 0
  BY <1>3, SumZero, MaterializeAssumption
<1>4. QED
  BY <1>1, <1>2, <1>3, RunPanelAssumption DEF BytesInv, Init, HeldBy

\* What the byte counter counts, in every reachable state.
THEOREM BytesCounted == Spec => []BytesInv
<1>1. Init => BytesInv
  BY BytesInit
<1>2. IInv /\ BytesInv /\ [Next]_vars => BytesInv'
  BY BytesStep
<1>3. QED
  BY <1>1, <1>2, ConnectionsCorrect, PTL DEF Spec

\* The requests hold at most the cap and a free allowance for each, and the
\* counter says at least what they hold (Charge::hold, limits.rs:15).
THEOREM BytesBoundedHolds == Spec => []BytesBounded
<1>1. ASSUME BytesInv PROVE BytesBounded
  <2>1. HeldBy(Thread) <= SumFunctionOnSet(Large, Thread) + Cardinality(Thread) * Free1
    <3>1. \A t \in Thread : held[t] \in Int /\ Large[t] \in Int /\ held[t] <= Large[t] + Free1
      BY <1>1, BytesTypes
    <3>2. IsFiniteSet(Thread) /\ Free1 \in Int
      BY <1>1, BytesTypes
    <3>3. SumFunctionOnSet(held, Thread)
            <= SumFunctionOnSet(Large, Thread) + Cardinality(Thread) * Free1
      BY Zenon, <3>1, <3>2, SumBelow
    <3>4. QED
      BY <3>3 DEF HeldBy
  <2>2. Cardinality(Thread) * Free1 \in Int
    <3>1. Cardinality(Thread) \in Nat /\ Free1 \in Nat
      BY <1>1, BytesTypes, FS_CardinalityType
    <3>2. QED
      BY <3>1
  <2>3. /\ used = HeldBy(Thread) + SumFunctionOnSet(Added, Thread)
        /\ SumFunctionOnSet(Large, Thread) <= Cap
    BY <1>1 DEF BytesInv
  <2> DEFINE product == Cardinality(Thread) * Free1
  <2>4. /\ HeldBy(Thread) \in Int /\ SumFunctionOnSet(Added, Thread) \in Nat
        /\ SumFunctionOnSet(Large, Thread) \in Int /\ Cap \in Nat
    BY <1>1, BytesTypes
  <2>5. product \in Int /\ HeldBy(Thread) <= SumFunctionOnSet(Large, Thread) + product
    BY <2>1, <2>2
  <2> HIDE DEF product
  <2>6. HeldBy(Thread) <= Cap + product /\ HeldBy(Thread) <= used
    BY <2>3, <2>4, <2>5
  <2>7. QED
    BY <2>6 DEF BytesBounded, product
<1>2. QED
  BY <1>1, BytesCounted, PTL

-----------------------------------------------------------------------------
(* The shared results: lists of entries.                                   *)

LEMMA LowestIn ==
  ASSUME NEW S \in SUBSET Nat, S # {}
  PROVE  Lowest(S) \in S
<1>1. PICK n \in S : \A m \in S : ~(<<m, n>> \in OpToRel(<, Nat))
  BY Zenon, NatLessThanWellFounded, WFMin
<1>2. \A m \in S : ~(m < n)
  BY <1>1 DEF OpToRel
<1>3. \A m \in S : n <= m
  BY <1>2
<1>4. QED
  BY <1>3 DEF Lowest

\* The list without one entry.
LEMMA ListWithout ==
  ASSUME NEW es \in Seq([key : Key, slot : Slot]), Distinct(es), NEW i \in 1..Len(es)
  PROVE  /\ RemoveAt(es, i) \in Seq([key : Key, slot : Slot])
         /\ Distinct(RemoveAt(es, i))
         /\ \A s : SlotIn(RemoveAt(es, i), s) <=> SlotIn(es, s) /\ s # es[i].slot
<1> DEFINE r == RemoveAt(es, i)
           from(j) == IF j < i THEN j ELSE j + 1
<1>1. /\ r \in Seq([key : Key, slot : Slot]) /\ Len(r) = Len(es) - 1 /\ Len(es) \in Nat
      /\ \A j \in 1..Len(r) : r[j] = IF j < i THEN es[j] ELSE es[j + 1]
  BY Removed
<1> HIDE DEF r
<1>2. \A j \in 1..Len(r) : from(j) \in 1..Len(es) /\ from(j) # i /\ r[j] = es[from(j)]
  BY <1>1
<1>3. \A j, k \in 1..Len(r) : from(j) = from(k) => j = k
  BY <1>1
<1>4. \A k \in 1..Len(es) : k # i => \E j \in 1..Len(r) : from(j) = k
  <2>1. TAKE k \in 1..Len(es)
  <2>2. HAVE k # i
  <2>3. CASE k < i
    <3>1. k \in 1..Len(r) /\ from(k) = k
      BY <1>1, <2>3
    <3>2. QED
      BY <3>1
  <2>4. CASE ~(k < i)
    <3>1. k - 1 \in 1..Len(r) /\ from(k - 1) = k
      BY <1>1, <2>2, <2>4
    <3>2. QED
      BY <3>1
  <2>5. QED
    BY <2>3, <2>4
<1> HIDE DEF from
<1>5. Distinct(r)
  BY <1>2, <1>3 DEF Distinct
<1>6. ASSUME NEW s PROVE SlotIn(r, s) <=> SlotIn(es, s) /\ s # es[i].slot
  <2>1. ASSUME SlotIn(r, s) PROVE SlotIn(es, s) /\ s # es[i].slot
    <3>1. PICK j \in 1..Len(r) : r[j].slot = s
      BY <2>1 DEF SlotIn
    <3>2. from(j) \in 1..Len(es) /\ from(j) # i /\ es[from(j)].slot = s
      BY <1>2, <3>1
    <3>3. QED
      BY <3>2 DEF SlotIn, Distinct
  <2>2. ASSUME SlotIn(es, s), s # es[i].slot PROVE SlotIn(r, s)
    <3>1. PICK k \in 1..Len(es) : es[k].slot = s
      BY <2>2 DEF SlotIn
    <3>2. PICK j \in 1..Len(r) : from(j) = k
      BY <1>4, <2>2, <3>1
    <3>3. r[j].slot = s
      BY <1>2, <3>1, <3>2
    <3>4. QED
      BY <3>3 DEF SlotIn
  <2>3. QED
    BY <2>1, <2>2
<1>7. QED
  BY <1>1, <1>5, <1>6 DEF r

\* The list with one entry more.
LEMMA ListWith ==
  ASSUME NEW es \in Seq([key : Key, slot : Slot]), Distinct(es),
         NEW e \in [key : Key, slot : Slot], ~SlotIn(es, e.slot)
  PROVE  /\ Append(es, e) \in Seq([key : Key, slot : Slot])
         /\ Distinct(Append(es, e)) /\ Len(Append(es, e)) = Len(es) + 1
         /\ \A s : SlotIn(Append(es, e), s) <=> SlotIn(es, s) \/ s = e.slot
<1> DEFINE r == Append(es, e)
<1>1. /\ r \in Seq([key : Key, slot : Slot]) /\ Len(r) = Len(es) + 1 /\ Len(es) \in Nat
      /\ \A j \in 1..Len(es) + 1 : r[j] = IF j <= Len(es) THEN es[j] ELSE e
  BY AppendProperties, LenProperties
<1> HIDE DEF r
<1>2. /\ \A j \in 1..Len(es) : j \in 1..Len(r) /\ r[j] = es[j]
      /\ Len(r) \in 1..Len(r) /\ r[Len(r)] = e
      /\ \A j \in 1..Len(r) : j \in 1..Len(es) \/ j = Len(r)
  BY <1>1
<1>3. Distinct(r)
  BY <1>2 DEF Distinct, SlotIn
<1>4. \A s : SlotIn(r, s) <=> SlotIn(es, s) \/ s = e.slot
  BY <1>2 DEF SlotIn
<1>5. QED
  BY <1>1, <1>3, <1>4 DEF r

-----------------------------------------------------------------------------
(* The shared results: the steps.                                          *)

LEMMA ThereKept ==
  ASSUME UNCHANGED <<tables, left>>
  PROVE  UNCHANGED There
BY DEF There

\* Whether the DROP succeeds or fails, its table does not count any more.
LEMMA ThereDropped ==
  ASSUME LeftOK, NEW t \in Thread, mat[t].table \in Table, Drop(t)
  PROVE  /\ There' \in [Table -> Key \cup {None}] /\ There'[mat[t].table] = None
         /\ \A n \in Table : n # mat[t].table => There'[n] = There[n]
         /\ LeftOK'
<1> DEFINE n == mat[t].table
<1>1. CASE tables' = [tables EXCEPT ![n] = None] /\ left' = left \ {n}
  <2>1. /\ tables' \in [Table -> Key \cup {None}] /\ tables'[n] = None
        /\ \A k \in Table : k # n => tables'[k] = tables[k]
    BY <1>1 DEF LeftOK
  <2> HIDE DEF n
  <2>2. LeftOK'
    BY <1>1, <2>1 DEF LeftOK
  <2>3. QED
    BY <1>1, <2>1, <2>2 DEF There, n
<1>2. CASE tables[n] # None /\ left' = left \cup {n} /\ UNCHANGED tables
  BY <1>2 DEF LeftOK, There
<1>3. QED
  BY <1>1, <1>2 DEF Drop

LEMMA InUseIs ==
  \A s : InUse(s) <=> Holds(s) \/ listed = s \/ \E t \in Thread : mat[t].slot = s
BY DEF InUse, Holds

LEMMA MatMove ==
  ASSUME MatInv, NEW t \in Thread, NEW r \in Hands, mat' = [mat EXCEPT ![t] = r]
  PROVE  /\ mat' \in [Thread -> Hands] /\ mat'[t] = r
         /\ \A u \in Thread \ {t} : mat'[u] = mat[u]
BY DEF MatInv, MatTypes

LEMMA HandIs ==
  ASSUME MatInv, NEW t \in Thread
  PROVE  /\ mat[t] \in Hands /\ mat[t].pc \in MatPcs
         /\ mat[t] = [pc |-> mat[t].pc, key |-> mat[t].key, slot |-> mat[t].slot,
                      table |-> mat[t].table]
         /\ NoMat \in Hands /\ NoMat.pc = "out" /\ NoMat.slot = None /\ NoMat.table = None
         /\ ~In(t, "out") => mat[t].key \in Key /\ mat[t].slot \in Slot
         /\ mat[t].pc \in {"copy", "drop"} => mat[t].table \in Table
         /\ mat[t].pc \notin {"copy", "drop"} => mat[t].table = None
<1>1. mat[t] \in Hands
  BY DEF MatInv, MatTypes
<1>2. NoMat \in Hands /\ NoMat.pc = "out" /\ NoMat.slot = None /\ NoMat.table = None
  BY DEF NoMat, Hands, MatPcs
<1>3. QED
  BY <1>1, <1>2 DEF MatInv, HandOK, Hands

\* One request moves on with the entry it has; nothing else changes.
LEMMA HandStep ==
  ASSUME MatInv, NEW t \in Thread, NEW pc \in MatPcs, NEW n \in Table \cup {None},
         mat' = [mat EXCEPT ![t] = [mat[t] EXCEPT !.pc = pc, !.table = n]],
         UNCHANGED <<entries, listed, built, There>>,
         mat[t].pc \in {"lock", "build"}, pc \in {"lock", "build", "copy"},
         pc # "copy" => n = None,
         pc = "copy" => n # None /\ built[mat[t].slot] = n
  PROVE  MatInv'
<1> DEFINE r == [mat[t] EXCEPT !.pc = pc, !.table = n]
<1>1. r \in Hands /\ r.pc = pc /\ r.table = n /\ r.slot = mat[t].slot /\ r.key = mat[t].key
  BY HandIs DEF Hands
<1>2. /\ mat' \in [Thread -> Hands] /\ mat'[t] = r
      /\ \A u \in Thread \ {t} : mat'[u] = mat[u]
  BY <1>1, MatMove
<1> HIDE DEF r
<1>3. /\ mat[t].key \in Key /\ mat[t].slot \in Slot /\ mat[t].table = None
      /\ mat'[t].pc = pc /\ mat'[t].table = n
      /\ mat'[t].slot = mat[t].slot /\ mat'[t].key = mat[t].key
  BY <1>1, <1>2, HandIs DEF In
<1>4. MatTypes' /\ \A s : Holds(s)' <=> Holds(s)
  BY <1>2 DEF MatInv, MatTypes, Holds
<1>5. HandOK'
  BY <1>2, <1>3 DEF MatInv, HandOK, In
<1>6. \A u \in Thread : In(u, "evict")' <=> In(u, "evict")
  BY <1>2, <1>3 DEF In
<1>7. ListOK'
  BY <1>4, <1>6 DEF MatInv, ListOK, Distinct
<1>8. \A s : InUse(s)' <=> InUse(s)
  BY <1>2, <1>3, <1>4 DEF InUse, Holds
<1>9. BuiltOK'
  BY <1>4, <1>8 DEF MatInv, BuiltOK
<1>10. DropsOK'
  BY <1>2, <1>3 DEF MatInv, MatTypes, DropsOK, BuiltOK, In
<1>11. ASSUME NEW k \in Table, There'[k] # None
       PROVE  \/ \E s \in Slot : Answers(s, k)'
              \/ \E u \in Thread : In(u, "drop")' /\ mat'[u].table = k
  <2>1. CASE \E s \in Slot : Answers(s, k)
    <3>1. PICK s \in Slot : Answers(s, k)
      BY <2>1
    <3>2. Answers(s, k)'
      BY <1>2, <1>3, <1>4, <3>1 DEF Answers, In
    <3>3. QED
      BY <3>2
  <2>2. CASE \E u \in Thread : In(u, "drop") /\ mat[u].table = k
    BY <1>2, <1>3, <2>2 DEF In
  <2>3. QED
    BY <1>11, <2>1, <2>2 DEF MatInv, TablesOK
<1>12. QED
  BY <1>4, <1>5, <1>7, <1>9, <1>10, <1>11 DEF MatInv, TablesOK

LEMMA LockSlotStep ==
  ASSUME MatInv, NEW t \in Thread, LockSlot(t)
  PROVE  MatInv'
<1>1. mat[t].table = None /\ In(t, "lock")
  BY HandIs DEF LockSlot, In
<1>2. mat' = [mat EXCEPT ![t] = [mat[t] EXCEPT !.pc = "build", !.table = None]]
  <2>1. mat' = [mat EXCEPT ![t] = [mat[t] EXCEPT !.pc = "build"]]
    BY DEF LockSlot, Goto
  <2>2. [mat[t] EXCEPT !.pc = "build"] = [mat[t] EXCEPT !.pc = "build", !.table = None]
    BY <1>1, HandIs DEF Hands
  <2>3. QED
    BY <2>1, <2>2
<1>3. QED
  BY <1>1, <1>2, HandStep, ThereKept DEF LockSlot, In, MatPcs

LEMMA HaveStep ==
  ASSUME MatInv, NEW t \in Thread, Have(t)
  PROVE  MatInv'
<1>1. In(t, "build") /\ mat[t].slot \in Slot /\ built[mat[t].slot] \in Table
  BY HandIs DEF MatInv, MatTypes, Have, In
<1>2. mat' = [mat EXCEPT ![t] = [mat[t] EXCEPT !.pc = "copy", !.table = built[mat[t].slot]]]
  BY HandIs DEF MatInv, MatTypes, Have, Hands
<1>3. QED
  BY <1>1, <1>2, HandStep, ThereKept, MaterializeAssumption DEF Have, In, MatPcs

\* A request is done with its entry, and takes along the table it drops.
LEMMA LeaveStep ==
  ASSUME MatInv, NEW t \in Thread, mat[t].pc \in {"lock", "build", "copy"}, Leave(t),
         UNCHANGED <<entries, listed>>, Freed(built),
         There' \in [Table -> Key \cup {None}],
         \A n \in Table : There'[n] # None => There[n] # None,
         \A n \in Table : There[n] # None /\ There'[n] = None =>
           In(t, "copy") /\ n = mat[t].table /\ ~Holds(mat[t].slot),
         In(t, "copy") /\ ~Holds(mat[t].slot) => There'[mat[t].table] = None
  PROVE  MatInv'
<1>1. /\ mat' \in [Thread -> Hands] /\ mat'[t] = NoMat
      /\ \A u \in Thread \ {t} : mat'[u] = mat[u]
  BY HandIs, MatMove DEF Leave
<1>2. NoMat.pc = "out" /\ NoMat.slot = None /\ NoMat.table = None
  BY HandIs
<1>3. /\ built' \in [Slot -> Table \cup {None}]
      /\ \A s \in Slot : built'[s] = IF InUse(s)' THEN built[s] ELSE None
  BY DEF Freed, MatInv, MatTypes
<1>4. MatTypes' /\ \A s : Holds(s)' <=> Holds(s)
  BY <1>1, <1>3 DEF MatInv, MatTypes, Holds
<1>5. HandOK'
  BY <1>1, <1>2 DEF MatInv, HandOK, In
<1>6. \A u \in Thread : In(u, "evict")' <=> In(u, "evict")
  BY <1>1, <1>2 DEF In
<1>7. ListOK'
  BY <1>4, <1>6 DEF MatInv, ListOK, Distinct
<1>8. \A s \in Slot : Holds(s)' \/ listed' = s => InUse(s)'
  BY DEF InUse, Holds
<1>9. BuiltOK'
  <2>1. \A r, s \in Slot : built'[r] # None /\ built'[r] = built'[s] => r = s
    BY <1>3 DEF MatInv, BuiltOK
  <2>2. ASSUME NEW s \in Slot, built'[s] # None PROVE InUse(s)'
    BY <1>3, <2>2
  <2>3. ASSUME NEW s \in Slot, built'[s] # None, Holds(s)' PROVE There'[built'[s]] # None
    <3>1. built'[s] = built[s] /\ built[s] \in Table /\ Holds(s)
      BY <1>3, <1>4, <2>3 DEF MatInv, MatTypes
    <3>2. There[built[s]] # None
      BY <2>3, <3>1 DEF MatInv, BuiltOK
    <3>3. built[s] = mat[t].table => s = mat[t].slot
      BY <2>3, <3>1 DEF MatInv, DropsOK
    <3>4. QED
      BY <3>1, <3>2, <3>3
  <2>4. QED
    BY <2>1, <2>2, <2>3 DEF BuiltOK
<1>10. DropsOK'
  BY <1>1, <1>2, <1>3 DEF MatInv, DropsOK, In
<1>11. ASSUME NEW k \in Table, There'[k] # None
       PROVE  \/ \E s \in Slot : Answers(s, k)'
              \/ \E u \in Thread : In(u, "drop")' /\ mat'[u].table = k
  <2>1. CASE \E s \in Slot : Answers(s, k)
    <3>1. PICK s \in Slot : Answers(s, k)
      BY <2>1
    <3>2. CASE Holds(s) \/ listed = s
      <4>1. built'[s] = k
        BY <1>3, <1>4, <1>8, <3>1, <3>2 DEF Answers
      <4>2. Answers(s, k)'
        BY <1>4, <3>2, <4>1 DEF Answers
      <4>3. QED
        BY <4>2
    <3>3. CASE ~(Holds(s) \/ listed = s)
      <4>1. PICK u \in Thread : In(u, "copy") /\ mat[u].slot = s /\ mat[u].table = k
        BY <3>1, <3>3 DEF Answers
      <4>2. u # t
        BY <1>11, <3>3, <4>1
      <4>3. mat'[u] = mat[u] /\ InUse(s)'
        BY <1>1, <4>1, <4>2 DEF InUse
      <4>4. Answers(s, k)'
        BY <1>3, <3>1, <4>1, <4>3 DEF Answers, In
      <4>5. QED
        BY <4>4
    <3>4. QED
      BY <3>2, <3>3
  <2>2. CASE \E u \in Thread : In(u, "drop") /\ mat[u].table = k
    BY <1>1, <2>2 DEF In
  <2>3. QED
    BY <1>11, <2>1, <2>2 DEF MatInv, TablesOK
<1>12. QED
  BY <1>4, <1>5, <1>7, <1>9, <1>10, <1>11 DEF MatInv, TablesOK

LEMMA GoneStep ==
  ASSUME MatInv, NEW t \in Thread, GiveUp(t) \/ BuildFails(t)
  PROVE  MatInv'
<1>1. /\ mat[t].pc \in {"lock", "build"} /\ Leave(t) /\ Freed(built)
      /\ UNCHANGED <<entries, listed, There>>
  BY ThereKept DEF GiveUp, BuildFails
<1>2. There' \in [Table -> Key \cup {None}] /\ ~In(t, "copy")
  BY <1>1 DEF MatInv, MatTypes, In
<1>3. QED
  BY <1>1, <1>2, LeaveStep

LEMMA CopyStep ==
  ASSUME MatInv, LeftOK, NEW t \in Thread, Copy(t)
  PROVE  MatInv'
<1>1. /\ In(t, "copy") /\ Leave(t) /\ Freed(built) /\ UNCHANGED <<entries, listed>>
      /\ mat[t].table \in Table /\ There \in [Table -> Key \cup {None}]
  BY HandIs DEF Copy, In, MatInv, MatTypes
<1>2. CASE Holds(mat[t].slot)
  <2>1. UNCHANGED There
    BY <1>2, ThereKept DEF Copy
  <2>2. QED
    BY <1>1, <1>2, <2>1, LeaveStep DEF In
<1>3. CASE ~Holds(mat[t].slot)
  <2>1. /\ There' \in [Table -> Key \cup {None}] /\ There'[mat[t].table] = None
        /\ \A n \in Table : n # mat[t].table => There'[n] = There[n]
    BY <1>1, <1>3, ThereDropped DEF Copy
  <2>2. /\ \A n \in Table : There'[n] # None => There[n] # None
        /\ \A n \in Table : There[n] # None /\ There'[n] = None => n = mat[t].table
    BY <2>1
  <2>3. QED
    BY <1>1, <1>3, <2>1, <2>2, LeaveStep DEF In
<1>4. QED
  BY <1>2, <1>3

\* A request comes in, with the entry it found or a new one.
LEMMA EnterStep ==
  ASSUME MatInv, NEW t \in Thread, In(t, "out"), listed = None,
         NEW k \in Key, NEW s \in Slot, NEW pc \in {"lock", "evict"},
         mat' = [mat EXCEPT ![t] = [pc |-> pc, key |-> k, slot |-> s, table |-> None]],
         UNCHANGED <<built, There>>,
         entries' \in Seq([key : Key, slot : Slot]), Distinct(entries'),
         listed' \in Slot \cup {None}, listed' # None <=> pc = "evict",
         listed' # None => ~Holds(listed)',
         \A r \in Slot : Holds(r) => Holds(r)' \/ listed' = r,
         \A r \in Slot : Holds(r)' => Holds(r) \/ built[r] = None
  PROVE  MatInv'
<1> DEFINE hand == [pc |-> pc, key |-> k, slot |-> s, table |-> None]
<1>1. /\ hand \in Hands /\ hand.pc = pc /\ hand.key = k /\ hand.slot = s
      /\ hand.table = None
  BY DEF Hands, MatPcs
<1>2. /\ mat' \in [Thread -> Hands] /\ mat'[t] = hand
      /\ \A u \in Thread \ {t} : mat'[u] = mat[u]
  BY <1>1, MatMove
<1> HIDE DEF hand
<1>3. /\ mat'[t].pc = pc /\ mat'[t].key = k /\ mat'[t].slot = s /\ mat'[t].table = None
      /\ mat[t].pc = "out" /\ mat[t].slot = None
  BY <1>1, <1>2, HandIs DEF In, MatInv, HandOK
<1>4. MatTypes'
  BY <1>2 DEF MatInv, MatTypes
<1>5. HandOK'
  BY <1>2, <1>3 DEF MatInv, HandOK, In
<1>6. ListOK'
  BY <1>2, <1>3 DEF MatInv, ListOK, In
<1>7. \A r \in Slot : InUse(r) => InUse(r)'
  <2>1. ASSUME NEW r \in Slot, NEW u \in Thread, mat[u].slot = r
        PROVE  mat'[u].slot = r
    BY <1>2, <1>3, <2>1, MaterializeAssumption
  <2>2. QED
    BY <2>1, MaterializeAssumption, InUseIs, InUseIs' DEF InUse, Holds
<1>8. BuiltOK'
  BY <1>7 DEF MatInv, BuiltOK
<1>9. DropsOK'
  BY <1>2, <1>3 DEF MatInv, DropsOK, In
<1>10. ASSUME NEW n \in Table, There'[n] # None
       PROVE  \/ \E r \in Slot : Answers(r, n)'
              \/ \E u \in Thread : In(u, "drop")' /\ mat'[u].table = n
  <2>1. CASE \E r \in Slot : Answers(r, n)
    <3>1. PICK r \in Slot : Answers(r, n)
      BY <2>1
    <3>2. listed # r
      BY MaterializeAssumption
    <3>3. Answers(r, n)'
      BY <1>2, <1>3, <3>1, <3>2 DEF Answers, In
    <3>4. QED
      BY <3>3
  <2>2. CASE \E u \in Thread : In(u, "drop") /\ mat[u].table = n
    BY <1>2, <1>3, <2>2 DEF In
  <2>3. QED
    BY <1>10, <2>1, <2>2 DEF MatInv, TablesOK
<1>11. QED
  BY <1>4, <1>5, <1>6, <1>8, <1>9, <1>10 DEF MatInv, TablesOK

LEMMA FindStep ==
  ASSUME MatInv, NEW t \in Thread, NEW k \in Key, Find(t, k)
  PROVE  MatInv'
<1>1. In(t, "out") /\ listed = None /\ UNCHANGED <<listed, built, There>>
  BY ThereKept DEF Find, In
<1>2. PICK i \in Entry(k) :
        /\ entries' = Append(RemoveAt(entries, i), entries[i])
        /\ mat' = [mat EXCEPT ![t] = [pc |-> "lock", key |-> k,
                                      slot |-> entries[i].slot, table |-> None]]
  BY DEF Find
<1>3. /\ entries \in Seq([key : Key, slot : Slot]) /\ Distinct(entries)
      /\ i \in 1..Len(entries) /\ entries[i] \in [key : Key, slot : Slot]
  <2>1. /\ entries \in Seq([key : Key, slot : Slot]) /\ Distinct(entries)
        /\ i \in 1..Len(entries)
    BY DEF MatInv, MatTypes, ListOK, Entry
  <2>2. QED
    BY <2>1, ElementOfSeq
<1> DEFINE r == RemoveAt(entries, i)
<1>4. /\ r \in Seq([key : Key, slot : Slot]) /\ Distinct(r)
      /\ \A s : SlotIn(r, s) <=> SlotIn(entries, s) /\ s # entries[i].slot
  BY <1>3, ListWithout
<1> HIDE DEF r
<1>5. /\ entries' \in Seq([key : Key, slot : Slot]) /\ Distinct(entries')
      /\ \A s : SlotIn(entries', s) <=> SlotIn(r, s) \/ s = entries[i].slot
  BY <1>2, <1>3, <1>4, ListWith DEF r
<1>6. \A s : Holds(s)' <=> Holds(s)
  BY <1>3, <1>4, <1>5 DEF SlotIn, Holds
<1>7. entries[i].slot \in Slot
  BY <1>3
<1>8. QED
  BY <1>1, <1>2, <1>5, <1>6, <1>7, EnterStep

LEMMA PushStep ==
  ASSUME MatInv, NEW t \in Thread, NEW k \in Key, Push(t, k)
  PROVE  MatInv'
<1> DEFINE s == Lowest({x \in Slot : ~InUse(x)})
           e == [key |-> k, slot |-> s]
           es == Append(entries, e)
           evicts == Len(es) > MatCap /\ Free(es) # {}
           low == Lowest(Free(es))
<1>1. In(t, "out") /\ listed = None /\ UNCHANGED <<built, There>>
  BY ThereKept DEF Push, In
<1>2. mat' = [mat EXCEPT ![t] = [pc |-> IF evicts THEN "evict" ELSE "lock",
                                key |-> k, slot |-> s, table |-> None]]
  BY DEF Push
<1>3. /\ evicts => entries' = RemoveAt(es, low) /\ listed' = es[low].slot
      /\ ~evicts => entries' = es /\ listed' = listed
  BY DEF Push
<1>4. s \in Slot /\ ~InUse(s)
  <2>1. {x \in Slot : ~InUse(x)} \in SUBSET Nat /\ {x \in Slot : ~InUse(x)} # {}
    BY MaterializeAssumption DEF Push
  <2>2. s \in {x \in Slot : ~InUse(x)}
    BY <2>1, LowestIn
  <2>3. QED
    BY <2>2
<1> HIDE DEF s
<1>5. ~Holds(s) /\ built[s] = None
  BY <1>4 DEF MatInv, BuiltOK, InUse, Holds
<1>6. /\ entries \in Seq([key : Key, slot : Slot]) /\ Distinct(entries)
      /\ e \in [key : Key, slot : Slot] /\ e.slot = s /\ ~SlotIn(entries, s)
  BY <1>4, <1>5 DEF MatInv, MatTypes, ListOK, SlotIn, Holds
<1> HIDE DEF e
<1>7. /\ es \in Seq([key : Key, slot : Slot]) /\ Distinct(es)
      /\ \A r : SlotIn(es, r) <=> SlotIn(entries, r) \/ r = s
  BY <1>6, ListWith
<1> HIDE DEF es
<1>8. CASE ~evicts
  <2>1. \A r : Holds(r)' <=> Holds(r) \/ r = s
    BY <1>3, <1>7, <1>8 DEF SlotIn, Holds
  <2>2. mat' = [mat EXCEPT ![t] = [pc |-> "lock", key |-> k, slot |-> s, table |-> None]]
    BY <1>2, <1>8
  <2>3. QED
    BY <1>1, <1>3, <1>4, <1>5, <1>7, <1>8, <2>1, <2>2, EnterStep
<1>9. CASE evicts
  <2>1. low \in 1..Len(es)
    <3>1. Free(es) \in SUBSET Nat /\ Free(es) # {} /\ Free(es) \subseteq 1..Len(es)
      BY <1>9 DEF Free
    <3>2. QED
      BY <3>1, LowestIn
  <2> HIDE DEF low
  <2> DEFINE rest == RemoveAt(es, low)
  <2>a. /\ rest \in Seq([key : Key, slot : Slot]) /\ Distinct(rest)
        /\ \A r : SlotIn(rest, r) <=> SlotIn(es, r) /\ r # es[low].slot
    BY <1>7, <2>1, ListWithout
  <2>b. es[low] \in [key : Key, slot : Slot]
    BY <1>7, <2>1, ElementOfSeq
  <2>c. entries' = rest /\ listed' = es[low].slot
    BY <1>3, <1>9
  <2> HIDE DEF rest
  <2>2. entries' \in Seq([key : Key, slot : Slot]) /\ Distinct(entries')
    BY <2>a, <2>c
  <2>3. /\ listed' \in Slot
        /\ \A r : Holds(r)' <=> (Holds(r) \/ r = s) /\ r # listed'
    <3>1. \A r : SlotIn(rest, r) <=> (SlotIn(entries, r) \/ r = s) /\ r # listed'
      BY <1>7, <2>a, <2>c
    <3>2. \A r : Holds(r)' <=> SlotIn(rest, r)
      BY <2>c DEF SlotIn, Holds
    <3>3. \A r : Holds(r) <=> SlotIn(entries, r)
      BY DEF SlotIn, Holds
    <3>4. QED
      BY <2>b, <2>c, <3>1, <3>2, <3>3
  <2>4. mat' = [mat EXCEPT ![t] = [pc |-> "evict", key |-> k, slot |-> s, table |-> None]]
    BY <1>2, <1>9
  <2>5. QED
    BY <1>1, <1>4, <1>5, <2>2, <2>3, <2>4, EnterStep, MaterializeAssumption
<1>10. QED
  BY <1>8, <1>9

LEMMA EvictStep ==
  ASSUME MatInv, NEW t \in Thread, Evict(t)
  PROVE  MatInv'
<1> DEFINE pc == IF built[listed] = None THEN "lock" ELSE "drop"
           hand == [mat[t] EXCEPT !.pc = pc, !.table = built[listed]]
<1>1. /\ In(t, "evict") /\ listed \in Slot /\ ~Holds(listed)
      /\ \A u \in Thread : In(u, "evict") => u = t
  BY MaterializeAssumption DEF MatInv, MatTypes, ListOK, Evict, In
<1>2. /\ built' \in [Slot -> Table \cup {None}] /\ built'[listed] = None
      /\ \A s \in Slot : s # listed => built'[s] = built[s]
  BY <1>1 DEF MatInv, MatTypes, Evict
<1>3. /\ hand \in Hands /\ hand.pc = pc /\ hand.table = built[listed]
      /\ hand.slot = mat[t].slot /\ hand.key = mat[t].key
  BY <1>1, HandIs DEF MatInv, MatTypes, Hands, MatPcs
<1>4. mat' = [mat EXCEPT ![t] = hand]
  BY HandIs DEF MatInv, MatTypes, Evict
<1> HIDE DEF hand
<1>5. /\ mat' \in [Thread -> Hands] /\ mat'[t] = hand
      /\ \A u \in Thread \ {t} : mat'[u] = mat[u]
  BY <1>3, <1>4, MatMove
<1>6. /\ mat[t].key \in Key /\ mat[t].slot \in Slot
      /\ mat'[t].pc = pc /\ mat'[t].table = built[listed]
      /\ mat'[t].slot = mat[t].slot /\ mat'[t].key = mat[t].key
  BY <1>1, <1>3, <1>5, HandIs DEF In
<1>7. listed' = None /\ UNCHANGED <<entries, There>>
  BY ThereKept DEF Evict
<1>8. MatTypes' /\ \A s : Holds(s)' <=> Holds(s)
  BY <1>2, <1>5, <1>7 DEF MatInv, MatTypes, Holds
<1>9. HandOK'
  BY <1>5, <1>6 DEF MatInv, HandOK, In
<1>10. ListOK'
  <2>1. \A u \in Thread : ~In(u, "evict")'
    BY <1>1, <1>5, <1>6 DEF In
  <2>2. QED
    BY <1>7, <1>8, <2>1 DEF MatInv, ListOK, Distinct
<1>11. BuiltOK'
  <2>1. \A s \in Slot : InUse(s) /\ s # listed => InUse(s)'
    BY <1>5, <1>6, <1>7, <1>8 DEF InUse, Holds
  <2>2. QED
    BY <1>2, <1>7, <1>8, <2>1 DEF MatInv, BuiltOK
<1>12. DropsOK'
  <2>1. ASSUME NEW s \in Slot, built'[s] # None PROVE s # listed /\ built'[s] = built[s]
    BY <1>2, <2>1
  <2>2. ASSUME NEW s \in Slot, built'[s] # None, built'[s] = mat'[t].table PROVE FALSE
    BY <1>1, <1>6, <2>1, <2>2 DEF MatInv, BuiltOK
  <2>3. ASSUME NEW u \in Thread \ {t}, NEW s \in Slot, built'[s] # None,
               built'[s] = mat'[u].table
        PROVE  In(u, "copy")' /\ s = mat'[u].slot
    BY <1>5, <2>1, <2>3 DEF MatInv, DropsOK, In
  <2>4. QED
    BY <2>2, <2>3 DEF DropsOK
<1>13. ASSUME NEW n \in Table, There'[n] # None
       PROVE  \/ \E s \in Slot : Answers(s, n)'
              \/ \E u \in Thread : In(u, "drop")' /\ mat'[u].table = n
  <2>1. CASE \E s \in Slot : Answers(s, n)
    <3>1. PICK s \in Slot : Answers(s, n)
      BY <2>1
    <3>2. CASE s = listed
      <4>1. built[listed] = n /\ n # None
        BY <3>1, <3>2, MaterializeAssumption DEF Answers
      <4>2. In(t, "drop")' /\ mat'[t].table = n
        BY <1>6, <4>1 DEF In
      <4>3. QED
        BY <4>2
    <3>3. CASE s # listed
      <4>1. built'[s] = n
        BY <1>2, <3>1, <3>3 DEF Answers
      <4>2. Answers(s, n)'
        BY <1>1, <1>5, <1>6, <1>8, <3>1, <3>3, <4>1 DEF Answers, In
      <4>3. QED
        BY <4>2
    <3>4. QED
      BY <3>2, <3>3
  <2>2. CASE \E u \in Thread : In(u, "drop") /\ mat[u].table = n
    BY <1>1, <1>5, <2>2 DEF In
  <2>3. QED
    BY <1>7, <1>13, <2>1, <2>2 DEF MatInv, TablesOK
<1>14. QED
  BY <1>8, <1>9, <1>10, <1>11, <1>12, <1>13 DEF MatInv, TablesOK

LEMMA DropEvictedStep ==
  ASSUME MatInv, LeftOK, NEW t \in Thread, DropEvicted(t)
  PROVE  MatInv'
<1> DEFINE n == mat[t].table
           hand == [mat[t] EXCEPT !.pc = "lock", !.table = None]
<1>1. In(t, "drop") /\ n \in Table
  BY HandIs DEF DropEvicted, In
<1>2. /\ There' \in [Table -> Key \cup {None}] /\ There'[n] = None
      /\ \A k \in Table : k # n => There'[k] = There[k]
  BY <1>1, ThereDropped DEF DropEvicted
<1>3. /\ hand \in Hands /\ hand.pc = "lock" /\ hand.table = None
      /\ hand.slot = mat[t].slot /\ hand.key = mat[t].key
  BY HandIs DEF Hands, MatPcs
<1>4. mat' = [mat EXCEPT ![t] = hand]
  BY HandIs DEF MatInv, MatTypes, DropEvicted
<1> HIDE DEF hand
<1>5. /\ mat' \in [Thread -> Hands] /\ mat'[t] = hand
      /\ \A u \in Thread \ {t} : mat'[u] = mat[u]
  BY <1>3, <1>4, MatMove
<1>6. /\ mat[t].key \in Key /\ mat[t].slot \in Slot
      /\ mat'[t].pc = "lock" /\ mat'[t].table = None
      /\ mat'[t].slot = mat[t].slot /\ mat'[t].key = mat[t].key
  BY <1>1, <1>3, <1>5, HandIs DEF In
<1>7. UNCHANGED <<entries, listed, built>>
  BY DEF DropEvicted
<1>8. MatTypes' /\ \A s : Holds(s)' <=> Holds(s)
  BY <1>2, <1>5, <1>7 DEF MatInv, MatTypes, Holds
<1>9. HandOK'
  BY <1>5, <1>6 DEF MatInv, HandOK, In
<1>10. \A u \in Thread : In(u, "evict")' <=> In(u, "evict")
  BY <1>1, <1>5, <1>6 DEF In
<1>11. ListOK'
  BY <1>7, <1>8, <1>10 DEF MatInv, ListOK, Distinct
<1>12. \A s \in Slot : built[s] # None => built[s] # n
  BY <1>1 DEF MatInv, DropsOK, In
<1>13. BuiltOK'
  <2>1. \A s : InUse(s)' <=> InUse(s)
    BY <1>5, <1>6, <1>7, <1>8 DEF InUse, Holds
  <2>2. \A s \in Slot : built[s] # None => built[s] \in Table
    BY DEF MatInv, MatTypes
  <2>3. QED
    BY <1>2, <1>7, <1>8, <1>12, <2>1, <2>2 DEF MatInv, BuiltOK
<1>14. DropsOK'
  BY <1>5, <1>6, <1>7 DEF MatInv, DropsOK, In
<1>15. ASSUME NEW k \in Table, There'[k] # None
       PROVE  \/ \E s \in Slot : Answers(s, k)'
              \/ \E u \in Thread : In(u, "drop")' /\ mat'[u].table = k
  <2>0. k # n /\ There[k] # None
    BY <1>2, <1>15
  <2>1. CASE \E s \in Slot : Answers(s, k)
    <3>1. PICK s \in Slot : Answers(s, k)
      BY <2>1
    <3>2. Answers(s, k)'
      BY <1>1, <1>5, <1>7, <1>8, <3>1 DEF Answers, In
    <3>3. QED
      BY <3>2
  <2>2. CASE \E u \in Thread : In(u, "drop") /\ mat[u].table = k
    BY <1>5, <2>0, <2>2 DEF In
  <2>3. QED
    BY <2>0, <2>1, <2>2 DEF MatInv, TablesOK
<1>16. QED
  BY <1>8, <1>9, <1>11, <1>13, <1>14, <1>15 DEF MatInv, TablesOK

LEMMA BuildStep ==
  ASSUME MatInv, LeftOK, NEW t \in Thread, Build(t)
  PROVE  MatInv'
<1> DEFINE n == Lowest({x \in Table : ~Named(x)})
           own == mat[t].slot
           hand == [mat[t] EXCEPT !.pc = "copy", !.table = n]
<1>1. n \in Table /\ ~Named(n)
  <2>1. {x \in Table : ~Named(x)} \in SUBSET Nat /\ {x \in Table : ~Named(x)} # {}
    BY MaterializeAssumption DEF Build
  <2>2. n \in {x \in Table : ~Named(x)}
    BY <2>1, LowestIn
  <2>3. QED
    BY <2>2
<1>2. /\ tables' = [tables EXCEPT ![n] = mat[t].key] /\ UNCHANGED left
      /\ built' = [built EXCEPT ![own] = n]
      /\ mat' = [mat EXCEPT ![t].pc = "copy", ![t].table = n]
      /\ UNCHANGED <<entries, listed>> /\ In(t, "build") /\ built[own] = None
  BY DEF Build, In
<1> HIDE DEF n
<1>3. /\ mat[t].key \in Key /\ own \in Slot /\ n # None
      /\ \A s \in Slot : built[s] # n
      /\ \A u \in Thread : mat[u].table # n
  BY <1>1, <1>2, HandIs, MaterializeAssumption DEF In, Named
<1>4. /\ There' \in [Table -> Key \cup {None}] /\ There'[n] # None
      /\ \A k \in Table : k # n => There'[k] = There[k]
  <2>1. /\ tables' \in [Table -> Key \cup {None}] /\ tables'[n] # None
        /\ \A k \in Table : k # n => tables'[k] = tables[k]
    BY <1>1, <1>2, <1>3, MaterializeAssumption DEF LeftOK
  <2>2. n \notin left
    BY <1>1 DEF LeftOK, Named
  <2>3. QED
    BY <1>1, <1>2, <2>1, <2>2 DEF There
<1>5. /\ built' \in [Slot -> Table \cup {None}] /\ built'[own] = n
      /\ \A s \in Slot : s # own => built'[s] = built[s]
  BY <1>1, <1>2, <1>3 DEF MatInv, MatTypes
<1>6. /\ hand \in Hands /\ hand.pc = "copy" /\ hand.table = n
      /\ hand.slot = own /\ hand.key = mat[t].key
  BY <1>1, HandIs DEF Hands, MatPcs
<1>7. mat' = [mat EXCEPT ![t] = hand]
  BY <1>2, HandIs DEF MatInv, MatTypes
<1> HIDE DEF hand
<1>8. /\ mat' \in [Thread -> Hands] /\ mat'[t] = hand
      /\ \A u \in Thread \ {t} : mat'[u] = mat[u]
  BY <1>6, <1>7, MatMove
<1>9. /\ mat'[t].pc = "copy" /\ mat'[t].table = n
      /\ mat'[t].slot = own /\ mat'[t].key = mat[t].key
  BY <1>6, <1>8
<1> HIDE DEF own
<1>10. MatTypes' /\ \A s : Holds(s)' <=> Holds(s)
  BY <1>2, <1>4, <1>5, <1>8 DEF MatInv, MatTypes, Holds
<1>11. HandOK'
  BY <1>3, <1>8, <1>9 DEF MatInv, HandOK, In
<1>12. \A u \in Thread : In(u, "evict")' <=> In(u, "evict")
  BY <1>2, <1>8, <1>9 DEF In
<1>13. ListOK'
  BY <1>2, <1>10, <1>12 DEF MatInv, ListOK, Distinct
<1>14. BuiltOK'
  <2>1. \A s : InUse(s)' <=> InUse(s)
    BY <1>2, <1>8, <1>9, <1>10 DEF InUse, Holds, own
  <2>2. InUse(own)
    BY DEF InUse, own
  <2>3. \A s \in Slot : built[s] # None => built[s] \in Table /\ built[s] # n
    BY <1>3 DEF MatInv, MatTypes
  <2>4. \A r, s \in Slot : built'[r] # None /\ built'[r] = built'[s] => r = s
    BY <1>3, <1>5 DEF MatInv, BuiltOK
  <2>5. ASSUME NEW s \in Slot, built'[s] # None
        PROVE  (Holds(s)' => There'[built'[s]] # None) /\ InUse(s)'
    <3>1. CASE s = own
      <4>1. InUse(s)
        BY <2>2, <3>1
      <4>2. InUse(s)'
        BY <2>1, <4>1
      <4>3. There'[built'[s]] # None
        BY <1>4, <1>5, <3>1
      <4>4. QED
        BY <4>2, <4>3
    <3>2. CASE s # own
      <4>1. built'[s] = built[s] /\ built[s] # None
        BY <1>5, <2>5, <3>2
      <4>2. InUse(s) /\ (Holds(s) => There[built[s]] # None)
        BY <4>1 DEF MatInv, BuiltOK
      <4>3. InUse(s)'
        BY <2>1, <4>2
      <4>4. Holds(s)' => There'[built'[s]] # None
        BY <1>4, <1>10, <2>3, <4>1, <4>2
      <4>5. QED
        BY <4>3, <4>4
    <3>3. QED
      BY <3>1, <3>2
  <2>6. QED
    BY <2>4, <2>5 DEF BuiltOK
<1>15. DropsOK'
  <2>1. ASSUME NEW s \in Slot, built'[s] # None, built'[s] = mat'[t].table
        PROVE  In(t, "copy")' /\ s = mat'[t].slot
    BY <1>3, <1>5, <1>9, <2>1 DEF In
  <2>2. ASSUME NEW u \in Thread \ {t}, NEW s \in Slot, built'[s] # None,
               built'[s] = mat'[u].table
        PROVE  In(u, "copy")' /\ s = mat'[u].slot
    BY <1>3, <1>5, <1>8, <2>2 DEF MatInv, DropsOK, In
  <2>3. QED
    BY <2>1, <2>2 DEF DropsOK
<1>16. ASSUME NEW k \in Table, There'[k] # None
       PROVE  \/ \E s \in Slot : Answers(s, k)'
              \/ \E u \in Thread : In(u, "drop")' /\ mat'[u].table = k
  <2>1. CASE k = n
    <3>1. PICK s \in Slot : s = own
      BY <1>3
    <3>2. Answers(s, k)'
      BY <1>5, <1>9, <2>1, <3>1 DEF Answers, In
    <3>3. QED
      BY <3>2
  <2>2. CASE k # n /\ \E s \in Slot : Answers(s, k)
    <3>1. PICK s \in Slot : Answers(s, k)
      BY <2>2
    <3>2. built[s] = k /\ k # None
      BY <3>1, MaterializeAssumption DEF Answers
    <3>3. s # own
      BY <1>2, <3>2 DEF own
    <3>4. Answers(s, k)'
      BY <1>2, <1>5, <1>8, <1>10, <3>1, <3>2, <3>3 DEF Answers, In
    <3>5. QED
      BY <3>4
  <2>3. CASE k # n /\ \E u \in Thread : In(u, "drop") /\ mat[u].table = k
    BY <1>2, <1>8, <2>3 DEF In
  <2>4. QED
    BY <1>4, <1>16, <2>1, <2>2, <2>3 DEF MatInv, TablesOK
<1>17. QED
  BY <1>10, <1>11, <1>13, <1>14, <1>15, <1>16 DEF MatInv, TablesOK

LEMMA TablesFrame ==
  ASSUME MatInv, UNCHANGED matVars
  PROVE  MatInv'
<1>1. UNCHANGED There
  BY ThereKept DEF matVars
<1>2. QED
  BY <1>1 DEF matVars, MatInv, MatTypes, HandOK, ListOK, Distinct, BuiltOK, DropsOK,
     TablesOK, Answers, In, Holds, InUse

LEMMA TablesEnds ==
  ASSUME MatInv, LeftOK, NEW t \in Thread, MatEnds(t)
  PROVE  MatInv'
<1>1. Copy(t) \/ GiveUp(t) \/ BuildFails(t)
  BY DEF MatEnds
<1>2. QED
  BY <1>1, CopyStep, GoneStep

LEMMA TablesMat ==
  ASSUME MatInv, LeftOK, NEW t \in Thread, Mat(t)
  PROVE  MatInv'
<1>1. Evict(t) \/ DropEvicted(t) \/ LockSlot(t) \/ Have(t) \/ Build(t)
  BY DEF Mat
<1>2. QED
  BY <1>1, EvictStep, DropEvictedStep, LockSlotStep, HaveStep, BuildStep

LEMMA TablesSetup ==
  ASSUME IInv, MatInv, NEW t \in Thread, Setup(t)
  PROVE  MatInv'
<1>1. run[t].req.mat \in Key
  BY RunPanelAssumption DEF IInv, RunTypes, Runs
<1>2. Find(t, run[t].req.mat) \/ Push(t, run[t].req.mat) \/ UNCHANGED matVars
  BY DEF Setup
<1>3. QED
  BY <1>1, <1>2, FindStep, PushStep, TablesFrame

\* What failed DROPs leave is there.
LEMMA LeftStep ==
  ASSUME MatInv, LeftOK, NEW t \in Thread, Setup(t) \/ Mat(t) \/ MatEnds(t)
  PROVE  LeftOK'
<1>1. ASSUME UNCHANGED <<tables, left>> PROVE LeftOK'
  BY <1>1 DEF LeftOK
<1>2. CASE Setup(t)
  <2>1. UNCHANGED <<tables, left>>
    BY <1>2 DEF Setup, Find, Push, matVars
  <2>2. QED
    BY <1>1, <2>1
<1>3. CASE Drop(t) /\ In(t, "drop")
  BY <1>3, HandIs, ThereDropped DEF In
<1>4. CASE Drop(t) /\ In(t, "copy")
  BY <1>4, HandIs, ThereDropped DEF In
<1>5. CASE Build(t)
  <2> DEFINE n == Lowest({x \in Table : ~Named(x)})
  <2>1. /\ tables' = [tables EXCEPT ![n] = mat[t].key] /\ UNCHANGED left
        /\ In(t, "build")
    BY <1>5 DEF Build, In
  <2> HIDE DEF n
  <2>2. mat[t].key \in Key /\ None \notin Key
    BY <2>1, HandIs, MaterializeAssumption DEF In
  <2>3. QED
    BY <2>1, <2>2 DEF LeftOK
<1>6. CASE Mat(t)
  <2>1. CASE DropEvicted(t)
    BY <1>3, <2>1 DEF DropEvicted, In
  <2>2. CASE Evict(t) \/ LockSlot(t) \/ Have(t)
    BY <1>1, <2>2 DEF Evict, LockSlot, Have
  <2>3. QED
    BY <1>5, <1>6, <2>1, <2>2 DEF Mat
<1>7. CASE MatEnds(t)
  <2>1. CASE Copy(t)
    BY <1>1, <1>4, <2>1 DEF Copy, In
  <2>2. CASE GiveUp(t) \/ BuildFails(t)
    BY <1>1, <2>2 DEF GiveUp, BuildFails
  <2>3. QED
    BY <1>7, <2>1, <2>2 DEF MatEnds
<1>8. QED
  BY <1>2, <1>6, <1>7

LEMMA TablesStep ==
  ASSUME IInv, MatInv, LeftOK, [Next]_vars
  PROVE  MatInv' /\ LeftOK'
<1>1. ASSUME UNCHANGED matVars PROVE MatInv' /\ LeftOK'
  BY <1>1, TablesFrame DEF LeftOK, matVars
<1>2. CASE UNCHANGED vars
  BY <1>1, <1>2 DEF vars
<1>3. CASE Next
  <2>1. PICK t \in Thread :
          \/ \E r \in Request : Arrive(t, r)
          \/ Take(t) \/ Reuse(t)
          \/ Setup(t) \/ Mat(t) \/ MatEnds(t)
          \/ (\E bytes \in Sizes : Grow(t, bytes) \/ Shrink(t, bytes)) \/ Undo(t) \/ Query(t)
          \/ Put(t) \/ Abandon(t) \/ Fire(t)
    BY <1>3 DEF Next
  <2>2. CASE Setup(t) \/ Mat(t) \/ MatEnds(t)
    BY <2>2, TablesSetup, TablesMat, TablesEnds, LeftStep
  <2>3. CASE ~(Setup(t) \/ Mat(t) \/ MatEnds(t))
    BY <1>1, <2>1, <2>3
       DEF Arrive, Take, Reuse, Grow, Shrink, Undo, Query, Put, Abandon, Fire
  <2>4. QED
    BY <2>2, <2>3
<1>4. QED
  BY <1>2, <1>3

LEMMA TablesInit ==
  ASSUME Init
  PROVE  MatInv /\ LeftOK
<1>1. NoMat \in Hands /\ NoMat.pc = "out" /\ NoMat.slot = None /\ NoMat.table = None
  BY DEF NoMat, Hands, MatPcs
<1>2. /\ entries = <<>> /\ listed = None
      /\ \A s \in Slot : built[s] = None
      /\ tables = [n \in Table |-> None] /\ left = {}
      /\ \A t \in Thread : mat[t] = NoMat
  BY DEF Init, MatInit
<1>3. LeftOK /\ There = [n \in Table |-> None]
  BY <1>2 DEF LeftOK, There
<1>8. MatTypes
  BY <1>1, <1>3 DEF Init, MatInit, MatTypes
<1>4. HandOK /\ DropsOK
  BY <1>1, <1>2 DEF HandOK, DropsOK, In
<1>5. ListOK
  BY <1>1, <1>2 DEF ListOK, Distinct, Holds, In
<1>6. BuiltOK /\ TablesOK
  BY <1>2, <1>3 DEF BuiltOK, TablesOK
<1>7. QED
  BY <1>3, <1>4, <1>5, <1>6, <1>8 DEF MatInv

\* Who answers for a shared table, in every reachable state.
THEOREM TablesAnswered == Spec => [](MatInv /\ LeftOK)
<1>1. Init => MatInv /\ LeftOK
  BY TablesInit
<1>2. IInv /\ MatInv /\ LeftOK /\ [Next]_vars => MatInv' /\ LeftOK'
  BY TablesStep
<1>3. QED
  BY <1>1, <1>2, ConnectionsCorrect, PTL DEF Spec

\* When no request is in run_materialized, the tables are those of the entries
\* kept and those whose DROP failed, and none is both (MatStore::slot,
\* MatStore::holds, the copy and its drop).
THEOREM TablesAccountedHolds == Spec => []TablesAccounted
<1>1. ASSUME MatInv, LeftOK PROVE TablesAccounted
  <2> DEFINE kept == {built[entries[i].slot] : i \in 1..Len(entries)} \ {None}
  <2>1. SUFFICES ASSUME \A t \in Thread : mat[t] = NoMat
                 PROVE  /\ {n \in Table : tables[n] # None} = kept \cup left
                        /\ kept \cap left = {}
    BY DEF TablesAccounted
  <2>2. \A t \in Thread : ~In(t, "evict") /\ ~In(t, "drop") /\ ~In(t, "copy")
    BY <2>1 DEF NoMat, In
  <2>3. listed = None
    BY <1>1, <2>2 DEF MatInv, ListOK
  <2>4. ASSUME NEW n \in Table, There[n] # None
        PROVE  n \in kept
    <3>1. PICK s \in Slot : Answers(s, n)
      BY <1>1, <2>2, <2>4 DEF MatInv, TablesOK
    <3>2. built[s] = n /\ Holds(s) /\ n # None
      BY <2>2, <2>3, <3>1, MaterializeAssumption DEF Answers
    <3>3. QED
      BY <3>2 DEF Holds
  <2>5. ASSUME NEW n \in kept
        PROVE  n \in Table /\ There[n] # None
    <3>1. PICK i \in 1..Len(entries) : built[entries[i].slot] = n
      OBVIOUS
    <3>2. entries[i] \in [key : Key, slot : Slot]
      BY <1>1, <3>1, ElementOfSeq DEF MatInv, MatTypes
    <3>3. entries[i].slot \in Slot /\ Holds(entries[i].slot) /\ n # None
      BY <3>1, <3>2 DEF Holds
    <3>4. QED
      BY <1>1, <3>1, <3>3 DEF MatInv, MatTypes, BuiltOK
  <2> HIDE DEF kept
  <2>6. \A n \in Table : There[n] # None <=> n \notin left /\ tables[n] # None
    BY DEF There
  <2>7. QED
    BY <1>1, <2>4, <2>5, <2>6 DEF LeftOK
<1>2. QED
  BY <1>1, TablesAnswered, PTL
=============================================================================
