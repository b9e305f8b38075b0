------------------------------ MODULE RunPanel ------------------------------
(***************************************************************************)
(* The execution of one panel request (duckext/src/serve.rs, run_panel): a *)
(* warm connection from the pool or a fresh one, the dashboard's setup     *)
(* with its shared results (Materialize), the query under a deadline and   *)
(* under the viewers' interrupt, its bytes counted against the server's,   *)
(* and the connection back to the pool.  All viewers may give up at any    *)
(* moment (PanelCache), the deadline may pass at any.                      *)
(***************************************************************************)
EXTENDS Materialize, Functions

CONSTANTS
  Request,    \* [warm, mat, sets]: warm_key, mat_key, the variables it sets
  WarmCap,    \* WarmPool.cap
  Cap, Free1, \* max_inflight and FREE_BYTES, in units of memory
  Sizes       \* the sizes a result's buffer grows to

ASSUME RunPanelAssumption ==
  /\ {WarmCap, Cap, Free1} \subseteq Nat
  /\ Sizes \subseteq Nat
  /\ Request # {} /\ \A r \in Request : r.mat \in Key

VARIABLES
  run,        \* per thread: where run_panel is
  pool,       \* WarmPool.idle, most recently used last: [key, conn, set]
  used,       \* Inflight.used
  held,       \* per thread: Charge.held
  cut         \* per thread: Abort.abandoned(), or the deadline has passed
              \* and the watchdog interrupted the connection

runVars == <<run, pool, used, held, cut>>
vars == <<matVars, runVars>>

\* A connection: the variables that hold a value, whether every setup
\* statement ran on it, whether an interrupt may be pending.
FreshConn == [vars |-> {}, setup |-> TRUE, pending |-> FALSE]

NoRun == [pc |-> "idle", req |-> CHOOSE r \in Request : TRUE, conn |-> FreshConn,
          set |-> {}, more |-> 0]

Init ==
  /\ MatInit
  /\ run = [t \in Thread |-> NoRun]
  /\ pool = <<>>
  /\ used = 0
  /\ held = [t \in Thread |-> 0]
  /\ cut = [t \in Thread |-> FALSE]

Step(t, pc) == run' = [run EXCEPT ![t].pc = pc]

\* The interrupter is registered with the flight; the watchdog runs.
Armed == {"reuse", "setup", "mat", "query", "grown"}
Registered == Armed \cup {"put"}

\* The query slot is freed, the connection closed unless it was pooled, the
\* charge dropped once the answer is out.
End(t) ==
  /\ run' = [run EXCEPT ![t] = NoRun]
  /\ cut' = [cut EXCEPT ![t] = FALSE]
  /\ used' = used - held[t]
  /\ held' = [held EXCEPT ![t] = 0]

-----------------------------------------------------------------------------

Arrive(t, r) ==
  /\ run[t].pc = "idle"
  /\ run' = [run EXCEPT ![t].pc = "take", ![t].req = r]
  /\ UNCHANGED <<matVars, pool, used, held, cut>>

Warm(k) == {i \in 1..Len(pool) : pool[i].key = k}
Newest(k) == {i \in Warm(k) : \A j \in Warm(k) : j <= i}

\* WarmPool::take, or a fresh connection, then Abort::register: with nobody
\* left the connection is dropped.  (Only the flight's viewers leave in
\* between, and whoever has left before it registers is seen there.)
Take(t) ==
  /\ run[t].pc = "take"
  /\ LET k == run[t].req.warm IN
       IF Warm(k) = {}
       THEN /\ UNCHANGED pool
            /\ IF cut[t] THEN End(t)
               ELSE Step(t, "setup") /\ UNCHANGED <<used, held, cut>>
       ELSE \E i \in Newest(k) :
            /\ pool' = RemoveAt(pool, i)
            /\ IF cut[t] THEN End(t)
               ELSE /\ run' = [run EXCEPT ![t].pc = "reuse",
                                          ![t].conn = pool[i].conn,
                                          ![t].set = pool[i].set]
                    /\ UNCHANGED <<used, held, cut>>
  /\ UNCHANGED matVars

\* Wrong on purpose (SetVars): the previous request's variables stay.
SetVarsOver(conn, was, now) == conn.vars \cup now

\* A reused connection: RESET what this request does not set, then set.
SetVars(conn, was, now) == (conn.vars \ (was \ now)) \cup now

\* The variables are set and the setup's own SETs run again (best effort);
\* a statement that fails outright ends the request.
Reuse(t) ==
  /\ run[t].pc = "reuse"
  /\ \/ /\ \E done \in BOOLEAN :
             run' = [run EXCEPT ![t].pc = "query", ![t].set = {},
                                ![t].conn.vars = SetVars(run[t].conn, run[t].set,
                                                         run[t].req.sets),
                                ![t].conn.setup = done]
        /\ UNCHANGED <<used, held, cut>>
     \/ End(t)
  /\ UNCHANGED <<matVars, pool>>

\* A fresh connection: the variables, then the setup, in which a
\* materialized statement enters run_materialized.  A SET, the viewer's rows,
\* the saved tables or a view that fails ends the request, as a missing
\* required file does.
Setup(t) ==
  /\ run[t].pc = "setup" /\ mat[t].pc = "out"
  /\ \/ /\ Find(t, run[t].req.mat) \/ Push(t, run[t].req.mat)
        /\ run' = [run EXCEPT ![t].pc = "mat", ![t].conn.vars = run[t].req.sets]
        /\ UNCHANGED <<used, held, cut>>
     \/ End(t) /\ UNCHANGED matVars
  /\ UNCHANGED pool

\* run_materialized's own steps.
Mat(t) ==
  /\ run[t].pc = "mat"
  /\ Evict(t) \/ DropEvicted(t) \/ LockSlot(t) \/ Have(t) \/ Build(t)
  /\ UNCHANGED runVars

\* It is done; its build or its copy failed and the statement ran as
\* written, well or not; or it gave up and the request ends.
MatEnds(t) ==
  /\ run[t].pc = "mat"
  /\ \/ /\ Copy(t) \/ BuildFails(t)
        /\ \E done \in BOOLEAN :
             run' = [run EXCEPT ![t].pc = "query", ![t].conn.setup = done]
        /\ UNCHANGED <<used, held, cut>>
     \/ /\ cut[t]
        /\ GiveUp(t) \/ BuildFails(t)
        /\ End(t)
  /\ UNCHANGED pool

-----------------------------------------------------------------------------
(* The query and its bytes: Charge::hold.                                  *)

\* Wrong on purpose (TooMuch): only the request's own bytes are looked at.
TooMuchAlone(bytes, now) == bytes > Free1 /\ bytes > Cap

\* Over the cap, beyond what every request may hold.
TooMuch(bytes, now) == bytes > Free1 /\ now > Cap

\* No more than is held: what is over is given back.
Shrink(t, bytes) ==
  /\ run[t].pc = "query"
  /\ bytes <= held[t]
  /\ used' = used - (held[t] - bytes)
  /\ held' = [held EXCEPT ![t] = bytes]
  /\ UNCHANGED <<matVars, run, pool, cut>>

\* The buffer grows to `bytes': added first, then looked at.
Grow(t, bytes) ==
  /\ run[t].pc = "query"
  /\ bytes > held[t]
  /\ LET more == bytes - held[t] IN
       /\ used' = used + more
       /\ IF TooMuch(bytes, used + more)
          THEN /\ run' = [run EXCEPT ![t].pc = "grown", ![t].more = more]
               /\ UNCHANGED held
          ELSE /\ held' = [held EXCEPT ![t] = bytes]
               /\ UNCHANGED run
  /\ UNCHANGED <<matVars, pool, cut>>

\* Refused: the bytes are taken off again and the request fails.
Undo(t) ==
  /\ run[t].pc = "grown"
  /\ used' = used - run[t].more - held[t]
  /\ held' = [held EXCEPT ![t] = 0]
  /\ run' = [run EXCEPT ![t] = NoRun]
  /\ cut' = [cut EXCEPT ![t] = FALSE]
  /\ UNCHANGED <<matVars, pool>>

\* The query ends and the watchdog with it.  With an interrupt pending it
\* fails, or was through already; a failed run is not pooled.
Query(t) ==
  /\ run[t].pc = "query"
  /\ \/ Step(t, "put") /\ UNCHANGED <<used, held, cut>>
     \/ End(t)
  /\ UNCHANGED <<matVars, pool>>

\* Wrong on purpose (Clean): what the query returned is enough.
CleanIfOk(t) == run[t].conn.setup

Clean(t) == ~cut[t] /\ run[t].conn.setup

\* Registered::drop, no interrupt can reach the connection after it; then
\* WarmPool::put, after a clean run: the oldest one goes over the cap.
Kept(t) == Append(pool, [key |-> run[t].req.warm, conn |-> run[t].conn,
                         set |-> run[t].req.sets])

Put(t) ==
  /\ run[t].pc = "put"
  /\ pool' = IF Clean(t) /\ WarmCap > 0
             THEN IF Len(Kept(t)) > WarmCap THEN Tail(Kept(t)) ELSE Kept(t)
             ELSE pool
  /\ End(t)
  /\ UNCHANGED matVars

-----------------------------------------------------------------------------

\* Every viewer of the flight has left or was superseded: its interrupter,
\* while registered, interrupts whatever the connection runs.
Abandon(t) ==
  /\ run[t].pc # "idle" /\ ~cut[t]
  /\ cut' = [cut EXCEPT ![t] = TRUE]
  /\ run' = [run EXCEPT ![t].conn.pending =
               @ \/ run[t].pc \in Registered]
  /\ UNCHANGED <<matVars, pool, used, held>>

\* The deadline passes while the watchdog waits.
Fire(t) ==
  /\ run[t].pc \in Armed /\ ~cut[t]
  /\ cut' = [cut EXCEPT ![t] = TRUE]
  /\ run' = [run EXCEPT ![t].conn.pending = TRUE]
  /\ UNCHANGED <<matVars, pool, used, held>>

Next ==
  \E t \in Thread :
    \/ \E r \in Request : Arrive(t, r)
    \/ Take(t) \/ Reuse(t)
    \/ Setup(t) \/ Mat(t) \/ MatEnds(t)
    \/ (\E bytes \in Sizes : Grow(t, bytes) \/ Shrink(t, bytes)) \/ Undo(t) \/ Query(t)
    \/ Put(t) \/ Abandon(t) \/ Fire(t)

Spec == Init /\ [][Next]_vars

-----------------------------------------------------------------------------

(* A connection waits in the pool as a fresh one with its setup run would  *)
(* be: no interrupt pending that would hit another viewer's query, no      *)
(* setup statement missing (serve.rs:12708).                               *)
PoolClean ==
  \A i \in 1..Len(pool) : ~pool[i].conn.pending /\ pool[i].conn.setup

(* A panel's query sees exactly the variables its own request sets, also   *)
(* on a connection another request has used (serve.rs:12597).              *)
OwnVariables == \A t \in Thread :
  run[t].pc = "query" => run[t].conn.vars = run[t].req.sets

HeldBy(S) == SumFunctionOnSet(held, S)

(* "The bound is max_inflight + threads * FREE_BYTES" (limits.rs:15), and  *)
(* what the counter says is never less than what is held.                  *)
BytesBounded ==
  /\ HeldBy(Thread) <= Cap + Cardinality(Thread) * Free1
  /\ HeldBy(Thread) <= used
=============================================================================
