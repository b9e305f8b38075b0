------------------------------- MODULE Submit -------------------------------
(***************************************************************************)
(* POST /api/submit (duckext/src/serve.rs, handle_submit) on the state     *)
(* store: worker threads handle clicks, and a client may send the same     *)
(* click again at any time, from two tabs, after a lost answer or after a  *)
(* restart.  A click is the viewer, the nonce its page made and the        *)
(* ::SUBMIT statement it names.  Checks before the first state change      *)
(* (cross-site gate, identity, scope, values) refuse without a trace and   *)
(* are left out; so are replies that change nothing (503, 429, a replayed  *)
(* 201): the worker takes the next click.                                  *)
(***************************************************************************)
EXTENDS StateStore, FiniteSets

CONSTANTS
  Thread,        \* HTTP workers
  Click,         \* [user, id, body]: what clients send, any number of times
  Once,          \* ::SUBMIT statements gated to one row by their author's SQL
  MaxPerViewer,  \* options.state.max_per_viewer
  LockCap,       \* SUBMIT_BOUNDED_USERS, the bound of ViewerLocks
  Arc,           \* identities of the per-viewer mutexes
  MaxExits       \* model bound: ends of a server process

ASSUME SubmitAssumption ==
  /\ Click \subseteq [user : User, id : Id, body : Body] /\ Click # {}
  /\ Once \subseteq Body
  /\ MaxPerViewer \in Nat
  /\ LockCap \in Nat \ {0}
  /\ Arc \subseteq Nat \ {0}
  /\ MaxExits \in Nat

VARIABLES
  req,        \* per thread: where handle_submit is, its click and its Arc
  recent,     \* RecentIds: {[user, id]} answered in this process
  forgotten,  \* history: the entries RecentIds dropped in this process
  lockOf,     \* ViewerLocks.map: each viewer's mutex, 0 for none
  lockOrder,  \* ViewerLocks.order
  gates,      \* cached results of ::SUBMIT statements
  lifeSeq,    \* history: next_seq when this process opened the store
  exits       \* ends of a process so far

serverVars == <<req, recent, forgotten, lockOf, lockOrder, gates, lifeSeq>>
vars == <<storeVars, serverVars, exits>>

NoArc == 0
Idle == [pc |-> "idle", click |-> CHOOSE c \in Click : TRUE, arc |-> NoArc]

\* From try_lock to the end of the handler.
Critical == {"check", "gate", "append", "remember"}

Pcs == {"idle", "lock", "try"} \cup Critical

Key(c) == [user |-> c.user, id |-> c.id]

Goto(t, pc) == req' = [req EXCEPT ![t].pc = pc]

\* The handler returns: the guard, the Arc and the click are dropped.
Return(t) == req' = [req EXCEPT ![t] = Idle]

-----------------------------------------------------------------------------
(* The server's memory at its start.                                       *)

Fresh ==
  /\ req' = [t \in Thread |-> Idle]
  /\ recent' = {} /\ forgotten' = {} /\ gates' = {}
  /\ lockOf' = [u \in User |-> NoArc] /\ lockOrder' = <<>>

Init ==
  /\ StoreInit
  /\ req = [t \in Thread |-> Idle]
  /\ recent = {} /\ forgotten = {} /\ gates = {}
  /\ lockOf = [u \in User |-> NoArc] /\ lockOrder = <<>>
  /\ lifeSeq = 1
  /\ exits = 0

Start ==
  /\ Open
  /\ lifeSeq' = nextSeq'
  /\ UNCHANGED <<req, recent, forgotten, lockOf, lockOrder, gates, exits>>

\* The process ends, with every request it was handling.
End ==
  /\ exits < MaxExits
  /\ exits' = exits + 1
  /\ Fresh
  /\ UNCHANGED lifeSeq

Stop == Exit /\ End
Crash == running /\ PowerLoss /\ End

\* What happens to the file while no server runs.
Offline ==
  /\ ~running
  /\ OpenCrash \/ EraseCrash \/ PowerLoss \/ \E u \in User : Erase(u)
  /\ UNCHANGED <<serverVars, exits>>

-----------------------------------------------------------------------------
(* handle_submit.                                                          *)

\* Up to the rate limits: the store has not failed and the nonce is new.
Arrive(t, c) ==
  /\ running /\ ~failed
  /\ req[t].pc = "idle"
  /\ Key(c) \notin recent
  /\ req' = [req EXCEPT ![t] = [pc |-> "lock", click |-> c, arc |-> NoArc]]
  /\ UNCHANGED <<storeVars, recent, forgotten, lockOf, lockOrder, gates,
                 lifeSeq, exits>>

\* Arc::strong_count > 1: some request has a clone of the map's Arc.
Held(a) == \E t \in Thread : req[t].arc = a

Unused(a) == ~Held(a) /\ \A u \in User : lockOf[u] # a

\* Wrong on purpose (Evictable): the oldest, in use or not.
EvictableOldest(u) == lockOrder # <<>> /\ lockOrder[1] = u

\* The viewer ViewerLocks.get drops at its bound: the oldest whose mutex no
\* request has; nobody when all are in use.
Evictable(u) == \E i \in 1..Len(lockOrder) :
  /\ lockOrder[i] = u
  /\ ~Held(lockOf[u])
  /\ \A j \in 1..(i - 1) : Held(lockOf[lockOrder[j]])

Evicted == IF Len(lockOrder) < LockCap THEN {}
           ELSE {u \in User : Evictable(u)}

GetLock(t) ==
  /\ req[t].pc = "lock"
  /\ LET u == req[t].click.user IN
       \/ /\ lockOf[u] # NoArc
          /\ req' = [req EXCEPT ![t].pc = "try", ![t].arc = lockOf[u]]
          /\ UNCHANGED <<lockOf, lockOrder>>
       \/ /\ lockOf[u] = NoArc
          /\ \E a \in Arc :
               /\ Unused(a)
               /\ \A b \in Arc : b < a => ~Unused(b)
               /\ req' = [req EXCEPT ![t].pc = "try", ![t].arc = a]
               /\ lockOf' = [v \in User |->
                               IF v = u THEN a
                               ELSE IF v \in Evicted THEN NoArc ELSE lockOf[v]]
          /\ lockOrder' =
               Append(SelectSeq(lockOrder, LAMBDA v : v \notin Evicted), u)
  /\ UNCHANGED <<storeVars, recent, forgotten, gates, lifeSeq, exits>>

\* try_lock: 409 when another request of this mutex is past it.
Locked(a) == \E t \in Thread : req[t].arc = a /\ req[t].pc \in Critical

TryLock(t) ==
  /\ req[t].pc = "try"
  /\ IF Locked(req[t].arc) THEN Return(t) ELSE Goto(t, "check")
  /\ UNCHANGED <<storeVars, recent, forgotten, lockOf, lockOrder, gates,
                 lifeSeq, exits>>

\* Wrong on purpose (MayGoOn): the limit off by one; the nonce not asked again.
MayGoOnAtLimit(t) ==
  /\ Key(req[t].click) \notin recent
  /\ Cardinality(Rows(records, req[t].click.user)) <= MaxPerViewer
MayGoOnUnlessFull(t) ==
  Cardinality(Rows(records, req[t].click.user)) < MaxPerViewer

\* Under the mutex: the nonce and the viewer's limit again.
MayGoOn(t) ==
  /\ Key(req[t].click) \notin recent
  /\ Cardinality(Rows(records, req[t].click.user)) < MaxPerViewer

Check(t) ==
  /\ req[t].pc = "check"
  /\ IF MayGoOn(t) THEN Goto(t, "gate") ELSE Return(t)
  /\ UNCHANGED <<storeVars, recent, forgotten, lockOf, lockOrder, gates,
                 lifeSeq, exits>>

\* The ::SUBMIT statement reads the viewer's own rows: one that its author
\* gates to once has a row until the viewer has a record of it.
GateOpen(c) ==
  \/ c.body \notin Once
  \/ \A i \in Rows(records, c.user) : records[i].body # c.body

\* The panel's cache key: statement, viewer and the viewer's generation
\* (state_snapshot), read with the rows under one lock.
GateKey(c) == [user |-> c.user, body |-> c.body,
               gen |-> Cardinality(Rows(records, c.user))]

GateAnswer(c) ==
  IF \E g \in gates : g.key = GateKey(c)
  THEN (CHOOSE g \in gates : g.key = GateKey(c)).open
  ELSE GateOpen(c)

Gate(t) ==
  /\ req[t].pc = "gate"
  /\ LET c == req[t].click IN
       /\ gates' = gates \cup {[key |-> GateKey(c), open |-> GateAnswer(c)]}
       /\ IF GateAnswer(c) THEN Goto(t, "append") ELSE Return(t)
  /\ UNCHANGED <<storeVars, recent, forgotten, lockOf, lockOrder, lifeSeq,
                 exits>>

\* The statement or a value's check fails (a time limit, no free slot).
GateFails(t) ==
  /\ req[t].pc = "gate"
  /\ Return(t)
  /\ UNCHANGED <<storeVars, recent, forgotten, lockOf, lockOrder, gates,
                 lifeSeq, exits>>

Store(t) ==
  /\ req[t].pc = "append"
  /\ LET c == req[t].click IN AppendOk(c.user, c.id, c.body)
  /\ Goto(t, "remember")
  /\ UNCHANGED <<recent, forgotten, lockOf, lockOrder, gates, lifeSeq, exits>>

\* 503 when the write fails or an earlier one has, 507 when the file is full.
StoreFails(t) ==
  /\ req[t].pc = "append"
  /\ LET c == req[t].click IN
       \/ AppendFails(c.user, c.id, c.body)
       \/ (failed \/ Full) /\ UNCHANGED storeVars
  /\ Return(t)
  /\ UNCHANGED <<recent, forgotten, lockOf, lockOrder, gates, lifeSeq, exits>>

StoreCrash(t) ==
  /\ req[t].pc = "append"
  /\ LET c == req[t].click IN AppendCrash(c.user, c.id, c.body)
  /\ End

\* The answer is kept for RECENT_ID_TTL and sent: 201.
Remember(t) ==
  /\ req[t].pc = "remember"
  /\ recent' = recent \cup {Key(req[t].click)}
  /\ Return(t)
  /\ UNCHANGED <<storeVars, forgotten, lockOf, lockOrder, gates, lifeSeq,
                 exits>>

\* RecentIds drops an answer: its time is over, or the map is at its bound.
ForgetId ==
  /\ \E k \in recent : recent' = recent \ {k} /\ forgotten' = forgotten \cup {k}
  /\ UNCHANGED <<storeVars, req, lockOf, lockOrder, gates, lifeSeq, exits>>

Next ==
  \/ Start \/ Stop \/ Crash \/ Offline \/ ForgetId
  \/ \E t \in Thread :
       \/ \E c \in Click : Arrive(t, c)
       \/ GetLock(t) \/ TryLock(t) \/ Check(t) \/ Gate(t) \/ GateFails(t)
       \/ Store(t) \/ StoreFails(t) \/ StoreCrash(t) \/ Remember(t)

Spec == Init /\ [][Next]_vars

-----------------------------------------------------------------------------

(* A statement its author gates to once is recorded at most once per       *)
(* viewer, whatever tabs, retries, failed writes and restarts do: the gate *)
(* and the append are one step for a viewer (serve.rs:11037).              *)
OnceOnly ==
  \A i, j \in 1..Len(Readable) :
    (/\ i # j
     /\ Readable[i].user = Readable[j].user
     /\ Readable[i].body = Readable[j].body)
      => Readable[i].body \notin Once

(* max_per_viewer bounds the viewer's records in the file, also those no   *)
(* request was ever answered for (serve.rs:11088).                         *)
QuotaHeld ==
  \A u \in User : Cardinality(Rows(Readable, u)) <= MaxPerViewer

(* While the server remembers it has answered a click, that click is one   *)
(* record: a retry, early or late, appends no second one (serve.rs:11073). *)
RememberedOnce ==
  \A i, j \in 1..Len(records) :
    (/\ i < j
     /\ records[i].seq >= lifeSeq
     /\ Key(records[i]) = Key(records[j]))
      => Key(records[i]) \in forgotten
=============================================================================
