----------------------------- MODULE Durability -----------------------------
(***************************************************************************)
(* options.durability (duckext/src/serve.rs): the writer copies the state  *)
(* file to an object store every snapshot_every_s and once at the stop, so *)
(* that a new node can start from there.  HTTP workers append while the    *)
(* durability thread takes a snapshot in three steps; stop() raises one    *)
(* flag that the workers and the durability thread both see, and then      *)
(* joins the workers first.                                                *)
(***************************************************************************)
EXTENDS StateStore

CONSTANTS
  Worker,    \* HTTP workers
  Click      \* [user, id, body]: the submissions

VARIABLES
  stop,      \* Running.stop
  busy,      \* per worker: the submission it handles, {} for none
  runner,    \* durability_runner: pc, whether this is the last snapshot,
             \* the seq and the bytes it has, whether the last upload failed
  sent,      \* DurableState.sent: what the last snapshot held, {} for none
  object,    \* the snapshot at options.durability.location
  stopped    \* history: an orderly stop has ended, its last snapshot went through

durVars == <<stop, busy, runner, sent, object, stopped>>
vars == <<storeVars, durVars>>

\* The bytes of a file: its complete lines and whether a torn one follows.
Bytes(f) == [lines |-> f.lines \o f.unsynced, torn |-> f.torn]
NoBytes == [lines |-> <<>>, torn |-> FALSE]

\* COPY ... (FORMAT csv) ends what it wrote with a newline: a torn line
\* becomes a complete one that no store can read (bad).
Stored(b) == [there |-> TRUE, lines |-> b.lines, bad |-> b.torn]
NoObject == [there |-> FALSE, lines |-> <<>>, bad |-> FALSE]

NewRunner == [pc |-> "loop", last |-> FALSE, seq |-> 0, bytes |-> NoBytes,
              ok |-> TRUE]

Init ==
  /\ StoreInit
  /\ stop = FALSE
  /\ busy = [w \in Worker |-> {}]
  /\ runner = NewRunner
  /\ sent = {}
  /\ object = NoObject
  /\ stopped = FALSE

\* A server starts where there is a file, or no snapshot to start from.
Start ==
  /\ file.there \/ ~object.there
  /\ Open
  /\ stop' = FALSE /\ runner' = NewRunner /\ sent' = {}
  /\ stopped' = FALSE
  /\ UNCHANGED <<busy, object>>

\* durable_restore: a new node's file is its snapshot, if a store can read it.
Restore ==
  /\ ~running /\ ~file.there
  /\ object.there /\ ~object.bad
  /\ file' = [file EXCEPT !.there = TRUE, !.head = TRUE,
                          !.lines = object.lines]
  /\ UNCHANGED <<running, records, nextSeq, failed, acked, durVars>>

\* A worker sees no stop and takes a request.
Take(w, c) ==
  /\ running /\ ~stop
  /\ busy[w] = {}
  /\ busy' = [busy EXCEPT ![w] = {c}]
  /\ UNCHANGED <<storeVars, stop, runner, sent, object, stopped>>

\* It is appended and acknowledged, or the write fails.
Handle(w) ==
  /\ \E c \in busy[w] :
       \/ AppendOk(c.user, c.id, c.body)
       \/ AppendFails(c.user, c.id, c.body)
       \/ (failed \/ Full) /\ UNCHANGED storeVars
  /\ busy' = [busy EXCEPT ![w] = {}]
  /\ UNCHANGED <<stop, runner, sent, object, stopped>>

-----------------------------------------------------------------------------
(* durability_runner and durable_snapshot.                                 *)

Goto(pc) == runner' = [runner EXCEPT !.pc = pc]

\* The interval is over, or the flag is up: one last snapshot.
Due ==
  /\ running /\ runner.pc = "loop"
  /\ runner' = [runner EXCEPT !.pc = "seq", !.last = stop]
  /\ UNCHANGED <<storeVars, stop, busy, sent, object, stopped>>

ReadSeq ==
  /\ running /\ runner.pc = "seq"
  /\ runner' = [runner EXCEPT !.pc = "copy", !.seq = nextSeq - 1]
  /\ UNCHANGED <<storeVars, stop, busy, sent, object, stopped>>

Over == IF runner.last THEN "done" ELSE "loop"

\* copy_to, under the store's mutex; nothing to do for what was sent before.
Copy ==
  /\ running /\ runner.pc = "copy"
  /\ LET mine == [seq |-> runner.seq, bytes |-> Bytes(file)] IN
       runner' = IF mine \in sent
                 THEN [runner EXCEPT !.pc = Over, !.ok = TRUE]
                 ELSE [runner EXCEPT !.pc = "upload", !.bytes = mine.bytes]
  /\ UNCHANGED <<storeVars, stop, busy, sent, object, stopped>>

Upload ==
  /\ running /\ runner.pc = "upload"
  /\ object' = Stored(runner.bytes)
  /\ sent' = {[seq |-> runner.seq, bytes |-> runner.bytes]}
  /\ runner' = [runner EXCEPT !.pc = Over, !.ok = TRUE]
  /\ UNCHANGED <<storeVars, stop, busy, stopped>>

UploadFails ==
  /\ running /\ runner.pc = "upload"
  /\ runner' = [runner EXCEPT !.pc = Over, !.ok = FALSE]
  /\ UNCHANGED <<storeVars, stop, busy, sent, object, stopped>>

-----------------------------------------------------------------------------
(* stop().                                                                 *)

Flag ==
  /\ running /\ ~stop
  /\ stop' = TRUE
  /\ UNCHANGED <<storeVars, busy, runner, sent, object, stopped>>

\* The workers are joined, then the durability thread.
Joined ==
  /\ stop
  /\ \A w \in Worker : busy[w] = {}
  /\ runner.pc = "done"
  /\ Exit
  /\ stopped' = runner.ok
  /\ UNCHANGED <<stop, busy, runner, sent, object>>

\* The process dies, or gives up on a thread that outlives its budget.
Killed ==
  /\ Exit
  /\ busy' = [w \in Worker |-> {}]
  /\ UNCHANGED <<stop, runner, sent, object, stopped>>

\* The node is replaced: its disk is gone.
NewNode ==
  /\ ~running /\ file.there
  /\ file' = NoFile
  /\ UNCHANGED <<running, records, nextSeq, failed, acked, durVars>>

Next ==
  \/ Start \/ Restore \/ Flag \/ Joined \/ Killed \/ NewNode
  \/ \E w \in Worker : Handle(w) \/ \E c \in Click : Take(w, c)
  \/ Due \/ ReadSeq \/ Copy \/ Upload \/ UploadFails

Spec == Init /\ [][Next]_vars

(* After an orderly stop whose last snapshot went through, the snapshot has*)
(* every acknowledged submission: a new node starts with all of them       *)
(* (serve.rs:193).                                                         *)
StopKeepsAll == stopped => acked \subseteq Log!RecordsOf(object.lines)
=============================================================================
