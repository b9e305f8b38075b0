------------------------------ MODULE WriteBack ------------------------------
(***************************************************************************)
(* POST /api/save (duckext/src/serve.rs, handle_save) and the readers of   *)
(* the change log (src/host/writeback.rs): writers save edits made on some *)
(* generation of the log, a save that would overwrite a newer one is       *)
(* refused, and panels read the saved tables through two caches keyed by   *)
(* the generation.  A client may send any of its saves again at any time,  *)
(* with any base.  As in Submit, checks that refuse without a trace are    *)
(* left out; a writer's mutex is one per user, which is what ViewerLocks   *)
(* amounts to while it drops no mutex in use (Submit).                     *)
(***************************************************************************)
EXTENDS StateStore, SequencesExt

CONSTANTS
  Table, Key, Field,
  Thread,    \* HTTP workers that handle saves
  Reader,    \* HTTP workers that run panels
  Click,     \* [user, id, body]: the saves clients send
  Base,      \* the generations a page may send as its base
  MaxExits   \* model bound: ends of a server process

Change == [table : Table, op : {"replace", "upsert"},
           cells : SUBSET (Key \X Field)]

ASSUME WriteBackAssumption ==
  /\ Body \subseteq Seq(Change)
  /\ Click \subseteq [user : User, id : Id, body : Body] /\ Click # {}
  /\ Base \subseteq Nat
  /\ MaxExits \in Nat

VARIABLES
  req,        \* per worker: where handle_save is, its click and its base
  commit,     \* WritebackRuntime.commit is held
  recent,     \* RecentIds: {[key, gen]} answered in this process
  forgotten,  \* history: the entries RecentIds dropped in this process
  cache,      \* Store.trainer_cache: [gen, rows]
  folded,     \* WritebackRuntime.folded: [gen, tables]
  view,       \* per reader: where WritebackRuntime.snapshot is
  bases,      \* history: [rec, base] of this process's saves
  lifeSeq,    \* history: next_seq when this process opened the store
  exits       \* ends of a process so far

saveVars == <<req, commit, recent, forgotten, bases>>
readVars == <<folded, view>>
vars == <<storeVars, saveVars, readVars, cache, lifeSeq, exits>>

-----------------------------------------------------------------------------
(* src/host/writeback.rs: conflicts and the folded tables.                 *)

\* touched: the keys of a change; a replace touches the whole table.
Touches(ch, k) == ch.op = "replace" \/ \E f \in Field : <<k, f>> \in ch.cells

ChangesClash(m, th) ==
  /\ m.table = th.table
  /\ \/ "replace" \in {m.op, th.op}
     \/ \E k \in Key : Touches(m, k) /\ Touches(th, k)

\* conflicts: change set b would overwrite part of change set c.
Clash(b, c) ==
  \E i \in 1..Len(b), j \in 1..Len(c) : ChangesClash(b[i], c[j])

\* TableNow: a cell's value stands for the save that wrote it.
NoRows == [c \in {} |-> 0]
Untouched == [t \in Table |-> [replaced |-> FALSE, rows |-> NoRows]]

Written(cells, seq, over) ==
  [c \in cells \cup DOMAIN over |-> IF c \in cells THEN seq ELSE over[c]]

\* apply_change.
ApplyChange(now, ch, seq) ==
  IF ch.op = "replace"
  THEN [replaced |-> TRUE, rows |-> Written(ch.cells, seq, NoRows)]
  ELSE [now EXCEPT !.rows = Written(ch.cells, seq, @)]

ApplyTo(tables, ch, seq) ==
  [tables EXCEPT ![ch.table] = ApplyChange(@, ch, seq)]

\* fold: the change log folded into each table, oldest save first.
ApplySave(tables, r) ==
  FoldLeft(LAMBDA now, ch : ApplyTo(now, ch, r.seq), tables, r.body)

Fold(s) == FoldLeft(ApplySave, Untouched, s)

-----------------------------------------------------------------------------
(* The process.                                                            *)

Gen == nextSeq - 1

Idle == [pc |-> "idle", click |-> CHOOSE c \in Click : TRUE, base |-> 0]
Blank == [pc |-> "idle", from |-> 0, hint |-> 0, gen |-> 0, rows |-> <<>>,
          tables |-> Untouched]
NoCache == [gen |-> -1, rows |-> <<>>]
NoFold == [gen |-> -1, tables |-> Untouched]

\* From try_lock to the end of the handler.
Critical == {"panel", "commit", "append", "remember"}

Init ==
  /\ StoreInit
  /\ req = [t \in Thread |-> Idle]
  /\ commit = FALSE
  /\ recent = {} /\ forgotten = {} /\ bases = {}
  /\ cache = NoCache /\ folded = NoFold
  /\ view = [r \in Reader |-> Blank]
  /\ lifeSeq = 1
  /\ exits = 0

Start ==
  /\ Open
  /\ lifeSeq' = nextSeq'
  /\ UNCHANGED <<saveVars, readVars, cache, exits>>

\* The process ends, with every request it was handling.
End ==
  /\ exits < MaxExits
  /\ exits' = exits + 1
  /\ req' = [t \in Thread |-> Idle]
  /\ commit' = FALSE
  /\ recent' = {} /\ forgotten' = {} /\ bases' = {}
  /\ cache' = NoCache /\ folded' = NoFold
  /\ view' = [r \in Reader |-> Blank]
  /\ UNCHANGED lifeSeq

Stop == Exit /\ End
Crash == running /\ PowerLoss /\ End

\* What happens to the file while no server runs.
Offline ==
  /\ ~running
  /\ OpenCrash \/ EraseCrash \/ PowerLoss \/ \E u \in User : Erase(u)
  /\ UNCHANGED <<saveVars, readVars, cache, lifeSeq, exits>>

-----------------------------------------------------------------------------
(* handle_save.                                                            *)

KeyOf(c) == [user |-> c.user, id |-> c.id]
Remembered(c) == \E e \in recent : e.key = KeyOf(c)

Goto(t, pc) == req' = [req EXCEPT ![t].pc = pc]
Return(t) == req' = [req EXCEPT ![t] = Idle]

\* Up to the writer's mutex: the store has not failed and the id is new.
Arrive(t, c, b) ==
  /\ running /\ ~failed
  /\ req[t].pc = "idle"
  /\ ~Remembered(c)
  /\ req' = [req EXCEPT ![t] = [pc |-> "lock", click |-> c, base |-> b]]
  /\ UNCHANGED <<storeVars, commit, recent, forgotten, bases, readVars,
                 cache, lifeSeq, exits>>

Locked(u) == \E t \in Thread : req[t].pc \in Critical /\ req[t].click.user = u

\* try_lock on the writer's mutex: 409 when another save of hers has it.
TryLock(t) ==
  /\ req[t].pc = "lock"
  /\ IF Locked(req[t].click.user) THEN Return(t) ELSE Goto(t, "panel")
  /\ UNCHANGED <<storeVars, commit, recent, forgotten, bases, readVars,
                 cache, lifeSeq, exits>>

\* Wrong on purpose (Answered): the id is not asked again under the mutex.
AnsweredNever(t) == FALSE

\* Another worker has answered the same save since it arrived.
Answered(t) == Remembered(req[t].click)

\* Under the mutex: the id again; the ::SAVE statement, the coercion of the
\* values and the policy's check may refuse.
Panel(t) ==
  /\ req[t].pc = "panel"
  /\ Return(t) \/ (~Answered(t) /\ Goto(t, "commit"))
  /\ UNCHANGED <<storeVars, commit, recent, forgotten, bases, readVars,
                 cache, lifeSeq, exits>>

\* Store::snapshot_all: the cached rows when the hint read before is theirs,
\* else the records as they are, cached unless a newer answer is.
Hit(hint) == cache.gen = hint
Snapshot(hint) == IF Hit(hint) THEN cache ELSE [gen |-> Gen, rows |-> records]
KeepSnapshot(hint) ==
  cache' = IF ~Hit(hint) /\ cache.gen <= Gen
           THEN [gen |-> Gen, rows |-> records] ELSE cache

\* The saves since the base that this one would silently overwrite.
Overwrites(c, b, rows) ==
  \E i \in 1..Len(rows) : rows[i].seq > b /\ Clash(c.body, rows[i].body)

\* Wrong on purpose (MayCommit): no mutex around check and append.
MayCommitAlways == TRUE

\* The commit mutex is free.
MayCommit == ~commit

\* Under the commit mutex, no append can run: the hint is exact.  A clash is
\* answered 409 with the generation looked at.
CheckConflicts(t) ==
  /\ req[t].pc = "commit"
  /\ MayCommit
  /\ KeepSnapshot(Gen)
  /\ IF Overwrites(req[t].click, req[t].base, Snapshot(Gen).rows)
     THEN Return(t) /\ UNCHANGED commit
     ELSE Goto(t, "append") /\ commit' = TRUE
  /\ UNCHANGED <<storeVars, recent, forgotten, bases, readVars, lifeSeq,
                 exits>>

Store(t) ==
  /\ req[t].pc = "append"
  /\ LET c == req[t].click IN
       /\ AppendOk(c.user, c.id, c.body)
       /\ bases' = bases \cup {[rec |-> NewRecord(c.user, c.id, c.body),
                                base |-> req[t].base]}
  /\ Goto(t, "remember")
  /\ commit' = FALSE
  /\ UNCHANGED <<recent, forgotten, readVars, cache, lifeSeq, exits>>

\* 503 when the write fails or an earlier one has, 507 when the file is full.
StoreFails(t) ==
  /\ req[t].pc = "append"
  /\ LET c == req[t].click IN
       \/ AppendFails(c.user, c.id, c.body)
       \/ (failed \/ Full) /\ UNCHANGED storeVars
  /\ Return(t)
  /\ commit' = FALSE
  /\ UNCHANGED <<recent, forgotten, bases, readVars, cache, lifeSeq, exits>>

StoreCrash(t) ==
  /\ req[t].pc = "append"
  /\ LET c == req[t].click IN AppendCrash(c.user, c.id, c.body)
  /\ End

\* The answer (201, the record's generation) is kept and sent.
Saved(t) == CHOOSE r \in acked : KeyOf(r) = KeyOf(req[t].click)
              /\ \A q \in acked : KeyOf(q) = KeyOf(r) => q.seq <= r.seq

Remember(t) ==
  /\ req[t].pc = "remember"
  /\ recent' = recent \cup {[key |-> KeyOf(req[t].click),
                             gen |-> Saved(t).seq]}
  /\ Return(t)
  /\ UNCHANGED <<storeVars, commit, forgotten, bases, readVars, cache,
                 lifeSeq, exits>>

ForgetId ==
  /\ \E e \in recent :
       recent' = recent \ {e} /\ forgotten' = forgotten \cup {e.key}
  /\ UNCHANGED <<storeVars, req, commit, bases, readVars, cache, lifeSeq,
                 exits>>

-----------------------------------------------------------------------------
(* A panel that reads a saved table: WritebackRuntime::snapshot.           *)

\* snapshot_all's first step: gen_hint, without a lock.
ReadHint(r) ==
  /\ running
  /\ view[r].pc = "idle"
  /\ view' = [view EXCEPT ![r].pc = "rows", ![r].hint = Gen,
                          ![r].from = Gen]
  /\ UNCHANGED <<storeVars, saveVars, cache, folded, lifeSeq, exits>>

\* Wrong on purpose (Taken): rows read now under the generation hinted at before.
TakenAtHint(hint) ==
  [gen |-> hint, rows |-> Snapshot(hint).rows]

\* What snapshot_all returns.
Taken(hint) == Snapshot(hint)

ReadRows(r) ==
  /\ view[r].pc = "rows"
  /\ LET s == Taken(view[r].hint) IN
       view' = [view EXCEPT ![r].pc = "fold", ![r].gen = s.gen,
                            ![r].rows = s.rows]
  /\ KeepSnapshot(view[r].hint)
  /\ UNCHANGED <<storeVars, saveVars, folded, lifeSeq, exits>>

\* Under the mutex of `folded`: its tables when they are this generation's.
ReadFold(r) ==
  /\ view[r].pc = "fold"
  /\ LET g == view[r].gen
         mine == [gen |-> g, tables |-> Fold(view[r].rows)]
         hit == folded.gen = g
     IN /\ view' = [view EXCEPT
                      ![r].pc = "show", ![r].rows = <<>>,
                      ![r].tables = IF hit THEN folded.tables ELSE mine.tables]
        /\ folded' = IF ~hit /\ folded.gen <= g THEN mine ELSE folded
  /\ UNCHANGED <<storeVars, saveVars, cache, lifeSeq, exits>>

\* The panel is answered.
Show(r) ==
  /\ view[r].pc = "show"
  /\ view' = [view EXCEPT ![r] = Blank]
  /\ UNCHANGED <<storeVars, saveVars, cache, folded, lifeSeq, exits>>

\* A worker's own steps, whatever it was sent.
Handle(t) ==
  \/ TryLock(t) \/ Panel(t) \/ CheckConflicts(t)
  \/ Store(t) \/ StoreFails(t) \/ StoreCrash(t) \/ Remember(t)

Next ==
  \/ Start \/ Stop \/ Crash \/ Offline \/ ForgetId
  \/ \E t \in Thread :
       Handle(t) \/ \E c \in Click, b \in Base : Arrive(t, c, b)
  \/ \E r \in Reader : ReadHint(r) \/ ReadRows(r) \/ ReadFold(r) \/ Show(r)

Spec == Init /\ [][Next]_vars

-----------------------------------------------------------------------------

Writes(x, t, c) ==
  \E i \in 1..Len(x.body) : x.body[i].table = t /\ c \in x.body[i].cells
Replaces(x, t) ==
  \E i \in 1..Len(x.body) : x.body[i].table = t /\ x.body[i].op = "replace"
WritesRow(x, t, k) == \E f \in Field : Writes(x, t, <<k, f>>)

\* Save s undoes save x: it replaces a table x changed, changes a table x
\* replaced, or changes a row x changed.
Undoes(s, x) ==
  \E t \in Table :
    \/ Replaces(s, t) /\ (Replaces(x, t) \/ \E k \in Key : WritesRow(x, t, k))
    \/ Replaces(x, t) /\ \E k \in Key : WritesRow(s, t, k)
    \/ \E k \in Key : WritesRow(s, t, k) /\ WritesRow(x, t, k)

(* No save is silently overwritten: an accepted save undoes nothing that   *)
(* was saved after the base it was made on, however many writers save at   *)
(* once (serve.rs:12136).                                                  *)
SavesChecked ==
  \A s \in bases, x \in Log!RecordsOf(records) :
    (s.base < x.seq /\ x.seq < s.rec.seq) => ~Undoes(s.rec, x)

(* While the server remembers a save's id, that save is one record: a      *)
(* retry is answered from memory, also when it overtakes the first try.    *)
SavedOnce ==
  \A i, j \in 1..Len(records) :
    (/\ i < j
     /\ records[i].seq >= lifeSeq
     /\ KeyOf(records[i]) = KeyOf(records[j]))
      => KeyOf(records[i]) \in forgotten

\* Save x writes cell c, and nothing later in it replaces the table (a graph
\* whose two tables are one).
Leaves(x, t, c) == \E i \in 1..Len(x.body) :
  /\ x.body[i].table = t /\ c \in x.body[i].cells
  /\ \A j \in i + 1..Len(x.body) :
       ~(x.body[j].table = t /\ x.body[j].op = "replace")

\* The save a cell of table t shows at generation g: the last one that wrote
\* it, unless a later one replaced the table; 0 for none.
LastWriter(g, t, c) ==
  LET upTo == {x \in Log!RecordsOf(records) : x.seq <= g}
      w == {x \in upTo : Leaves(x, t, c)
              /\ \A y \in upTo : Replaces(y, t) => y.seq <= x.seq}
  IN IF w = {} THEN 0 ELSE (CHOOSE x \in w : \A y \in w : y.seq <= x.seq).seq

(* A panel shows the saved tables exactly as the generation in its cache   *)
(* key has them, and no older than when the panel was asked for, whichever *)
(* of the two caches its rows came from (serve.rs:3271).                   *)
PanelsExact ==
  \A r \in Reader : view[r].pc = "show" =>
    /\ view[r].gen >= view[r].from
    /\ \A t \in Table : LET now == view[r].tables[t] IN
         /\ \A c \in Key \X Field :
              LastWriter(view[r].gen, t, c)
                = IF c \in DOMAIN now.rows THEN now.rows[c] ELSE 0
         /\ now.replaced = \E x \in Log!RecordsOf(records) :
                             x.seq <= view[r].gen /\ Replaces(x, t)
=============================================================================
