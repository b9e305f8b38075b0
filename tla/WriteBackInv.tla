---------------------------- MODULE WriteBackInv ----------------------------
(***************************************************************************)
(* The inductive invariants of WriteBack.  Its saves: the store's          *)
(* (StoreInv), and what a save has checked under its writer's mutex and    *)
(* under the commit mutex, which still holds when it appends.  Its panels: *)
(* what the two caches and each reader hold is the log at a generation.    *)
(***************************************************************************)
EXTENDS WriteBack

Pcs == {"idle", "lock"} \cup Critical
Requests == [pc : Pcs, click : Click, base : Nat]

SaveTypes ==
  /\ req \in [Thread -> Requests]
  /\ commit \in BOOLEAN
  /\ lifeSeq \in Nat
  /\ bases \subseteq [rec : Record, base : Nat]
  /\ cache.gen \in Int

\* Without a process there is no request and nothing is remembered.
Quiet ==
  ~running =>
    /\ \A t \in Thread : req[t].pc = "idle"
    /\ \A r \in Reader : view[r].pc = "idle"
    /\ ~commit /\ recent = {} /\ forgotten = {} /\ bases = {}
    /\ cache = NoCache /\ records = <<>>

\* The commit mutex is held by the one worker that appends next.
CommitHeld ==
  /\ \A t \in Thread : req[t].pc = "append" => commit
  /\ \A s, t \in Thread : req[s].pc = "append" /\ req[t].pc = "append" => s = t

\* No two saves of one writer are past her mutex.
OnePerWriter == \A s, t \in Thread :
  (/\ req[s].pc \in Critical /\ req[t].pc \in Critical
   /\ req[s].click.user = req[t].click.user)
    => s = t

\* Memory is in order, below the next number.
Numbered ==
  \A i \in 1..Len(records) :
    /\ records[i].seq < nextSeq
    /\ \A j \in 1..Len(records) : i < j => records[i].seq < records[j].seq

\* The cached rows are older than the records, or are the records.
CacheOK ==
  running => cache.gen <= Gen /\ (cache.gen = Gen => cache.rows = records)

\* What was checked under the commit mutex ...
Unclashed == \A t \in Thread :
  req[t].pc = "append" => ~Overwrites(req[t].click, req[t].base, records)

\* ... and under the writer's.
NotYet == \A t \in Thread : req[t].pc \in {"commit", "append"} =>
  \A i \in 1..Len(records) :
    records[i].seq >= lifeSeq /\ KeyOf(records[i]) = KeyOf(req[t].click) =>
      KeyOf(records[i]) \in forgotten

\* A record of this process has been answered, or is about to be.
Known == \A i \in 1..Len(records) :
  records[i].seq >= lifeSeq =>
    \/ KeyOf(records[i]) \in forgotten
    \/ Remembered(records[i])
    \/ \E t \in Thread :
         req[t].pc = "remember" /\ KeyOf(req[t].click) = KeyOf(records[i])

\* This process's saves are under numbers it has given out.
BasesPast == \A s \in bases : s.rec.seq < nextSeq

SaveInv ==
  /\ SaveTypes /\ Quiet /\ CommitHeld /\ OnePerWriter /\ Numbered /\ CacheOK
  /\ Unclashed /\ NotYet /\ Known /\ BasesPast /\ SavesChecked /\ SavedOnce

IInv == StoreInv /\ SaveInv

-----------------------------------------------------------------------------
(* The panels.                                                             *)

CellRows == UNION {[D -> Nat] : D \in SUBSET (Key \X Field)}
Tables == [Table -> [replaced : BOOLEAN, rows : CellRows]]
Views == [pc : {"idle", "rows", "fold", "show"}, from : Int, hint : Int, gen : Int,
          rows : Seq(Record), tables : Tables]

\* The first n records are the log at generation g.
Reaches(n, g) == \A i \in 1..Len(records) : i <= n <=> records[i].seq <= g

RowsAt(rows, g) == \E n \in 0..Len(records) :
  Reaches(n, g) /\ rows = SubSeq(records, 1, n)
TablesAt(tables, g) == \E n \in 0..Len(records) :
  Reaches(n, g) /\ tables = Fold(SubSeq(records, 1, n))

CacheAt == cache.gen # -1 => cache.gen <= Gen /\ RowsAt(cache.rows, cache.gen)

FoldedOK ==
  /\ folded.gen \in Int
  /\ folded.gen # -1 => folded.gen <= Gen /\ TablesAt(folded.tables, folded.gen)
  /\ ~running => folded = NoFold

\* A reader never falls behind the generation it was asked for at.
ViewOK(v) ==
  /\ v.pc = "rows" => v.hint = v.from /\ 0 <= v.from /\ v.from <= Gen
  /\ v.pc \in {"fold", "show"} => 0 <= v.from /\ v.from <= v.gen /\ v.gen <= Gen
  /\ v.pc = "fold" => RowsAt(v.rows, v.gen)
  /\ v.pc = "show" => TablesAt(v.tables, v.gen)

ReadInv ==
  /\ view \in [Reader -> Views]
  /\ CacheAt /\ FoldedOK
  /\ \A r \in Reader : ViewOK(view[r])
=============================================================================
