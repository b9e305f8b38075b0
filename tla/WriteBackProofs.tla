--------------------------- MODULE WriteBackProofs ---------------------------
(***************************************************************************)
(* Proofs about WriteBack, for any writers, saves, bases and sizes: IInv   *)
(* is inductive, so that no save undoes one it has not seen, and the saves *)
(* implement the log; what fold returns is, cell by cell, what the log     *)
(* says, and the panels show that at the generation they are keyed by.     *)
(***************************************************************************)
EXTENDS WriteBackInv, StateStoreProofs, FoldFacts

-----------------------------------------------------------------------------
(* What conflicts compares.                                                *)

\* A save that undoes another one clashes with it (writeback.rs, conflicts).
LEMMA UndoesClash ==
  ASSUME NEW s \in Record, NEW x \in Record, Undoes(s, x)
  PROVE  Clash(s.body, x.body)
<1>1. PICK t \in Table :
        \/ Replaces(s, t) /\ (Replaces(x, t) \/ \E k \in Key : WritesRow(x, t, k))
        \/ Replaces(x, t) /\ \E k \in Key : WritesRow(s, t, k)
        \/ \E k \in Key : WritesRow(s, t, k) /\ WritesRow(x, t, k)
  BY DEF Undoes
<1>2. CASE Replaces(s, t) /\ (Replaces(x, t) \/ \E k \in Key : WritesRow(x, t, k))
  <2>1. PICK i \in 1..Len(s.body) : s.body[i].table = t /\ s.body[i].op = "replace"
    BY <1>2 DEF Replaces
  <2>2. PICK j \in 1..Len(x.body) : x.body[j].table = t
    BY <1>2 DEF Replaces, WritesRow, Writes
  <2>3. ChangesClash(s.body[i], x.body[j])
    BY <2>1, <2>2 DEF ChangesClash
  <2>4. QED
    BY <2>3 DEF Clash
<1>3. CASE Replaces(x, t) /\ \E k \in Key : WritesRow(s, t, k)
  <2>1. PICK j \in 1..Len(x.body) : x.body[j].table = t /\ x.body[j].op = "replace"
    BY <1>3 DEF Replaces
  <2>2. PICK i \in 1..Len(s.body) : s.body[i].table = t
    BY <1>3 DEF WritesRow, Writes
  <2>3. ChangesClash(s.body[i], x.body[j])
    BY <2>1, <2>2 DEF ChangesClash
  <2>4. QED
    BY <2>3 DEF Clash
<1>4. ASSUME NEW k \in Key, WritesRow(s, t, k) /\ WritesRow(x, t, k)
      PROVE  Clash(s.body, x.body)
  <2>1. PICK i \in 1..Len(s.body) :
          s.body[i].table = t /\ \E f \in Field : <<k, f>> \in s.body[i].cells
    BY <1>4 DEF WritesRow, Writes
  <2>2. PICK j \in 1..Len(x.body) :
          x.body[j].table = t /\ \E f \in Field : <<k, f>> \in x.body[j].cells
    BY <1>4 DEF WritesRow, Writes
  <2>3. Touches(s.body[i], k) /\ Touches(x.body[j], k)
    BY <2>1, <2>2 DEF Touches
  <2>4. ChangesClash(s.body[i], x.body[j])
    BY <2>1, <2>2, <2>3 DEF ChangesClash
  <2>5. QED
    BY <2>4 DEF Clash
<1>5. QED
  BY <1>1, <1>2, <1>3, <1>4

-----------------------------------------------------------------------------
(* One worker.                                                             *)

LEMMA ReqType ==
  ASSUME SaveTypes, NEW t \in Thread
  PROVE  /\ req[t] \in Requests /\ req[t].pc \in Pcs /\ req[t].click \in Click
         /\ req[t].base \in Nat
         /\ req[t].click.user \in User /\ req[t].click.id \in Id
         /\ req[t].click.body \in Body
<1>1. req[t] \in Requests
  BY DEF SaveTypes
<1>2. req[t].click \in [user : User, id : Id, body : Body]
  BY <1>1, WriteBackAssumption DEF Requests
<1>3. QED
  BY <1>1, <1>2 DEF Requests

LEMMA Moved ==
  ASSUME SaveTypes, NEW t \in Thread, NEW pc \in Pcs, Goto(t, pc)
  PROVE  /\ req' \in [Thread -> Requests]
         /\ req'[t].pc = pc /\ req'[t].click = req[t].click
         /\ req'[t].base = req[t].base
         /\ \A s \in Thread \ {t} : req'[s] = req[s]
BY DEF SaveTypes, Goto, Requests

LEMMA IdleType == Idle \in Requests /\ Idle.pc = "idle"
BY WriteBackAssumption DEF Idle, Requests, Pcs

LEMMA Returned ==
  ASSUME SaveTypes, NEW t \in Thread, Return(t)
  PROVE  /\ req' \in [Thread -> Requests] /\ req'[t].pc = "idle"
         /\ \A s \in Thread \ {t} : req'[s] = req[s]
BY IdleType DEF SaveTypes, Return

\* A worker at work belongs to a process.
LEMMA AtWork ==
  ASSUME IInv, NEW t \in Thread, req[t].pc # "idle"
  PROVE  running = TRUE
BY DEF IInv, SaveInv, Quiet, StoreInv, StoreTypes

\* A worker whose state moves within the rules disturbs nobody else.
LEMMA WorkerKeeps ==
  ASSUME IInv, NEW t \in Thread, running' = TRUE,
         UNCHANGED <<records, nextSeq, recent, forgotten, bases, lifeSeq>>,
         \A s \in Thread \ {t} : req'[s] = req[s],
         req[t].pc # "remember",
         req'[t].pc \in Critical =>
           \A s \in Thread \ {t} : req[s].pc \in Critical =>
             req[s].click.user # req'[t].click.user,
         \A s \in Thread : req'[s].pc = "append" => commit',
         req'[t].pc = "append" =>
           /\ \A s \in Thread \ {t} : req[s].pc # "append"
           /\ ~Overwrites(req'[t].click, req'[t].base, records),
         req'[t].pc \in {"commit", "append"} =>
           \A i \in 1..Len(records) :
             records[i].seq >= lifeSeq /\ KeyOf(records[i]) = KeyOf(req'[t].click) =>
               KeyOf(records[i]) \in forgotten
  PROVE  /\ Quiet' /\ CommitHeld' /\ OnePerWriter' /\ Numbered' /\ Unclashed'
         /\ NotYet' /\ Known' /\ BasesPast' /\ SavesChecked' /\ SavedOnce'
<1>1. Quiet'
  BY DEF Quiet
<1>2. CommitHeld'
  BY DEF IInv, SaveInv, CommitHeld
<1>3. OnePerWriter'
  BY DEF IInv, SaveInv, OnePerWriter
<1>4. Numbered' /\ BasesPast'
  BY DEF IInv, SaveInv, Numbered, BasesPast
<1>5. Unclashed'
  <2>1. ASSUME NEW s \in Thread, req'[s].pc = "append"
        PROVE  ~Overwrites(req'[s].click, req'[s].base, records')
    BY <2>1 DEF IInv, SaveInv, Unclashed
  <2>2. QED
    BY <2>1 DEF Unclashed
<1>6. NotYet'
  <2>1. ASSUME NEW s \in Thread, req'[s].pc \in {"commit", "append"},
               NEW i \in 1..Len(records), records[i].seq >= lifeSeq,
               KeyOf(records[i]) = KeyOf(req'[s].click)
        PROVE  KeyOf(records[i]) \in forgotten
    BY <2>1 DEF IInv, SaveInv, NotYet
  <2>2. QED
    BY <2>1 DEF NotYet, KeyOf
<1>7. Known'
  <2>1. ASSUME NEW i \in 1..Len(records), records[i].seq >= lifeSeq,
               KeyOf(records[i]) \notin forgotten, ~Remembered(records[i])
        PROVE  \E s \in Thread :
                 req'[s].pc = "remember" /\ KeyOf(req'[s].click) = KeyOf(records[i])
    <3>1. PICK s \in Thread :
            req[s].pc = "remember" /\ KeyOf(req[s].click) = KeyOf(records[i])
      BY <2>1 DEF IInv, SaveInv, Known
    <3>2. s \in Thread \ {t}
      BY <3>1
    <3>3. QED
      BY <3>1, <3>2
  <2>2. QED
    BY <2>1 DEF Known, KeyOf, Remembered
<1>8. SavesChecked'
  <2>1. \A s \in bases', x \in Log!RecordsOf(records') :
          (s.base < x.seq /\ x.seq < s.rec.seq) => ~Undoes(s.rec, x)
    BY DEF IInv, SaveInv, SavesChecked
  <2>2. QED
    BY <2>1 DEF SavesChecked
<1>9. SavedOnce'
  BY DEF IInv, SaveInv, SavedOnce, KeyOf
<1>10. QED
  BY <1>1, <1>2, <1>3, <1>4, <1>5, <1>6, <1>7, <1>8, <1>9

\* A worker that goes back to idle from anywhere but its answer.
LEMMA ReturnKeeps ==
  ASSUME IInv, NEW t \in Thread, Return(t), running' = TRUE,
         UNCHANGED <<records, nextSeq, recent, forgotten, bases, lifeSeq>>,
         req[t].pc # "remember",
         \A s \in Thread \ {t} : req[s].pc = "append" => commit'
  PROVE  /\ Quiet' /\ CommitHeld' /\ OnePerWriter' /\ Numbered' /\ Unclashed'
         /\ NotYet' /\ Known' /\ BasesPast' /\ SavesChecked' /\ SavedOnce'
<1>1. req'[t].pc = "idle" /\ \A s \in Thread \ {t} : req'[s] = req[s]
  BY Returned DEF IInv, SaveInv
<1>2. "idle" \notin Critical
  BY DEF Critical
<1>3. \A s \in Thread : req'[s].pc = "append" => commit'
  BY <1>1
<1>4. QED
  BY <1>1, <1>2, <1>3, WorkerKeeps

\* The cache against records that have not changed.
LEMMA CacheKept ==
  ASSUME IInv, UNCHANGED <<records, nextSeq, cache>>, running
  PROVE  CacheOK'
BY DEF IInv, SaveInv, CacheOK, Gen

-----------------------------------------------------------------------------
(* The handler's steps that leave the store alone.                         *)

LEMMA ArriveStep ==
  ASSUME IInv, NEW t \in Thread, NEW c \in Click, NEW b \in Base, Arrive(t, c, b)
  PROVE  SaveInv'
<1>1. /\ UNCHANGED <<records, nextSeq, recent, forgotten, bases, lifeSeq, commit, cache>>
      /\ running /\ running' = TRUE /\ req[t].pc = "idle"
  BY DEF Arrive, storeVars, IInv, StoreInv, StoreTypes
<1>2. /\ req' \in [Thread -> Requests] /\ req'[t].pc = "lock"
      /\ \A s \in Thread \ {t} : req'[s] = req[s]
  <2>1. [pc |-> "lock", click |-> c, base |-> b] \in Requests
    BY WriteBackAssumption DEF Requests, Pcs
  <2>2. QED
    BY <2>1 DEF Arrive, IInv, SaveInv, SaveTypes
<1>3. "lock" \notin Critical
  BY DEF Critical
<1>4. \A s \in Thread : req'[s].pc = "append" => commit'
  BY <1>1, <1>2 DEF IInv, SaveInv, CommitHeld
<1>5. /\ Quiet' /\ CommitHeld' /\ OnePerWriter' /\ Numbered' /\ Unclashed'
      /\ NotYet' /\ Known' /\ BasesPast' /\ SavesChecked' /\ SavedOnce'
  BY <1>1, <1>2, <1>3, <1>4, WorkerKeeps
<1>6. SaveTypes' /\ CacheOK'
  BY <1>1, <1>2, CacheKept DEF IInv, SaveInv, SaveTypes
<1>7. QED
  BY <1>5, <1>6 DEF SaveInv

LEMMA TryLockStep ==
  ASSUME IInv, NEW t \in Thread, TryLock(t)
  PROVE  SaveInv'
<1>1. /\ UNCHANGED <<records, nextSeq, recent, forgotten, bases, lifeSeq, commit, cache>>
      /\ req[t].pc = "lock" /\ UNCHANGED running
  BY DEF TryLock, storeVars
<1>2. running /\ running' = TRUE
  BY <1>1, AtWork
<1>3. CacheOK'
  BY <1>1, <1>2, CacheKept
<1>4. CASE Return(t)
  <2>1. \A s \in Thread \ {t} : req[s].pc = "append" => commit'
    BY <1>1 DEF IInv, SaveInv, CommitHeld
  <2>2. /\ Quiet' /\ CommitHeld' /\ OnePerWriter' /\ Numbered' /\ Unclashed'
        /\ NotYet' /\ Known' /\ BasesPast' /\ SavesChecked' /\ SavedOnce'
    BY <1>1, <1>2, <1>4, <2>1, ReturnKeeps
  <2>3. SaveTypes'
    BY <1>1, <1>4, Returned DEF IInv, SaveInv, SaveTypes
  <2>4. QED
    BY <1>3, <2>2, <2>3 DEF SaveInv
<1>5. CASE ~Locked(req[t].click.user) /\ Goto(t, "panel")
  <2>1. "panel" \in Pcs
    BY DEF Pcs, Critical
  <2>2. /\ req' \in [Thread -> Requests] /\ req'[t].pc = "panel"
        /\ req'[t].click = req[t].click
        /\ \A s \in Thread \ {t} : req'[s] = req[s]
    BY <1>5, <2>1, Moved DEF IInv, SaveInv
  <2>3. \A s \in Thread : req'[s].pc = "append" => commit'
    BY <1>1, <2>2 DEF IInv, SaveInv, CommitHeld
  <2>4. \A s \in Thread \ {t} : req[s].pc \in Critical =>
          req[s].click.user # req'[t].click.user
    BY <1>5, <2>2 DEF Locked
  <2>5. /\ Quiet' /\ CommitHeld' /\ OnePerWriter' /\ Numbered' /\ Unclashed'
        /\ NotYet' /\ Known' /\ BasesPast' /\ SavesChecked' /\ SavedOnce'
    BY <1>1, <1>2, <2>2, <2>3, <2>4, WorkerKeeps
  <2>6. SaveTypes'
    BY <1>1, <2>2 DEF IInv, SaveInv, SaveTypes
  <2>7. QED
    BY <1>3, <2>5, <2>6 DEF SaveInv
<1>6. QED
  BY <1>4, <1>5 DEF TryLock

\* Under the writer's mutex nobody else answers this save.
LEMMA PanelStep ==
  ASSUME IInv, NEW t \in Thread, Panel(t)
  PROVE  SaveInv'
<1>1. /\ UNCHANGED <<records, nextSeq, recent, forgotten, bases, lifeSeq, commit, cache>>
      /\ req[t].pc = "panel" /\ UNCHANGED running
  BY DEF Panel, storeVars
<1>2. running /\ running' = TRUE
  BY <1>1, AtWork
<1>3. CacheOK'
  BY <1>1, <1>2, CacheKept
<1>4. CASE Return(t)
  <2>1. \A s \in Thread \ {t} : req[s].pc = "append" => commit'
    BY <1>1 DEF IInv, SaveInv, CommitHeld
  <2>2. /\ Quiet' /\ CommitHeld' /\ OnePerWriter' /\ Numbered' /\ Unclashed'
        /\ NotYet' /\ Known' /\ BasesPast' /\ SavesChecked' /\ SavedOnce'
    BY <1>1, <1>2, <1>4, <2>1, ReturnKeeps
  <2>3. SaveTypes'
    BY <1>1, <1>4, Returned DEF IInv, SaveInv, SaveTypes
  <2>4. QED
    BY <1>3, <2>2, <2>3 DEF SaveInv
<1>5. CASE ~Answered(t) /\ Goto(t, "commit")
  <2>1. "commit" \in Pcs /\ "commit" \in Critical /\ "panel" \in Critical
        /\ "remember" \in Critical
    BY DEF Pcs, Critical
  <2>2. /\ req' \in [Thread -> Requests] /\ req'[t].pc = "commit"
        /\ req'[t].click = req[t].click
        /\ \A s \in Thread \ {t} : req'[s] = req[s]
    BY <1>5, <2>1, Moved DEF IInv, SaveInv
  <2>3. \A s \in Thread : req'[s].pc = "append" => commit'
    BY <1>1, <2>2 DEF IInv, SaveInv, CommitHeld
  <2>4. \A s \in Thread \ {t} : req[s].pc \in Critical =>
          req[s].click.user # req'[t].click.user
    BY <1>1, <2>1, <2>2 DEF IInv, SaveInv, OnePerWriter
  <2>5. ASSUME NEW i \in 1..Len(records), records[i].seq >= lifeSeq,
               KeyOf(records[i]) = KeyOf(req'[t].click)
        PROVE  KeyOf(records[i]) \in forgotten
    <3>1. ~Remembered(records[i])
      BY <1>5, <2>2, <2>5 DEF Answered, Remembered
    <3>2. ASSUME NEW s \in Thread, req[s].pc = "remember",
                 KeyOf(req[s].click) = KeyOf(records[i])
          PROVE  FALSE
      <4>1. req[s].click.user = req'[t].click.user
        BY <2>5, <3>2 DEF KeyOf
      <4>2. s # t
        BY <1>1, <3>2
      <4>3. QED
        BY <2>1, <2>4, <3>2, <4>1, <4>2
    <3>3. QED
      BY <2>5, <3>1, <3>2 DEF IInv, SaveInv, Known
  <2>6. /\ Quiet' /\ CommitHeld' /\ OnePerWriter' /\ Numbered' /\ Unclashed'
        /\ NotYet' /\ Known' /\ BasesPast' /\ SavesChecked' /\ SavedOnce'
    BY <1>1, <1>2, <2>2, <2>3, <2>4, <2>5, WorkerKeeps
  <2>7. SaveTypes'
    BY <1>1, <2>2 DEF IInv, SaveInv, SaveTypes
  <2>8. QED
    BY <1>3, <2>6, <2>7 DEF SaveInv
<1>6. QED
  BY <1>4, <1>5 DEF Panel

\* Whatever a reader hints at, it leaves the cache with older rows or the records.
LEMMA KeepSnapshotStep ==
  ASSUME IInv, running, NEW hint, KeepSnapshot(hint),
         UNCHANGED <<records, nextSeq>>
  PROVE  CacheOK' /\ cache'.gen \in Int
<1>1. Gen \in Int /\ Gen' = Gen
  BY DEF Gen, IInv, StoreInv, StoreTypes
<1>2. CASE cache' = [gen |-> Gen, rows |-> records]
  BY <1>1, <1>2 DEF CacheOK
<1>3. CASE cache' = cache
  BY <1>1, <1>3 DEF IInv, SaveInv, SaveTypes, CacheOK
<1>4. QED
  BY <1>2, <1>3 DEF KeepSnapshot

\* The conflict check sees the records as they are.
LEMMA ExactSnapshot ==
  ASSUME IInv, running
  PROVE  Snapshot(Gen).rows = records
BY DEF IInv, SaveInv, CacheOK, Snapshot, Hit

LEMMA CheckConflictsStep ==
  ASSUME IInv, NEW t \in Thread, CheckConflicts(t)
  PROVE  SaveInv'
<1>1. /\ UNCHANGED <<records, nextSeq, recent, forgotten, bases, lifeSeq>>
      /\ req[t].pc = "commit" /\ UNCHANGED running /\ ~commit /\ KeepSnapshot(Gen)
  BY DEF CheckConflicts, MayCommit, storeVars
<1>2. running /\ running' = TRUE
  BY <1>1, AtWork
<1>3. CacheOK' /\ cache'.gen \in Int
  <2>1. Gen \in Nat
    BY DEF Gen, IInv, StoreInv, StoreTypes
  <2>2. QED
    BY <1>1, <1>2, <2>1, KeepSnapshotStep
<1>4. \A s \in Thread : req[s].pc # "append"
  BY <1>1 DEF IInv, SaveInv, CommitHeld
<1>5. CASE Return(t) /\ UNCHANGED commit
  <2>1. /\ Quiet' /\ CommitHeld' /\ OnePerWriter' /\ Numbered' /\ Unclashed'
        /\ NotYet' /\ Known' /\ BasesPast' /\ SavesChecked' /\ SavedOnce'
    BY <1>1, <1>2, <1>4, <1>5, ReturnKeeps
  <2>2. SaveTypes'
    BY <1>1, <1>3, <1>5, Returned DEF IInv, SaveInv, SaveTypes
  <2>3. QED
    BY <1>3, <2>1, <2>2 DEF SaveInv
<1>6. CASE /\ ~Overwrites(req[t].click, req[t].base, Snapshot(Gen).rows)
           /\ Goto(t, "append") /\ commit' = TRUE
  <2>1. "append" \in Pcs /\ "append" \in Critical /\ "commit" \in Critical
    BY DEF Pcs, Critical
  <2>2. /\ req' \in [Thread -> Requests] /\ req'[t].pc = "append"
        /\ req'[t].click = req[t].click /\ req'[t].base = req[t].base
        /\ \A s \in Thread \ {t} : req'[s] = req[s]
    BY <1>6, <2>1, Moved DEF IInv, SaveInv
  <2>3. \A s \in Thread \ {t} : req[s].pc \in Critical =>
          req[s].click.user # req'[t].click.user
    BY <1>1, <2>1, <2>2 DEF IInv, SaveInv, OnePerWriter
  <2>4. ~Overwrites(req'[t].click, req'[t].base, records)
    BY <1>2, <1>6, <2>2, ExactSnapshot
  <2>5. \A i \in 1..Len(records) :
          records[i].seq >= lifeSeq /\ KeyOf(records[i]) = KeyOf(req'[t].click) =>
            KeyOf(records[i]) \in forgotten
    BY <1>1, <2>2 DEF IInv, SaveInv, NotYet
  <2>6. /\ Quiet' /\ CommitHeld' /\ OnePerWriter' /\ Numbered' /\ Unclashed'
        /\ NotYet' /\ Known' /\ BasesPast' /\ SavesChecked' /\ SavedOnce'
    BY <1>1, <1>2, <1>4, <1>6, <2>2, <2>3, <2>4, <2>5, WorkerKeeps
  <2>7. SaveTypes'
    BY <1>1, <1>3, <1>6, <2>2 DEF IInv, SaveInv, SaveTypes
  <2>8. QED
    BY <1>3, <2>6, <2>7 DEF SaveInv
<1>7. QED
  BY <1>5, <1>6 DEF CheckConflicts

LEMMA StoreFailsStep ==
  ASSUME IInv, NEW t \in Thread, StoreFails(t)
  PROVE  SaveInv'
<1>1. /\ UNCHANGED <<running, records, nextSeq, recent, forgotten, bases, lifeSeq, cache>>
      /\ req[t].pc = "append" /\ Return(t) /\ commit' = FALSE
  BY DEF StoreFails, AppendFails, storeVars
<1>2. running /\ running' = TRUE
  BY <1>1, AtWork
<1>3. \A s \in Thread \ {t} : req[s].pc # "append"
  BY <1>1 DEF IInv, SaveInv, CommitHeld
<1>4. /\ Quiet' /\ CommitHeld' /\ OnePerWriter' /\ Numbered' /\ Unclashed'
      /\ NotYet' /\ Known' /\ BasesPast' /\ SavesChecked' /\ SavedOnce'
  BY <1>1, <1>2, <1>3, ReturnKeeps
<1>5. SaveTypes' /\ CacheOK'
  BY <1>1, <1>2, Returned, CacheKept DEF IInv, SaveInv, SaveTypes
<1>6. QED
  BY <1>4, <1>5 DEF SaveInv

\* The append: nothing was saved between the check and it.
LEMMA AppendStep ==
  ASSUME IInv, NEW t \in Thread, Store(t)
  PROVE  SaveInv'
<1> DEFINE c == req[t].click
           r == NewRecord(c.user, c.id, c.body)
           e == [rec |-> r, base |-> req[t].base]
<1>1. /\ UNCHANGED <<running, recent, forgotten, lifeSeq, cache>>
      /\ req[t].pc = "append" /\ Goto(t, "remember") /\ commit' = FALSE
      /\ bases' = bases \cup {e}
      /\ records' = Append(records, r) /\ nextSeq' = nextSeq + 1
  BY DEF Store, AppendOk
<1>2. running' = TRUE /\ running
  BY <1>1, AtWork
<1>3. /\ c.user \in User /\ c.id \in Id /\ c.body \in Body /\ nextSeq \in Nat
      /\ req[t].base \in Nat /\ records \in Seq(Record)
  BY ReqType DEF IInv, SaveInv, StoreInv, StoreTypes
<1>4. r \in Record /\ r.seq = nextSeq /\ KeyOf(r) = KeyOf(c) /\ r.body = c.body
  BY <1>3 DEF NewRecord, KeyOf, Record, Log!Record
<1> HIDE DEF r
<1>5. /\ Len(records) \in Nat /\ Len(records') = Len(records) + 1
      /\ \A i \in 1..Len(records) : records'[i] = records[i]
      /\ records'[Len(records) + 1] = r
  BY <1>1, <1>3, <1>4, AppendedRecord, LenProperties
<1>6. \A i \in 1..Len(records) : records[i] \in Record /\ records[i].seq \in Nat
  BY <1>3, ElementOfSeq, RecordFields
<1>7. "remember" \in Pcs /\ "remember" \in Critical /\ "append" \in Critical
      /\ "commit" \in Critical
  BY DEF Pcs, Critical
<1>8. /\ req' \in [Thread -> Requests] /\ req'[t].pc = "remember" /\ req'[t].click = c
      /\ \A s \in Thread \ {t} : req'[s] = req[s]
  BY <1>1, <1>7, Moved DEF IInv, SaveInv
<1>9. \A s \in Thread : req'[s].pc # "append"
  BY <1>1, <1>8 DEF IInv, SaveInv, CommitHeld
<1>10. SaveTypes'
  <2>1. e \in [rec : Record, base : Nat]
    BY <1>3, <1>4
  <2>2. QED
    BY <1>1, <1>8, <2>1 DEF IInv, SaveInv, SaveTypes
<1>11. Quiet' /\ CommitHeld' /\ Unclashed'
  BY <1>2, <1>9 DEF Quiet, CommitHeld, Unclashed
<1>12. OnePerWriter'
  BY <1>1, <1>7, <1>8 DEF IInv, SaveInv, OnePerWriter
<1>13. Numbered'
  <2>1. ASSUME NEW i \in 1..Len(records') PROVE records'[i].seq < nextSeq'
    BY <1>1, <1>3, <1>4, <1>5, <1>6 DEF IInv, SaveInv, Numbered
  <2>2. ASSUME NEW i \in 1..Len(records'), NEW j \in 1..Len(records'), i < j
        PROVE  records'[i].seq < records'[j].seq
    <3>1. i \in 1..Len(records)
      BY <1>5, <2>2
    <3>2. CASE j \in 1..Len(records)
      BY <1>5, <2>2, <3>1, <3>2 DEF IInv, SaveInv, Numbered
    <3>3. CASE j = Len(records) + 1
      BY <1>4, <1>5, <3>1, <3>3 DEF IInv, SaveInv, Numbered
    <3>4. QED
      BY <1>5, <3>2, <3>3
  <2>3. QED
    BY <2>1, <2>2 DEF Numbered
<1>14. CacheOK'
  <2>1. cache.gen <= Gen /\ cache.gen \in Int /\ Gen \in Int /\ Gen' = Gen + 1
    BY <1>1, <1>2, <1>3 DEF IInv, SaveInv, SaveTypes, CacheOK, Gen
  <2>2. QED
    BY <1>1, <2>1 DEF CacheOK
<1>15. NotYet'
  <2>1. ASSUME NEW s \in Thread, req'[s].pc \in {"commit", "append"},
               NEW i \in 1..Len(records'), records'[i].seq >= lifeSeq,
               KeyOf(records'[i]) = KeyOf(req'[s].click)
        PROVE  KeyOf(records'[i]) \in forgotten
    <3>1. s # t /\ req'[s] = req[s]
      BY <1>8, <2>1
    <3>2. req[s].click.user # c.user
      BY <1>1, <1>7, <2>1, <3>1 DEF IInv, SaveInv, OnePerWriter
    <3>3. i # Len(records) + 1
      BY <1>4, <1>5, <2>1, <3>1, <3>2 DEF KeyOf
    <3>4. i \in 1..Len(records)
      BY <1>5, <3>3
    <3>5. QED
      BY <1>5, <2>1, <3>1, <3>4 DEF IInv, SaveInv, NotYet
  <2>2. QED
    BY <1>1, <2>1 DEF NotYet
<1>16. Known'
  <2>1. ASSUME NEW i \in 1..Len(records'), records'[i].seq >= lifeSeq,
               KeyOf(records'[i]) \notin forgotten, ~Remembered(records'[i])
        PROVE  \E s \in Thread :
                 req'[s].pc = "remember" /\ KeyOf(req'[s].click) = KeyOf(records'[i])
    <3>1. CASE i \in 1..Len(records)
      <4>1. PICK s \in Thread :
              req[s].pc = "remember" /\ KeyOf(req[s].click) = KeyOf(records[i])
        BY <1>5, <2>1, <3>1 DEF IInv, SaveInv, Known
      <4>2. s # t
        BY <1>1, <4>1
      <4>3. QED
        BY <1>5, <1>8, <3>1, <4>1, <4>2
    <3>2. CASE i = Len(records) + 1
      BY <1>4, <1>5, <1>8, <3>2
    <3>3. QED
      BY <1>5, <3>1, <3>2
  <2>2. QED
    BY <1>1, <2>1 DEF Known, Remembered
<1>17. BasesPast'
  <2>1. \A s \in bases : s.rec.seq \in Nat
    BY RecordFields DEF IInv, SaveInv, SaveTypes
  <2>2. QED
    BY <1>1, <1>3, <1>4, <2>1 DEF IInv, SaveInv, BasesPast
<1>18. SavesChecked'
  <2>1. ASSUME NEW s \in bases', NEW i \in 1..Len(records'),
               s.base < records'[i].seq, records'[i].seq < s.rec.seq
        PROVE  ~Undoes(s.rec, records'[i])
    <3>0. s.rec.seq <= nextSeq /\ s.rec.seq \in Nat
      <4>1. CASE s \in bases
        BY <1>3, <4>1, RecordFields DEF IInv, SaveInv, SaveTypes, BasesPast
      <4>2. CASE s = e
        BY <1>3, <1>4, <4>2
      <4>3. QED
        BY <1>1, <4>1, <4>2
    <3>1. i \in 1..Len(records)
      BY <1>3, <1>4, <1>5, <2>1, <3>0
    <3>2. records'[i] = records[i] /\ records[i] \in Log!RecordsOf(records)
      BY <1>5, <3>1 DEF Log!RecordsOf
    <3>3. CASE s \in bases
      BY <2>1, <3>2, <3>3 DEF IInv, SaveInv, SavesChecked
    <3>4. CASE s = e
      <4>1. ~Overwrites(c, req[t].base, records)
        BY <1>1 DEF IInv, SaveInv, Unclashed
      <4>2. records[i].seq > req[t].base
        BY <1>3, <1>6, <2>1, <3>1, <3>2, <3>4
      <4>3. ~Clash(c.body, records[i].body)
        BY <3>1, <4>1, <4>2 DEF Overwrites
      <4>4. QED
        BY <1>4, <1>6, <3>1, <3>2, <3>4, <4>3, UndoesClash
    <3>5. QED
      BY <1>1, <3>3, <3>4
  <2>2. QED
    BY <2>1 DEF SavesChecked, Log!RecordsOf
<1>19. SavedOnce'
  <2>1. ASSUME NEW i \in 1..Len(records'), NEW j \in 1..Len(records'), i < j,
               records'[i].seq >= lifeSeq, KeyOf(records'[i]) = KeyOf(records'[j])
        PROVE  KeyOf(records'[i]) \in forgotten
    <3>1. i \in 1..Len(records)
      BY <1>5, <2>1
    <3>2. CASE j \in 1..Len(records)
      BY <1>5, <2>1, <3>1, <3>2 DEF IInv, SaveInv, SavedOnce
    <3>3. CASE j = Len(records) + 1
      BY <1>1, <1>4, <1>5, <2>1, <3>1, <3>3 DEF IInv, SaveInv, NotYet
    <3>4. QED
      BY <1>5, <3>2, <3>3
  <2>2. QED
    BY <1>1, <2>1 DEF SavedOnce
<1>20. QED
  BY <1>10, <1>11, <1>12, <1>13, <1>14, <1>15, <1>16, <1>17, <1>18, <1>19 DEF SaveInv

\* The answer is remembered before the mutex is let go.
LEMMA RememberStep ==
  ASSUME IInv, NEW t \in Thread, Remember(t)
  PROVE  SaveInv'
<1>1. /\ UNCHANGED <<running, records, nextSeq, forgotten, bases, lifeSeq, commit, cache>>
      /\ req[t].pc = "remember" /\ Return(t)
      /\ recent' = recent \cup {[key |-> KeyOf(req[t].click), gen |-> Saved(t).seq]}
  BY DEF Remember, storeVars
<1>2. running /\ running' = TRUE
  BY <1>1, AtWork
<1>3. /\ req' \in [Thread -> Requests] /\ req'[t].pc = "idle"
      /\ \A s \in Thread \ {t} : req'[s] = req[s]
  BY <1>1, Returned DEF IInv, SaveInv
<1>4. "idle" \notin Critical
  BY DEF Critical
<1>5. SaveTypes' /\ CacheOK' /\ Quiet'
  BY <1>1, <1>2, <1>3, CacheKept DEF IInv, SaveInv, SaveTypes, Quiet
<1>6. CommitHeld' /\ OnePerWriter' /\ Numbered' /\ BasesPast' /\ SavedOnce'
  BY <1>1, <1>3, <1>4
  DEF IInv, SaveInv, CommitHeld, OnePerWriter, Numbered, BasesPast, SavedOnce
<1>7. Unclashed'
  <2>1. \A s \in Thread :
          req'[s].pc = "append" => ~Overwrites(req'[s].click, req'[s].base, records')
    BY <1>1, <1>3 DEF IInv, SaveInv, Unclashed
  <2>2. QED
    BY <2>1 DEF Unclashed
<1>8. NotYet'
  <2>1. ASSUME NEW s \in Thread, req'[s].pc \in {"commit", "append"},
               NEW i \in 1..Len(records), records[i].seq >= lifeSeq,
               KeyOf(records[i]) = KeyOf(req'[s].click)
        PROVE  KeyOf(records[i]) \in forgotten
    <3>1. req'[s] = req[s]
      BY <1>3, <2>1
    <3>2. QED
      BY <2>1, <3>1 DEF IInv, SaveInv, NotYet
  <2>2. QED
    BY <1>1, <2>1 DEF NotYet
<1>9. Known'
  <2>1. ASSUME NEW i \in 1..Len(records), records[i].seq >= lifeSeq,
               KeyOf(records[i]) \notin forgotten
        PROVE  \/ \E e \in recent' : e.key = KeyOf(records[i])
               \/ \E s \in Thread : req'[s].pc = "remember"
                                      /\ KeyOf(req'[s].click) = KeyOf(records[i])
    <3>1. CASE Remembered(records[i])
      BY <1>1, <3>1 DEF Remembered
    <3>2. ASSUME NEW s \in Thread, req[s].pc = "remember",
                 KeyOf(req[s].click) = KeyOf(records[i])
          PROVE  \/ \E e \in recent' : e.key = KeyOf(records[i])
                 \/ req'[s].pc = "remember" /\ KeyOf(req'[s].click) = KeyOf(records[i])
      <4>1. CASE s = t
        <5>1. [key |-> KeyOf(req[t].click), gen |-> Saved(t).seq] \in recent'
          BY <1>1
        <5>2. [key |-> KeyOf(req[t].click), gen |-> Saved(t).seq].key = KeyOf(records[i])
          BY <3>2, <4>1
        <5>3. QED
          BY <5>1, <5>2
      <4>2. CASE s # t
        BY <1>3, <3>2, <4>2
      <4>3. QED
        BY <4>1, <4>2
    <3>3. QED
      BY <2>1, <3>1, <3>2 DEF IInv, SaveInv, Known
  <2>2. QED
    BY <1>1, <2>1 DEF Known, Remembered
<1>10. SavesChecked'
  <2>1. \A s \in bases', x \in Log!RecordsOf(records') :
          (s.base < x.seq /\ x.seq < s.rec.seq) => ~Undoes(s.rec, x)
    BY <1>1 DEF IInv, SaveInv, SavesChecked
  <2>2. QED
    BY <2>1 DEF SavesChecked
<1>11. QED
  BY <1>5, <1>6, <1>7, <1>8, <1>9, <1>10 DEF SaveInv

\* Nothing but what concerns remembered answers, or the cache, changes.
LEMMA OthersKeep ==
  ASSUME IInv, running,
         UNCHANGED <<running, records, nextSeq, req, commit, bases, lifeSeq>>,
         CacheOK', cache'.gen \in Int,
         forgotten \subseteq forgotten',
         \A i \in 1..Len(records) :
           Remembered(records[i]) => Remembered(records[i])' \/ KeyOf(records[i]) \in forgotten'
  PROVE  SaveInv'
<1>1. SaveTypes' /\ Quiet'
  BY DEF IInv, SaveInv, SaveTypes, Quiet
<1>2. CommitHeld' /\ OnePerWriter' /\ Numbered' /\ BasesPast' /\ SavedOnce' /\ NotYet'
  BY DEF IInv, SaveInv, CommitHeld, OnePerWriter, Numbered, BasesPast, SavedOnce, NotYet
<1>3. Unclashed'
  <2>1. \A s \in Thread :
          req'[s].pc = "append" => ~Overwrites(req'[s].click, req'[s].base, records')
    BY DEF IInv, SaveInv, Unclashed
  <2>2. QED
    BY <2>1 DEF Unclashed
<1>4. Known'
  <2>1. ASSUME NEW i \in 1..Len(records), records[i].seq >= lifeSeq,
               KeyOf(records[i]) \notin forgotten', ~Remembered(records[i])'
        PROVE  \E s \in Thread :
                 req[s].pc = "remember" /\ KeyOf(req[s].click) = KeyOf(records[i])
    BY <2>1 DEF IInv, SaveInv, Known
  <2>2. QED
    BY <2>1 DEF Known, Remembered
<1>5. SavesChecked'
  <2>1. \A s \in bases', x \in Log!RecordsOf(records') :
          (s.base < x.seq /\ x.seq < s.rec.seq) => ~Undoes(s.rec, x)
    BY DEF IInv, SaveInv, SavesChecked
  <2>2. QED
    BY <2>1 DEF SavesChecked
<1>6. QED
  BY <1>1, <1>2, <1>3, <1>4, <1>5 DEF SaveInv

LEMMA ForgetIdStep ==
  ASSUME IInv, ForgetId
  PROVE  SaveInv'
<1>1. UNCHANGED <<running, records, nextSeq, req, commit, bases, lifeSeq, cache>>
  BY DEF ForgetId, storeVars
<1>2. PICK e \in recent : recent' = recent \ {e} /\ forgotten' = forgotten \cup {e.key}
  BY DEF ForgetId
<1>3. running
  BY <1>2 DEF IInv, SaveInv, Quiet
<1>4. ASSUME NEW i \in 1..Len(records), Remembered(records[i])
      PROVE  Remembered(records[i])' \/ KeyOf(records[i]) \in forgotten'
  BY <1>1, <1>2, <1>4 DEF Remembered
<1>5. cache'.gen \in Int /\ CacheOK' /\ forgotten \subseteq forgotten'
  BY <1>1, <1>2, <1>3, CacheKept DEF IInv, SaveInv, SaveTypes
<1>6. QED
  BY <1>1, <1>3, <1>4, <1>5, OthersKeep

\* Readers touch nothing of a save's but the cache.
LEMMA ReaderStep ==
  ASSUME IInv, NEW r \in Reader,
         ReadHint(r) \/ ReadRows(r) \/ ReadFold(r) \/ Show(r)
  PROVE  SaveInv'
<1>1. UNCHANGED <<running, records, nextSeq, req, commit, bases, lifeSeq, recent, forgotten>>
  BY DEF ReadHint, ReadRows, ReadFold, Show, storeVars, saveVars
<1>2. running
  BY DEF IInv, SaveInv, Quiet, ReadHint, ReadRows, ReadFold, Show
<1>3. CASE UNCHANGED cache
  <2>1. CacheOK' /\ cache'.gen \in Int
    BY <1>1, <1>2, <1>3, CacheKept DEF IInv, SaveInv, SaveTypes
  <2>2. QED
    BY <1>1, <1>2, <2>1, OthersKeep DEF Remembered
<1>4. CASE KeepSnapshot(view[r].hint)
  <2>1. CacheOK' /\ cache'.gen \in Int
    BY <1>1, <1>2, <1>4, KeepSnapshotStep
  <2>2. QED
    BY <1>1, <1>2, <2>1, OthersKeep DEF Remembered
<1>5. QED
  BY <1>3, <1>4 DEF ReadHint, ReadRows, ReadFold, Show

-----------------------------------------------------------------------------
(* The ends and starts of processes.                                       *)

\* A process that ends leaves no request and no memory.
LEMMA EndKeeps ==
  ASSUME IInv, Gone, End
  PROVE  SaveInv'
<1>1. /\ req' = [t \in Thread |-> Idle] /\ commit' = FALSE
      /\ recent' = {} /\ forgotten' = {} /\ bases' = {}
      /\ cache' = NoCache /\ view' = [r \in Reader |-> Blank]
      /\ lifeSeq' = lifeSeq /\ running' = FALSE /\ records' = <<>>
  BY DEF End, Gone
<1>2. \A t \in Thread : req'[t].pc = "idle"
  BY <1>1, IdleType
<1>3. \A r \in Reader : view'[r].pc = "idle"
  BY <1>1 DEF Blank
<1>4. req' \in [Thread -> Requests] /\ cache'.gen \in Int
  BY <1>1, IdleType DEF NoCache
<1>5. SaveTypes'
  BY <1>1, <1>4 DEF IInv, SaveInv, SaveTypes
<1>6. "idle" \notin Critical
  BY DEF Critical
<1>7. Quiet' /\ CommitHeld' /\ OnePerWriter' /\ CacheOK'
  BY <1>1, <1>2, <1>3, <1>6 DEF Quiet, CommitHeld, OnePerWriter, CacheOK
<1>8. Len(records') = 0
  BY <1>1, EmptySeq
<1>9. Unclashed' /\ NotYet'
  BY <1>2 DEF Unclashed, NotYet
<1>10. Numbered' /\ Known' /\ SavedOnce'
  BY <1>8 DEF Numbered, Known, SavedOnce
<1>11. BasesPast' /\ SavesChecked'
  BY <1>1 DEF BasesPast, SavesChecked
<1>12. QED
  BY <1>5, <1>7, <1>9, <1>10, <1>11 DEF SaveInv

LEMMA StopStep ==
  ASSUME IInv, Stop
  PROVE  SaveInv'
BY EndKeeps DEF Stop, Exit

LEMMA CrashStep ==
  ASSUME IInv, Crash
  PROVE  SaveInv'
BY EndKeeps DEF Crash, PowerLoss

LEMMA StoreCrashStep ==
  ASSUME IInv, NEW t \in Thread, StoreCrash(t)
  PROVE  SaveInv'
BY EndKeeps DEF StoreCrash, AppendCrash

\* A process starts with the file's records and nothing remembered; no
\* record is of its life yet.
LEMMA StartStep ==
  ASSUME IInv, Start
  PROVE  SaveInv'
<1>1. /\ UNCHANGED <<req, commit, recent, forgotten, bases, cache, view>>
      /\ lifeSeq' = nextSeq' /\ ~running /\ running' = TRUE
      /\ records' = Readable /\ nextSeq' = NextSeq(Readable)
  BY DEF Start, Open, saveVars, readVars
<1>2. Readable \in Seq(Record) /\ Log!Ordered(Readable)
  BY ReadableSeq DEF IInv, StoreInv, StoreTypes
<1>3. nextSeq' \in Nat \ {0}
  <2>1. StoreInv'
    BY OpenStep DEF IInv, Start
  <2>2. QED
    BY <2>1 DEF StoreInv, StoreTypes
<1>4. /\ \A t \in Thread : req[t].pc = "idle"
      /\ bases = {} /\ cache = NoCache /\ ~commit
  BY <1>1 DEF IInv, SaveInv, Quiet
<1>5. SaveTypes'
  BY <1>1, <1>3 DEF IInv, SaveInv, SaveTypes
<1>6. Quiet' /\ CommitHeld' /\ OnePerWriter'
  BY <1>1 DEF IInv, SaveInv, Quiet, CommitHeld, OnePerWriter
<1>7. Unclashed' /\ NotYet'
  BY <1>1, <1>4 DEF Unclashed, NotYet
<1>8. \A i \in 1..Len(records') : records'[i].seq < nextSeq'
  BY <1>1, <1>2, NextSeqLarger
<1>9. Numbered'
  BY <1>1, <1>2, <1>8 DEF Numbered, Log!Ordered
<1>10. CacheOK'
  <2>1. cache'.gen = -1 /\ Gen' >= 0 /\ Gen' \in Int
    BY <1>1, <1>3, <1>4 DEF NoCache, Gen
  <2>2. QED
    BY <2>1 DEF CacheOK
<1>11. \A i \in 1..Len(records') : ~(records'[i].seq >= lifeSeq')
  <2>1. TAKE i \in 1..Len(records')
  <2>2. records'[i].seq \in Nat
    BY <1>1, <1>2, ElementOfSeq, RecordFields
  <2>3. QED
    BY <1>1, <1>3, <1>8, <2>2
<1>12. Known' /\ SavedOnce'
  BY <1>11 DEF Known, SavedOnce
<1>13. BasesPast' /\ SavesChecked'
  BY <1>1, <1>4 DEF BasesPast, SavesChecked
<1>14. QED
  BY <1>5, <1>6, <1>7, <1>9, <1>10, <1>12, <1>13 DEF SaveInv

\* What happens to the file while no server runs.
LEMMA OfflineStep ==
  ASSUME IInv, Offline
  PROVE  SaveInv'
<1>1. /\ UNCHANGED <<req, commit, recent, forgotten, bases, cache, view, lifeSeq>>
      /\ ~running
  BY DEF Offline, saveVars, readVars
<1>2. /\ \A t \in Thread : req[t].pc = "idle"
      /\ recent = {} /\ forgotten = {} /\ bases = {} /\ records = <<>>
  BY <1>1 DEF IInv, SaveInv, Quiet
<1>3. records' = <<>> /\ ~running'
  <2>1. running = FALSE
    BY <1>1 DEF IInv, StoreInv, StoreTypes
  <2>2. CASE OpenCrash \/ EraseCrash \/ \E u \in User : Erase(u)
    BY <1>2, <2>1, <2>2 DEF OpenCrash, EraseCrash, Erase
  <2>3. CASE PowerLoss
    BY <2>3 DEF PowerLoss, Gone
  <2>4. QED
    BY <2>2, <2>3 DEF Offline
<1>4. SaveTypes' /\ Quiet' /\ CommitHeld' /\ OnePerWriter' /\ CacheOK'
  BY <1>1, <1>2, <1>3
  DEF IInv, SaveInv, SaveTypes, Quiet, CommitHeld, OnePerWriter, CacheOK
<1>5. Len(records') = 0
  BY <1>3, EmptySeq
<1>6. Unclashed' /\ NotYet'
  BY <1>1, <1>2 DEF Unclashed, NotYet
<1>7. Numbered' /\ Known' /\ SavedOnce'
  BY <1>5 DEF Numbered, Known, SavedOnce
<1>8. BasesPast' /\ SavesChecked'
  BY <1>1, <1>2 DEF BasesPast, SavesChecked
<1>9. QED
  BY <1>4, <1>6, <1>7, <1>8 DEF SaveInv

-----------------------------------------------------------------------------

LEMMA WriteBackInit ==
  ASSUME Init
  PROVE  IInv
<1>1. StoreInit /\ StoreInv
  BY InitInv DEF Init
<1>2. /\ req = [t \in Thread |-> Idle] /\ commit = FALSE
      /\ recent = {} /\ forgotten = {} /\ bases = {}
      /\ cache = NoCache /\ view = [r \in Reader |-> Blank]
      /\ lifeSeq = 1 /\ records = <<>> /\ running = FALSE
  BY <1>1 DEF Init, StoreInit
<1>3. \A t \in Thread : req[t].pc = "idle"
  BY <1>2, IdleType
<1>4. \A r \in Reader : view[r].pc = "idle"
  BY <1>2 DEF Blank
<1>5. SaveTypes
  <2>1. req \in [Thread -> Requests] /\ cache.gen \in Int
    BY <1>2, IdleType DEF NoCache
  <2>2. QED
    BY <1>2, <2>1 DEF SaveTypes
<1>6. Quiet /\ CommitHeld /\ OnePerWriter /\ CacheOK
  BY <1>2, <1>3, <1>4 DEF Quiet, CommitHeld, OnePerWriter, CacheOK, Critical
<1>7. Len(records) = 0
  BY <1>2, EmptySeq
<1>8. Unclashed /\ NotYet
  BY <1>3 DEF Unclashed, NotYet
<1>9. Numbered /\ Known /\ SavedOnce
  BY <1>7 DEF Numbered, Known, SavedOnce
<1>10. BasesPast /\ SavesChecked
  BY <1>2 DEF BasesPast, SavesChecked
<1>11. QED
  BY <1>1, <1>5, <1>6, <1>8, <1>9, <1>10 DEF IInv, SaveInv

\* Every step of the server is a step of the store, or leaves it alone.
LEMMA ServerUsesStore ==
  ASSUME IInv, [Next]_vars
  PROVE  [StoreNext]_storeVars
<1>1. CASE UNCHANGED vars
  BY <1>1 DEF vars
<1>2. CASE Start \/ Stop \/ Crash \/ Offline
  BY <1>2 DEF Start, Stop, Crash, Offline, StoreNext
<1>3. CASE ForgetId
  BY <1>3 DEF ForgetId
<1>4. ASSUME NEW t \in Thread,
             \/ \E c \in Click, b \in Base : Arrive(t, c, b)
             \/ TryLock(t) \/ Panel(t) \/ CheckConflicts(t) \/ Remember(t)
      PROVE  UNCHANGED storeVars
  BY <1>4 DEF Arrive, TryLock, Panel, CheckConflicts, Remember
<1>5. ASSUME NEW t \in Thread, Store(t) \/ StoreFails(t) \/ StoreCrash(t)
      PROVE  [StoreNext]_storeVars
  <2>1. /\ req[t].click.user \in User /\ req[t].click.id \in Id
        /\ req[t].click.body \in Body
    BY ReqType DEF IInv, SaveInv
  <2>2. QED
    BY <1>5, <2>1 DEF Store, StoreFails, StoreCrash, StoreNext
<1>6. ASSUME NEW r \in Reader,
             ReadHint(r) \/ ReadRows(r) \/ ReadFold(r) \/ Show(r)
      PROVE  UNCHANGED storeVars
  BY <1>6 DEF ReadHint, ReadRows, ReadFold, Show
<1>7. QED
  BY <1>1, <1>2, <1>3, <1>4, <1>5, <1>6 DEF Next, Handle

\* A step that changes nothing.
LEMMA SaveStutter ==
  ASSUME IInv, UNCHANGED vars
  PROVE  SaveInv'
<1>1. UNCHANGED <<running, records, nextSeq, req, commit, recent, forgotten,
                  bases, cache, view, lifeSeq>>
  BY DEF vars, storeVars, saveVars, readVars
<1>2. SaveTypes' /\ Quiet' /\ CommitHeld' /\ OnePerWriter' /\ Numbered' /\ CacheOK'
  BY <1>1 DEF IInv, SaveInv, SaveTypes, Quiet, CommitHeld, OnePerWriter,
     Numbered, CacheOK, Gen
<1>3. Unclashed'
  <2>1. \A s \in Thread :
          req'[s].pc = "append" => ~Overwrites(req'[s].click, req'[s].base, records')
    BY <1>1 DEF IInv, SaveInv, Unclashed
  <2>2. QED
    BY <2>1 DEF Unclashed
<1>4. NotYet' /\ Known' /\ BasesPast' /\ SavedOnce'
  BY <1>1 DEF IInv, SaveInv, NotYet, Known, BasesPast, SavedOnce, Remembered
<1>5. SavesChecked'
  <2>1. \A s \in bases', x \in Log!RecordsOf(records') :
          (s.base < x.seq /\ x.seq < s.rec.seq) => ~Undoes(s.rec, x)
    BY <1>1 DEF IInv, SaveInv, SavesChecked
  <2>2. QED
    BY <2>1 DEF SavesChecked
<1>6. QED
  BY <1>2, <1>3, <1>4, <1>5 DEF SaveInv

LEMMA WriteBackStep ==
  ASSUME IInv, [Next]_vars
  PROVE  IInv'
<1>1. StoreInv'
  BY ServerUsesStore, StoreStep DEF IInv
<1>2. CASE UNCHANGED vars
  BY <1>1, <1>2, SaveStutter DEF IInv
<1>3. CASE Start \/ Stop \/ Crash \/ Offline \/ ForgetId
  BY <1>1, <1>3, StartStep, StopStep, CrashStep, OfflineStep, ForgetIdStep
  DEF IInv
<1>4. ASSUME NEW t \in Thread, NEW c \in Click, NEW b \in Base, Arrive(t, c, b)
      PROVE  IInv'
  BY <1>1, <1>4, ArriveStep DEF IInv
<1>5. ASSUME NEW t \in Thread, TryLock(t) \/ Panel(t) \/ CheckConflicts(t)
      PROVE  IInv'
  BY <1>1, <1>5, TryLockStep, PanelStep, CheckConflictsStep DEF IInv
<1>6. ASSUME NEW t \in Thread,
             Store(t) \/ StoreFails(t) \/ StoreCrash(t) \/ Remember(t)
      PROVE  IInv'
  BY <1>1, <1>6, AppendStep, StoreFailsStep, StoreCrashStep, RememberStep
  DEF IInv
<1>7. ASSUME NEW r \in Reader,
             ReadHint(r) \/ ReadRows(r) \/ ReadFold(r) \/ Show(r)
      PROVE  IInv'
  BY <1>1, <1>7, ReaderStep DEF IInv
<1>8. QED
  BY <1>2, <1>3, <1>4, <1>5, <1>6, <1>7 DEF Next, Handle

\* The inductive invariant of the saves and the store under them.
THEOREM SavesCorrect == Spec => []IInv
<1>1. Init => IInv
  BY WriteBackInit
<1>2. IInv /\ [Next]_vars => IInv'
  BY WriteBackStep
<1>3. QED
  BY <1>1, <1>2, PTL DEF Spec

\* No accepted save undoes one made after its base (handle_save's conflict
\* check and append under one mutex; writeback.rs, conflicts).
THEOREM SavesCheckedHolds == Spec => []SavesChecked
<1>1. IInv => SavesChecked
  BY DEF IInv, SaveInv
<1>2. QED
  BY <1>1, SavesCorrect, PTL

\* A save whose id the server remembers is one record (RecentIds, asked
\* again under the writer's mutex).
THEOREM SavedOnceHolds == Spec => []SavedOnce
<1>1. IInv => SavedOnce
  BY DEF IInv, SaveInv
<1>2. QED
  BY <1>1, SavesCorrect, PTL

\* A save that was acknowledged is on the disk, whatever fails or crashes
\* while the server takes saves (state.rs, append and open_impl).
THEOREM AckedSavesSurvive == Spec => []AckedSurvive
<1>1. IInv => AckedSurvive
  BY DEF IInv, StoreInv
<1>2. QED
  BY <1>1, SavesCorrect, PTL

\* The change log is the log the store promises.
THEOREM WriteBackImplementsLog == Spec => Promise
<1>1. Init => Log!LogInit
  BY DEF Init, StoreInit, NoFile, Log!LogInit
<1>2. IInv /\ [Next]_vars => [Log!LogNext]_(file.lines)
  BY ServerUsesStore, StoreStep DEF IInv
<1>3. QED
  BY <1>1, <1>2, SavesCorrect, PTL DEF Spec, Promise, Log!LogSpec

-----------------------------------------------------------------------------
(* What fold returns.                                                      *)

\* What the first m changes of a save do to a table.
ReplacesBy(x, m, t) == \E i \in 1..m : x.body[i].table = t /\ x.body[i].op = "replace"
LeavesBy(x, m, t, c) == \E i \in 1..m :
  /\ x.body[i].table = t /\ c \in x.body[i].cells
  /\ \A j \in i + 1..m : ~(x.body[j].table = t /\ x.body[j].op = "replace")

SaveIter(ts, r) == CHOOSE g : g =
  [S \in SUBSET DOMAIN r.body |->
    IF S = {} THEN ts ELSE ApplyTo(g[S \ {Max(S)}], r.body[Max(S)], r.seq)]

LEMMA SaveIs ==
  ASSUME NEW ts, NEW r PROVE ApplySave(ts, r) = SaveIter(ts, r)[DOMAIN r.body]
BY Zenon DEF ApplySave, SaveIter, FoldLeft, MapThenFoldSet

FoldIter(s) == CHOOSE g : g =
  [S \in SUBSET DOMAIN s |->
    IF S = {} THEN Untouched ELSE ApplySave(g[S \ {Max(S)}], s[Max(S)])]

LEMMA FoldIs ==
  ASSUME NEW s PROVE Fold(s) = FoldIter(s)[DOMAIN s]
BY Zenon DEF Fold, FoldIter, FoldLeft, MapThenFoldSet

\* One change.
Changed(ts, ch, seq, new) ==
  /\ new \in Tables
  /\ \A t \in Table :
       /\ new[t].replaced <=> ts[t].replaced \/ (ch.table = t /\ ch.op = "replace")
       /\ \A c : c \in DOMAIN new[t].rows <=>
            \/ ch.table = t /\ c \in ch.cells
            \/ ~(ch.table = t /\ ch.op = "replace") /\ c \in DOMAIN ts[t].rows
       /\ \A c \in DOMAIN new[t].rows : new[t].rows[c] =
            IF ch.table = t /\ c \in ch.cells THEN seq ELSE ts[t].rows[c]

LEMMA ChangeIs ==
  ASSUME NEW ts \in Tables, NEW ch \in Change, NEW seq \in Nat
  PROVE  Changed(ts, ch, seq, ApplyTo(ts, ch, seq))
<1> DEFINE new == ApplyTo(ts, ch, seq)
           was == ts[ch.table]
           now == ApplyChange(was, ch, seq)
<1>1. /\ ch.table \in Table /\ ch.op \in {"replace", "upsert"} /\ ch.cells \subseteq Key \X Field
      /\ was \in [replaced : BOOLEAN, rows : CellRows]
  BY DEF Tables, Change
<1>2. ASSUME NEW over \in CellRows
      PROVE  /\ Written(ch.cells, seq, over) \in CellRows
             /\ DOMAIN Written(ch.cells, seq, over) = ch.cells \cup DOMAIN over
             /\ \A c \in ch.cells \cup DOMAIN over :
                  Written(ch.cells, seq, over)[c] = IF c \in ch.cells THEN seq ELSE over[c]
  <2>1. PICK D \in SUBSET (Key \X Field) : over \in [D -> Nat]
    BY <1>2 DEF CellRows
  <2>2. Written(ch.cells, seq, over) \in [ch.cells \cup D -> Nat]
    BY <2>1 DEF Written
  <2>3. ch.cells \cup D \in SUBSET (Key \X Field)
    BY <1>1
  <2>4. QED
    BY <2>2, <2>3 DEF CellRows, Written
<1>3. NoRows \in CellRows /\ DOMAIN NoRows = {}
  <2>1. NoRows \in [{} -> Nat] /\ {} \in SUBSET (Key \X Field)
    BY DEF NoRows
  <2>2. QED
    BY <2>1 DEF CellRows
<1>4. /\ now \in [replaced : BOOLEAN, rows : CellRows]
      /\ now.replaced <=> was.replaced \/ ch.op = "replace"
      /\ now.rows = Written(ch.cells, seq, IF ch.op = "replace" THEN NoRows ELSE was.rows)
  <2>1. was.rows \in CellRows /\ was.replaced \in BOOLEAN
    BY <1>1
  <2>2. CASE ch.op = "replace"
    <3>1. now = [replaced |-> TRUE, rows |-> Written(ch.cells, seq, NoRows)]
      BY <2>2 DEF ApplyChange
    <3>2. Written(ch.cells, seq, NoRows) \in CellRows
      BY <1>2, <1>3
    <3> HIDE DEF now, was
    <3>3. QED
      BY <2>2, <3>1, <3>2
  <2>3. CASE ch.op # "replace"
    <3>1. now = [was EXCEPT !.rows = Written(ch.cells, seq, was.rows)]
      BY <2>3 DEF ApplyChange
    <3>2. Written(ch.cells, seq, was.rows) \in CellRows
      BY <1>2, <2>1
    <3> HIDE DEF now, was
    <3>3. QED
      BY <1>1, <2>1, <2>3, <3>1, <3>2
  <2>4. QED
    BY <2>2, <2>3
<1>5. /\ \A c : c \in DOMAIN now.rows <=>
           c \in ch.cells \/ (ch.op # "replace" /\ c \in DOMAIN was.rows)
      /\ \A c \in DOMAIN now.rows : now.rows[c] = IF c \in ch.cells THEN seq ELSE was.rows[c]
  <2>1. was.rows \in CellRows
    BY <1>1
  <2> HIDE DEF now, was
  <2>2. CASE ch.op = "replace"
    BY <1>2, <1>3, <1>4, <2>2
  <2>3. CASE ch.op # "replace"
    BY <1>2, <1>4, <2>1, <2>3
  <2>4. QED
    BY <2>2, <2>3
<1> HIDE DEF now
<1>6. /\ new = [ts EXCEPT ![ch.table] = now]
  BY DEF ApplyTo, now
<1>7. /\ new \in Tables /\ new[ch.table] = now
      /\ \A t \in Table : t # ch.table => new[t] = ts[t]
  BY <1>1, <1>4, <1>6 DEF Tables
<1> HIDE DEF new
<1>8. ASSUME NEW t \in Table
      PROVE  /\ new[t].replaced <=> ts[t].replaced \/ (ch.table = t /\ ch.op = "replace")
             /\ \A c : c \in DOMAIN new[t].rows <=>
                  \/ ch.table = t /\ c \in ch.cells
                  \/ ~(ch.table = t /\ ch.op = "replace") /\ c \in DOMAIN ts[t].rows
             /\ \A c \in DOMAIN new[t].rows : new[t].rows[c] =
                  IF ch.table = t /\ c \in ch.cells THEN seq ELSE ts[t].rows[c]
  <2>1. CASE ch.table = t
    BY <1>4, <1>5, <1>7, <2>1
  <2>2. CASE ch.table # t
    BY <1>7, <2>2
  <2>3. QED
    BY <2>1, <2>2
<1>9. QED
  BY <1>7, <1>8 DEF new, Changed

\* The changes of one save, one after the other.
Applied(ts, r, m, now) ==
  /\ now \in Tables
  /\ \A t \in Table :
       /\ now[t].replaced <=> ts[t].replaced \/ ReplacesBy(r, m, t)
       /\ \A c : c \in DOMAIN now[t].rows <=>
            LeavesBy(r, m, t, c) \/ (~ReplacesBy(r, m, t) /\ c \in DOMAIN ts[t].rows)
       /\ \A c \in DOMAIN now[t].rows : now[t].rows[c] =
            IF LeavesBy(r, m, t, c) THEN r.seq ELSE ts[t].rows[c]

LEMMA AppliedNext ==
  ASSUME NEW ts \in Tables, NEW r \in Record, r.body \in Seq(Change),
         NEW m \in Nat, m + 1 <= Len(r.body), NEW now, Applied(ts, r, m, now)
  PROVE  Applied(ts, r, m + 1, ApplyTo(now, r.body[m + 1], r.seq))
<1> DEFINE ch == r.body[m + 1]
           new == ApplyTo(now, ch, r.seq)
<1>1. m + 1 \in 1..Len(r.body) /\ Len(r.body) \in Nat /\ ch \in Change /\ r.seq \in Nat
  <2>1. r.seq \in Nat
    BY RecordFields
  <2>2. m + 1 \in 1..Len(r.body) /\ Len(r.body) \in Nat
    BY LenProperties
  <2>3. QED
    BY <2>1, <2>2, ElementOfSeq
<1>2. now \in Tables
  BY DEF Applied
<1>3. /\ new \in Tables
      /\ \A t \in Table :
           /\ new[t].replaced <=> now[t].replaced \/ (ch.table = t /\ ch.op = "replace")
           /\ \A c : c \in DOMAIN new[t].rows <=>
                \/ ch.table = t /\ c \in ch.cells
                \/ ~(ch.table = t /\ ch.op = "replace") /\ c \in DOMAIN now[t].rows
           /\ \A c \in DOMAIN new[t].rows : new[t].rows[c] =
                IF ch.table = t /\ c \in ch.cells THEN r.seq ELSE now[t].rows[c]
  <2>1. Changed(now, ch, r.seq, new)
    BY Zenon, <1>1, <1>2, ChangeIs
  <2> HIDE DEF new, ch
  <2>2. QED
    BY <2>1 DEF Changed
<1> HIDE DEF new
<1>4. \A i : i \in 1..m + 1 <=> i \in 1..m \/ i = m + 1
  OBVIOUS
<1>5. \A t : ReplacesBy(r, m + 1, t) <=>
        ReplacesBy(r, m, t) \/ (ch.table = t /\ ch.op = "replace")
  BY <1>4 DEF ReplacesBy
<1>6. \A i \in 1..m : \A j : j \in i + 1..m + 1 <=> j \in i + 1..m \/ j = m + 1
  OBVIOUS
<1>7. \A j : j \notin (m + 1) + 1..m + 1
  OBVIOUS
<1>8. ASSUME NEW t, NEW c
      PROVE  LeavesBy(r, m + 1, t, c) <=>
               \/ ch.table = t /\ c \in ch.cells
               \/ ~(ch.table = t /\ ch.op = "replace") /\ LeavesBy(r, m, t, c)
  BY <1>4, <1>6, <1>7 DEF LeavesBy
<1>9. ASSUME NEW t \in Table
      PROVE  /\ new[t].replaced <=> ts[t].replaced \/ ReplacesBy(r, m + 1, t)
             /\ \A c : c \in DOMAIN new[t].rows <=>
                  \/ LeavesBy(r, m + 1, t, c)
                  \/ ~ReplacesBy(r, m + 1, t) /\ c \in DOMAIN ts[t].rows
             /\ \A c \in DOMAIN new[t].rows : new[t].rows[c] =
                  IF LeavesBy(r, m + 1, t, c) THEN r.seq ELSE ts[t].rows[c]
  BY <1>3, <1>5, <1>8 DEF Applied
<1>10. QED
  BY <1>3, <1>9 DEF Applied, new

LEMMA SaveExact ==
  ASSUME NEW ts \in Tables, NEW r \in Record, r.body \in Seq(Change)
  PROVE  Applied(ts, r, Len(r.body), ApplySave(ts, r))
<1> DEFINE n == Len(r.body)
           st == [i \in 1..n |-> [u \in Tables |-> ApplyTo(u, r.body[i], r.seq)]]
           TurnAt(g, S) == IF S = {} THEN ts ELSE ApplyTo(g[S \ {Max(S)}], r.body[Max(S)], r.seq)
<1>1. n \in Nat /\ DOMAIN r.body = 1..n /\ r.seq \in Nat
  BY RecordFields, LenProperties
<1>2. ASSUME NEW i \in 1..n, NEW u \in Tables
      PROVE  ApplyTo(u, r.body[i], r.seq) \in Tables
  <2>1. r.body[i] \in Change
    BY <1>2, ElementOfSeq
  <2>2. Changed(u, r.body[i], r.seq, ApplyTo(u, r.body[i], r.seq))
    BY Zenon, <1>1, <1>2, <2>1, ChangeIs
  <2>3. QED
    BY <2>2 DEF Changed
<1>3. st \in [1..n -> [Tables -> Tables]]
  BY <1>2
<1>4. \A i \in 1..n : \A u \in Tables : st[i][u] = ApplyTo(u, r.body[i], r.seq)
  OBVIOUS
<1> HIDE DEF st
<1>5. PICK g \in [SUBSET (1..n) -> Tables] : \A S \in SUBSET (1..n) :
           g[S] = IF S = {} THEN ts ELSE st[Max(S)][g[S \ {Max(S)}]]
  <2>1. \E g : Folded(Tables, ts, n, st, g)
    BY Zenon, <1>1, <1>3, StepsDefined
  <2> HIDE DEF n
  <2>2. QED
    BY <2>1 DEF Folded
<1>6. \A S \in SUBSET (1..n) : S # {} => Max(S) \in S
  BY <1>1, MaxIn
<1>7. \A S \in SUBSET (1..n) : g[S] = TurnAt(g, S)
  <2>1. TAKE S \in SUBSET (1..n)
  <2>2. CASE S # {}
    <3>1. Max(S) \in 1..n /\ S \ {Max(S)} \in SUBSET (1..n)
      BY <1>6, <2>2
    <3>2. g[S \ {Max(S)}] \in Tables
      BY <1>5, <3>1
    <3>3. QED
      BY <1>4, <1>5, <2>2, <3>1, <3>2
  <2>3. QED
    BY <1>5, <2>2
<1>8. g = [S \in SUBSET (1..n) |-> TurnAt(g, S)]
  BY <1>5, <1>7
<1>9. SaveIter(ts, r) = [S \in SUBSET (1..n) |-> TurnAt(SaveIter(ts, r), S)]
  BY <1>1, <1>8 DEF SaveIter
<1> DEFINE h == SaveIter(ts, r)
<1>10. \A S \in SUBSET (1..n) : h[S] = TurnAt(h, S)
  BY <1>9
<1> HIDE DEF h
<1> DEFINE N == {m \in Nat : m <= n => Applied(ts, r, m, h[1..m])}
<1>11. 0 \in N
  <2>1. 1..0 = {} /\ 1..0 \in SUBSET (1..n)
    BY MaxIs
  <2>2. h[1..0] = ts
    BY <1>10, <2>1
  <2>3. Applied(ts, r, 0, ts)
    BY <2>1 DEF Applied, ReplacesBy, LeavesBy
  <2>4. QED
    BY <2>2, <2>3
<1>12. \A m \in Nat : m \in N => m + 1 \in N
  <2>1. SUFFICES ASSUME NEW m \in Nat, m \in N, m + 1 <= n
                 PROVE  Applied(ts, r, m + 1, h[1..m + 1])
    OBVIOUS
  <2>2. m <= n /\ 1..m + 1 \in SUBSET (1..n)
    BY <1>1, <2>1
  <2>3. Max(1..m + 1) = m + 1 /\ (1..m + 1) \ {m + 1} = 1..m /\ 1..m + 1 # {}
    BY MaxIs
  <2>4. h[1..m + 1] = ApplyTo(h[1..m], r.body[m + 1], r.seq)
    BY <1>10, <2>2, <2>3
  <2>5. Applied(ts, r, m, h[1..m])
    BY <2>1, <2>2
  <2>6. QED
    BY <2>1, <2>4, <2>5, AppliedNext
<1>13. n \in N
  <2> HIDE DEF N
  <2>1. QED
    BY <1>1, <1>11, <1>12, NumbersIn
<1>14. Applied(ts, r, n, h[1..n])
  BY <1>1, <1>13
<1>15. QED
  BY <1>1, <1>14, SaveIs DEF h

\* The first n records of a log, folded: a table is replaced when one of them
\* does; a cell shows the last one that leaves it, unless a later one replaces
\* the table.
Exact(s, n, tables) ==
  /\ tables \in Tables
  /\ \A t \in Table :
       /\ tables[t].replaced <=> \E i \in 1..n : Replaces(s[i], t)
       /\ \A c \in DOMAIN tables[t].rows : \E i \in 1..n :
            /\ Leaves(s[i], t, c) /\ tables[t].rows[c] = s[i].seq
            /\ \A j \in i + 1..n : ~Leaves(s[j], t, c) /\ ~Replaces(s[j], t)
       /\ \A c : c \notin DOMAIN tables[t].rows =>
            \A i \in 1..n : Leaves(s[i], t, c) => \E j \in i + 1..n : Replaces(s[j], t)

LEMMA ExactNext ==
  ASSUME NEW s \in Seq(Record), NEW n \in Nat, n + 1 <= Len(s), NEW now, Exact(s, n, now)
  PROVE  Exact(s, n + 1, ApplySave(now, s[n + 1]))
<1> DEFINE r == s[n + 1]
           new == ApplySave(now, r)
<1>1. r \in Record /\ now \in Tables /\ r.body \in Seq(Change)
  <2>1. n + 1 \in 1..Len(s)
    BY LenProperties
  <2>2. r \in Record
    BY <2>1, ElementOfSeq
  <2>3. r.body \in Body
    BY <2>2, RecordFields
  <2>4. QED
    BY <2>2, <2>3, WriteBackAssumption DEF Exact
<1>2. Applied(now, r, Len(r.body), new)
  BY Zenon, <1>1, SaveExact
<1>3. \A t : ReplacesBy(r, Len(r.body), t) <=> Replaces(r, t)
  BY DEF ReplacesBy, Replaces
<1>4. \A t, c : LeavesBy(r, Len(r.body), t, c) <=> Leaves(r, t, c)
  BY DEF LeavesBy, Leaves
<1> HIDE DEF new
<1>5. /\ new \in Tables
      /\ \A t \in Table :
           /\ new[t].replaced <=> now[t].replaced \/ Replaces(r, t)
           /\ \A c : c \in DOMAIN new[t].rows <=>
                Leaves(r, t, c) \/ (~Replaces(r, t) /\ c \in DOMAIN now[t].rows)
           /\ \A c \in DOMAIN new[t].rows : new[t].rows[c] =
                IF Leaves(r, t, c) THEN r.seq ELSE now[t].rows[c]
  BY <1>2, <1>3, <1>4 DEF Applied
<1>6. \A i : i \in 1..n + 1 <=> i \in 1..n \/ i = n + 1
  OBVIOUS
<1>7. \A i \in 1..n : \A j : j \in i + 1..n + 1 <=> j \in i + 1..n \/ j = n + 1
  OBVIOUS
<1>8. \A j : j \notin (n + 1) + 1..n + 1
  OBVIOUS
<1>9. ASSUME NEW t \in Table
      PROVE  /\ new[t].replaced <=> \E i \in 1..n + 1 : Replaces(s[i], t)
             /\ \A c \in DOMAIN new[t].rows : \E i \in 1..n + 1 :
                  /\ Leaves(s[i], t, c) /\ new[t].rows[c] = s[i].seq
                  /\ \A j \in i + 1..n + 1 : ~Leaves(s[j], t, c) /\ ~Replaces(s[j], t)
             /\ \A c : c \notin DOMAIN new[t].rows =>
                  \A i \in 1..n + 1 : Leaves(s[i], t, c) =>
                    \E j \in i + 1..n + 1 : Replaces(s[j], t)
  <2>1. new[t].replaced <=> \E i \in 1..n + 1 : Replaces(s[i], t)
    BY <1>5, <1>6 DEF Exact
  <2>2. ASSUME NEW c \in DOMAIN new[t].rows
        PROVE  \E i \in 1..n + 1 :
                 /\ Leaves(s[i], t, c) /\ new[t].rows[c] = s[i].seq
                 /\ \A j \in i + 1..n + 1 : ~Leaves(s[j], t, c) /\ ~Replaces(s[j], t)
    <3>1. CASE Leaves(r, t, c)
      <4>1. new[t].rows[c] = r.seq
        BY <1>5, <2>2, <3>1
      <4>2. QED
        BY <1>6, <1>8, <3>1, <4>1
    <3>2. CASE ~Leaves(r, t, c)
      <4>1. c \in DOMAIN now[t].rows /\ ~Replaces(r, t) /\ new[t].rows[c] = now[t].rows[c]
        BY <1>5, <2>2, <3>2
      <4>2. PICK i \in 1..n :
              /\ Leaves(s[i], t, c) /\ now[t].rows[c] = s[i].seq
              /\ \A j \in i + 1..n : ~Leaves(s[j], t, c) /\ ~Replaces(s[j], t)
        BY <4>1 DEF Exact
      <4>3. QED
        BY <1>6, <1>7, <3>2, <4>1, <4>2
    <3>3. QED
      BY <3>1, <3>2
  <2>3. ASSUME NEW c, c \notin DOMAIN new[t].rows, NEW i \in 1..n + 1, Leaves(s[i], t, c)
        PROVE  \E j \in i + 1..n + 1 : Replaces(s[j], t)
    <3>1. ~Leaves(r, t, c) /\ (c \notin DOMAIN now[t].rows \/ Replaces(r, t))
      BY <1>5, <2>3
    <3>2. i \in 1..n
      BY <1>6, <2>3, <3>1
    <3>3. CASE Replaces(r, t)
      BY <1>7, <3>2, <3>3
    <3>4. CASE c \notin DOMAIN now[t].rows
      BY <1>7, <2>3, <3>2, <3>4 DEF Exact
    <3>5. QED
      BY <3>1, <3>3, <3>4
  <2>4. QED
    BY <2>1, <2>2, <2>3
<1>10. QED
  BY <1>5, <1>9 DEF Exact, new

LEMMA ExactStart == \A s : Exact(s, 0, Untouched)
<1>1. \A t \in Table : Untouched[t] = [replaced |-> FALSE, rows |-> NoRows]
  BY DEF Untouched
<1>2. NoRows \in CellRows /\ DOMAIN NoRows = {}
  <2>1. NoRows \in [{} -> Nat] /\ {} \in SUBSET (Key \X Field) /\ DOMAIN NoRows = {}
    BY DEF NoRows
  <2>2. QED
    BY <2>1 DEF CellRows
<1>3. Untouched \in Tables
  BY <1>2 DEF Untouched, Tables
<1>4. \A i : i \notin 1..0
  OBVIOUS
<1>5. QED
  BY <1>1, <1>2, <1>3, <1>4 DEF Exact

\* What fold returns.
LEMMA FoldExact ==
  ASSUME NEW s \in Seq(Record)
  PROVE  Exact(s, Len(s), Fold(s))
<1> DEFINE n == Len(s)
           st == [i \in 1..n |-> [u \in Tables |-> ApplySave(u, s[i])]]
           TurnAt(g, S) == IF S = {} THEN Untouched ELSE ApplySave(g[S \ {Max(S)}], s[Max(S)])
<1>1. n \in Nat /\ DOMAIN s = 1..n
  BY LenProperties
<1>2. ASSUME NEW i \in 1..n, NEW u \in Tables
      PROVE  ApplySave(u, s[i]) \in Tables
  <2>1. s[i] \in Record
    BY <1>2, ElementOfSeq
  <2>2. s[i].body \in Seq(Change)
    BY <2>1, RecordFields, WriteBackAssumption
  <2>3. Applied(u, s[i], Len(s[i].body), ApplySave(u, s[i]))
    BY Zenon, <1>2, <2>1, <2>2, SaveExact
  <2>4. QED
    BY <2>3 DEF Applied
<1>3. st \in [1..n -> [Tables -> Tables]] /\ Untouched \in Tables
  BY <1>2, ExactStart DEF Exact
<1>4. \A i \in 1..n : \A u \in Tables : st[i][u] = ApplySave(u, s[i])
  OBVIOUS
<1> HIDE DEF st
<1>5. PICK g \in [SUBSET (1..n) -> Tables] : \A S \in SUBSET (1..n) :
           g[S] = IF S = {} THEN Untouched ELSE st[Max(S)][g[S \ {Max(S)}]]
  <2>1. \E g : Folded(Tables, Untouched, n, st, g)
    BY Zenon, <1>1, <1>3, StepsDefined
  <2> HIDE DEF n
  <2>2. QED
    BY <2>1 DEF Folded
<1>6. \A S \in SUBSET (1..n) : S # {} => Max(S) \in S
  BY <1>1, MaxIn
<1>7. \A S \in SUBSET (1..n) : g[S] = TurnAt(g, S)
  <2>1. TAKE S \in SUBSET (1..n)
  <2>2. CASE S # {}
    <3>1. Max(S) \in 1..n /\ S \ {Max(S)} \in SUBSET (1..n)
      BY <1>6, <2>2
    <3>2. g[S \ {Max(S)}] \in Tables
      BY <1>5, <3>1
    <3>3. QED
      BY <1>4, <1>5, <2>2, <3>1, <3>2
  <2>3. QED
    BY <1>5, <2>2
<1>8. g = [S \in SUBSET (1..n) |-> TurnAt(g, S)]
  BY <1>5, <1>7
<1>9. FoldIter(s) = [S \in SUBSET (1..n) |-> TurnAt(FoldIter(s), S)]
  BY <1>1, <1>8 DEF FoldIter
<1> DEFINE h == FoldIter(s)
<1>10. \A S \in SUBSET (1..n) : h[S] = TurnAt(h, S)
  BY <1>9
<1> HIDE DEF h
<1> DEFINE N == {m \in Nat : m <= n => Exact(s, m, h[1..m])}
<1>11. 0 \in N
  <2>1. 1..0 = {} /\ 1..0 \in SUBSET (1..n)
    BY MaxIs
  <2>2. h[1..0] = Untouched
    BY <1>10, <2>1
  <2>3. QED
    BY <2>2, ExactStart
<1>12. \A m \in Nat : m \in N => m + 1 \in N
  <2>1. SUFFICES ASSUME NEW m \in Nat, m \in N, m + 1 <= n
                 PROVE  Exact(s, m + 1, h[1..m + 1])
    OBVIOUS
  <2>2. m <= n /\ 1..m + 1 \in SUBSET (1..n)
    BY <1>1, <2>1
  <2>3. Max(1..m + 1) = m + 1 /\ (1..m + 1) \ {m + 1} = 1..m /\ 1..m + 1 # {}
    BY MaxIs
  <2>4. h[1..m + 1] = ApplySave(h[1..m], s[m + 1])
    BY <1>10, <2>2, <2>3
  <2>5. Exact(s, m, h[1..m])
    BY <2>1, <2>2
  <2>6. QED
    BY <2>1, <2>4, <2>5, ExactNext
<1>13. n \in N
  <2> HIDE DEF N
  <2>1. QED
    BY <1>1, <1>11, <1>12, NumbersIn
<1>14. Exact(s, n, h[1..n])
  BY <1>1, <1>13
<1>15. QED
  BY <1>1, <1>14, FoldIs DEF h

-----------------------------------------------------------------------------
(* The panels.                                                             *)

\* What a cell shows, by the records up to a generation.
LEMMA LastWriterIs ==
  ASSUME IInv, NEW g, NEW n \in 0..Len(records), Reaches(n, g),
         NEW tables, Exact(records, n, tables), NEW t \in Table
  PROVE  /\ \A c : LastWriter(g, t, c)
                   = IF c \in DOMAIN tables[t].rows THEN tables[t].rows[c] ELSE 0
         /\ tables[t].replaced = \E x \in Log!RecordsOf(records) :
                                  x.seq <= g /\ Replaces(x, t)
<1>1. /\ \A i \in 1..Len(records) : records[i].seq \in Nat
      /\ \A i, j \in 1..Len(records) : i < j => records[i].seq < records[j].seq
      /\ Len(records) \in Nat /\ 1..n \subseteq 1..Len(records)
  <2>1. records \in Seq(Record)
    BY DEF IInv, StoreInv, StoreTypes
  <2>2. \A i \in 1..Len(records) : records[i].seq \in Nat
    BY <2>1, ElementOfSeq, RecordFields
  <2>3. Len(records) \in Nat
    BY <2>1, LenProperties
  <2>4. QED
    BY <2>2, <2>3 DEF IInv, SaveInv, Numbered
<1> DEFINE upTo == {x \in Log!RecordsOf(records) : x.seq <= g}
<1>2. /\ \A i \in 1..n : records[i] \in upTo
      /\ \A x \in upTo : \E i \in 1..n : x = records[i]
  BY <1>1 DEF Log!RecordsOf, Reaches
<1>3. tables[t].replaced = \E x \in Log!RecordsOf(records) :
                            x.seq <= g /\ Replaces(x, t)
  <2>1. tables[t].replaced \in BOOLEAN
    BY DEF Exact, Tables
  <2>2. tables[t].replaced <=> \E i \in 1..n : Replaces(records[i], t)
    BY DEF Exact
  <2>3. QED
    BY <1>2, <2>1, <2>2
<1> HIDE DEF upTo
<1>4. ASSUME NEW c
      PROVE  LastWriter(g, t, c) = IF c \in DOMAIN tables[t].rows THEN tables[t].rows[c] ELSE 0
  <2> DEFINE w == {x \in upTo : Leaves(x, t, c)
                     /\ \A y \in upTo : Replaces(y, t) => y.seq <= x.seq}
  <2>1. LastWriter(g, t, c) =
          IF w = {} THEN 0 ELSE (CHOOSE x \in w : \A y \in w : y.seq <= x.seq).seq
    BY DEF LastWriter, upTo
  <2>2. CASE c \in DOMAIN tables[t].rows
    <3>1. PICK i \in 1..n :
            /\ Leaves(records[i], t, c) /\ tables[t].rows[c] = records[i].seq
            /\ \A j \in i + 1..n : ~Leaves(records[j], t, c) /\ ~Replaces(records[j], t)
      BY <2>2 DEF Exact
    <3>2. ASSUME NEW j \in 1..n, Leaves(records[j], t, c) \/ Replaces(records[j], t)
          PROVE  records[j].seq <= records[i].seq
      <4>1. j <= i
        BY <3>1, <3>2
      <4>2. QED
        BY <1>1, <4>1
    <3>3. records[i] \in w
      BY <1>2, <3>1, <3>2
    <3>4. \A y \in w : y.seq <= records[i].seq /\ y.seq \in Nat
      BY <1>1, <1>2, <3>2
    <3> DEFINE x == CHOOSE x \in w : \A y \in w : y.seq <= x.seq
    <3>5. x \in w /\ \A y \in w : y.seq <= x.seq
      BY <3>3, <3>4
    <3> HIDE DEF x
    <3>6. x.seq = records[i].seq
      BY <3>3, <3>4, <3>5
    <3>7. QED
      BY <2>1, <2>2, <3>1, <3>3, <3>6 DEF x
  <2>3. CASE c \notin DOMAIN tables[t].rows
    <3>1. ASSUME NEW x \in w PROVE FALSE
      <4>1. PICK i \in 1..n : x = records[i]
        BY <1>2
      <4>2. PICK j \in i + 1..n : Replaces(records[j], t)
        BY <2>3, <4>1 DEF Exact
      <4>3. j \in 1..n /\ i < j
        BY <1>1
      <4>4. records[j].seq <= records[i].seq
        BY <1>2, <4>1, <4>2, <4>3
      <4>5. QED
        BY <1>1, <4>3, <4>4
    <3>2. QED
      BY <2>1, <2>3, <3>1
  <2>4. QED
    BY <2>2, <2>3
<1>5. QED
  BY <1>3, <1>4

LEMMA PrefixIs ==
  ASSUME NEW s \in Seq(Record), NEW n \in 0..Len(s)
  PROVE  /\ SubSeq(s, 1, n) \in Seq(Record) /\ Len(SubSeq(s, 1, n)) = n
         /\ \A i \in 1..n : SubSeq(s, 1, n)[i] = s[i]
<1>1. Len(s) \in Nat /\ \A i \in 1..n : s[i] \in Record
  BY LenProperties, ElementOfSeq
<1>2. QED
  BY <1>1, SubSeqProperties

\* The tables of a generation, cell by cell.
LEMMA TablesExact ==
  ASSUME IInv, NEW tables, NEW g, TablesAt(tables, g)
  PROVE  /\ tables \in Tables
         /\ \E n \in 0..Len(records) : Reaches(n, g) /\ Exact(records, n, tables)
<1>1. records \in Seq(Record)
  BY DEF IInv, StoreInv, StoreTypes
<1>2. PICK n \in 0..Len(records) : Reaches(n, g) /\ tables = Fold(SubSeq(records, 1, n))
  BY DEF TablesAt
<1> DEFINE s == SubSeq(records, 1, n)
<1>3. s \in Seq(Record) /\ Len(s) = n /\ \A i \in 1..n : s[i] = records[i]
  BY <1>1, PrefixIs
<1>4. Exact(s, n, tables)
  BY <1>2, <1>3, FoldExact
<1> HIDE DEF s
<1>5. n \in Nat /\ \A i \in 1..n : i + 1..n \subseteq 1..n
  BY <1>1, LenProperties
<1>6. Exact(records, n, tables)
  BY <1>3, <1>4, <1>5 DEF Exact
<1>7. QED
  BY <1>2, <1>6 DEF Exact

LEMMA ShownExact ==
  ASSUME IInv, ReadInv
  PROVE  PanelsExact
<1> SUFFICES ASSUME NEW r \in Reader, view[r].pc = "show"
             PROVE  /\ view[r].gen >= view[r].from
                    /\ \A t \in Table :
                         /\ \A c \in Key \X Field : LastWriter(view[r].gen, t, c)
                              = IF c \in DOMAIN view[r].tables[t].rows
                                THEN view[r].tables[t].rows[c] ELSE 0
                         /\ view[r].tables[t].replaced =
                              \E x \in Log!RecordsOf(records) :
                                x.seq <= view[r].gen /\ Replaces(x, t)
  BY DEF PanelsExact
<1>1. view[r].from <= view[r].gen /\ TablesAt(view[r].tables, view[r].gen)
  BY DEF ReadInv, ViewOK
<1>2. view[r].from \in Int /\ view[r].gen \in Int
  BY DEF ReadInv, Views
<1>3. PICK n \in 0..Len(records) :
        Reaches(n, view[r].gen) /\ Exact(records, n, view[r].tables)
  BY <1>1, TablesExact
<1>4. ASSUME NEW t \in Table
      PROVE  /\ \A c : LastWriter(view[r].gen, t, c)
                  = IF c \in DOMAIN view[r].tables[t].rows
                    THEN view[r].tables[t].rows[c] ELSE 0
             /\ view[r].tables[t].replaced =
                  \E x \in Log!RecordsOf(records) :
                    x.seq <= view[r].gen /\ Replaces(x, t)
  <2>1. PICK g, tables : g = view[r].gen /\ tables = view[r].tables
    OBVIOUS
  <2>2. Reaches(n, g) /\ Exact(records, n, tables)
    BY <1>3, <2>1
  <2>3. /\ \A c : LastWriter(g, t, c)
             = IF c \in DOMAIN tables[t].rows THEN tables[t].rows[c] ELSE 0
        /\ tables[t].replaced =
             \E x \in Log!RecordsOf(records) : x.seq <= g /\ Replaces(x, t)
    BY <2>2, LastWriterIs
  <2>4. QED
    BY Zenon, <2>1, <2>3
<1>5. view[r].gen >= view[r].from
  BY <1>1, <1>2
<1>6. QED
  BY Zenon, <1>4, <1>5

LEMMA GenIs ==
  ASSUME IInv
  PROVE  /\ Gen \in Nat /\ records \in Seq(Record) /\ Len(records) \in Nat
         /\ running => RowsAt(records, Gen)
<1>1. nextSeq \in Nat \ {0} /\ records \in Seq(Record)
  BY DEF IInv, StoreInv, StoreTypes
<1>2. Len(records) \in Nat /\ \A i \in 1..Len(records) : records[i] \in Record
  BY <1>1, LenProperties, ElementOfSeq
<1>3. \A i \in 1..Len(records) : records[i].seq \in Nat /\ records[i].seq < nextSeq
  BY <1>2, RecordFields DEF IInv, SaveInv, Numbered
<1>4. Reaches(Len(records), Gen)
  BY <1>1, <1>2, <1>3 DEF Reaches, Gen
<1>5. records = SubSeq(records, 1, Len(records))
  <2> DEFINE s == SubSeq(records, 1, Len(records))
  <2>1. /\ s \in Seq(Record) /\ Len(s) = Len(records)
        /\ \A i \in 1..Len(records) : s[i] = records[i]
    BY <1>1, <1>2, PrefixIs
  <2> HIDE DEF s
  <2>2. s = records
    BY <1>1, <2>1, SeqEqual
  <2>3. QED
    BY <2>2 DEF s
<1>6. Len(records) \in 0..Len(records)
  BY <1>2
<1>7. RowsAt(records, Gen)
  BY <1>4, <1>5, <1>6 DEF RowsAt
<1>8. QED
  BY <1>1, <1>2, <1>7 DEF Gen

\* What the cache keeps is what the next reader of that generation may have.
LEMMA CacheStep ==
  ASSUME IInv, ReadInv, running, NEW hint, KeepSnapshot(hint),
         UNCHANGED <<records, nextSeq>>
  PROVE  CacheAt'
<1>1. Gen \in Nat /\ Gen' = Gen /\ RowsAt(records, Gen)
  BY GenIs DEF Gen
<1>2. \A rows, g : RowsAt(rows, g)' <=> RowsAt(rows, g)
  BY DEF RowsAt, Reaches
<1>3. CASE cache' = [gen |-> Gen, rows |-> records]
  <2>1. cache'.gen = Gen /\ cache'.rows = records
    BY <1>3
  <2>2. QED
    BY <1>1, <1>2, <2>1 DEF CacheAt
<1>4. CASE cache' = cache
  BY <1>1, <1>2, <1>4 DEF ReadInv, CacheAt
<1>5. QED
  BY <1>3, <1>4 DEF KeepSnapshot

\* A step that leaves the log and the readers alone.
LEMMA ReadersFrame ==
  ASSUME ReadInv, UNCHANGED <<running, records, nextSeq, folded, view>>, CacheAt'
  PROVE  ReadInv'
<1>1. Gen' = Gen
  BY DEF Gen
<1>2. /\ \A rows, g : RowsAt(rows, g)' <=> RowsAt(rows, g)
      /\ \A tables, g : TablesAt(tables, g)' <=> TablesAt(tables, g)
  BY DEF RowsAt, TablesAt, Reaches
<1>3. FoldedOK'
  BY <1>1, <1>2 DEF ReadInv, FoldedOK
<1>4. \A v : ViewOK(v)' <=> ViewOK(v)
  BY <1>1, <1>2 DEF ViewOK
<1>5. QED
  BY <1>3, <1>4 DEF ReadInv

\* A record more: the generations so far have what they had.
LEMMA GrowReads ==
  ASSUME IInv, IInv', ReadInv, NEW x \in Record, x.seq = nextSeq,
         records' = Append(records, x), nextSeq' = nextSeq + 1, running, running',
         UNCHANGED <<cache, folded, view>>
  PROVE  ReadInv'
<1>1. /\ records \in Seq(Record) /\ Len(records) \in Nat /\ Gen \in Nat
      /\ Gen' = Gen + 1 /\ nextSeq = Gen + 1
  <2>1. nextSeq \in Nat \ {0} /\ records \in Seq(Record)
    BY DEF IInv, StoreInv, StoreTypes
  <2>2. Len(records) \in Nat
    BY <2>1, LenProperties
  <2>3. QED
    BY <2>1, <2>2 DEF Gen
<1>2. /\ Len(records') = Len(records) + 1 /\ records' \in Seq(Record)
      /\ records'[Len(records) + 1] = x
      /\ \A i \in 1..Len(records) : records'[i] = records[i]
  BY <1>1, AppendProperties
<1>3. ASSUME NEW n \in 0..Len(records) PROVE SubSeq(records', 1, n) = SubSeq(records, 1, n)
  <2> DEFINE s == SubSeq(records, 1, n)
             u == SubSeq(records', 1, n)
  <2>1. /\ s \in Seq(Record) /\ Len(s) = n
        /\ \A i \in 1..n : s[i] = records[i]
    BY <1>1, PrefixIs
  <2>2. n \in 0..Len(records')
    BY <1>1, <1>2
  <2>3. /\ u \in Seq(Record) /\ Len(u) = n
        /\ \A i \in 1..n : u[i] = records'[i]
    BY <1>2, <2>2, PrefixIs
  <2> HIDE DEF s, u
  <2>4. \A i \in 1..n : u[i] = s[i]
    BY <1>1, <1>2, <2>1, <2>3
  <2>5. u = s
    BY <2>1, <2>3, <2>4, SeqEqual
  <2>6. QED
    BY <2>5 DEF s, u
<1>4. ASSUME NEW n \in 0..Len(records), NEW g \in Int, g <= Gen, Reaches(n, g)
      PROVE  Reaches(n, g)' /\ n \in 0..Len(records')
  <2>1. \A i \in 1..Len(records') : i \in 1..Len(records) \/ i = Len(records) + 1
    BY <1>1, <1>2
  <2>2. ~(Len(records) + 1 <= n) /\ ~(x.seq <= g)
    BY <1>1, <1>4
  <2>3. QED
    BY <1>1, <1>2, <1>4, <2>1, <2>2 DEF Reaches
<1>5. \A rows, g : g \in Int /\ g <= Gen /\ RowsAt(rows, g) => RowsAt(rows, g)'
  BY <1>3, <1>4 DEF RowsAt
<1>6. \A tables, g : g \in Int /\ g <= Gen /\ TablesAt(tables, g) => TablesAt(tables, g)'
  BY <1>3, <1>4 DEF TablesAt
<1>7. CacheAt'
  <2>1. cache.gen \in Int
    BY DEF IInv, SaveInv, SaveTypes
  <2>2. QED
    BY <1>1, <1>5, <2>1 DEF ReadInv, CacheAt
<1>8. FoldedOK'
  BY <1>1, <1>6 DEF ReadInv, FoldedOK
<1>9. ASSUME NEW r \in Reader PROVE ViewOK(view[r])'
  <2>1. view[r].from \in Int /\ view[r].gen \in Int /\ ViewOK(view[r])
    BY DEF ReadInv, Views
  <2>2. QED
    BY <1>1, <1>5, <1>6, <2>1 DEF ViewOK
<1>10. QED
  BY <1>7, <1>8, <1>9 DEF ReadInv

\* Nobody reads and nothing is cached: no process, or one that begins.
LEMMA Silent ==
  ASSUME view' \in [Reader -> Views], \A r \in Reader : view'[r].pc = "idle",
         cache' = NoCache, folded' = NoFold
  PROVE  ReadInv'
<1>1. cache'.gen = -1 /\ folded'.gen = -1
  BY DEF NoCache, NoFold
<1>2. CacheAt' /\ FoldedOK'
  BY <1>1 DEF CacheAt, FoldedOK
<1>3. \A r \in Reader : ViewOK(view[r])'
  BY DEF ViewOK
<1>4. QED
  BY <1>2, <1>3 DEF ReadInv

LEMMA BlankType == Blank \in Views /\ Blank.pc = "idle"
<1>1. Untouched \in Tables /\ <<>> \in Seq(Record)
  BY ExactStart, EmptySeq DEF Exact
<1>2. QED
  BY <1>1 DEF Blank, Views

LEMMA EndReads ==
  ASSUME End
  PROVE  ReadInv'
<1>1. /\ view' \in [Reader -> Views] /\ \A r \in Reader : view'[r].pc = "idle"
      /\ cache' = NoCache /\ folded' = NoFold
  BY BlankType DEF End
<1>2. QED
  BY <1>1, Silent

LEMMA SilentStep ==
  ASSUME IInv, ReadInv, Start \/ Offline
  PROVE  ReadInv'
<1>1. ~running /\ UNCHANGED <<view, folded, cache>>
  BY DEF Start, Open, Offline, readVars
<1>2. cache = NoCache /\ folded = NoFold /\ \A r \in Reader : view[r].pc = "idle"
  BY <1>1 DEF IInv, SaveInv, Quiet, ReadInv, FoldedOK
<1>3. QED
  BY <1>1, <1>2, Silent DEF ReadInv

-----------------------------------------------------------------------------
(* A reader's steps.                                                       *)

\* One reader's view changes.
LEMMA ViewStep ==
  ASSUME IInv, ReadInv, running, NEW r \in Reader, NEW v \in Views,
         view' = [view EXCEPT ![r] = v], ViewOK(v),
         UNCHANGED <<running, records, nextSeq>>, CacheAt', FoldedOK'
  PROVE  ReadInv'
<1>1. /\ view' \in [Reader -> Views] /\ view'[r] = v
      /\ \A q \in Reader \ {r} : view'[q] = view[q]
  BY DEF ReadInv
<1>2. Gen' = Gen
  BY DEF Gen
<1>3. /\ \A rows, g : RowsAt(rows, g)' <=> RowsAt(rows, g)
      /\ \A tables, g : TablesAt(tables, g)' <=> TablesAt(tables, g)
  BY DEF RowsAt, TablesAt, Reaches
<1>4. \A u : ViewOK(u)' <=> ViewOK(u)
  BY <1>2, <1>3 DEF ViewOK
<1>5. \A q \in Reader : ViewOK(view'[q])
  BY <1>1 DEF ReadInv
<1>6. QED
  BY <1>1, <1>4, <1>5 DEF ReadInv

LEMMA FoldedKept ==
  ASSUME ReadInv, UNCHANGED <<running, records, nextSeq, folded>>
  PROVE  FoldedOK'
<1>1. \A tables, g : TablesAt(tables, g)' <=> TablesAt(tables, g)
  BY DEF TablesAt, Reaches
<1>2. Gen' = Gen
  BY DEF Gen
<1>3. QED
  BY <1>1, <1>2 DEF ReadInv, FoldedOK

LEMMA CacheKeptAt ==
  ASSUME ReadInv, UNCHANGED <<records, nextSeq, cache>>
  PROVE  CacheAt'
<1>1. \A rows, g : RowsAt(rows, g)' <=> RowsAt(rows, g)
  BY DEF RowsAt, Reaches
<1>2. Gen' = Gen
  BY DEF Gen
<1>3. QED
  BY <1>1, <1>2 DEF ReadInv, CacheAt

\* Without a process nobody reads.
LEMMA Reading ==
  ASSUME IInv, NEW r \in Reader, view[r].pc # "idle"
  PROVE  running
BY DEF IInv, SaveInv, Quiet

LEMMA ReadHintReads ==
  ASSUME IInv, ReadInv, NEW r \in Reader, ReadHint(r)
  PROVE  ReadInv'
<1>1. PICK w, g, v : /\ w = view[r] /\ g = Gen
                     /\ v = [w EXCEPT !.pc = "rows", !.hint = g, !.from = g]
  BY Zenon
<1>2. /\ running /\ view' = [view EXCEPT ![r] = v]
      /\ UNCHANGED <<running, records, nextSeq, folded, cache>>
  BY <1>1 DEF ReadHint, storeVars
<1>3. w \in Views /\ g \in Nat
  BY <1>1, GenIs DEF ReadInv
<1>4. v \in Views /\ v.pc = "rows" /\ v.hint = g /\ v.from = g
  <2>1. v = [w EXCEPT !.pc = "rows", !.hint = g, !.from = g]
    BY <1>1
  <2>2. w \in Views /\ g \in Int
    BY <1>3
  <2>3. QED
    BY <2>1, <2>2 DEF Views
<1>5. ViewOK(v)
  BY <1>1, <1>3, <1>4 DEF ViewOK
<1>6. CacheAt' /\ FoldedOK'
  BY <1>2, FoldedKept, CacheKeptAt
<1>7. QED
  BY <1>2, <1>4, <1>5, <1>6, ViewStep

LEMMA TakenIs ==
  ASSUME IInv, ReadInv, running, NEW hint \in Nat, hint <= Gen
  PROVE  LET s == Taken(hint) IN
         /\ s.gen \in Nat /\ hint <= s.gen /\ s.gen <= Gen
         /\ RowsAt(s.rows, s.gen) /\ s.rows \in Seq(Record)
<1>1. Gen \in Nat /\ RowsAt(records, Gen) /\ records \in Seq(Record)
  BY GenIs
<1>2. CASE cache.gen = hint
  <2>1. RowsAt(cache.rows, cache.gen)
    BY <1>2 DEF ReadInv, CacheAt
  <2>2. cache.rows \in Seq(Record)
    BY <1>1, <2>1, PrefixIs DEF RowsAt
  <2>3. QED
    BY <1>2, <2>1, <2>2 DEF Taken, Snapshot, Hit
<1>3. CASE cache.gen # hint
  <2> DEFINE s == [gen |-> Gen, rows |-> records]
  <2>1. s.gen = Gen /\ s.rows = records
    OBVIOUS
  <2>2. Taken(hint) = s
    BY <1>3 DEF Taken, Snapshot, Hit
  <2> HIDE DEF s
  <2>3. QED
    BY <1>1, <2>1, <2>2
<1>4. QED
  BY <1>2, <1>3

LEMMA ReadRowsReads ==
  ASSUME IInv, ReadInv, NEW r \in Reader, ReadRows(r)
  PROVE  ReadInv'
<1>1. PICK w, s, v : /\ w = view[r] /\ s = Taken(w.hint)
                     /\ v = [w EXCEPT !.pc = "fold", !.gen = s.gen, !.rows = s.rows]
  BY Zenon
<1>2. /\ w.pc = "rows" /\ view' = [view EXCEPT ![r] = v]
      /\ KeepSnapshot(w.hint)
      /\ UNCHANGED <<running, records, nextSeq, folded>>
  BY <1>1 DEF ReadRows, storeVars
<1>3. running
  BY <1>1, <1>2, Reading
<1>4. w \in Views /\ ViewOK(w) /\ Gen \in Nat
  BY <1>1, GenIs DEF ReadInv
<1>5. w.hint \in Nat /\ w.hint <= Gen /\ w.from = w.hint
  BY <1>2, <1>4 DEF ViewOK, Views
<1>6. /\ s.gen \in Nat /\ w.hint <= s.gen /\ s.gen <= Gen
      /\ RowsAt(s.rows, s.gen) /\ s.rows \in Seq(Record)
  BY <1>1, <1>3, <1>5, TakenIs
<1>7. PICK g, rows : g = s.gen /\ rows = s.rows
  BY Zenon
<1>8. /\ v \in Views /\ v.pc = "fold" /\ v.gen = g /\ v.rows = rows
      /\ v.from = w.from
  <2>1. v = [w EXCEPT !.pc = "fold", !.gen = g, !.rows = rows]
    BY <1>1, <1>7
  <2>2. g \in Int /\ rows \in Seq(Record)
    BY <1>6, <1>7
  <2>3. QED
    BY <1>4, <2>1, <2>2 DEF Views
<1>9. ViewOK(v)
  BY <1>5, <1>6, <1>7, <1>8 DEF ViewOK
<1>10. CacheAt' /\ FoldedOK'
  BY <1>2, <1>3, CacheStep, FoldedKept
<1>11. QED
  BY <1>2, <1>3, <1>8, <1>9, <1>10, ViewStep

LEMMA ReadFoldReads ==
  ASSUME IInv, ReadInv, NEW r \in Reader, ReadFold(r)
  PROVE  ReadInv'
<1>1. PICK g, mine, ts :
        /\ g = view[r].gen /\ mine = [gen |-> g, tables |-> Fold(view[r].rows)]
        /\ ts = IF folded.gen = g THEN folded.tables ELSE mine.tables
  BY Zenon
<1> DEFINE v == [view[r] EXCEPT !.pc = "show", !.rows = <<>>, !.tables = ts]
<1>2. /\ view[r].pc = "fold" /\ view' = [view EXCEPT ![r] = v]
      /\ UNCHANGED <<running, records, nextSeq, cache>>
  BY <1>1 DEF ReadFold, storeVars
<1>3. folded' = IF ~(folded.gen = g) /\ folded.gen <= g THEN mine ELSE folded
  BY <1>1 DEF ReadFold
<1>4. running
  BY <1>2, Reading
<1>5. /\ view[r] \in Views /\ ViewOK(view[r]) /\ Gen \in Nat
      /\ records \in Seq(Record) /\ Len(records) \in Nat
  BY GenIs DEF ReadInv
<1>6. /\ 0 <= view[r].from /\ view[r].from <= g /\ g <= Gen /\ g \in Int
      /\ view[r].from \in Int /\ RowsAt(view[r].rows, g)
  BY <1>1, <1>2, <1>5 DEF ViewOK, Views
<1>7. mine.gen = g /\ mine.tables = Fold(view[r].rows)
  BY <1>1
<1>8. TablesAt(mine.tables, mine.gen)
  BY <1>6, <1>7 DEF RowsAt, TablesAt
<1>9. TablesAt(ts, g)
  BY <1>1, <1>6, <1>7, <1>8 DEF ReadInv, FoldedOK
<1>10. ts \in Tables
  BY <1>9, TablesExact
<1>11. <<>> \in Seq(Record)
  BY EmptySeq
<1>12. /\ v \in Views /\ v.pc = "show" /\ v.gen = g /\ v.tables = ts
       /\ v.from = view[r].from
  BY <1>1, <1>5, <1>10, <1>11 DEF Views
<1> HIDE DEF v
<1>13. ViewOK(v)
  BY <1>6, <1>9, <1>12 DEF ViewOK
<1>14. FoldedOK'
  <2>1. \A tables, h : TablesAt(tables, h)' <=> TablesAt(tables, h)
    BY <1>2 DEF TablesAt, Reaches
  <2>2. Gen' = Gen
    BY <1>2 DEF Gen
  <2>3. CASE folded' = folded
    BY <1>2, <2>1, <2>2, <2>3 DEF ReadInv, FoldedOK
  <2>4. CASE folded' = mine
    BY <1>2, <1>4, <1>6, <1>7, <1>8, <2>1, <2>2, <2>4 DEF FoldedOK
  <2>5. QED
    BY <1>3, <2>3, <2>4
<1>15. CacheAt'
  BY <1>2, CacheKeptAt
<1>16. QED
  BY <1>2, <1>4, <1>12, <1>13, <1>14, <1>15, ViewStep

LEMMA ShowReads ==
  ASSUME IInv, ReadInv, NEW r \in Reader, Show(r)
  PROVE  ReadInv'
<1>1. /\ view[r].pc = "show" /\ view' = [view EXCEPT ![r] = Blank]
      /\ UNCHANGED <<running, records, nextSeq, folded, cache>>
  BY DEF Show, storeVars
<1>2. running
  BY <1>1, Reading
<1>3. Blank \in Views /\ ViewOK(Blank)
  BY BlankType DEF ViewOK
<1>4. CacheAt' /\ FoldedOK'
  BY <1>1, FoldedKept, CacheKeptAt
<1>5. QED
  BY <1>1, <1>2, <1>3, <1>4, ViewStep

-----------------------------------------------------------------------------
(* The saves' steps, for the readers.                                      *)

\* A worker's step that leaves the log alone.
LEMMA WorkerReads ==
  ASSUME ReadInv, UNCHANGED <<running, records, nextSeq, folded, view, cache>>
  PROVE  ReadInv'
BY CacheKeptAt, ReadersFrame

\* Append fails: the records are as they were.
LEMMA StoreFailsReads ==
  ASSUME ReadInv, NEW t \in Thread, StoreFails(t)
  PROVE  ReadInv'
<1>1. UNCHANGED <<running, records, nextSeq, folded, view, cache>>
  BY DEF StoreFails, AppendFails, storeVars, readVars
<1>2. QED
  BY <1>1, WorkerReads

LEMMA CheckConflictsReads ==
  ASSUME IInv, ReadInv, NEW t \in Thread, CheckConflicts(t)
  PROVE  ReadInv'
<1>1. /\ req[t].pc = "commit" /\ KeepSnapshot(Gen)
      /\ UNCHANGED <<running, records, nextSeq, folded, view>>
  BY DEF CheckConflicts, storeVars, readVars
<1>2. running
  BY <1>1 DEF IInv, SaveInv, Quiet
<1>3. CacheAt'
  BY <1>1, <1>2, CacheStep
<1>4. QED
  BY <1>1, <1>3, ReadersFrame

LEMMA StoreReads ==
  ASSUME IInv, IInv', ReadInv, NEW t \in Thread, Store(t)
  PROVE  ReadInv'
<1>1. PICK c : c = req[t].click
  OBVIOUS
<1>2. AppendOk(c.user, c.id, c.body) /\ UNCHANGED <<cache, folded, view>>
  BY <1>1 DEF Store, readVars
<1>3. PICK x : x = NewRecord(c.user, c.id, c.body)
  OBVIOUS
<1>4. /\ records' = Append(records, x) /\ nextSeq' = nextSeq + 1
      /\ running /\ running'
  BY <1>2, <1>3 DEF AppendOk
<1>5. x \in Record /\ x.seq = nextSeq
  <2>1. nextSeq \in Nat \ {0} /\ SaveTypes
    BY DEF IInv, StoreInv, StoreTypes, SaveInv
  <2>2. c.user \in User /\ c.id \in Id /\ c.body \in Body
    BY <1>1, <2>1, ReqType
  <2>3. QED
    BY <1>3, <2>1, <2>2 DEF NewRecord, Record, Log!Record
<1>6. QED
  BY <1>2, <1>4, <1>5, GrowReads

LEMMA WriteBackReads ==
  ASSUME IInv, ReadInv, [Next]_vars
  PROVE  ReadInv'
<1>1. IInv'
  BY WriteBackStep
<1>2. CASE UNCHANGED vars
  BY <1>2, WorkerReads DEF vars, storeVars, readVars
<1>3. CASE Start \/ Offline
  BY <1>3, SilentStep
<1>4. CASE Stop \/ Crash
  BY <1>4, EndReads DEF Stop, Crash
<1>5. CASE ForgetId
  BY <1>5, WorkerReads DEF ForgetId, storeVars, readVars
<1>6. ASSUME NEW t \in Thread,
             \/ TryLock(t) \/ Panel(t) \/ Remember(t)
             \/ \E c \in Click, b \in Base : Arrive(t, c, b)
      PROVE  ReadInv'
  <2>1. UNCHANGED <<running, records, nextSeq, folded, view, cache>>
    BY <1>6 DEF TryLock, Panel, Remember, Arrive, storeVars, readVars
  <2>2. QED
    BY <2>1, WorkerReads
<1>7. ASSUME NEW t \in Thread,
             CheckConflicts(t) \/ Store(t) \/ StoreFails(t) \/ StoreCrash(t)
      PROVE  ReadInv'
  <2>1. CASE StoreCrash(t)
    BY <2>1, EndReads DEF StoreCrash
  <2>2. QED
    BY <1>1, <1>7, <2>1, CheckConflictsReads, StoreReads, StoreFailsReads
<1>8. ASSUME NEW r \in Reader,
             ReadHint(r) \/ ReadRows(r) \/ ReadFold(r) \/ Show(r)
      PROVE  ReadInv'
  BY <1>8, ReadHintReads, ReadRowsReads, ReadFoldReads, ShowReads
<1>9. QED
  BY <1>2, <1>3, <1>4, <1>5, <1>6, <1>7, <1>8 DEF Next, Handle

LEMMA ReadInit ==
  ASSUME Init
  PROVE  ReadInv
<1>1. /\ view \in [Reader -> Views] /\ \A r \in Reader : view[r].pc = "idle"
      /\ cache = NoCache /\ folded = NoFold
  BY BlankType DEF Init
<1>2. cache.gen = -1 /\ folded.gen = -1
  BY <1>1 DEF NoCache, NoFold
<1>3. CacheAt /\ FoldedOK
  BY <1>1, <1>2 DEF CacheAt, FoldedOK
<1>4. QED
  BY <1>1, <1>3 DEF ReadInv, ViewOK

\* What the two caches and every panel hold is the log at a generation, and
\* no older than the panel's question (state.rs, snapshot_all; writeback.rs,
\* WritebackRuntime::snapshot).
THEOREM ReadersAtGeneration == Spec => []ReadInv
<1>1. Init => ReadInv
  BY ReadInit
<1>2. IInv /\ ReadInv /\ [Next]_vars => ReadInv'
  BY WriteBackReads
<1>3. QED
  BY <1>1, <1>2, SavesCorrect, PTL DEF Spec

\* A panel shows every cell of the saved tables as the last save up to its
\* generation left it (serve.rs:3271; writeback.rs, fold and apply_change).
THEOREM PanelsExactHolds == Spec => []PanelsExact
<1>1. IInv /\ ReadInv => PanelsExact
  BY ShownExact
<1>2. QED
  BY <1>1, SavesCorrect, ReadersAtGeneration, PTL
=============================================================================
