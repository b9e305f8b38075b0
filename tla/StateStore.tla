----------------------------- MODULE StateStore -----------------------------
(***************************************************************************)
(* The append-only JSONL store (src/src/host/state.rs) that submissions,   *)
(* saves, saved views and notes are kept in: one file of one header line   *)
(* and one line per record, one process at a time (flock), every append    *)
(* written and synced under one mutex before it is acknowledged.           *)
(*                                                                         *)
(* The file is modelled by what a later open makes of its bytes:           *)
(*   lines     complete lines that are safe on the disk;                   *)
(*   unsynced  a complete line whose sync failed or never came (in the     *)
(*             page cache: a crash of the machine may lose or tear it);    *)
(*   torn      a last line without its newline.                            *)
(* The cap on bytes (max_mb) is a cap on records.                          *)
(***************************************************************************)
EXTENDS Integers, Sequences

CONSTANTS
  User, Id, Body,
  MaxLines    \* records the byte cap leaves room for

ASSUME MaxLinesAssumption == MaxLines \in Nat

VARIABLES
  file,       \* [there, head, lines, unsynced, torn]: the bytes at the path
  running,    \* a process holds the store open
  records,    \* StoreState.records of that process
  nextSeq,    \* StoreState.next_seq
  failed,     \* Store.failed
  acked       \* history: the records append has returned Ok for, minus the
              \* erased users'

storeVars == <<file, running, records, nextSeq, failed, acked>>

Log == INSTANCE DurableLog WITH log <- file.lines

Record == Log!Record

NoFile == [there |-> FALSE, head |-> FALSE, lines |-> <<>>,
           unsynced |-> <<>>, torn |-> FALSE]

Files == [there : BOOLEAN, head : BOOLEAN, lines : Seq(Record),
          unsynced : Seq(Record), torn : BOOLEAN]

\* What a process that reads the file now sees as complete lines.
Readable == file.lines \o file.unsynced

\* Wrong on purpose (NextSeq): the count of the records.
NextSeqCount(s) == Len(s) + 1

\* validate_lines: one past the last sequence number read, 1 for no record.
NextSeq(s) == IF s = <<>> THEN 1 ELSE s[Len(s)].seq + 1

\* by_user: the records of one viewer, oldest first, and how many they are.
Rows(s, u) == {i \in 1..Len(s) : s[i].user = u}

-----------------------------------------------------------------------------

StoreInit ==
  /\ file = NoFile
  /\ running = FALSE
  /\ records = <<>>
  /\ nextSeq = 1
  /\ failed = FALSE
  /\ acked = {}

(* Store::open: lock, read, recover the torn tail, validate, and only then *)
(* truncate the tail or, when no header is complete, write one and sync.   *)
Open ==
  /\ ~running
  /\ running' = TRUE
  /\ records' = Readable
  /\ nextSeq' = NextSeq(Readable)
  /\ failed' = FALSE
  /\ file' = [file EXCEPT !.there = TRUE, !.head = TRUE, !.torn = FALSE]
  /\ UNCHANGED acked

(* The process dies in open_impl between creating the file and syncing its *)
(* header: the next open finds nothing or a prefix of the header.          *)
OpenCrash ==
  /\ ~running
  /\ ~file.head
  /\ file' = [file EXCEPT !.there = TRUE]
  /\ UNCHANGED <<running, records, nextSeq, failed, acked>>

NewRecord(u, id, b) == [seq |-> nextSeq, user |-> u, id |-> id, body |-> b]

Full == Len(records) + 1 > MaxLines

\* Wrong on purpose (AppendOk): acknowledged once written, before the sync.
AppendUnsynced(u, id, b) ==
  /\ running /\ ~failed /\ ~Full
  /\ file' = [file EXCEPT !.unsynced = Append(@, NewRecord(u, id, b))]
  /\ records' = Append(records, NewRecord(u, id, b))
  /\ nextSeq' = nextSeq + 1
  /\ acked' = acked \cup {NewRecord(u, id, b)}
  /\ UNCHANGED <<running, failed>>

\* append, written and synced: the record is in memory, and its caller may
\* acknowledge it.
AppendOk(u, id, b) ==
  /\ running /\ ~failed /\ ~Full
  /\ LET rec == NewRecord(u, id, b) IN
       /\ file' = [file EXCEPT !.lines = Append(Readable, rec),
                               !.unsynced = <<>>]
       /\ records' = Append(records, rec)
       /\ nextSeq' = nextSeq + 1
       /\ acked' = acked \cup {rec}
  /\ UNCHANGED <<running, failed>>

\* append whose write or sync fails: nothing, a fragment or the whole line
\* may be in the file, and the store refuses every append from now on.
AppendFails(u, id, b) ==
  /\ running /\ ~failed /\ ~Full
  /\ failed' = TRUE
  /\ \/ UNCHANGED file
     \/ file' = [file EXCEPT !.torn = TRUE]
     \/ file' = [file EXCEPT !.unsynced = Append(@, NewRecord(u, id, b))]
  /\ UNCHANGED <<running, records, nextSeq, acked>>

\* A process that ends takes the store's memory with it.
Gone ==
  /\ running' = FALSE
  /\ records' = <<>>
  /\ nextSeq' = 1
  /\ failed' = FALSE
  /\ UNCHANGED acked

\* The process dies inside append; nobody hears of the record.
AppendCrash(u, id, b) ==
  /\ running /\ ~failed /\ ~Full
  /\ Gone
  /\ \/ file' = [file EXCEPT !.torn = TRUE]
     \/ file' = [file EXCEPT !.unsynced = Append(@, NewRecord(u, id, b))]
     \/ file' = [file EXCEPT !.lines = Append(Readable, NewRecord(u, id, b)),
                             !.unsynced = <<>>]

\* The process ends, by a signal or an orderly stop.
Exit == running /\ Gone /\ UNCHANGED file

\* The machine dies, alone or with the process: unsynced lines are lost
\* from some line on, and the first lost one may leave a fragment.
PowerLoss ==
  /\ Gone
  /\ \E n \in 0..Len(file.unsynced), t \in BOOLEAN :
       /\ t => (file.torn \/ n < Len(file.unsynced))
       /\ file' = [file EXCEPT !.lines = @ \o SubSeq(file.unsynced, 1, n),
                               !.unsynced = <<>>,
                               !.torn = t]

(* dashboard state erase, while no server runs: opens the store (which     *)
(* truncates a torn tail), writes the kept records to a synced temporary   *)
(* file and renames it over the old one.                                   *)
Erase(u) ==
  /\ ~running /\ file.head
  /\ Rows(Readable, u) # {}
  /\ \E kept \in Log!Without(Readable, u) :
       file' = [file EXCEPT !.lines = kept, !.unsynced = <<>>, !.torn = FALSE]
  /\ acked' = {r \in acked : r.user # u}
  /\ UNCHANGED <<running, records, nextSeq, failed>>

\* The erase dies before its rename, or finds no record of the user: only
\* its open has touched the file.
EraseCrash ==
  /\ ~running /\ file.head
  /\ file' = [file EXCEPT !.torn = FALSE]
  /\ UNCHANGED <<running, records, nextSeq, failed, acked>>

StoreNext ==
  \/ Open
  \/ OpenCrash
  \/ \E u \in User, id \in Id, b \in Body :
       AppendOk(u, id, b) \/ AppendFails(u, id, b) \/ AppendCrash(u, id, b)
  \/ Exit
  \/ PowerLoss
  \/ \E u \in User : Erase(u)
  \/ EraseCrash

StoreSpec == StoreInit /\ [][StoreNext]_storeVars

-----------------------------------------------------------------------------

(* A record that append has acknowledged is on the disk from then on: no   *)
(* crash of the process or the machine, failed write, torn tail, erase of  *)
(* another viewer or reopening loses it (state.rs:1198).                   *)
AckedSurvive == acked \subseteq Log!RecordsOf(file.lines)

(* The store implements the log it promises: no crash, failed write or     *)
(* restart takes a durable record away or adds one out of order            *)
(* (state.rs:1276, state.rs:1777).                                         *)
Promise == Log!LogSpec

StoreTypes ==
  /\ file \in Files
  /\ records \in Seq(Record) /\ nextSeq \in Nat \ {0}
  /\ running \in BOOLEAN /\ failed \in BOOLEAN
  /\ acked \subseteq Record

\* Memory and file agree until a write fails.
Faithful ==
  running /\ ~failed => records = Readable /\ nextSeq = NextSeq(Readable)

StoreInv ==
  /\ StoreTypes
  /\ Log!Ordered(Readable)
  /\ Faithful
  /\ AckedSurvive
=============================================================================
