-------------------------- MODULE StateStoreProofs --------------------------
(***************************************************************************)
(* Proofs about StateStore, for any viewers, nonces, contents and size of  *)
(* the file: StoreInv is inductive, and every step of the store is a step  *)
(* of the log it promises, or none.  Submit's proofs use both.             *)
(***************************************************************************)
EXTENDS StateStore, TLAPS, SequenceTheorems

LEMMA RecordFields ==
  ASSUME NEW r \in Record
  PROVE  r.seq \in Nat /\ r.user \in User /\ r.id \in Id /\ r.body \in Body
BY DEF Record, Log!Record

\* What a reader sees is a sequence of records.
LEMMA ReadableSeq ==
  ASSUME file \in Files
  PROVE  /\ file.lines \in Seq(Record) /\ file.unsynced \in Seq(Record)
         /\ Readable \in Seq(Record)
         /\ Len(Readable) = Len(file.lines) + Len(file.unsynced)
         /\ \A i \in 1..Len(Readable) :
              Readable[i] = IF i <= Len(file.lines) THEN file.lines[i]
                            ELSE file.unsynced[i - Len(file.lines)]
<1>1. file.lines \in Seq(Record) /\ file.unsynced \in Seq(Record)
  BY DEF Files
<1>2. QED
  BY <1>1, ConcatProperties DEF Readable

LEMMA AppendedRecord ==
  ASSUME NEW s \in Seq(Record), NEW r \in Record
  PROVE  /\ Append(s, r) \in Seq(Record)
         /\ Len(Append(s, r)) = Len(s) + 1
         /\ \A i \in 1..Len(s) : Append(s, r)[i] = s[i]
         /\ Append(s, r)[Len(s) + 1] = r
OBVIOUS

\* A line written after the unsynced ones is read after them.
LEMMA AppendUnsynced1 ==
  ASSUME NEW s \in Seq(Record), NEW t \in Seq(Record), NEW r \in Record
  PROVE  s \o Append(t, r) = Append(s \o t, r)
<1> DEFINE a == s \o Append(t, r)
           b == Append(s \o t, r)
<1>1. /\ Append(t, r) \in Seq(Record) /\ Len(Append(t, r)) = Len(t) + 1
      /\ \A i \in 1..Len(t) : Append(t, r)[i] = t[i]
      /\ Append(t, r)[Len(t) + 1] = r
  BY AppendedRecord
<1>2. /\ a \in Seq(Record) /\ Len(a) = Len(s) + Len(t) + 1
      /\ \A i \in 1..Len(s) + Len(t) + 1 :
           a[i] = IF i <= Len(s) THEN s[i] ELSE Append(t, r)[i - Len(s)]
  BY <1>1, ConcatProperties, LenProperties
<1>3. /\ s \o t \in Seq(Record) /\ Len(s \o t) = Len(s) + Len(t)
      /\ \A i \in 1..Len(s) + Len(t) :
           (s \o t)[i] = IF i <= Len(s) THEN s[i] ELSE t[i - Len(s)]
  BY ConcatProperties
<1>4. /\ b \in Seq(Record) /\ Len(b) = Len(s) + Len(t) + 1
      /\ \A i \in 1..Len(s) + Len(t) : b[i] = (s \o t)[i]
      /\ b[Len(s) + Len(t) + 1] = r
  BY <1>3, AppendedRecord
<1>5. Len(s) \in Nat /\ Len(t) \in Nat
  BY LenProperties
<1>6. \A i \in 1..Len(a) : a[i] = b[i]
  <2>1. TAKE i \in 1..Len(a)
  <2>2. CASE i <= Len(s)
    BY <1>2, <1>3, <1>4, <1>5, <2>2
  <2>3. CASE i > Len(s) /\ i <= Len(s) + Len(t)
    <3>1. i - Len(s) \in 1..Len(t) /\ i \in 1..Len(s) + Len(t)
      BY <1>5, <2>3
    <3>2. QED
      BY <1>1, <1>2, <1>3, <1>4, <1>5, <2>3, <3>1
  <2>4. CASE i = Len(s) + Len(t) + 1
    BY <1>1, <1>2, <1>4, <1>5, <2>4
  <2>5. QED
    BY <1>2, <1>5, <2>2, <2>3, <2>4
<1>7. QED
  BY <1>2, <1>4, <1>6, SeqEqual

\* A record under the next sequence number keeps the order.
LEMMA OrderedAppend ==
  ASSUME NEW s \in Seq(Record), Log!Ordered(s),
         NEW r \in Record, r.seq = NextSeq(s)
  PROVE  Log!Ordered(Append(s, r))
<1>1. \A i \in 1..Len(s) : s[i] \in Record /\ s[i].seq \in Nat
  BY ElementOfSeq, RecordFields
<1>2. Len(s) \in Nat
  BY LenProperties
<1>3. \A i \in 1..Len(s) : s[i].seq < r.seq
  <2>1. TAKE i \in 1..Len(s)
  <2>2. s # <<>> /\ r.seq = s[Len(s)].seq + 1
    BY EmptySeq, <1>2 DEF NextSeq
  <2>3. i = Len(s) \/ s[i].seq < s[Len(s)].seq
    BY <1>2 DEF Log!Ordered
  <2>4. QED
    BY <1>1, <1>2, <2>2, <2>3
<1>4. QED
  BY <1>2, <1>3, AppendedRecord DEF Log!Ordered

\* A sequence that starts like an ordered one of the same length or longer.
LEMMA OrderedPrefix ==
  ASSUME NEW s \in Seq(Record), NEW t \in Seq(Record),
         Log!Extends(t, s), Log!Ordered(t)
  PROVE  Log!Ordered(s)
BY LenProperties DEF Log!Extends, Log!Ordered

\* The next number is above every one in the file.
LEMMA NextSeqLarger ==
  ASSUME NEW s \in Seq(Record), Log!Ordered(s), NEW i \in 1..Len(s)
  PROVE  s[i].seq < NextSeq(s)
<1>1. Len(s) \in Nat /\ s # <<>>
  BY LenProperties, EmptySeq
<1>2. s[i].seq \in Nat /\ s[Len(s)].seq \in Nat
  BY <1>1, ElementOfSeq, RecordFields
<1>3. i = Len(s) \/ s[i].seq < s[Len(s)].seq
  BY <1>1 DEF Log!Ordered
<1>4. QED
  BY <1>1, <1>2, <1>3 DEF NextSeq

LEMMA RecordsOfExtends ==
  ASSUME NEW s \in Seq(Record), NEW t \in Seq(Record), Log!Extends(t, s)
  PROVE  Log!RecordsOf(s) \subseteq Log!RecordsOf(t)
BY LenProperties DEF Log!Extends, Log!RecordsOf

LEMMA ConcatExtends ==
  ASSUME NEW s \in Seq(Record), NEW t \in Seq(Record)
  PROVE  Log!Extends(s \o t, s)
<1>1. Len(s) \in Nat /\ Len(t) \in Nat
  BY LenProperties
<1>2. Len(s \o t) = Len(s) + Len(t) /\ \A i \in 1..Len(s) : (s \o t)[i] = s[i]
  BY <1>1, ConcatProperties
<1>3. QED
  BY <1>1, <1>2 DEF Log!Extends

\* Reading starts with the durable lines.
LEMMA ReadableExtends ==
  ASSUME file \in Files
  PROVE  Log!Extends(Readable, file.lines)
BY ReadableSeq, ConcatExtends DEF Readable

-----------------------------------------------------------------------------
(* The steps.                                                              *)

LEMMA InitInv ==
  ASSUME StoreInit
  PROVE  StoreInv
<1>1. StoreTypes
  <2>1. <<>> \in Seq(Record)
    BY EmptySeq
  <2>2. NoFile \in Files
    BY <2>1 DEF NoFile, Files
  <2>3. file \in Files /\ records \in Seq(Record)
    BY <2>1, <2>2 DEF StoreInit
  <2>4. nextSeq \in Nat \ {0} /\ acked \subseteq Record
    BY DEF StoreInit
  <2>5. running \in BOOLEAN /\ failed \in BOOLEAN
    BY DEF StoreInit
  <2>6. QED
    BY <2>3, <2>4, <2>5 DEF StoreTypes
<1>2. Readable = <<>>
  BY ConcatEmptySeq, EmptySeq DEF StoreInit, NoFile, Readable
<1>3. QED
  BY <1>1, <1>2 DEF StoreInit, StoreInv, Log!Ordered, Faithful, AckedSurvive

LEMMA OpenStep ==
  ASSUME StoreInv, Open
  PROVE  StoreInv' /\ UNCHANGED file.lines
<1>1. file \in Files /\ Readable \in Seq(Record)
  BY ReadableSeq DEF StoreInv, StoreTypes
<1>2. file' \in Files /\ file'.lines = file.lines
      /\ file'.unsynced = file.unsynced
  BY <1>1 DEF Open, Files
<1>3. Readable' = Readable
  BY <1>2 DEF Readable
<1>4. NextSeq(Readable) \in Nat \ {0}
  <2>1. CASE Readable = <<>>
    BY <2>1 DEF NextSeq
  <2>2. CASE Readable # <<>>
    <3>1. Readable[Len(Readable)].seq \in Nat
      BY <1>1, <2>2, EmptySeq, ElementOfSeq, RecordFields
    <3>2. QED
      BY <3>1, <2>2 DEF NextSeq
  <2>3. QED
    BY <2>1, <2>2
<1>5. StoreTypes'
  BY <1>1, <1>2, <1>4 DEF StoreInv, StoreTypes, Open
<1>6. Faithful'
  BY <1>3 DEF Faithful, Open, NextSeq
<1>7. AckedSurvive'
  BY <1>2 DEF StoreInv, AckedSurvive, Open, Log!RecordsOf
<1>8. QED
  BY <1>2, <1>3, <1>5, <1>6, <1>7 DEF StoreInv

LEMMA OpenCrashStep ==
  ASSUME StoreInv, OpenCrash
  PROVE  StoreInv' /\ UNCHANGED file.lines
<1>1. file \in Files /\ file' \in Files
      /\ file'.lines = file.lines /\ file'.unsynced = file.unsynced
  BY DEF StoreInv, StoreTypes, OpenCrash, Files
<1>2. Readable' = Readable
  BY <1>1 DEF Readable
<1>3. StoreTypes' /\ AckedSurvive'
  BY <1>1 DEF StoreInv, StoreTypes, AckedSurvive, OpenCrash, Log!RecordsOf
<1>4. Faithful'
  BY <1>2 DEF StoreInv, Faithful, OpenCrash
<1>5. QED
  BY <1>1, <1>2, <1>3, <1>4 DEF StoreInv

\* The record an append is about to write keeps the file in order.
LEMMA NewRecordFits ==
  ASSUME StoreInv, running, ~failed,
         NEW u \in User, NEW id \in Id, NEW b \in Body
  PROVE  /\ NewRecord(u, id, b) \in Record
         /\ Readable \in Seq(Record)
         /\ Append(Readable, NewRecord(u, id, b)) \in Seq(Record)
         /\ Log!Ordered(Append(Readable, NewRecord(u, id, b)))
         /\ Log!Extends(Append(Readable, NewRecord(u, id, b)), file.lines)
<1> DEFINE r == NewRecord(u, id, b)
<1>1. r \in Record
  BY DEF StoreInv, StoreTypes, NewRecord, Record, Log!Record
<1>2. Readable \in Seq(Record)
  BY ReadableSeq DEF StoreInv, StoreTypes
<1>3. r.seq = NextSeq(Readable)
  BY DEF StoreInv, Faithful, NewRecord
<1>4. Log!Ordered(Append(Readable, r))
  <2>1. Log!Ordered(Readable)
    BY DEF StoreInv
  <2>2. QED
    BY <1>1, <1>2, <1>3, <2>1, OrderedAppend
<1>5. Log!Extends(Append(Readable, r), file.lines)
  <2>1. Log!Extends(Readable, file.lines) /\ file.lines \in Seq(Record)
    BY ReadableExtends, ReadableSeq DEF StoreInv, StoreTypes
  <2>2. Len(file.lines) \in Nat /\ Len(Readable) \in Nat
    BY <1>2, <2>1, LenProperties
  <2>3. QED
    BY <1>1, <1>2, <2>1, <2>2, AppendedRecord DEF Log!Extends
<1>6. QED
  BY <1>1, <1>2, <1>4, <1>5, AppendedRecord

LEMMA AppendOkStep ==
  ASSUME StoreInv, NEW u \in User, NEW id \in Id, NEW b \in Body,
         AppendOk(u, id, b)
  PROVE  StoreInv' /\ Log!Grow
<1> DEFINE r == NewRecord(u, id, b)
           s == Append(Readable, r)
<1>1. /\ r \in Record /\ s \in Seq(Record)
      /\ Log!Ordered(s) /\ Log!Extends(s, file.lines)
      /\ Readable \in Seq(Record) /\ file \in Files
  BY NewRecordFits DEF AppendOk, StoreInv, StoreTypes
<1>2. file' \in Files /\ file'.lines = s /\ file'.unsynced = <<>>
  BY <1>1, EmptySeq DEF AppendOk, Files
<1>3. Readable' = s
  BY <1>1, <1>2, ConcatEmptySeq DEF Readable
<1>4. records = Readable /\ nextSeq = NextSeq(Readable)
  BY DEF AppendOk, StoreInv, Faithful
<1>5. Len(Readable) \in Nat /\ Len(s) = Len(Readable) + 1
      /\ s[Len(s)] = r /\ \A i \in 1..Len(Readable) : s[i] = Readable[i]
  BY <1>1, AppendedRecord, LenProperties
<1>6. r.seq = nextSeq /\ nextSeq \in Nat \ {0}
  BY DEF NewRecord, StoreInv, StoreTypes
<1>7. StoreTypes'
  BY <1>1, <1>2, <1>4, <1>6 DEF StoreInv, StoreTypes, AppendOk
<1>8. Faithful'
  <2>1. records' = s /\ nextSeq' = nextSeq + 1
    BY <1>4 DEF AppendOk
  <2>2. s # <<>>
    BY <1>1, <1>5, EmptySeq
  <2>3. NextSeq(s) = nextSeq + 1
    BY <1>5, <1>6, <2>2 DEF NextSeq
  <2>4. NextSeq(Readable)' = NextSeq(s)
    BY <1>3 DEF NextSeq
  <2>5. QED
    BY <1>3, <2>1, <2>3, <2>4 DEF Faithful
<1>9. AckedSurvive'
  <2>1. Log!RecordsOf(file.lines) \subseteq Log!RecordsOf(s)
    BY <1>1, RecordsOfExtends, ReadableSeq
  <2>2. r \in Log!RecordsOf(s)
    BY <1>5 DEF Log!RecordsOf
  <2>3. Log!RecordsOf(file.lines)' = Log!RecordsOf(s)
    BY <1>2 DEF Log!RecordsOf
  <2>4. QED
    BY <2>1, <2>2, <2>3 DEF StoreInv, AckedSurvive, AppendOk
<1>10. Log!Grow
  BY <1>1, <1>2 DEF Log!Grow, Log!Extends, Log!Ordered
<1>11. Log!Ordered(Readable)'
  BY <1>1, <1>3 DEF Log!Ordered
<1>12. QED
  BY <1>7, <1>8, <1>9, <1>10, <1>11 DEF StoreInv

\* What a write that did not succeed may leave behind.
LEMMA UnsyncedLine ==
  ASSUME StoreInv, running, ~failed,
         NEW u \in User, NEW id \in Id, NEW b \in Body,
         file' = [file EXCEPT !.unsynced = Append(@, NewRecord(u, id, b))]
  PROVE  /\ file' \in Files /\ file'.lines = file.lines
         /\ Readable' = Append(Readable, NewRecord(u, id, b))
         /\ Log!Ordered(Readable)'
<1> DEFINE r == NewRecord(u, id, b)
<1>1. /\ r \in Record /\ file \in Files /\ Log!Ordered(Append(Readable, r))
      /\ file.lines \in Seq(Record) /\ file.unsynced \in Seq(Record)
  BY NewRecordFits, ReadableSeq DEF StoreInv, StoreTypes
<1>2. /\ file' \in Files /\ file'.lines = file.lines
      /\ file'.unsynced = Append(file.unsynced, r)
  BY <1>1, AppendedRecord DEF Files
<1>3. Readable' = Append(Readable, r)
  BY <1>1, <1>2, AppendUnsynced1 DEF Readable
<1>4. QED
  BY <1>1, <1>2, <1>3 DEF Log!Ordered

LEMMA AppendFailsStep ==
  ASSUME StoreInv, NEW u \in User, NEW id \in Id, NEW b \in Body,
         AppendFails(u, id, b)
  PROVE  StoreInv' /\ UNCHANGED file.lines
<1>1. file \in Files /\ Log!Ordered(Readable)
  BY DEF StoreInv, StoreTypes
<1>2. file' \in Files /\ file'.lines = file.lines /\ Log!Ordered(Readable)'
  <2>1. CASE UNCHANGED file
    BY <1>1, <2>1 DEF Readable, Log!Ordered
  <2>2. CASE file' = [file EXCEPT !.torn = TRUE]
    <3>1. /\ file' \in Files /\ file'.lines = file.lines
          /\ file'.unsynced = file.unsynced
      BY <1>1, <2>2 DEF Files
    <3>2. QED
      BY <1>1, <3>1 DEF Readable, Log!Ordered
  <2>3. CASE file' = [file EXCEPT !.unsynced = Append(@, NewRecord(u, id, b))]
    BY <2>3, UnsyncedLine DEF AppendFails
  <2>4. QED
    BY <2>1, <2>2, <2>3 DEF AppendFails
<1>3. StoreTypes' /\ AckedSurvive'
  BY <1>2 DEF StoreInv, StoreTypes, AckedSurvive, AppendFails, Log!RecordsOf
<1>4. Faithful'
  BY DEF Faithful, AppendFails
<1>5. QED
  BY <1>2, <1>3, <1>4 DEF StoreInv

\* A process that ends leaves values of the right types.
LEMMA GoneTypes ==
  ASSUME StoreTypes, Gone, file' \in Files
  PROVE  StoreTypes'
<1>1. records' \in Seq(Record) /\ nextSeq' \in Nat \ {0}
  BY EmptySeq DEF Gone
<1>2. running' \in BOOLEAN /\ failed' \in BOOLEAN
  BY DEF Gone
<1>3. acked' \subseteq Record
  BY DEF StoreTypes, Gone
<1>4. QED
  BY <1>1, <1>2, <1>3 DEF StoreTypes

LEMMA AppendCrashStep ==
  ASSUME StoreInv, NEW u \in User, NEW id \in Id, NEW b \in Body,
         AppendCrash(u, id, b)
  PROVE  StoreInv' /\ Log!Grow
<1> DEFINE r == NewRecord(u, id, b)
           s == Append(Readable, r)
<1>1. /\ r \in Record /\ s \in Seq(Record)
      /\ Log!Ordered(s) /\ Log!Extends(s, file.lines)
      /\ Readable \in Seq(Record) /\ file \in Files
      /\ file.lines \in Seq(Record) /\ Log!Ordered(Readable)
  BY NewRecordFits, ReadableSeq DEF AppendCrash, StoreInv, StoreTypes
<1>2. /\ file' \in Files /\ Log!Ordered(Readable)'
      /\ file'.lines = file.lines \/ file'.lines = s
  <2>1. CASE file' = [file EXCEPT !.torn = TRUE]
    <3>1. /\ file' \in Files /\ file'.lines = file.lines
          /\ file'.unsynced = file.unsynced
      BY <1>1, <2>1 DEF Files
    <3>2. QED
      BY <1>1, <3>1 DEF Readable, Log!Ordered
  <2>2. CASE file' = [file EXCEPT !.unsynced = Append(@, r)]
    BY <2>2, UnsyncedLine DEF AppendCrash
  <2>3. CASE file' = [file EXCEPT !.lines = s, !.unsynced = <<>>]
    <3>1. file' \in Files /\ file'.lines = s /\ file'.unsynced = <<>>
      BY <1>1, <2>3, EmptySeq DEF Files
    <3>2. Readable' = s
      BY <1>1, <3>1, ConcatEmptySeq DEF Readable
    <3>3. QED
      BY <1>1, <3>1, <3>2 DEF Log!Ordered
  <2>4. QED
    BY <2>1, <2>2, <2>3 DEF AppendCrash
<1>3. Log!Extends(file'.lines, file.lines) /\ file'.lines \in Seq(Record)
  <2>1. Log!Extends(file.lines, file.lines)
    BY <1>1, LenProperties DEF Log!Extends
  <2>2. QED
    BY <1>1, <1>2, <2>1
<1>4. Log!Ordered(file'.lines)
  <2>1. Log!Ordered(file.lines)
    BY <1>1, ReadableExtends, OrderedPrefix
  <2>2. QED
    BY <1>1, <1>2, <2>1
<1>5. StoreTypes'
  BY <1>2, GoneTypes DEF StoreInv, AppendCrash
<1>6. AckedSurvive'
  BY <1>1, <1>3, RecordsOfExtends
  DEF StoreInv, AckedSurvive, AppendCrash, Gone, Log!RecordsOf
<1>7. Faithful'
  BY DEF Faithful, AppendCrash, Gone
<1>8. Log!Grow
  BY <1>3, <1>4 DEF Log!Grow, Log!Extends, Log!Ordered
<1>9. QED
  BY <1>2, <1>5, <1>6, <1>7, <1>8 DEF StoreInv

LEMMA ExitStep ==
  ASSUME StoreInv, Exit
  PROVE  StoreInv' /\ UNCHANGED file.lines
<1>1. StoreTypes' /\ AckedSurvive'
  <2>1. file \in Files /\ file' = file /\ acked' = acked
    BY DEF StoreInv, StoreTypes, Exit, Gone
  <2>2. StoreTypes'
    BY <2>1, GoneTypes DEF StoreInv, Exit
  <2>3. QED
    BY <2>1, <2>2 DEF StoreInv, AckedSurvive, Log!RecordsOf
<1>2. Log!Ordered(Readable)'
  BY DEF StoreInv, Exit, Readable, Log!Ordered
<1>3. Faithful'
  BY DEF Faithful, Exit, Gone
<1>4. QED
  BY <1>1, <1>2, <1>3 DEF StoreInv, Exit

\* Two sequences stay alike when the same one is put before them.
LEMMA SharedPrefix ==
  ASSUME NEW l \in Seq(Record), NEW v \in Seq(Record), NEW w \in Seq(Record),
         Len(w) <= Len(v), \A i \in 1..Len(w) : w[i] = v[i]
  PROVE  Log!Extends(l \o v, l \o w)
<1>1. Len(l) \in Nat /\ Len(v) \in Nat /\ Len(w) \in Nat
  BY LenProperties
<1>2. /\ Len(l \o w) = Len(l) + Len(w)
      /\ \A i \in 1..Len(l) + Len(w) :
           (l \o w)[i] = IF i <= Len(l) THEN l[i] ELSE w[i - Len(l)]
  BY ConcatProperties
<1>3. /\ Len(l \o v) = Len(l) + Len(v)
      /\ \A i \in 1..Len(l) + Len(v) :
           (l \o v)[i] = IF i <= Len(l) THEN l[i] ELSE v[i - Len(l)]
  BY ConcatProperties
<1>4. ASSUME NEW i \in 1..Len(l) + Len(w)
      PROVE  (l \o v)[i] = (l \o w)[i]
  <2>0. i \in 1..Len(l) + Len(v)
    BY <1>1
  <2>1. CASE i <= Len(l)
    BY <1>2, <1>3, <2>0, <2>1
  <2>2. CASE ~(i <= Len(l))
    <3>1. i - Len(l) \in 1..Len(w)
      BY <1>1, <2>2
    <3>2. QED
      BY <1>2, <1>3, <2>0, <2>2, <3>1
  <2>3. QED
    BY <2>1, <2>2
<1>5. QED
  BY <1>1, <1>2, <1>3, <1>4 DEF Log!Extends

\* The lines that survive are a prefix of what could be read before.
LEMMA PowerLossFile ==
  ASSUME file \in Files, PowerLoss
  PROVE  /\ file' \in Files
         /\ Log!Extends(file'.lines, file.lines)
         /\ Readable' = file'.lines
         /\ Log!Extends(Readable, Readable')
<1>1. PICK n \in 0..Len(file.unsynced), t \in BOOLEAN :
        file' = [file EXCEPT !.lines = @ \o SubSeq(file.unsynced, 1, n),
                             !.unsynced = <<>>,
                             !.torn = t]
  BY DEF PowerLoss
<1> DEFINE l == file.lines
           v == file.unsynced
           w == SubSeq(v, 1, n)
<1>2. l \in Seq(Record) /\ v \in Seq(Record)
  BY ReadableSeq
<1>3. Len(l) \in Nat /\ Len(v) \in Nat /\ n \in Nat /\ n <= Len(v)
  BY <1>2, LenProperties
<1>4. w \in Seq(Record) /\ Len(w) = n /\ \A i \in 1..n : w[i] = v[i]
  <2>1. \A i \in 1..n : v[i] \in Record
    BY <1>2, <1>3, ElementOfSeq
  <2>2. /\ SubSeq(v, 1, n) \in Seq(Record)
        /\ Len(SubSeq(v, 1, n)) = IF 1 <= n THEN n - 1 + 1 ELSE 0
        /\ \A i \in 1..n - 1 + 1 : SubSeq(v, 1, n)[i] = v[1 + i - 1]
    BY <1>3, <2>1, SubSeqProperties
  <2>3. QED
    BY <1>3, <2>2
<1>5. /\ file' \in Files /\ file'.lines = l \o w /\ file'.unsynced = <<>>
      /\ l \o w \in Seq(Record)
  BY <1>1, <1>2, <1>4, ConcatProperties, EmptySeq DEF Files
<1>6. Readable' = l \o w
  BY <1>5, ConcatEmptySeq DEF Readable
<1>7. Log!Extends(l \o w, l)
  BY <1>2, <1>4, ConcatExtends
<1>8. Log!Extends(l \o v, l \o w)
  BY <1>2, <1>3, <1>4, SharedPrefix
<1>9. QED
  BY <1>5, <1>6, <1>7, <1>8 DEF Readable

LEMMA PowerLossStep ==
  ASSUME StoreInv, PowerLoss
  PROVE  StoreInv' /\ Log!Grow
<1>1. /\ file' \in Files /\ Log!Extends(file'.lines, file.lines)
      /\ Readable' = file'.lines /\ Log!Extends(Readable, Readable')
      /\ file \in Files
  BY PowerLossFile DEF StoreInv, StoreTypes
<1>2. Readable \in Seq(Record) /\ file.lines \in Seq(Record)
      /\ file'.lines \in Seq(Record)
  BY <1>1, ReadableSeq DEF Files
<1>3. Log!Ordered(file'.lines)
  BY <1>1, <1>2, OrderedPrefix DEF StoreInv
<1>4. Log!Ordered(Readable)'
  BY <1>1, <1>3 DEF Log!Ordered
<1>5. StoreTypes'
  BY <1>1, GoneTypes DEF StoreInv, PowerLoss
<1>6. AckedSurvive'
  BY <1>1, <1>2, RecordsOfExtends
  DEF StoreInv, AckedSurvive, PowerLoss, Gone, Log!RecordsOf
<1>7. Faithful'
  BY DEF Faithful, PowerLoss, Gone
<1>8. Log!Grow
  BY <1>1, <1>3 DEF Log!Grow, Log!Extends, Log!Ordered
<1>9. QED
  BY <1>4, <1>5, <1>6, <1>7, <1>8 DEF StoreInv

\* What an erase keeps is in order and holds nothing of the user's.
LEMMA WithoutProperties ==
  ASSUME NEW s \in Seq(Record), NEW u \in User, NEW t \in Log!Without(s, u)
  PROVE  /\ t \in Seq(Record) /\ Log!Ordered(t)
         /\ Log!RecordsOf(t) = {r \in Log!RecordsOf(s) : r.user # u}
<1> DEFINE kept == {r \in Log!RecordsOf(s) : r.user # u}
<1>1. kept \subseteq Record
  BY ElementOfSeq DEF Log!RecordsOf
<1>2. PICK n \in 0..Len(s) : t \in [1..n -> kept]
  BY DEF Log!Without
<1>3. t \in [1..n -> Record]
  BY <1>1, <1>2
<1>4. n \in Nat
  BY <1>2, LenProperties
<1>5. QED
  BY <1>3, <1>4, IsASeq DEF Log!Without

LEMMA EraseStep ==
  ASSUME StoreInv, NEW u \in User, Erase(u)
  PROVE  StoreInv' /\ Log!Forget(u)
<1>1. /\ file \in Files /\ Readable \in Seq(Record)
      /\ file.lines \in Seq(Record) /\ Log!Extends(Readable, file.lines)
      /\ Log!Ordered(Readable)
  BY ReadableSeq, ReadableExtends DEF StoreInv, StoreTypes
<1>2. PICK kept \in Log!Without(Readable, u) :
        file' = [file EXCEPT !.lines = kept, !.unsynced = <<>>, !.torn = FALSE]
  BY DEF Erase
<1>3. /\ kept \in Seq(Record) /\ Log!Ordered(kept)
      /\ Log!RecordsOf(kept) = {r \in Log!RecordsOf(Readable) : r.user # u}
  BY <1>1, WithoutProperties
<1>4. file' \in Files /\ file'.lines = kept /\ file'.unsynced = <<>>
  BY <1>1, <1>2, <1>3, EmptySeq DEF Files
<1>5. Readable' = kept
  BY <1>3, <1>4, ConcatEmptySeq DEF Readable
<1>6. StoreTypes'
  <2>1. acked' \subseteq Record
    BY DEF StoreInv, StoreTypes, Erase
  <2>2. UNCHANGED <<running, records, nextSeq, failed>>
    BY DEF Erase
  <2>3. QED
    BY <1>4, <2>1, <2>2 DEF StoreInv, StoreTypes
<1>7. Log!RecordsOf(file.lines) \subseteq Log!RecordsOf(Readable)
  BY <1>1, RecordsOfExtends
<1>8. AckedSurvive'
  <2>1. Log!RecordsOf(file.lines)' = Log!RecordsOf(kept)
    BY <1>4 DEF Log!RecordsOf
  <2>2. acked \subseteq Log!RecordsOf(Readable)
    BY <1>7 DEF StoreInv, AckedSurvive
  <2>3. QED
    BY <1>3, <2>1, <2>2 DEF AckedSurvive, Erase
<1>9. Faithful'
  BY DEF Faithful, Erase
<1>10. Log!Ordered(Readable)'
  BY <1>3, <1>5 DEF Log!Ordered
<1>11. Log!Forget(u)
  <2>1. ASSUME NEW r \in Log!RecordsOf(kept)
        PROVE  \/ r \in Log!RecordsOf(file.lines)
               \/ \A q \in Log!RecordsOf(file.lines) : q.seq < r.seq
    <3>1. PICK i \in 1..Len(Readable) : r = Readable[i]
      BY <1>3 DEF Log!RecordsOf
    <3>2. Len(Readable) \in Nat /\ Len(file.lines) \in Nat
      BY <1>1, LenProperties
    <3>3. CASE i <= Len(file.lines)
      BY <1>1, <3>1, <3>2, <3>3 DEF Log!Extends, Log!RecordsOf
    <3>4. CASE ~(i <= Len(file.lines))
      BY <1>1, <3>1, <3>2, <3>4 DEF Log!Extends, Log!RecordsOf, Log!Ordered
    <3>5. QED
      BY <3>3, <3>4
  <2>2. Log!RecordsOf(file'.lines) = Log!RecordsOf(kept) /\ Log!Ordered(file'.lines)
    BY <1>3, <1>4
  <2>3. QED
    BY <1>3, <1>7, <2>1, <2>2 DEF Log!Forget, Log!RecordsOf, Log!Ordered
<1>12. QED
  BY <1>6, <1>8, <1>9, <1>10, <1>11 DEF StoreInv

LEMMA EraseCrashStep ==
  ASSUME StoreInv, EraseCrash
  PROVE  StoreInv' /\ UNCHANGED file.lines
<1>1. file \in Files /\ file' \in Files
      /\ file'.lines = file.lines /\ file'.unsynced = file.unsynced
  BY DEF StoreInv, StoreTypes, EraseCrash, Files
<1>2. Readable' = Readable
  BY <1>1 DEF Readable
<1>3. StoreTypes' /\ AckedSurvive'
  BY <1>1 DEF StoreInv, StoreTypes, AckedSurvive, EraseCrash, Log!RecordsOf
<1>4. Faithful'
  BY <1>2 DEF StoreInv, Faithful, EraseCrash, NextSeq
<1>5. QED
  BY <1>1, <1>2, <1>3, <1>4 DEF StoreInv

\* Every step of the store keeps the invariant and is a step of the log.
LEMMA StoreStep ==
  ASSUME StoreInv, [StoreNext]_storeVars
  PROVE  StoreInv' /\ (Log!LogNext \/ UNCHANGED file.lines)
<1>1. CASE UNCHANGED storeVars
  <2>1. UNCHANGED <<file, running, records, nextSeq, failed, acked>>
    BY <1>1 DEF storeVars
  <2>2. QED
    BY <2>1 DEF StoreInv, StoreTypes, Faithful, AckedSurvive, Readable,
       NextSeq, Log!Ordered, Log!RecordsOf
<1>2. CASE Open
  BY <1>2, OpenStep
<1>3. CASE OpenCrash
  BY <1>3, OpenCrashStep
<1>4. ASSUME NEW u \in User, NEW id \in Id, NEW b \in Body,
             AppendOk(u, id, b) \/ AppendFails(u, id, b) \/ AppendCrash(u, id, b)
      PROVE  StoreInv' /\ (Log!LogNext \/ UNCHANGED file.lines)
  BY <1>4, AppendOkStep, AppendFailsStep, AppendCrashStep DEF Log!LogNext
<1>5. CASE Exit
  BY <1>5, ExitStep
<1>6. CASE PowerLoss
  BY <1>6, PowerLossStep DEF Log!LogNext
<1>7. ASSUME NEW u \in User, Erase(u)
      PROVE  StoreInv' /\ Log!LogNext
  BY <1>7, EraseStep DEF Log!LogNext
<1>8. CASE EraseCrash
  BY <1>8, EraseCrashStep
<1>9. QED
  BY <1>1, <1>2, <1>3, <1>4, <1>5, <1>6, <1>7, <1>8 DEF StoreNext

-----------------------------------------------------------------------------

\* The store by itself keeps its invariant: file and memory agree, numbers
\* only grow, and what was acknowledged is on the disk (append, open_impl).
THEOREM StoreCorrect == StoreSpec => []StoreInv
<1>1. StoreInit => StoreInv
  BY InitInv
<1>2. StoreInv /\ [StoreNext]_storeVars => StoreInv'
  BY StoreStep
<1>3. QED
  BY <1>1, <1>2, PTL DEF StoreSpec

\* The store by itself implements the log, whatever crashes.
THEOREM StoreImplementsLog == StoreSpec => Promise
<1>1. StoreInit => Log!LogInit
  BY DEF StoreInit, NoFile, Log!LogInit
<1>2. StoreInv /\ [StoreNext]_storeVars => [Log!LogNext]_(file.lines)
  BY StoreStep
<1>3. QED
  BY <1>1, <1>2, StoreCorrect, PTL DEF StoreSpec, Promise, Log!LogSpec
=============================================================================
