----------------------------- MODULE SubmitProofs -----------------------------
(***************************************************************************)
(* Proofs about Submit, for any viewers, clicks, threads and limits: what  *)
(* the store promises holds of the server that uses it, and IInv is        *)
(* inductive, so that a gated statement is recorded once and no viewer has *)
(* more records than her limit.                                            *)
(***************************************************************************)
EXTENDS SubmitInv, StateStoreProofs, FiniteSetTheorems

\* OnceOnly and QuotaHeld, of any sequence of records.
NoRepeat(s) ==
  \A i, j \in 1..Len(s) :
    (i # j /\ s[i].user = s[j].user /\ s[i].body = s[j].body)
      => s[i].body \notin Once
InQuota(s) == \A u \in User : Cardinality(Rows(s, u)) <= MaxPerViewer

-----------------------------------------------------------------------------
(* Sequences of records.                                                   *)

LEMMA RowsFinite ==
  ASSUME NEW s \in Seq(Record), NEW u
  PROVE  IsFiniteSet(Rows(s, u)) /\ Cardinality(Rows(s, u)) \in Nat
<1>1. Len(s) \in Nat
  BY LenProperties
<1>2. IsFiniteSet(1..Len(s))
  BY <1>1, FS_Interval
<1>3. Rows(s, u) \in SUBSET (1..Len(s))
  BY DEF Rows
<1>4. QED
  BY <1>2, <1>3, FS_Subset, FS_CardinalityType

\* A record added counts for its viewer and for nobody else.
LEMMA RowsAppend ==
  ASSUME NEW s \in Seq(Record), NEW r \in Record, NEW u
  PROVE  /\ r.user # u => Rows(Append(s, r), u) = Rows(s, u)
         /\ r.user = u => /\ Rows(Append(s, r), u) = Rows(s, u) \cup {Len(s) + 1}
                          /\ Cardinality(Rows(Append(s, r), u))
                               = Cardinality(Rows(s, u)) + 1
<1>1. /\ Len(s) \in Nat /\ Len(Append(s, r)) = Len(s) + 1
      /\ \A i \in 1..Len(s) : Append(s, r)[i] = s[i]
      /\ Append(s, r)[Len(s) + 1] = r
  BY AppendedRecord, LenProperties
<1>2. r.user # u => Rows(Append(s, r), u) = Rows(s, u)
  BY <1>1 DEF Rows
<1>3. ASSUME r.user = u
      PROVE  Rows(Append(s, r), u) = Rows(s, u) \cup {Len(s) + 1}
  BY <1>1, <1>3 DEF Rows
<1>4. Len(s) + 1 \notin Rows(s, u)
  BY <1>1 DEF Rows
<1>5. Cardinality(Rows(s, u) \cup {Len(s) + 1}) = Cardinality(Rows(s, u)) + 1
  BY <1>4, RowsFinite, FS_AddElement
<1>6. QED
  BY <1>2, <1>3, <1>5

\* A prefix keeps both properties.
LEMMA PrefixFits ==
  ASSUME NEW s \in Seq(Record), NEW t \in Seq(Record), Log!Extends(t, s),
         NoRepeat(t), InQuota(t)
  PROVE  NoRepeat(s) /\ InQuota(s)
<1>1. Len(s) \in Nat /\ Len(t) \in Nat /\ Len(s) <= Len(t)
      /\ \A i \in 1..Len(s) : t[i] = s[i]
  BY LenProperties DEF Log!Extends
<1>2. NoRepeat(s)
  BY <1>1 DEF NoRepeat
<1>3. ASSUME NEW u \in User
      PROVE  Cardinality(Rows(s, u)) <= MaxPerViewer
  <2>1. Rows(s, u) \in SUBSET Rows(t, u)
    BY <1>1 DEF Rows
  <2>2. Cardinality(Rows(s, u)) <= Cardinality(Rows(t, u))
    BY <2>1, RowsFinite, FS_Subset
  <2>3. Cardinality(Rows(t, u)) <= MaxPerViewer
    BY DEF InQuota
  <2>4. MaxPerViewer \in Nat
    BY SubmitAssumption
  <2>5. QED
    BY <2>2, <2>3, <2>4, RowsFinite
<1>4. QED
  BY <1>2, <1>3 DEF InQuota

\* A record that the gate and the limit let through keeps both.
LEMMA AppendFits ==
  ASSUME NEW s \in Seq(Record), NEW r \in Record, NoRepeat(s), InQuota(s),
         Cardinality(Rows(s, r.user)) < MaxPerViewer,
         \/ r.body \notin Once
         \/ \A i \in Rows(s, r.user) : s[i].body # r.body
  PROVE  NoRepeat(Append(s, r)) /\ InQuota(Append(s, r))
<1>1. /\ Len(s) \in Nat /\ Len(Append(s, r)) = Len(s) + 1
      /\ \A i \in 1..Len(s) : Append(s, r)[i] = s[i]
      /\ Append(s, r)[Len(s) + 1] = r
  BY AppendedRecord, LenProperties
<1>2. \A i \in 1..Len(s) :
        s[i].user = r.user /\ s[i].body = r.body => r.body \notin Once
  BY DEF Rows
<1>3. ASSUME NEW i \in 1..Len(Append(s, r)), NEW j \in 1..Len(Append(s, r)),
             i # j, Append(s, r)[i].user = Append(s, r)[j].user,
             Append(s, r)[i].body = Append(s, r)[j].body
      PROVE  Append(s, r)[i].body \notin Once
  <2>1. CASE i \in 1..Len(s) /\ j \in 1..Len(s)
    BY <1>1, <1>3, <2>1 DEF NoRepeat
  <2>2. CASE i = Len(s) + 1 /\ j \in 1..Len(s)
    BY <1>1, <1>2, <1>3, <2>2
  <2>3. CASE i \in 1..Len(s) /\ j = Len(s) + 1
    BY <1>1, <1>2, <1>3, <2>3
  <2>4. QED
    BY <1>1, <1>3, <2>1, <2>2, <2>3
<1>4. ASSUME NEW u \in User
      PROVE  Cardinality(Rows(Append(s, r), u)) <= MaxPerViewer
  <2>1. Cardinality(Rows(s, u)) <= MaxPerViewer /\ MaxPerViewer \in Nat
    BY SubmitAssumption DEF InQuota
  <2>2. QED
    BY <2>1, RowsAppend, RowsFinite
<1>5. QED
  BY <1>3, <1>4 DEF NoRepeat, InQuota

\* What an erase keeps holds each record of another viewer once.
LEMMA WithoutFits ==
  ASSUME NEW s \in Seq(Record), NoRepeat(s), InQuota(s),
         NEW u \in User, NEW t \in Log!Without(s, u)
  PROVE  NoRepeat(t) /\ InQuota(t)
<1>1. /\ t \in Seq(Record) /\ Log!Ordered(t)
      /\ Log!RecordsOf(t) = {r \in Log!RecordsOf(s) : r.user # u}
  BY WithoutProperties
<1>2. Len(s) \in Nat /\ Len(t) \in Nat
  BY <1>1, LenProperties
<1>3. \A i \in 1..Len(t) : \E k \in 1..Len(s) : s[k] = t[i]
  BY <1>1 DEF Log!RecordsOf
<1> DEFINE at == [i \in 1..Len(t) |-> CHOOSE k \in 1..Len(s) : s[k] = t[i]]
<1>4. \A i \in 1..Len(t) : at[i] \in 1..Len(s) /\ s[at[i]] = t[i]
  BY <1>3
<1> HIDE DEF at
<1>5. ASSUME NEW i \in 1..Len(t), NEW j \in 1..Len(t), i # j
      PROVE  at[i] # at[j]
  <2>1. t[i].seq < t[j].seq \/ t[j].seq < t[i].seq
    BY <1>1, <1>2, <1>5 DEF Log!Ordered
  <2>2. t[i].seq \in Nat /\ t[j].seq \in Nat
    BY <1>1, ElementOfSeq, RecordFields
  <2>3. t[i] # t[j]
    BY <2>1, <2>2
  <2>4. QED
    BY <1>4, <2>3
<1>6. NoRepeat(t)
  BY <1>4, <1>5 DEF NoRepeat
<1>7. ASSUME NEW v \in User
      PROVE  Cardinality(Rows(t, v)) <= MaxPerViewer
  <2>1. IsFiniteSet(Rows(t, v)) /\ Cardinality(Rows(t, v)) \in Nat
        /\ IsFiniteSet(Rows(s, v)) /\ Cardinality(Rows(s, v)) \in Nat
    BY <1>1, RowsFinite
  <2>2. Cardinality(Rows(s, v)) <= MaxPerViewer /\ MaxPerViewer \in Nat
    BY SubmitAssumption DEF InQuota
  <2> DEFINE f == [i \in Rows(t, v) |-> at[i]]
  <2>3. f \in [Rows(t, v) -> Rows(s, v)]
    BY <1>4 DEF Rows
  <2>4. \A i, j \in Rows(t, v) : i # j => f[i] # f[j]
    BY <1>5 DEF Rows
  <2> HIDE DEF f
  <2>5. ~(Cardinality(Rows(s, v)) < Cardinality(Rows(t, v)))
    BY <2>1, <2>3, <2>4, FS_PigeonHole
  <2>6. QED
    BY <2>1, <2>2, <2>5
<1>8. QED
  BY <1>6, <1>7 DEF InQuota

-----------------------------------------------------------------------------
(* One worker.                                                             *)

LEMMA ReqType ==
  ASSUME ServerTypes, NEW t \in Thread
  PROVE  /\ req[t] \in [pc : Pcs, click : Click, arc : Arc \cup {NoArc}]
         /\ req[t].pc \in Pcs /\ req[t].click \in Click
         /\ req[t].click.user \in User /\ req[t].click.id \in Id
         /\ req[t].click.body \in Body
         /\ req[t].arc \in Arc \cup {NoArc}
<1>1. req[t] \in [pc : Pcs, click : Click, arc : Arc \cup {NoArc}]
  BY DEF ServerTypes
<1>2. req[t].click \in [user : User, id : Id, body : Body]
  BY <1>1, SubmitAssumption
<1>3. QED
  BY <1>1, <1>2

LEMMA Moved ==
  ASSUME ServerTypes, NEW t \in Thread, NEW pc \in Pcs, Goto(t, pc)
  PROVE  /\ req' \in [Thread -> [pc : Pcs, click : Click, arc : Arc \cup {NoArc}]]
         /\ req'[t].pc = pc /\ req'[t].click = req[t].click
         /\ req'[t].arc = req[t].arc
         /\ \A s \in Thread \ {t} : req'[s] = req[s]
BY DEF ServerTypes, Goto

LEMMA IdleType == Idle \in [pc : Pcs, click : Click, arc : Arc \cup {NoArc}]
BY SubmitAssumption DEF Idle, Pcs

LEMMA Returned ==
  ASSUME ServerTypes, NEW t \in Thread, Return(t)
  PROVE  /\ req' \in [Thread -> [pc : Pcs, click : Click, arc : Arc \cup {NoArc}]]
         /\ req'[t].pc = "idle" /\ req'[t].arc = NoArc
         /\ \A s \in Thread \ {t} : req'[s] = req[s]
<1>1. req' \in [Thread -> [pc : Pcs, click : Click, arc : Arc \cup {NoArc}]]
  BY IdleType DEF ServerTypes, Return
<1>2. req'[t] = Idle /\ \A s \in Thread \ {t} : req'[s] = req[s]
  BY DEF ServerTypes, Return
<1>3. QED
  BY <1>1, <1>2 DEF Idle

\* A worker whose state moves within the rules disturbs nobody else.
LEMMA WorkerKeeps ==
  ASSUME IInv, NEW t \in Thread, running' = TRUE,
         UNCHANGED <<records, recent, forgotten, lockOf, lifeSeq>>,
         \A s \in Thread \ {t} : req'[s] = req[s],
         req[t].pc # "remember",
         IF req'[t].pc \in LockPcs
           THEN /\ req'[t].arc # NoArc
                /\ lockOf[req'[t].click.user] = req'[t].arc
           ELSE req'[t].arc = NoArc,
         req'[t].pc \in Critical =>
           \A s \in Thread \ {t} : req[s].pc \in Critical =>
             req[s].click.user # req'[t].click.user,
         req'[t].pc \in {"gate", "append"} => MayGoOn(t)',
         req'[t].pc = "append" => GateOpen(req'[t].click)
  PROVE  /\ Quiet' /\ LockHeld' /\ OnePerViewer' /\ Admitted' /\ Opened'
         /\ Answered' /\ RememberedOnce'
<1>1. Quiet'
  BY DEF Quiet
<1>2. LockHeld'
  BY DEF IInv, ServerInv, LockHeld
<1>3. OnePerViewer'
  BY DEF IInv, ServerInv, OnePerViewer
<1>4. Admitted'
  <2>1. ASSUME NEW s \in Thread \ {t}, req'[s].pc \in {"gate", "append"}
        PROVE  MayGoOn(s)'
    <3>1. MayGoOn(s)
      BY <2>1 DEF IInv, ServerInv, Admitted
    <3>2. QED
      BY <2>1, <3>1 DEF MayGoOn, Key, Rows
  <2>2. QED
    BY <2>1 DEF Admitted
<1>5. Opened'
  <2>1. ASSUME NEW s \in Thread, req'[s].pc = "append"
        PROVE  GateOpen(req'[s].click)
    BY <2>1 DEF IInv, ServerInv, Opened
  <2>2. \A c : GateOpen(c)' = GateOpen(c)
    BY DEF GateOpen, Rows
  <2>3. QED
    BY <2>1, <2>2 DEF Opened, GateOpen, Rows
<1>6. Answered'
  <2>1. ASSUME NEW i \in 1..Len(records), records[i].seq >= lifeSeq,
               Key(records[i]) \notin recent \cup forgotten
        PROVE  \E s \in Thread :
                 req'[s].pc = "remember" /\ Key(req'[s].click) = Key(records[i])
    <3>1. PICK s \in Thread :
            req[s].pc = "remember" /\ Key(req[s].click) = Key(records[i])
      BY <2>1 DEF IInv, ServerInv, Answered
    <3>2. s \in Thread \ {t}
      BY <3>1
    <3>3. QED
      BY <3>1, <3>2
  <2>2. QED
    BY <2>1 DEF Answered, Key
<1>7. RememberedOnce'
  BY DEF IInv, ServerInv, RememberedOnce, Key
<1>8. QED
  BY <1>1, <1>2, <1>3, <1>4, <1>5, <1>6, <1>7

\* A worker that returns from anywhere but its answer.
LEMMA ReturnKeeps ==
  ASSUME IInv, NEW t \in Thread, Return(t), running' = TRUE,
         UNCHANGED <<records, recent, forgotten, lockOf, lifeSeq>>,
         req[t].pc # "remember"
  PROVE  /\ Quiet' /\ LockHeld' /\ OnePerViewer' /\ Admitted' /\ Opened'
         /\ Answered' /\ RememberedOnce'
<1>1. /\ req'[t].pc = "idle" /\ req'[t].arc = NoArc
      /\ \A s \in Thread \ {t} : req'[s] = req[s]
  BY Returned DEF IInv, ServerInv
<1>2. "idle" \notin LockPcs /\ "idle" \notin Critical
  BY DEF LockPcs, Critical
<1>3. QED
  BY <1>1, <1>2, WorkerKeeps

\* A worker at work belongs to a process.
LEMMA AtWork ==
  ASSUME IInv, NEW t \in Thread, req[t].pc # "idle"
  PROVE  running = TRUE
BY DEF IInv, ServerInv, Quiet, StoreInv, StoreTypes

\* What only the file and the rows say stays true with them.
LEMMA FileKept ==
  ASSUME IInv, UNCHANGED <<file, records>>
  PROVE  /\ OnceOnly' /\ QuotaHeld'
         /\ gates' = gates => GatesTrue'
<1>1. Readable' = Readable
  BY DEF Readable
<1>2. OnceOnly' /\ QuotaHeld'
  BY <1>1 DEF IInv, ServerInv, OnceOnly, QuotaHeld, Rows
<1>3. ASSUME gates' = gates
      PROVE  GatesTrue'
  BY <1>3 DEF IInv, ServerInv, GatesTrue, GateOpen, Rows
<1>4. QED
  BY <1>2, <1>3

-----------------------------------------------------------------------------
(* The handler's steps that leave the store alone.                         *)

LEMMA ArriveStep ==
  ASSUME IInv, NEW t \in Thread, NEW c \in Click, Arrive(t, c)
  PROVE  ServerInv'
<1>1. /\ req' \in [Thread -> [pc : Pcs, click : Click, arc : Arc \cup {NoArc}]]
      /\ req'[t].pc = "lock" /\ req'[t].arc = NoArc
      /\ \A s \in Thread \ {t} : req'[s] = req[s]
  <2>1. [pc |-> "lock", click |-> c, arc |-> NoArc]
          \in [pc : Pcs, click : Click, arc : Arc \cup {NoArc}]
    BY DEF Pcs
  <2>2. QED
    BY <2>1 DEF IInv, ServerInv, ServerTypes, Arrive
<1>2. ServerTypes'
  BY <1>1 DEF IInv, ServerInv, ServerTypes, Arrive
<1>3. "lock" \notin LockPcs /\ "lock" \notin Critical
  BY DEF LockPcs, Critical
<1>4. running' = TRUE
  BY DEF Arrive, storeVars, IInv, StoreInv, StoreTypes
<1>5. /\ Quiet' /\ LockHeld' /\ OnePerViewer' /\ Admitted' /\ Opened'
      /\ Answered' /\ RememberedOnce'
  BY <1>1, <1>3, <1>4, WorkerKeeps DEF Arrive, storeVars
<1>6. OnceOnly' /\ QuotaHeld' /\ GatesTrue'
  BY FileKept DEF Arrive, storeVars
<1>7. QED
  BY <1>2, <1>5, <1>6 DEF ServerInv

LEMMA TryLockStep ==
  ASSUME IInv, NEW t \in Thread, TryLock(t)
  PROVE  ServerInv'
<1>1. /\ UNCHANGED <<file, running, records, recent, forgotten, lockOf, gates,
                     lifeSeq>>
      /\ req[t].pc = "try"
  BY DEF TryLock, storeVars
<1>2. running' = TRUE
  BY <1>1, AtWork
<1>3. OnceOnly' /\ QuotaHeld' /\ GatesTrue'
  BY <1>1, FileKept
<1>4. CASE Return(t)
  <2>1. ServerTypes'
    BY <1>1, <1>4, Returned DEF IInv, ServerInv, ServerTypes
  <2>2. /\ Quiet' /\ LockHeld' /\ OnePerViewer' /\ Admitted' /\ Opened'
        /\ Answered' /\ RememberedOnce'
    BY <1>1, <1>2, <1>4, ReturnKeeps
  <2>3. QED
    BY <1>3, <2>1, <2>2 DEF ServerInv
<1>5. CASE Goto(t, "check") /\ ~Locked(req[t].arc)
  <2>1. /\ req' \in [Thread -> [pc : Pcs, click : Click, arc : Arc \cup {NoArc}]]
        /\ req'[t].pc = "check" /\ req'[t].click = req[t].click
        /\ req'[t].arc = req[t].arc
        /\ \A s \in Thread \ {t} : req'[s] = req[s]
    <3>1. "check" \in Pcs
      BY DEF Pcs, Critical
    <3>2. QED
      BY <1>5, <3>1, Moved DEF IInv, ServerInv
  <2>2. ServerTypes'
    BY <1>1, <2>1 DEF IInv, ServerInv, ServerTypes
  <2>3. req[t].arc # NoArc /\ lockOf[req[t].click.user] = req[t].arc
    BY <1>1 DEF IInv, ServerInv, LockHeld, LockPcs
  <2>4. \A s \in Thread \ {t} : req[s].pc \in Critical =>
          req[s].click.user # req'[t].click.user
    <3>1. TAKE s \in Thread \ {t}
    <3>2. HAVE req[s].pc \in Critical
    <3>3. req[s].arc # req[t].arc
      BY <1>5, <3>2 DEF Locked
    <3>4. lockOf[req[s].click.user] = req[s].arc
      BY <3>2 DEF IInv, ServerInv, LockHeld, LockPcs
    <3>5. QED
      BY <2>1, <2>3, <3>3, <3>4
  <2>5. /\ Quiet' /\ LockHeld' /\ OnePerViewer' /\ Admitted' /\ Opened'
        /\ Answered' /\ RememberedOnce'
    <3>1. "check" \in LockPcs
      BY DEF LockPcs, Critical
    <3>2. QED
      BY <1>1, <1>2, <2>1, <2>3, <2>4, <3>1, WorkerKeeps
  <2>6. QED
    BY <1>3, <2>2, <2>5 DEF ServerInv
<1>6. QED
  BY <1>4, <1>5 DEF TryLock

\* A worker past the mutex stays in it: nothing but its place changes.
LEMMA GoOnKeeps ==
  ASSUME IInv, NEW t \in Thread, NEW pc \in {"gate", "append"}, Goto(t, pc),
         running' = TRUE,
         UNCHANGED <<records, recent, forgotten, lockOf, lifeSeq>>,
         req[t].pc \in {"check", "gate"},
         MayGoOn(t),
         pc = "append" => GateOpen(req[t].click)
  PROVE  /\ Quiet' /\ LockHeld' /\ OnePerViewer' /\ Admitted' /\ Opened'
         /\ Answered' /\ RememberedOnce'
         /\ req' \in [Thread -> [pc : Pcs, click : Click, arc : Arc \cup {NoArc}]]
<1>1. /\ req' \in [Thread -> [pc : Pcs, click : Click, arc : Arc \cup {NoArc}]]
      /\ req'[t].pc = pc /\ req'[t].click = req[t].click
      /\ req'[t].arc = req[t].arc
      /\ \A s \in Thread \ {t} : req'[s] = req[s]
  <2>1. pc \in Pcs
    BY DEF Pcs, Critical
  <2>2. QED
    BY <2>1, Moved DEF IInv, ServerInv
<1>2. req[t].pc \in Critical /\ req[t].pc \in LockPcs /\ pc \in LockPcs
  BY DEF Critical, LockPcs
<1>3. req[t].arc # NoArc /\ lockOf[req[t].click.user] = req[t].arc
  BY <1>2 DEF IInv, ServerInv, LockHeld
<1>4. \A s \in Thread \ {t} : req[s].pc \in Critical =>
        req[s].click.user # req[t].click.user
  BY <1>2 DEF IInv, ServerInv, OnePerViewer
<1>5. MayGoOn(t)'
  BY <1>1 DEF MayGoOn, Key, Rows
<1>6. QED
  BY <1>1, <1>2, <1>3, <1>4, <1>5, WorkerKeeps

LEMMA CheckStep ==
  ASSUME IInv, NEW t \in Thread, Check(t)
  PROVE  ServerInv'
<1>1. /\ UNCHANGED <<file, running, records, recent, forgotten, lockOf, gates,
                     lifeSeq>>
      /\ req[t].pc = "check"
  BY DEF Check, storeVars
<1>2. running' = TRUE
  BY <1>1, AtWork
<1>3. OnceOnly' /\ QuotaHeld' /\ GatesTrue'
  BY <1>1, FileKept
<1>4. /\ req' \in [Thread -> [pc : Pcs, click : Click, arc : Arc \cup {NoArc}]]
      /\ Quiet' /\ LockHeld' /\ OnePerViewer' /\ Admitted' /\ Opened'
      /\ Answered' /\ RememberedOnce'
  <2>1. CASE Return(t)
    BY <1>1, <1>2, <2>1, Returned, ReturnKeeps DEF IInv, ServerInv
  <2>2. CASE Goto(t, "gate") /\ MayGoOn(t)
    BY <1>1, <1>2, <2>2, GoOnKeeps
  <2>3. QED
    BY <2>1, <2>2 DEF Check
<1>5. ServerTypes'
  BY <1>1, <1>4 DEF IInv, ServerInv, ServerTypes
<1>6. QED
  BY <1>3, <1>4, <1>5 DEF ServerInv

\* The gate's answer is what the viewer's rows say, cached or not.
LEMMA GateAnswerTrue ==
  ASSUME IInv, NEW c \in Click
  PROVE  GateAnswer(c) = GateOpen(c)
<1>1. \A g \in gates : g.key = GateKey(c) => g.open = GateOpen(c)
  <2>1. ASSUME NEW g \in gates, g.key = GateKey(c)
        PROVE  g.open = GateOpen(c)
    <3>1. /\ g.key.user = c.user /\ g.key.body = c.body
          /\ g.key.gen = Cardinality(Rows(records, g.key.user))
      BY <2>1 DEF GateKey
    <3>2. g.open = GateOpen(g.key)
      BY <3>1 DEF IInv, ServerInv, GatesTrue
    <3>3. GateOpen(g.key) = GateOpen(c)
      BY <3>1 DEF GateOpen
    <3>4. QED
      BY <3>2, <3>3
  <2>2. QED
    BY <2>1
<1>2. QED
  BY <1>1 DEF GateAnswer

LEMMA GateStep ==
  ASSUME IInv, NEW t \in Thread, Gate(t)
  PROVE  ServerInv'
<1> DEFINE c == req[t].click
           new == [key |-> GateKey(c), open |-> GateAnswer(c)]
<1>1. /\ UNCHANGED <<file, running, records, recent, forgotten, lockOf, lifeSeq>>
      /\ req[t].pc = "gate" /\ gates' = gates \cup {new}
  BY DEF Gate, storeVars
<1>2. running' = TRUE
  BY <1>1, AtWork
<1>3. OnceOnly' /\ QuotaHeld'
  BY <1>1, FileKept
<1>4. c \in Click /\ c.user \in User /\ c.body \in Body
  BY ReqType DEF IInv, ServerInv
<1>5. GateAnswer(c) = GateOpen(c) /\ GateOpen(c) \in BOOLEAN
  BY <1>4, GateAnswerTrue DEF GateOpen
<1>6. GateKey(c) \in [user : User, body : Body, gen : Nat]
  <2>1. Cardinality(Rows(records, c.user)) \in Nat
    BY RowsFinite DEF IInv, StoreInv, StoreTypes
  <2>2. QED
    BY <1>4, <2>1 DEF GateKey
<1>7. GatesTrue'
  <2>1. ASSUME NEW g \in gates'
        PROVE  LET now == Cardinality(Rows(records, g.key.user)) IN
                 /\ g.key.gen <= now
                 /\ g.key.gen = now => g.open = GateOpen(g.key)
    <3>1. CASE g \in gates
      BY <3>1 DEF IInv, ServerInv, GatesTrue
    <3>2. CASE g = new
      <4>1. /\ g.key.user = c.user /\ g.key.body = c.body
            /\ g.key.gen = Cardinality(Rows(records, c.user))
        BY <3>2 DEF GateKey
      <4>2. g.open = GateOpen(c)
        BY <1>5, <3>2
      <4>3. GateOpen(g.key) = GateOpen(c)
        BY <4>1 DEF GateOpen
      <4>4. Cardinality(Rows(records, c.user)) \in Nat
        BY RowsFinite DEF IInv, StoreInv, StoreTypes
      <4>5. QED
        BY <4>1, <4>2, <4>3, <4>4
    <3>3. QED
      BY <1>1, <3>1, <3>2
  <2>2. QED
    BY <1>1, <2>1 DEF GatesTrue, GateOpen, Rows
<1>8. /\ req' \in [Thread -> [pc : Pcs, click : Click, arc : Arc \cup {NoArc}]]
      /\ Quiet' /\ LockHeld' /\ OnePerViewer' /\ Admitted' /\ Opened'
      /\ Answered' /\ RememberedOnce'
  <2>1. CASE Return(t)
    BY <1>1, <1>2, <2>1, Returned, ReturnKeeps DEF IInv, ServerInv
  <2>2. CASE Goto(t, "append") /\ GateAnswer(c)
    <3>1. MayGoOn(t)
      BY <1>1 DEF IInv, ServerInv, Admitted
    <3>2. GateOpen(req[t].click)
      BY <1>5, <2>2
    <3>3. QED
      BY <1>1, <1>2, <2>2, <3>1, <3>2, GoOnKeeps
  <2>3. QED
    BY <2>1, <2>2 DEF Gate
<1>9. ServerTypes'
  <2>1. new \in [key : [user : User, body : Body, gen : Nat], open : BOOLEAN]
    BY <1>5, <1>6
  <2>2. gates' \subseteq [key : [user : User, body : Body, gen : Nat],
                          open : BOOLEAN]
    BY <1>1, <2>1 DEF IInv, ServerInv, ServerTypes
  <2>3. QED
    BY <1>1, <1>8, <2>2 DEF IInv, ServerInv, ServerTypes
<1>10. QED
  BY <1>3, <1>7, <1>8, <1>9 DEF ServerInv

LEMMA GateFailsStep ==
  ASSUME IInv, NEW t \in Thread, GateFails(t)
  PROVE  ServerInv'
<1>1. /\ UNCHANGED <<file, running, records, recent, forgotten, lockOf, gates,
                     lifeSeq>>
      /\ req[t].pc = "gate" /\ Return(t)
  BY DEF GateFails, storeVars
<1>2. running' = TRUE
  BY <1>1, AtWork
<1>3. OnceOnly' /\ QuotaHeld' /\ GatesTrue'
  BY <1>1, FileKept
<1>4. /\ Quiet' /\ LockHeld' /\ OnePerViewer' /\ Admitted' /\ Opened'
      /\ Answered' /\ RememberedOnce'
  BY <1>1, <1>2, ReturnKeeps
<1>5. ServerTypes'
  BY <1>1, Returned DEF IInv, ServerInv, ServerTypes
<1>6. QED
  BY <1>3, <1>4, <1>5 DEF ServerInv

\* Taking the mutex: a viewer's own is never evicted while a request has it.
LEMMA GetLockStep ==
  ASSUME IInv, NEW t \in Thread, GetLock(t)
  PROVE  ServerInv'
<1> DEFINE u == req[t].click.user
<1>1. /\ UNCHANGED <<file, running, records, recent, forgotten, gates, lifeSeq>>
      /\ req[t].pc = "lock"
  BY DEF GetLock, storeVars
<1>2. running' = TRUE
  BY <1>1, AtWork
<1>3. OnceOnly' /\ QuotaHeld' /\ GatesTrue'
  BY <1>1, FileKept
<1>4. req[t].pc \notin Critical /\ req[t].pc \notin LockPcs
  BY <1>1 DEF Critical, LockPcs
<1>5. u \in User /\ lockOf \in [User -> Arc \cup {NoArc}]
  BY ReqType DEF IInv, ServerInv, ServerTypes
<1>6. "try" \in LockPcs /\ "try" \notin Critical /\ "try" \in Pcs
  BY DEF LockPcs, Critical, Pcs
<1>7. ASSUME NEW a \in Arc \cup {NoArc},
             req' = [req EXCEPT ![t].pc = "try", ![t].arc = a]
      PROVE  /\ req' \in [Thread -> [pc : Pcs, click : Click,
                                     arc : Arc \cup {NoArc}]]
             /\ req'[t].pc = "try" /\ req'[t].click = req[t].click
             /\ req'[t].arc = a
             /\ \A s \in Thread \ {t} : req'[s] = req[s]
  BY <1>6, <1>7 DEF IInv, ServerInv, ServerTypes
<1>8. CASE /\ lockOf[u] # NoArc
           /\ req' = [req EXCEPT ![t].pc = "try", ![t].arc = lockOf[u]]
           /\ UNCHANGED lockOf
  <2>1. /\ req' \in [Thread -> [pc : Pcs, click : Click, arc : Arc \cup {NoArc}]]
        /\ req'[t].pc = "try" /\ req'[t].click = req[t].click
        /\ req'[t].arc = lockOf[u]
        /\ \A s \in Thread \ {t} : req'[s] = req[s]
    BY <1>5, <1>7, <1>8
  <2>2. ServerTypes'
    BY <1>1, <1>8, <2>1 DEF IInv, ServerInv, ServerTypes
  <2>3. /\ Quiet' /\ LockHeld' /\ OnePerViewer' /\ Admitted' /\ Opened'
        /\ Answered' /\ RememberedOnce'
    BY <1>1, <1>2, <1>6, <1>8, <2>1, WorkerKeeps
  <2>4. QED
    BY <1>3, <2>2, <2>3 DEF ServerInv
<1>9. ASSUME lockOf[u] = NoArc, NEW a \in Arc,
             req' = [req EXCEPT ![t].pc = "try", ![t].arc = a],
             lockOf' = [v \in User |->
                          IF v = u THEN a
                          ELSE IF v \in Evicted THEN NoArc ELSE lockOf[v]]
      PROVE  ServerInv'
  <2>1. /\ req' \in [Thread -> [pc : Pcs, click : Click, arc : Arc \cup {NoArc}]]
        /\ req'[t].pc = "try" /\ req'[t].click = req[t].click
        /\ req'[t].arc = a
        /\ \A s \in Thread \ {t} : req'[s] = req[s]
    BY <1>7, <1>9
  <2>2. a # NoArc
    BY SubmitAssumption DEF NoArc
  <2>3. lockOf' \in [User -> Arc \cup {NoArc}]
    BY <1>5, <1>9
  <2>4. ServerTypes'
    BY <1>1, <2>1, <2>3 DEF IInv, ServerInv, ServerTypes
  <2>5. \A v \in Evicted : ~Held(lockOf[v])
    BY DEF Evicted, Evictable
  <2>6. ASSUME NEW s \in Thread \ {t}, req[s].pc \in LockPcs
        PROVE  lockOf'[req[s].click.user] = req[s].arc /\ req[s].arc # NoArc
    <3>1. req[s].arc # NoArc /\ lockOf[req[s].click.user] = req[s].arc
      BY <2>6 DEF IInv, ServerInv, LockHeld
    <3>2. req[s].click.user # u
      BY <1>9, <3>1
    <3>3. Held(lockOf[req[s].click.user])
      BY <3>1 DEF Held
    <3>4. req[s].click.user \notin Evicted
      BY <2>5, <3>3
    <3>5. req[s].click.user \in User
      BY ReqType DEF IInv, ServerInv
    <3>6. QED
      BY <1>9, <3>1, <3>2, <3>4, <3>5
  <2>7. LockHeld'
    <3>1. ASSUME NEW s \in Thread
          PROVE  IF req'[s].pc \in LockPcs
                 THEN /\ req'[s].arc # NoArc
                      /\ lockOf'[req'[s].click.user] = req'[s].arc
                 ELSE req'[s].arc = NoArc
      <4>1. CASE s = t
        BY <1>5, <1>6, <1>9, <2>1, <2>2, <4>1
      <4>2. CASE s # t /\ req[s].pc \in LockPcs
        BY <2>1, <2>6, <4>2
      <4>3. CASE s # t /\ req[s].pc \notin LockPcs
        BY <2>1, <4>3 DEF IInv, ServerInv, LockHeld
      <4>4. QED
        BY <4>1, <4>2, <4>3
    <3>2. QED
      BY <3>1 DEF LockHeld
  <2>8. OnePerViewer'
    BY <1>6, <2>1 DEF IInv, ServerInv, OnePerViewer
  <2>9. Quiet'
    BY <1>2 DEF Quiet
  <2>10. Admitted'
    <3>1. ASSUME NEW s \in Thread, req'[s].pc \in {"gate", "append"}
          PROVE  MayGoOn(s)'
      <4>1. req'[s] = req[s]
        BY <2>1, <3>1
      <4>2. MayGoOn(s)
        BY <3>1, <4>1 DEF IInv, ServerInv, Admitted
      <4>3. QED
        BY <1>1, <4>1, <4>2 DEF MayGoOn, Key, Rows
    <3>2. QED
      BY <3>1 DEF Admitted
  <2>11. Opened'
    <3>1. ASSUME NEW s \in Thread, req'[s].pc = "append"
          PROVE  GateOpen(req'[s].click)
      <4>1. req'[s] = req[s]
        BY <2>1, <3>1
      <4>2. QED
        BY <3>1, <4>1 DEF IInv, ServerInv, Opened
    <3>2. QED
      BY <1>1, <3>1 DEF Opened, GateOpen, Rows
  <2>12. Answered'
    <3>1. ASSUME NEW i \in 1..Len(records), records[i].seq >= lifeSeq,
                 Key(records[i]) \notin recent \cup forgotten
          PROVE  \E s \in Thread :
                   req'[s].pc = "remember"
                   /\ Key(req'[s].click) = Key(records[i])
      <4>1. PICK s \in Thread :
              req[s].pc = "remember" /\ Key(req[s].click) = Key(records[i])
        BY <3>1 DEF IInv, ServerInv, Answered
      <4>2. s # t
        BY <1>1, <4>1
      <4>3. QED
        BY <2>1, <4>1, <4>2
    <3>2. QED
      BY <1>1, <3>1 DEF Answered, Key
  <2>13. RememberedOnce'
    BY <1>1 DEF IInv, ServerInv, RememberedOnce, Key
  <2>14. QED
    BY <1>3, <2>4, <2>7, <2>8, <2>9, <2>10, <2>11, <2>12, <2>13 DEF ServerInv
<1>10. QED
  BY <1>8, <1>9 DEF GetLock

\* The answer is remembered before the request is over.
LEMMA RememberStep ==
  ASSUME IInv, NEW t \in Thread, Remember(t)
  PROVE  ServerInv'
<1> DEFINE c == req[t].click
<1>1. /\ UNCHANGED <<file, running, records, forgotten, lockOf, gates, lifeSeq>>
      /\ req[t].pc = "remember" /\ recent' = recent \cup {Key(c)} /\ Return(t)
  BY DEF Remember, storeVars
<1>2. running' = TRUE
  BY <1>1, AtWork
<1>3. OnceOnly' /\ QuotaHeld' /\ GatesTrue'
  BY <1>1, FileKept
<1>4. /\ req' \in [Thread -> [pc : Pcs, click : Click, arc : Arc \cup {NoArc}]]
      /\ req'[t].pc = "idle" /\ req'[t].arc = NoArc
      /\ \A s \in Thread \ {t} : req'[s] = req[s]
  BY <1>1, Returned DEF IInv, ServerInv
<1>5. "idle" \notin LockPcs /\ "idle" \notin Critical
  BY DEF LockPcs, Critical
<1>6. ServerTypes'
  <2>1. Key(c) \in [user : User, id : Id]
    BY ReqType DEF IInv, ServerInv, Key
  <2>2. QED
    BY <1>1, <1>4, <2>1 DEF IInv, ServerInv, ServerTypes
<1>7. Quiet'
  BY <1>2 DEF Quiet
<1>8. LockHeld'
  BY <1>1, <1>4, <1>5 DEF IInv, ServerInv, LockHeld
<1>9. OnePerViewer'
  BY <1>4, <1>5 DEF IInv, ServerInv, OnePerViewer
<1>10. Admitted'
  <2>1. ASSUME NEW s \in Thread, req'[s].pc \in {"gate", "append"}
        PROVE  MayGoOn(s)'
    <3>1. s # t /\ req'[s] = req[s]
      BY <1>4, <2>1
    <3>2. MayGoOn(s)
      BY <2>1, <3>1 DEF IInv, ServerInv, Admitted
    <3>3. req[s].pc \in Critical /\ req[t].pc \in Critical
      BY <1>1, <2>1, <3>1 DEF Critical
    <3>4. req[s].click.user # c.user
      BY <3>1, <3>3 DEF IInv, ServerInv, OnePerViewer
    <3>5. Key(req[s].click) # Key(c)
      BY <3>4 DEF Key
    <3>6. QED
      BY <1>1, <3>1, <3>2, <3>5 DEF MayGoOn, Key, Rows
  <2>2. QED
    BY <2>1 DEF Admitted
<1>11. Opened'
  <2>1. ASSUME NEW s \in Thread, req'[s].pc = "append"
        PROVE  GateOpen(req'[s].click)
    <3>1. req'[s] = req[s]
      BY <1>4, <2>1
    <3>2. QED
      BY <2>1, <3>1 DEF IInv, ServerInv, Opened
  <2>2. QED
    BY <1>1, <2>1 DEF Opened, GateOpen, Rows
<1>12. Answered'
  <2>1. ASSUME NEW i \in 1..Len(records), records[i].seq >= lifeSeq,
               Key(records[i]) \notin recent' \cup forgotten
        PROVE  \E s \in Thread :
                 req'[s].pc = "remember" /\ Key(req'[s].click) = Key(records[i])
    <3>1. PICK s \in Thread :
            req[s].pc = "remember" /\ Key(req[s].click) = Key(records[i])
      BY <1>1, <2>1 DEF IInv, ServerInv, Answered
    <3>2. s # t
      BY <1>1, <2>1, <3>1
    <3>3. QED
      BY <1>4, <3>1, <3>2
  <2>2. QED
    BY <1>1, <2>1 DEF Answered, Key
<1>13. RememberedOnce'
  BY <1>1 DEF IInv, ServerInv, RememberedOnce, Key
<1>14. QED
  BY <1>3, <1>6, <1>7, <1>8, <1>9, <1>10, <1>11, <1>12, <1>13 DEF ServerInv

LEMMA ForgetIdStep ==
  ASSUME IInv, ForgetId
  PROVE  ServerInv'
<1>1. PICK k \in recent :
        recent' = recent \ {k} /\ forgotten' = forgotten \cup {k}
  BY DEF ForgetId
<1>2. UNCHANGED <<file, running, records, req, lockOf, gates, lifeSeq>>
  BY DEF ForgetId, storeVars
<1>3. running' = TRUE
  BY <1>1, <1>2 DEF IInv, ServerInv, Quiet, StoreInv, StoreTypes
<1>4. OnceOnly' /\ QuotaHeld' /\ GatesTrue'
  BY <1>2, FileKept
<1>5. ServerTypes'
  BY <1>1, <1>2 DEF IInv, ServerInv, ServerTypes
<1>6. Quiet' /\ LockHeld' /\ OnePerViewer'
  BY <1>2, <1>3 DEF IInv, ServerInv, Quiet, LockHeld, OnePerViewer
<1>7. Admitted'
  BY <1>1, <1>2 DEF IInv, ServerInv, Admitted, MayGoOn, Key, Rows
<1>8. Opened'
  BY <1>2 DEF IInv, ServerInv, Opened, GateOpen, Rows
<1>9. Answered'
  <2>1. recent \cup forgotten \subseteq recent' \cup forgotten'
    BY <1>1
  <2>2. QED
    BY <1>2, <2>1 DEF IInv, ServerInv, Answered, Key
<1>10. RememberedOnce'
  BY <1>1, <1>2 DEF IInv, ServerInv, RememberedOnce, Key
<1>11. QED
  BY <1>4, <1>5, <1>6, <1>7, <1>8, <1>9, <1>10 DEF ServerInv

-----------------------------------------------------------------------------
(* The steps of the store.                                                 *)

\* OnceOnly and QuotaHeld follow the file.
LEMMA FileProperties ==
  /\ OnceOnly <=> NoRepeat(Readable)
  /\ QuotaHeld <=> InQuota(Readable)
  /\ OnceOnly' <=> NoRepeat(Readable')
  /\ QuotaHeld' <=> InQuota(Readable')
BY DEF OnceOnly, QuotaHeld, NoRepeat, InQuota, Rows

\* What a worker about to append has checked, of the file it appends to.
LEMMA AppendAllowed ==
  ASSUME IInv, NEW t \in Thread, req[t].pc = "append", ~failed
  PROVE  LET c == req[t].click
             r == NewRecord(c.user, c.id, c.body)
         IN  /\ r \in Record /\ Readable \in Seq(Record) /\ records = Readable
             /\ NoRepeat(Append(Readable, r)) /\ InQuota(Append(Readable, r))
<1> DEFINE c == req[t].click
           r == NewRecord(c.user, c.id, c.body)
<1>1. c.user \in User /\ c.id \in Id /\ c.body \in Body
  BY ReqType DEF IInv, ServerInv
<1>2. running
  BY AtWork
<1>3. r \in Record /\ Readable \in Seq(Record)
  BY <1>1, <1>2, NewRecordFits DEF IInv
<1>4. records = Readable
  BY <1>2 DEF IInv, StoreInv, Faithful
<1>5. Cardinality(Rows(Readable, r.user)) < MaxPerViewer
  BY <1>4 DEF IInv, ServerInv, Admitted, MayGoOn, NewRecord
<1>6. \/ r.body \notin Once
      \/ \A i \in Rows(Readable, r.user) : Readable[i].body # r.body
  BY <1>4 DEF IInv, ServerInv, Opened, GateOpen, NewRecord
<1>7. NoRepeat(Readable) /\ InQuota(Readable)
  BY FileProperties DEF IInv, ServerInv
<1>8. QED
  BY <1>3, <1>4, <1>5, <1>6, <1>7, AppendFits

\* A line that may or may not survive is as good as the record itself.
LEMMA WrittenFits ==
  ASSUME IInv, NEW t \in Thread, req[t].pc = "append", ~failed,
         LET c == req[t].click
             r == NewRecord(c.user, c.id, c.body)
         IN  Readable' = Readable \/ Readable' = Append(Readable, r)
  PROVE  OnceOnly' /\ QuotaHeld'
BY AppendAllowed, FileProperties DEF IInv, ServerInv

\* What append leaves in the file is one of the two.
LEMMA AppendLeaves ==
  ASSUME IInv, running, ~failed,
         NEW u \in User, NEW id \in Id, NEW b \in Body,
         \/ UNCHANGED file
         \/ file' = [file EXCEPT !.torn = TRUE]
         \/ file' = [file EXCEPT !.unsynced = Append(@, NewRecord(u, id, b))]
         \/ file' = [file EXCEPT !.lines = Append(Readable, NewRecord(u, id, b)),
                                 !.unsynced = <<>>]
  PROVE  Readable' = Readable \/ Readable' = Append(Readable, NewRecord(u, id, b))
<1>1. file \in Files
  BY DEF IInv, StoreInv, StoreTypes
<1>2. CASE UNCHANGED file
  BY <1>2 DEF Readable
<1>3. CASE file' = [file EXCEPT !.torn = TRUE]
  <2>1. file'.lines = file.lines /\ file'.unsynced = file.unsynced
    BY <1>1, <1>3 DEF Files
  <2>2. QED
    BY <2>1 DEF Readable
<1>4. CASE file' = [file EXCEPT !.unsynced = Append(@, NewRecord(u, id, b))]
  BY <1>4, UnsyncedLine DEF IInv
<1>5. CASE file' = [file EXCEPT !.lines = Append(Readable, NewRecord(u, id, b)),
                                !.unsynced = <<>>]
  <2>1. Append(Readable, NewRecord(u, id, b)) \in Seq(Record)
    BY NewRecordFits DEF IInv
  <2>2. file'.lines = Append(Readable, NewRecord(u, id, b))
        /\ file'.unsynced = <<>>
    BY <1>1, <1>5 DEF Files
  <2>3. QED
    BY <2>1, <2>2, ConcatEmptySeq DEF Readable
<1>6. QED
  BY <1>2, <1>3, <1>4, <1>5

LEMMA StoreFailsStep ==
  ASSUME IInv, NEW t \in Thread, StoreFails(t)
  PROVE  ServerInv'
<1> DEFINE c == req[t].click
<1>1. /\ UNCHANGED <<running, records, recent, forgotten, lockOf, gates, lifeSeq>>
      /\ req[t].pc = "append" /\ Return(t)
  BY DEF StoreFails, AppendFails, storeVars
<1>2. running' = TRUE /\ running
  BY <1>1, AtWork
<1>3. OnceOnly' /\ QuotaHeld'
  <2>1. CASE UNCHANGED file
    BY <1>1, <2>1, FileKept
  <2>2. CASE AppendFails(c.user, c.id, c.body)
    <3>1. c.user \in User /\ c.id \in Id /\ c.body \in Body
      BY ReqType DEF IInv, ServerInv
    <3>2. QED
      BY <1>1, <1>2, <2>2, <3>1, AppendLeaves, WrittenFits DEF AppendFails
  <2>3. QED
    BY <2>1, <2>2 DEF StoreFails, storeVars
<1>4. GatesTrue'
  BY <1>1 DEF IInv, ServerInv, GatesTrue, GateOpen, Rows
<1>5. /\ Quiet' /\ LockHeld' /\ OnePerViewer' /\ Admitted' /\ Opened'
      /\ Answered' /\ RememberedOnce'
  BY <1>1, <1>2, ReturnKeeps
<1>6. ServerTypes'
  BY <1>1, Returned DEF IInv, ServerInv, ServerTypes
<1>7. QED
  BY <1>3, <1>4, <1>5, <1>6 DEF ServerInv

\* The append itself: only its viewer's rows change, and no other worker is
\* at work for her.
LEMMA StoreStoreStep ==
  ASSUME IInv, NEW t \in Thread, Store(t)
  PROVE  ServerInv'
<1> DEFINE c == req[t].click
           r == NewRecord(c.user, c.id, c.body)
<1>1. /\ UNCHANGED <<running, recent, forgotten, lockOf, gates, lifeSeq>>
      /\ req[t].pc = "append" /\ Goto(t, "remember") /\ AppendOk(c.user, c.id, c.body)
  BY DEF Store, AppendOk
<1>2. running' = TRUE /\ running /\ ~failed
  BY <1>1, AtWork DEF AppendOk
<1>3. c.user \in User /\ c.id \in Id /\ c.body \in Body
  BY ReqType DEF IInv, ServerInv
<1>4. r \in Record /\ Readable \in Seq(Record) /\ records = Readable
  BY <1>1, <1>2, AppendAllowed
<1>5. records' = Append(records, r) /\ Len(records) \in Nat
      /\ Len(records') = Len(records) + 1
      /\ \A i \in 1..Len(records) : records'[i] = records[i]
      /\ records'[Len(records) + 1] = r
  BY <1>1, <1>4, AppendedRecord, LenProperties DEF AppendOk
<1>6. OnceOnly' /\ QuotaHeld'
  <2>1. Readable' = Readable \/ Readable' = Append(Readable, r)
    BY <1>1, <1>2, <1>3, AppendLeaves DEF AppendOk
  <2>2. QED
    BY <1>1, <1>2, <2>1, WrittenFits
<1>7. /\ req' \in [Thread -> [pc : Pcs, click : Click, arc : Arc \cup {NoArc}]]
      /\ req'[t].pc = "remember" /\ req'[t].click = c
      /\ req'[t].arc = req[t].arc
      /\ \A s \in Thread \ {t} : req'[s] = req[s]
  <2>1. "remember" \in Pcs
    BY DEF Pcs, Critical
  <2>2. QED
    BY <1>1, <2>1, Moved DEF IInv, ServerInv
<1>8. "remember" \in LockPcs /\ "append" \in LockPcs
      /\ "remember" \in Critical /\ "append" \in Critical
  BY DEF LockPcs, Critical
<1>9. ServerTypes'
  BY <1>1, <1>7 DEF IInv, ServerInv, ServerTypes
<1>10. Quiet'
  BY <1>2 DEF Quiet
<1>11. LockHeld'
  BY <1>1, <1>7, <1>8 DEF IInv, ServerInv, LockHeld
<1>12. OnePerViewer'
  BY <1>1, <1>7, <1>8 DEF IInv, ServerInv, OnePerViewer
<1>13. ASSUME NEW u, u # c.user
       PROVE  /\ Rows(records', u) = Rows(records, u)
              /\ \A i \in Rows(records, u) : records'[i] = records[i]
  <2>1. Rows(records', u) = Rows(records, u)
    BY <1>4, <1>5, <1>13, RowsAppend DEF NewRecord
  <2>2. QED
    BY <1>5, <2>1 DEF Rows
<1>14. ASSUME NEW s \in Thread, req'[s].pc \in {"gate", "append"}
       PROVE  s # t /\ req'[s] = req[s] /\ req[s].click.user # c.user
  <2>1. s # t /\ req'[s] = req[s]
    BY <1>7, <1>14
  <2>2. req[s].pc \in Critical
    BY <1>14, <2>1 DEF Critical
  <2>3. QED
    BY <1>1, <1>8, <2>1, <2>2 DEF IInv, ServerInv, OnePerViewer
<1>15. Admitted'
  <2>1. ASSUME NEW s \in Thread, req'[s].pc \in {"gate", "append"}
        PROVE  MayGoOn(s)'
    <3>1. req'[s] = req[s] /\ req[s].click.user # c.user
      BY <1>14, <2>1
    <3>2. MayGoOn(s)
      BY <2>1, <3>1 DEF IInv, ServerInv, Admitted
    <3>3. Rows(records', req[s].click.user) = Rows(records, req[s].click.user)
      BY <1>13, <3>1
    <3>4. Key(req[s].click) \notin recent
          /\ Cardinality(Rows(records, req[s].click.user)) < MaxPerViewer
      BY <3>2 DEF MayGoOn
    <3>5. Key(req'[s].click) \notin recent'
          /\ Cardinality(Rows(records', req'[s].click.user)) < MaxPerViewer
      BY <1>1, <3>1, <3>3, <3>4
    <3>6. QED
      BY <3>5 DEF MayGoOn, Key, Rows
  <2>2. QED
    BY <2>1 DEF Admitted
<1>16. ASSUME NEW d, d.user # c.user
       PROVE  GateOpen(d)' = GateOpen(d)
  BY <1>13, <1>16 DEF GateOpen, Rows
<1>17. Opened'
  <2>1. ASSUME NEW s \in Thread, req'[s].pc = "append"
        PROVE  \/ req'[s].click.body \notin Once
               \/ \A i \in Rows(records', req'[s].click.user) :
                    records'[i].body # req'[s].click.body
    <3>1. req'[s] = req[s] /\ req[s].click.user # c.user
      BY <1>14, <2>1
    <3>2. GateOpen(req[s].click)
      BY <2>1, <3>1 DEF IInv, ServerInv, Opened
    <3>3. QED
      BY <1>13, <3>1, <3>2 DEF GateOpen
  <2>2. QED
    BY <2>1 DEF Opened, GateOpen, Rows
<1>18. GatesTrue'
  <2>1. ASSUME NEW g \in gates
        PROVE  /\ g.key.gen <= Cardinality(Rows(records', g.key.user))
               /\ g.key.gen = Cardinality(Rows(records', g.key.user)) =>
                    g.open = GateOpen(g.key)'
    <3>1. /\ g.key.gen <= Cardinality(Rows(records, g.key.user))
          /\ g.key.gen = Cardinality(Rows(records, g.key.user)) =>
               g.open = GateOpen(g.key)
      BY DEF IInv, ServerInv, GatesTrue
    <3>2. CASE g.key.user = c.user
      <4>1. Cardinality(Rows(records', c.user))
              = Cardinality(Rows(records, c.user)) + 1
        <5>1. NewRecord(c.user, c.id, c.body).user = c.user
          BY DEF NewRecord
        <5>2. records \in Seq(Record)
          BY <1>4
        <5>3. QED
          BY <1>4, <1>5, <5>1, <5>2, RowsAppend
      <4>2. Cardinality(Rows(records, c.user)) \in Nat
        BY <1>4, RowsFinite
      <4>3. g.key.gen \in Nat
        BY DEF IInv, ServerInv, ServerTypes
      <4>4. /\ g.key.gen <= Cardinality(Rows(records', c.user))
            /\ g.key.gen # Cardinality(Rows(records', c.user))
        <5>1. g.key.gen <= Cardinality(Rows(records, c.user))
          BY <3>1, <3>2
        <5>2. QED
          BY <4>1, <4>2, <4>3, <5>1
      <4>5. QED
        BY <3>2, <4>4
    <3>3. CASE g.key.user # c.user
      <4>1. Rows(records', g.key.user) = Rows(records, g.key.user)
        BY <1>13, <3>3
      <4>2. GateOpen(g.key)' = GateOpen(g.key)
        BY <1>16, <3>3
      <4>3. QED
        BY <3>1, <4>1, <4>2
    <3>4. QED
      BY <3>2, <3>3
  <2>2. QED
    BY <1>1, <2>1 DEF GatesTrue, GateOpen, Rows
<1>19. Key(r) = Key(c)
  BY DEF Key, NewRecord
<1>20. Answered'
  <2>1. ASSUME NEW i \in 1..Len(records'), records'[i].seq >= lifeSeq,
               Key(records'[i]) \notin recent \cup forgotten
        PROVE  \E s \in Thread :
                 req'[s].pc = "remember" /\ Key(req'[s].click) = Key(records'[i])
    <3>1. CASE i \in 1..Len(records)
      <4>1. PICK s \in Thread :
              req[s].pc = "remember" /\ Key(req[s].click) = Key(records[i])
        BY <1>5, <2>1, <3>1 DEF IInv, ServerInv, Answered
      <4>2. s # t
        BY <1>1, <4>1
      <4>3. QED
        BY <1>5, <1>7, <3>1, <4>1, <4>2
    <3>2. CASE i = Len(records) + 1
      BY <1>5, <1>7, <1>19, <3>2
    <3>3. QED
      BY <1>5, <3>1, <3>2
  <2>2. QED
    BY <1>1, <2>1 DEF Answered, Key
<1>21. RememberedOnce'
  <2>1. ASSUME NEW i \in 1..Len(records'), NEW j \in 1..Len(records'),
               i < j, records'[i].seq >= lifeSeq,
               Key(records'[i]) = Key(records'[j])
        PROVE  Key(records'[i]) \in forgotten
    <3>1. CASE j \in 1..Len(records)
      <4>1. i \in 1..Len(records)
        BY <1>5, <2>1, <3>1
      <4>2. QED
        BY <1>5, <2>1, <3>1, <4>1 DEF IInv, ServerInv, RememberedOnce
    <3>2. CASE j = Len(records) + 1
      <4>1. i \in 1..Len(records) /\ Key(records[i]) = Key(c)
            /\ records[i].seq >= lifeSeq
        BY <1>5, <1>19, <2>1, <3>2
      <4>2. Key(c) \notin recent
        BY <1>1 DEF IInv, ServerInv, Admitted, MayGoOn
      <4>3. ~\E s \in Thread : req[s].pc = "remember" /\ Key(req[s].click) = Key(c)
        <5>1. SUFFICES ASSUME NEW s \in Thread, req[s].pc = "remember",
                              Key(req[s].click) = Key(c)
                       PROVE  FALSE
          OBVIOUS
        <5>2. req[s].click.user = c.user
          BY <5>1 DEF Key
        <5>3. s = t
          BY <1>1, <1>8, <5>1, <5>2 DEF IInv, ServerInv, OnePerViewer
        <5>4. QED
          BY <1>1, <5>1, <5>3
      <4>4. Key(c) \in forgotten
        BY <4>1, <4>2, <4>3 DEF IInv, ServerInv, Answered
      <4>5. QED
        BY <1>5, <4>1, <4>4
    <3>3. QED
      BY <1>5, <3>1, <3>2
  <2>2. QED
    BY <1>1, <2>1 DEF RememberedOnce, Key
<1>22. QED
  BY <1>6, <1>9, <1>10, <1>11, <1>12, <1>15, <1>17, <1>18, <1>20, <1>21
  DEF ServerInv

-----------------------------------------------------------------------------
(* Starts and ends of a process.                                           *)

\* A process that ends takes its requests and what it remembers with it.
LEMMA EndKeeps ==
  ASSUME IInv, Gone, Fresh, UNCHANGED lifeSeq
  PROVE  /\ ServerTypes' /\ Quiet' /\ LockHeld' /\ OnePerViewer' /\ Admitted'
         /\ Opened' /\ GatesTrue' /\ Answered' /\ RememberedOnce'
<1>1. /\ req' = [t \in Thread |-> Idle] /\ recent' = {} /\ forgotten' = {}
      /\ gates' = {} /\ lockOf' = [u \in User |-> NoArc] /\ records' = <<>>
      /\ lifeSeq' = lifeSeq
  BY DEF Fresh, Gone
<1>2. \A t \in Thread : req'[t].pc = "idle" /\ req'[t].arc = NoArc
  BY <1>1 DEF Idle
<1>3. "idle" \notin LockPcs /\ "idle" \notin Critical
  BY DEF LockPcs, Critical
<1>4. ServerTypes'
  <2>1. req' \in [Thread -> [pc : Pcs, click : Click, arc : Arc \cup {NoArc}]]
    BY <1>1, IdleType
  <2>2. QED
    BY <1>1, <2>1 DEF IInv, ServerInv, ServerTypes
<1>5. Quiet' /\ LockHeld' /\ OnePerViewer' /\ Admitted' /\ Opened'
  BY <1>1, <1>2, <1>3 DEF Quiet, LockHeld, OnePerViewer, Admitted, Opened
<1>6. GatesTrue'
  BY <1>1 DEF GatesTrue
<1>7. Len(records') = 0
  BY <1>1, EmptySeq
<1>8. Answered' /\ RememberedOnce'
  BY <1>7 DEF Answered, RememberedOnce
<1>9. QED
  BY <1>4, <1>5, <1>6, <1>8

\* A power loss leaves a prefix of what could be read.
LEMMA PowerLossFits ==
  ASSUME IInv, PowerLoss
  PROVE  OnceOnly' /\ QuotaHeld'
<1>1. Log!Extends(Readable, Readable') /\ Readable \in Seq(Record)
      /\ Readable' \in Seq(Record)
  <2>1. file \in Files
    BY DEF IInv, StoreInv, StoreTypes
  <2>2. file' \in Files /\ Readable' = file'.lines
        /\ Log!Extends(Readable, Readable')
    BY <2>1, PowerLossFile
  <2>3. file'.lines \in Seq(Record)
    BY <2>2 DEF Files
  <2>4. QED
    BY <2>1, <2>2, <2>3, ReadableSeq
<1>2. NoRepeat(Readable) /\ InQuota(Readable)
  BY FileProperties DEF IInv, ServerInv
<1>3. QED
  BY <1>1, <1>2, PrefixFits, FileProperties

LEMMA StopStep ==
  ASSUME IInv, Stop
  PROVE  ServerInv'
<1>1. /\ ServerTypes' /\ Quiet' /\ LockHeld' /\ OnePerViewer' /\ Admitted'
      /\ Opened' /\ GatesTrue' /\ Answered' /\ RememberedOnce'
  BY EndKeeps DEF Stop, Exit, End
<1>2. Readable' = Readable
  BY DEF Stop, Exit, Readable
<1>3. OnceOnly' /\ QuotaHeld'
  BY <1>2, FileProperties DEF IInv, ServerInv
<1>4. QED
  BY <1>1, <1>3 DEF ServerInv

LEMMA CrashStep ==
  ASSUME IInv, Crash
  PROVE  ServerInv'
BY EndKeeps, PowerLossFits DEF Crash, End, PowerLoss, ServerInv

LEMMA StoreCrashStep ==
  ASSUME IInv, NEW t \in Thread, StoreCrash(t)
  PROVE  ServerInv'
<1> DEFINE c == req[t].click
<1>1. /\ ServerTypes' /\ Quiet' /\ LockHeld' /\ OnePerViewer' /\ Admitted'
      /\ Opened' /\ GatesTrue' /\ Answered' /\ RememberedOnce'
  BY EndKeeps DEF StoreCrash, AppendCrash, End
<1>2. c.user \in User /\ c.id \in Id /\ c.body \in Body
  BY ReqType DEF IInv, ServerInv
<1>3. running /\ ~failed /\ req[t].pc = "append"
  BY DEF StoreCrash, AppendCrash
<1>4. Readable' = Readable
      \/ Readable' = Append(Readable, NewRecord(c.user, c.id, c.body))
  BY <1>2, <1>3, AppendLeaves DEF StoreCrash, AppendCrash
<1>5. OnceOnly' /\ QuotaHeld'
  BY <1>3, <1>4, WrittenFits
<1>6. QED
  BY <1>1, <1>5 DEF ServerInv

\* A process starts with the file's records and nothing remembered; no
\* record is of its life yet.
LEMMA StartStep ==
  ASSUME IInv, Start
  PROVE  ServerInv'
<1>1. /\ UNCHANGED <<req, recent, forgotten, lockOf, gates>>
      /\ lifeSeq' = nextSeq' /\ ~running /\ running' = TRUE
      /\ records' = Readable /\ nextSeq' = NextSeq(Readable)
  BY DEF Start, Open
<1>2. file \in Files /\ Readable \in Seq(Record) /\ Log!Ordered(Readable)
  BY ReadableSeq DEF IInv, StoreInv, StoreTypes
<1>3. file'.lines = file.lines /\ file'.unsynced = file.unsynced
  BY <1>2 DEF Start, Open, Files
<1>4. Readable' = Readable
  BY <1>3 DEF Readable
<1>5. OnceOnly' /\ QuotaHeld'
  BY <1>4, FileProperties DEF IInv, ServerInv
<1>6. \A t \in Thread : req[t].pc = "idle"
  BY <1>1 DEF IInv, ServerInv, Quiet
<1>7. gates = {}
  BY <1>1 DEF IInv, ServerInv, Quiet
<1>8. lifeSeq' \in Nat
  <2>1. StoreInv'
    BY OpenStep DEF IInv, Start
  <2>2. QED
    BY <1>1, <2>1 DEF StoreInv, StoreTypes
<1>9. ServerTypes'
  BY <1>1, <1>8 DEF IInv, ServerInv, ServerTypes
<1>10. Quiet' /\ LockHeld' /\ OnePerViewer'
  BY <1>1 DEF IInv, ServerInv, Quiet, LockHeld, OnePerViewer
<1>11. Admitted' /\ Opened' /\ GatesTrue'
  BY <1>1, <1>6, <1>7 DEF Admitted, Opened, GatesTrue
<1>12. \A i \in 1..Len(records') : ~(records'[i].seq >= lifeSeq')
  <2>1. TAKE i \in 1..Len(records')
  <2>2. records'[i].seq < lifeSeq'
    BY <1>1, <1>2, NextSeqLarger
  <2>3. records'[i].seq \in Nat
    BY <1>1, <1>2, ElementOfSeq, RecordFields
  <2>4. QED
    BY <1>8, <2>2, <2>3
<1>13. Answered' /\ RememberedOnce'
  BY <1>12 DEF Answered, RememberedOnce
<1>14. QED
  BY <1>5, <1>9, <1>10, <1>11, <1>13 DEF ServerInv

\* What happens to the file while no server runs.
LEMMA OfflineStep ==
  ASSUME IInv, Offline
  PROVE  ServerInv'
<1>1. /\ UNCHANGED <<req, recent, forgotten, lockOf, gates, lifeSeq>>
      /\ ~running
  BY DEF Offline, serverVars
<1>2. /\ \A t \in Thread : req[t].pc = "idle"
      /\ recent = {} /\ forgotten = {} /\ gates = {} /\ records = <<>>
  BY <1>1 DEF IInv, ServerInv, Quiet
<1>3. records' = <<>>
  BY <1>2 DEF Offline, OpenCrash, EraseCrash, PowerLoss, Gone, Erase
<1>4. ServerTypes' /\ Quiet' /\ LockHeld' /\ OnePerViewer'
  BY <1>1, <1>2, <1>3
  DEF IInv, ServerInv, ServerTypes, Quiet, LockHeld, OnePerViewer
<1>5. Admitted' /\ Opened' /\ GatesTrue'
  BY <1>1, <1>2 DEF Admitted, Opened, GatesTrue
<1>6. Answered' /\ RememberedOnce'
  <2>1. Len(records') = 0
    BY <1>3, EmptySeq
  <2>2. QED
    BY <2>1 DEF Answered, RememberedOnce
<1>7. OnceOnly' /\ QuotaHeld'
  <2>1. file \in Files /\ Readable \in Seq(Record)
        /\ NoRepeat(Readable) /\ InQuota(Readable)
    BY ReadableSeq, FileProperties DEF IInv, StoreInv, StoreTypes, ServerInv
  <2>2. CASE OpenCrash \/ EraseCrash
    <3>1. file'.lines = file.lines /\ file'.unsynced = file.unsynced
      BY <2>1, <2>2 DEF OpenCrash, EraseCrash, Files
    <3>2. Readable' = Readable
      BY <3>1 DEF Readable
    <3>3. QED
      BY <2>1, <3>2, FileProperties
  <2>3. CASE PowerLoss
    BY <2>3, PowerLossFits
  <2>4. ASSUME NEW u \in User, Erase(u)
        PROVE  OnceOnly' /\ QuotaHeld'
    <3>1. PICK kept \in Log!Without(Readable, u) :
            file' = [file EXCEPT !.lines = kept, !.unsynced = <<>>,
                                 !.torn = FALSE]
      BY <2>4 DEF Erase
    <3>2. file'.lines = kept /\ file'.unsynced = <<>> /\ kept \in Seq(Record)
      BY <2>1, <3>1, WithoutProperties DEF Files
    <3>3. Readable' = kept
      BY <3>2, ConcatEmptySeq DEF Readable
    <3>4. NoRepeat(kept) /\ InQuota(kept)
      BY <2>1, WithoutFits
    <3>5. QED
      BY <3>3, <3>4, FileProperties
  <2>5. QED
    BY <2>2, <2>3, <2>4 DEF Offline
<1>8. QED
  BY <1>4, <1>5, <1>6, <1>7 DEF ServerInv

-----------------------------------------------------------------------------

LEMMA SubmitInit ==
  ASSUME Init
  PROVE  IInv
<1>1. StoreInit /\ StoreInv
  BY InitInv DEF Init
<1>2. /\ req = [t \in Thread |-> Idle] /\ recent = {} /\ forgotten = {}
      /\ gates = {} /\ lockOf = [u \in User |-> NoArc] /\ lifeSeq = 1
      /\ records = <<>>
  BY <1>1 DEF Init, StoreInit
<1>3. \A t \in Thread : req[t].pc = "idle" /\ req[t].arc = NoArc
  BY <1>2 DEF Idle
<1>4. ServerTypes
  <2>1. req \in [Thread -> [pc : Pcs, click : Click, arc : Arc \cup {NoArc}]]
    BY <1>2, IdleType
  <2>2. QED
    BY <1>2, <2>1 DEF ServerTypes
<1>5. Quiet /\ LockHeld /\ OnePerViewer /\ Admitted /\ Opened /\ GatesTrue
  BY <1>2, <1>3 DEF Quiet, LockHeld, OnePerViewer, Admitted, Opened, GatesTrue,
     LockPcs, Critical
<1>6. Readable = <<>> /\ Len(Readable) = 0 /\ Len(records) = 0
  BY <1>1, <1>2, ConcatEmptySeq, EmptySeq DEF StoreInit, NoFile, Readable
<1>7. Answered /\ RememberedOnce /\ OnceOnly
  BY <1>6 DEF Answered, RememberedOnce, OnceOnly
<1>8. QuotaHeld
  <2>1. \A u \in User : Rows(Readable, u) = {}
    BY <1>6 DEF Rows
  <2>2. Cardinality({}) = 0 /\ 0 <= MaxPerViewer
    BY FS_EmptySet, SubmitAssumption
  <2>3. QED
    BY <2>1, <2>2 DEF QuotaHeld
<1>9. QED
  BY <1>1, <1>4, <1>5, <1>7, <1>8 DEF IInv, ServerInv

\* Every step of the server is a step of the store, or leaves it alone.
LEMMA ServerUsesStore ==
  ASSUME IInv, [Next]_vars
  PROVE  [StoreNext]_storeVars
<1>1. CASE UNCHANGED vars
  BY <1>1 DEF vars
<1>2. CASE Start \/ Stop \/ Crash \/ Offline
  BY <1>2 DEF Start, Stop, Crash, Offline, StoreNext
<1>3. CASE ForgetId
  BY <1>3 DEF ForgetId
<1>4. ASSUME NEW t \in Thread,
             \/ \E c \in Click : Arrive(t, c)
             \/ GetLock(t) \/ TryLock(t) \/ Check(t) \/ Gate(t) \/ GateFails(t)
             \/ Remember(t)
      PROVE  UNCHANGED storeVars
  BY <1>4 DEF Arrive, GetLock, TryLock, Check, Gate, GateFails, Remember
<1>5. ASSUME NEW t \in Thread, Store(t) \/ StoreFails(t) \/ StoreCrash(t)
      PROVE  [StoreNext]_storeVars
  <2>1. /\ req[t].click.user \in User /\ req[t].click.id \in Id
        /\ req[t].click.body \in Body
    BY ReqType DEF IInv, ServerInv
  <2>2. QED
    BY <1>5, <2>1 DEF Store, StoreFails, StoreCrash, StoreNext
<1>6. QED
  BY <1>1, <1>2, <1>3, <1>4, <1>5 DEF Next

LEMMA SubmitStep ==
  ASSUME IInv, [Next]_vars
  PROVE  IInv'
<1>1. StoreInv'
  BY ServerUsesStore, StoreStep DEF IInv
<1>2. CASE UNCHANGED vars
  <2>1. UNCHANGED <<file, running, records, req, recent, forgotten, lockOf,
                    gates, lifeSeq>>
    BY <1>2 DEF vars, storeVars, serverVars
  <2>2. ServerTypes' /\ Quiet' /\ LockHeld' /\ OnePerViewer'
    BY <2>1 DEF IInv, ServerInv, ServerTypes, Quiet, LockHeld, OnePerViewer
  <2>3. Admitted' /\ Opened'
    BY <2>1 DEF IInv, ServerInv, Admitted, Opened, MayGoOn, GateOpen, Key, Rows
  <2>4. Answered' /\ RememberedOnce'
    BY <2>1 DEF IInv, ServerInv, Answered, RememberedOnce, Key
  <2>5. QED
    BY <1>1, <2>1, <2>2, <2>3, <2>4, FileKept DEF IInv, ServerInv
<1>3. CASE Start \/ Stop \/ Crash \/ Offline \/ ForgetId
  BY <1>1, <1>3, StartStep, StopStep, CrashStep, OfflineStep, ForgetIdStep
  DEF IInv
<1>4. ASSUME NEW t \in Thread, NEW c \in Click, Arrive(t, c)
      PROVE  IInv'
  BY <1>1, <1>4, ArriveStep DEF IInv
<1>5. ASSUME NEW t \in Thread,
             GetLock(t) \/ TryLock(t) \/ Check(t) \/ Gate(t) \/ GateFails(t)
      PROVE  IInv'
  BY <1>1, <1>5, GetLockStep, TryLockStep, CheckStep, GateStep, GateFailsStep
  DEF IInv
<1>6. ASSUME NEW t \in Thread,
             Store(t) \/ StoreFails(t) \/ StoreCrash(t) \/ Remember(t)
      PROVE  IInv'
  BY <1>1, <1>6, StoreStoreStep, StoreFailsStep, StoreCrashStep, RememberStep
  DEF IInv
<1>7. QED
  BY <1>2, <1>3, <1>4, <1>5, <1>6 DEF Next

\* The inductive invariant of the handler and the store under it.
THEOREM SubmitCorrect == Spec => []IInv
<1>1. Init => IInv
  BY SubmitInit
<1>2. IInv /\ [Next]_vars => IInv'
  BY SubmitStep
<1>3. QED
  BY <1>1, <1>2, PTL DEF Spec

\* What append has acknowledged is on the disk, whatever fails or crashes
\* while the server submits (state.rs, append and open_impl).
THEOREM AckedSurviveHolds == Spec => []AckedSurvive
<1>1. IInv => AckedSurvive
  BY DEF IInv, StoreInv
<1>2. QED
  BY <1>1, SubmitCorrect, PTL

\* A gated statement is recorded once per viewer (handle_submit's mutex and
\* its gate under it).
THEOREM OnceOnlyHolds == Spec => []OnceOnly
<1>1. IInv => OnceOnly
  BY DEF IInv, ServerInv
<1>2. QED
  BY <1>1, SubmitCorrect, PTL

\* No viewer's records exceed max_per_viewer (the recheck under the mutex).
THEOREM QuotaHeldHolds == Spec => []QuotaHeld
<1>1. IInv => QuotaHeld
  BY DEF IInv, ServerInv
<1>2. QED
  BY <1>1, SubmitCorrect, PTL

\* A click the server remembers is one record (RecentIds, asked again under
\* the mutex).
THEOREM RememberedOnceHolds == Spec => []RememberedOnce
<1>1. IInv => RememberedOnce
  BY DEF IInv, ServerInv
<1>2. QED
  BY <1>1, SubmitCorrect, PTL

\* The server's store is the log it promises.
THEOREM SubmitImplementsLog == Spec => Promise
<1>1. Init => Log!LogInit
  BY DEF Init, StoreInit, NoFile, Log!LogInit
<1>2. IInv /\ [Next]_vars => [Log!LogNext]_(file.lines)
  BY ServerUsesStore, StoreStep DEF IInv
<1>3. QED
  BY <1>1, <1>2, SubmitCorrect, PTL DEF Spec, Promise, Log!LogSpec
=============================================================================
