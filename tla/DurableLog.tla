----------------------------- MODULE DurableLog -----------------------------
(***************************************************************************)
(* What a state store promises about the bytes that are safe on the disk:  *)
(* a log that grows by one record at its end, under a sequence number      *)
(* larger than every one before it, or loses all records of one user at    *)
(* once when an operator erases that user.  No crash, failed write or      *)
(* restart shows through.                                                  *)
(***************************************************************************)
EXTENDS Integers, Sequences

CONSTANTS
  User,    \* viewers
  Id,      \* the nonces their pages make, one per click
  Body     \* what a record carries

Record == [seq : Nat, user : User, id : Id, body : Body]

VARIABLE log

RecordsOf(s) == {s[i] : i \in 1..Len(s)}

\* Every record has a larger sequence number than the ones before it.
Ordered(s) == \A i, j \in 1..Len(s) : i < j => s[i].seq < s[j].seq

\* t is s with records added at its end.
Extends(t, s) ==
  /\ Len(s) <= Len(t)
  /\ \A i \in 1..Len(s) : t[i] = s[i]

\* The one sequence that holds the records of s that are not u's, in order.
Without(s, u) ==
  LET kept == {r \in RecordsOf(s) : r.user # u}
  IN {t \in UNION {[1..n -> kept] : n \in 0..Len(s)} :
        Ordered(t) /\ RecordsOf(t) = kept}

LogInit == log = <<>>

Grow == Extends(log', log) /\ Ordered(log')

\* What is left of the log, and records that were written after it: those
\* may become durable with the erase.
Forget(u) ==
  /\ Ordered(log')
  /\ {r \in RecordsOf(log) : r.user # u} \subseteq RecordsOf(log')
  /\ \A r \in RecordsOf(log') :
       /\ r.user # u
       /\ r \in RecordsOf(log) \/ \A q \in RecordsOf(log) : q.seq < r.seq

LogNext == Grow \/ \E u \in User : Forget(u)

LogSpec == LogInit /\ [][LogNext]_log
=============================================================================
