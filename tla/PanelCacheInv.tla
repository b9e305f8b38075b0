--------------------------- MODULE PanelCacheInv ---------------------------
(***************************************************************************)
(* The inductive invariant of PanelCache.  Its parts speak of flights fl,  *)
(* joinable flights jn and the requests I[f] that each flight f works for, *)
(* so that they can also be stated of the flights in the middle of a lock  *)
(* section: after a request has joined or started one, and before the      *)
(* request it supersedes is cancelled.                                     *)
(***************************************************************************)
EXTENDS PanelCache

Interest == [f \in Req |-> Interested(f)]

Running == { f \in Req : Executing(f) }

Registered == { f \in Req : pc[f] \in {"query", "ended"} }

\* An executing flight has no outcome, and is abandoned when nobody wants it;
\* a finished one lives on only for those still to pick up its outcome.
FlightOK(f, fl, I, E, Q) ==
  /\ fl[f].waiters = Cardinality(I[f])
  /\ fl[f].interrupt <=> f \in Q
  /\ f \in E => /\ fl[f].live /\ fl[f].outcome = "none"
                /\ fl[f].abandoned <=> I[f] = {}
  /\ f \notin E => IF I[f] = {} THEN fl[f] = NoFlight
                   ELSE /\ fl[f].live /\ ~fl[f].abandoned
                        /\ fl[f].outcome \in {"ok", "error"}

FlightsOK(fl, I, E, Q) == \A f \in Req : FlightOK(f, fl, I, E, Q)

\* The joinable flights are exactly the executing ones that are not abandoned.
JoinableOK(jn, fl, E) ==
  /\ \A k \in Keys : jn[k] # None => /\ jn[k] \in E /\ key[jn[k]] = k
                                     /\ ~fl[jn[k]].abandoned
  /\ \A f \in E : ~fl[f].abandoned => jn[key[f]] = f

StruckOK(st, fl, E) == \A f \in st : f \in E /\ fl[f].abandoned

\* What an executor carries from one of its steps to the next.
ResultsOK ==
  \A r \in Req :
    /\ pc[r] \in {"ended", "report"} =>
         res[r] \in {"ok", "error"} \/ (res[r] = "interrupted" /\ r \in struck)
    /\ pc[r] = "complete" =>
         res[r] \in {"ok", "error"} \/ (res[r] = "superseded" /\ flight[r].abandoned)

\* Where requests are, and which flight they are on.
PlacesOK ==
  \A r \in Req :
    /\ Executing(r) => fid[r] = r
    /\ pc[r] = "wait" => fid[r] \in Req /\ pc[fid[r]] \notin {"new", "ticketed"}
    /\ pc[r] \in {"ticketed", "answered"} => tkey[r] # None

\* A ticket is attached to the flight its request is on, until it is cancelled.
TicketsOK ==
  \A r \in Req :
    /\ tflight[r] = IF OnFlight(r) /\ tkey[r] # None /\ ~cancelled[r] THEN fid[r] ELSE None
    /\ cancelled[r] => tkey[r] # None /\ pc[r] # "new"

\* The holder of a ticket key superseded the others and is superseded by none.
HoldersOK ==
  /\ \A t \in TKeys : keys[t] # None =>
       HasTicket(keys[t]) /\ ~cancelled[keys[t]] /\ tkey[keys[t]] = t
  /\ \A r \in Req : old[r] # None =>
       /\ pc[old[r]] # "new" /\ old[r] # r
       /\ \A t \in TKeys : keys[t] # old[r]

SleepersOK ==
  \A r \in asleep : pc[r] = "wait" /\ ~cancelled[r] /\ Executing(fid[r])

AnswersOK ==
  \A r \in Req :
    /\ answer[r] = "superseded" => cancelled[r]
    /\ answer[r] # "interrupted"

(***************************************************************************)
(* The inductive invariant: everything `run_ticket', `wait', `cancel' and  *)
(* `register' rely on when they find the mutex free.                       *)
(***************************************************************************)
IInv ==
  /\ TypeOK
  /\ FlightsOK(flight, Interest, Running, Registered)
  /\ JoinableOK(joinable, flight, Running)
  /\ StruckOK(struck, flight, Running)
  /\ ResultsOK /\ PlacesOK /\ TicketsOK /\ HoldersOK /\ SleepersOK /\ AnswersOK
=============================================================================
