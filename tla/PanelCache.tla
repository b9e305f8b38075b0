----------------------------- MODULE PanelCache -----------------------------
(***************************************************************************)
(* Result cache, single-flight and request supersession of the locked      *)
(* server: duckext/src/panel_cache.rs, with the executor `run_panel' of    *)
(* duckext/src/serve.rs as far as it talks to the cache.                   *)
(*                                                                         *)
(* One mutex guards everything, so every lock section is one action; the   *)
(* requests interleave between sections.  Waiters sleep on one condition   *)
(* variable.  Ticket and flight ids are fresh numbers in the code; here a  *)
(* request is its own ticket id and names the flight it starts.            *)
(*                                                                         *)
(* Operators marked "Wrong on purpose" are no part of the specification:   *)
(* each changes the operator after it the way a plausible bug would, to    *)
(* show which property notices (see README).                               *)
(***************************************************************************)
EXTENDS Recency

CONSTANTS
  Req,      \* the requests (each runs once)
  Keys,     \* what identifies a result: dashboard, panel, variables, page
  TKeys,    \* ticket keys: viewer id / panel / kind
  SizeOf,   \* the size of the result of a key
  Cap,      \* the byte cap of the cache
  None

ASSUME ReqAssumption == IsFiniteSet(Req) /\ None \notin Req
ASSUME KeyAssumption == None \notin TKeys /\ SizeOf \in [Keys -> Nat] /\ Cap \in Nat

VARIABLES
  key,       \* the result a request asks for
  tkey,      \* its ticket key, or None (not supersedable)
  pc,        \* where a request is
  old,       \* the ticket a request supersedes
  fid,       \* the flight a request waits for or executes
  res,       \* what the executor has so far
  answer,    \* what a request was answered
  keys,      \* ticket key -> the live ticket holding it
  cancelled, \* is the ticket cancelled?
  tflight,   \* ticket -> the flight its request is attached to
  joinable,  \* key -> the flight new identical requests join
  flight,    \* the flights
  lru,       \* the kept results, least recently used first
  asleep,    \* the requests blocked on the condition variable
  struck     \* the executors whose running query an interrupt was sent to

input == <<key, tkey>>
tickets == <<keys, cancelled, tflight>>
flights == <<joinable, flight>>
vars == <<input, pc, old, fid, res, answer, tickets, flights, lru, asleep, struck>>

\* What an executor hands to its flight, and what a request is answered:
\* the body, an error of its own, a raw interruption error, or 409.
Outcome == {"ok", "error", "interrupted", "superseded"}

Flight == [live: BOOLEAN, waiters: Nat, outcome: Outcome \cup {"none"},
           interrupt: BOOLEAN, abandoned: BOOLEAN]

NoFlight == [live |-> FALSE, waiters |-> 0, outcome |-> "none",
             interrupt |-> FALSE, abandoned |-> FALSE]

\* Wrong on purpose: the executor does not count itself as a waiter.
NewFlightUncounted == [NoFlight EXCEPT !.live = TRUE]

NewFlight == [NoFlight EXCEPT !.live = TRUE, !.waiters = 1]

-----------------------------------------------------------------------------
Init ==
  /\ key \in [Req -> Keys]
  /\ tkey \in [Req -> TKeys \cup {None}]
  /\ pc = [r \in Req |-> "new"]
  /\ old = [r \in Req |-> None]
  /\ fid = [r \in Req |-> None]
  /\ res = [r \in Req |-> "none"]
  /\ answer = [r \in Req |-> "none"]
  /\ keys = [t \in TKeys |-> None]
  /\ cancelled = [r \in Req |-> FALSE]
  /\ tflight = [r \in Req |-> None]
  /\ joinable = [k \in Keys |-> None]
  /\ flight = [f \in Req |-> NoFlight]
  /\ lru = << >>
  /\ asleep = {}
  /\ struck = {}

\* Does `r' hold its ticket (taken, not yet released)?
HasTicket(r) == tkey[r] # None /\ pc[r] \notin {"new", "done"}

\* May `r' enter `run_ticket' (its ticket, if it wants one, is taken)?
Entering(r) == pc[r] = IF tkey[r] = None THEN "new" ELSE "ticketed"

\* `r' leaves `run_ticket' with `a' and its locals go; a ticket is still to be
\* released.
Answer(r, a) ==
  /\ pc' = [pc EXCEPT ![r] = IF tkey[r] = None THEN "done" ELSE "answered"]
  /\ answer' = [answer EXCEPT ![r] = a]
  /\ fid' = [fid EXCEPT ![r] = None]
  /\ res' = [res EXCEPT ![r] = "none"]

\* One waiter of `f' is gone; a finished flight goes with the last one.
Leave(fl, f) ==
  [fl EXCEPT ![f] = IF fl[f].waiters = 1 THEN NoFlight
                    ELSE [fl[f] EXCEPT !.waiters = @ - 1]]

\* Wrong on purpose: the flight stays open to identical requests.
StaysJoinable(jn, f) == jn

\* Identical requests no longer join `f'.
NotJoinable(jn, f) == [k \in Keys |-> IF k = key[f] /\ jn[k] = f THEN None ELSE jn[k]]

(***************************************************************************)
(* `cancel': ticket `t' stops waiting.  tf, fl and jn are the attachments, *)
(* the flights and the joinable flights as the caller's section left them. *)
(***************************************************************************)
Cancel(t, tf, fl, jn) ==
  LET f        == tf[t]
      attached == f # None /\ fl[f].live
      finished == fl[f].outcome # "none"
      last     == fl[f].waiters <= 1
  IN
  /\ cancelled' = [cancelled EXCEPT ![t] = TRUE]
  /\ tflight' = [tf EXCEPT ![t] = None]
  /\ \/ /\ ~attached
        /\ flight' = fl /\ joinable' = jn /\ UNCHANGED struck
     \/ /\ attached /\ finished
        /\ flight' = Leave(fl, f) /\ joinable' = jn /\ UNCHANGED struck
     \/ /\ attached /\ ~finished /\ ~last
        /\ flight' = [fl EXCEPT ![f].waiters = @ - 1]
        /\ joinable' = jn /\ UNCHANGED struck
     \/ /\ attached /\ ~finished /\ last
        /\ flight' = [fl EXCEPT ![f].waiters = @ - 1, ![f].abandoned = TRUE]
        /\ joinable' = NotJoinable(jn, f)
        /\ struck' = IF fl[f].interrupt THEN struck \cup {f} ELSE struck

\* The superseded ticket is still there and not cancelled yet.
Cancels(t) == t # None /\ HasTicket(t) /\ ~cancelled[t]

\* `supersede': cancel the older ticket, if there is one, and wake all.
Supersede(t, tf, fl, jn) ==
  \/ Cancels(t) /\ Cancel(t, tf, fl, jn)
  \/ /\ ~Cancels(t)
     /\ tflight' = tf /\ flight' = fl /\ joinable' = jn
     /\ UNCHANGED <<cancelled, struck>>

\* Wrong on purpose: a cancellation wakes nobody.
StillAsleepAll(t) == asleep

\* Who still sleeps after `supersede' of `t'.
StillAsleep(t) == IF t = None THEN asleep ELSE {}

-----------------------------------------------------------------------------
\* Wrong on purpose: the ticket key is read after it was written.
TakeTicketSwapped(r) ==
  /\ pc[r] = "new" /\ tkey[r] # None
  /\ pc' = [pc EXCEPT ![r] = "ticketed"]
  /\ keys' = [keys EXCEPT ![tkey[r]] = r]
  /\ old' = [old EXCEPT ![r] = keys'[tkey[r]]]
  /\ UNCHANGED <<input, fid, res, answer, cancelled, tflight, flights, lru, asleep, struck>>

\* Take the ticket: a lock section of its own.  The holder of the ticket key
\* is remembered, and cancelled later.
TakeTicket(r) ==
  /\ pc[r] = "new" /\ tkey[r] # None
  /\ pc' = [pc EXCEPT ![r] = "ticketed"]
  /\ old' = [old EXCEPT ![r] = keys[tkey[r]]]
  /\ keys' = [keys EXCEPT ![tkey[r]] = r]
  /\ UNCHANGED <<input, fid, res, answer, cancelled, tflight, flights, lru, asleep, struck>>

\* Superseded before it even looked: answered without touching anything.
Refused(r) ==
  /\ Entering(r) /\ cancelled[r]
  /\ Answer(r, "superseded")
  /\ UNCHANGED <<input, old, tickets, flights, lru, asleep, struck>>

\* The result is kept.
Hit(r) ==
  /\ Entering(r) /\ ~cancelled[r]
  /\ key[r] \in KeysOf(lru)
  /\ lru' = Touch(lru, key[r])
  /\ Supersede(old[r], tflight, flight, joinable)
  /\ asleep' = StillAsleep(old[r])
  /\ Answer(r, "ok")
  /\ UNCHANGED <<input, old, keys>>

\* Wrong on purpose: the ticket does not learn its flight.
AttachNothing(r, f) == tflight

\* `attach' of a request with a ticket.
Attach(r, f) == IF tkey[r] = None THEN tflight ELSE [tflight EXCEPT ![r] = f]

\* An identical request is running: join it before cancelling the superseded
\* one, then sleep (the flight has no outcome yet).
Join(r) ==
  LET f == joinable[key[r]] IN
  /\ Entering(r) /\ ~cancelled[r]
  /\ key[r] \notin KeysOf(lru) /\ f # None
  /\ Supersede(old[r], Attach(r, f), [flight EXCEPT ![f].waiters = @ + 1], joinable)
  /\ asleep' = StillAsleep(old[r]) \cup {r}
  /\ fid' = [fid EXCEPT ![r] = f]
  /\ pc' = [pc EXCEPT ![r] = "wait"]
  /\ UNCHANGED <<input, old, res, answer, keys, lru>>

\* Start a flight and run it on this thread.
Start(r) ==
  /\ Entering(r) /\ ~cancelled[r]
  /\ key[r] \notin KeysOf(lru) /\ joinable[key[r]] = None
  /\ Supersede(old[r], Attach(r, r), [flight EXCEPT ![r] = NewFlight],
               [joinable EXCEPT ![key[r]] = r])
  /\ asleep' = StillAsleep(old[r])
  /\ fid' = [fid EXCEPT ![r] = r]
  /\ pc' = [pc EXCEPT ![r] = "exec"]
  /\ UNCHANGED <<input, old, res, answer, keys, lru>>

-----------------------------------------------------------------------------
(***************************************************************************)
(* The executor: it gets a query slot and a connection ("exec"), registers *)
(* the connection's interrupter and queries ("query"), unregisters         *)
(* ("ended"), and words its error ("report").                              *)
(***************************************************************************)
executing == <<input, old, fid, answer, tickets, joinable, lru, asleep, struck>>

\* Wrong on purpose: the executor's own cancellation aborts the query, or only a
\* flight that is gone is abandoned.
AbandonedByExecutor(r) == ~flight[r].live \/ flight[r].abandoned \/ cancelled[r]
AbandonedIfGone(r) == ~flight[r].live

Abandoned(r) == ~flight[r].live \/ flight[r].abandoned

\* Everyone has given up while it waited for a slot, or before it registered.
GiveUp(r) ==
  /\ pc[r] = "exec" /\ Abandoned(r)
  /\ pc' = [pc EXCEPT ![r] = "complete"]
  /\ res' = [res EXCEPT ![r] = "superseded"]
  /\ UNCHANGED <<executing, flight>>

\* No slot in time, no connection, or a panic: an error, nothing registered.
\* (A request that everyone has given up on answers 409 instead.)
ExecFails(r) ==
  /\ pc[r] = "exec"
  /\ pc' = [pc EXCEPT ![r] = "complete"]
  /\ res' = [res EXCEPT ![r] = "error"]
  /\ UNCHANGED <<executing, flight>>

Register(r) ==
  /\ pc[r] = "exec" /\ ~Abandoned(r)
  /\ pc' = [pc EXCEPT ![r] = "query"]
  /\ flight' = [flight EXCEPT ![r].interrupt = TRUE]
  /\ UNCHANGED <<executing, res>>

\* The query ends by itself, by its deadline, or by the interrupt sent to it.
QueryEnds(r) ==
  /\ pc[r] = "query"
  /\ pc' = [pc EXCEPT ![r] = "ended"]
  /\ \E v \in {"ok", "error"} \cup IF r \in struck THEN {"interrupted"} ELSE {} :
       res' = [res EXCEPT ![r] = v]
  /\ UNCHANGED <<executing, flight>>

\* Wrong on purpose: the interrupter stays registered after the query.
UnregisterNothing(r) ==
  /\ pc[r] = "ended"
  /\ pc' = [pc EXCEPT ![r] = "report"]
  /\ UNCHANGED <<executing, flight, res>>

\* `Registered' is dropped: no interrupt reaches the connection after this.
Unregister(r) ==
  /\ pc[r] = "ended"
  /\ pc' = [pc EXCEPT ![r] = "report"]
  /\ flight' = [flight EXCEPT ![r].interrupt = FALSE]
  /\ UNCHANGED <<executing, res>>

\* An error of an abandoned query is reported as 409.
Report(r) ==
  /\ pc[r] = "report"
  /\ pc' = [pc EXCEPT ![r] = "complete"]
  /\ res' = [res EXCEPT ![r] = IF @ # "ok" /\ Abandoned(r) THEN "superseded" ELSE @]
  /\ UNCHANGED <<executing, flight>>

\* Complete the flight, wake all, and leave it (the first turn of `wait', under
\* the same lock): the executor never sleeps.
Complete(r) ==
  /\ pc[r] = "complete"
  /\ lru' = IF res[r] = "ok" THEN Keep(lru, key[r], SizeOf[key[r]], Cap) ELSE lru
  /\ joinable' = NotJoinable(joinable, r)
  /\ asleep' = {}
  /\ LET done == [flight EXCEPT ![r].interrupt = FALSE, ![r].outcome = res[r]] IN
     \/ /\ cancelled[r]
        /\ flight' = IF flight[r].waiters = 0 THEN [flight EXCEPT ![r] = NoFlight] ELSE done
        /\ Answer(r, "superseded")
        /\ UNCHANGED tflight
     \/ /\ ~cancelled[r]
        /\ flight' = Leave(done, r)
        /\ Answer(r, res[r])
        /\ tflight' = [tflight EXCEPT ![r] = None]
  /\ struck' = struck \ {r}
  /\ UNCHANGED <<input, old, keys, cancelled>>

-----------------------------------------------------------------------------
\* A waiter that was notified looks again.
Awake(r) == pc[r] = "wait" /\ r \notin asleep

WakeCancelled(r) ==
  /\ Awake(r) /\ cancelled[r]
  /\ Answer(r, "superseded")
  /\ UNCHANGED <<input, old, tickets, flights, lru, asleep, struck>>

WakeFinished(r) ==
  /\ Awake(r) /\ ~cancelled[r]
  /\ flight[fid[r]].outcome # "none"
  /\ flight' = Leave(flight, fid[r])
  /\ tflight' = [tflight EXCEPT ![r] = None]
  /\ Answer(r, flight[fid[r]].outcome)
  /\ UNCHANGED <<input, old, keys, cancelled, joinable, lru, asleep, struck>>

SleepAgain(r) ==
  /\ Awake(r) /\ ~cancelled[r]
  /\ flight[fid[r]].outcome = "none"
  /\ asleep' = asleep \cup {r}
  /\ UNCHANGED <<input, pc, old, fid, res, answer, tickets, flights, lru, struck>>

\* `TicketGuard' is dropped.
Release(r) ==
  /\ pc[r] = "answered"
  /\ pc' = [pc EXCEPT ![r] = "done"]
  /\ keys' = [t \in TKeys |-> IF t = tkey[r] /\ keys[t] = r THEN None ELSE keys[t]]
  /\ old' = [old EXCEPT ![r] = None]
  /\ UNCHANGED <<input, fid, res, answer, cancelled, tflight, flights, lru, asleep, struck>>

\* All requests are done: the system may stop here, and nowhere else.
Finished == (\A r \in Req : pc[r] = "done") /\ UNCHANGED vars

Enter(r) == Refused(r) \/ Hit(r) \/ Join(r) \/ Start(r)
Wake(r) == WakeCancelled(r) \/ WakeFinished(r) \/ SleepAgain(r)
BeginQuery(r) == GiveUp(r) \/ ExecFails(r) \/ Register(r)
EndQuery(r) == Unregister(r) \/ Report(r) \/ Complete(r)

Next ==
  \/ \E r \in Req : \/ TakeTicket(r) \/ Enter(r) \/ BeginQuery(r) \/ QueryEnds(r)
                    \/ EndQuery(r) \/ Wake(r) \/ Release(r)
  \/ Finished

Spec == Init /\ [][Next]_vars

(***************************************************************************)
(* The threads keep running, and a query ends once it is interrupted.  The *)
(* wait for a query slot is bounded by the timeout.  Nothing is assumed of *)
(* a query nobody interrupts.                                              *)
(***************************************************************************)
Fairness ==
  \A r \in Req : /\ WF_vars(TakeTicket(r)) /\ WF_vars(Enter(r))
                 /\ WF_vars(BeginQuery(r)) /\ WF_vars(EndQuery(r))
                 /\ WF_vars(r \in struck /\ QueryEnds(r))
                 /\ WF_vars(Wake(r)) /\ WF_vars(Release(r))

FairSpec == Spec /\ Fairness
-----------------------------------------------------------------------------
\* A request is on its flight: it executes it or waits for it.
OnFlight(r) == pc[r] \in {"exec", "query", "ended", "report", "complete", "wait"}

\* A flight is executing: its outcome is still to come.
Executing(f) == pc[f] \in {"exec", "query", "ended", "report", "complete"}

\* The requests a flight works for: on it, and not superseded.
Interested(f) == { r \in Req : OnFlight(r) /\ fid[r] = f /\ ~cancelled[r] }

Place == {"new", "ticketed", "exec", "query", "ended", "report", "complete",
          "wait", "answered", "done"}

TypeOK ==
  /\ key \in [Req -> Keys] /\ tkey \in [Req -> TKeys \cup {None}]
  /\ pc \in [Req -> Place]
  /\ old \in [Req -> Req \cup {None}] /\ fid \in [Req -> Req \cup {None}]
  /\ res \in [Req -> Outcome \cup {"none"}]
  /\ answer \in [Req -> Outcome \cup {"none"}]
  /\ keys \in [TKeys -> Req \cup {None}]
  /\ cancelled \in [Req -> BOOLEAN] /\ tflight \in [Req -> Req \cup {None}]
  /\ joinable \in [Keys -> Req \cup {None}]
  /\ flight \in [Req -> Flight]
  /\ lru \in Seq([key: Keys, size: Nat])
  /\ asleep \subseteq Req /\ struck \subseteq Req

(***************************************************************************)
(* Only a superseded request is answered 409, and nobody is answered the   *)
(* raw interruption error: the cancellation of one request never reaches   *)
(* another that shares its flight (`run_ticket', `wait', `run_panel').     *)
(***************************************************************************)
NoForeignCancellation ==
  \A r \in Req : /\ answer[r] = "superseded" => cancelled[r]
                 /\ answer[r] # "interrupted"

(***************************************************************************)
(* A flight's waiter count is the number of requests it works for, and a   *)
(* request on a flight finds it: `waiters -= 1' never underflows and the   *)
(* `expect's on the own, the joined and the waited-on flight never fail.   *)
(***************************************************************************)
WaitersCounted ==
  \A f \in Req :
    /\ flight[f].waiters = Cardinality(Interested(f))
    /\ Executing(f) \/ Interested(f) # {} => flight[f].live

(***************************************************************************)
(* Single-flight: no two running queries that somebody waits for compute   *)
(* the same result.                                                        *)
(***************************************************************************)
SingleFlight ==
  \A f, g \in Req :
    Executing(f) /\ Executing(g) /\ key[f] = key[g] /\ Interested(f) # {} /\ Interested(g) # {}
      => f = g

(***************************************************************************)
(* Nobody joins a dying flight: a joinable one computes that key, has no   *)
(* outcome yet and is not abandoned.                                       *)
(***************************************************************************)
JoinableRuns ==
  \A k \in Keys : LET f == joinable[k] IN
    f # None => /\ flight[f].live /\ ~flight[f].abandoned
                /\ flight[f].outcome = "none" /\ key[f] = k

(***************************************************************************)
(* A query somebody still waits for is never interrupted, not even by a    *)
(* request that joins its flight later (`cancel', `Abort::register').      *)
(***************************************************************************)
InterruptOnlyAbandoned == \A f \in struck : Interested(f) = {}

(***************************************************************************)
(* An interrupt goes to a connection that is still the executor's: from    *)
(* `register' until `Registered' is dropped, never before or after.        *)
(***************************************************************************)
InterruptReachesOwnQuery ==
  [][\A f \in struck' \ struck : pc[f] \in {"query", "ended"}]_vars

(***************************************************************************)
(* No lost wakeup: whoever sleeps has nothing to wake up for, its flight   *)
(* runs and it is not cancelled (every change of either notifies).         *)
(***************************************************************************)
NoLostWakeup ==
  \A r \in asleep : ~cancelled[r] /\ flight[fid[r]].outcome = "none" /\ Executing(fid[r])

(***************************************************************************)
(* The newest request of a ticket key is never cancelled: a viewer's last  *)
(* click is answered, whatever the older ones do.                          *)
(***************************************************************************)
NewestSurvives == \A t \in TKeys : keys[t] # None => HasTicket(keys[t]) /\ ~cancelled[keys[t]]

(***************************************************************************)
(* Nothing stays behind: a flight lives only while somebody executes it or *)
(* waits for it, and a ticket is attached to a live flight or to none.     *)
(***************************************************************************)
NothingLeaks ==
  /\ \A f \in Req : flight[f].live => Executing(f) \/ Interested(f) # {}
  /\ \A r \in Req : tflight[r] # None => r \in Interested(tflight[r])

(***************************************************************************)
(* No flight outlives its use: only running ones can be joined, and none   *)
(* stays behind.                                                           *)
(***************************************************************************)
NoStaleFlight == JoinableRuns /\ NothingLeaks

(***************************************************************************)
(* A request that waits for somebody else's query and is superseded is     *)
(* answered, although nothing makes that query end.                        *)
(***************************************************************************)
SupersededAnswers ==
  \A s \in Req :
    pc[s] = "wait" /\ (\E r \in Req : OnFlight(r) /\ old[r] = s) ~> pc[s] = "done"

(***************************************************************************)
(* A query everyone has given up on ends and its flight goes away, wherever*)
(* the executor was when the last request left.                            *)
(***************************************************************************)
AbandonedEnds == \A f \in Req : flight[f].abandoned ~> ~flight[f].live

(***************************************************************************)
(* A request is answered, or the query it waits for is running: nothing    *)
(* else holds it up for ever.                                              *)
(***************************************************************************)
OnlyQueriesBlock ==
  \A r \in Req : []<>(pc[r] = "done" \/ (OnFlight(r) /\ pc[fid[r]] = "query"))
=============================================================================
