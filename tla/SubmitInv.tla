----------------------------- MODULE SubmitInv -----------------------------
(***************************************************************************)
(* The inductive invariant of Submit: the store's (StoreInv), and the      *)
(* handler's: a viewer's mutex stays hers while a request has it, so what  *)
(* a request has checked under it still holds when it appends.             *)
(***************************************************************************)
EXTENDS Submit

LockPcs == {"try"} \cup Critical

ServerTypes ==
  /\ req \in [Thread -> [pc : Pcs, click : Click, arc : Arc \cup {NoArc}]]
  /\ recent \subseteq [user : User, id : Id]
  /\ forgotten \subseteq [user : User, id : Id]
  /\ lockOf \in [User -> Arc \cup {NoArc}]
  /\ gates \subseteq [key : [user : User, body : Body, gen : Nat],
                      open : BOOLEAN]
  /\ lifeSeq \in Nat

\* Without a process there is no request and nothing is remembered.
Quiet ==
  ~running => /\ \A t \in Thread : req[t].pc = "idle"
              /\ recent = {} /\ forgotten = {} /\ gates = {}
              /\ records = <<>>

\* A request's mutex is the one its viewer has in the map, and only
\* requests on their way to it or past it have one.
LockHeld == \A t \in Thread :
  IF req[t].pc \in LockPcs
  THEN req[t].arc # NoArc /\ lockOf[req[t].click.user] = req[t].arc
  ELSE req[t].arc = NoArc

\* So no two requests of one viewer are past it.
OnePerViewer == \A s, t \in Thread :
  (/\ req[s].pc \in Critical /\ req[t].pc \in Critical
   /\ req[s].click.user = req[t].click.user)
    => s = t

\* What was checked under the mutex.
Admitted == \A t \in Thread : req[t].pc \in {"gate", "append"} => MayGoOn(t)
Opened == \A t \in Thread : req[t].pc = "append" => GateOpen(req[t].click)

\* A cached gate answer is old, or true.
GatesTrue == \A g \in gates :
  LET now == Cardinality(Rows(records, g.key.user)) IN
    /\ g.key.gen <= now
    /\ g.key.gen = now => g.open = GateOpen(g.key)

\* A record of this process has been answered, or is about to be.
Answered == \A i \in 1..Len(records) :
  records[i].seq >= lifeSeq =>
    \/ Key(records[i]) \in recent \cup forgotten
    \/ \E t \in Thread :
         req[t].pc = "remember" /\ Key(req[t].click) = Key(records[i])

ServerInv ==
  /\ ServerTypes /\ Quiet /\ LockHeld /\ OnePerViewer /\ Admitted /\ Opened
  /\ GatesTrue /\ Answered /\ OnceOnly /\ QuotaHeld /\ RememberedOnce

IInv == StoreInv /\ ServerInv
=============================================================================
