-------------------------- MODULE PanelCacheProofs --------------------------
(***************************************************************************)
(* Proofs about PanelCache, for every number of requests, keys and ticket  *)
(* keys: IInv is inductive, and the safety properties follow from it.      *)
(***************************************************************************)
EXTENDS PanelCacheInv, FiniteSetTheorems, SequenceTheorems, TLAPS

(***************************************************************************)
(* Counting: a set of requests is finite, and its cardinality follows      *)
(* single additions and removals.                                          *)
(***************************************************************************)
LEMMA CountRequests ==
  ASSUME NEW S \in SUBSET Req
  PROVE  /\ IsFiniteSet(S) /\ Cardinality(S) \in Nat
         /\ Cardinality(S) = 0 <=> S = {}
         /\ \A r \in S : Cardinality(S \ {r}) = Cardinality(S) - 1
         /\ \A r \in Req \ S : Cardinality(S \cup {r}) = Cardinality(S) + 1
<1>1. IsFiniteSet(S)
  BY FS_Subset, ReqAssumption
<1>2. Cardinality(S) \in Nat /\ (Cardinality(S) = 0 <=> S = {})
  BY <1>1, FS_CardinalityType, FS_EmptySet
<1>3. \A r \in S : Cardinality(S \ {r}) = Cardinality(S) - 1
  BY <1>1, FS_RemoveElement
<1>4. \A r \in Req \ S : Cardinality(S \cup {r}) = Cardinality(S) + 1
  BY <1>1, FS_AddElement
<1>5. QED
  BY <1>1, <1>2, <1>3, <1>4

(***************************************************************************)
(* The flights stay consistent when one of them is changed consistently.   *)
(***************************************************************************)
LEMMA OneFlightChanges ==
  ASSUME NEW f \in Req, NEW fl, NEW I, NEW E, NEW Q, NEW gl, NEW J, NEW D, NEW P,
         FlightsOK(fl, I, E, Q), FlightOK(f, gl, J, D, P),
         \A g \in Req \ {f} : /\ gl[g] = fl[g] /\ J[g] = I[g]
                              /\ g \in D <=> g \in E
                              /\ g \in P <=> g \in Q
  PROVE  FlightsOK(gl, J, D, P)
<1> SUFFICES ASSUME NEW g \in Req, g # f
             PROVE  FlightOK(g, gl, J, D, P)
  BY DEF FlightsOK
<1>1. FlightOK(g, fl, I, E, Q)
  BY DEF FlightsOK
<1>2. gl[g] = fl[g] /\ J[g] = I[g] /\ (g \in D <=> g \in E) /\ (g \in P <=> g \in Q)
  OBVIOUS
<1>3. QED
  BY <1>1, <1>2 DEF FlightOK

(***************************************************************************)
(* `cancel' takes its request off its flight and leaves flights, joinable  *)
(* flights and interrupts consistent, whatever section calls it.           *)
(***************************************************************************)
LEMMA CancelStep ==
  ASSUME TypeOK,
         NEW fl \in [Req -> Flight], NEW jn \in [Keys -> Req \cup {None}],
         NEW tf \in [Req -> Req \cup {None}], NEW I \in [Req -> SUBSET Req],
         NEW E \in SUBSET Req, NEW Q \in SUBSET E, NEW t \in Req,
         FlightsOK(fl, I, E, Q), JoinableOK(jn, fl, E), StruckOK(struck, fl, E),
         tf[t] # None => t \in I[tf[t]],
         Cancel(t, tf, fl, jn)
  PROVE  LET J == IF tf[t] = None THEN I ELSE [I EXCEPT ![tf[t]] = @ \ {t}] IN
         /\ flight' \in [Req -> Flight] /\ joinable' \in [Keys -> Req \cup {None}]
         /\ struck' \subseteq Req /\ struck \subseteq struck'
         /\ FlightsOK(flight', J, E, Q)
         /\ JoinableOK(joinable', flight', E)
         /\ StruckOK(struck', flight', E)
<1> DEFINE f == tf[t]
           J == IF f = None THEN I ELSE [I EXCEPT ![f] = @ \ {t}]
<1> HIDE DEF f, J
<1>1. CASE f = None
  <2>1. flight' = fl /\ joinable' = jn /\ struck' = struck
    BY <1>1 DEF Cancel, NotJoinable, f
  <2>2. QED
    BY <1>1, <2>1 DEF TypeOK, f, J
<1>2. CASE f # None
  <2>0. f \in Req /\ t \in I[f]
    BY <1>2 DEF f
  <2>1. f \in Req /\ t \in I[f] /\ J \in [Req -> SUBSET Req]
        /\ J[f] = I[f] \ {t} /\ \A g \in Req \ {f} : J[g] = I[g]
    BY <1>2, <2>0 DEF J
  <2>2. /\ Cardinality(J[f]) = Cardinality(I[f]) - 1
        /\ Cardinality(I[f]) \in Nat \ {0} /\ Cardinality(J[f]) \in Nat
        /\ Cardinality(J[f]) = 0 <=> J[f] = {}
    <3>1. I[f] \in SUBSET Req /\ J[f] \in SUBSET Req
      BY <2>1
    <3>2. QED
      BY <2>1, <3>1, CountRequests
  <2>3. fl[f].live /\ fl[f].waiters = Cardinality(I[f]) /\ fl[f] \in Flight
    BY <2>1, <2>2 DEF FlightsOK, FlightOK
  <2>4. key[f] \in Keys /\ struck \subseteq Req
    BY <2>1 DEF TypeOK
  <2>5. CASE fl[f].outcome # "none"
    <3>1. flight' = Leave(fl, f) /\ joinable' = jn /\ struck' = struck
      BY <1>2, <2>3, <2>5 DEF Cancel, NotJoinable, f
    <3>2. f \notin E
      BY <2>1, <2>5 DEF FlightsOK, FlightOK
    <3>3. /\ flight' \in [Req -> Flight] /\ \A g \in Req \ {f} : flight'[g] = fl[g]
          /\ flight'[f] = IF fl[f].waiters = 1 THEN NoFlight
                          ELSE [fl[f] EXCEPT !.waiters = @ - 1]
      BY <3>1, <2>1, <2>2, <2>3 DEF Leave, Flight, NoFlight, Outcome
    <3>4. FlightOK(f, flight', J, E, Q)
      BY <3>2, <3>3, <2>1, <2>2, <2>3 DEF FlightsOK, FlightOK, NoFlight, Flight
    <3>5. FlightsOK(flight', J, E, Q)
      BY <3>3, <3>4, <2>1, OneFlightChanges
    <3>6. JoinableOK(joinable', flight', E) /\ StruckOK(struck', flight', E)
      BY <3>1, <3>2, <3>3 DEF JoinableOK, StruckOK
    <3>7. QED
      BY <3>1, <3>3, <3>5, <3>6, <2>4 DEF f, J
  <2>6. CASE fl[f].outcome = "none" /\ fl[f].waiters > 1
    <3>1. flight' = [fl EXCEPT ![f].waiters = @ - 1] /\ joinable' = jn /\ struck' = struck
      BY <1>2, <2>2, <2>3, <2>6 DEF Cancel, NotJoinable, Flight, f
    <3>2. f \in E
      BY <2>1, <2>2, <2>6 DEF FlightsOK, FlightOK, NoFlight
    <3>a. [fl[f] EXCEPT !.waiters = @ - 1] \in Flight
      BY <2>2, <2>3 DEF Flight
    <3>3. /\ flight' \in [Req -> Flight] /\ \A g \in Req \ {f} : flight'[g] = fl[g]
          /\ flight'[f] = [fl[f] EXCEPT !.waiters = @ - 1]
      BY <3>1, <3>a, <2>1
    <3>b. FlightOK(f, flight', J, E, Q)
      BY <3>2, <3>3, <2>1, <2>2, <2>3, <2>6 DEF FlightsOK, FlightOK, Flight
    <3>4. FlightsOK(flight', J, E, Q)
      BY <3>3, <3>b, <2>1, OneFlightChanges
    <3>5. JoinableOK(joinable', flight', E) /\ StruckOK(struck', flight', E)
      BY <3>1, <3>2, <3>3, <2>3 DEF JoinableOK, StruckOK, Flight
    <3>6. QED
      BY <3>1, <3>3, <3>4, <3>5, <2>4 DEF f, J
  <2>7. CASE fl[f].outcome = "none" /\ fl[f].waiters <= 1
    <3>1. /\ flight' = [fl EXCEPT ![f].waiters = @ - 1, ![f].abandoned = TRUE]
          /\ joinable' = [k \in Keys |-> IF k = key[f] /\ jn[k] = f THEN None ELSE jn[k]]
          /\ struck' = IF fl[f].interrupt THEN struck \cup {f} ELSE struck
      BY <1>2, <2>2, <2>3, <2>7 DEF Cancel, NotJoinable, Flight, f
    <3>2. f \in E /\ J[f] = {}
      BY <2>1, <2>2, <2>3, <2>7 DEF FlightsOK, FlightOK, NoFlight
    <3>a. [fl[f] EXCEPT !.waiters = @ - 1, !.abandoned = TRUE] \in Flight
      BY <2>2, <2>3 DEF Flight
    <3>3. /\ flight' \in [Req -> Flight] /\ \A g \in Req \ {f} : flight'[g] = fl[g]
          /\ flight'[f] = [fl[f] EXCEPT !.waiters = @ - 1, !.abandoned = TRUE]
      BY <3>1, <3>a, <2>1
    <3>b. FlightOK(f, flight', J, E, Q)
      BY <3>2, <3>3, <2>1, <2>2, <2>3, <2>7 DEF FlightsOK, FlightOK, Flight
    <3>4. FlightsOK(flight', J, E, Q)
      BY <3>3, <3>b, <2>1, OneFlightChanges
    <3>5. JoinableOK(joinable', flight', E)
      BY <3>1, <3>2, <3>3, <2>1, <2>4, ReqAssumption DEF JoinableOK, TypeOK, Flight
    <3>6. StruckOK(struck', flight', E)
      BY <3>1, <3>2, <3>3, <2>1, <2>3 DEF StruckOK, Flight
    <3>7. QED
      BY <3>1, <3>3, <3>4, <3>5, <3>6, <2>1, <2>4 DEF f, J
  <2>8. QED
    BY <2>2, <2>3, <2>5, <2>6, <2>7 DEF Flight
<1>3. QED
  BY <1>1, <1>2 DEF f, J

(***************************************************************************)
(* `supersede' as a whole: the older request is taken off its flight, or   *)
(* there is nothing to cancel.                                             *)
(***************************************************************************)
LEMMA SupersedeStep ==
  ASSUME TypeOK,
         NEW fl \in [Req -> Flight], NEW jn \in [Keys -> Req \cup {None}],
         NEW tf \in [Req -> Req \cup {None}], NEW I \in [Req -> SUBSET Req],
         NEW E \in SUBSET Req, NEW Q \in SUBSET E, NEW t \in Req \cup {None},
         FlightsOK(fl, I, E, Q), JoinableOK(jn, fl, E), StruckOK(struck, fl, E),
         Cancels(t) /\ tf[t] # None => t \in I[tf[t]],
         Supersede(t, tf, fl, jn)
  PROVE  LET J == IF Cancels(t) /\ tf[t] # None
                  THEN [I EXCEPT ![tf[t]] = @ \ {t}] ELSE I
         IN
         /\ flight' \in [Req -> Flight] /\ joinable' \in [Keys -> Req \cup {None}]
         /\ struck' \subseteq Req /\ struck \subseteq struck'
         /\ FlightsOK(flight', J, E, Q)
         /\ JoinableOK(joinable', flight', E)
         /\ StruckOK(struck', flight', E)
         /\ tflight' = IF Cancels(t) THEN [tf EXCEPT ![t] = None] ELSE tf
         /\ cancelled' = IF Cancels(t) THEN [cancelled EXCEPT ![t] = TRUE] ELSE cancelled
<1>1. CASE Cancels(t)
  <2>1. t \in Req /\ Cancel(t, tf, fl, jn)
    BY <1>1 DEF Supersede, Cancels
  <2>2. /\ tflight' = [tf EXCEPT ![t] = None]
        /\ cancelled' = [cancelled EXCEPT ![t] = TRUE]
    BY <2>1 DEF Cancel, NotJoinable
  <2>3. tf[t] # None => t \in I[tf[t]]
    BY <1>1
  <2> DEFINE J == IF tf[t] = None THEN I ELSE [I EXCEPT ![tf[t]] = @ \ {t}]
  <2>4. /\ flight' \in [Req -> Flight] /\ joinable' \in [Keys -> Req \cup {None}]
        /\ struck' \subseteq Req /\ struck \subseteq struck'
        /\ FlightsOK(flight', J, E, Q)
        /\ JoinableOK(joinable', flight', E)
        /\ StruckOK(struck', flight', E)
    BY <2>1, <2>3, CancelStep
  <2>5. J = IF Cancels(t) /\ tf[t] # None THEN [I EXCEPT ![tf[t]] = @ \ {t}] ELSE I
    BY <1>1
  <2> HIDE DEF J
  <2>6. QED
    BY <1>1, <2>2, <2>4, <2>5
<1>2. CASE ~Cancels(t)
  <2>1. /\ tflight' = tf /\ flight' = fl /\ joinable' = jn
        /\ cancelled' = cancelled /\ struck' = struck
    BY <1>2 DEF Supersede
  <2>2. QED
    BY <1>2, <2>1 DEF TypeOK
<1>3. QED
  BY <1>1, <1>2

(***************************************************************************)
(* A request that enters: it is answered (F = None), joins the executing   *)
(* flight F, or starts its own; then the older request is cancelled.       *)
(***************************************************************************)
LEMMA EnterStep ==
  ASSUME IInv, NEW r \in Req, Entering(r), ~cancelled[r],
         NEW F \in Req \cup {None}, NEW P,
         \/ F = None /\ P = (IF tkey[r] = None THEN "done" ELSE "answered")
         \/ F \in Running /\ ~flight[F].abandoned /\ P = "wait"
         \/ F = r /\ P = "exec",
         NEW tf, tf = IF F = None THEN tflight ELSE Attach(r, F),
         NEW I, I = IF F = None THEN Interest ELSE [Interest EXCEPT ![F] = @ \cup {r}],
         NEW E, E = IF P = "exec" THEN Running \cup {r} ELSE Running,
         NEW fl \in [Req -> Flight], NEW jn \in [Keys -> Req \cup {None}],
         FlightsOK(fl, I, E, Registered), JoinableOK(jn, fl, E), StruckOK(struck, fl, E),
         Supersede(old[r], tf, fl, jn),
         pc' = [pc EXCEPT ![r] = P], fid' = [fid EXCEPT ![r] = F],
         asleep' = StillAsleep(old[r]) \cup (IF P = "wait" THEN {r} ELSE {}),
         UNCHANGED <<input, old, keys>>,
         \A q \in Req \ {r} : res'[q] = res[q]
  PROVE  /\ flight' \in [Req -> Flight] /\ joinable' \in [Keys -> Req \cup {None}]
         /\ struck' \subseteq Req /\ cancelled' \in [Req -> BOOLEAN]
         /\ tflight' \in [Req -> Req \cup {None}] /\ asleep' \subseteq Req
         /\ \A q \in Req : cancelled[q] => cancelled'[q]
         /\ FlightsOK(flight, Interest, Running, Registered)'
         /\ JoinableOK(joinable, flight, Running)'
         /\ StruckOK(struck, flight, Running)'
         /\ ResultsOK' /\ PlacesOK' /\ TicketsOK' /\ HoldersOK' /\ SleepersOK'
<1> DEFINE t == old[r]
           J == IF Cancels(t) /\ tf[t] # None THEN [I EXCEPT ![tf[t]] = @ \ {t}] ELSE I
<1>1. TypeOK /\ PlacesOK /\ TicketsOK /\ HoldersOK /\ SleepersOK /\ ResultsOK
  BY DEF IInv
<1>2. /\ pc[r] \in {"new", "ticketed"} /\ ~OnFlight(r) /\ ~Executing(r)
      /\ t \in Req \cup {None} /\ t # r /\ r # None
      /\ tkey[r] \in TKeys \cup {None} /\ (tkey[r] = None <=> pc[r] = "new")
  BY <1>1, ReqAssumption DEF TypeOK, HoldersOK, Entering, OnFlight, Executing
<1>3. /\ tf \in [Req -> Req \cup {None}]
      /\ \A q \in Req \ {r} : tf[q] = tflight[q]
      /\ tf[r] = IF F # None /\ tkey[r] # None THEN F ELSE None
  <2>1. tflight[r] = None
    BY <1>1, <1>2 DEF TicketsOK
  <2>2. QED
    BY <1>1, <2>1 DEF TypeOK, Attach
<1>4. /\ I \in [Req -> SUBSET Req]
      /\ \A g \in Req : I[g] = IF g = F THEN Interested(g) \cup {r} ELSE Interested(g)
  BY <1>1, ReqAssumption DEF Interest, Interested
<1>5. E \in SUBSET Req /\ Registered \in SUBSET E
  BY DEF Running, Registered, Executing
<1>6. ASSUME Cancels(t), tf[t] # None
      PROVE  t \in Interested(tf[t]) /\ tf[t] = fid[t] /\ t \in I[tf[t]] /\ t \in Req
  <2>1. t \in Req /\ t # r /\ ~cancelled[t] /\ tf[t] = tflight[t]
    BY <1>6, <1>2, <1>3 DEF Cancels
  <2>2. OnFlight(t) /\ tflight[t] = fid[t]
    BY <1>1, <1>6, <2>1 DEF TicketsOK
  <2>3. fid[t] \in Req
    BY <1>1, <1>6, <2>1, <2>2 DEF TypeOK
  <2>4. t \in Interested(tf[t])
    BY <2>1, <2>2 DEF Interested
  <2>5. QED
    BY <1>4, <2>1, <2>2, <2>3, <2>4
<1>7. /\ flight' \in [Req -> Flight] /\ joinable' \in [Keys -> Req \cup {None}]
      /\ struck' \subseteq Req /\ struck \subseteq struck'
      /\ FlightsOK(flight', J, E, Registered)
      /\ JoinableOK(joinable', flight', E)
      /\ StruckOK(struck', flight', E)
      /\ tflight' = IF Cancels(t) THEN [tf EXCEPT ![t] = None] ELSE tf
      /\ cancelled' = IF Cancels(t) THEN [cancelled EXCEPT ![t] = TRUE] ELSE cancelled
  <2>1. Cancels(t) /\ tf[t] # None => t \in I[tf[t]]
    BY <1>6
  <2>2. Supersede(t, tf, fl, jn)
    OBVIOUS
  <2>3. /\ TypeOK /\ t \in Req \cup {None} /\ tf \in [Req -> Req \cup {None}]
        /\ I \in [Req -> SUBSET Req] /\ E \in SUBSET Req /\ Registered \in SUBSET E
    BY <1>1, <1>2, <1>3, <1>4, <1>5
  <2> HIDE DEF t
  <2>4. QED
    BY ONLY <2>1, <2>2, <2>3, SupersedeStep, fl \in [Req -> Flight],
       jn \in [Keys -> Req \cup {None}], FlightsOK(fl, I, E, Registered),
       JoinableOK(jn, fl, E), StruckOK(struck, fl, E) DEF J
<1> HIDE DEF t, J
<1>8. /\ pc'[r] = P /\ \A q \in Req \ {r} : pc'[q] = pc[q]
      /\ fid' \in [Req -> Req \cup {None}]
      /\ fid'[r] = F /\ \A q \in Req \ {r} : fid'[q] = fid[q]
      /\ key' = key /\ tkey' = tkey /\ old' = old /\ keys' = keys
  BY <1>1 DEF TypeOK, input
<1>9. /\ cancelled' \in [Req -> BOOLEAN]
      /\ \A q \in Req : cancelled'[q] <=> cancelled[q] \/ (Cancels(t) /\ q = t)
      /\ tflight' \in [Req -> Req \cup {None}]
      /\ \A q \in Req : tflight'[q] = IF Cancels(t) /\ q = t THEN None ELSE tf[q]
  BY <1>1, <1>2, <1>3, <1>7 DEF TypeOK
<1>10. asleep' \subseteq Req
  BY <1>1 DEF TypeOK, StillAsleep
<1>11. Running' = E /\ Registered' = Registered
  BY <1>1, <1>2, <1>8 DEF TypeOK, Running, Registered, Executing
<1>12. J \in [Req -> SUBSET Req]
       /\ \A g \in Req : J[g] = IF Cancels(t) /\ tf[t] = g THEN I[g] \ {t} ELSE I[g]
  BY <1>4, <1>6, ReqAssumption DEF J
<1>13. Interest' = J
  <2>1. ASSUME NEW g \in Req, NEW q \in Req
        PROVE  q \in Interested(g)' <=> q \in J[g]
    <3>1. CASE q = r
      <4>0. ~(Cancels(t) /\ q = t) /\ (q \in I[g] <=> g = F)
        <5>1. q \notin Interested(g)
          BY <3>1, <1>2 DEF Interested
        <5>2. QED
          BY <5>1, <3>1, <1>2, <1>4
      <4>1. ~(Cancels(t) /\ q = t) /\ (q \in J[g] <=> g = F)
        BY <4>0, <1>12
      <4>2. q \in Interested(g)' <=> g = F
        BY <3>1, <4>1, <1>2, <1>8, <1>9, ReqAssumption DEF Interested, OnFlight
      <4>3. QED
        BY <4>1, <4>2
    <3>2. CASE q # r
      <4>1. q \in Interested(g)' <=> q \in Interested(g) /\ ~(Cancels(t) /\ q = t)
        BY <3>2, <1>8, <1>9 DEF Interested, OnFlight
      <4>2. q \in J[g] <=> q \in Interested(g) /\ ~(Cancels(t) /\ q = t /\ tf[t] = g)
        <5>1. q \in I[g] <=> q \in Interested(g)
          <6>1. I[g] = IF g = F THEN Interested(g) \cup {r} ELSE Interested(g)
            BY <1>4
          <6>2. QED
            BY ONLY <6>1, <3>2
        <5>2. QED
          BY <5>1, <1>12
      <4>3. Cancels(t) /\ q = t /\ q \in Interested(g) => tf[t] = g
        BY <3>2, <1>1, <1>3 DEF TicketsOK, Cancels, HasTicket, Interested
      <4>4. QED
        BY <4>1, <4>2, <4>3
    <3>3. QED
      BY <3>1, <3>2
  <2>2. \A g \in Req : Interested(g)' = J[g]
    BY <2>1, <1>12 DEF Interested
  <2>3. QED
    BY <2>2, <1>12 DEF Interest
<1>14. /\ FlightsOK(flight, Interest, Running, Registered)'
       /\ JoinableOK(joinable, flight, Running)'
       /\ StruckOK(struck, flight, Running)'
  BY <1>7, <1>8, <1>11, <1>13 DEF FlightsOK, FlightOK, JoinableOK, StruckOK
<1>15. PlacesOK'
  BY <1>1, <1>2, <1>8 DEF PlacesOK, Executing, Running, TypeOK
<1>16. TicketsOK'
  <2>1. ASSUME NEW q \in Req
        PROVE  tflight'[q] = IF OnFlight(q)' /\ tkey'[q] # None /\ ~cancelled'[q]
                             THEN fid'[q] ELSE None
    <3>1. CASE q = r
      BY <3>1, <1>2, <1>3, <1>8, <1>9 DEF OnFlight
    <3>2. CASE q # r
      BY <3>2, <1>1, <1>3, <1>8, <1>9 DEF OnFlight, TicketsOK
    <3>3. QED
      BY <3>1, <3>2
  <2>2. \A q \in Req : cancelled'[q] => tkey'[q] # None /\ pc'[q] # "new"
    BY <1>1, <1>2, <1>8, <1>9 DEF TicketsOK, Cancels, HasTicket
  <2>3. QED
    BY <2>1, <2>2 DEF TicketsOK
<1>17. HoldersOK'
  <2>1. \A u \in TKeys : keys[u] # None => keys[u] # t /\ keys[u] \in Req
    BY <1>1, <1>2 DEF HoldersOK, TypeOK, t
  <2>2. ASSUME NEW u \in TKeys, keys[u] # None
        PROVE  HasTicket(keys[u])' /\ ~cancelled'[keys[u]] /\ tkey'[keys[u]] = u
    <3>1. HasTicket(keys[u]) /\ ~cancelled[keys[u]] /\ tkey[keys[u]] = u
      BY <1>1, <2>2 DEF HoldersOK
    <3>2. QED
      BY <3>1, <2>1, <2>2, <1>2, <1>8, <1>9 DEF HasTicket
  <2>3. \A q \in Req : old[q] # None => old[q] \in Req /\ pc'[old[q]] # "new"
    BY <1>1, <1>2, <1>8 DEF HoldersOK, TypeOK
  <2>4. QED
    BY <2>2, <2>3, <1>1, <1>8 DEF HoldersOK
<1>18. SleepersOK'
  <2>1. ASSUME NEW q \in asleep'
        PROVE  pc'[q] = "wait" /\ ~cancelled'[q] /\ Executing(fid[q])'
    <3>1. CASE q = r
      <4>1. P = "wait" /\ F \in Running
        BY <3>1, <2>1, <1>1, <1>2 DEF SleepersOK, StillAsleep
      <4>2. QED
        BY <3>1, <4>1, <1>2, <1>8, <1>9 DEF Executing, Running
    <3>2. CASE q # r
      <4>1. q \in asleep /\ t = None /\ q \in Req
        BY <3>2, <2>1, <1>10 DEF StillAsleep, t
      <4>2. pc[q] = "wait" /\ ~cancelled[q] /\ Executing(fid[q])
        BY <4>1, <1>1 DEF SleepersOK
      <4>3. fid[q] \in Req /\ ~Cancels(t)
        BY <4>1, <4>2, <1>1 DEF PlacesOK, Cancels
      <4>4. QED
        BY <3>2, <4>1, <4>2, <4>3, <1>2, <1>8, <1>9 DEF Executing
    <3>3. QED
      BY <3>1, <3>2
  <2>2. QED
    BY <2>1 DEF SleepersOK
<1>19. ResultsOK'
  <2>1. ASSUME NEW q \in Req, pc'[q] \in {"ended", "report", "complete"}
        PROVE  /\ q # r /\ pc'[q] = pc[q] /\ res'[q] = res[q]
               /\ q \in struck => q \in struck'
               /\ flight[q].abandoned => flight'[q].abandoned
    <3>1. q # r /\ pc'[q] = pc[q] /\ res'[q] = res[q] /\ q \in Running /\ q \in E
      BY <2>1, <1>2, <1>8 DEF Running, Executing
    <3>2. ASSUME flight[q].abandoned
          PROVE  flight'[q].abandoned
      <4>1. Interest[q] = {}
        BY <3>1, <3>2, <1>1 DEF IInv, FlightsOK, FlightOK
      <4>2. q # F
        BY <3>1, <3>2, <1>2, ReqAssumption
      <4>3. J[q] = {}
        BY <4>1, <4>2, <1>4, <1>12 DEF Interest
      <4>4. QED
        BY <4>3, <3>1, <1>7 DEF FlightsOK, FlightOK
    <3>3. QED
      BY <3>1, <3>2, <1>7
  <2>2. QED
    BY <2>1, <1>1 DEF ResultsOK
<1>20. QED
  BY <1>7, <1>9, <1>10, <1>14, <1>15, <1>16, <1>17, <1>18, <1>19

(***************************************************************************)
(* The list of kept results stays a list of sized keys.                    *)
(***************************************************************************)
LEMMA TouchType ==
  ASSUME NEW S, NEW list \in Seq(S), NEW k, \E i \in DOMAIN list : list[i].key = k
  PROVE  Touch(list, k) \in Seq(S)
<1> DEFINE i == CHOOSE j \in DOMAIN list : list[j].key = k
<1>1. i \in 1..Len(list) /\ Len(list) \in Nat /\ \A j \in 1..Len(list) : list[j] \in S
  BY ElementOfSeq, LenProperties
<1> HIDE DEF i
<1>2. SubSeq(list, 1, i - 1) \in Seq(S) /\ SubSeq(list, i + 1, Len(list)) \in Seq(S)
  <2>1. \A j \in 1..(i - 1) : list[j] \in S
    BY <1>1
  <2>2. \A j \in (i + 1)..Len(list) : list[j] \in S
    BY <1>1
  <2>3. QED
    BY <1>1, <2>1, <2>2, SubSeqProperties
<1>3. RemoveAt(list, i) \in Seq(S)
  BY <1>2, ConcatProperties DEF RemoveAt
<1>4. Append(RemoveAt(list, i), list[i]) \in Seq(S)
  BY <1>1, <1>3, AppendProperties
<1>5. QED
  BY <1>4 DEF Touch, i

LEMMA KeepType ==
  ASSUME NEW list \in Seq([key: Keys, size: Nat]), NEW k \in Keys, NEW n \in Nat
  PROVE  Keep(list, k, n, Cap) \in Seq([key: Keys, size: Nat])
<1> DEFINE S == [key: Keys, size: Nat]
           Ev == { m \in DOMAIN list : Bytes(SubSeq(list, m, Len(list))) + n > Cap }
<1>1. Len(list) \in Nat /\ DOMAIN list = 1..Len(list) /\ \A j \in 1..Len(list) : list[j] \in S
  BY ElementOfSeq, LenProperties
<1>2. Cardinality(Ev) \in Nat
  <2>1. IsFiniteSet(1..Len(list)) /\ Ev \in SUBSET (1..Len(list))
    BY <1>1, FS_Interval
  <2>2. QED
    BY <2>1, FS_Subset, FS_CardinalityType
<1>3. Fit(list, n, Cap) = SubSeq(list, Cardinality(Ev) + 1, Len(list))
  BY DEF Fit
<1> HIDE DEF Ev
<1>4. Fit(list, n, Cap) \in Seq(S)
  <2>1. \A j \in (Cardinality(Ev) + 1)..Len(list) : list[j] \in S
    BY <1>1, <1>2
  <2>2. QED
    BY <1>1, <1>2, <1>3, <2>1, SubSeqProperties
<1>5. Entry(k, n) \in S
  BY DEF Entry
<1>6. QED
  BY <1>4, <1>5, AppendProperties DEF Keep

\* A request is answered from the kept results.
LEMMA HitStep ==
  ASSUME IInv, NEW r \in Req, Hit(r)
  PROVE  IInv'
<1> DEFINE P == IF tkey[r] = None THEN "done" ELSE "answered"
<1>1. /\ TypeOK /\ AnswersOK
      /\ FlightsOK(flight, Interest, Running, Registered)
      /\ JoinableOK(joinable, flight, Running) /\ StruckOK(struck, flight, Running)
  BY DEF IInv
<1>2. /\ flight \in [Req -> Flight] /\ joinable \in [Keys -> Req \cup {None}]
      /\ Supersede(old[r], tflight, flight, joinable)
      /\ pc' = [pc EXCEPT ![r] = P] /\ fid' = [fid EXCEPT ![r] = None]
      /\ answer' = [answer EXCEPT ![r] = "ok"] /\ res' = [res EXCEPT ![r] = "none"]
      /\ asleep' = StillAsleep(old[r]) \cup {}
      /\ UNCHANGED <<input, old, keys>> /\ Entering(r) /\ ~cancelled[r]
      /\ lru' = Touch(lru, key[r]) /\ \A q \in Req \ {r} : res'[q] = res[q]
  BY <1>1 DEF Hit, TypeOK, Answer
<1>3. P \in Place /\ P # "exec" /\ P # "wait"
  BY DEF Place
<1>4. /\ flight' \in [Req -> Flight] /\ joinable' \in [Keys -> Req \cup {None}]
      /\ struck' \subseteq Req /\ cancelled' \in [Req -> BOOLEAN]
      /\ tflight' \in [Req -> Req \cup {None}] /\ asleep' \subseteq Req
      /\ \A q \in Req : cancelled[q] => cancelled'[q]
      /\ FlightsOK(flight, Interest, Running, Registered)'
      /\ JoinableOK(joinable, flight, Running)'
      /\ StruckOK(struck, flight, Running)'
      /\ ResultsOK' /\ PlacesOK' /\ TicketsOK' /\ HoldersOK' /\ SleepersOK'
  BY <1>1, <1>2, <1>3, EnterStep
<1>5. lru' \in Seq([key: Keys, size: Nat])
  BY <1>1, <1>2, TouchType DEF Hit, KeysOf, TypeOK
<1>6. TypeOK'
  BY <1>1, <1>2, <1>3, <1>4, <1>5 DEF TypeOK, input, Outcome
<1>7. AnswersOK'
  BY <1>1, <1>2, <1>4 DEF AnswersOK, TypeOK
<1>8. QED
  BY <1>4, <1>6, <1>7 DEF IInv

\* A request joins the executing flight of an identical one.
LEMMA JoinStep ==
  ASSUME IInv, NEW r \in Req, Join(r)
  PROVE  IInv'
<1> DEFINE F == joinable[key[r]]
           fl == [flight EXCEPT ![F].waiters = @ + 1]
           I == [Interest EXCEPT ![F] = @ \cup {r}]
<1>1. /\ TypeOK /\ AnswersOK
      /\ FlightsOK(flight, Interest, Running, Registered)
      /\ JoinableOK(joinable, flight, Running) /\ StruckOK(struck, flight, Running)
  BY DEF IInv
<1>2. F \in Running /\ F \in Req /\ ~flight[F].abandoned /\ flight[F] \in Flight
  BY <1>1 DEF Join, TypeOK, JoinableOK, Running
<1>3. /\ Supersede(old[r], Attach(r, F), fl, joinable)
      /\ pc' = [pc EXCEPT ![r] = "wait"] /\ fid' = [fid EXCEPT ![r] = F]
      /\ asleep' = StillAsleep(old[r]) \cup {r}
      /\ UNCHANGED <<input, old, res, answer, keys, lru>> /\ Entering(r) /\ ~cancelled[r]
      /\ joinable \in [Keys -> Req \cup {None}]
  BY <1>1 DEF Join, TypeOK
<1>4. /\ fl \in [Req -> Flight] /\ \A g \in Req \ {F} : fl[g] = flight[g]
      /\ fl[F] = [flight[F] EXCEPT !.waiters = @ + 1]
  <2>1. [flight[F] EXCEPT !.waiters = @ + 1] \in Flight
    BY <1>2 DEF Flight
  <2>2. QED
    BY <2>1, <1>1, <1>2 DEF TypeOK
<1>5. /\ I[F] = Interested(F) \cup {r} /\ \A g \in Req \ {F} : I[g] = Interest[g]
      /\ Interest[F] = Interested(F)
  BY <1>2 DEF Interest
<1> HIDE DEF F, fl, I
<1>6. FlightsOK(fl, I, Running, Registered)
  <2>1. r \notin Interested(F) /\ Interested(F) \in SUBSET Req
    BY <1>3 DEF Interested, OnFlight, Entering
  <2>2. Cardinality(I[F]) = Cardinality(Interested(F)) + 1
    BY <2>1, <1>5, CountRequests
  <2>3. Interested(F) # {}
    BY <1>1, <1>2, <1>5 DEF FlightsOK, FlightOK
  <2>4. FlightOK(F, fl, I, Running, Registered)
    BY <1>1, <1>2, <1>4, <1>5, <2>2, <2>3 DEF FlightsOK, FlightOK, Flight
  <2>5. QED
    BY <2>4, <1>1, <1>2, <1>4, <1>5, OneFlightChanges
<1>7. JoinableOK(joinable, fl, Running) /\ StruckOK(struck, fl, Running)
  <2>1. \A g \in Req : fl[g].abandoned = flight[g].abandoned
    BY <1>2, <1>4 DEF Flight
  <2>2. QED
    BY <2>1, <1>1 DEF JoinableOK, StruckOK, Running, TypeOK
<1>8. /\ flight' \in [Req -> Flight] /\ joinable' \in [Keys -> Req \cup {None}]
      /\ struck' \subseteq Req /\ cancelled' \in [Req -> BOOLEAN]
      /\ tflight' \in [Req -> Req \cup {None}] /\ asleep' \subseteq Req
      /\ \A q \in Req : cancelled[q] => cancelled'[q]
      /\ FlightsOK(flight, Interest, Running, Registered)'
      /\ JoinableOK(joinable, flight, Running)'
      /\ StruckOK(struck, flight, Running)'
      /\ ResultsOK' /\ PlacesOK' /\ TicketsOK' /\ HoldersOK' /\ SleepersOK'
  <2>1. I = [Interest EXCEPT ![F] = @ \cup {r}] /\ F # None
    BY <1>2, ReqAssumption DEF I
  <2>2. \A q \in Req \ {r} : res'[q] = res[q]
    BY <1>3
  <2>3. QED
    BY <1>2, <1>3, <1>4, <1>6, <1>7, <2>1, <2>2, EnterStep
<1>9. TypeOK'
  BY <1>1, <1>2, <1>3, <1>8 DEF TypeOK, input, Place
<1>10. AnswersOK'
  BY <1>1, <1>3, <1>8 DEF AnswersOK, TypeOK
<1>11. QED
  BY <1>8, <1>9, <1>10 DEF IInv

\* A request starts a flight, which no running query computes already.
LEMMA StartStep ==
  ASSUME IInv, NEW r \in Req, Start(r)
  PROVE  IInv'
<1> DEFINE fl == [flight EXCEPT ![r] = NewFlight]
           jn == [joinable EXCEPT ![key[r]] = r]
           I == [Interest EXCEPT ![r] = @ \cup {r}]
           E == Running \cup {r}
<1>1. /\ TypeOK /\ AnswersOK /\ PlacesOK
      /\ FlightsOK(flight, Interest, Running, Registered)
      /\ JoinableOK(joinable, flight, Running) /\ StruckOK(struck, flight, Running)
  BY DEF IInv
<1>2. /\ Supersede(old[r], Attach(r, r), fl, jn)
      /\ pc' = [pc EXCEPT ![r] = "exec"] /\ fid' = [fid EXCEPT ![r] = r]
      /\ asleep' = StillAsleep(old[r]) \cup {}
      /\ UNCHANGED <<input, old, res, answer, keys, lru>> /\ Entering(r) /\ ~cancelled[r]
      /\ joinable[key[r]] = None /\ key[r] \in Keys
  BY <1>1 DEF Start, TypeOK
<1>3. pc[r] \in {"new", "ticketed"} /\ r \notin Running /\ r \notin Registered
  BY <1>2 DEF Entering, Running, Registered, Executing
<1>4. /\ fl \in [Req -> Flight] /\ fl[r] = NewFlight /\ \A g \in Req \ {r} : fl[g] = flight[g]
      /\ jn \in [Keys -> Req \cup {None}] /\ jn[key[r]] = r
      /\ \A k \in Keys \ {key[r]} : jn[k] = joinable[k]
  BY <1>1, <1>2 DEF TypeOK, NewFlight, NoFlight, Flight
<1>5. Interested(r) = {}
  BY <1>1, <1>3 DEF Interested, PlacesOK, OnFlight, Executing
<1>6. I[r] = {r} /\ \A g \in Req \ {r} : I[g] = Interest[g]
  BY <1>5 DEF Interest
<1> HIDE DEF fl, jn, I, E
<1>7. FlightsOK(fl, I, E, Registered)
  <2>1. Cardinality(I[r]) = 1
    BY <1>6, FS_Singleton
  <2>2. FlightOK(r, fl, I, E, Registered)
    BY <2>1, <1>3, <1>4, <1>6 DEF FlightOK, NewFlight, NoFlight, E
  <2>3. \A g \in Req \ {r} : (g \in E <=> g \in Running)
    BY DEF E
  <2>4. QED
    BY <2>2, <2>3, <1>1, <1>4, <1>6, OneFlightChanges
<1>8. JoinableOK(jn, fl, E) /\ StruckOK(struck, fl, E)
  <2>1. \A g \in Running : g \in Req /\ g # r /\ fl[g] = flight[g] /\ key[g] \in Keys
    BY <1>1, <1>3, <1>4 DEF Running, TypeOK
  <2>2. ~fl[r].abandoned
    BY <1>4 DEF NewFlight, NoFlight
  <2>3. \A g \in Running : ~fl[g].abandoned => jn[key[g]] = g
    BY <2>1, <1>1, <1>2, <1>4, ReqAssumption DEF JoinableOK
  <2>4. \A k \in Keys : jn[k] # None => jn[k] \in E /\ key[jn[k]] = k /\ ~fl[jn[k]].abandoned
    BY <2>1, <2>2, <1>1, <1>2, <1>4 DEF JoinableOK, E
  <2>5. StruckOK(struck, fl, E)
    BY <2>1, <1>1 DEF StruckOK, E
  <2>6. QED
    BY <2>3, <2>4, <2>5, <1>4 DEF JoinableOK, E
<1>9. /\ flight' \in [Req -> Flight] /\ joinable' \in [Keys -> Req \cup {None}]
      /\ struck' \subseteq Req /\ cancelled' \in [Req -> BOOLEAN]
      /\ tflight' \in [Req -> Req \cup {None}] /\ asleep' \subseteq Req
      /\ \A q \in Req : cancelled[q] => cancelled'[q]
      /\ FlightsOK(flight, Interest, Running, Registered)'
      /\ JoinableOK(joinable, flight, Running)'
      /\ StruckOK(struck, flight, Running)'
      /\ ResultsOK' /\ PlacesOK' /\ TicketsOK' /\ HoldersOK' /\ SleepersOK'
  <2>1. I = [Interest EXCEPT ![r] = @ \cup {r}] /\ E = Running \cup {r} /\ r # None
    BY ReqAssumption DEF I, E
  <2>2. \A q \in Req \ {r} : res'[q] = res[q]
    BY <1>2
  <2>3. QED
    BY <1>2, <1>4, <1>7, <1>8, <2>1, <2>2, EnterStep
<1>10. TypeOK'
  BY <1>1, <1>2, <1>9 DEF TypeOK, input, Place
<1>11. AnswersOK'
  BY <1>1, <1>2, <1>9 DEF AnswersOK, TypeOK
<1>12. QED
  BY <1>9, <1>10, <1>11 DEF IInv

(***************************************************************************)
(* Steps of a request that is not on a flight, or superseded on it, and    *)
(* is off it afterwards: the flights are as consistent as before.          *)
(***************************************************************************)
LEMMA OffFlight ==
  ASSUME IInv, NEW r \in Req, ~OnFlight(r)',
         OnFlight(r) => pc[r] = "wait" /\ cancelled[r],
         \A q \in Req \ {r} : pc'[q] = pc[q] /\ fid'[q] = fid[q] /\ res'[q] = res[q],
         UNCHANGED <<input, cancelled, tflight, flights, struck>>
  PROVE  /\ FlightsOK(flight, Interest, Running, Registered)'
         /\ JoinableOK(joinable, flight, Running)'
         /\ StruckOK(struck, flight, Running)'
         /\ ResultsOK'
         /\ \A q \in Req : Executing(q)' <=> Executing(q)
<1>1. \A q \in Req : /\ Executing(q)' <=> Executing(q)
                     /\ q \in Registered' <=> q \in Registered
  BY DEF OnFlight, Executing, Registered
<1>2. Running' = Running /\ Registered' = Registered
  BY <1>1 DEF Running, Registered
<1>3. \A f \in Req : Interested(f)' = Interested(f)
  <2>1. ASSUME NEW f \in Req, NEW q \in Req
        PROVE  q \in Interested(f)' <=> q \in Interested(f)
    BY DEF Interested, OnFlight
  <2>2. QED
    BY <2>1 DEF Interested
<1>4. Interest' = Interest
  BY <1>3 DEF Interest
<1>5. flight' = flight /\ joinable' = joinable /\ struck' = struck /\ key' = key
  BY DEF flights, input
<1>6. ResultsOK'
  BY <1>5 DEF IInv, ResultsOK, OnFlight
<1>7. QED
  BY <1>1, <1>2, <1>4, <1>5, <1>6 DEF IInv, FlightsOK, FlightOK, JoinableOK, StruckOK

\* A request becomes the holder of its ticket key.
LEMMA TakeTicketStep ==
  ASSUME IInv, NEW r \in Req, TakeTicket(r)
  PROVE  IInv'
<1>1. TypeOK /\ PlacesOK /\ TicketsOK /\ HoldersOK /\ SleepersOK /\ AnswersOK
  BY DEF IInv
<1>2. /\ pc[r] = "new" /\ tkey[r] \in TKeys /\ keys[tkey[r]] \in Req \cup {None}
      /\ pc' = [pc EXCEPT ![r] = "ticketed"]
      /\ old' = [old EXCEPT ![r] = keys[tkey[r]]]
      /\ keys' = [keys EXCEPT ![tkey[r]] = r]
      /\ key' = key /\ tkey' = tkey /\ fid' = fid /\ res' = res /\ answer' = answer
      /\ cancelled' = cancelled /\ tflight' = tflight /\ joinable' = joinable
      /\ flight' = flight /\ lru' = lru /\ asleep' = asleep /\ struck' = struck
  BY <1>1 DEF TakeTicket, TypeOK, input, flights
<1>3. TypeOK'
  BY <1>1, <1>2 DEF TypeOK, Place
<1>4. ~OnFlight(r) /\ ~OnFlight(r)'
  BY <1>1, <1>2 DEF OnFlight, TypeOK
<1>5. /\ FlightsOK(flight, Interest, Running, Registered)'
      /\ JoinableOK(joinable, flight, Running)'
      /\ StruckOK(struck, flight, Running)' /\ ResultsOK'
      /\ \A q \in Req : Executing(q)' <=> Executing(q)
  BY <1>1, <1>2, <1>4, OffFlight DEF TypeOK, input, flights
<1>6. PlacesOK'
  BY <1>1, <1>2, ReqAssumption, KeyAssumption DEF PlacesOK, Executing, TypeOK
<1>7. TicketsOK'
  BY <1>1, <1>2, <1>4 DEF TicketsOK, OnFlight, TypeOK
<1>8. HoldersOK'
  <2>1. ~cancelled[r] /\ tkey[r] # None
    BY <1>1, <1>2, KeyAssumption DEF TicketsOK
  <2>2. \A u \in TKeys \ {tkey[r]} : keys'[u] = keys[u] /\ (keys[u] # None => keys[u] # r)
    BY <1>1, <1>2 DEF HoldersOK, HasTicket, TypeOK
  <2>3. ASSUME NEW u \in TKeys, keys'[u] # None
        PROVE  HasTicket(keys[u])' /\ ~cancelled'[keys'[u]] /\ tkey'[keys'[u]] = u
    <3>1. CASE u = tkey[r]
      <4>1. keys'[u] = r
        BY <3>1, <1>1, <1>2 DEF TypeOK
      <4>2. tkey'[r] # None /\ pc'[r] = "ticketed" /\ ~cancelled'[r] /\ tkey'[r] = u
        BY <3>1, <2>1, <1>1, <1>2 DEF TypeOK
      <4>3. QED
        BY <4>1, <4>2 DEF HasTicket
    <3>2. CASE u # tkey[r]
      <4>1. keys'[u] = keys[u] /\ keys[u] # r /\ keys[u] # None /\ keys[u] \in Req
        BY <3>2, <2>2, <2>3, <1>1 DEF TypeOK
      <4>2. HasTicket(keys[u]) /\ ~cancelled[keys[u]] /\ tkey[keys[u]] = u
        BY <4>1, <1>1 DEF HoldersOK
      <4>3. pc'[keys'[u]] = pc[keys[u]]
        BY <4>1, <1>1, <1>2 DEF TypeOK
      <4>4. QED
        BY <4>1, <4>2, <4>3, <1>2 DEF HasTicket
    <3>3. QED
      BY <3>1, <3>2
  <2>4. ASSUME NEW q \in Req, old'[q] # None
        PROVE  pc'[old'[q]] # "new" /\ old'[q] # q /\ \A u \in TKeys : keys'[u] # old'[q]
    <3>1. CASE q = r
      <4>1. old'[q] = keys[tkey[r]] /\ old'[q] \in Req
        BY <3>1, <2>4, <1>1, <1>2 DEF TypeOK
      <4>2. HasTicket(old'[q]) /\ tkey[old'[q]] = tkey[r]
        BY <4>1, <2>4, <1>1, <1>2 DEF HoldersOK
      <4>3. old'[q] # r /\ pc'[old'[q]] # "new"
        BY <4>1, <4>2, <1>1, <1>2 DEF HasTicket, TypeOK
      <4>4. \A u \in TKeys : keys'[u] # old'[q]
        BY <4>1, <4>2, <4>3, <2>2, <2>4, <1>1, <1>2 DEF HoldersOK, TypeOK
      <4>5. QED
        BY <3>1, <4>3, <4>4
    <3>2. CASE q # r
      <4>1. old'[q] = old[q] /\ old[q] # None /\ old[q] \in Req
        BY <3>2, <2>4, <1>1, <1>2 DEF TypeOK
      <4>2. pc[old[q]] # "new" /\ old[q] # q /\ \A u \in TKeys : keys[u] # old[q]
        BY <4>1, <1>1 DEF HoldersOK
      <4>3. old[q] # r /\ pc'[old[q]] # "new"
        BY <4>1, <4>2, <1>1, <1>2 DEF TypeOK
      <4>4. \A u \in TKeys : keys'[u] # old[q]
        BY <4>2, <4>3, <2>2, <1>1, <1>2 DEF TypeOK
      <4>5. QED
        BY <4>1, <4>2, <4>3, <4>4
    <3>3. QED
      BY <3>1, <3>2
  <2>5. QED
    BY <2>3, <2>4 DEF HoldersOK
<1>9. SleepersOK'
  BY <1>1, <1>2 DEF SleepersOK, Executing, PlacesOK, TypeOK
<1>10. AnswersOK'
  BY <1>1, <1>2 DEF AnswersOK
<1>11. QED
  BY <1>3, <1>5, <1>6, <1>7, <1>8, <1>9, <1>10 DEF IInv

\* A request superseded before it entered is answered 409.
LEMMA RefusedStep ==
  ASSUME IInv, NEW r \in Req, Refused(r)
  PROVE  IInv'
<1> DEFINE P == IF tkey[r] = None THEN "done" ELSE "answered"
<1>1. TypeOK /\ PlacesOK /\ TicketsOK /\ HoldersOK /\ SleepersOK /\ AnswersOK
  BY DEF IInv
<1>2. /\ pc[r] \in {"new", "ticketed"} /\ cancelled[r] /\ tkey[r] # None
      /\ pc' = [pc EXCEPT ![r] = P] /\ fid' = [fid EXCEPT ![r] = None]
      /\ answer' = [answer EXCEPT ![r] = "superseded"]
      /\ res' = [res EXCEPT ![r] = "none"]
      /\ key' = key /\ tkey' = tkey /\ old' = old /\ keys' = keys
      /\ cancelled' = cancelled /\ tflight' = tflight /\ joinable' = joinable
      /\ flight' = flight /\ lru' = lru /\ asleep' = asleep /\ struck' = struck
  BY <1>1 DEF Refused, Answer, Entering, TicketsOK, input, flights, tickets
<1>3. TypeOK'
  BY <1>1, <1>2 DEF TypeOK, Place, Outcome
<1>4. ~OnFlight(r) /\ ~OnFlight(r)'
  BY <1>1, <1>2 DEF OnFlight, TypeOK
<1>5. /\ FlightsOK(flight, Interest, Running, Registered)'
      /\ JoinableOK(joinable, flight, Running)'
      /\ StruckOK(struck, flight, Running)' /\ ResultsOK'
      /\ \A q \in Req : Executing(q)' <=> Executing(q)
  BY <1>1, <1>2, <1>4, OffFlight DEF TypeOK, input, flights
<1>6. PlacesOK'
  BY <1>1, <1>2, ReqAssumption DEF PlacesOK, Executing, TypeOK
<1>7. TicketsOK'
  BY <1>1, <1>2, <1>4 DEF TicketsOK, OnFlight, TypeOK
<1>8. HoldersOK'
  BY <1>1, <1>2 DEF HoldersOK, HasTicket, TypeOK
<1>9. SleepersOK'
  BY <1>1, <1>2 DEF SleepersOK, Executing, PlacesOK, TypeOK
<1>10. AnswersOK'
  BY <1>1, <1>2 DEF AnswersOK, TypeOK
<1>11. QED
  BY <1>3, <1>5, <1>6, <1>7, <1>8, <1>9, <1>10 DEF IInv

\* A request gives its ticket back.
LEMMA ReleaseStep ==
  ASSUME IInv, NEW r \in Req, Release(r)
  PROVE  IInv'
<1>1. TypeOK /\ PlacesOK /\ TicketsOK /\ HoldersOK /\ SleepersOK /\ AnswersOK
  BY DEF IInv
<1>2. /\ pc[r] = "answered" /\ pc' = [pc EXCEPT ![r] = "done"]
      /\ keys' = [t \in TKeys |-> IF t = tkey[r] /\ keys[t] = r THEN None ELSE keys[t]]
      /\ old' = [old EXCEPT ![r] = None]
      /\ key' = key /\ tkey' = tkey /\ fid' = fid /\ res' = res /\ answer' = answer
      /\ cancelled' = cancelled /\ tflight' = tflight /\ joinable' = joinable
      /\ flight' = flight /\ lru' = lru /\ asleep' = asleep /\ struck' = struck
  BY DEF Release, input, flights
<1>3. TypeOK'
  BY <1>1, <1>2 DEF TypeOK, Place
<1>4. ~OnFlight(r) /\ ~OnFlight(r)'
  BY <1>1, <1>2 DEF OnFlight, TypeOK
<1>5. /\ FlightsOK(flight, Interest, Running, Registered)'
      /\ JoinableOK(joinable, flight, Running)'
      /\ StruckOK(struck, flight, Running)' /\ ResultsOK'
      /\ \A q \in Req : Executing(q)' <=> Executing(q)
  BY <1>1, <1>2, <1>4, OffFlight DEF TypeOK, input, flights
<1>6. PlacesOK'
  BY <1>1, <1>2, ReqAssumption DEF PlacesOK, Executing, TypeOK
<1>7. TicketsOK'
  BY <1>1, <1>2, <1>4 DEF TicketsOK, OnFlight, TypeOK
<1>8. HoldersOK'
  <2>1. ASSUME NEW u \in TKeys, keys'[u] # None
        PROVE  /\ keys'[u] = keys[u] /\ keys[u] # r
               /\ HasTicket(keys[u])' /\ ~cancelled'[keys[u]] /\ tkey'[keys[u]] = u
    BY <2>1, <1>1, <1>2 DEF HoldersOK, HasTicket, TypeOK
  <2>2. ASSUME NEW q \in Req, old'[q] # None
        PROVE  old'[q] = old[q] /\ pc'[old[q]] # "new" /\ old[q] # q
               /\ \A u \in TKeys : keys'[u] # old[q]
    <3>1. old'[q] = old[q] /\ old[q] # None /\ old[q] \in Req
      BY <2>2, <1>1, <1>2 DEF TypeOK
    <3>2. pc[old[q]] # "new" /\ old[q] # q /\ \A u \in TKeys : keys[u] # old[q]
      BY <3>1, <1>1 DEF HoldersOK
    <3>3. QED
      BY <3>1, <3>2, <1>1, <1>2, ReqAssumption DEF TypeOK
  <2>3. QED
    BY <2>1, <2>2 DEF HoldersOK
<1>9. SleepersOK'
  BY <1>1, <1>2 DEF SleepersOK, Executing, PlacesOK, TypeOK
<1>10. AnswersOK'
  BY <1>1, <1>2 DEF AnswersOK
<1>11. QED
  BY <1>3, <1>5, <1>6, <1>7, <1>8, <1>9, <1>10 DEF IInv

(***************************************************************************)
(* A step of an executor before it completes its flight: only its place,   *)
(* its interrupter and its result change.                                  *)
(***************************************************************************)
LEMMA ExecutorStep ==
  ASSUME IInv, NEW r \in Req, Executing(r),
         NEW P \in {"query", "ended", "report", "complete"}, NEW b \in BOOLEAN,
         NEW v \in Outcome \cup {"none"},
         pc' = [pc EXCEPT ![r] = P], res' = [res EXCEPT ![r] = v],
         flight' = [flight EXCEPT ![r].interrupt = b], b <=> P \in {"query", "ended"},
         UNCHANGED executing,
         P \in {"ended", "report"} =>
           v \in {"ok", "error"} \/ (v = "interrupted" /\ r \in struck),
         P = "complete" => v \in {"ok", "error"} \/ (v = "superseded" /\ flight[r].abandoned)
  PROVE  IInv'
<1>1. /\ TypeOK /\ PlacesOK /\ TicketsOK /\ HoldersOK /\ SleepersOK /\ AnswersOK /\ ResultsOK
      /\ FlightsOK(flight, Interest, Running, Registered)
      /\ JoinableOK(joinable, flight, Running) /\ StruckOK(struck, flight, Running)
  BY DEF IInv
<1>2. /\ key' = key /\ tkey' = tkey /\ old' = old /\ fid' = fid /\ answer' = answer
      /\ keys' = keys /\ cancelled' = cancelled /\ tflight' = tflight
      /\ joinable' = joinable /\ lru' = lru /\ asleep' = asleep /\ struck' = struck
  BY DEF executing, input, tickets
<1>3. /\ pc'[r] = P /\ \A q \in Req \ {r} : pc'[q] = pc[q]
      /\ res'[r] = v /\ \A q \in Req \ {r} : res'[q] = res[q]
      /\ flight[r] \in Flight /\ flight'[r] = [flight[r] EXCEPT !.interrupt = b]
      /\ \A f \in Req \ {r} : flight'[f] = flight[f]
  BY <1>1 DEF TypeOK
<1>4. TypeOK'
  <2>1. [flight[r] EXCEPT !.interrupt = b] \in Flight
    BY <1>3 DEF Flight
  <2>2. flight' \in [Req -> Flight]
    BY <2>1, <1>1 DEF TypeOK
  <2>3. QED
    BY <2>2, <1>1, <1>2 DEF TypeOK, Place
<1>5. \A q \in Req : /\ Executing(q)' <=> Executing(q)
                     /\ OnFlight(q)' <=> OnFlight(q)
  BY <1>3 DEF Executing, OnFlight
<1>6. Running' = Running /\ Interest' = Interest
  BY <1>2, <1>5 DEF Running, Interest, Interested
<1>7. FlightsOK(flight, Interest, Running, Registered)'
  <2>1. /\ \A f \in Req \ {r} : f \in Registered' <=> f \in Registered
        /\ r \in Registered' <=> b
    BY <1>3 DEF Registered
  <2>2. r \in Running
    BY DEF Running
  <2>3. FlightOK(r, flight', Interest, Running, Registered')
    BY <1>1, <1>3, <2>1, <2>2 DEF FlightsOK, FlightOK, Flight
  <2>4. FlightsOK(flight', Interest, Running, Registered')
    <3>1. \A f \in Req \ {r} : /\ flight'[f] = flight[f] /\ Interest[f] = Interest[f]
                               /\ f \in Running <=> f \in Running
                               /\ f \in Registered' <=> f \in Registered
      BY <2>1, <1>3
    <3>2. FlightsOK(flight, Interest, Running, Registered)
      BY <1>1
    <3>3. QED
      BY ONLY <3>1, <3>2, <2>3, r \in Req, OneFlightChanges
  <2>5. QED
    BY <2>4, <1>6
<1>8. \A f \in Req : flight'[f].abandoned = flight[f].abandoned
  BY <1>3 DEF Flight
<1>9. JoinableOK(joinable, flight, Running)' /\ StruckOK(struck, flight, Running)'
  BY <1>1, <1>2, <1>6, <1>8 DEF JoinableOK, StruckOK, Running, TypeOK
<1>10. ResultsOK'
  BY <1>1, <1>2, <1>3, <1>8 DEF ResultsOK
<1>11. PlacesOK'
  <2>1. \A q \in Req : pc[q] \notin {"new", "ticketed"} => pc'[q] \notin {"new", "ticketed"}
    BY <1>3
  <2>2. ASSUME NEW q \in Req, pc'[q] = "wait"
        PROVE  fid'[q] \in Req /\ pc'[fid'[q]] \notin {"new", "ticketed"}
    BY <2>1, <2>2, <1>1, <1>2, <1>3 DEF PlacesOK
  <2>3. QED
    BY <2>2, <1>1, <1>2, <1>3, <1>5 DEF PlacesOK
<1>12. TicketsOK'
  BY <1>1, <1>2, <1>3, <1>5 DEF TicketsOK
<1>13. HoldersOK'
  BY <1>1, <1>2, <1>3, ReqAssumption DEF HoldersOK, HasTicket, TypeOK, Executing
<1>14. SleepersOK'
  <2>1. ASSUME NEW q \in asleep
        PROVE  pc'[q] = "wait" /\ Executing(fid[q])'
    BY <1>1, <1>2, <1>3, <1>5 DEF SleepersOK, PlacesOK, Executing, TypeOK
  <2>2. QED
    BY <2>1, <1>1, <1>2 DEF SleepersOK
<1>15. AnswersOK'
  BY <1>1, <1>2 DEF AnswersOK
<1>16. QED
  BY <1>4, <1>7, <1>9, <1>10, <1>11, <1>12, <1>13, <1>14, <1>15 DEF IInv

\* Every step of an executor before it completes is such a step.
LEMMA QueryStep ==
  ASSUME IInv, NEW r \in Req,
         GiveUp(r) \/ ExecFails(r) \/ Register(r) \/ QueryEnds(r) \/ Unregister(r) \/ Report(r)
  PROVE  IInv'
<1>1. /\ TypeOK /\ ResultsOK /\ StruckOK(struck, flight, Running)
      /\ FlightsOK(flight, Interest, Running, Registered)
  BY DEF IInv
<1>2. /\ Executing(r) /\ flight[r] \in Flight /\ flight[r].live
      /\ flight[r].interrupt <=> pc[r] \in {"query", "ended"}
      /\ res[r] \in Outcome \cup {"none"}
  <2>1. Executing(r)
    BY DEF GiveUp, ExecFails, Register, QueryEnds, Unregister, Report, Executing
  <2>2. QED
    BY <2>1, <1>1 DEF TypeOK, FlightsOK, FlightOK, Running, Registered
<1>3. ASSUME NEW b \in BOOLEAN, flight[r].interrupt = b
      PROVE  flight = [flight EXCEPT ![r].interrupt = b]
  BY <1>1, <1>3 DEF TypeOK, Flight
<1>4. CASE GiveUp(r)
  <2>1. /\ pc[r] = "exec" /\ flight[r].abandoned /\ UNCHANGED executing
        /\ pc' = [pc EXCEPT ![r] = "complete"] /\ res' = [res EXCEPT ![r] = "superseded"]
        /\ flight' = flight /\ flight[r].interrupt = FALSE
    BY <1>2, <1>4 DEF GiveUp, Abandoned, Flight
  <2>2. flight' = [flight EXCEPT ![r].interrupt = FALSE] /\ "superseded" \in Outcome
    BY <2>1, <1>3 DEF Outcome
  <2>3. QED
    BY <2>1, <2>2, <1>2, ExecutorStep
<1>5. CASE ExecFails(r)
  <2>1. /\ pc[r] = "exec" /\ UNCHANGED executing
        /\ pc' = [pc EXCEPT ![r] = "complete"] /\ res' = [res EXCEPT ![r] = "error"]
        /\ flight' = flight /\ flight[r].interrupt = FALSE
    BY <1>2, <1>5 DEF ExecFails, Flight
  <2>2. flight' = [flight EXCEPT ![r].interrupt = FALSE] /\ "error" \in Outcome
    BY <2>1, <1>3 DEF Outcome
  <2>3. QED
    BY <2>1, <2>2, <1>2, ExecutorStep
<1>6. CASE Register(r)
  <2>1. /\ pc' = [pc EXCEPT ![r] = "query"] /\ UNCHANGED executing
        /\ flight' = [flight EXCEPT ![r].interrupt = TRUE]
        /\ res' = [res EXCEPT ![r] = res[r]]
    BY <1>1, <1>6 DEF Register, TypeOK
  <2>2. QED
    BY <2>1, <1>2, ExecutorStep
<1>7. CASE QueryEnds(r)
  <2>1. PICK v \in {"ok", "error"} \cup IF r \in struck THEN {"interrupted"} ELSE {} :
          res' = [res EXCEPT ![r] = v]
    BY <1>7 DEF QueryEnds
  <2>2. /\ pc[r] = "query" /\ pc' = [pc EXCEPT ![r] = "ended"] /\ UNCHANGED executing
        /\ flight' = flight /\ flight[r].interrupt = TRUE
    BY <1>2, <1>7 DEF QueryEnds, Flight
  <2>3. /\ flight' = [flight EXCEPT ![r].interrupt = TRUE] /\ v \in Outcome
        /\ v \in {"ok", "error"} \/ (v = "interrupted" /\ r \in struck)
    BY <2>1, <2>2, <1>3 DEF Outcome
  <2>4. QED
    BY <2>1, <2>2, <2>3, <1>2, ExecutorStep
<1>8. CASE Unregister(r)
  <2>1. /\ pc[r] = "ended" /\ pc' = [pc EXCEPT ![r] = "report"] /\ UNCHANGED executing
        /\ flight' = [flight EXCEPT ![r].interrupt = FALSE]
        /\ res' = [res EXCEPT ![r] = res[r]]
    BY <1>1, <1>8 DEF Unregister, TypeOK
  <2>2. res[r] \in {"ok", "error"} \/ (res[r] = "interrupted" /\ r \in struck)
    BY <2>1, <1>1 DEF ResultsOK
  <2>3. QED
    BY <2>1, <2>2, <1>2, ExecutorStep
<1>9. CASE Report(r)
  <2> DEFINE v == IF res[r] # "ok" /\ Abandoned(r) THEN "superseded" ELSE res[r]
  <2>1. /\ pc[r] = "report" /\ pc' = [pc EXCEPT ![r] = "complete"] /\ UNCHANGED executing
        /\ res' = [res EXCEPT ![r] = v]
        /\ flight' = flight /\ flight[r].interrupt = FALSE
    BY <1>2, <1>9 DEF Report, Flight
  <2>2. flight' = [flight EXCEPT ![r].interrupt = FALSE] /\ v \in Outcome \cup {"none"}
    BY <2>1, <1>2, <1>3 DEF Outcome
  <2>3. r \in struck => flight[r].abandoned
    BY <1>1 DEF StruckOK
  <2>4. v \in {"ok", "error"} \/ (v = "superseded" /\ flight[r].abandoned)
    BY <2>1, <2>3, <1>1, <1>2 DEF ResultsOK, Abandoned
  <2> HIDE DEF v
  <2>5. QED
    BY <2>1, <2>2, <2>4, <1>2, ExecutorStep
<1>10. QED
  BY <1>4, <1>5, <1>6, <1>7, <1>8, <1>9

(***************************************************************************)
(* The executor completes: its flight stops running, keeps the outcome for *)
(* the others that wait for it, or goes when there are none.               *)
(***************************************************************************)
LEMMA CompleteStep ==
  ASSUME IInv, NEW r \in Req, Complete(r)
  PROVE  IInv'
<1> DEFINE P == IF tkey[r] = None THEN "done" ELSE "answered"
           rest == Interested(r) \ {r}
<1>1. /\ TypeOK /\ PlacesOK /\ TicketsOK /\ HoldersOK /\ SleepersOK /\ AnswersOK /\ ResultsOK
      /\ FlightsOK(flight, Interest, Running, Registered)
      /\ JoinableOK(joinable, flight, Running) /\ StruckOK(struck, flight, Running)
  BY DEF IInv
<1>2. /\ pc[r] = "complete" /\ pc' = [pc EXCEPT ![r] = P]
      /\ fid' = [fid EXCEPT ![r] = None] /\ res' = [res EXCEPT ![r] = "none"]
      /\ key' = key /\ tkey' = tkey /\ old' = old /\ keys' = keys /\ cancelled' = cancelled
      /\ joinable' = [k \in Keys |->
                        IF k = key[r] /\ joinable[k] = r THEN None ELSE joinable[k]]
      /\ asleep' = {} /\ struck' = struck \ {r}
      /\ lru' = IF res[r] = "ok" THEN Keep(lru, key[r], SizeOf[key[r]], Cap) ELSE lru
  BY DEF Complete, NotJoinable, Answer, input
<1>3. /\ r \in Running /\ fid[r] = r /\ flight[r] \in Flight /\ flight[r].live
      /\ flight[r].outcome = "none" /\ flight[r].waiters = Cardinality(Interested(r))
      /\ flight[r].abandoned <=> Interested(r) = {}
      /\ res[r] \in {"ok", "error"} \/ (res[r] = "superseded" /\ flight[r].abandoned)
  <2>1. Executing(r)
    BY <1>2 DEF Executing
  <2>2. r \in Running /\ Interest[r] = Interested(r)
    BY <2>1 DEF Running, Interest
  <2>3. QED
    BY <2>1, <2>2, <1>1, <1>2 DEF PlacesOK, FlightsOK, FlightOK, TypeOK, ResultsOK
<1>4. r \in Interested(r) <=> ~cancelled[r]
  BY <1>2, <1>3 DEF Interested, OnFlight
<1>5. /\ Cardinality(Interested(r)) \in Nat /\ Cardinality(rest) \in Nat
      /\ Cardinality(Interested(r)) = 0 <=> Interested(r) = {}
      /\ Cardinality(rest) = 0 <=> rest = {}
      /\ ~cancelled[r] => Cardinality(rest) = Cardinality(Interested(r)) - 1
      /\ cancelled[r] => rest = Interested(r)
  <2>1. Interested(r) \in SUBSET Req /\ rest \in SUBSET Req
    BY DEF Interested
  <2>2. QED
    BY <2>1, <1>4, CountRequests
<1>6. /\ pc'[r] = P /\ \A q \in Req \ {r} : pc'[q] = pc[q]
      /\ fid'[r] = None /\ \A q \in Req \ {r} : fid'[q] = fid[q]
      /\ res'[r] = "none" /\ \A q \in Req \ {r} : res'[q] = res[q]
  BY <1>1, <1>2 DEF TypeOK
<1>7. /\ Running' = Running \ {r} /\ Registered' = Registered /\ r \notin Registered
  BY <1>2, <1>6 DEF Running, Registered, Executing
<1>8. /\ Interest' = [f \in Req |-> IF f = r THEN rest ELSE Interested(f)]
  <2>1. ASSUME NEW f \in Req, NEW q \in Req
        PROVE  q \in Interested(f)' <=> q \in Interested(f) /\ ~(q = r)
    BY <1>2, <1>6 DEF Interested, OnFlight
  <2>2. \A f \in Req : r \in Interested(f) => f = r
    BY <1>3 DEF Interested
  <2>3. \A f \in Req : Interested(f)' = IF f = r THEN rest ELSE Interested(f)
    BY <2>1, <2>2 DEF Interested
  <2>4. QED
    BY <2>3 DEF Interest
<1> HIDE DEF rest
<1>9. /\ flight' \in [Req -> Flight] /\ \A f \in Req \ {r} : flight'[f] = flight[f]
      /\ rest = {} => flight'[r] = NoFlight
      /\ rest # {} => /\ flight'[r].live /\ ~flight'[r].abandoned /\ ~flight'[r].interrupt
                      /\ flight'[r].outcome = res[r] /\ res[r] \in {"ok", "error"}
                      /\ flight'[r].waiters = Cardinality(rest)
  <2> DEFINE fin == [flight[r] EXCEPT !.interrupt = FALSE, !.outcome = res[r]]
             done == [flight EXCEPT ![r].interrupt = FALSE, ![r].outcome = res[r]]
  <2>1. /\ fin \in Flight /\ fin.outcome = res[r] /\ ~fin.interrupt
        /\ fin.live /\ fin.waiters = flight[r].waiters /\ fin.abandoned = flight[r].abandoned
    BY <1>3 DEF Flight, Outcome
  <2>2. done \in [Req -> Flight] /\ done[r] = fin /\ \A f \in Req \ {r} : done[f] = flight[f]
    BY <2>1, <1>1 DEF TypeOK
  <2>3. NoFlight \in Flight
    BY DEF NoFlight, Flight
  <2>4. CASE cancelled[r]
    <3>1. flight' = IF flight[r].waiters = 0 THEN [flight EXCEPT ![r] = NoFlight] ELSE done
      BY <2>4 DEF Complete, NotJoinable
    <3>2. CASE rest = {}
      <4>1. flight' = [flight EXCEPT ![r] = NoFlight]
        BY <2>4, <3>1, <3>2, <1>3, <1>5
      <4>2. QED
        BY <4>1, <3>2, <2>3, <1>1 DEF TypeOK
    <3>3. CASE rest # {}
      <4>1. flight' = done /\ ~flight[r].abandoned
        BY <2>4, <3>1, <3>3, <1>3, <1>5
      <4> HIDE DEF done, fin
      <4>2. QED
        BY <4>1, <3>3, <2>1, <2>2, <2>4, <1>3, <1>5
    <3>4. QED
      BY <3>2, <3>3
  <2>5. CASE ~cancelled[r]
    <3>1. flight' = Leave(done, r) /\ Interested(r) # {}
      BY <2>5, <1>4 DEF Complete, NotJoinable
    <3>2. ~flight[r].abandoned
      BY <3>1, <1>3
    <3>3. flight' = [done EXCEPT ![r] = IF fin.waiters = 1 THEN NoFlight
                                        ELSE [fin EXCEPT !.waiters = @ - 1]]
      BY <3>1, <2>2 DEF Leave
    <3> HIDE DEF done, fin
    <3>4. CASE rest = {}
      <4>1. fin.waiters = 1
        BY <3>4, <2>1, <2>5, <1>3, <1>5
      <4>2. flight' = [done EXCEPT ![r] = NoFlight]
        BY <4>1, <3>3
      <4>3. QED
        BY <4>2, <3>4, <2>2, <2>3
    <3>5. CASE rest # {}
      <4>1. fin.waiters # 1 /\ fin.waiters \in Nat /\ fin.waiters - 1 = Cardinality(rest)
        BY <3>5, <2>1, <2>5, <1>3, <1>5
      <4>2. flight' = [done EXCEPT ![r] = [fin EXCEPT !.waiters = @ - 1]]
        BY <4>1, <3>3
      <4>3. /\ [fin EXCEPT !.waiters = @ - 1] \in Flight
            /\ [fin EXCEPT !.waiters = @ - 1].waiters = Cardinality(rest)
            /\ [fin EXCEPT !.waiters = @ - 1].live /\ ~[fin EXCEPT !.waiters = @ - 1].abandoned
            /\ ~[fin EXCEPT !.waiters = @ - 1].interrupt
            /\ [fin EXCEPT !.waiters = @ - 1].outcome = res[r]
        BY <4>1, <2>1, <3>2, <1>5 DEF Flight
      <4>4. QED
        BY <4>2, <4>3, <3>2, <3>5, <2>2, <1>3
    <3>6. QED
      BY <3>4, <3>5
  <2>6. QED
    BY <2>4, <2>5
<1>10. FlightsOK(flight, Interest, Running, Registered)'
  <2>1. FlightOK(r, flight', Interest', Running', Registered')
    <3>1. Interest'[r] = rest /\ r \notin Running' /\ r \notin Registered'
      BY <1>7, <1>8
    <3>2. CASE rest = {}
      BY <3>1, <3>2, <1>5, <1>9 DEF FlightOK, NoFlight
    <3>3. CASE rest # {}
      BY <3>1, <3>3, <1>5, <1>9 DEF FlightOK
    <3>4. QED
      BY <3>2, <3>3
  <2>2. \A f \in Req \ {r} : /\ flight'[f] = flight[f] /\ Interest'[f] = Interest[f]
                             /\ f \in Running' <=> f \in Running
                             /\ f \in Registered' <=> f \in Registered
    BY <1>7, <1>8, <1>9 DEF Interest
  <2>3. FlightsOK(flight, Interest, Running, Registered)
    BY <1>1
  <2>4. FlightsOK(flight', Interest', Running', Registered')
    BY ONLY <2>1, <2>2, <2>3, r \in Req, OneFlightChanges
  <2>5. QED
    BY <2>4
<1>11. JoinableOK(joinable, flight, Running)' /\ StruckOK(struck, flight, Running)'
  <2>1. \A g \in Running' : g \in Running /\ g # r /\ g \in Req /\ flight'[g] = flight[g]
    BY <1>7, <1>9 DEF Running
  <2>2. \A k \in Keys : joinable'[k] # None => joinable'[k] = joinable[k] /\ joinable[k] # r
    BY <1>1, <1>2 DEF JoinableOK
  <2>3. \A g \in Running' : key[g] \in Keys /\ (joinable[key[g]] = g => joinable'[key[g]] = g)
    BY <2>1, <1>1, <1>2 DEF TypeOK
  <2>4. \A k \in Keys : joinable'[k] # None =>
          /\ joinable'[k] \in Running' /\ key'[joinable'[k]] = k
          /\ ~flight'[joinable'[k]].abandoned
    BY <2>1, <2>2, <1>1, <1>2, <1>7 DEF JoinableOK
  <2>5. \A g \in Running' : ~flight'[g].abandoned => joinable'[key'[g]] = g
    BY <2>1, <2>3, <1>1, <1>2 DEF JoinableOK
  <2>6. StruckOK(struck', flight', Running')
    BY <2>1, <1>1, <1>2, <1>7 DEF StruckOK
  <2>7. QED
    BY <2>4, <2>5, <2>6 DEF JoinableOK
<1>12. TypeOK'
  <2>1. lru' \in Seq([key: Keys, size: Nat])
    <3>1. key[r] \in Keys /\ SizeOf[key[r]] \in Nat
      BY <1>1, KeyAssumption DEF TypeOK
    <3>2. QED
      BY <3>1, <1>1, <1>2, KeepType DEF TypeOK
  <2>2. joinable' \in [Keys -> Req \cup {None}]
    BY <1>1, <1>2 DEF TypeOK
  <2>3. tflight' \in [Req -> Req \cup {None}]
    BY <1>1 DEF Complete, NotJoinable, TypeOK
  <2>4. answer' \in [Req -> Outcome \cup {"none"}]
    BY <1>1 DEF Complete, NotJoinable, Answer, TypeOK, Outcome
  <2>5. QED
    BY <2>1, <2>2, <2>3, <2>4, <1>1, <1>2, <1>9 DEF TypeOK, Place
<1>13. PlacesOK'
  BY <1>1, <1>2, <1>6, ReqAssumption DEF PlacesOK, Executing, TypeOK
<1>14. TicketsOK'
  <2>1. tflight'[r] = None /\ \A q \in Req \ {r} : tflight'[q] = tflight[q]
    BY <1>1, <1>2 DEF Complete, NotJoinable, TicketsOK, TypeOK
  <2>2. ~OnFlight(r)' /\ \A q \in Req \ {r} : OnFlight(q)' <=> OnFlight(q)
    BY <1>6 DEF OnFlight
  <2>3. QED
    BY <2>1, <2>2, <1>1, <1>2, <1>6 DEF TicketsOK
<1>15. HoldersOK'
  BY <1>1, <1>2, <1>6, ReqAssumption DEF HoldersOK, HasTicket, TypeOK
<1>16. SleepersOK' /\ ResultsOK'
  <2>1. SleepersOK'
    BY <1>2 DEF SleepersOK
  <2>2. \A q \in Req \ {r} : flight'[q] = flight[q] /\ (q \in struck => q \in struck')
    BY <1>2, <1>9
  <2>3. QED
    BY <2>1, <2>2, <1>1, <1>6 DEF ResultsOK
<1>17. AnswersOK'
  <2>1. ~cancelled[r] => res[r] \in {"ok", "error"}
    BY <1>3, <1>4
  <2>2. QED
    BY <2>1, <1>1, <1>2 DEF Complete, NotJoinable, Answer, AnswersOK, TypeOK
<1>18. QED
  BY <1>10, <1>11, <1>12, <1>13, <1>14, <1>15, <1>16, <1>17 DEF IInv

\* A superseded waiter wakes and is answered 409: its flight no longer counts it.
LEMMA WakeCancelledStep ==
  ASSUME IInv, NEW r \in Req, WakeCancelled(r)
  PROVE  IInv'
<1> DEFINE P == IF tkey[r] = None THEN "done" ELSE "answered"
<1>1. TypeOK /\ PlacesOK /\ TicketsOK /\ HoldersOK /\ SleepersOK /\ AnswersOK
  BY DEF IInv
<1>2. /\ pc[r] = "wait" /\ cancelled[r] /\ tkey[r] # None /\ r \notin asleep
      /\ pc' = [pc EXCEPT ![r] = P] /\ fid' = [fid EXCEPT ![r] = None]
      /\ answer' = [answer EXCEPT ![r] = "superseded"]
      /\ res' = [res EXCEPT ![r] = "none"]
      /\ key' = key /\ tkey' = tkey /\ old' = old /\ keys' = keys
      /\ cancelled' = cancelled /\ tflight' = tflight /\ joinable' = joinable
      /\ flight' = flight /\ lru' = lru /\ asleep' = asleep /\ struck' = struck
  BY <1>1 DEF WakeCancelled, Awake, Answer, TicketsOK, input, flights, tickets
<1>3. TypeOK'
  BY <1>1, <1>2 DEF TypeOK, Place, Outcome
<1>4. ~OnFlight(r)' /\ pc'[r] = P /\ \A q \in Req \ {r} : pc'[q] = pc[q] /\ fid'[q] = fid[q]
  BY <1>1, <1>2 DEF OnFlight, TypeOK
<1>5. /\ FlightsOK(flight, Interest, Running, Registered)'
      /\ JoinableOK(joinable, flight, Running)'
      /\ StruckOK(struck, flight, Running)' /\ ResultsOK'
      /\ \A q \in Req : Executing(q)' <=> Executing(q)
  BY <1>1, <1>2, <1>4, OffFlight DEF TypeOK, input, flights
<1>6. PlacesOK'
  <2>1. ~Executing(r) /\ P \notin {"new", "ticketed"}
    BY <1>2 DEF Executing
  <2>2. QED
    BY <2>1, <1>1, <1>2, <1>4, <1>5, ReqAssumption DEF PlacesOK
<1>7. TicketsOK'
  BY <1>1, <1>2, <1>4 DEF TicketsOK, OnFlight
<1>8. HoldersOK'
  BY <1>1, <1>2 DEF HoldersOK, HasTicket, TypeOK
<1>9. SleepersOK'
  BY <1>1, <1>2, <1>4, <1>5 DEF SleepersOK, PlacesOK, TypeOK
<1>10. AnswersOK'
  BY <1>1, <1>2 DEF AnswersOK, TypeOK
<1>11. QED
  BY <1>3, <1>5, <1>6, <1>7, <1>8, <1>9, <1>10 DEF IInv

\* A waiter wakes and finds the outcome; the last one takes the flight with it.
LEMMA WakeFinishedStep ==
  ASSUME IInv, NEW r \in Req, WakeFinished(r)
  PROVE  IInv'
<1> DEFINE P == IF tkey[r] = None THEN "done" ELSE "answered"
           f == fid[r]
           rest == Interested(f) \ {r}
<1>1. /\ TypeOK /\ PlacesOK /\ TicketsOK /\ HoldersOK /\ SleepersOK /\ AnswersOK /\ ResultsOK
      /\ FlightsOK(flight, Interest, Running, Registered)
      /\ JoinableOK(joinable, flight, Running) /\ StruckOK(struck, flight, Running)
  BY DEF IInv
<1>2. /\ pc[r] = "wait" /\ ~cancelled[r] /\ r \notin asleep /\ flight[f].outcome # "none"
      /\ pc' = [pc EXCEPT ![r] = P] /\ fid' = [fid EXCEPT ![r] = None]
      /\ answer' = [answer EXCEPT ![r] = flight[f].outcome]
      /\ res' = [res EXCEPT ![r] = "none"]
      /\ flight' = Leave(flight, f) /\ tflight' = [tflight EXCEPT ![r] = None]
      /\ key' = key /\ tkey' = tkey /\ old' = old /\ keys' = keys
      /\ cancelled' = cancelled /\ joinable' = joinable
      /\ lru' = lru /\ asleep' = asleep /\ struck' = struck
  BY DEF WakeFinished, Awake, Answer, input
<1> HIDE DEF f
<1>3. /\ f \in Req /\ f = fid[r] /\ r \in Interested(f) /\ flight[f] \in Flight
  BY <1>1, <1>2 DEF PlacesOK, Interested, OnFlight, TypeOK, f
<1>4. /\ f \notin Running /\ flight[f].live /\ ~flight[f].abandoned
      /\ flight[f].outcome \in {"ok", "error"} /\ ~flight[f].interrupt
      /\ flight[f].waiters = Cardinality(Interested(f))
  <2>1. FlightOK(f, flight, Interest, Running, Registered) /\ Interest[f] = Interested(f)
    BY <1>1, <1>3 DEF FlightsOK, Interest
  <2>2. f \in Registered => f \in Running
    BY DEF Registered, Running, Executing
  <2>3. QED
    BY <2>1, <2>2, <1>2, <1>3 DEF FlightOK, Flight
<1>5. /\ Cardinality(rest) \in Nat /\ Cardinality(Interested(f)) \in Nat
      /\ Cardinality(rest) = Cardinality(Interested(f)) - 1
      /\ Cardinality(rest) = 0 <=> rest = {}
  <2>1. Interested(f) \in SUBSET Req /\ rest \in SUBSET Req
    BY DEF Interested
  <2>2. QED
    BY <2>1, <1>3, CountRequests
<1>6. /\ pc'[r] = P /\ \A q \in Req \ {r} : pc'[q] = pc[q]
      /\ fid'[r] = None /\ \A q \in Req \ {r} : fid'[q] = fid[q]
      /\ res'[r] = "none" /\ \A q \in Req \ {r} : res'[q] = res[q]
      /\ tflight'[r] = None /\ \A q \in Req \ {r} : tflight'[q] = tflight[q]
  BY <1>1, <1>2 DEF TypeOK
<1>7. /\ Running' = Running /\ Registered' = Registered /\ r \notin Running
      /\ \A q \in Req : Executing(q)' <=> Executing(q)
  BY <1>2, <1>6 DEF Running, Registered, Executing
<1>8. Interest' = [g \in Req |-> IF g = f THEN rest ELSE Interested(g)]
  <2>1. ASSUME NEW g \in Req, NEW q \in Req
        PROVE  q \in Interested(g)' <=> q \in Interested(g) /\ ~(q = r)
    BY <1>2, <1>6 DEF Interested, OnFlight
  <2>2. \A g \in Req : r \in Interested(g) => g = f
    BY <1>3 DEF Interested
  <2>3. \A g \in Req : Interested(g)' = IF g = f THEN rest ELSE Interested(g)
    BY <2>1, <2>2 DEF Interested
  <2>4. QED
    BY <2>3 DEF Interest
<1> HIDE DEF rest
<1>9. /\ flight' \in [Req -> Flight] /\ \A g \in Req \ {f} : flight'[g] = flight[g]
      /\ rest = {} => flight'[f] = NoFlight
      /\ rest # {} => flight'[f] = [flight[f] EXCEPT !.waiters = @ - 1]
  <2>1. NoFlight \in Flight
    BY DEF NoFlight, Flight
  <2>2. CASE rest = {}
    <3>1. flight[f].waiters = 1
      BY <2>2, <1>4, <1>5
    <3>2. flight' = [flight EXCEPT ![f] = NoFlight]
      BY <3>1, <1>2 DEF Leave
    <3>3. QED
      BY <3>2, <2>1, <2>2, <1>1, <1>3 DEF TypeOK
  <2>3. CASE rest # {}
    <3>1. flight[f].waiters # 1
      BY <2>3, <1>4, <1>5
    <3>2. [flight[f] EXCEPT !.waiters = @ - 1] \in Flight
      BY <2>3, <1>3, <1>4, <1>5 DEF Flight
    <3>3. flight' = [flight EXCEPT ![f] = [flight[f] EXCEPT !.waiters = @ - 1]]
      BY <3>1, <1>2 DEF Leave
    <3>4. QED
      BY <3>2, <3>3, <2>3, <1>1, <1>3 DEF TypeOK
  <2>4. QED
    BY <2>2, <2>3
<1>10. FlightsOK(flight, Interest, Running, Registered)'
  <2>1. FlightOK(f, flight', Interest', Running', Registered')
    <3>1. Interest'[f] = rest /\ f \notin Running' /\ f \notin Registered'
      BY <1>3, <1>4, <1>7, <1>8 DEF Registered, Running, Executing
    <3>2. CASE rest = {}
      BY <3>1, <3>2, <1>5, <1>9 DEF FlightOK, NoFlight
    <3>3. CASE rest # {}
      BY <3>1, <3>3, <1>3, <1>4, <1>5, <1>9 DEF FlightOK, Flight
    <3>4. QED
      BY <3>2, <3>3
  <2>2. \A g \in Req \ {f} : /\ flight'[g] = flight[g] /\ Interest'[g] = Interest[g]
                             /\ g \in Running' <=> g \in Running
                             /\ g \in Registered' <=> g \in Registered
    BY <1>7, <1>8, <1>9 DEF Interest
  <2>3. FlightsOK(flight, Interest, Running, Registered)
    BY <1>1
  <2>4. FlightsOK(flight', Interest', Running', Registered')
    BY ONLY <2>1, <2>2, <2>3, <1>3, OneFlightChanges
  <2>5. QED
    BY <2>4
<1>11. JoinableOK(joinable, flight, Running)' /\ StruckOK(struck, flight, Running)'
  <2>1. \A g \in Running : g \in Req /\ g # f /\ flight'[g] = flight[g]
    BY <1>4, <1>9 DEF Running
  <2>2. QED
    BY <2>1, <1>1, <1>2, <1>7 DEF JoinableOK, StruckOK
<1>12. TypeOK'
  BY <1>1, <1>2, <1>4, <1>9 DEF TypeOK, Place, Outcome
<1>13. PlacesOK'
  <2>1. ~Executing(r) /\ P \notin {"new", "ticketed"}
    BY <1>2 DEF Executing
  <2>2. QED
    BY <2>1, <1>1, <1>2, <1>6, <1>7, ReqAssumption DEF PlacesOK
<1>14. TicketsOK'
  <2>1. ~OnFlight(r)' /\ \A q \in Req \ {r} : OnFlight(q)' <=> OnFlight(q)
    BY <1>6 DEF OnFlight
  <2>2. QED
    BY <2>1, <1>1, <1>2, <1>6 DEF TicketsOK
<1>15. HoldersOK'
  BY <1>1, <1>2, <1>6, ReqAssumption DEF HoldersOK, HasTicket, TypeOK
<1>16. SleepersOK'
  BY <1>1, <1>2, <1>6, <1>7 DEF SleepersOK, PlacesOK, TypeOK
<1>17. ResultsOK'
  <2>1. ASSUME NEW q \in Req, pc'[q] = "complete"
        PROVE  q # r /\ flight'[q] = flight[q]
    BY <2>1, <1>4, <1>6, <1>9 DEF Running, Executing
  <2>2. QED
    BY <2>1, <1>1, <1>2, <1>6 DEF ResultsOK
<1>18. AnswersOK'
  BY <1>1, <1>2, <1>4 DEF AnswersOK, TypeOK
<1>19. QED
  BY <1>10, <1>11, <1>12, <1>13, <1>14, <1>15, <1>16, <1>17, <1>18 DEF IInv

\* A waiter that finds nothing sleeps again: its flight still runs.
LEMMA SleepAgainStep ==
  ASSUME IInv, NEW r \in Req, SleepAgain(r)
  PROVE  IInv'
<1>1. /\ pc[r] = "wait" /\ ~cancelled[r] /\ flight[fid[r]].outcome = "none"
      /\ asleep' = asleep \cup {r}
      /\ UNCHANGED <<key, tkey, pc, old, fid, res, answer, keys, cancelled, tflight,
                     joinable, flight, lru, struck>>
  BY DEF SleepAgain, Awake, input, tickets, flights
<1>2. fid[r] \in Req /\ r \in Interested(fid[r])
  BY <1>1 DEF IInv, PlacesOK, Interested, OnFlight
<1>3. Executing(fid[r])
  <2>1. FlightOK(fid[r], flight, Interest, Running, Registered)
    BY <1>2 DEF IInv, FlightsOK
  <2>2. QED
    BY <2>1, <1>1, <1>2 DEF FlightOK, Interest, Running
<1>4. SleepersOK'
  BY <1>1, <1>3 DEF IInv, SleepersOK, Executing
<1>5. Running' = Running /\ Registered' = Registered /\ Interest' = Interest
  BY <1>1 DEF Running, Registered, Interest, Interested, Executing, OnFlight
<1>6. TypeOK'
  BY <1>1 DEF IInv, TypeOK
<1>7. /\ FlightsOK(flight, Interest, Running, Registered)'
      /\ JoinableOK(joinable, flight, Running)' /\ StruckOK(struck, flight, Running)'
  BY <1>1, <1>5 DEF IInv, FlightsOK, FlightOK, JoinableOK, StruckOK
<1>8. ResultsOK' /\ PlacesOK' /\ TicketsOK' /\ HoldersOK' /\ AnswersOK'
  BY <1>1 DEF IInv, ResultsOK, PlacesOK, TicketsOK, HoldersOK, AnswersOK, Executing,
              OnFlight, HasTicket
<1>9. QED
  BY <1>4, <1>6, <1>7, <1>8 DEF IInv

-----------------------------------------------------------------------------
\* Before any request has come nothing is taken, started or kept.
LEMMA InitIInv == Init => IInv
<1> SUFFICES ASSUME Init PROVE IInv
  OBVIOUS
<1>1. \A r \in Req : ~OnFlight(r) /\ ~Executing(r) /\ pc[r] = "new"
  BY DEF Init, OnFlight, Executing
<1>2. Running = {} /\ Registered = {} /\ \A f \in Req : Interest[f] = {}
  BY <1>1 DEF Init, Running, Registered, Interest, Interested
<1>3. TypeOK
  <2>1. NoFlight \in Flight
    BY DEF NoFlight, Flight
  <2>2. << >> \in Seq([key: Keys, size: Nat])
    OBVIOUS
  <2>3. QED
    BY <2>1, <2>2 DEF Init, TypeOK, Place
<1>4. FlightsOK(flight, Interest, Running, Registered)
  <2>1. Cardinality({}) = 0
    BY FS_EmptySet
  <2>2. QED
    BY <1>2, <2>1 DEF Init, FlightsOK, FlightOK, NoFlight
<1>5. JoinableOK(joinable, flight, Running) /\ StruckOK(struck, flight, Running)
  BY <1>2 DEF Init, JoinableOK, StruckOK
<1>6. PlacesOK /\ TicketsOK /\ ResultsOK /\ HoldersOK /\ SleepersOK /\ AnswersOK
  BY <1>1, ReqAssumption DEF Init, PlacesOK, TicketsOK, ResultsOK, HoldersOK, SleepersOK,
                             AnswersOK
<1>7. QED
  BY <1>3, <1>4, <1>5, <1>6 DEF IInv

\* Every step of the server keeps the invariant.
LEMMA NextIInv == IInv /\ [Next]_vars => IInv'
<1> SUFFICES ASSUME IInv, [Next]_vars PROVE IInv'
  OBVIOUS
<1>1. ASSUME NEW r \in Req, TakeTicket(r) PROVE IInv'
  BY <1>1, TakeTicketStep
<1>2. ASSUME NEW r \in Req, Enter(r) PROVE IInv'
  BY <1>2, RefusedStep, HitStep, JoinStep, StartStep DEF Enter
<1>3. ASSUME NEW r \in Req, BeginQuery(r) \/ QueryEnds(r) PROVE IInv'
  BY <1>3, QueryStep DEF BeginQuery
<1>4. ASSUME NEW r \in Req, EndQuery(r) PROVE IInv'
  BY <1>4, QueryStep, CompleteStep DEF EndQuery
<1>5. ASSUME NEW r \in Req, Wake(r) PROVE IInv'
  BY <1>5, WakeCancelledStep, WakeFinishedStep, SleepAgainStep DEF Wake
<1>6. ASSUME NEW r \in Req, Release(r) PROVE IInv'
  BY <1>6, ReleaseStep
<1>7. CASE UNCHANGED vars
  <2>1. UNCHANGED <<key, tkey, pc, old, fid, res, answer, keys, cancelled, tflight,
                    joinable, flight, lru, asleep, struck>>
    BY <1>7 DEF vars, input, tickets, flights
  <2>2. Running' = Running /\ Registered' = Registered /\ Interest' = Interest
    BY <2>1 DEF Running, Registered, Interest, Interested, Executing, OnFlight
  <2>3. /\ TypeOK' /\ FlightsOK(flight, Interest, Running, Registered)'
        /\ JoinableOK(joinable, flight, Running)' /\ StruckOK(struck, flight, Running)'
    BY <2>1, <2>2 DEF IInv, TypeOK, FlightsOK, FlightOK, JoinableOK, StruckOK
  <2>4. /\ ResultsOK' /\ PlacesOK' /\ TicketsOK' /\ HoldersOK' /\ SleepersOK' /\ AnswersOK'
    BY <2>1 DEF IInv, ResultsOK, PlacesOK, TicketsOK, HoldersOK, SleepersOK, AnswersOK,
                Executing, OnFlight, HasTicket
  <2>5. QED
    BY <2>3, <2>4 DEF IInv
<1>8. QED
  BY <1>1, <1>2, <1>3, <1>4, <1>5, <1>6, <1>7 DEF Next, Finished

(***************************************************************************)
(* The inductive invariant holds, however many requests interleave.        *)
(***************************************************************************)
THEOREM Invariance == Spec => []IInv
  BY InitIInv, NextIInv, PTL DEF Spec

(***************************************************************************)
(* Type correctness of the cache, its flights and its tickets.             *)
(***************************************************************************)
THEOREM TypeCorrect == Spec => []TypeOK
<1>1. IInv => TypeOK
  BY DEF IInv
<1>2. QED
  BY <1>1, Invariance, PTL

(***************************************************************************)
(* A cancellation never reaches a request that was not superseded: only a  *)
(* superseded one is answered 409, none gets the interruption error.       *)
(***************************************************************************)
THEOREM NoForeignCancellationHolds == Spec => []NoForeignCancellation
<1>1. IInv => NoForeignCancellation
  BY DEF IInv, AnswersOK, NoForeignCancellation
<1>2. QED
  BY <1>1, Invariance, PTL

(***************************************************************************)
(* The waiter count of a flight is exact, and nobody on a flight misses it.*)
(***************************************************************************)
THEOREM WaitersCountedHolds == Spec => []WaitersCounted
<1>1. IInv => WaitersCounted
  BY DEF IInv, FlightsOK, FlightOK, Interest, Running, WaitersCounted
<1>2. QED
  BY <1>1, Invariance, PTL

(***************************************************************************)
(* One running query per result that somebody waits for.                   *)
(***************************************************************************)
THEOREM SingleFlightHolds == Spec => []SingleFlight
<1>1. IInv => SingleFlight
  <2> SUFFICES ASSUME IInv, NEW f \in Req, NEW g \in Req, Executing(f), Executing(g),
                      key[f] = key[g], Interested(f) # {}, Interested(g) # {}
               PROVE  f = g
    BY DEF SingleFlight
  <2>1. \A h \in {f, g} : h \in Running /\ ~flight[h].abandoned
    BY DEF IInv, FlightsOK, FlightOK, Interest, Running
  <2>2. joinable[key[f]] = f /\ joinable[key[g]] = g
    BY <2>1 DEF IInv, JoinableOK
  <2>3. QED
    BY <2>2
<1>2. QED
  BY <1>1, Invariance, PTL

(***************************************************************************)
(* A flight that identical requests join is running and not abandoned.     *)
(***************************************************************************)
THEOREM JoinableRunsHolds == Spec => []JoinableRuns
<1>1. IInv => JoinableRuns
  BY DEF IInv, JoinableOK, FlightsOK, FlightOK, Running, JoinableRuns
<1>2. QED
  BY <1>1, Invariance, PTL

(***************************************************************************)
(* An interrupted query has nobody waiting for it.                         *)
(***************************************************************************)
THEOREM InterruptOnlyAbandonedHolds == Spec => []InterruptOnlyAbandoned
<1>1. IInv => InterruptOnlyAbandoned
  BY DEF IInv, StruckOK, FlightsOK, FlightOK, Interest, Running, InterruptOnlyAbandoned
<1>2. QED
  BY <1>1, Invariance, PTL

(***************************************************************************)
(* No request sleeps through its answer or its cancellation.               *)
(***************************************************************************)
THEOREM NoLostWakeupHolds == Spec => []NoLostWakeup
<1>1. IInv => NoLostWakeup
  <2> SUFFICES ASSUME IInv, NEW r \in asleep
               PROVE  ~cancelled[r] /\ flight[fid[r]].outcome = "none" /\ Executing(fid[r])
    BY DEF NoLostWakeup
  <2>1. r \in Req /\ pc[r] = "wait" /\ ~cancelled[r] /\ Executing(fid[r])
    BY DEF IInv, SleepersOK, TypeOK
  <2>2. fid[r] \in Running
    BY <2>1 DEF IInv, PlacesOK, Running
  <2>3. flight[fid[r]].outcome = "none"
    BY <2>2 DEF IInv, FlightsOK, FlightOK, Running
  <2>4. QED
    BY <2>1, <2>3
<1>2. QED
  BY <1>1, Invariance, PTL

(***************************************************************************)
(* The newest request of a ticket key is not cancelled.                    *)
(***************************************************************************)
THEOREM NewestSurvivesHolds == Spec => []NewestSurvives
<1>1. IInv => NewestSurvives
  BY DEF IInv, HoldersOK, NewestSurvives
<1>2. QED
  BY <1>1, Invariance, PTL

(***************************************************************************)
(* Flights and attachments go away with the requests they belong to.       *)
(***************************************************************************)
THEOREM NothingLeaksHolds == Spec => []NothingLeaks
<1>1. IInv => NothingLeaks
  <2> SUFFICES ASSUME IInv PROVE NothingLeaks
    OBVIOUS
  <2>1. ASSUME NEW f \in Req, flight[f].live
        PROVE  Executing(f) \/ Interested(f) # {}
    BY <2>1 DEF IInv, FlightsOK, FlightOK, Interest, Running, NoFlight
  <2>2. ASSUME NEW r \in Req, tflight[r] # None
        PROVE  r \in Interested(tflight[r])
    BY <2>2 DEF IInv, TicketsOK, Interested
  <2>3. QED
    BY <2>1, <2>2 DEF NothingLeaks
<1>2. QED
  BY <1>1, Invariance, PTL

\* Only an interrupter that is registered on the flight is called.
LEMMA SupersedeStrikes ==
  ASSUME NEW t, NEW tf, NEW fl, NEW jn, NEW f \in struck' \ struck,
         Supersede(t, tf, fl, jn)
  PROVE  f = tf[t] /\ f # None /\ fl[f].interrupt
BY DEF Supersede, Cancel, NotJoinable

(***************************************************************************)
(* Both together, as the runs check them: no stale flight (`Inner.joinable'*)
(* and `Inner.flights').                                                   *)
(***************************************************************************)
THEOREM NoStaleFlightHolds == Spec => []NoStaleFlight
BY JoinableRunsHolds, NothingLeaksHolds, PTL DEF NoStaleFlight

(***************************************************************************)
(* An interrupt hits the executor's own query: it is sent only between     *)
(* `register' and the drop of `Registered'.                                *)
(***************************************************************************)
THEOREM InterruptReachesOwnQueryHolds == Spec => InterruptReachesOwnQuery
<1>1. ASSUME IInv, [Next]_vars, NEW f \in struck' \ struck
      PROVE  pc[f] \in {"query", "ended"}
  <2>1. PICK r \in Req : Hit(r) \/ Join(r) \/ Start(r)
    <3>1. CASE UNCHANGED vars
      BY <1>1, <3>1 DEF vars
    <3>2. ASSUME NEW r \in Req, BeginQuery(r) \/ QueryEnds(r) \/ EndQuery(r)
          PROVE  struck' \subseteq struck
      BY <3>2 DEF BeginQuery, EndQuery, GiveUp, ExecFails, Register, QueryEnds, Unregister,
                  Report, Complete, executing
    <3>3. ASSUME NEW r \in Req, TakeTicket(r) \/ Refused(r) \/ Wake(r) \/ Release(r)
          PROVE  struck' \subseteq struck
      BY <3>3 DEF TakeTicket, Refused, Wake, WakeCancelled, WakeFinished, SleepAgain, Release
    <3>4. QED
      BY <1>1, <3>1, <3>2, <3>3 DEF Next, Enter, Finished
  <2>2. /\ f \in Req
        /\ \A g \in Req : flight[g].interrupt <=> pc[g] \in {"query", "ended"}
    <3>1. struck' \subseteq Req
      BY <1>1, NextIInv DEF IInv, TypeOK
    <3>2. QED
      BY <1>1, <3>1 DEF IInv, FlightsOK, FlightOK, Registered
  <2>3. flight[f].interrupt
    <3>1. CASE Hit(r)
      BY <3>1, <1>1, SupersedeStrikes DEF Hit
    <3>2. CASE Join(r)
      <4> DEFINE g == joinable[key[r]]
                 fl == [flight EXCEPT ![g].waiters = @ + 1]
      <4>1. Supersede(old[r], Attach(r, g), fl, joinable)
        BY <3>2 DEF Join
      <4> HIDE DEF fl
      <4>2. fl[f].interrupt
        BY <4>1, <1>1, SupersedeStrikes
      <4>3. QED
        BY <4>2, <2>2, <1>1 DEF fl, IInv, TypeOK, Flight
    <3>3. CASE Start(r)
      <4> DEFINE fl == [flight EXCEPT ![r] = NewFlight]
                 jn == [joinable EXCEPT ![key[r]] = r]
      <4>1. Supersede(old[r], Attach(r, r), fl, jn)
        BY <3>3 DEF Start
      <4> HIDE DEF fl, jn
      <4>2. fl[f].interrupt
        BY <4>1, <1>1, SupersedeStrikes
      <4>3. NewFlight.interrupt = FALSE
        BY DEF NewFlight, NoFlight
      <4>4. QED
        BY <4>2, <4>3, <2>2, <1>1 DEF fl, IInv, TypeOK
    <3>4. QED
      BY <2>1, <3>1, <3>2, <3>3
  <2>4. QED
    BY <2>2, <2>3
<1>2. IInv /\ [Next]_vars => [\A f \in struck' \ struck : pc[f] \in {"query", "ended"}]_vars
  BY <1>1
<1>3. QED
  BY <1>2, Invariance, PTL DEF Spec, InterruptReachesOwnQuery
=============================================================================
