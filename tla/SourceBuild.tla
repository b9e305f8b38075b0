---------------------------- MODULE SourceBuild ----------------------------
(***************************************************************************)
(* A locked server whose data comes from a remote Quack source             *)
(* (options.source): `run_source_build' of duckext/src/serve.rs in the     *)
(* place of Refresh's copy.  The copy runs on a thread of its own; the     *)
(* rebuild waits for it up to a deadline and otherwise leaves it running.  *)
(* A flag allows one copy per server and a counter MAX_CONCURRENT_SOURCE_  *)
(* BUILDS of them per process, abandoned ones included.                    *)
(*                                                                         *)
(* Operators marked "Wrong on purpose" are no part of the specification    *)
(* (see README).                                                           *)
(***************************************************************************)
EXTENDS Refresh

CONSTANTS
  Copier,      \* identities of copying threads
  MaxBuilds,   \* MAX_CONCURRENT_SOURCE_BUILDS
  MaxWrites    \* bound: how often the source's data changes

ASSUME SourceAssumption ==
  MaxBuilds \in Nat /\ MaxWrites \in Nat /\ IsFiniteSet(Copier) /\ None \notin Copier

VARIABLES
  inFlight,    \* SourceBuildState.in_flight
  deadline,    \* SourceBuildState.deadline: none yet, ahead, or passed
  builds,      \* GLOBAL_SOURCE_BUILDS
  elsewhere,   \* other servers of the process: slots held, one being undone
  at,          \* where a rebuilding thread is in run_source_build
  mine,        \* the copying thread whose channel it holds
  copier       \* a copying thread: where it is, its result and the data read

srcVars == <<inFlight, deadline, builds, elsewhere, at, mine, copier>>
allVars == <<vars, srcVars>>

NoCopier == [pc |-> "none", result |-> "none", data |-> 0]

SourceInit ==
  /\ Init
  /\ inFlight = FALSE /\ deadline = "none"
  /\ builds = 0 /\ elsewhere = [held |-> 0, undo |-> FALSE]
  /\ at = [t \in Thread |-> "flag"]
  /\ mine = [t \in Thread |-> None]
  /\ copier = [c \in Copier |-> NoCopier]

-----------------------------------------------------------------------------
(***************************************************************************)
(* The caller, inside Refresh's "copy".                                    *)
(***************************************************************************)
At(t, place) == pc[t] = "copy" /\ at[t] = place
Move(t, place) == at' = [at EXCEPT ![t] = place] /\ UNCHANGED vars

\* run_source_build returns an error: the rebuild has failed.
Give(t) ==
  /\ at' = [at EXCEPT ![t] = "flag"]
  /\ Fails(t)
  /\ UNCHANGED <<others, service, holder>>

\* Wrong on purpose: an attempt waits for the copy that still runs instead.
TakeFlagJoins(t) ==
  /\ At(t, "flag")
  /\ inFlight' = TRUE
  /\ IF inFlight
     THEN /\ \E c \in Copier : copier[c].pc = "copying" /\ mine' = [mine EXCEPT ![t] = c]
          /\ Move(t, "recv")
     ELSE Move(t, "slot") /\ UNCHANGED mine
  /\ UNCHANGED <<deadline, builds, elsewhere, copier>>

\* `in_flight.swap(true)': refused while an earlier copy still runs.
TakeFlag(t) ==
  /\ At(t, "flag")
  /\ inFlight' = TRUE
  /\ IF inFlight THEN Give(t) ELSE Move(t, "slot")
  /\ UNCHANGED <<deadline, builds, elsewhere, mine, copier>>

NoRoom(n) == n >= MaxBuilds

\* `fetch_add': counted first, then compared.
TakeSlot(t) ==
  /\ At(t, "slot")
  /\ builds' = builds + 1
  /\ Move(t, IF NoRoom(builds) THEN "undo" ELSE "due")
  /\ UNCHANGED <<inFlight, deadline, elsewhere, mine, copier>>

\* Over the cap: the slot and then the flag are given back.
UndoSlot(t) ==
  /\ At(t, "undo")
  /\ builds' = builds - 1
  /\ Move(t, "unflag")
  /\ UNCHANGED <<inFlight, deadline, elsewhere, mine, copier>>

UndoFlag(t) ==
  /\ At(t, "unflag")
  /\ inFlight' = FALSE
  /\ Give(t)
  /\ UNCHANGED <<deadline, builds, elsewhere, mine, copier>>

SetDeadline(t) ==
  /\ At(t, "due")
  /\ deadline' = "ahead"
  /\ Move(t, "spawn")
  /\ UNCHANGED <<inFlight, builds, elsewhere, mine, copier>>

\* The thread starts with both guards, or does not and they are dropped here.
\* (The identities in Copier are a bound: as many threads may be unwinding.)
Spawn(t) ==
  /\ At(t, "spawn")
  /\ \/ /\ \E x \in Copier : copier[x] = NoCopier
        /\ LET c == CHOOSE x \in Copier : copier[x] = NoCopier IN
             /\ copier' = [copier EXCEPT ![c] = [pc |-> "copying", result |-> "none", data |-> data]]
             /\ mine' = [mine EXCEPT ![t] = c]
        /\ Move(t, "recv")
        /\ UNCHANGED <<inFlight, builds>>
     \/ /\ inFlight' = FALSE /\ builds' = builds - 1
        /\ Give(t)
        /\ UNCHANGED <<mine, copier>>
  /\ UNCHANGED <<deadline, elsewhere>>

\* The channel is given up; a thread that has ended is forgotten.
HangUp(t) ==
  /\ mine' = [mine EXCEPT ![t] = None]
  /\ copier' = [copier EXCEPT ![mine[t]] = IF @.pc = "ended" THEN NoCopier ELSE @]

\* The result, sent before the guards go.
Receive(t) ==
  /\ At(t, "recv")
  /\ LET c == copier[mine[t]] IN
       \/ /\ c.result = "ok"
          /\ at' = [at EXCEPT ![t] = "flag"]
          /\ build' = [build EXCEPT ![t].data = c.data]
          /\ Goto(t, "check")
          /\ UNCHANGED <<others, dashes, service, holder>>
       \/ /\ c.result = "error" \/ (c.result = "panic" /\ c.pc = "ended")
          /\ Give(t)
  /\ HangUp(t)
  /\ UNCHANGED <<inFlight, deadline, builds, elsewhere>>

\* Wrong on purpose: the caller clears the flag when it gives up.
TimeOutClears(t) ==
  /\ At(t, "recv") /\ deadline = "passed"
  /\ copier[mine[t]].result \in {"none", "panic"}
  /\ Give(t)
  /\ HangUp(t)
  /\ inFlight' = FALSE
  /\ UNCHANGED <<deadline, builds, elsewhere>>

\* Wrong on purpose: `recv' without a timeout.
TimeOutNever(t) == At(t, "recv") /\ FALSE

\* `recv_timeout' runs out: the thread is left to finish.
TimeOut(t) ==
  /\ At(t, "recv") /\ deadline = "passed"
  /\ copier[mine[t]].result \in {"none", "panic"}
  /\ Give(t)
  /\ HangUp(t)
  /\ UNCHANGED <<inFlight, deadline, builds, elsewhere>>

-----------------------------------------------------------------------------
(***************************************************************************)
(* The copying thread.  It reads the source at some moment and sends what  *)
(* it read, or an error (its own watchdog's, or the source's), or panics;  *)
(* it may as well never come back.                                         *)
(***************************************************************************)
Finish(c) ==
  /\ copier[c].pc = "copying"
  /\ \E r \in {"ok", "error", "panic"} :
       copier' = [copier EXCEPT ![c] = [pc |-> "sent", result |-> r, data |-> @.data]]
  /\ UNCHANGED <<vars, inFlight, deadline, builds, elsewhere, at, mine>>

Read(c) ==
  /\ copier[c].pc = "copying" /\ copier[c].data < data
  /\ copier' = [copier EXCEPT ![c].data = data]
  /\ UNCHANGED <<vars, inFlight, deadline, builds, elsewhere, at, mine>>

\* Wrong on purpose: the flag is cleared by a statement, which a panic skips.
DropFlagIfReturned(c) ==
  /\ copier[c].pc = "sent"
  /\ inFlight' = (inFlight /\ copier[c].result = "panic")
  /\ copier' = [copier EXCEPT ![c].pc = "unflagged"]
  /\ UNCHANGED <<vars, deadline, builds, elsewhere, at, mine>>

\* The guards are dropped, the last one made first.
DropFlag(c) ==
  /\ copier[c].pc = "sent"
  /\ inFlight' = FALSE
  /\ copier' = [copier EXCEPT ![c].pc = "unflagged"]
  /\ UNCHANGED <<vars, deadline, builds, elsewhere, at, mine>>

DropSlot(c) ==
  /\ copier[c].pc = "unflagged"
  /\ builds' = builds - 1
  /\ copier' = [copier EXCEPT ![c] =
       IF \E t \in Thread : mine[t] = c THEN [@ EXCEPT !.pc = "ended"] ELSE NoCopier]
  /\ UNCHANGED <<vars, inFlight, deadline, elsewhere, at, mine>>

-----------------------------------------------------------------------------

\* The deadline of the last attempt passes.
DeadlinePasses ==
  /\ deadline = "ahead"
  /\ deadline' = "passed"
  /\ UNCHANGED <<vars, inFlight, builds, elsewhere, at, mine, copier>>

\* The other servers' attempts, of which at most one is being refused.
ElsewhereTakes ==
  /\ ~elsewhere.undo
  /\ builds' = builds + 1
  /\ elsewhere' = IF NoRoom(builds) THEN [elsewhere EXCEPT !.undo = TRUE]
                  ELSE [elsewhere EXCEPT !.held = @ + 1]
  /\ UNCHANGED <<vars, inFlight, deadline, at, mine, copier>>

ElsewhereEnds ==
  /\ \/ elsewhere.undo /\ elsewhere' = [elsewhere EXCEPT !.undo = FALSE]
     \/ elsewhere.held > 0 /\ elsewhere' = [elsewhere EXCEPT !.held = @ - 1]
  /\ builds' = builds - 1
  /\ UNCHANGED <<vars, inFlight, deadline, at, mine, copier>>

\* The source's data changes.
RemoteChange ==
  /\ data < MaxWrites
  /\ data' = data + 1
  /\ UNCHANGED <<folder, dashes, service, holder, want, pc, calls, build, asked, wpc, wrote, srcVars>>

RunSource(t) ==
  \/ TakeFlag(t) \/ TakeSlot(t) \/ UndoSlot(t) \/ UndoFlag(t)
  \/ SetDeadline(t) \/ Spawn(t) \/ Receive(t) \/ TimeOut(t)

\* The parts of a rebuild around it.
Around(t) ==
  /\ \/ Load(t) \/ Check(t) \/ MarkOutcome(t) \/ CountOutcome(t)
     \/ Swap(t) \/ Unlock(t)
  /\ UNCHANGED srcVars

SourceNext ==
  \/ RemoteChange \/ DeadlinePasses \/ ElsewhereTakes \/ ElsewhereEnds
  \/ \E w \in Writer : (Write(w) \/ AskRefresh(w)) /\ UNCHANGED srcVars
  \/ \E h \in Health : (Peek(h) \/ EndPeek(h)) /\ UNCHANGED srcVars
  \/ \E t \in Thread :
       \/ (Call(t) \/ Skip(t) \/ Lock(t) \/ Return(t)) /\ UNCHANGED srcVars
       \/ RunSource(t) \/ Around(t)
  \/ \E c \in Copier : Finish(c) \/ Read(c) \/ DropFlag(c) \/ DropSlot(c)
  \/ Finished /\ UNCHANGED srcVars

SourceSpec == SourceInit /\ [][SourceNext]_allVars

(***************************************************************************)
(* Deadlines pass and the server's threads keep running; a caller that     *)
(* waits for the mutex gets it, as rebuilds are apart.  Nothing makes a    *)
(* copying thread come back, the others free their slots, or anybody write *)
(* or ask for a refresh; only a wish once raised is acted upon.            *)
(***************************************************************************)
SourceFairness ==
  /\ WF_allVars(DeadlinePasses)
  /\ \A w \in Writer : WF_allVars(AskRefresh(w) /\ UNCHANGED srcVars)
  /\ \A h \in Health : WF_allVars(EndPeek(h) /\ UNCHANGED srcVars)
  /\ \A t \in Thread :
       /\ SF_allVars(Lock(t) /\ UNCHANGED srcVars)
       /\ WF_allVars((Skip(t) \/ Return(t) \/ TakeWish(t)) /\ UNCHANGED srcVars)
       /\ WF_allVars(RunSource(t) \/ Around(t))

FairSourceSpec == SourceSpec /\ SourceFairness

-----------------------------------------------------------------------------
Alive == {c \in Copier : copier[c].pc \in {"copying", "sent"}}

(***************************************************************************)
(* serve.rs:2922: the flag is "true from just before the build thread is   *)
(* spawned until that thread -- including a drop guard that runs even if it*)
(* panics -- clears it", and the counter counts the slots really held, here*)
(* and elsewhere: none is freed twice or never, whoever gives up, panics or*)
(* fails to start, so that at most MaxBuilds copies run in the process and *)
(* at most one for this server.                                            *)
(***************************************************************************)
SlotsExact ==
  LET trying == {t \in Thread : at[t] \in {"slot", "undo", "unflag", "due", "spawn"}}
      holding == {t \in Thread : at[t] \in {"undo", "due", "spawn"}}
      slotted == {c \in Copier : copier[c].pc \in {"copying", "sent", "unflagged"}}
  IN /\ inFlight <=> trying \cup Alive # {}
     /\ Cardinality(Alive) <= 1
     /\ builds = Cardinality(holding) + Cardinality(slotted) + elsewhere.held
                  + (IF elsewhere.undo THEN 1 ELSE 0)
     /\ Cardinality(slotted) + elsewhere.held <= MaxBuilds

\* SourceBuildState::overdue.
Overdue == inFlight /\ deadline = "passed"

(***************************************************************************)
(* serve.rs:8492: "a stuck build must not look healthy just because nothing*)
(* has come back to report failure yet": /healthz shows a copy everybody   *)
(* has given up on as overdue until it ends.                               *)
(***************************************************************************)
StuckShows ==
  \A c \in Copier :
    copier[c].pc = "copying" /\ (\A t \in Thread : mine[t] # c) => Overdue
=============================================================================
