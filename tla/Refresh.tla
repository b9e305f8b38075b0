------------------------------ MODULE Refresh ------------------------------
(***************************************************************************)
(* Atomic snapshot swaps of the locked server: `Current::rebuild' of       *)
(* duckext/src/generation.rs, with everybody who calls it                  *)
(* (`Locked::refresh', `Locked::reload', the interval refresher, the task  *)
(* runner, the ingest refresher) in duckext/src/serve.rs.                  *)
(*                                                                         *)
(* Data and dashboards are version numbers: a snapshot is the version of   *)
(* the host session's data and of the dashboards folder it was built from. *)
(* A build that panics is not modelled.                                    *)
(*                                                                         *)
(* Operators marked "Wrong on purpose" are no part of the specification    *)
(* (see README).                                                           *)
(***************************************************************************)
EXTENDS Naturals, FiniteSets

CONSTANTS
  Interval,   \* the `refresh_s' thread
  Task,       \* the task thread, running a task with ::REFRESH
  Ingest,     \* the ingest refresher
  Demand,     \* SQL callers of anofox_serve_refresh
  Reload,     \* SQL callers of anofox_serve_reload
  Writer,     \* POST /api/data requests (each writes once)
  Health,     \* GET /healthz and /metrics requests
  MaxCalls,   \* bound: how often each thread calls
  MaxEdits,   \* bound: how often the dashboards folder is edited
  None

Thread == Interval \cup Task \cup Ingest \cup Demand \cup Reload

ASSUME ThreadAssumption ==
  /\ IsFiniteSet(Thread \cup Writer \cup Health)
  /\ None \notin Thread \cup Health /\ Health \cap Thread = {}
  /\ Writer \cap Thread = {} /\ Interval \cap Task = {}
  /\ Ingest \cap (Interval \cup Task) = {}
  /\ Demand \cap (Interval \cup Task \cup Ingest) = {}
  /\ Reload \cap (Interval \cup Task \cup Ingest \cup Demand) = {}
ASSUME BoundAssumption == MaxCalls \in Nat /\ MaxEdits \in Nat

\* Who waits for a running rebuild and then builds again; the others skip.
Waiting == Demand \cup Reload \cup Ingest

VARIABLES
  data,      \* the version of the host session's committed data
  folder,    \* the version of the dashboards folder on disk
  dashes,    \* the dashboards the next build snapshots
  gen,       \* the generation new requests use
  failed,    \* did the last rebuild fail?
  failures,  \* failed rebuilds in a row
  holder,    \* who holds the rebuild mutex
  want,      \* an ingest write asks for a refresh
  pc,        \* where a thread is
  calls,     \* how often a thread has called
  build,     \* what a thread's last build was made of, and whether it succeeded
  asked,     \* data and folder when a thread's last call began
  wpc,       \* where a write is
  wrote      \* the data version that a write or a task produced

service == <<gen, failed, failures>>
vars == <<data, folder, dashes, service, holder, want, pc, calls, build, asked, wpc, wrote>>

Versions == [data: Nat, set: Nat]
Builds == [data: Nat, set: Nat, ok: BOOLEAN]
NoVersions == [data |-> 0, set |-> 0]
NoBuild == [data |-> 0, set |-> 0, ok |-> TRUE]

Init ==
  /\ data = 0 /\ folder = 0 /\ dashes = 0
  /\ gen = [epoch |-> 1, data |-> 0, set |-> 0]
  /\ failed = FALSE /\ failures = 0
  /\ holder = None /\ want = FALSE
  /\ pc = [t \in Thread |-> "idle"]
  /\ calls = [t \in Thread |-> 0]
  /\ build = [t \in Thread |-> NoBuild]
  /\ asked = [t \in Thread |-> NoVersions]
  /\ wpc = [w \in Writer |-> "new"]
  /\ wrote = [x \in Writer \cup Task |-> 0]

-----------------------------------------------------------------------------
Goto(t, place) == pc' = [pc EXCEPT ![t] = place]

\* The folder is edited; only a reload reads it.
Edit ==
  /\ folder < MaxEdits
  /\ folder' = folder + 1
  /\ UNCHANGED <<data, dashes, service, holder, want, pc, calls, build, asked, wpc, wrote>>

\* A batch is written on the serving session, then a refresh is asked for.
Write(w) ==
  /\ wpc[w] = "new"
  /\ data' = data + 1
  /\ wrote' = [wrote EXCEPT ![w] = data']
  /\ wpc' = [wpc EXCEPT ![w] = "written"]
  /\ UNCHANGED <<folder, dashes, service, holder, want, pc, calls, build, asked>>

\* Wrong on purpose: no wish while a rebuild is already under way.
AskRefreshIfIdle(w) ==
  /\ wpc[w] = "written"
  /\ want' = (want \/ holder \notin Thread)
  /\ wpc' = [wpc EXCEPT ![w] = "done"]
  /\ UNCHANGED <<data, folder, dashes, service, holder, pc, calls, build, asked, wrote>>

AskRefresh(w) ==
  /\ wpc[w] = "written"
  /\ want' = TRUE
  /\ wpc' = [wpc EXCEPT ![w] = "done"]
  /\ UNCHANGED <<data, folder, dashes, service, holder, pc, calls, build, asked, wrote>>

\* Every thread calls from idle, up to the bound.
Calls(t, place) ==
  /\ pc[t] = "idle" /\ calls[t] < MaxCalls
  /\ calls' = [calls EXCEPT ![t] = @ + 1]
  /\ Goto(t, place)
  /\ UNCHANGED <<folder, dashes, service, holder, build, wpc>>

\* A turn of the interval refresher.
Tick(t) ==
  /\ t \in Interval
  /\ Calls(t, "try")
  /\ UNCHANGED <<data, want, asked, wrote>>

\* A task's statements succeed (after a failing one there is no refresh).
RunTask(t) ==
  /\ t \in Task
  /\ data' = data + 1
  /\ wrote' = [wrote EXCEPT ![t] = data']
  /\ Calls(t, "try")
  /\ UNCHANGED <<want, asked>>

\* The ingest refresher takes the wish down before it refreshes.
TakeWish(t) ==
  /\ t \in Ingest /\ want
  /\ want' = FALSE
  /\ asked' = [asked EXCEPT ![t] = [data |-> data, set |-> folder]]
  /\ Calls(t, "wait")
  /\ UNCHANGED <<data, wrote>>

\* Somebody calls anofox_serve_refresh or anofox_serve_reload.
Ask(t) ==
  /\ t \in Demand \cup Reload
  /\ asked' = [asked EXCEPT ![t] = [data |-> data, set |-> folder]]
  /\ Calls(t, "wait")
  /\ UNCHANGED <<data, want, wrote>>

-----------------------------------------------------------------------------
(***************************************************************************)
(* `rebuild'.  The building thread holds the rebuild mutex throughout.     *)
(***************************************************************************)
others == <<data, folder, want, calls, asked, wpc, wrote>>

\* Wrong on purpose: those who should wait skip as well.
SkipAll(t) ==
  /\ pc[t] \in {"try", "wait"} /\ holder # None
  /\ Goto(t, "after")
  /\ UNCHANGED <<others, dashes, service, holder, build>>

\* `try_lock' fails: the turn is skipped, which is no attempt.
Skip(t) ==
  /\ pc[t] = "try" /\ holder # None
  /\ Goto(t, "idle")
  /\ UNCHANGED <<others, dashes, service, holder, build>>

\* Wrong on purpose: a rebuild starts while another one runs.
LockFree(t) ==
  /\ pc[t] \in {"try", "wait"}
  /\ holder' = t
  /\ Goto(t, "load")
  /\ UNCHANGED <<others, dashes, service, build>>

Lock(t) ==
  /\ pc[t] \in {"try", "wait"} /\ holder = None
  /\ holder' = t
  /\ Goto(t, "load")
  /\ UNCHANGED <<others, dashes, service, build>>

\* What was built so far is dropped.
Fails(t) ==
  /\ build' = [build EXCEPT ![t] = [NoBuild EXCEPT !.ok = FALSE]]
  /\ Goto(t, "built")
  /\ UNCHANGED dashes

\* Wrong on purpose: a reload puts its set in place before it is checked.
LoadPublishes(t) ==
  /\ pc[t] = "load"
  /\ \/ /\ dashes' = IF t \in Reload THEN folder ELSE dashes
        /\ build' = [build EXCEPT ![t] = [NoBuild EXCEPT !.set = dashes']]
        /\ Goto(t, "copy")
     \/ t \in Reload /\ Fails(t)
  /\ UNCHANGED <<others, service, holder>>

\* The dashboards to build from: `latest' for a refresh, the folder for a
\* reload, which may fail to load.
Load(t) ==
  /\ pc[t] = "load"
  /\ \/ /\ build' = [build EXCEPT ![t] =
                       [NoBuild EXCEPT !.set = IF t \in Reload THEN folder ELSE dashes]]
        /\ Goto(t, "copy")
        /\ UNCHANGED dashes
     \/ t \in Reload /\ Fails(t)
  /\ UNCHANGED <<others, service, holder>>

\* The data is copied under the session's connection lock, or the copy fails.
Copy(t) ==
  /\ pc[t] = "copy"
  /\ \/ /\ build' = [build EXCEPT ![t].data = data]
        /\ Goto(t, "check")
        /\ UNCHANGED dashes
     \/ Fails(t)
  /\ UNCHANGED <<others, service, holder>>

\* The snapshot passes the policy and the dashboards' checks; a reload then puts
\* its set in place for later refreshes.
Check(t) ==
  /\ pc[t] = "check"
  /\ \/ /\ UNCHANGED build
        /\ Goto(t, "built")
        /\ dashes' = IF t \in Reload THEN build[t].set ELSE dashes
     \/ Fails(t)
  /\ UNCHANGED <<others, service, holder>>

\* The outcome is recorded for /healthz: first the flag, then the count.
MarkOutcome(t) ==
  /\ pc[t] = "built"
  /\ failed' = ~build[t].ok
  /\ Goto(t, "marked")
  /\ UNCHANGED <<others, dashes, gen, failures, holder, build>>

\* Wrong on purpose: a success does not reset the count.
CountNeverResets(t) ==
  /\ pc[t] = "marked"
  /\ failures' = IF build[t].ok THEN failures ELSE failures + 1
  /\ Goto(t, IF build[t].ok THEN "swap" ELSE "unlock")
  /\ UNCHANGED <<others, dashes, gen, failed, holder, build>>

CountOutcome(t) ==
  /\ pc[t] = "marked"
  /\ failures' = IF build[t].ok THEN 0 ELSE failures + 1
  /\ Goto(t, IF build[t].ok THEN "swap" ELSE "unlock")
  /\ UNCHANGED <<others, dashes, gen, failed, holder, build>>

Swap(t) ==
  /\ pc[t] = "swap"
  /\ gen' = [epoch |-> gen.epoch + 1, data |-> build[t].data, set |-> build[t].set]
  /\ Goto(t, "unlock")
  /\ UNCHANGED <<others, dashes, failed, failures, holder, build>>

\* Wrong on purpose: a failed rebuild keeps the mutex.
UnlockIfOk(t) ==
  /\ pc[t] = "unlock"
  /\ holder' = IF build[t].ok THEN None ELSE holder
  /\ Goto(t, "after")
  /\ UNCHANGED <<others, dashes, service, build>>

Unlock(t) ==
  /\ pc[t] = "unlock"
  /\ holder' = None
  /\ Goto(t, "after")
  /\ UNCHANGED <<others, dashes, service, build>>

\* The call returns to its caller, and its locals go (all but how it ended).
Return(t) ==
  /\ pc[t] = "after"
  /\ Goto(t, "idle")
  /\ build' = [build EXCEPT ![t] = [NoBuild EXCEPT !.ok = build[t].ok]]
  /\ asked' = [asked EXCEPT ![t] = NoVersions]
  /\ UNCHANGED <<data, folder, want, calls, wpc, wrote, dashes, service, holder>>

-----------------------------------------------------------------------------
(***************************************************************************)
(* `refreshing', asked by /healthz and /metrics: a `try_lock' that holds   *)
(* the mutex for a moment when no rebuild runs, and finds it taken (no     *)
(* step) when one does.                                                    *)
(***************************************************************************)
Peek(h) ==
  /\ holder = None
  /\ holder' = h
  /\ UNCHANGED <<others, pc, dashes, service, build>>

EndPeek(h) ==
  /\ holder = h
  /\ holder' = None
  /\ UNCHANGED <<others, pc, dashes, service, build>>

-----------------------------------------------------------------------------
Call(t) == Tick(t) \/ RunTask(t) \/ TakeWish(t) \/ Ask(t)

Rebuild(t) ==
  \/ Lock(t) \/ Load(t) \/ Copy(t) \/ Check(t)
  \/ MarkOutcome(t) \/ CountOutcome(t) \/ Swap(t) \/ Unlock(t)

\* Everyone is idle: nothing more to do within the bounds.
Finished == (\A t \in Thread : pc[t] = "idle") /\ UNCHANGED vars

Next ==
  \/ Edit
  \/ \E w \in Writer : Write(w) \/ AskRefresh(w)
  \/ \E h \in Health : Peek(h) \/ EndPeek(h)
  \/ \E t \in Thread : Call(t) \/ Skip(t) \/ Rebuild(t) \/ Return(t)
  \/ Finished

Spec == Init /\ [][Next]_vars

-----------------------------------------------------------------------------
Places == {"idle", "try", "wait", "load", "copy", "check", "built", "marked",
           "swap", "unlock", "after"}

\* A thread is inside `rebuild' with the mutex.
Building(t) == pc[t] \in {"load", "copy", "check", "built", "marked", "swap", "unlock"}

TypeOK ==
  /\ data \in Nat /\ folder \in Nat /\ dashes \in Nat
  /\ gen \in [epoch: Nat, data: Nat, set: Nat]
  /\ failed \in BOOLEAN /\ failures \in Nat
  /\ holder \in Thread \cup Health \cup {None} /\ want \in BOOLEAN
  /\ pc \in [Thread -> Places] /\ calls \in [Thread -> Nat]
  /\ build \in [Thread -> Builds]
  /\ asked \in [Thread -> Versions]
  /\ wpc \in [Writer -> {"new", "written", "done"}]
  /\ wrote \in [Writer \cup Task -> Nat]

(***************************************************************************)
(* Between rebuilds the dashboards the next refresh builds from are those  *)
(* of the generation in service: a refresh never takes a reload back, and a*)
(* reload that failed leaves nothing behind ("on any error the running set *)
(* and snapshot stay in service").                                         *)
(***************************************************************************)
RunningSetServed == holder \notin Thread => dashes = gen.set

(***************************************************************************)
(* The generation in service never goes back: to an older epoch, to older  *)
(* data, or to an older set of dashboards, whoever rebuilds.               *)
(***************************************************************************)
NeverBackwards ==
  [][/\ gen'.epoch \in {gen.epoch, gen.epoch + 1}
     /\ gen'.data >= gen.data /\ gen'.set >= gen.set]_vars

(***************************************************************************)
(* A caller that waits is served what was there when it asked: "an         *)
(* on-demand refresh waits for a running one (and then builds again)", so  *)
(* the snapshot has the data committed before the call, and after a reload *)
(* the folder as it was.                                                   *)
(***************************************************************************)
FreshOnReturn ==
  \A t \in Waiting :
    pc[t] = "after" /\ build[t].ok =>
      gen.data >= asked[t].data /\ (t \in Reload => gen.set >= asked[t].set)

(***************************************************************************)
(* An ingested batch is in service, or a refresh for it is wanted or under *)
(* way, or the refresh for it failed: a wish is never lost to the refresher*)
(* taking an earlier one down at the same time.                            *)
(***************************************************************************)
WishesKept ==
  \A w \in Writer :
    wpc[w] = "done" =>
      \/ gen.data >= wrote[w]
      \/ want
      \/ \E t \in Ingest : pc[t] # "idle" \/ ~build[t].ok

(***************************************************************************)
(* /healthz between rebuilds: the failure count is zero exactly when the   *)
(* last rebuild succeeded, and a skipped turn changes neither.             *)
(***************************************************************************)
FailuresCounted == holder \notin Thread => (failed <=> failures > 0)

(***************************************************************************)
(* Every call ends: nobody waits for the rebuild mutex for ever.           *)
(***************************************************************************)
CallsEnd == \A t \in Thread : pc[t] # "idle" ~> pc[t] = "idle"

(***************************************************************************)
(* A batch is in service in the end, unless the refresh for it failed.     *)
(* (Each call takes a wish down, so MaxCalls >= the number of writers is   *)
(* enough for the bound not to matter.)                                    *)
(***************************************************************************)
BatchesShown ==
  \A w \in Writer, t \in Ingest :
    wpc[w] = "written" ~> gen.data >= wrote[w] \/ ~build[t].ok
=============================================================================
