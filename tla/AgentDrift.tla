----------------------------- MODULE AgentDrift -----------------------------
(***************************************************************************)
(* The drift test of agent mode on top of Refresh: `drift_due', `run_drift'*)
(* and the agent handlers (`handle_agent', `handle_mcp') of                *)
(* duckext/src/serve.rs.  After every rebuild each declared question is    *)
(* probed on the snapshot in service and switched off when its answer left *)
(* its release range; answers wait meanwhile.                              *)
(*                                                                         *)
(* One declared question is enough: the list of the questions switched off *)
(* is written and read as a whole.  Agent mode serves no /api/data, so the *)
(* data changes by the host session's own statements.                      *)
(*                                                                         *)
(* Several threads rebuild, and a drift run is outside the rebuild mutex:  *)
(* the next rebuild may become due while the run of an earlier one is still*)
(* under way (`overlapped').                                               *)
(*                                                                         *)
(* Operators marked "Wrong on purpose" are no part of the specification    *)
(* (see README).                                                           *)
(***************************************************************************)
EXTENDS Refresh

CONSTANTS
  Asker,    \* agent requests (each asks once)
  Bad,      \* the data versions on which the question is out of its range
  MaxData   \* bound: how often the host session's data changes

ASSUME DriftAssumption == MaxData \in Nat /\ Bad \subseteq Nat

VARIABLES
  text,     \* the agent's dashboard in a version of the dashboards folder
  pending,  \* `drift_pending': a drift run is due
  off,      \* `drift_off': is the question switched off?
  dpc,      \* where a thread is in `run_drift'
  found,    \* what a thread's run found: is the question to be switched off?
  seen,     \* the epoch a thread's run probed
  tested,   \* history: the epochs on which a drift run was completed
  overlapped,  \* history: the epochs that became due during another drift run
  apc,      \* where an agent request is
  began,    \* the epoch a request began on
  answer    \* the generation a request was answered from

drift == <<pending, off, dpc, found, seen, tested, overlapped>>
agent == <<apc, began, answer>>
all == <<vars, text, drift, agent>>

\* The text of the pinned bundle, another one, or no such dashboard.
Texts == {"pinned", "other", "gone"}

NoAnswer == [epoch |-> 0, data |-> 0]

\* The start has run the drift test on the first generation; a probe may fail,
\* which switches the question off.
DriftInit ==
  /\ Init
  /\ text \in [0..MaxEdits -> Texts] /\ text[0] = "pinned"
  /\ pending = FALSE /\ off \in {0 \in Bad, TRUE}
  /\ dpc = [t \in Thread |-> "none"]
  /\ found = [t \in Thread |-> FALSE]
  /\ seen = [t \in Thread |-> 0]
  /\ tested = {1} /\ overlapped = {}
  /\ apc = [a \in Asker |-> "new"]
  /\ began = [a \in Asker |-> 0]
  /\ answer = [a \in Asker |-> NoAnswer]

\* The host session's data changes.
Change ==
  /\ data < MaxData
  /\ data' = data + 1
  /\ UNCHANGED <<folder, dashes, service, holder, want, pc, calls, build, asked, wpc, wrote>>
  /\ UNCHANGED <<text, drift, agent>>

-----------------------------------------------------------------------------
\* The steps of Refresh that have nothing to do with the drift test.
Plain ==
  /\ \/ Edit
     \/ \E h \in Health : Peek(h) \/ EndPeek(h)
     \/ \E t \in Thread : \/ Call(t) \/ Skip(t) \/ Lock(t) \/ Load(t) \/ Copy(t)
                          \/ MarkOutcome(t) \/ CountOutcome(t) \/ Swap(t)
  /\ UNCHANGED <<text, drift, agent>>

\* Wrong on purpose: no drift run is due after a rebuild.
CheckNotDue(t) ==
  /\ Check(t)
  /\ UNCHANGED <<text, drift, agent>>

\* A drift run is under way.
Drifting == \E t \in Thread : dpc[t] # "none"

\* The end of a build that succeeded: `drift_due', before the swap.
CheckDue(t) ==
  /\ Check(t)
  /\ pending' = (pending \/ build'[t].ok)
  /\ overlapped' = overlapped \cup {e \in {gen.epoch + 1} : build'[t].ok /\ Drifting}
  /\ UNCHANGED <<text, off, dpc, found, seen, tested, agent>>

\* Wrong on purpose: no drift run when none is due any more.
UnlockIfDue(t) ==
  /\ Unlock(t)
  /\ dpc' = [dpc EXCEPT ![t] = IF build[t].ok /\ pending THEN "get" ELSE "none"]
  /\ UNCHANGED <<text, pending, off, found, seen, tested, overlapped, agent>>

\* After the mutex: `run_drift', if the rebuild succeeded.
UnlockDrift(t) ==
  /\ Unlock(t)
  /\ dpc' = [dpc EXCEPT ![t] = IF build[t].ok THEN "get" ELSE "none"]
  /\ UNCHANGED <<text, pending, off, found, seen, tested, overlapped, agent>>

\* Wrong on purpose: without the dashboard the drift run stays due.
LookReturns(t) ==
  /\ dpc[t] = "get"
  /\ dpc' = [dpc EXCEPT ![t] = IF text[gen.set] = "gone" THEN "none" ELSE "probe"]
  /\ UNCHANGED <<vars, text, pending, off, found, seen, tested, overlapped, agent>>

\* `run_drift' looks at the generation in service; without the agent's
\* dashboard there is nothing to probe, and the list stays.
Look(t) ==
  /\ dpc[t] = "get"
  /\ dpc' = [dpc EXCEPT ![t] = IF text[gen.set] = "gone" THEN "clear" ELSE "probe"]
  /\ UNCHANGED <<vars, text, pending, off, found, seen, tested, overlapped, agent>>

\* The question's panel runs, like every panel, on the generation in service
\* then; a failing probe (or an unreadable ranges file) switches it off.
Probe(t) ==
  /\ dpc[t] = "probe"
  /\ dpc' = [dpc EXCEPT ![t] = "list"]
  /\ \E f \in {text[gen.set] = "gone" \/ gen.data \in Bad, TRUE} :
       found' = [found EXCEPT ![t] = f]
  /\ seen' = [seen EXCEPT ![t] = gen.epoch]
  /\ UNCHANGED <<vars, text, pending, off, tested, overlapped, agent>>

\* Wrong on purpose: a question that was on stays on.
ListIntersects(t) ==
  /\ dpc[t] = "list"
  /\ dpc' = [dpc EXCEPT ![t] = "clear"]
  /\ off' = (off /\ found[t])
  /\ tested' = tested \cup {seen[t]}
  /\ UNCHANGED <<vars, text, pending, found, seen, overlapped, agent>>

\* The list of the questions that are off is replaced.
List(t) ==
  /\ dpc[t] = "list"
  /\ dpc' = [dpc EXCEPT ![t] = "clear"]
  /\ off' = found[t]
  /\ tested' = tested \cup {seen[t]}
  /\ UNCHANGED <<vars, text, pending, found, seen, overlapped, agent>>

Clear(t) ==
  /\ dpc[t] = "clear"
  /\ dpc' = [dpc EXCEPT ![t] = "none"]
  /\ pending' = FALSE
  /\ found' = [found EXCEPT ![t] = FALSE]
  /\ seen' = [seen EXCEPT ![t] = 0]
  /\ UNCHANGED <<vars, text, off, tested, overlapped, agent>>

DriftReturn(t) ==
  /\ dpc[t] = "none"
  /\ Return(t)
  /\ UNCHANGED <<text, drift, agent>>

-----------------------------------------------------------------------------
AskGoto(a, place) == apc' = [apc EXCEPT ![a] = place]

\* A request of the agent takes the generation in service: refused without the
\* pinned text.
Question(a) ==
  /\ apc[a] = "new"
  /\ AskGoto(a, IF text[gen.set] = "pinned" THEN "pending" ELSE "refused")
  /\ began' = [began EXCEPT ![a] = gen.epoch]
  /\ UNCHANGED <<vars, text, drift, answer>>

\* Wrong on purpose: a drift run that is due holds nothing up.
DueIgnored(a) ==
  /\ apc[a] = "pending"
  /\ AskGoto(a, "off")
  /\ UNCHANGED <<vars, text, drift, began, answer>>

\* It is refused while a drift run is due, ...
Due(a) ==
  /\ apc[a] = "pending"
  /\ AskGoto(a, IF pending THEN "refused" ELSE "off")
  /\ UNCHANGED <<vars, text, drift, began, answer>>

\* ... and when the question is switched off.
ReadOff(a) ==
  /\ apc[a] = "off"
  /\ AskGoto(a, IF off THEN "refused" ELSE "panel")
  /\ UNCHANGED <<vars, text, drift, began, answer>>

\* The panel path takes the generation in service once more and answers from it.
Panel(a) ==
  /\ apc[a] = "panel"
  /\ \/ /\ text[gen.set] # "gone"
        /\ answer' = [answer EXCEPT ![a] = [epoch |-> gen.epoch, data |-> gen.data]]
        /\ AskGoto(a, "answered")
     \/ /\ text[gen.set] = "gone"
        /\ AskGoto(a, "refused")
        /\ UNCHANGED answer
  /\ UNCHANGED <<vars, text, drift, began>>

RunDrift(t) == Look(t) \/ Probe(t) \/ List(t) \/ Clear(t)
Serve(a) == Question(a) \/ Due(a) \/ ReadOff(a) \/ Panel(a)

DriftNext ==
  \/ Change \/ Plain
  \/ \E t \in Thread : CheckDue(t) \/ UnlockDrift(t) \/ RunDrift(t) \/ DriftReturn(t)
  \/ \E a \in Asker : Serve(a)
  \/ Finished /\ UNCHANGED <<text, drift, agent>>

DriftSpec == DriftInit /\ [][DriftNext]_all

(***************************************************************************)
(* As in Refresh; a drift run has a deadline, so it ends.                  *)
(***************************************************************************)
DriftFairness ==
  /\ \A h \in Health : WF_all(Plain /\ EndPeek(h))
  /\ \A t \in Thread :
       /\ SF_all(Plain /\ Lock(t))
       /\ WF_all(Plain /\ (Skip(t) \/ Load(t) \/ Copy(t) \/ MarkOutcome(t)
                             \/ CountOutcome(t) \/ Swap(t)))
       /\ WF_all(CheckDue(t) \/ UnlockDrift(t) \/ RunDrift(t) \/ DriftReturn(t))

FairDriftSpec == DriftSpec /\ DriftFairness
-----------------------------------------------------------------------------
(***************************************************************************)
(* "A drift run is due on the snapshot in service: agent answers wait (503)*)
(* until it has run" (`drift_pending'): when none is due, the generation   *)
(* in service has been tested.                                             *)
(***************************************************************************)
PendingUntilChecked ==
  ~pending /\ text[gen.set] = "pinned" => gen.epoch \in tested

(***************************************************************************)
(* An overlapping drift run is the only thing that can break that: a       *)
(* generation that became due while no run was under way is served without *)
(* waiting only when it has been tested, and then with its own list, so    *)
(* that a question out of its range there is off, whoever rebuilds next.   *)
(***************************************************************************)
CheckedUnlessOverlapped ==
  ~pending /\ text[gen.set] = "pinned" /\ gen.epoch \notin overlapped =>
    gen.epoch \in tested /\ (gen.data \in Bad => off)

(***************************************************************************)
(* A thread that will test, or is testing, the generation in service.      *)
(***************************************************************************)
WillTest(t) ==
  \/ pc[t] = "unlock" /\ build[t].ok
  \/ dpc[t] \in {"get", "probe"}
  \/ dpc[t] = "list" /\ seen[t] = gen.epoch

(***************************************************************************)
(* However the runs overlap, none of them is lost: as long as the          *)
(* generation in service is untested, its drift run is to come or under    *)
(* way (`run_drift' after every rebuild that succeeded, due or not).       *)
(***************************************************************************)
UntestedHasRun ==
  text[gen.set] # "gone" /\ gen.epoch \notin tested => \E t \in Thread : WillTest(t)

(***************************************************************************)
(* A request that no swap overtook, on a generation whose drift run found  *)
(* no other one under way, is answered from a tested generation, within    *)
(* its range, although it reads `drift_pending', the list and the          *)
(* generation at different times.                                          *)
(***************************************************************************)
OwnAnswersChecked ==
  \A a \in Asker :
    apc[a] = "answered" /\ answer[a].epoch = began[a] /\ began[a] \notin overlapped =>
      answer[a].epoch \in tested /\ answer[a].data \notin Bad

(***************************************************************************)
(* Answers wait only for a while: a drift run that is due is over some day.*)
(***************************************************************************)
AnswersResume == pending ~> ~pending
=============================================================================
