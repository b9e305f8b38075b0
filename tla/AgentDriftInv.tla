---------------------------- MODULE AgentDriftInv ----------------------------
(***************************************************************************)
(* The inductive invariant of AgentDrift, for any number of rebuilding     *)
(* threads.  A generation that is not `overlapped' has at most one drift   *)
(* run to itself, from the moment it is due until the next one is due: so  *)
(* its run looks at it, the list is its own, and nobody else's run says    *)
(* that nothing is due.                                                    *)
(***************************************************************************)
EXTENDS AgentDrift, RefreshInv

Asking == {"new", "pending", "off", "panel", "answered", "refused"}

DriftTypes ==
  /\ pending \in BOOLEAN /\ off \in BOOLEAN
  /\ dpc \in [Thread -> {"none", "get", "probe", "list", "clear"}]
  /\ found \in [Thread -> BOOLEAN] /\ seen \in [Thread -> Nat]
  /\ apc \in [Asker -> Asking] /\ began \in [Asker -> Nat]
  /\ answer \in [Asker -> [epoch : Nat, data : Nat]]

\* No epoch that is yet to come has been probed, tested or asked.
EpochsOK ==
  /\ \A e \in tested : e \in Nat /\ e <= gen.epoch
  /\ \A t \in Thread : seen[t] <= gen.epoch
  /\ \A a \in Asker : began[a] <= gen.epoch

\* A drift run begins after the mutex, and ends before the call returns.
PlaceOK == \A t \in Thread : dpc[t] # "none" => pc[t] = "after"

\* From due to in service to the start of its run: due, and no run under way.
DueOK == \A t \in Thread :
  /\ Ready(t) /\ gen.epoch + 1 \notin overlapped => pending /\ ~Drifting
  /\ pc[t] = "unlock" /\ build[t].ok /\ gen.epoch \notin overlapped =>
       pending /\ ~Drifting

\* The generation in service has its drift run to itself.
RunOK == gen.epoch \notin overlapped =>
  /\ \A s, t \in Thread : dpc[s] # "none" /\ dpc[t] # "none" => s = t
  /\ \A t \in Thread :
       /\ dpc[t] = "list" =>
            seen[t] = gen.epoch /\ (gen.data \in Bad => found[t])
       /\ dpc[t] = "clear" => text[gen.set] = "gone" \/ gen.epoch \in tested

\* The list is that of the generation in service, once it is tested.
ListOK ==
  gen.epoch \in tested /\ gen.epoch \notin overlapped /\ gen.data \in Bad => off

\* While no run is due, the generation in service is tested.
PendingOK ==
  ~pending /\ text[gen.set] = "pinned" /\ gen.epoch \notin overlapped =>
    gen.epoch \in tested

\* What a request that no swap overtook has checked.
AskersOK == \A a \in Asker : began[a] = gen.epoch /\ gen.epoch \notin overlapped =>
  /\ apc[a] = "pending" => text[gen.set] = "pinned"
  /\ apc[a] = "off" => gen.epoch \in tested
  /\ apc[a] = "panel" => gen.epoch \in tested /\ gen.data \notin Bad

DriftInv ==
  /\ DriftTypes /\ EpochsOK /\ PlaceOK /\ DueOK /\ RunOK /\ ListOK /\ PendingOK
  /\ AskersOK /\ UntestedHasRun /\ OwnAnswersChecked

DInv == IInv /\ DriftInv
=============================================================================
