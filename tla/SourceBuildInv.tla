--------------------------- MODULE SourceBuildInv ---------------------------
(***************************************************************************)
(* The inductive invariant of SourceBuild, beside Refresh's: who has the   *)
(* flag, who has a slot, and whose channel is whose.                       *)
(***************************************************************************)
EXTENDS SourceBuild, RefreshInv

SourceTypes ==
  /\ inFlight \in BOOLEAN /\ deadline \in {"none", "ahead", "passed"}
  /\ builds \in Nat /\ elsewhere \in [held : Nat, undo : BOOLEAN]
  /\ at \in [Thread -> {"flag", "slot", "undo", "unflag", "due", "spawn", "recv"}]
  /\ mine \in [Thread -> Copier \cup {None}]
  /\ copier \in [Copier -> [pc : {"none", "copying", "sent", "unflagged", "ended"},
                            result : {"none", "ok", "error", "panic"}, data : Nat]]

\* A thread is in run_source_build while its build copies; a channel is its
\* own, and its copy is as new as what it may be compared with.
CallersOK ==
  \A t \in Thread :
    /\ at[t] # "flag" => pc[t] = "copy"
    /\ mine[t] # None <=> at[t] = "recv"
    /\ mine[t] # None =>
         /\ copier[mine[t]].pc # "none"
         /\ copier[mine[t]].data >= gen.data /\ copier[mine[t]].data >= asked[t].data

CopiersOK ==
  \A c \in Copier :
    /\ copier[c].data <= data
    /\ copier[c].pc = "none" => copier[c] = NoCopier
    /\ copier[c].pc = "copying" => copier[c].result = "none"
    /\ copier[c].pc = "ended" => \E t \in Thread : mine[t] = c

Trying == {t \in Thread : at[t] \in {"slot", "undo", "unflag", "due", "spawn"}}
Slotted == {c \in Copier : copier[c].pc \in {"copying", "sent", "unflagged"}}

\* The slot of the one thread that may have one, before its copy has it.
OneAt(f, places) == IF \E t \in Thread : f[t] \in places THEN 1 ELSE 0
Own(places) == OneAt(at, places)
Undoing == IF elsewhere.undo THEN 1 ELSE 0

\* The flag belongs to the attempt until its copy starts, then to the copy.
FlagOK ==
  /\ inFlight <=> Trying \cup Alive # {}
  /\ Trying # {} => Alive = {}
  /\ \A c, d \in Alive : c = d

CountOK ==
  /\ builds = Own({"undo", "due", "spawn"}) + Cardinality(Slotted) + elsewhere.held + Undoing
  /\ Own({"due", "spawn"}) + Cardinality(Slotted) + elsewhere.held <= MaxBuilds

SourceInv ==
  SourceTypes /\ CallersOK /\ CopiersOK /\ FlagOK /\ CountOK /\ StuckShows
=============================================================================
