----------------------------- MODULE RefreshInv -----------------------------
(***************************************************************************)
(* The inductive invariant of Refresh: what `rebuild' relies on when it    *)
(* takes the mutex, and what it has established at each of its steps.      *)
(***************************************************************************)
EXTENDS Refresh

\* The build of `t' succeeded and is not in service yet.
Ready(t) == pc[t] \in {"built", "marked", "swap"} /\ build[t].ok

\* `t' has its dashboards; it has its data, too.
Loaded(t) == pc[t] \in {"copy", "check"} \/ Ready(t)
Copied(t) == pc[t] = "check" \/ Ready(t)

\* One thread builds at a time: the one that holds the mutex.
MutexOK == \A t \in Thread : holder = t <=> Building(t)

\* Nothing is newer than its source.
SourcesOK ==
  /\ gen.data <= data /\ gen.set <= folder /\ dashes <= folder
  /\ \A t \in Thread : /\ asked[t].data <= data /\ asked[t].set <= folder
                       /\ build[t].data <= data /\ build[t].set <= folder

\* The next build's dashboards are in service, or about to be.
DashesOK ==
  /\ dashes = gen.set \/ (holder \in Thread /\ Ready(holder))
  /\ \A t \in Thread :
       /\ Ready(t) => build[t].set = dashes
       /\ pc[t] \in {"copy", "check"} /\ t \notin Reload => build[t].set = dashes

\* What is being built is no older than what is in service.
BuildsOK ==
  \A t \in Thread :
    /\ pc[t] \in {"copy", "check", "swap"} => build[t].ok
    /\ Loaded(t) => build[t].set >= gen.set
    /\ Copied(t) => build[t].data >= gen.data

\* What a waiting caller is building, or has built, is what it asked for.
FreshOK ==
  \A t \in Waiting :
    /\ Loaded(t) /\ t \in Reload => build[t].set >= asked[t].set
    /\ Copied(t) => build[t].data >= asked[t].data
    /\ pc[t] \in {"unlock", "after"} /\ build[t].ok =>
         gen.data >= asked[t].data /\ (t \in Reload => gen.set >= asked[t].set)

\* Flag and count agree, except between the two.
OutcomeOK ==
  /\ (failed <=> failures > 0) \/ (holder \in Thread /\ pc[holder] = "marked")
  /\ \A t \in Thread : pc[t] = "marked" => (failed <=> ~build[t].ok)

\* A thread that may still show the batch of `w', or could not.
Owed(t, w) == IF pc[t] = "idle" THEN ~build[t].ok ELSE asked[t].data >= wrote[w]

\* A batch that is not in service yet has its wish, or a thread that took it.
WishOK ==
  /\ \A w \in Writer : wrote[w] <= data
  /\ \A t \in Ingest : pc[t] # "try"
  /\ \A w \in Writer :
       wpc[w] = "done" =>
         gen.data >= wrote[w] \/ want \/ \E t \in Ingest : Owed(t, w)

IInv ==
  TypeOK /\ MutexOK /\ SourcesOK /\ DashesOK /\ BuildsOK /\ FreshOK /\ OutcomeOK
=============================================================================
