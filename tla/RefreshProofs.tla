---------------------------- MODULE RefreshProofs ----------------------------
(***************************************************************************)
(* Proofs about the rebuilds, without regard to the bounds.  Refresh, for  *)
(* every number of threads, writers and health requests: IInv is           *)
(* inductive, and the safety properties follow from it; one lemma for      *)
(* every action, with a step for every part of IInv.  Then what hangs on a *)
(* rebuild.  SourceBuild: the copy of a remote source, for every number of *)
(* copying threads and slots; IInv and SourceInv are inductive together.   *)
(* AgentDrift: the drift test with one rebuilding thread, for any          *)
(* questions out of range, edits and agent requests.                       *)
(***************************************************************************)
EXTENDS SourceBuildInv, AgentDriftInv, FiniteSetTheorems, TLAPS

\* The folder only gets newer.
LEMMA EditStep ==
  ASSUME IInv, Edit
  PROVE  IInv'
<1>1. TypeOK'
  BY DEF IInv, TypeOK, Edit, service
<1>2. MutexOK'
  BY DEF IInv, MutexOK, Edit, Building
<1>3. SourcesOK'
  BY DEF IInv, TypeOK, SourcesOK, Edit, service, Versions, Builds
<1>4. DashesOK'
  BY DEF IInv, DashesOK, Edit, service, Ready
<1>5. BuildsOK'
  BY DEF IInv, BuildsOK, Edit, service, Loaded, Copied, Ready
<1>6. FreshOK'
  BY DEF IInv, FreshOK, Edit, service, Loaded, Copied, Ready
<1>7. OutcomeOK'
  BY DEF IInv, OutcomeOK, Edit, service
<1>8. QED
  BY <1>1, <1>2, <1>3, <1>4, <1>5, <1>6, <1>7 DEF IInv

\* So does the data.
LEMMA WriteStep ==
  ASSUME IInv, NEW w \in Writer, Write(w)
  PROVE  IInv'
<1>1. TypeOK'
  BY DEF IInv, TypeOK, Write, service
<1>2. MutexOK'
  BY DEF IInv, MutexOK, Write, Building
<1>3. SourcesOK'
  BY DEF IInv, TypeOK, SourcesOK, Write, service, Versions, Builds
<1>4. DashesOK'
  BY DEF IInv, DashesOK, Write, service, Ready
<1>5. BuildsOK'
  BY DEF IInv, BuildsOK, Write, service, Loaded, Copied, Ready
<1>6. FreshOK'
  BY DEF IInv, FreshOK, Write, service, Loaded, Copied, Ready
<1>7. OutcomeOK'
  BY DEF IInv, OutcomeOK, Write, service
<1>8. QED
  BY <1>1, <1>2, <1>3, <1>4, <1>5, <1>6, <1>7 DEF IInv

\* A wish.
LEMMA AskRefreshStep ==
  ASSUME IInv, NEW w \in Writer, AskRefresh(w)
  PROVE  IInv'
<1>1. TypeOK'
  BY DEF IInv, TypeOK, AskRefresh, service
<1>2. MutexOK'
  BY DEF IInv, MutexOK, AskRefresh, Building
<1>3. SourcesOK'
  BY DEF IInv, SourcesOK, AskRefresh, service
<1>4. DashesOK'
  BY DEF IInv, DashesOK, AskRefresh, service, Ready
<1>5. BuildsOK'
  BY DEF IInv, BuildsOK, AskRefresh, service, Loaded, Copied, Ready
<1>6. FreshOK'
  BY DEF IInv, FreshOK, AskRefresh, service, Loaded, Copied, Ready
<1>7. OutcomeOK'
  BY DEF IInv, OutcomeOK, AskRefresh, service
<1>8. QED
  BY <1>1, <1>2, <1>3, <1>4, <1>5, <1>6, <1>7 DEF IInv

\* A health request is no thread: whoever builds holds the mutex all the time.
LEMMA PeekStep ==
  ASSUME IInv, NEW h \in Health, Peek(h)
  PROVE  IInv'
<1>1. TypeOK'
  BY DEF IInv, TypeOK, Peek, others, service
<1>2. MutexOK'
  BY ThreadAssumption DEF IInv, MutexOK, Peek, Building
<1>3. SourcesOK'
  BY DEF IInv, SourcesOK, Peek, others, service
<1>4. DashesOK'
  BY ThreadAssumption DEF IInv, DashesOK, Peek, service, Ready
<1>5. BuildsOK'
  BY DEF IInv, BuildsOK, Peek, service, Loaded, Copied, Ready
<1>6. FreshOK'
  BY DEF IInv, FreshOK, Peek, others, service, Loaded, Copied, Ready
<1>7. OutcomeOK'
  BY ThreadAssumption DEF IInv, OutcomeOK, Peek, service
<1>8. QED
  BY <1>1, <1>2, <1>3, <1>4, <1>5, <1>6, <1>7 DEF IInv

LEMMA EndPeekStep ==
  ASSUME IInv, NEW h \in Health, EndPeek(h)
  PROVE  IInv'
<1>1. TypeOK'
  BY DEF IInv, TypeOK, EndPeek, others, service
<1>2. MutexOK'
  BY ThreadAssumption DEF IInv, MutexOK, EndPeek, Building
<1>3. SourcesOK'
  BY DEF IInv, SourcesOK, EndPeek, others, service
<1>4. DashesOK'
  BY ThreadAssumption DEF IInv, DashesOK, EndPeek, service, Ready
<1>5. BuildsOK'
  BY DEF IInv, BuildsOK, EndPeek, service, Loaded, Copied, Ready
<1>6. FreshOK'
  BY DEF IInv, FreshOK, EndPeek, others, service, Loaded, Copied, Ready
<1>7. OutcomeOK'
  BY ThreadAssumption DEF IInv, OutcomeOK, EndPeek, service
<1>8. QED
  BY <1>1, <1>2, <1>3, <1>4, <1>5, <1>6, <1>7 DEF IInv

\* Beginning a call: nothing is built yet.
LEMMA TickStep ==
  ASSUME IInv, NEW t \in Thread, Tick(t)
  PROVE  IInv'
<1>1. TypeOK'
  BY DEF IInv, TypeOK, Tick, Calls, Goto, service, Places
<1>2. MutexOK'
  BY DEF IInv, MutexOK, Tick, Calls, Goto, Building
<1>3. SourcesOK'
  BY DEF IInv, SourcesOK, Tick, Calls, service
<1>4. DashesOK'
  BY DEF IInv, DashesOK, Tick, Calls, Goto, service, Ready
<1>5. BuildsOK'
  BY DEF IInv, BuildsOK, Tick, Calls, Goto, service, Loaded, Copied, Ready
<1>6. FreshOK'
  BY DEF IInv, FreshOK, Tick, Calls, Goto, service, Loaded, Copied, Ready
<1>7. OutcomeOK'
  BY DEF IInv, OutcomeOK, Tick, Calls, Goto, service
<1>8. QED
  BY <1>1, <1>2, <1>3, <1>4, <1>5, <1>6, <1>7 DEF IInv

LEMMA RunTaskStep ==
  ASSUME IInv, NEW t \in Thread, RunTask(t)
  PROVE  IInv'
<1>1. TypeOK'
  BY DEF IInv, TypeOK, RunTask, Calls, Goto, service, Places
<1>2. MutexOK'
  BY DEF IInv, MutexOK, RunTask, Calls, Goto, Building
<1>3. SourcesOK'
  BY DEF IInv, TypeOK, SourcesOK, RunTask, Calls, service, Versions, Builds
<1>4. DashesOK'
  BY DEF IInv, DashesOK, RunTask, Calls, Goto, service, Ready
<1>5. BuildsOK'
  BY DEF IInv, BuildsOK, RunTask, Calls, Goto, service, Loaded, Copied, Ready
<1>6. FreshOK'
  BY DEF IInv, FreshOK, RunTask, Calls, Goto, service, Loaded, Copied, Ready
<1>7. OutcomeOK'
  BY DEF IInv, OutcomeOK, RunTask, Calls, Goto, service
<1>8. QED
  BY <1>1, <1>2, <1>3, <1>4, <1>5, <1>6, <1>7 DEF IInv

LEMMA TakeWishStep ==
  ASSUME IInv, NEW t \in Thread, TakeWish(t)
  PROVE  IInv'
<1>1. TypeOK'
  <2>1. asked' \in [Thread -> Versions]
    BY DEF IInv, TypeOK, TakeWish, Versions
  <2>2. want' \in BOOLEAN
    BY DEF TakeWish
  <2>3. QED
    BY <2>1, <2>2 DEF IInv, TypeOK, TakeWish, Calls, Goto, service, Places
<1>2. MutexOK'
  BY DEF IInv, MutexOK, TakeWish, Calls, Goto, Building
<1>3. SourcesOK'
  BY DEF IInv, TypeOK, SourcesOK, TakeWish, Calls, service
<1>4. DashesOK'
  BY DEF IInv, DashesOK, TakeWish, Calls, Goto, service, Ready
<1>5. BuildsOK'
  BY DEF IInv, BuildsOK, TakeWish, Calls, Goto, service, Loaded, Copied, Ready
<1>6. FreshOK'
  BY DEF IInv, FreshOK, TakeWish, Calls, Goto, service, Loaded, Copied, Ready
<1>7. OutcomeOK'
  BY DEF IInv, OutcomeOK, TakeWish, Calls, Goto, service
<1>8. QED
  BY <1>1, <1>2, <1>3, <1>4, <1>5, <1>6, <1>7 DEF IInv

LEMMA AskStep ==
  ASSUME IInv, NEW t \in Thread, Ask(t)
  PROVE  IInv'
<1>1. TypeOK'
  BY DEF IInv, TypeOK, Ask, Calls, Goto, service, Versions, Places
<1>2. MutexOK'
  BY DEF IInv, MutexOK, Ask, Calls, Goto, Building
<1>3. SourcesOK'
  BY DEF IInv, TypeOK, SourcesOK, Ask, Calls, service
<1>4. DashesOK'
  BY DEF IInv, DashesOK, Ask, Calls, Goto, service, Ready
<1>5. BuildsOK'
  BY DEF IInv, BuildsOK, Ask, Calls, Goto, service, Loaded, Copied, Ready
<1>6. FreshOK'
  BY DEF IInv, FreshOK, Ask, Calls, Goto, service, Loaded, Copied, Ready
<1>7. OutcomeOK'
  BY DEF IInv, OutcomeOK, Ask, Calls, Goto, service
<1>8. QED
  BY <1>1, <1>2, <1>3, <1>4, <1>5, <1>6, <1>7 DEF IInv

\* A skipped turn.
LEMMA SkipStep ==
  ASSUME IInv, NEW t \in Thread, Skip(t)
  PROVE  IInv'
<1>1. TypeOK'
  BY DEF IInv, TypeOK, Skip, Goto, others, service, Places
<1>2. MutexOK'
  BY DEF IInv, MutexOK, Skip, Goto, Building
<1>3. SourcesOK'
  BY DEF IInv, SourcesOK, Skip, others, service
<1>4. DashesOK'
  BY DEF IInv, DashesOK, Skip, Goto, service, Ready
<1>5. BuildsOK'
  BY DEF IInv, BuildsOK, Skip, Goto, service, Loaded, Copied, Ready
<1>6. FreshOK'
  BY DEF IInv, FreshOK, Skip, Goto, others, service, Loaded, Copied, Ready
<1>7. OutcomeOK'
  BY DEF IInv, OutcomeOK, Skip, Goto, service
<1>8. QED
  BY <1>1, <1>2, <1>3, <1>4, <1>5, <1>6, <1>7 DEF IInv

\* The mutex was free, so the next dashboards are in service.
LEMMA LockStep ==
  ASSUME IInv, NEW t \in Thread, Lock(t)
  PROVE  IInv'
<1>1. TypeOK'
  BY DEF IInv, TypeOK, Lock, Goto, others, service, Places
<1>2. MutexOK'
  BY ThreadAssumption DEF IInv, TypeOK, MutexOK, Lock, Goto, Building
<1>3. SourcesOK'
  BY DEF IInv, SourcesOK, Lock, others, service
<1>4. DashesOK'
  BY ThreadAssumption DEF IInv, DashesOK, Lock, Goto, service, Ready
<1>5. BuildsOK'
  BY DEF IInv, BuildsOK, Lock, Goto, service, Loaded, Copied, Ready
<1>6. FreshOK'
  BY DEF IInv, FreshOK, Lock, Goto, others, service, Loaded, Copied, Ready
<1>7. OutcomeOK'
  BY ThreadAssumption DEF IInv, OutcomeOK, Lock, Goto, service
<1>8. QED
  BY <1>1, <1>2, <1>3, <1>4, <1>5, <1>6, <1>7 DEF IInv

-----------------------------------------------------------------------------
\* A build that fails changes nothing that anybody else sees.
LEMMA FailsStep ==
  ASSUME IInv, NEW t \in Thread, pc[t] \in {"load", "copy", "check"}, Fails(t),
         UNCHANGED <<others, service, holder>>
  PROVE  IInv'
<1> DEFINE b == [NoBuild EXCEPT !.ok = FALSE]
<1>0. /\ b \in Builds /\ b.data = 0 /\ b.set = 0 /\ b.ok = FALSE
      /\ build \in [Thread -> Builds] /\ pc \in [Thread -> Places]
  BY DEF IInv, TypeOK, NoBuild, Builds
<1>1. build' = [build EXCEPT ![t] = b] /\ pc' = [pc EXCEPT ![t] = "built"] /\ dashes' = dashes
  BY DEF Fails, Goto
<1> HIDE DEF b
<1>2. /\ build'[t].data = 0 /\ build'[t].set = 0 /\ build'[t].ok = FALSE /\ pc'[t] = "built"
      /\ \A u \in Thread \ {t} : build'[u] = build[u] /\ pc'[u] = pc[u]
  BY <1>0, <1>1
<1>3. ~Ready(t) /\ ~Ready(t)'
  BY <1>2 DEF Ready
<1>4. \A u \in Thread \ {t} : /\ Ready(u)' <=> Ready(u)
                              /\ Loaded(u)' <=> Loaded(u)
                              /\ Copied(u)' <=> Copied(u)
  BY <1>2 DEF Ready, Loaded, Copied
<1>5. TypeOK'
  <2>1. build' \in [Thread -> Builds] /\ pc' \in [Thread -> Places]
    BY <1>0, <1>1 DEF Places
  <2>2. QED
    BY <1>1, <2>1 DEF IInv, TypeOK, others, service
<1>6. MutexOK'
  BY <1>2 DEF IInv, MutexOK, Building
<1>7. SourcesOK'
  BY <1>1, <1>2 DEF IInv, SourcesOK, TypeOK, others, service
<1>8. DashesOK'
  BY <1>1, <1>2, <1>3, <1>4 DEF IInv, DashesOK, service
<1>9. BuildsOK'
  BY <1>2, <1>3, <1>4 DEF IInv, BuildsOK, Loaded, Copied, service
<1>10. FreshOK'
  BY <1>2, <1>3, <1>4 DEF IInv, FreshOK, Loaded, Copied, Waiting, Thread, others, service
<1>11. OutcomeOK'
  BY <1>2 DEF IInv, OutcomeOK, service
<1>12. QED
  BY <1>5, <1>6, <1>7, <1>8, <1>9, <1>10, <1>11 DEF IInv

\* The dashboards are those in service, or newer ones of a reload.
LEMMA LoadStep ==
  ASSUME IInv, NEW t \in Thread, Load(t)
  PROVE  IInv'
<1> DEFINE s == IF t \in Reload THEN folder ELSE dashes
           b == [NoBuild EXCEPT !.set = s]
<1> SUFFICES ASSUME build' = [build EXCEPT ![t] = b], Goto(t, "copy"), UNCHANGED dashes
             PROVE  IInv'
  BY FailsStep DEF Load
<1>0. /\ s \in Nat /\ s <= folder /\ s >= gen.set
      /\ t \in Reload => s = folder
      /\ t \notin Reload => s = dashes
  <2>1. dashes = gen.set
    BY DEF IInv, DashesOK, MutexOK, Ready, Building, Load
  <2>2. QED
    BY <2>1 DEF IInv, TypeOK, SourcesOK
<1> HIDE DEF s
<1>1. /\ b \in Builds /\ b.data = 0 /\ b.set = s /\ b.ok = TRUE
      /\ build \in [Thread -> Builds] /\ pc \in [Thread -> Places]
  BY <1>0 DEF IInv, TypeOK, NoBuild, Builds
<1> HIDE DEF b
<1>2. /\ build'[t].data = 0 /\ build'[t].set = s /\ build'[t].ok = TRUE /\ pc'[t] = "copy"
      /\ \A u \in Thread \ {t} : build'[u] = build[u] /\ pc'[u] = pc[u]
  BY <1>1 DEF Goto
<1>3. pc[t] = "load" /\ UNCHANGED <<others, service, holder>>
  BY DEF Load
<1>4. \A u \in Thread \ {t} : /\ Ready(u)' <=> Ready(u)
                              /\ Loaded(u)' <=> Loaded(u)
                              /\ Copied(u)' <=> Copied(u)
  BY <1>2 DEF Ready, Loaded, Copied
<1>5. ~Ready(t) /\ ~Ready(t)' /\ ~Copied(t)'
  BY <1>2, <1>3 DEF Ready, Copied
<1>6. TypeOK'
  <2>1. build' \in [Thread -> Builds] /\ pc' \in [Thread -> Places]
    BY <1>1 DEF Places, Goto
  <2>2. QED
    BY <1>3, <2>1 DEF IInv, TypeOK, others, service
<1>7. MutexOK'
  BY <1>2, <1>3 DEF IInv, MutexOK, Building
<1>8. SourcesOK'
  BY <1>0, <1>2, <1>3 DEF IInv, SourcesOK, TypeOK, others, service
<1>9. DashesOK'
  BY <1>0, <1>2, <1>3, <1>4, <1>5 DEF IInv, DashesOK, service
<1>10. BuildsOK'
  BY <1>0, <1>2, <1>3, <1>4, <1>5 DEF IInv, BuildsOK, service
<1>11. FreshOK'
  <2>1. asked[t].set <= folder
    BY DEF IInv, SourcesOK
  <2>2. QED
    BY <1>0, <1>2, <1>3, <1>4, <1>5, <2>1 DEF IInv, FreshOK, Waiting, Thread, others, service
<1>12. OutcomeOK'
  BY <1>2, <1>3 DEF IInv, OutcomeOK, service
<1>13. QED
  BY <1>6, <1>7, <1>8, <1>9, <1>10, <1>11, <1>12 DEF IInv

\* A copy that is as new as what it may be compared with.
LEMMA CopiedStep ==
  ASSUME IInv, NEW t \in Thread, NEW d \in Nat, pc[t] = "copy",
         d <= data, d >= gen.data, d >= asked[t].data,
         build' = [build EXCEPT ![t].data = d], Goto(t, "check"),
         UNCHANGED <<others, dashes, service, holder>>
  PROVE  IInv'
<1> DEFINE b == [build[t] EXCEPT !.data = d]
<1>0. build \in [Thread -> Builds] /\ pc \in [Thread -> Places]
  BY DEF IInv, TypeOK
<1>1. b \in Builds /\ b.data = d /\ b.set = build[t].set /\ b.ok = build[t].ok
  BY <1>0 DEF Builds
<1>a. build' = [build EXCEPT ![t] = b]
  OBVIOUS
<1> HIDE DEF b
<1>2. /\ build'[t].data = d /\ build'[t].set = build[t].set /\ build'[t].ok = build[t].ok
      /\ pc'[t] = "check"
      /\ \A u \in Thread \ {t} : build'[u] = build[u] /\ pc'[u] = pc[u]
  BY <1>0, <1>1, <1>a DEF Goto
<1>4. \A u \in Thread \ {t} : /\ Ready(u)' <=> Ready(u)
                              /\ Loaded(u)' <=> Loaded(u)
                              /\ Copied(u)' <=> Copied(u)
  BY <1>2 DEF Ready, Loaded, Copied
<1>5. ~Ready(t) /\ ~Ready(t)' /\ Loaded(t)
  BY <1>2 DEF Ready, Loaded
<1>6. TypeOK'
  <2>1. build' \in [Thread -> Builds] /\ pc' \in [Thread -> Places]
    BY <1>0, <1>1, <1>a DEF Places, Goto
  <2>2. QED
    BY <2>1 DEF IInv, TypeOK, others, service
<1>7. MutexOK'
  BY <1>2 DEF IInv, MutexOK, Building
<1>8. SourcesOK'
  BY <1>2 DEF IInv, SourcesOK, TypeOK, others, service
<1>9. DashesOK'
  BY <1>2, <1>4, <1>5 DEF IInv, DashesOK, service
<1>10. BuildsOK'
  BY <1>2, <1>4, <1>5 DEF IInv, TypeOK, BuildsOK, others, service
<1>11. FreshOK'
  BY <1>2, <1>4, <1>5 DEF IInv, FreshOK, Waiting, Thread, others, service
<1>12. OutcomeOK'
  BY <1>2 DEF IInv, OutcomeOK, service
<1>13. QED
  BY <1>6, <1>7, <1>8, <1>9, <1>10, <1>11, <1>12 DEF IInv

\* The data is the newest there is.
LEMMA CopyStep ==
  ASSUME IInv, NEW t \in Thread, Copy(t)
  PROVE  IInv'
<1>1. /\ pc[t] = "copy" /\ data \in Nat /\ gen.data <= data /\ asked[t].data <= data
      /\ asked[t] \in Versions /\ gen.data \in Nat
  BY DEF IInv, TypeOK, SourcesOK, Copy
<1>2. CASE Fails(t)
  BY <1>1, <1>2, FailsStep DEF Copy
<1>3. ASSUME build' = [build EXCEPT ![t].data = data], Goto(t, "check"), UNCHANGED dashes
      PROVE  IInv'
  <2> DEFINE d == data
  <2>1. /\ d \in Nat /\ d <= data /\ d >= gen.data /\ d >= asked[t].data
        /\ build' = [build EXCEPT ![t].data = d]
    BY <1>1, <1>3 DEF Versions
  <2>2. UNCHANGED <<others, dashes, service, holder>>
    BY <1>3 DEF Copy
  <2> HIDE DEF d
  <2>3. QED
    BY <1>1, <1>3, <2>1, <2>2, CopiedStep
<1>4. QED
  BY <1>2, <1>3 DEF Copy

\* A reload's dashboards are the next ones from here on.
LEMMA CheckStep ==
  ASSUME IInv, NEW t \in Thread, Check(t)
  PROVE  IInv'
<1> SUFFICES ASSUME UNCHANGED build, Goto(t, "built"),
                    dashes' = IF t \in Reload THEN build[t].set ELSE dashes
             PROVE  IInv'
  BY FailsStep DEF Check
<1>1. pc[t] = "check" /\ UNCHANGED <<others, service, holder>>
  BY DEF Check
<1>2. pc'[t] = "built" /\ (\A u \in Thread \ {t} : pc'[u] = pc[u])
  BY DEF IInv, TypeOK, Goto
<1>3. build[t].ok /\ Ready(t)' /\ Loaded(t) /\ Copied(t)
  BY <1>1, <1>2 DEF IInv, BuildsOK, Ready, Loaded, Copied
<1>4. \A u \in Thread \ {t} : /\ Ready(u)' <=> Ready(u)
                              /\ Loaded(u)' <=> Loaded(u)
                              /\ Copied(u)' <=> Copied(u)
  BY <1>2 DEF Ready, Loaded, Copied
<1>5. holder = t /\ (\A u \in Thread \ {t} : ~Building(u))
  BY <1>1 DEF IInv, MutexOK, Building
<1>6. dashes' = build[t].set
  BY <1>1 DEF IInv, DashesOK
<1>7. build[t] \in Builds
  BY DEF IInv, TypeOK
<1>8. TypeOK'
  <2>1. pc' \in [Thread -> Places]
    BY DEF IInv, TypeOK, Places, Goto
  <2>2. QED
    BY <1>1, <1>6, <1>7, <2>1 DEF IInv, TypeOK, Builds, others, service
<1>9. MutexOK'
  BY <1>1, <1>2 DEF IInv, MutexOK, Building
<1>10. SourcesOK'
  BY <1>1, <1>6 DEF IInv, SourcesOK, others, service
<1>11. DashesOK'
  BY <1>1, <1>2, <1>3, <1>5, <1>6 DEF IInv, Ready, Building, DashesOK
<1>12. BuildsOK'
  BY <1>1, <1>2, <1>3, <1>4 DEF IInv, BuildsOK, service
<1>13. FreshOK'
  BY <1>1, <1>2, <1>3, <1>4 DEF IInv, FreshOK, Waiting, Thread, others, service
<1>14. OutcomeOK'
  BY <1>1, <1>2 DEF IInv, OutcomeOK, service
<1>15. QED
  BY <1>8, <1>9, <1>10, <1>11, <1>12, <1>13, <1>14 DEF IInv


\* Flag, then count.
LEMMA MarkOutcomeStep ==
  ASSUME IInv, NEW t \in Thread, MarkOutcome(t)
  PROVE  IInv'
<1>1. TypeOK'
  BY DEF IInv, TypeOK, MarkOutcome, Goto, others, Places
<1>2. MutexOK'
  BY DEF IInv, MutexOK, MarkOutcome, Goto, Building
<1>3. SourcesOK'
  BY DEF IInv, SourcesOK, MarkOutcome, others
<1>4. DashesOK'
  BY DEF IInv, DashesOK, MarkOutcome, Goto, Ready
<1>5. BuildsOK'
  BY DEF IInv, BuildsOK, MarkOutcome, Goto, Loaded, Copied, Ready
<1>6. FreshOK'
  BY DEF IInv, FreshOK, MarkOutcome, Goto, others, Loaded, Copied, Ready
<1>7. OutcomeOK'
  BY DEF IInv, TypeOK, MutexOK, OutcomeOK, MarkOutcome, Goto, Building
<1>8. QED
  BY <1>1, <1>2, <1>3, <1>4, <1>5, <1>6, <1>7 DEF IInv

LEMMA CountOutcomeStep ==
  ASSUME IInv, NEW t \in Thread, CountOutcome(t)
  PROVE  IInv'
<1>1. TypeOK'
  BY DEF IInv, TypeOK, CountOutcome, Goto, others, Places
<1>2. MutexOK'
  BY DEF IInv, MutexOK, CountOutcome, Goto, Building
<1>3. SourcesOK'
  BY DEF IInv, SourcesOK, CountOutcome, others
<1>4. DashesOK'
  BY DEF IInv, DashesOK, CountOutcome, Goto, Ready
<1>5. BuildsOK'
  BY DEF IInv, BuildsOK, CountOutcome, Goto, Loaded, Copied, Ready
<1>6. FreshOK'
  BY DEF IInv, FreshOK, CountOutcome, Goto, others, Loaded, Copied, Ready
<1>7. OutcomeOK'
  BY DEF IInv, TypeOK, OutcomeOK, CountOutcome, Goto
<1>8. QED
  BY <1>1, <1>2, <1>3, <1>4, <1>5, <1>6, <1>7 DEF IInv

\* The build is no older than what is in service, and becomes it.
LEMMA SwapStep ==
  ASSUME IInv, NEW t \in Thread, Swap(t)
  PROVE  IInv'
<1>1. TypeOK'
  BY DEF IInv, TypeOK, Swap, Goto, others, Builds, Places
<1>2. MutexOK'
  BY DEF IInv, MutexOK, Swap, Goto, Building
<1>3. SourcesOK'
  BY DEF IInv, SourcesOK, Swap, others
<1>4. DashesOK'
  BY DEF IInv, DashesOK, BuildsOK, Swap, Goto, Ready
<1>5. BuildsOK'
  BY DEF IInv, TypeOK, MutexOK, BuildsOK, Swap, Goto, Building, Loaded, Copied, Ready
<1>6. FreshOK'
  BY DEF IInv, TypeOK, BuildsOK, FreshOK, Swap, Goto, others, Versions, Builds,
     Loaded, Copied, Ready, Waiting, Thread
<1>7. OutcomeOK'
  BY DEF IInv, OutcomeOK, Swap, Goto
<1>8. QED
  BY <1>1, <1>2, <1>3, <1>4, <1>5, <1>6, <1>7 DEF IInv

\* Flag and count agree again, and the dashboards are in service.
LEMMA UnlockStep ==
  ASSUME IInv, NEW t \in Thread, Unlock(t)
  PROVE  IInv'
<1>1. TypeOK'
  BY DEF IInv, TypeOK, Unlock, Goto, others, service, Places
<1>2. MutexOK'
  BY ThreadAssumption DEF IInv, TypeOK, MutexOK, Unlock, Goto, Building
<1>3. SourcesOK'
  BY DEF IInv, SourcesOK, Unlock, others, service
<1>4. DashesOK'
  BY DEF IInv, MutexOK, DashesOK, Unlock, Goto, service, Building, Ready
<1>5. BuildsOK'
  BY DEF IInv, BuildsOK, Unlock, Goto, service, Loaded, Copied, Ready
<1>6. FreshOK'
  BY DEF IInv, FreshOK, Unlock, Goto, others, service, Loaded, Copied, Ready
<1>7. OutcomeOK'
  BY DEF IInv, MutexOK, OutcomeOK, Unlock, Goto, service, Building
<1>8. QED
  BY <1>1, <1>2, <1>3, <1>4, <1>5, <1>6, <1>7 DEF IInv

LEMMA ReturnStep ==
  ASSUME IInv, NEW t \in Thread, Return(t)
  PROVE  IInv'
<1>1. TypeOK'
  BY DEF IInv, TypeOK, Return, NoBuild, NoVersions, Goto, service, Versions, Builds,
     Places
<1>2. MutexOK'
  BY DEF IInv, MutexOK, Return, Goto, Building
<1>3. SourcesOK'
  BY DEF IInv, TypeOK, SourcesOK, Return, NoBuild, NoVersions, service
<1>4. DashesOK'
  BY DEF IInv, DashesOK, Return, Goto, service, Ready
<1>5. BuildsOK'
  BY DEF IInv, BuildsOK, Return, Goto, service, Loaded, Copied, Ready
<1>6. FreshOK'
  BY DEF IInv, TypeOK, FreshOK, Return, Goto, service, Loaded, Copied, Ready
<1>7. OutcomeOK'
  BY DEF IInv, OutcomeOK, Return, Goto, service
<1>8. QED
  BY <1>1, <1>2, <1>3, <1>4, <1>5, <1>6, <1>7 DEF IInv

-----------------------------------------------------------------------------
LEMMA InitIInv == Init => IInv
<1> SUFFICES ASSUME Init PROVE IInv
  OBVIOUS
<1>1. \A t \in Thread : pc[t] = "idle" /\ build[t] = NoBuild /\ asked[t] = NoVersions
  BY DEF Init
<1>2. TypeOK
  BY DEF Init, TypeOK, Places, Versions, Builds, NoBuild, NoVersions
<1>3. MutexOK
  BY <1>1, ThreadAssumption DEF Init, MutexOK, Building
<1>4. SourcesOK
  BY <1>1 DEF Init, SourcesOK, NoBuild, NoVersions
<1>5. DashesOK /\ BuildsOK
  BY <1>1 DEF Init, DashesOK, BuildsOK, Loaded, Copied, Ready
<1>6. FreshOK
  BY <1>1 DEF Init, FreshOK, Loaded, Copied, Ready, Waiting, Thread
<1>7. OutcomeOK
  BY <1>1 DEF Init, OutcomeOK
<1>8. QED
  BY <1>2, <1>3, <1>4, <1>5, <1>6, <1>7 DEF IInv

LEMMA StutterStep ==
  ASSUME IInv, UNCHANGED vars
  PROVE  IInv'
<1>1. TypeOK' /\ MutexOK' /\ SourcesOK'
  BY DEF IInv, TypeOK, MutexOK, Building, SourcesOK, vars, service
<1>2. DashesOK' /\ BuildsOK' /\ FreshOK' /\ OutcomeOK'
  BY DEF IInv, DashesOK, BuildsOK, FreshOK, OutcomeOK, Loaded, Copied, Ready, vars, service
<1>3. QED
  BY <1>1, <1>2 DEF IInv

LEMMA NextIInv == IInv /\ [Next]_vars => IInv'
<1> SUFFICES ASSUME IInv, [Next]_vars PROVE IInv'
  OBVIOUS
<1>1. CASE Edit
  BY <1>1, EditStep
<1>2. ASSUME NEW w \in Writer, Write(w) \/ AskRefresh(w) PROVE IInv'
  BY <1>2, WriteStep, AskRefreshStep
<1>3. ASSUME NEW h \in Health, Peek(h) \/ EndPeek(h) PROVE IInv'
  BY <1>3, PeekStep, EndPeekStep
<1>4. ASSUME NEW t \in Thread, Call(t) PROVE IInv'
  BY <1>4, TickStep, RunTaskStep, TakeWishStep, AskStep DEF Call
<1>5. ASSUME NEW t \in Thread, Rebuild(t) PROVE IInv'
  BY <1>5, LockStep, LoadStep, CopyStep, CheckStep, MarkOutcomeStep, CountOutcomeStep,
     SwapStep, UnlockStep DEF Rebuild
<1>6. ASSUME NEW t \in Thread, Skip(t) \/ Return(t) PROVE IInv'
  BY <1>6, SkipStep, ReturnStep
<1>7. CASE UNCHANGED vars
  BY <1>7, StutterStep
<1>8. QED
  BY <1>1, <1>2, <1>3, <1>4, <1>5, <1>6, <1>7 DEF Next, Finished

(***************************************************************************)
(* IInv holds in every reachable state: what `rebuild' relies on when it   *)
(* takes the mutex is always there.                                        *)
(***************************************************************************)
THEOREM Invariance == Spec => []IInv
<1>1. QED
  BY InitIInv, NextIInv, PTL DEF Spec

(***************************************************************************)
(* Type correctness of the refresh state.                                  *)
(***************************************************************************)
THEOREM TypeCorrect == Spec => []TypeOK
<1>1. IInv => TypeOK
  BY DEF IInv
<1>2. QED
  BY <1>1, Invariance, PTL

(***************************************************************************)
(* Between rebuilds the next refresh builds from the dashboards in service:*)
(* a failed reload leaves nothing behind (`Locked::reload').               *)
(***************************************************************************)
THEOREM RunningSetServedHolds == Spec => []RunningSetServed
<1>1. IInv => RunningSetServed
  BY DEF IInv, DashesOK, RunningSetServed
<1>2. QED
  BY <1>1, Invariance, PTL

(***************************************************************************)
(* A caller that waits for the mutex is served what was there when it      *)
(* asked (`Current::rebuild' with wait).                                   *)
(***************************************************************************)
THEOREM FreshOnReturnHolds == Spec => []FreshOnReturn
<1>1. IInv => FreshOnReturn
  BY DEF IInv, FreshOK, FreshOnReturn
<1>2. QED
  BY <1>1, Invariance, PTL

(***************************************************************************)
(* /healthz between rebuilds: the flag says "failed" exactly when the count*)
(* of failures in a row is not zero (`Current::rebuild').                  *)
(***************************************************************************)
THEOREM FailuresCountedHolds == Spec => []FailuresCounted
<1>1. IInv => FailuresCounted
  BY DEF IInv, OutcomeOK, FailuresCounted
<1>2. QED
  BY <1>1, Invariance, PTL

(***************************************************************************)
(* Whoever rebuilds, the generation in service never goes back.            *)
(***************************************************************************)
THEOREM NeverBackwardsHolds == Spec => NeverBackwards
<1> DEFINE Forward == /\ gen'.epoch \in {gen.epoch, gen.epoch + 1}
                      /\ gen'.data >= gen.data /\ gen'.set >= gen.set
<1>1. ASSUME IInv, NEW t \in Thread, Swap(t) PROVE Forward
  <2>1. build[t].ok /\ Loaded(t) /\ Copied(t)
    BY <1>1 DEF IInv, BuildsOK, Swap, Loaded, Copied, Ready
  <2>2. build[t].data >= gen.data /\ build[t].set >= gen.set
    BY <1>1, <2>1 DEF IInv, BuildsOK
  <2>3. QED
    BY <1>1, <2>2 DEF Swap
<1>2. ASSUME IInv, UNCHANGED gen PROVE Forward
  BY <1>2 DEF IInv, TypeOK
<1>3. IInv /\ [Next]_vars => [Forward]_vars
  <2> SUFFICES ASSUME IInv, Next PROVE Forward
    OBVIOUS
  <2>1. UNCHANGED gen \/ \E t \in Thread : Swap(t)
    BY DEF Next, Edit, Write, AskRefresh, Peek, EndPeek, Call, Tick, RunTask, TakeWish, Ask,
       Calls, Skip, Rebuild, Lock, Load, Copy, Check, MarkOutcome, CountOutcome, Unlock,
       Return, Finished, vars, service
  <2>2. QED
    BY <1>1, <1>2, <2>1
<1>4. QED
  BY <1>3, Invariance, PTL DEF Spec, NeverBackwards

-----------------------------------------------------------------------------
\* A thread of the ingest refresher is of no other kind.
LEMMA IngestOnly ==
  ASSUME NEW t \in Ingest
  PROVE  t \in Thread /\ t \in Waiting /\ t \notin Interval \cup Task \cup Demand \cup Reload
BY ThreadAssumption DEF Thread, Waiting

\* A step after which every batch has what it had.
LEMMA WishFrame ==
  ASSUME WishOK, IInv, IInv',
         UNCHANGED <<want, wpc>>,
         data' >= data, gen'.data >= gen.data,
         \A w \in Writer : wrote'[w] = wrote[w],
         \A t \in Ingest : pc'[t] # "try",
         \A t \in Ingest, w \in Writer :
           Owed(t, w) => Owed(t, w)' \/ gen'.data >= wrote[w]
  PROVE  WishOK'
<1>1. /\ data \in Nat /\ data' \in Nat /\ gen.data \in Nat /\ gen'.data \in Nat
      /\ \A w \in Writer : wrote[w] \in Nat
  BY DEF IInv, TypeOK
<1>2. \A w \in Writer : wrote'[w] <= data'
  BY <1>1 DEF WishOK
<1>3. ASSUME NEW w \in Writer, wpc'[w] = "done", ~want', gen'.data < wrote'[w]
      PROVE  \E t \in Ingest : Owed(t, w)'
  <2>1. wrote'[w] = wrote[w] /\ ~(gen.data >= wrote[w]) /\ ~want /\ wpc[w] = "done"
    BY <1>1, <1>3
  <2>2. PICK t \in Ingest : Owed(t, w)
    BY <2>1 DEF WishOK
  <2>3. Owed(t, w)'
    BY <1>1, <1>3, <2>1, <2>2
  <2>4. QED
    BY <2>3
<1>4. \A w \in Writer : wrote'[w] \in Nat
  BY <1>1
<1>5. QED
  BY <1>1, <1>2, <1>3, <1>4 DEF WishOK

\* Steps that do not concern the ingest refresher, or leave it in its call.
LEMMA WishSame ==
  ASSUME WishOK, IInv, IInv',
         UNCHANGED <<want, wpc>>,
         data' >= data, gen'.data >= gen.data,
         \A w \in Writer : wrote'[w] = wrote[w],
         \A t \in Ingest :
           /\ asked'[t] = asked[t]
           /\ \/ pc'[t] = pc[t] /\ build'[t] = build[t]
              \/ pc[t] # "idle" /\ pc'[t] \notin {"idle", "try"}
  PROVE  WishOK'
<1>1. \A t \in Ingest : pc'[t] # "try"
  BY DEF WishOK
<1>2. ASSUME NEW t \in Ingest, NEW w \in Writer, Owed(t, w) PROVE Owed(t, w)'
  BY <1>2 DEF Owed
<1>3. QED
  BY <1>1, <1>2, WishFrame

LEMMA WishCall ==
  ASSUME WishOK, IInv, IInv', NEW t \in Thread, Call(t)
  PROVE  WishOK'
<1>0. /\ data \in Nat /\ gen.data \in Nat /\ wrote \in [Writer \cup Task -> Nat]
      /\ pc \in [Thread -> Places] /\ asked \in [Thread -> Versions]
  BY DEF IInv, TypeOK
<1>1. CASE Tick(t)
  <2>1. \A u \in Ingest : pc'[u] = pc[u] /\ build'[u] = build[u] /\ asked'[u] = asked[u]
    BY <1>0, <1>1, IngestOnly DEF Tick, Calls, Goto
  <2>2. UNCHANGED <<want, wpc, data, gen, wrote>>
    BY <1>1 DEF Tick, Calls, service
  <2>3. QED
    BY <1>0, <2>1, <2>2, WishSame
<1>2. CASE RunTask(t)
  <2>1. \A u \in Ingest : pc'[u] = pc[u] /\ build'[u] = build[u] /\ asked'[u] = asked[u]
    BY <1>0, <1>2, IngestOnly DEF RunTask, Calls, Goto
  <2>2. UNCHANGED <<want, wpc, gen>> /\ data' >= data
    BY <1>0, <1>2 DEF RunTask, Calls, service
  <2>3. \A w \in Writer : wrote'[w] = wrote[w]
    BY <1>0, <1>2, ThreadAssumption DEF RunTask
  <2>4. QED
    BY <1>0, <2>1, <2>2, <2>3, WishSame
<1>3. CASE TakeWish(t)
  <2>1. t \in Ingest /\ pc'[t] = "wait" /\ asked'[t].data = data
    BY <1>0, <1>3 DEF TakeWish, Calls, Goto
  <2>2. UNCHANGED <<data, wrote>>
    BY <1>3 DEF TakeWish
  <2>3. \A w \in Writer : wrote'[w] <= data' /\ Owed(t, w)'
    BY <1>0, <2>1, <2>2 DEF WishOK, Owed
  <2>4. \A u \in Ingest : pc'[u] # "try"
    BY <1>0, <1>3 DEF WishOK, TakeWish, Calls, Goto
  <2>5. QED
    BY <2>1, <2>3, <2>4 DEF WishOK
<1>4. CASE Ask(t)
  <2>1. \A u \in Ingest : pc'[u] = pc[u] /\ build'[u] = build[u] /\ asked'[u] = asked[u]
    BY <1>0, <1>4, IngestOnly DEF Ask, Calls, Goto
  <2>2. UNCHANGED <<want, wpc, data, gen, wrote>>
    BY <1>4 DEF Ask, Calls, service
  <2>3. QED
    BY <1>0, <2>1, <2>2, WishSame
<1>5. QED
  BY <1>1, <1>2, <1>3, <1>4 DEF Call

\* In `rebuild' what was asked for stays.
LEMMA WishRebuild ==
  ASSUME WishOK, IInv, IInv', NEW t \in Thread, Rebuild(t)
  PROVE  WishOK'
<1>0. /\ data \in Nat /\ gen.data \in Nat /\ wrote \in [Writer \cup Task -> Nat]
      /\ pc \in [Thread -> Places] /\ build \in [Thread -> Builds]
  BY DEF IInv, TypeOK
<1>1. /\ UNCHANGED others
      /\ pc[t] # "idle" /\ pc'[t] \notin {"idle", "try"}
      /\ \A u \in Thread \ {t} : pc'[u] = pc[u] /\ build'[u] = build[u]
  BY <1>0 DEF Rebuild, Lock, Load, Copy, Check, MarkOutcome, CountOutcome, Swap, Unlock,
     Fails, Goto
<1>2. UNCHANGED gen \/ Swap(t)
  BY DEF Rebuild, Lock, Load, Copy, Check, MarkOutcome, CountOutcome, Unlock, service
<1>3. gen'.data >= gen.data
  <2>1. CASE Swap(t)
    BY <2>1 DEF IInv, BuildsOK, Swap, Copied, Ready
  <2>2. QED
    BY <1>0, <1>2, <2>1
<1>4. UNCHANGED <<want, wpc, data, wrote, asked>>
  BY <1>1 DEF others
<1>5. \A u \in Ingest : u \in Thread
  BY IngestOnly
<1>6. QED
  BY <1>0, <1>1, <1>3, <1>4, <1>5, WishSame

\* The thread served its batches, or the refresh failed.
LEMMA WishReturn ==
  ASSUME WishOK, IInv, IInv', NEW t \in Thread, Return(t)
  PROVE  WishOK'
<1>0. /\ data \in Nat /\ gen.data \in Nat /\ wrote \in [Writer \cup Task -> Nat]
      /\ pc \in [Thread -> Places] /\ build \in [Thread -> Builds]
      /\ asked \in [Thread -> Versions]
  BY DEF IInv, TypeOK
<1>1. /\ UNCHANGED <<want, wpc, data, wrote, gen>>
      /\ pc[t] = "after" /\ pc'[t] = "idle" /\ build'[t].ok = build[t].ok
      /\ \A u \in Thread \ {t} :
           pc'[u] = pc[u] /\ build'[u] = build[u] /\ asked'[u] = asked[u]
  BY <1>0 DEF Return, Goto, service, NoBuild, Builds
<1>2. ASSUME NEW u \in Ingest, NEW w \in Writer, Owed(u, w)
      PROVE  Owed(u, w)' \/ gen'.data >= wrote[w]
  <2>0. u \in Thread /\ u \in Waiting
    BY IngestOnly
  <2>1. CASE u # t
    BY <1>1, <1>2, <2>0, <2>1 DEF Owed
  <2>2. CASE u = t /\ ~build[t].ok
    BY <1>1, <2>2 DEF Owed
  <2>3. CASE u = t /\ build[t].ok
    <3>1. asked[t].data >= wrote[w] /\ gen.data >= asked[t].data
      BY <1>1, <1>2, <2>0, <2>3 DEF Owed, IInv, FreshOK
    <3>2. wrote[w] \in Nat /\ asked[t].data \in Nat
      BY <1>0 DEF Versions
    <3>3. QED
      BY <1>0, <1>1, <3>1, <3>2
  <2>4. QED
    BY <2>1, <2>2, <2>3
<1>3. \A u \in Ingest : pc'[u] # "try"
  BY <1>1, IngestOnly DEF WishOK
<1>4. QED
  BY <1>0, <1>1, <1>2, <1>3, WishFrame

LEMMA WishNext == IInv /\ IInv' /\ WishOK /\ [Next]_vars => WishOK'
<1> SUFFICES ASSUME IInv, IInv', WishOK, [Next]_vars PROVE WishOK'
  OBVIOUS
<1>0. data \in Nat /\ gen.data \in Nat /\ wrote \in [Writer \cup Task -> Nat]
  BY DEF IInv, TypeOK
<1>1. CASE Edit \/ UNCHANGED vars
  BY <1>0, <1>1, WishSame DEF Edit, vars, service
<1>2. ASSUME NEW w \in Writer, Write(w) PROVE WishOK'
  <2>1. /\ data' = data + 1 /\ wrote'[w] = data'
        /\ \A v \in Writer \ {w} : wrote'[v] = wrote[v] /\ wpc'[v] = wpc[v]
        /\ wpc'[w] = "written"
    BY <1>0, <1>2 DEF Write, IInv, TypeOK
  <2>2. UNCHANGED <<gen, want, pc, build, asked>>
    BY <1>2 DEF Write, service
  <2>3. \A v \in Writer : wrote'[v] <= data'
    BY <1>0, <2>1 DEF WishOK
  <2>4. \A v \in Writer \ {w}, t \in Ingest : Owed(t, v)' <=> Owed(t, v)
    BY <2>1, <2>2 DEF Owed
  <2>5. QED
    BY <2>1, <2>2, <2>3, <2>4 DEF WishOK
<1>3. ASSUME NEW w \in Writer, AskRefresh(w) PROVE WishOK'
  BY <1>3 DEF AskRefresh, WishOK, service
<1>4. ASSUME NEW h \in Health, Peek(h) \/ EndPeek(h) PROVE WishOK'
  BY <1>0, <1>4, WishSame DEF Peek, EndPeek, others, service
<1>5. ASSUME NEW t \in Thread, Skip(t) PROVE WishOK'
  <2>1. t \notin Ingest
    BY <1>5 DEF Skip, WishOK
  <2>2. \A u \in Ingest : u \in Thread /\ u # t
    BY <2>1, IngestOnly
  <2>3. \A u \in Ingest : pc'[u] = pc[u]
    BY <1>5, <2>2 DEF Skip, Goto, IInv, TypeOK
  <2>4. QED
    BY <1>0, <1>5, <2>3, WishSame DEF Skip, others, service
<1>6. QED
  BY <1>1, <1>2, <1>3, <1>4, <1>5, WishCall, WishRebuild, WishReturn DEF Next, Finished

(***************************************************************************)
(* A batch that POST /api/data has acknowledged is in service, or its      *)
(* refresh is wanted, under way or has failed, however many batches, ingest*)
(* refreshers and other rebuilds there are (`ingest_refresher').           *)
(***************************************************************************)
THEOREM WishesKeptHolds == Spec => []WishesKept
<1>1. Init => WishOK
  BY IngestOnly DEF Init, WishOK
<1>2. Spec => []WishOK
  BY <1>1, Invariance, WishNext, PTL DEF Spec
<1>3. WishOK => WishesKept
  BY DEF WishOK, WishesKept, Owed
<1>4. QED
  BY <1>2, <1>3, PTL

-----------------------------------------------------------------------------
(***************************************************************************)
(* The copy of a remote source (SourceBuild).                              *)
(***************************************************************************)

\* The other threads are not in run_source_build.
LEMMA OnlyOne ==
  ASSUME IInv, CallersOK, NEW t \in Thread, pc[t] = "copy"
  PROVE  \A u \in Thread \ {t} : pc[u] # "copy" /\ at[u] = "flag" /\ mine[u] = None
<1>1. \A u \in Thread \ {t} : pc[u] # "copy"
  BY DEF IInv, MutexOK, Building
<1>2. QED
  BY <1>1 DEF CallersOK

LEMMA Counts ==
  ASSUME SourceTypes
  PROVE  /\ IsFiniteSet(Slotted) /\ Cardinality(Slotted) \in Nat
         /\ builds \in Nat /\ elsewhere.held \in Nat /\ Undoing \in {0, 1}
         /\ \A places : Own(places) \in {0, 1}
<1>1. IsFiniteSet(Slotted)
  BY SourceAssumption, FS_Subset DEF Slotted
<1>2. QED
  BY <1>1, FS_CardinalityType DEF SourceTypes, Undoing, Own, OneAt

-----------------------------------------------------------------------------
(***************************************************************************)
(* Steps of Refresh: nobody in run_source_build notices.                   *)
(***************************************************************************)
LEMMA RefreshFrame ==
  ASSUME SourceInv, IInv, IInv', UNCHANGED srcVars, data' >= data,
         \A t \in Thread : pc[t] = "copy" => pc'[t] = "copy" /\ asked'[t] = asked[t],
         (\E t \in Thread : pc[t] = "copy") => gen' = gen
  PROVE  SourceInv'
<1>1. UNCHANGED <<inFlight, deadline, builds, elsewhere, at, mine, copier>>
  BY DEF srcVars
<1>2. SourceTypes'
  BY <1>1 DEF SourceInv, SourceTypes
<1>3. CallersOK'
  BY <1>1 DEF SourceInv, CallersOK
<1>4. CopiersOK'
  <2>1. \A c \in Copier : copier[c].data \in Nat
    BY DEF SourceInv, SourceTypes
  <2>2. data \in Nat /\ data' \in Nat
    BY DEF IInv, TypeOK
  <2>3. QED
    BY <1>1, <2>1, <2>2 DEF SourceInv, CopiersOK
<1>5. FlagOK' /\ CountOK' /\ StuckShows'
  BY <1>1 DEF SourceInv, FlagOK, CountOK, StuckShows, Overdue, Trying, Alive, Slotted, Own,
     OneAt, Undoing
<1>6. QED
  BY <1>2, <1>3, <1>4, <1>5 DEF SourceInv

LEMMA AroundStep ==
  ASSUME SourceInv, IInv, NEW t \in Thread, Around(t)
  PROVE  IInv' /\ SourceInv'
<1>1. IInv'
  BY LoadStep, CheckStep, MarkOutcomeStep, CountOutcomeStep, SwapStep, UnlockStep DEF Around
<1>2. /\ UNCHANGED srcVars /\ UNCHANGED others /\ pc[t] # "copy"
      /\ \A u \in Thread \ {t} : pc'[u] = pc[u]
  BY DEF IInv, TypeOK, Around, Load, Check, MarkOutcome, CountOutcome, Swap, Unlock, Fails, Goto
<1>3. UNCHANGED gen \/ Building(t)
  BY DEF Around, Load, Check, MarkOutcome, CountOutcome, Swap, Unlock, Building, service
<1>4. (\E u \in Thread : pc[u] = "copy") => gen' = gen
  BY <1>2, <1>3 DEF IInv, MutexOK, Building
<1>5. data' >= data
  BY <1>2 DEF IInv, TypeOK, others
<1>6. \A u \in Thread : pc[u] = "copy" => pc'[u] = "copy" /\ asked'[u] = asked[u]
  BY <1>2 DEF others
<1>7. QED
  BY <1>1, <1>2, <1>4, <1>5, <1>6, RefreshFrame

LEMMA OutsideStep ==
  ASSUME SourceInv, IInv, UNCHANGED srcVars,
         NEW t \in Thread, Call(t) \/ Skip(t) \/ Lock(t) \/ Return(t)
  PROVE  IInv' /\ SourceInv'
<1>1. IInv'
  BY TickStep, RunTaskStep, TakeWishStep, AskStep, SkipStep, LockStep, ReturnStep DEF Call
<1>2. /\ UNCHANGED gen /\ pc[t] # "copy"
      /\ \A u \in Thread \ {t} : pc'[u] = pc[u] /\ asked'[u] = asked[u]
  BY DEF IInv, TypeOK, Call, Tick, RunTask, TakeWish, Ask, Calls, Skip, Lock, Return, Goto,
     service, others
<1>3. data' >= data
  BY DEF IInv, TypeOK, Call, Tick, RunTask, TakeWish, Ask, Calls, Skip, Lock, Return, others
<1>4. QED
  BY <1>1, <1>2, <1>3, RefreshFrame

LEMMA QuietStep ==
  ASSUME SourceInv, IInv, UNCHANGED srcVars,
         \/ \E w \in Writer : Write(w) \/ AskRefresh(w)
         \/ \E h \in Health : Peek(h) \/ EndPeek(h)
         \/ UNCHANGED vars
  PROVE  IInv' /\ SourceInv'
<1>1. IInv'
  BY WriteStep, AskRefreshStep, PeekStep, EndPeekStep, StutterStep
<1>2. UNCHANGED <<gen, pc, asked>>
  BY DEF Write, AskRefresh, Peek, EndPeek, service, others, vars
<1>3. data' >= data
  BY DEF IInv, TypeOK, Write, AskRefresh, Peek, EndPeek, others, vars
<1>4. QED
  BY <1>1, <1>2, <1>3, RefreshFrame

\* The source's data changes.
LEMMA RemoteChangeStep ==
  ASSUME SourceInv, IInv, RemoteChange
  PROVE  IInv' /\ SourceInv'
<1>1. TypeOK'
  BY DEF IInv, TypeOK, RemoteChange, service
<1>2. MutexOK'
  BY DEF IInv, MutexOK, RemoteChange, Building
<1>3. SourcesOK'
  BY DEF IInv, TypeOK, SourcesOK, RemoteChange, service, Versions, Builds
<1>4. DashesOK' /\ BuildsOK' /\ FreshOK' /\ OutcomeOK'
  BY DEF IInv, DashesOK, BuildsOK, FreshOK, OutcomeOK, RemoteChange, service, Loaded, Copied, Ready
<1>5. IInv'
  BY <1>1, <1>2, <1>3, <1>4 DEF IInv
<1>6. UNCHANGED srcVars /\ UNCHANGED <<gen, pc, asked>> /\ data' >= data
  BY DEF IInv, TypeOK, RemoteChange, service
<1>7. QED
  BY <1>5, <1>6, RefreshFrame

-----------------------------------------------------------------------------
(***************************************************************************)
(* The caller.  The flag is taken, then the slot; both are given back, or  *)
(* go to the copy.                                                         *)
(***************************************************************************)
\* An error ends the attempt; the build has failed.
LEMMA GiveStep ==
  ASSUME IInv, NEW t \in Thread, pc[t] = "copy", Give(t)
  PROVE  /\ IInv' /\ UNCHANGED <<data, gen, asked>>
         /\ at' = [at EXCEPT ![t] = "flag"]
         /\ \A u \in Thread \ {t} : pc'[u] = pc[u]
<1>1. Fails(t) /\ UNCHANGED <<others, service, holder>>
  BY DEF Give
<1>2. IInv'
  BY <1>1, FailsStep
<1>3. QED
  BY <1>1, <1>2 DEF Give, Fails, Goto, others, service, IInv, TypeOK

LEMMA TakeFlagStep ==
  ASSUME SourceInv, IInv, NEW t \in Thread, TakeFlag(t)
  PROVE  IInv' /\ SourceInv'
<1>0. /\ pc[t] = "copy" /\ at[t] = "flag" /\ mine[t] = None /\ inFlight'
      /\ UNCHANGED <<deadline, builds, elsewhere, mine, copier>>
      /\ at \in [Thread -> {"flag", "slot", "undo", "unflag", "due", "spawn", "recv"}]
      /\ \A u \in Thread \ {t} : pc[u] # "copy" /\ at[u] = "flag" /\ mine[u] = None
  BY OnlyOne DEF TakeFlag, At, SourceInv, SourceTypes, CallersOK
<1>1. CASE inFlight
  <2>1. /\ IInv' /\ UNCHANGED <<data, gen, asked>>
        /\ at' = [at EXCEPT ![t] = "flag"] /\ \A u \in Thread \ {t} : pc'[u] = pc[u]
    BY <1>0, <1>1, GiveStep DEF TakeFlag
  <2>2. at' = at /\ UNCHANGED inFlight
    BY <1>0, <1>1, <2>1 DEF SourceInv, SourceTypes
  <2>3. UNCHANGED srcVars
    BY <1>0, <2>2 DEF srcVars
  <2>4. SourceTypes' /\ CopiersOK' /\ FlagOK' /\ CountOK' /\ StuckShows'
    BY <2>1, <2>3 DEF SourceInv, SourceTypes, CopiersOK, FlagOK, CountOK, StuckShows,
       Overdue, Trying, Alive, Slotted, Own, OneAt, Undoing, srcVars
  <2>5. CallersOK'
    BY <1>0, <2>1, <2>2 DEF SourceInv, CallersOK
  <2>6. QED
    BY <2>1, <2>4, <2>5 DEF SourceInv
<1>2. CASE ~inFlight
  <2>1. UNCHANGED vars /\ at' = [at EXCEPT ![t] = "slot"]
    BY <1>2 DEF TakeFlag, Move
  <2>2. IInv'
    BY <2>1, StutterStep
  <2>3. UNCHANGED <<data, gen, asked, pc>>
    BY <2>1 DEF vars, service
  <2>4. at'[t] = "slot" /\ \A u \in Thread \ {t} : at'[u] = "flag"
    BY <1>0, <2>1
  <2>5. SourceTypes'
    BY <1>0, <2>1 DEF SourceInv, SourceTypes
  <2>6. CallersOK'
    BY <1>0, <2>3, <2>4 DEF SourceInv, CallersOK
  <2>7. CopiersOK'
    BY <1>0, <2>3 DEF SourceInv, CopiersOK
  <2>8. FlagOK'
    <3>1. Alive = {} /\ Alive' = {}
      BY <1>0, <1>2 DEF SourceInv, FlagOK, Alive
    <3>2. t \in Trying'
      BY <2>4 DEF Trying
    <3>3. QED
      BY <1>0, <3>1, <3>2 DEF FlagOK
  <2>9. CountOK'
    <3>1. /\ Own({"undo", "due", "spawn"})' = Own({"undo", "due", "spawn"})
          /\ Own({"due", "spawn"})' = Own({"due", "spawn"})
      BY <1>0, <2>4 DEF Own, OneAt
    <3>2. QED
      BY <1>0, <3>1 DEF SourceInv, CountOK, Slotted, Undoing
  <2>10. StuckShows'
    <3>1. Alive = {}
      BY <1>0, <1>2 DEF SourceInv, FlagOK
    <3>2. QED
      BY <1>0, <3>1 DEF StuckShows, Alive
  <2>11. QED
    BY <2>2, <2>5, <2>6, <2>7, <2>8, <2>9, <2>10 DEF SourceInv
<1>3. QED
  BY <1>0, <1>1, <1>2 DEF SourceInv, SourceTypes

\* A step of the caller that keeps the flag, and no copy runs: what is left is
\* to count the slots.
LEMMA TryStep ==
  ASSUME SourceInv, IInv, UNCHANGED vars, NEW t \in Thread, pc[t] = "copy",
         at[t] \in {"slot", "undo", "due"}, NEW q \in {"undo", "due", "spawn", "unflag"},
         at' = [at EXCEPT ![t] = q],
         UNCHANGED <<inFlight, elsewhere, mine, copier>>,
         deadline' \in {"none", "ahead", "passed"}, builds' \in Nat
  PROVE  /\ IInv'
         /\ Own({"undo", "due", "spawn"}) = IF at[t] \in {"undo", "due", "spawn"} THEN 1 ELSE 0
         /\ Own({"due", "spawn"}) = IF at[t] \in {"due", "spawn"} THEN 1 ELSE 0
         /\ Own({"undo", "due", "spawn"})' = IF q \in {"undo", "due", "spawn"} THEN 1 ELSE 0
         /\ Own({"due", "spawn"})' = IF q \in {"due", "spawn"} THEN 1 ELSE 0
         /\ CountOK' => SourceInv'
<1>1. IInv'
  BY StutterStep
<1>2. /\ at \in [Thread -> {"flag", "slot", "undo", "unflag", "due", "spawn", "recv"}]
      /\ mine[t] = None
      /\ \A u \in Thread \ {t} : at[u] = "flag" /\ mine[u] = None
  BY OnlyOne DEF SourceInv, SourceTypes, CallersOK
<1>3. at'[t] = q /\ \A u \in Thread \ {t} : at'[u] = "flag"
  BY <1>2
<1>4. UNCHANGED <<data, gen, asked, pc>>
  BY DEF vars, service
<1>5. SourceTypes'
  BY <1>2 DEF SourceInv, SourceTypes
<1>6. CallersOK'
  BY <1>2, <1>3, <1>4 DEF SourceInv, CallersOK
<1>7. CopiersOK'
  BY <1>4 DEF SourceInv, CopiersOK
<1>8. Alive = {} /\ Alive' = {} /\ t \in Trying /\ t \in Trying'
  BY <1>2, <1>3 DEF SourceInv, FlagOK, Trying, Alive
<1>9. FlagOK'
  BY <1>8 DEF SourceInv, FlagOK
<1>10. StuckShows'
  BY <1>8 DEF StuckShows, Alive
<1>11. Own({"undo", "due", "spawn"}) = IF at[t] \in {"undo", "due", "spawn"} THEN 1 ELSE 0
  BY <1>2 DEF Own, OneAt
<1>12. Own({"due", "spawn"}) = IF at[t] \in {"due", "spawn"} THEN 1 ELSE 0
  BY <1>2 DEF Own, OneAt
<1>13. Own({"undo", "due", "spawn"})' = IF q \in {"undo", "due", "spawn"} THEN 1 ELSE 0
  BY <1>3 DEF Own, OneAt
<1>14. Own({"due", "spawn"})' = IF q \in {"due", "spawn"} THEN 1 ELSE 0
  BY <1>3 DEF Own, OneAt
<1>15. QED
  BY <1>1, <1>5, <1>6, <1>7, <1>9, <1>10, <1>11, <1>12, <1>13, <1>14 DEF SourceInv

LEMMA TakeSlotStep ==
  ASSUME SourceInv, IInv, NEW t \in Thread, TakeSlot(t)
  PROVE  IInv' /\ SourceInv'
<1> DEFINE q == IF NoRoom(builds) THEN "undo" ELSE "due"
<1>1. /\ UNCHANGED vars /\ pc[t] = "copy" /\ at[t] = "slot" /\ builds' = builds + 1
      /\ at' = [at EXCEPT ![t] = q]
      /\ UNCHANGED <<inFlight, elsewhere, mine, copier, deadline>>
  BY DEF TakeSlot, At, Move
<1>2. /\ Cardinality(Slotted) \in Nat /\ builds \in Nat /\ elsewhere.held \in Nat
      /\ Undoing \in {0, 1} /\ MaxBuilds \in Nat
  BY Counts, SourceAssumption DEF SourceInv
<1>3. Slotted' = Slotted /\ Undoing' = Undoing /\ elsewhere' = elsewhere
  BY <1>1 DEF Slotted, Undoing
<1>4. q \in {"undo", "due"}
  OBVIOUS
<1>5. builds' \in Nat /\ deadline' \in {"none", "ahead", "passed"}
  BY <1>1, <1>2 DEF SourceInv, SourceTypes
<1>6. /\ IInv' /\ (CountOK' => SourceInv')
      /\ Own({"undo", "due", "spawn"}) = 0 /\ Own({"due", "spawn"}) = 0
      /\ Own({"undo", "due", "spawn"})' = 1
      /\ Own({"due", "spawn"})' = IF q = "due" THEN 1 ELSE 0
  <2> HIDE DEF q
  <2>1. QED
    BY <1>1, <1>4, <1>5, TryStep
<1>7. CountOK'
  <2>1. CASE builds >= MaxBuilds
    BY <1>1, <1>2, <1>3, <1>6, <2>1 DEF SourceInv, CountOK, NoRoom
  <2>2. CASE ~(builds >= MaxBuilds)
    BY <1>1, <1>2, <1>3, <1>6, <2>2 DEF SourceInv, CountOK, NoRoom
  <2>3. QED
    BY <2>1, <2>2
<1>8. QED
  BY <1>6, <1>7

LEMMA UndoSlotStep ==
  ASSUME SourceInv, IInv, NEW t \in Thread, UndoSlot(t)
  PROVE  IInv' /\ SourceInv'
<1>1. /\ UNCHANGED vars /\ pc[t] = "copy" /\ at[t] = "undo" /\ builds' = builds - 1
      /\ at' = [at EXCEPT ![t] = "unflag"]
      /\ UNCHANGED <<inFlight, elsewhere, mine, copier, deadline>>
  BY DEF UndoSlot, At, Move
<1>2. /\ Cardinality(Slotted) \in Nat /\ builds \in Nat /\ elsewhere.held \in Nat
      /\ Undoing \in {0, 1}
  BY Counts DEF SourceInv
<1>3. Slotted' = Slotted /\ Undoing' = Undoing /\ elsewhere' = elsewhere
  BY <1>1 DEF Slotted, Undoing
<1>4. Own({"undo", "due", "spawn"}) = 1
  BY <1>1 DEF Own, OneAt
<1>5. builds' \in Nat /\ deadline' \in {"none", "ahead", "passed"}
  BY <1>1, <1>2, <1>4 DEF SourceInv, SourceTypes, CountOK
<1>6. /\ IInv' /\ (CountOK' => SourceInv')
      /\ Own({"due", "spawn"}) = 0 /\ Own({"undo", "due", "spawn"})' = 0
      /\ Own({"due", "spawn"})' = 0
  BY <1>1, <1>5, TryStep
<1>7. CountOK'
  BY <1>1, <1>2, <1>3, <1>4, <1>6 DEF SourceInv, CountOK
<1>8. QED
  BY <1>6, <1>7

LEMMA SetDeadlineStep ==
  ASSUME SourceInv, IInv, NEW t \in Thread, SetDeadline(t)
  PROVE  IInv' /\ SourceInv'
<1>1. /\ UNCHANGED vars /\ pc[t] = "copy" /\ at[t] = "due" /\ deadline' = "ahead"
      /\ at' = [at EXCEPT ![t] = "spawn"]
      /\ UNCHANGED <<inFlight, elsewhere, mine, copier, builds>>
  BY DEF SetDeadline, At, Move
<1>2. /\ Cardinality(Slotted) \in Nat /\ builds \in Nat /\ elsewhere.held \in Nat
      /\ Undoing \in {0, 1}
  BY Counts DEF SourceInv
<1>3. Slotted' = Slotted /\ Undoing' = Undoing /\ elsewhere' = elsewhere
  BY <1>1 DEF Slotted, Undoing
<1>4. /\ IInv' /\ (CountOK' => SourceInv')
      /\ Own({"undo", "due", "spawn"}) = 1 /\ Own({"due", "spawn"}) = 1
      /\ Own({"undo", "due", "spawn"})' = 1 /\ Own({"due", "spawn"})' = 1
  BY <1>1, <1>2, TryStep
<1>5. CountOK'
  BY <1>1, <1>2, <1>3, <1>4 DEF SourceInv, CountOK
<1>6. QED
  BY <1>4, <1>5

LEMMA UndoFlagStep ==
  ASSUME SourceInv, IInv, NEW t \in Thread, UndoFlag(t)
  PROVE  IInv' /\ SourceInv'
<1>0. /\ pc[t] = "copy" /\ at[t] = "unflag" /\ mine[t] = None /\ inFlight' = FALSE
      /\ UNCHANGED <<deadline, builds, elsewhere, mine, copier>>
      /\ at \in [Thread -> {"flag", "slot", "undo", "unflag", "due", "spawn", "recv"}]
      /\ \A u \in Thread \ {t} : pc[u] # "copy" /\ at[u] = "flag" /\ mine[u] = None
  BY OnlyOne DEF UndoFlag, At, SourceInv, SourceTypes, CallersOK
<1>1. /\ IInv' /\ UNCHANGED <<data, gen, asked>>
      /\ at' = [at EXCEPT ![t] = "flag"] /\ \A u \in Thread \ {t} : pc'[u] = pc[u]
  BY <1>0, GiveStep DEF UndoFlag
<1>2. \A u \in Thread : at'[u] = "flag"
  BY <1>0, <1>1
<1>3. SourceTypes'
  BY <1>0, <1>1 DEF SourceInv, SourceTypes
<1>4. CallersOK'
  BY <1>0, <1>1, <1>2 DEF SourceInv, CallersOK
<1>5. CopiersOK'
  BY <1>0, <1>1 DEF SourceInv, CopiersOK
<1>6. Alive = {} /\ Alive' = {} /\ Trying' = {}
  BY <1>0, <1>2 DEF SourceInv, FlagOK, Trying, Alive
<1>7. FlagOK' /\ StuckShows'
  BY <1>0, <1>6 DEF FlagOK, StuckShows, Alive
<1>8. CountOK'
  <2>1. /\ Own({"undo", "due", "spawn"})' = Own({"undo", "due", "spawn"})
        /\ Own({"due", "spawn"})' = Own({"due", "spawn"})
    BY <1>0, <1>2 DEF Own, OneAt
  <2>2. QED
    BY <1>0, <2>1 DEF SourceInv, CountOK, Slotted, Undoing
<1>9. QED
  BY <1>1, <1>3, <1>4, <1>5, <1>7, <1>8 DEF SourceInv

\* Flag and slot go to the copy, or are given back.
LEMMA SpawnStep ==
  ASSUME SourceInv, IInv, NEW t \in Thread, Spawn(t)
  PROVE  IInv' /\ SourceInv'
<1>0. /\ pc[t] = "copy" /\ at[t] = "spawn" /\ mine[t] = None
      /\ UNCHANGED <<deadline, elsewhere>>
      /\ at \in [Thread -> {"flag", "slot", "undo", "unflag", "due", "spawn", "recv"}]
      /\ mine \in [Thread -> Copier \cup {None}]
      /\ \A u \in Thread \ {t} : pc[u] # "copy" /\ at[u] = "flag" /\ mine[u] = None
  BY OnlyOne DEF Spawn, At, SourceInv, SourceTypes, CallersOK
<1>1. Own({"undo", "due", "spawn"}) = 1 /\ Own({"due", "spawn"}) = 1
  BY <1>0 DEF Own, OneAt
<1>2. /\ IsFiniteSet(Slotted) /\ Cardinality(Slotted) \in Nat /\ builds \in Nat
      /\ elsewhere.held \in Nat /\ Undoing \in {0, 1} /\ Undoing' = Undoing
      /\ MaxBuilds \in Nat
  BY <1>0, Counts, SourceAssumption DEF SourceInv, Undoing
<1>3. Alive = {}
  BY <1>0 DEF SourceInv, FlagOK, Trying
<1>4. ASSUME inFlight' = FALSE, builds' = builds - 1, Give(t), UNCHANGED <<mine, copier>>
      PROVE  IInv' /\ SourceInv'
  <2>1. /\ IInv' /\ UNCHANGED <<data, gen, asked>>
        /\ at' = [at EXCEPT ![t] = "flag"] /\ \A u \in Thread \ {t} : pc'[u] = pc[u]
    BY <1>0, <1>4, GiveStep
  <2>2. \A u \in Thread : at'[u] = "flag"
    BY <1>0, <2>1
  <2>3. builds' \in Nat
    BY <1>1, <1>2, <1>4 DEF SourceInv, CountOK
  <2>4. SourceTypes'
    BY <1>0, <1>4, <2>1, <2>3 DEF SourceInv, SourceTypes
  <2>5. CallersOK'
    BY <1>0, <1>4, <2>1, <2>2 DEF SourceInv, CallersOK
  <2>6. CopiersOK'
    BY <1>4, <2>1 DEF SourceInv, CopiersOK
  <2>7. Alive' = {} /\ Trying' = {} /\ Slotted' = Slotted
    BY <1>3, <1>4, <2>2 DEF Alive, Trying, Slotted
  <2>8. FlagOK' /\ StuckShows'
    BY <1>4, <2>7 DEF FlagOK, StuckShows, Alive
  <2>9. CountOK'
    <3>1. Own({"undo", "due", "spawn"})' = 0 /\ Own({"due", "spawn"})' = 0
      BY <2>2 DEF Own, OneAt
    <3>2. QED
      BY <1>0, <1>1, <1>2, <1>4, <2>7, <3>1 DEF SourceInv, CountOK
  <2>10. QED
    BY <2>1, <2>4, <2>5, <2>6, <2>8, <2>9 DEF SourceInv
<1>5. ASSUME NEW c \in Copier, copier[c] = NoCopier,
             copier' = [copier EXCEPT ![c] = [pc |-> "copying", result |-> "none", data |-> data]],
             mine' = [mine EXCEPT ![t] = c], Move(t, "recv"),
             UNCHANGED <<inFlight, builds>>
      PROVE  IInv' /\ SourceInv'
  <2>1. /\ UNCHANGED vars /\ at' = [at EXCEPT ![t] = "recv"]
    BY <1>5 DEF Move
  <2>2. IInv' /\ UNCHANGED <<data, gen, asked, pc>>
    BY <2>1, StutterStep DEF vars, service
  <2>3. data \in Nat /\ data >= gen.data /\ data >= asked[t].data
    BY DEF IInv, TypeOK, SourcesOK, Versions
  <2>4. /\ copier'[c] = [pc |-> "copying", result |-> "none", data |-> data]
        /\ \A d \in Copier \ {c} : copier'[d] = copier[d]
        /\ copier' \in [Copier -> [pc : {"none", "copying", "sent", "unflagged", "ended"},
                         result : {"none", "ok", "error", "panic"}, data : Nat]]
    <3>1. copier \in [Copier -> [pc : {"none", "copying", "sent", "unflagged", "ended"},
                         result : {"none", "ok", "error", "panic"}, data : Nat]]
      BY DEF SourceInv, SourceTypes
    <3>2. QED
      BY <1>5, <2>3, <3>1
  <2>5. /\ at'[t] = "recv" /\ mine'[t] = c /\ c # None
        /\ \A u \in Thread \ {t} : at'[u] = "flag" /\ mine'[u] = None
    BY <1>0, <1>5, <2>1, SourceAssumption
  <2>6. SourceTypes'
    <3>1. mine' \in [Thread -> Copier \cup {None}]
      BY <1>0, <1>5
    <3>2. QED
      BY <1>0, <1>5, <2>1, <2>4, <3>1 DEF SourceInv, SourceTypes
  <2>7. CallersOK'
    BY <1>0, <2>2, <2>3, <2>4, <2>5 DEF SourceInv, CallersOK
  <2>8. CopiersOK'
    <3>1. \A d \in Copier : copier[d].pc # "ended"
      <4>1. \A u \in Thread : mine[u] = None
        BY <1>0
      <4>2. QED
        BY <4>1, SourceAssumption DEF SourceInv, CopiersOK
    <3>2. QED
      BY <2>2, <2>3, <2>4, <3>1 DEF SourceInv, CopiersOK
  <2>9. Alive' = {c} /\ Trying' = {}
    BY <1>3, <2>4, <2>5 DEF Alive, Trying
  <2>10. FlagOK'
    <3>1. inFlight
      BY <1>0 DEF SourceInv, FlagOK, Trying
    <3>2. QED
      BY <1>5, <2>9, <3>1 DEF FlagOK
  <2>11. StuckShows'
    BY <1>3, <2>4, <2>5 DEF StuckShows, Alive
  <2>12. CountOK'
    <3>1. Own({"undo", "due", "spawn"})' = 0 /\ Own({"due", "spawn"})' = 0
      BY <2>5 DEF Own, OneAt
    <3>2. Slotted' = Slotted \cup {c} /\ c \notin Slotted
      BY <1>5, <2>4 DEF Slotted, NoCopier
    <3>3. Cardinality(Slotted') = Cardinality(Slotted) + 1
      BY <1>2, <3>2, FS_AddElement
    <3>4. QED
      BY <1>0, <1>1, <1>2, <1>5, <3>1, <3>3 DEF SourceInv, CountOK
  <2>13. QED
    BY <2>2, <2>6, <2>7, <2>8, <2>10, <2>11, <2>12 DEF SourceInv
<1>6. QED
  BY <1>4, <1>5 DEF Spawn

\* The caller leaves its channel; a copy it gives up shows.
LEMMA HangUpStep ==
  ASSUME SourceInv, IInv, IInv', NEW t \in Thread, pc[t] = "copy", at[t] = "recv", HangUp(t),
         at' = [at EXCEPT ![t] = "flag"],
         UNCHANGED <<inFlight, deadline, builds, elsewhere, data, gen, asked>>,
         \A u \in Thread \ {t} : pc'[u] = pc[u],
         copier[mine[t]].pc = "copying" => deadline = "passed"
  PROVE  SourceInv'
<1> DEFINE c == mine[t]
<1>0. /\ c \in Copier /\ copier[c].pc # "none" /\ c # None
      /\ at \in [Thread -> {"flag", "slot", "undo", "unflag", "due", "spawn", "recv"}]
      /\ mine \in [Thread -> Copier \cup {None}]
      /\ copier \in [Copier -> [pc : {"none", "copying", "sent", "unflagged", "ended"},
                         result : {"none", "ok", "error", "panic"}, data : Nat]]
      /\ \A u \in Thread \ {t} : pc[u] # "copy" /\ at[u] = "flag" /\ mine[u] = None
  BY OnlyOne, SourceAssumption DEF SourceInv, SourceTypes, CallersOK
<1> DEFINE n == IF copier[c].pc = "ended" THEN NoCopier ELSE copier[c]
<1>1. copier' = [copier EXCEPT ![c] = n] /\ mine' = [mine EXCEPT ![t] = None]
  BY DEF HangUp
<1>2. n \in [pc : {"none", "copying", "sent", "unflagged", "ended"},
             result : {"none", "ok", "error", "panic"}, data : Nat]
  BY <1>0 DEF NoCopier
<1>3. copier[c].pc = "ended" => n = NoCopier
  OBVIOUS
<1>4. copier[c].pc # "ended" => n = copier[c]
  OBVIOUS
<1> HIDE DEF n, c
<1>5. copier'[c] = n /\ \A d \in Copier \ {c} : copier'[d] = copier[d]
  BY <1>0, <1>1
<1>6. \A u \in Thread : at'[u] = "flag" /\ mine'[u] = None
  BY <1>0, <1>1
<1>7. SourceTypes'
  <2>1. copier' \in [Copier -> [pc : {"none", "copying", "sent", "unflagged", "ended"},
                         result : {"none", "ok", "error", "panic"}, data : Nat]]
    BY <1>0, <1>1, <1>2
  <2>2. mine' \in [Thread -> Copier \cup {None}]
    BY <1>0, <1>1
  <2>3. QED
    BY <1>0, <2>1, <2>2 DEF SourceInv, SourceTypes
<1>8. CallersOK'
  BY <1>6 DEF CallersOK
<1>9. \A d \in Copier \ {c} : copier[d].pc # "ended"
  BY <1>0, SourceAssumption DEF SourceInv, CopiersOK, c
<1>10. CopiersOK'
  <2>1. data \in Nat
    BY DEF IInv, TypeOK
  <2>2. \A d \in Copier : copier'[d].pc # "ended"
    BY <1>3, <1>4, <1>5, <1>9 DEF NoCopier
  <2>3. QED
    BY <1>3, <1>4, <1>5, <2>1, <2>2 DEF SourceInv, CopiersOK, NoCopier
<1>11. Alive' = Alive /\ Slotted' = Slotted
  BY <1>0, <1>3, <1>4, <1>5 DEF Alive, Slotted, NoCopier
<1>12. Trying' = {} /\ Trying = {}
  BY <1>0, <1>6 DEF Trying
<1>13. FlagOK'
  BY <1>11, <1>12 DEF SourceInv, FlagOK
<1>14. StuckShows'
  <2>1. ASSUME NEW d \in Copier, copier'[d].pc = "copying" PROVE inFlight /\ deadline = "passed"
    <3>1. copier[d].pc = "copying"
      BY <1>3, <1>4, <1>5, <2>1 DEF NoCopier
    <3>2. CASE d = c
      BY <3>1, <3>2 DEF SourceInv, FlagOK, Alive, c
    <3>3. CASE d # c
      BY <1>0, <3>1, <3>3, SourceAssumption DEF SourceInv, StuckShows, Overdue, c
    <3>4. QED
      BY <3>2, <3>3
  <2>2. QED
    BY <2>1 DEF StuckShows, Overdue
<1>15. CountOK'
  <2>1. /\ Own({"undo", "due", "spawn"})' = 0 /\ Own({"due", "spawn"})' = 0
        /\ Own({"undo", "due", "spawn"}) = 0 /\ Own({"due", "spawn"}) = 0
    BY <1>0, <1>6 DEF Own, OneAt
  <2>2. QED
    BY <1>11, <2>1 DEF SourceInv, CountOK, Undoing
<1>16. QED
  BY <1>7, <1>8, <1>10, <1>13, <1>14, <1>15 DEF SourceInv

LEMMA ReceiveStep ==
  ASSUME SourceInv, IInv, NEW t \in Thread, Receive(t)
  PROVE  IInv' /\ SourceInv'
<1> DEFINE c == copier[mine[t]]
<1>0. /\ pc[t] = "copy" /\ at[t] = "recv" /\ HangUp(t)
      /\ UNCHANGED <<inFlight, deadline, builds, elsewhere>>
  BY DEF Receive, At
<1>1. /\ mine[t] \in Copier /\ c.data \in Nat /\ c.data <= data
      /\ c.data >= gen.data /\ c.data >= asked[t].data
      /\ c.pc = "copying" => c.result = "none"
  BY <1>0 DEF SourceInv, SourceTypes, CallersOK, CopiersOK
<1>2. CASE Give(t) /\ c.result # "none"
  <2>1. /\ IInv' /\ UNCHANGED <<data, gen, asked>>
        /\ at' = [at EXCEPT ![t] = "flag"] /\ \A u \in Thread \ {t} : pc'[u] = pc[u]
    BY <1>0, <1>2, GiveStep
  <2>2. QED
    BY <1>0, <1>1, <1>2, <2>1, HangUpStep
<1>3. CASE /\ c.result = "ok"
           /\ at' = [at EXCEPT ![t] = "flag"]
           /\ build' = [build EXCEPT ![t].data = c.data]
           /\ Goto(t, "check")
           /\ UNCHANGED <<others, dashes, service, holder>>
  <2> HIDE DEF c
  <2>1. IInv'
    BY <1>0, <1>1, <1>3, CopiedStep
  <2>2. UNCHANGED <<data, gen, asked>> /\ \A u \in Thread \ {t} : pc'[u] = pc[u]
    BY <1>3 DEF others, service, Goto, IInv, TypeOK
  <2>3. QED
    BY <1>0, <1>1, <1>3, <2>1, <2>2, HangUpStep DEF c
<1>4. QED
  BY <1>2, <1>3 DEF Receive

LEMMA TimeOutStep ==
  ASSUME SourceInv, IInv, NEW t \in Thread, TimeOut(t)
  PROVE  IInv' /\ SourceInv'
<1>1. /\ pc[t] = "copy" /\ at[t] = "recv" /\ HangUp(t) /\ Give(t) /\ deadline = "passed"
      /\ UNCHANGED <<inFlight, deadline, builds, elsewhere>>
  BY DEF TimeOut, At
<1>2. /\ IInv' /\ UNCHANGED <<data, gen, asked>>
      /\ at' = [at EXCEPT ![t] = "flag"] /\ \A u \in Thread \ {t} : pc'[u] = pc[u]
  BY <1>1, GiveStep
<1>3. QED
  BY <1>1, <1>2, HangUpStep

-----------------------------------------------------------------------------
(***************************************************************************)
(* The copying thread.                                                     *)
(***************************************************************************)
\* A step of a copying thread: what it changes of the flag and the slot, and of
\* which copies run, is left to the lemmas below.
LEMMA CopierStep ==
  ASSUME SourceInv, IInv, UNCHANGED <<vars, deadline, elsewhere, at, mine>>,
         NEW c \in Copier, copier[c].pc # "none",
         NEW n \in [pc : {"none", "copying", "sent", "unflagged", "ended"},
                    result : {"none", "ok", "error", "panic"}, data : Nat],
         copier' = [copier EXCEPT ![c] = n],
         n.pc = "none" => n = NoCopier /\ \A t \in Thread : mine[t] # c,
         n.pc # "none" => n.data <= data /\ n.data >= copier[c].data,
         n.pc = "copying" => n.result = "none" /\ copier[c].pc = "copying",
         n.pc = "ended" => \E t \in Thread : mine[t] = c,
         inFlight' \in BOOLEAN, builds' \in Nat
  PROVE  /\ IInv' /\ copier'[c] = n /\ (\A d \in Copier \ {c} : copier'[d] = copier[d])
         /\ (FlagOK' /\ CountOK' /\ StuckShows' => SourceInv')
<1>1. IInv'
  BY StutterStep
<1>2. UNCHANGED <<data, gen, asked, pc>>
  BY DEF vars, service
<1>3. copier \in [Copier -> [pc : {"none", "copying", "sent", "unflagged", "ended"},
                         result : {"none", "ok", "error", "panic"}, data : Nat]]
  BY DEF SourceInv, SourceTypes
<1>4. copier'[c] = n /\ \A d \in Copier \ {c} : copier'[d] = copier[d]
  BY <1>3
<1>5. SourceTypes'
  BY <1>3 DEF SourceInv, SourceTypes
<1>6. CallersOK'
  <2>1. gen.data \in Nat /\ \A t \in Thread : asked[t].data \in Nat
    BY DEF IInv, TypeOK, Versions
  <2>2. copier[c].data \in Nat /\ n.data \in Nat
    BY <1>3
  <2>3. ASSUME NEW t \in Thread, mine[t] # None
        PROVE  /\ copier'[mine[t]].pc # "none" /\ copier'[mine[t]].data >= gen.data
               /\ copier'[mine[t]].data >= asked[t].data
    <3>1. /\ mine[t] \in Copier /\ copier[mine[t]].pc # "none"
          /\ copier[mine[t]].data >= gen.data /\ copier[mine[t]].data >= asked[t].data
      BY <2>3 DEF SourceInv, SourceTypes, CallersOK
    <3>2. CASE mine[t] = c
      BY <1>4, <2>1, <2>2, <3>1, <3>2
    <3>3. CASE mine[t] # c
      BY <1>4, <3>1, <3>3
    <3>4. QED
      BY <3>2, <3>3
  <2>4. QED
    BY <1>2, <2>3 DEF SourceInv, CallersOK
<1>7. CopiersOK'
  <2>1. data \in Nat
    BY DEF IInv, TypeOK
  <2>2. n.data <= data
    BY <2>1 DEF NoCopier
  <2>3. QED
    BY <1>2, <1>4, <2>2 DEF SourceInv, CopiersOK
<1>8. QED
  BY <1>1, <1>4, <1>5, <1>6, <1>7 DEF SourceInv

\* The counts do not change.
LEMMA SameCounts ==
  ASSUME SourceInv, Slotted' = Slotted, UNCHANGED <<at, builds, elsewhere>>
  PROVE  CountOK'
BY DEF SourceInv, CountOK, Own, OneAt, Undoing

LEMMA FinishStep ==
  ASSUME SourceInv, IInv, NEW c \in Copier, Finish(c)
  PROVE  IInv' /\ SourceInv'
<1>1. /\ copier[c].pc = "copying"
      /\ UNCHANGED <<vars, inFlight, deadline, builds, elsewhere, at, mine>>
  BY DEF Finish
<1>2. PICK r \in {"ok", "error", "panic"} :
        copier' = [copier EXCEPT ![c] = [pc |-> "sent", result |-> r, data |-> copier[c].data]]
  BY DEF Finish
<1>3. /\ copier[c].data \in Nat /\ copier[c].data <= data /\ inFlight \in BOOLEAN
      /\ builds \in Nat
  BY DEF SourceInv, SourceTypes, CopiersOK
<1> DEFINE n == [pc |-> "sent", result |-> r, data |-> copier[c].data]
<1>4. /\ n \in [pc : {"none", "copying", "sent", "unflagged", "ended"},
                result : {"none", "ok", "error", "panic"}, data : Nat]
      /\ n.pc = "sent" /\ n.data = copier[c].data /\ copier' = [copier EXCEPT ![c] = n]
  BY <1>2, <1>3
<1> HIDE DEF n
<1>5. /\ IInv' /\ copier'[c] = n /\ (\A d \in Copier \ {c} : copier'[d] = copier[d])
      /\ (FlagOK' /\ CountOK' /\ StuckShows' => SourceInv')
  <2>1. n.data <= data /\ n.data >= copier[c].data
    BY <1>3, <1>4
  <2>2. QED
    BY <1>1, <1>3, <1>4, <2>1, CopierStep
<1>6. Alive' = Alive /\ Slotted' = Slotted /\ Trying' = Trying
  BY <1>1, <1>4, <1>5 DEF Alive, Slotted, Trying
<1>7. FlagOK'
  BY <1>1, <1>6 DEF SourceInv, FlagOK
<1>8. StuckShows'
  BY <1>1, <1>4, <1>5 DEF SourceInv, StuckShows, Overdue
<1>9. CountOK'
  BY <1>1, <1>6, SameCounts
<1>10. QED
  BY <1>5, <1>7, <1>8, <1>9

LEMMA ReadStep ==
  ASSUME SourceInv, IInv, NEW c \in Copier, Read(c)
  PROVE  IInv' /\ SourceInv'
<1>1. /\ copier[c].pc = "copying" /\ copier[c].data < data
      /\ UNCHANGED <<vars, inFlight, deadline, builds, elsewhere, at, mine>>
      /\ copier' = [copier EXCEPT ![c].data = data]
  BY DEF Read
<1>2. /\ copier[c] \in [pc : {"none", "copying", "sent", "unflagged", "ended"},
                        result : {"none", "ok", "error", "panic"}, data : Nat]
      /\ copier[c].result = "none"
      /\ data \in Nat /\ inFlight \in BOOLEAN /\ builds \in Nat
  BY <1>1 DEF SourceInv, SourceTypes, CopiersOK, IInv, TypeOK
<1> DEFINE n == [copier[c] EXCEPT !.data = data]
<1>3. /\ n \in [pc : {"none", "copying", "sent", "unflagged", "ended"},
                result : {"none", "ok", "error", "panic"}, data : Nat]
      /\ n.pc = "copying" /\ n.result = "none" /\ n.data = data
  BY <1>1, <1>2
<1>4. copier' = [copier EXCEPT ![c] = n]
  BY <1>1
<1> HIDE DEF n
<1>5. /\ IInv' /\ copier'[c] = n /\ (\A d \in Copier \ {c} : copier'[d] = copier[d])
      /\ (FlagOK' /\ CountOK' /\ StuckShows' => SourceInv')
  <2>1. n.data <= data /\ n.data >= copier[c].data
    BY <1>1, <1>2, <1>3
  <2>2. QED
    BY <1>1, <1>2, <1>3, <1>4, <2>1, CopierStep
<1>6. Alive' = Alive /\ Slotted' = Slotted /\ Trying' = Trying
  BY <1>1, <1>3, <1>5 DEF Alive, Slotted, Trying
<1>7. FlagOK'
  BY <1>1, <1>6 DEF SourceInv, FlagOK
<1>8. StuckShows'
  BY <1>1, <1>3, <1>5 DEF SourceInv, StuckShows, Overdue
<1>9. CountOK'
  BY <1>1, <1>6, SameCounts
<1>10. QED
  BY <1>5, <1>7, <1>8, <1>9

\* The flag is this copy's, and nobody tries.
LEMMA DropFlagStep ==
  ASSUME SourceInv, IInv, NEW c \in Copier, DropFlag(c)
  PROVE  IInv' /\ SourceInv'
<1>1. /\ copier[c].pc = "sent" /\ inFlight' = FALSE
      /\ UNCHANGED <<vars, deadline, builds, elsewhere, at, mine>>
      /\ copier' = [copier EXCEPT ![c].pc = "unflagged"]
  BY DEF DropFlag
<1>2. /\ copier[c] \in [pc : {"none", "copying", "sent", "unflagged", "ended"},
                        result : {"none", "ok", "error", "panic"}, data : Nat]
      /\ copier[c].data <= data /\ builds \in Nat
  BY <1>1 DEF SourceInv, SourceTypes, CopiersOK
<1> DEFINE n == [copier[c] EXCEPT !.pc = "unflagged"]
<1>3. /\ n \in [pc : {"none", "copying", "sent", "unflagged", "ended"},
                result : {"none", "ok", "error", "panic"}, data : Nat]
      /\ n.pc = "unflagged" /\ n.data = copier[c].data
  BY <1>1, <1>2
<1>4. copier' = [copier EXCEPT ![c] = n]
  BY <1>1
<1> HIDE DEF n
<1>5. /\ IInv' /\ copier'[c] = n /\ (\A d \in Copier \ {c} : copier'[d] = copier[d])
      /\ (FlagOK' /\ CountOK' /\ StuckShows' => SourceInv')
  <2>1. n.data <= data /\ n.data >= copier[c].data
    BY <1>2, <1>3
  <2>2. QED
    BY <1>1, <1>2, <1>3, <1>4, <2>1, CopierStep
<1>6. Slotted' = Slotted
  BY <1>1, <1>3, <1>5 DEF Slotted
<1>7. Alive = {c} /\ Trying = {}
  BY <1>1 DEF SourceInv, FlagOK, Alive
<1>8. Alive' = {} /\ Trying' = {}
  BY <1>1, <1>3, <1>5, <1>7 DEF Alive, Trying
<1>9. FlagOK' /\ StuckShows'
  BY <1>1, <1>8 DEF FlagOK, StuckShows, Alive
<1>10. CountOK'
  BY <1>1, <1>6, SameCounts
<1>11. QED
  BY <1>5, <1>9, <1>10

LEMMA DropSlotStep ==
  ASSUME SourceInv, IInv, NEW c \in Copier, DropSlot(c)
  PROVE  IInv' /\ SourceInv'
<1> DEFINE n == IF \E t \in Thread : mine[t] = c THEN [copier[c] EXCEPT !.pc = "ended"]
                ELSE NoCopier
<1>1. /\ copier[c].pc = "unflagged" /\ builds' = builds - 1
      /\ UNCHANGED <<vars, inFlight, deadline, elsewhere, at, mine>>
      /\ copier' = [copier EXCEPT ![c] = n]
  BY DEF DropSlot
<1>2. /\ copier[c] \in [pc : {"none", "copying", "sent", "unflagged", "ended"},
                        result : {"none", "ok", "error", "panic"}, data : Nat]
      /\ copier[c].data <= data /\ inFlight \in BOOLEAN
  BY <1>1 DEF SourceInv, SourceTypes, CopiersOK
<1>3. /\ n \in [pc : {"none", "copying", "sent", "unflagged", "ended"},
                result : {"none", "ok", "error", "panic"}, data : Nat]
      /\ n.pc \in {"none", "ended"}
      /\ n.pc = "none" => n = NoCopier /\ \A t \in Thread : mine[t] # c
      /\ n.pc = "ended" => n.data = copier[c].data /\ \E t \in Thread : mine[t] = c
  <2>1. CASE \E t \in Thread : mine[t] = c
    BY <1>2, <2>1
  <2>2. CASE ~\E t \in Thread : mine[t] = c
    BY <2>2 DEF NoCopier
  <2>3. QED
    BY <2>1, <2>2
<1> HIDE DEF n
<1>4. /\ IsFiniteSet(Slotted) /\ Cardinality(Slotted) \in Nat /\ builds \in Nat
      /\ elsewhere.held \in Nat /\ Undoing \in {0, 1} /\ Undoing' = Undoing
      /\ Own({"undo", "due", "spawn"}) \in {0, 1} /\ Own({"due", "spawn"}) \in {0, 1}
      /\ MaxBuilds \in Nat
  BY <1>1, Counts, SourceAssumption DEF SourceInv, Undoing
<1>5. c \in Slotted
  BY <1>1 DEF Slotted
<1>6. /\ Cardinality(Slotted \ {c}) = Cardinality(Slotted) - 1
      /\ Cardinality(Slotted \ {c}) \in Nat
  BY <1>4, <1>5, FS_RemoveElement, FS_CardinalityType
<1>7. builds' \in Nat
  BY <1>1, <1>4, <1>6 DEF SourceInv, CountOK
<1>8. /\ IInv' /\ copier'[c] = n /\ (\A d \in Copier \ {c} : copier'[d] = copier[d])
      /\ (FlagOK' /\ CountOK' /\ StuckShows' => SourceInv')
  <2>1. n.pc # "none" => n.data <= data /\ n.data >= copier[c].data
    BY <1>2, <1>3
  <2>2. QED
    BY <1>1, <1>2, <1>3, <1>7, <2>1, CopierStep
<1>9. Alive' = Alive /\ Trying' = Trying /\ Slotted' = Slotted \ {c}
  BY <1>1, <1>3, <1>8 DEF Alive, Trying, Slotted
<1>10. FlagOK'
  BY <1>1, <1>9 DEF SourceInv, FlagOK
<1>11. StuckShows'
  BY <1>1, <1>3, <1>8 DEF SourceInv, StuckShows, Overdue
<1>12. CountOK'
  <2>1. /\ Own({"undo", "due", "spawn"})' = Own({"undo", "due", "spawn"})
        /\ Own({"due", "spawn"})' = Own({"due", "spawn"})
    BY <1>1 DEF Own, OneAt
  <2>2. QED
    BY <1>1, <1>4, <1>6, <1>9, <2>1 DEF SourceInv, CountOK
<1>13. QED
  BY <1>8, <1>10, <1>11, <1>12

-----------------------------------------------------------------------------
(***************************************************************************)
(* The deadline, and the other servers of the process.                     *)
(***************************************************************************)
LEMMA DeadlineStep ==
  ASSUME SourceInv, IInv, DeadlinePasses
  PROVE  IInv' /\ SourceInv'
<1>1. /\ UNCHANGED <<vars, inFlight, builds, elsewhere, at, mine, copier>>
      /\ deadline' = "passed"
  BY DEF DeadlinePasses
<1>2. IInv' /\ UNCHANGED <<data, gen, asked, pc>>
  BY <1>1, StutterStep DEF vars, service
<1>3. SourceTypes' /\ CallersOK' /\ CopiersOK'
  BY <1>1, <1>2 DEF SourceInv, SourceTypes, CallersOK, CopiersOK
<1>4. FlagOK' /\ CountOK'
  BY <1>1 DEF SourceInv, FlagOK, CountOK, Trying, Alive, Slotted, Own, OneAt, Undoing
<1>5. StuckShows'
  BY <1>1 DEF SourceInv, StuckShows, Overdue
<1>6. QED
  BY <1>2, <1>3, <1>4, <1>5 DEF SourceInv

LEMMA ElsewhereStep ==
  ASSUME SourceInv, IInv, ElsewhereTakes \/ ElsewhereEnds
  PROVE  IInv' /\ SourceInv'
<1>1. UNCHANGED <<vars, inFlight, deadline, at, mine, copier>>
  BY DEF ElsewhereTakes, ElsewhereEnds
<1>2. IInv' /\ UNCHANGED <<data, gen, asked, pc>>
  BY <1>1, StutterStep DEF vars, service
<1>3. /\ Cardinality(Slotted) \in Nat /\ builds \in Nat
      /\ elsewhere \in [held : Nat, undo : BOOLEAN] /\ MaxBuilds \in Nat
      /\ Own({"undo", "due", "spawn"}) \in {0, 1} /\ Own({"due", "spawn"}) \in {0, 1}
      /\ Own({"due", "spawn"}) <= Own({"undo", "due", "spawn"})
      /\ Slotted' = Slotted
      /\ Own({"undo", "due", "spawn"})' = Own({"undo", "due", "spawn"})
      /\ Own({"due", "spawn"})' = Own({"due", "spawn"})
  BY <1>1, Counts, SourceAssumption DEF SourceInv, SourceTypes, Slotted, Own, OneAt
<1>4. CountOK' /\ elsewhere' \in [held : Nat, undo : BOOLEAN] /\ builds' \in Nat
  <2>1. CASE ElsewhereTakes /\ NoRoom(builds)
    <3>1. /\ elsewhere'.held = elsewhere.held /\ ~elsewhere.undo /\ elsewhere'.undo
          /\ elsewhere' \in [held : Nat, undo : BOOLEAN] /\ builds' = builds + 1
      BY <1>3, <2>1 DEF ElsewhereTakes
    <3>2. QED
      BY <1>3, <3>1 DEF SourceInv, CountOK, Undoing
  <2>2. CASE ElsewhereTakes /\ ~NoRoom(builds)
    <3>1. /\ elsewhere'.held = elsewhere.held + 1 /\ ~elsewhere.undo /\ ~elsewhere'.undo
          /\ elsewhere' \in [held : Nat, undo : BOOLEAN]
          /\ builds' = builds + 1 /\ builds < MaxBuilds
      BY <1>3, <2>2 DEF ElsewhereTakes, NoRoom
    <3>2. QED
      BY <1>3, <3>1 DEF SourceInv, CountOK, Undoing
  <2>3. CASE ElsewhereEnds
    <3>1. /\ elsewhere' \in [held : Nat, undo : BOOLEAN] /\ builds' = builds - 1
          /\ \/ /\ elsewhere.undo /\ ~elsewhere'.undo /\ elsewhere'.held = elsewhere.held
             \/ /\ elsewhere'.undo = elsewhere.undo /\ elsewhere.held > 0
                /\ elsewhere'.held = elsewhere.held - 1
      <4>1. CASE elsewhere.undo /\ elsewhere' = [elsewhere EXCEPT !.undo = FALSE]
        BY <1>3, <2>3, <4>1 DEF ElsewhereEnds
      <4>2. CASE elsewhere.held > 0 /\ elsewhere' = [elsewhere EXCEPT !.held = @ - 1]
        <5> DEFINE m == elsewhere.held - 1
        <5>1. m \in Nat /\ elsewhere' = [elsewhere EXCEPT !.held = m]
          BY <1>3, <4>2
        <5> HIDE DEF m
        <5>2. /\ elsewhere' \in [held : Nat, undo : BOOLEAN] /\ elsewhere'.held = m
              /\ elsewhere'.undo = elsewhere.undo
          BY <1>3, <5>1
        <5>3. QED
          BY <2>3, <4>2, <5>2 DEF ElsewhereEnds, m
      <4>3. QED
        BY <2>3, <4>1, <4>2 DEF ElsewhereEnds
    <3>2. QED
      BY <1>3, <3>1 DEF SourceInv, CountOK, Undoing
  <2>4. QED
    BY <2>1, <2>2, <2>3
<1>5. SourceTypes' /\ CallersOK' /\ CopiersOK'
  BY <1>1, <1>2, <1>4 DEF SourceInv, SourceTypes, CallersOK, CopiersOK
<1>6. FlagOK' /\ StuckShows'
  BY <1>1 DEF SourceInv, FlagOK, Trying, Alive, StuckShows, Overdue
<1>7. QED
  BY <1>2, <1>4, <1>5, <1>6 DEF SourceInv

-----------------------------------------------------------------------------
LEMMA SourceInitInv == SourceInit => IInv /\ SourceInv
<1> SUFFICES ASSUME SourceInit PROVE IInv /\ SourceInv
  OBVIOUS
<1>1. IInv
  BY InitIInv DEF SourceInit
<1>2. SourceTypes
  BY DEF SourceInit, SourceTypes, NoCopier
<1>3. CallersOK /\ CopiersOK /\ StuckShows
  BY DEF SourceInit, Init, CallersOK, CopiersOK, StuckShows, NoCopier
<1>4. Slotted = {} /\ Alive = {} /\ Trying = {}
  BY DEF SourceInit, Slotted, Alive, Trying, NoCopier
<1>5. FlagOK
  BY <1>4 DEF SourceInit, FlagOK
<1>6. CountOK
  <2>1. Own({"undo", "due", "spawn"}) = 0 /\ Own({"due", "spawn"}) = 0
    BY DEF SourceInit, Own, OneAt
  <2>2. Cardinality(Slotted) = 0
    BY <1>4, FS_EmptySet
  <2>3. QED
    BY <2>1, <2>2, SourceAssumption DEF SourceInit, CountOK, Undoing
<1>7. QED
  BY <1>1, <1>2, <1>3, <1>5, <1>6 DEF SourceInv

LEMMA SourceNextInv == IInv /\ SourceInv /\ [SourceNext]_allVars => IInv' /\ SourceInv'
<1> SUFFICES ASSUME IInv, SourceInv, [SourceNext]_allVars PROVE IInv' /\ SourceInv'
  OBVIOUS
<1>1. CASE RemoteChange \/ DeadlinePasses \/ ElsewhereTakes \/ ElsewhereEnds
  BY <1>1, RemoteChangeStep, DeadlineStep, ElsewhereStep
<1>2. CASE /\ UNCHANGED srcVars
           /\ \/ \E w \in Writer : Write(w) \/ AskRefresh(w)
              \/ \E h \in Health : Peek(h) \/ EndPeek(h)
              \/ UNCHANGED vars
  BY <1>2, QuietStep
<1>3. ASSUME NEW t \in Thread, Call(t) \/ Skip(t) \/ Lock(t) \/ Return(t), UNCHANGED srcVars
      PROVE  IInv' /\ SourceInv'
  BY <1>3, OutsideStep
<1>4. ASSUME NEW t \in Thread, RunSource(t) PROVE IInv' /\ SourceInv'
  BY <1>4, TakeFlagStep, TakeSlotStep, UndoSlotStep, UndoFlagStep, SetDeadlineStep, SpawnStep,
     ReceiveStep, TimeOutStep DEF RunSource
<1>5. ASSUME NEW t \in Thread, Around(t) PROVE IInv' /\ SourceInv'
  BY <1>5, AroundStep
<1>6. ASSUME NEW c \in Copier, Finish(c) \/ Read(c) \/ DropFlag(c) \/ DropSlot(c)
      PROVE  IInv' /\ SourceInv'
  BY <1>6, FinishStep, ReadStep, DropFlagStep, DropSlotStep
<1>7. QED
  BY <1>1, <1>2, <1>3, <1>4, <1>5, <1>6 DEF SourceNext, Finished, allVars

(***************************************************************************)
(* Both invariants hold in every reachable state of a server with a Quack  *)
(* source, however many copies were given up.                              *)
(***************************************************************************)
THEOREM SourceInvariance == SourceSpec => [](IInv /\ SourceInv)
<1>1. QED
  BY SourceInitInv, SourceNextInv, PTL DEF SourceSpec

\* At most one thread is at any of these places.
LEMMA OneHolds ==
  ASSUME IInv, SourceInv, NEW places, "flag" \notin places
  PROVE  Cardinality({t \in Thread : at[t] \in places}) = Own(places)
<1> DEFINE S == {t \in Thread : at[t] \in places}
<1>1. CASE S = {}
  BY <1>1, FS_EmptySet DEF Own, OneAt
<1>2. ASSUME NEW t \in S PROVE Cardinality(S) = Own(places)
  <2>1. pc[t] = "copy"
    BY DEF SourceInv, CallersOK
  <2>2. \A u \in Thread \ {t} : at[u] = "flag"
    BY <2>1, OnlyOne DEF SourceInv
  <2>3. S = {t}
    BY <2>2
  <2>4. Cardinality(S) = 1
    BY <2>3, FS_Singleton
  <2>5. QED
    BY <2>4 DEF Own, OneAt
<1>3. QED
  BY <1>1, <1>2

(***************************************************************************)
(* The flag is up exactly while an attempt or its copy has it, and the     *)
(* counter counts the slots really held, for every number of threads,      *)
(* copies and slots: no build is admitted over MAX_CONCURRENT_SOURCE_BUILDS*)
(* and none is refused for a slot that nobody has (SourceBuildState,       *)
(* GLOBAL_SOURCE_BUILDS).                                                  *)
(***************************************************************************)
THEOREM SlotsExactHolds == SourceSpec => []SlotsExact
<1>1. IInv /\ SourceInv => SlotsExact
  <2> SUFFICES ASSUME IInv, SourceInv PROVE SlotsExact
    OBVIOUS
  <2>1. Cardinality({t \in Thread : at[t] \in {"undo", "due", "spawn"}})
          = Own({"undo", "due", "spawn"})
    BY OneHolds
  <2>2. Cardinality(Alive) <= 1
    <3>1. CASE Alive = {}
      BY <3>1, FS_EmptySet
    <3>2. ASSUME NEW c \in Alive PROVE Cardinality(Alive) <= 1
      <4>1. Alive = {c}
        BY <3>2 DEF SourceInv, FlagOK, Alive
      <4>2. QED
        BY <4>1, FS_Singleton
    <3>3. QED
      BY <3>1, <3>2
  <2>3. Cardinality(Slotted) + elsewhere.held <= MaxBuilds
    <3>1. /\ Own({"due", "spawn"}) \in {0, 1} /\ Cardinality(Slotted) \in Nat
          /\ elsewhere.held \in Nat /\ MaxBuilds \in Nat
      BY Counts, SourceAssumption DEF SourceInv
    <3>2. QED
      BY <3>1 DEF SourceInv, CountOK
  <2>4. QED
    BY <2>1, <2>2, <2>3 DEF SourceInv, FlagOK, CountOK, SlotsExact, Trying, Slotted, Undoing
<1>2. QED
  BY <1>1, SourceInvariance, PTL

(***************************************************************************)
(* A copy that everybody has given up on is shown as overdue until it ends:*)
(* a stuck build never looks healthy (`SourceBuildState::overdue').        *)
(***************************************************************************)
THEOREM StuckShowsHolds == SourceSpec => []StuckShows
<1>1. SourceInv => StuckShows
  BY DEF SourceInv
<1>2. QED
  BY <1>1, SourceInvariance, PTL

(***************************************************************************)
(* Also with a Quack source a caller that waits is served what was there   *)
(* when it asked: what a copy sends is never older than that, and an       *)
(* abandoned copy's result is served to nobody (`run_source_build').       *)
(***************************************************************************)
THEOREM SourceFresh == SourceSpec => []FreshOnReturn
<1>1. IInv => FreshOnReturn
  BY DEF IInv, FreshOK, FreshOnReturn
<1>2. QED
  BY <1>1, SourceInvariance, PTL

-----------------------------------------------------------------------------
(***************************************************************************)
(* The drift test of agent mode: what it promises the agent holds.         *)
(***************************************************************************)

(* The rebuilds underneath.                                                *)

\* The host session's data gets newer, as by a write.
LEMMA ChangeStep ==
  ASSUME IInv, Change
  PROVE  IInv'
<1>1. TypeOK'
  BY DEF IInv, TypeOK, Change, service
<1>2. MutexOK'
  BY DEF IInv, MutexOK, Change, Building
<1>3. SourcesOK'
  BY DEF IInv, TypeOK, SourcesOK, Change, service, Versions, Builds
<1>4. DashesOK'
  BY DEF IInv, DashesOK, Change, service, Ready
<1>5. BuildsOK'
  BY DEF IInv, BuildsOK, Change, service, Loaded, Copied, Ready
<1>6. FreshOK'
  BY DEF IInv, FreshOK, Change, service, Loaded, Copied, Ready
<1>7. OutcomeOK'
  BY DEF IInv, OutcomeOK, Change, service
<1>8. QED
  BY <1>1, <1>2, <1>3, <1>4, <1>5, <1>6, <1>7 DEF IInv

\* Every other step is one of Refresh, or leaves it alone.
LEMMA RefreshPart ==
  ASSUME IInv, [DriftNext]_all
  PROVE  IInv'
<1>1. CASE Change
  BY <1>1, ChangeStep
<1>2. CASE UNCHANGED all
  BY <1>2, NextIInv DEF all
<1>3. CASE Plain
  BY <1>3, NextIInv DEF Plain, Next, Rebuild
<1>4. ASSUME NEW t \in Thread,
             CheckDue(t) \/ UnlockDrift(t) \/ RunDrift(t) \/ DriftReturn(t)
      PROVE  [Next]_vars
  BY <1>4 DEF CheckDue, UnlockDrift, RunDrift, Look, Probe, List, Clear,
     DriftReturn, Next, Rebuild
<1>5. ASSUME NEW a \in Asker, Serve(a)
      PROVE  UNCHANGED vars
  BY <1>5 DEF Serve, Question, Due, ReadOff, Panel
<1>6. CASE Finished
  BY <1>6, NextIInv DEF Finished
<1>7. QED
  BY <1>1, <1>2, <1>3, <1>4, <1>5, <1>6, NextIInv DEF DriftNext

\* No drift run is entered, left or becomes due.
LEMMA DriftFrame ==
  ASSUME DInv, UNCHANGED <<gen, text, drift, agent>>,
         DueOK', PlaceOK', UntestedHasRun'
  PROVE  DriftInv'
<1>1. UNCHANGED <<gen, text, pending, off, dpc, found, seen, tested, overlapped,
                  apc, began, answer>>
  BY DEF drift, agent
<1>2. DriftTypes' /\ EpochsOK'
  BY <1>1 DEF DInv, DriftInv, DriftTypes, EpochsOK
<1>3. RunOK' /\ ListOK'
  BY <1>1 DEF DInv, DriftInv, RunOK, ListOK
<1>4. AskersOK' /\ PendingOK'
  BY <1>1 DEF DInv, DriftInv, AskersOK, PendingOK
<1>5. OwnAnswersChecked'
  BY <1>1 DEF DInv, DriftInv, OwnAnswersChecked
<1>6. QED
  BY <1>2, <1>3, <1>4, <1>5 DEF DriftInv

\* `t' has released no mutex, and its build is not ready before it was.
Keeps(t) ==
  /\ Ready(t)' => Ready(t)
  /\ (pc'[t] = "unlock" /\ build'[t].ok) <=> (pc[t] = "unlock" /\ build[t].ok)
  /\ pc[t] = "after" => pc'[t] = "after"

LEMMA KeepsFrame ==
  ASSUME DInv, UNCHANGED <<gen, text, drift, agent>>, \A t \in Thread : Keeps(t)
  PROVE  DriftInv'
<1>1. UNCHANGED <<gen, text, pending, off, dpc, found, seen, tested, overlapped>>
  BY DEF drift
<1>2. Drifting' <=> Drifting
  BY <1>1 DEF Drifting
<1>3. PlaceOK'
  BY <1>1 DEF DInv, DriftInv, PlaceOK, Keeps
<1>4. DueOK'
  <2>1. ASSUME NEW t \in Thread
        PROVE  /\ Ready(t)' /\ gen'.epoch + 1 \notin overlapped' => pending' /\ ~Drifting'
               /\ pc'[t] = "unlock" /\ build'[t].ok /\ gen'.epoch \notin overlapped' =>
                    pending' /\ ~Drifting'
    <3>1. Keeps(t)
      OBVIOUS
    <3>2. QED
      BY <3>1, <1>1, <1>2 DEF DInv, DriftInv, DueOK, Keeps
  <2>2. QED
    BY <2>1 DEF DueOK, Ready
<1>5. UntestedHasRun'
  <2>1. ASSUME NEW t \in Thread, WillTest(t)
        PROVE  WillTest(t)'
    <3>1. Keeps(t)
      OBVIOUS
    <3>2. QED
      BY <2>1, <3>1, <1>1 DEF Keeps, WillTest
  <2>2. QED
    BY <1>1, <2>1 DEF DInv, DriftInv, UntestedHasRun
<1>6. QED
  BY <1>3, <1>4, <1>5, DriftFrame

LEMMA ThreadType ==
  ASSUME DInv, NEW t \in Thread
  PROVE  /\ pc[t] \in Places /\ build[t] \in Builds /\ build[t].ok \in BOOLEAN
         /\ gen.epoch \in Nat
         /\ gen = [epoch |-> gen.epoch, data |-> gen.data, set |-> gen.set]
BY DEF DInv, IInv, TypeOK, Builds

\* One thread at a time is between due and the release of the mutex.
LEMMA OneBuilds ==
  ASSUME DInv, NEW s \in Thread, NEW t \in Thread, s # t, Building(t)
  PROVE  ~Ready(s) /\ pc[s] # "unlock"
BY DEF DInv, IInv, MutexOK, Building, Ready

\* The plain steps that leave the generation alone.
LEMMA PlainStep ==
  ASSUME DInv, Plain, UNCHANGED gen
  PROVE  DriftInv'
<1>1. UNCHANGED <<text, drift, agent>>
  BY DEF Plain
<1>2. \A t \in Thread : Keeps(t)
  <2>1. CASE UNCHANGED <<pc, build>>
    BY <2>1 DEF Keeps, Ready
  <2>2. ASSUME NEW t \in Thread, Call(t) \/ Skip(t) \/ Lock(t)
        PROVE  \A s \in Thread : Keeps(s)
    BY <2>2 DEF DInv, IInv, TypeOK, Keeps, Ready, Call, Tick, RunTask, TakeWish,
       Ask, Calls, Skip, Lock, Goto
  <2>3. ASSUME NEW t \in Thread, Load(t) \/ Copy(t)
        PROVE  \A s \in Thread : Keeps(s)
    BY <2>3 DEF DInv, IInv, TypeOK, Builds, Keeps, Ready, Load, Copy, Fails,
       NoBuild, Goto
  <2>4. ASSUME NEW t \in Thread, MarkOutcome(t) \/ CountOutcome(t)
        PROVE  \A s \in Thread : Keeps(s)
    BY <2>4 DEF DInv, IInv, TypeOK, BuildsOK, Keeps, Ready, MarkOutcome,
       CountOutcome, Goto
  <2>5. ASSUME NEW t \in Thread, Swap(t)
        PROVE  FALSE
    BY <2>5, ThreadType DEF Swap
  <2>6. QED
    BY <2>1, <2>2, <2>3, <2>4, <2>5 DEF Plain, Edit, Peek, EndPeek
<1>3. QED
  BY <1>1, <1>2, KeepsFrame

\* A new generation is in service: it is untested, and its run is to come.
LEMMA SwapDrift ==
  ASSUME DInv, NEW t \in Thread, Swap(t),
         UNCHANGED <<text, drift, agent>>
  PROVE  DriftInv'
<1>1. UNCHANGED <<text, pending, off, dpc, found, seen, tested, overlapped, apc,
                  began, answer, build>>
  BY DEF drift, agent, Swap
<1>2. gen'.epoch = gen.epoch + 1 /\ gen.epoch \in Nat
  BY ThreadType DEF Swap
<1>3. pc[t] = "swap" /\ build[t].ok /\ pc' = [pc EXCEPT ![t] = "unlock"]
      /\ pc'[t] = "unlock" /\ \A s \in Thread \ {t} : pc'[s] = pc[s]
  BY DEF DInv, IInv, TypeOK, BuildsOK, Swap, Goto
<1>4. gen'.epoch \notin overlapped => pending /\ ~Drifting
  BY <1>2, <1>3 DEF DInv, DriftInv, DueOK, Ready
<1>5. \A s \in Thread \ {t} : ~Ready(s) /\ pc[s] # "unlock"
  BY <1>3, OneBuilds DEF Building
<1>6. gen'.epoch \notin tested /\ \A a \in Asker : began[a] # gen'.epoch
  BY <1>2 DEF DInv, DriftInv, DriftTypes, EpochsOK
<1>7. DriftTypes'
  BY <1>1 DEF DInv, DriftInv, DriftTypes
<1>8. EpochsOK'
  BY <1>1, <1>2 DEF DInv, DriftInv, DriftTypes, EpochsOK
<1>9. PlaceOK'
  BY <1>1, <1>3 DEF DInv, DriftInv, PlaceOK
<1>10. DueOK'
  <2>1. ASSUME NEW s \in Thread
        PROVE  /\ ~Ready(s)'
               /\ gen'.epoch \notin overlapped => pending' /\ ~Drifting'
    BY <1>1, <1>3, <1>4, <1>5 DEF Ready, Drifting
  <2>2. QED
    BY <1>1, <2>1 DEF DueOK, Ready
<1>11. RunOK'
  BY <1>1, <1>4 DEF RunOK, Drifting
<1>12. ListOK' /\ AskersOK'
  BY <1>1, <1>6 DEF ListOK, AskersOK
<1>13. PendingOK' /\ OwnAnswersChecked'
  BY <1>1, <1>4 DEF DInv, DriftInv, PendingOK, OwnAnswersChecked
<1>14. UntestedHasRun'
  BY <1>1, <1>3 DEF UntestedHasRun, WillTest
<1>15. QED
  BY <1>7, <1>8, <1>9, <1>10, <1>11, <1>12, <1>13, <1>14 DEF DriftInv

\* The end of a build: due before it is in service, and overlapped if a run is
\* under way.
LEMMA CheckStepDue ==
  ASSUME DInv, NEW t \in Thread, CheckDue(t)
  PROVE  DriftInv'
<1>1. /\ UNCHANGED <<gen, text, off, dpc, found, seen, tested, apc, began, answer>>
      /\ pending' = (pending \/ build'[t].ok)
      /\ overlapped' = overlapped \cup {e \in {gen.epoch + 1} : build'[t].ok /\ Drifting}
      /\ Check(t)
  BY DEF CheckDue, Check, service, agent
<1>2. pc[t] = "check" /\ pc' = [pc EXCEPT ![t] = "built"]
      /\ \A s \in Thread \ {t} : build'[s] = build[s] /\ pc'[s] = pc[s]
  BY DEF DInv, IInv, TypeOK, CheckDue, Check, Fails, Goto
<1>3. pending \in BOOLEAN /\ pending' \in BOOLEAN /\ (pending => pending')
  BY <1>1 DEF DInv, DriftInv, DriftTypes
<1>4. gen.epoch \in Nat /\ gen.epoch + 1 # gen.epoch
  BY ThreadType
<1>5. (gen.epoch \in overlapped' <=> gen.epoch \in overlapped)
      /\ (\A e : e \in overlapped => e \in overlapped')
  BY <1>1, <1>4
<1>6. Drifting' <=> Drifting
  BY <1>1 DEF Drifting
<1>7. pc'[t] = "built" /\ pc[t] # "unlock"
  BY <1>2 DEF DInv, IInv, TypeOK
<1>8. DueOK'
  <2>1. ASSUME NEW s \in Thread, s # t
        PROVE  ~Ready(s)' /\ pc'[s] # "unlock"
    BY <1>2, <2>1, OneBuilds DEF Building, Ready
  <2>2. ASSUME Ready(t)', gen.epoch + 1 \notin overlapped'
        PROVE  pending' /\ ~Drifting'
    <3>1. build'[t].ok
      BY <2>2 DEF Ready
    <3>2. pending'
      BY <1>1, <3>1
    <3>3. ~Drifting
      BY <1>1, <2>2, <3>1
    <3>4. QED
      BY <3>2, <3>3, <1>6
  <2>3. ASSUME NEW s \in Thread
        PROVE  /\ Ready(s)' /\ gen'.epoch + 1 \notin overlapped' => pending' /\ ~Drifting'
               /\ pc'[s] = "unlock" /\ build'[s].ok /\ gen'.epoch \notin overlapped' =>
                    pending' /\ ~Drifting'
    BY <1>1, <1>7, <2>1, <2>2
  <2>4. QED
    BY <2>3 DEF DueOK, Ready
<1>9. PlaceOK'
  BY <1>1, <1>2 DEF DInv, DriftInv, PlaceOK
<1>10. DriftTypes' /\ EpochsOK'
  BY <1>1, <1>3 DEF DInv, DriftInv, DriftTypes, EpochsOK
<1>11. RunOK' /\ ListOK'
  BY <1>1, <1>5 DEF DInv, DriftInv, RunOK, ListOK
<1>12. AskersOK' /\ PendingOK'
  BY <1>1, <1>3, <1>5 DEF DInv, DriftInv, AskersOK, PendingOK
<1>13. OwnAnswersChecked'
  BY <1>1, <1>5 DEF DInv, DriftInv, OwnAnswersChecked
<1>14. UntestedHasRun'
  <2>1. ASSUME NEW s \in Thread, WillTest(s)
        PROVE  WillTest(s)'
    <3>1. CASE s = t
      BY <1>1, <1>7, <2>1, <3>1 DEF WillTest
    <3>2. CASE s # t
      BY <1>1, <1>2, <2>1, <3>2 DEF WillTest
    <3>3. QED
      BY <3>1, <3>2
  <2>2. QED
    BY <1>1, <2>1 DEF DInv, DriftInv, UntestedHasRun
<1>15. QED
  BY <1>8, <1>9, <1>10, <1>11, <1>12, <1>13, <1>14 DEF DriftInv

\* A thread goes on in, or enters, a drift run: nothing is tested yet.
LEMMA RunFrame ==
  ASSUME DInv, UNCHANGED <<gen, text, pending, off, tested, overlapped, agent>>,
         DriftTypes', PlaceOK', DueOK', RunOK', UntestedHasRun',
         \A t \in Thread : seen'[t] <= gen.epoch
  PROVE  DriftInv'
<1>1. UNCHANGED <<gen, text, pending, off, tested, overlapped, apc, began, answer>>
  BY DEF agent
<1>2. EpochsOK' /\ ListOK'
  BY <1>1 DEF DInv, DriftInv, EpochsOK, ListOK
<1>3. AskersOK' /\ PendingOK'
  BY <1>1 DEF DInv, DriftInv, AskersOK, PendingOK
<1>4. OwnAnswersChecked'
  BY <1>1 DEF DInv, DriftInv, OwnAnswersChecked
<1>5. QED
  BY <1>2, <1>3, <1>4 DEF DriftInv

\* While a run is under way, nothing that is not overlapped is due.
LEMMA DriftingDue ==
  ASSUME DInv, NEW t \in Thread, dpc[t] # "none",
         UNCHANGED <<gen, pc, build, overlapped>>
  PROVE  DueOK'
<1>1. Drifting
  BY DEF Drifting
<1>2. ASSUME NEW s \in Thread
      PROVE  /\ ~(Ready(s)' /\ gen'.epoch + 1 \notin overlapped')
             /\ ~(pc'[s] = "unlock" /\ build'[s].ok /\ gen'.epoch \notin overlapped')
  BY <1>1 DEF DInv, DriftInv, DueOK, Ready
<1>3. QED
  BY <1>2 DEF DueOK, Ready

\* After the mutex the run begins, alone if the generation is not overlapped.
LEMMA UnlockStepDrift ==
  ASSUME DInv, NEW t \in Thread, UnlockDrift(t)
  PROVE  DriftInv'
<1>1. /\ UNCHANGED <<gen, text, pending, off, found, seen, tested, overlapped, agent, build>>
      /\ UNCHANGED <<apc, began, answer>>
  BY DEF UnlockDrift, Unlock, service, agent
<1>2. /\ pc[t] = "unlock" /\ pc' = [pc EXCEPT ![t] = "after"]
      /\ dpc' = [dpc EXCEPT ![t] = IF build[t].ok THEN "get" ELSE "none"]
  BY DEF UnlockDrift, Unlock, Goto
<1>3. /\ pc'[t] = "after" /\ dpc'[t] = IF build[t].ok THEN "get" ELSE "none"
      /\ \A s \in Thread \ {t} : pc'[s] = pc[s] /\ dpc'[s] = dpc[s]
  BY <1>2 DEF DInv, IInv, TypeOK, DriftInv, DriftTypes
<1>4. DriftTypes'
  BY <1>1, <1>2 DEF DInv, DriftInv, DriftTypes
<1>5. PlaceOK'
  BY <1>3 DEF DInv, DriftInv, PlaceOK
<1>6. DueOK'
  <2>1. ASSUME NEW s \in Thread
        PROVE  ~Ready(s)' /\ pc'[s] # "unlock"
    <3>1. CASE s = t
      BY <1>3, <3>1 DEF Ready
    <3>2. CASE s # t
      BY <1>1, <1>2, <1>3, <3>2, OneBuilds DEF Building, Ready
    <3>3. QED
      BY <3>1, <3>2
  <2>2. QED
    BY <2>1 DEF DueOK, Ready
<1>7. RunOK'
  <2>1. CASE gen.epoch \in overlapped
    BY <1>1, <2>1 DEF RunOK
  <2>2. CASE gen.epoch \notin overlapped /\ build[t].ok
    <3>1. \A s \in Thread : dpc[s] = "none"
      BY <1>2, <2>2 DEF DInv, DriftInv, DueOK, Drifting
    <3>2. \A s \in Thread \ {t} : dpc'[s] = "none"
      BY <1>3, <3>1
    <3>3. dpc'[t] = "get"
      BY <1>3, <2>2
    <3>4. QED
      BY <3>2, <3>3 DEF RunOK
  <2>3. CASE gen.epoch \notin overlapped /\ ~build[t].ok
    <3>1. \A s \in Thread : dpc'[s] # "none" => dpc'[s] = dpc[s]
      BY <1>3, <2>3
    <3>2. QED
      BY <1>1, <2>3, <3>1 DEF DInv, DriftInv, RunOK
  <2>4. QED
    BY <2>1, <2>2, <2>3
<1>8. UntestedHasRun'
  <2>1. dpc[t] = "none"
    BY <1>2 DEF DInv, DriftInv, PlaceOK
  <2>2. ASSUME NEW s \in Thread, WillTest(s)
        PROVE  WillTest(s)'
    <3>1. CASE s = t
      BY <1>3, <2>1, <2>2, <3>1 DEF WillTest
    <3>2. CASE s # t
      BY <1>1, <1>3, <2>2, <3>2 DEF WillTest
    <3>3. QED
      BY <3>1, <3>2
  <2>3. QED
    BY <1>1, <2>2 DEF DInv, DriftInv, UntestedHasRun
<1>9. \A s \in Thread : seen'[s] <= gen.epoch
  BY <1>1 DEF DInv, DriftInv, EpochsOK
<1>10. QED
  BY <1>1, <1>4, <1>5, <1>6, <1>7, <1>8, <1>9, RunFrame

\* The run goes on to probe, or has nothing to probe.
LEMMA LookStep ==
  ASSUME DInv, NEW t \in Thread, Look(t)
  PROVE  DriftInv'
<1>1. UNCHANGED <<gen, text, pending, off, found, seen, tested, overlapped, agent, build, pc>>
  BY DEF Look, vars, service
<1>2. dpc[t] = "get"
      /\ dpc' = [dpc EXCEPT ![t] = IF text[gen.set] = "gone" THEN "clear" ELSE "probe"]
  BY DEF Look
<1>3. /\ dpc'[t] = IF text[gen.set] = "gone" THEN "clear" ELSE "probe"
      /\ \A s \in Thread \ {t} : dpc'[s] = dpc[s]
  BY <1>2 DEF DInv, DriftInv, DriftTypes
<1>4. DriftTypes'
  BY <1>1, <1>2 DEF DInv, DriftInv, DriftTypes, agent
<1>5. PlaceOK'
  BY <1>1, <1>2, <1>3 DEF DInv, DriftInv, PlaceOK
<1>6. DueOK'
  BY <1>1, <1>2, DriftingDue
<1>7. RunOK'
  <2>1. ASSUME NEW s \in Thread
        PROVE  /\ dpc'[s] # "none" => dpc[s] # "none"
               /\ dpc'[s] = "list" => dpc[s] = "list"
               /\ dpc'[s] = "clear" => dpc[s] = "clear" \/ text[gen.set] = "gone"
    BY <1>2, <1>3
  <2>2. QED
    BY <1>1, <2>1 DEF DInv, DriftInv, RunOK
<1>8. UntestedHasRun'
  <2>1. ASSUME text[gen.set] # "gone", NEW s \in Thread, WillTest(s)
        PROVE  WillTest(s)'
    <3>1. CASE s = t
      BY <1>3, <2>1, <3>1 DEF WillTest
    <3>2. CASE s # t
      BY <1>1, <1>3, <2>1, <3>2 DEF WillTest
    <3>3. QED
      BY <3>1, <3>2
  <2>2. QED
    BY <1>1, <2>1 DEF DInv, DriftInv, UntestedHasRun
<1>9. \A s \in Thread : seen'[s] <= gen.epoch
  BY <1>1 DEF DInv, DriftInv, EpochsOK
<1>10. QED
  BY <1>1, <1>4, <1>5, <1>6, <1>7, <1>8, <1>9, RunFrame

\* The run probes the generation in service.
LEMMA ProbeStep ==
  ASSUME DInv, NEW t \in Thread, Probe(t)
  PROVE  DriftInv'
<1>1. UNCHANGED <<gen, text, pending, off, tested, overlapped, agent, build, pc>>
  BY DEF Probe, vars, service
<1>2. PICK f \in {text[gen.set] = "gone" \/ gen.data \in Bad, TRUE} :
        found' = [found EXCEPT ![t] = f]
  BY DEF Probe
<1>3. /\ dpc[t] = "probe" /\ dpc' = [dpc EXCEPT ![t] = "list"]
      /\ seen' = [seen EXCEPT ![t] = gen.epoch]
  BY DEF Probe
<1>4. f \in BOOLEAN /\ (gen.data \in Bad => f)
  OBVIOUS
<1>5. gen.epoch \in Nat
  BY ThreadType
<1>6. /\ dpc'[t] = "list" /\ seen'[t] = gen.epoch /\ found'[t] = f
      /\ \A s \in Thread \ {t} :
           dpc'[s] = dpc[s] /\ seen'[s] = seen[s] /\ found'[s] = found[s]
  BY <1>2, <1>3 DEF DInv, DriftInv, DriftTypes
<1>7. DriftTypes'
  BY <1>1, <1>2, <1>3, <1>4, <1>5 DEF DInv, DriftInv, DriftTypes, agent
<1>8. PlaceOK'
  BY <1>1, <1>3, <1>6 DEF DInv, DriftInv, PlaceOK
<1>9. DueOK'
  BY <1>1, <1>3, DriftingDue
<1>10. RunOK'
  <2>1. ASSUME NEW s \in Thread
        PROVE  /\ dpc'[s] # "none" => dpc[s] # "none"
               /\ dpc'[s] = "clear" => dpc[s] = "clear"
    BY <1>3, <1>6
  <2>2. ASSUME NEW s \in Thread, gen.epoch \notin overlapped, dpc'[s] = "list"
        PROVE  seen'[s] = gen.epoch /\ (gen.data \in Bad => found'[s])
    <3>1. CASE s = t
      BY <1>4, <1>6, <3>1
    <3>2. CASE s # t
      BY <1>6, <2>2, <3>2 DEF DInv, DriftInv, RunOK
    <3>3. QED
      BY <3>1, <3>2
  <2>3. QED
    BY <1>1, <2>1, <2>2 DEF DInv, DriftInv, RunOK
<1>11. UntestedHasRun'
  BY <1>1, <1>6 DEF UntestedHasRun, WillTest
<1>12. \A s \in Thread : seen'[s] <= gen.epoch
  BY <1>5, <1>6 DEF DInv, DriftInv, EpochsOK
<1>13. QED
  BY <1>1, <1>7, <1>8, <1>9, <1>10, <1>11, <1>12, RunFrame

\* The list is that of the generation in service, unless it is overlapped.
LEMMA ListStep ==
  ASSUME DInv, NEW t \in Thread, List(t)
  PROVE  DriftInv'
<1>1. /\ UNCHANGED <<gen, text, pending, found, seen, overlapped, build, pc>>
      /\ UNCHANGED <<apc, began, answer>>
  BY DEF List, vars, service, agent
<1>2. /\ dpc[t] = "list" /\ dpc' = [dpc EXCEPT ![t] = "clear"]
      /\ off' = found[t] /\ tested' = tested \cup {seen[t]}
  BY DEF List
<1>3. gen.epoch \in Nat /\ seen[t] \in Nat /\ seen[t] <= gen.epoch
  BY ThreadType DEF DInv, DriftInv, DriftTypes, EpochsOK
<1>4. dpc'[t] = "clear" /\ \A s \in Thread \ {t} : dpc'[s] = dpc[s]
  BY <1>2 DEF DInv, DriftInv, DriftTypes
<1>5. gen.epoch \notin overlapped =>
        /\ seen[t] = gen.epoch /\ (gen.data \in Bad => found[t])
        /\ \A s \in Thread \ {t} : dpc[s] = "none"
  BY <1>2 DEF DInv, DriftInv, RunOK
<1>6. DriftTypes'
  BY <1>1, <1>2 DEF DInv, DriftInv, DriftTypes
<1>7. EpochsOK'
  BY <1>1, <1>2, <1>3 DEF DInv, DriftInv, EpochsOK
<1>8. PlaceOK'
  BY <1>1, <1>2, <1>4 DEF DInv, DriftInv, PlaceOK
<1>9. DueOK'
  BY <1>1, <1>2, DriftingDue
<1>10. RunOK'
  BY <1>1, <1>2, <1>4, <1>5 DEF RunOK
<1>11. ListOK'
  BY <1>1, <1>2, <1>5 DEF ListOK
<1>12. AskersOK' /\ PendingOK'
  BY <1>1, <1>2 DEF DInv, DriftInv, AskersOK, PendingOK
<1>13. OwnAnswersChecked'
  BY <1>1, <1>2 DEF DInv, DriftInv, OwnAnswersChecked
<1>14. UntestedHasRun'
  <2>1. ASSUME gen.epoch \notin tested', NEW s \in Thread, WillTest(s)
        PROVE  WillTest(s)'
    <3>1. CASE s = t
      BY <1>1, <1>2, <2>1, <3>1 DEF DInv, DriftInv, PlaceOK, WillTest
    <3>2. CASE s # t
      BY <1>1, <1>4, <2>1, <3>2 DEF WillTest
    <3>3. QED
      BY <3>1, <3>2
  <2>2. QED
    BY <1>1, <1>2, <2>1 DEF DInv, DriftInv, UntestedHasRun
<1>15. QED
  BY <1>6, <1>7, <1>8, <1>9, <1>10, <1>11, <1>12, <1>13, <1>14 DEF DriftInv

\* Nothing is due any more: the generation in service is tested, has no text of
\* the agent's, or is overlapped.
LEMMA ClearStep ==
  ASSUME DInv, NEW t \in Thread, Clear(t)
  PROVE  DriftInv'
<1>1. /\ UNCHANGED <<gen, text, off, tested, overlapped, build, pc>>
      /\ UNCHANGED <<apc, began, answer>>
  BY DEF Clear, vars, service, agent
<1>2. /\ dpc[t] = "clear" /\ dpc' = [dpc EXCEPT ![t] = "none"] /\ pending' = FALSE
      /\ found' = [found EXCEPT ![t] = FALSE] /\ seen' = [seen EXCEPT ![t] = 0]
  BY DEF Clear
<1>3. /\ dpc'[t] = "none" /\ found'[t] = FALSE /\ seen'[t] = 0
      /\ \A s \in Thread \ {t} :
           dpc'[s] = dpc[s] /\ seen'[s] = seen[s] /\ found'[s] = found[s]
  BY <1>2 DEF DInv, DriftInv, DriftTypes
<1>4. gen.epoch \in Nat
  BY ThreadType
<1>5. DriftTypes'
  BY <1>1, <1>2 DEF DInv, DriftInv, DriftTypes
<1>6. ListOK' /\ AskersOK'
  BY <1>1 DEF DInv, DriftInv, ListOK, AskersOK
<1>7. EpochsOK'
  BY <1>1, <1>3, <1>4 DEF DInv, DriftInv, EpochsOK
<1>8. PlaceOK'
  BY <1>1, <1>3 DEF DInv, DriftInv, PlaceOK
<1>9. DueOK'
  BY <1>1, <1>2, DriftingDue
<1>10. RunOK'
  <2>1. CASE gen.epoch \in overlapped
    BY <1>1, <2>1 DEF RunOK
  <2>2. CASE gen.epoch \notin overlapped
    <3>1. \A s \in Thread \ {t} : dpc[s] = "none"
      BY <1>2, <2>2 DEF DInv, DriftInv, RunOK
    <3>2. \A s \in Thread : dpc'[s] = "none"
      BY <1>3, <3>1
    <3>3. QED
      BY <3>2 DEF RunOK
  <2>3. QED
    BY <2>1, <2>2
<1>11. gen.epoch \notin overlapped => text[gen.set] = "gone" \/ gen.epoch \in tested
  BY <1>2 DEF DInv, DriftInv, RunOK
<1>12. PendingOK' /\ OwnAnswersChecked'
  BY <1>1, <1>11 DEF DInv, DriftInv, PendingOK, OwnAnswersChecked
<1>13. UntestedHasRun'
  <2>1. ASSUME NEW s \in Thread, WillTest(s)
        PROVE  WillTest(s)'
    <3>1. CASE s = t
      BY <1>1, <1>2, <2>1, <3>1 DEF DInv, DriftInv, PlaceOK, WillTest
    <3>2. CASE s # t
      BY <1>1, <1>3, <2>1, <3>2 DEF WillTest
    <3>3. QED
      BY <3>1, <3>2
  <2>2. QED
    BY <1>1, <2>1 DEF DInv, DriftInv, UntestedHasRun
<1>14. QED
  BY <1>5, <1>6, <1>7, <1>8, <1>9, <1>10, <1>12, <1>13 DEF DriftInv

LEMMA ReturnStepDrift ==
  ASSUME DInv, NEW t \in Thread, DriftReturn(t)
  PROVE  DriftInv'
<1>1. UNCHANGED <<gen, text, drift, agent>> /\ UNCHANGED <<pending, dpc, overlapped>>
  BY DEF DriftReturn, Return, service, drift
<1>2. /\ pc[t] = "after" /\ pc' = [pc EXCEPT ![t] = "idle"] /\ dpc[t] = "none"
      /\ pc'[t] = "idle"
      /\ \A s \in Thread \ {t} : pc'[s] = pc[s] /\ build'[s] = build[s]
  BY DEF DriftReturn, Return, Goto, DInv, IInv, TypeOK
<1>3. Drifting' <=> Drifting
  BY <1>1 DEF Drifting
<1>4. PlaceOK'
  BY <1>1, <1>2 DEF DInv, DriftInv, PlaceOK
<1>5. DueOK'
  <2>1. ASSUME NEW s \in Thread
        PROVE  /\ Ready(s)' => Ready(s)
               /\ pc'[s] = "unlock" /\ build'[s].ok => pc[s] = "unlock" /\ build[s].ok
    <3>1. CASE s = t
      BY <1>2, <3>1 DEF Ready
    <3>2. CASE s # t
      BY <1>2, <3>2 DEF Ready
    <3>3. QED
      BY <3>1, <3>2
  <2>2. ASSUME NEW s \in Thread
        PROVE  /\ Ready(s)' /\ gen'.epoch + 1 \notin overlapped' => pending' /\ ~Drifting'
               /\ pc'[s] = "unlock" /\ build'[s].ok /\ gen'.epoch \notin overlapped' =>
                    pending' /\ ~Drifting'
    BY <1>1, <1>3, <2>1 DEF DInv, DriftInv, DueOK
  <2>3. QED
    BY <2>2 DEF DueOK, Ready
<1>6. UntestedHasRun'
  <2>1. ASSUME NEW s \in Thread, WillTest(s)
        PROVE  WillTest(s)'
    <3>1. s # t
      BY <1>2, <2>1 DEF WillTest
    <3>2. QED
      BY <1>1, <1>2, <2>1, <3>1 DEF WillTest, drift
  <2>2. QED
    BY <1>1, <2>1 DEF DInv, DriftInv, UntestedHasRun, drift
<1>7. QED
  BY <1>1, <1>4, <1>5, <1>6, DriftFrame

-----------------------------------------------------------------------------
(* The agent's requests.                                                   *)

\* A request's step concerns nobody but it.
LEMMA AskerFrame ==
  ASSUME DInv, NEW a \in Asker, UNCHANGED <<vars, text, drift>>,
         apc' \in [Asker -> Asking], began' \in [Asker -> Nat],
         answer' \in [Asker -> [epoch : Nat, data : Nat]],
         \A b \in Asker \ {a} :
           apc'[b] = apc[b] /\ began'[b] = began[b] /\ answer'[b] = answer[b],
         began'[a] <= gen.epoch,
         began'[a] = gen.epoch /\ gen.epoch \notin overlapped =>
           /\ apc'[a] = "pending" => text[gen.set] = "pinned"
           /\ apc'[a] = "off" => gen.epoch \in tested
           /\ apc'[a] = "panel" => gen.epoch \in tested /\ gen.data \notin Bad,
         apc'[a] = "answered" /\ answer'[a].epoch = began'[a]
           /\ began'[a] \notin overlapped =>
           answer'[a].epoch \in tested /\ answer'[a].data \notin Bad
  PROVE  DriftInv'
<1>1. UNCHANGED <<gen, pc, build, text, pending, off, dpc, found, seen, tested, overlapped>>
  BY DEF vars, service, drift
<1>2. DriftTypes' /\ PlaceOK' /\ DueOK' /\ RunOK' /\ ListOK'
  BY <1>1 DEF DInv, DriftInv, DriftTypes, PlaceOK, DueOK, Drifting, RunOK, ListOK, Ready
<1>3. EpochsOK'
  BY <1>1 DEF DInv, DriftInv, EpochsOK
<1>4. AskersOK'
  <2>1. ASSUME NEW b \in Asker, began'[b] = gen.epoch, gen.epoch \notin overlapped
        PROVE  /\ apc'[b] = "pending" => text[gen.set] = "pinned"
               /\ apc'[b] = "off" => gen.epoch \in tested
               /\ apc'[b] = "panel" => gen.epoch \in tested /\ gen.data \notin Bad
    BY <2>1 DEF DInv, DriftInv, AskersOK
  <2>2. QED
    BY <1>1, <2>1 DEF AskersOK
<1>5. PendingOK' /\ UntestedHasRun'
  BY <1>1 DEF DInv, DriftInv, PendingOK, UntestedHasRun, WillTest
<1>6. OwnAnswersChecked'
  <2>1. ASSUME NEW b \in Asker, apc'[b] = "answered", answer'[b].epoch = began'[b],
               began'[b] \notin overlapped
        PROVE  answer'[b].epoch \in tested /\ answer'[b].data \notin Bad
    BY <2>1 DEF DInv, DriftInv, OwnAnswersChecked
  <2>2. QED
    BY <1>1, <2>1 DEF OwnAnswersChecked
<1>7. QED
  BY <1>2, <1>3, <1>4, <1>5, <1>6 DEF DriftInv

LEMMA QuestionStep ==
  ASSUME DInv, NEW a \in Asker, Question(a)
  PROVE  DriftInv'
<1>1. /\ UNCHANGED <<vars, text, drift, answer>>
      /\ apc' = [apc EXCEPT ![a] = IF text[gen.set] = "pinned" THEN "pending" ELSE "refused"]
      /\ began' = [began EXCEPT ![a] = gen.epoch]
  BY DEF Question, AskGoto
<1>2. gen.epoch \in Nat
  BY DEF DInv, IInv, TypeOK
<1>3. /\ apc' \in [Asker -> Asking] /\ began' \in [Asker -> Nat] /\ began'[a] = gen.epoch
      /\ answer' \in [Asker -> [epoch : Nat, data : Nat]]
      /\ apc'[a] = IF text[gen.set] = "pinned" THEN "pending" ELSE "refused"
      /\ \A b \in Asker \ {a} :
           apc'[b] = apc[b] /\ began'[b] = began[b] /\ answer'[b] = answer[b]
  BY <1>1, <1>2 DEF DInv, DriftInv, DriftTypes, Asking
<1>4. QED
  BY <1>1, <1>2, <1>3, AskerFrame

LEMMA DueStep ==
  ASSUME DInv, NEW a \in Asker, Due(a)
  PROVE  DriftInv'
<1>1. /\ UNCHANGED <<vars, text, drift, began, answer>> /\ UNCHANGED pending
      /\ apc[a] = "pending"
      /\ apc' = [apc EXCEPT ![a] = IF pending THEN "refused" ELSE "off"]
  BY DEF Due, AskGoto, drift
<1>2. /\ apc' \in [Asker -> Asking] /\ began' \in [Asker -> Nat]
      /\ answer' \in [Asker -> [epoch : Nat, data : Nat]]
      /\ apc'[a] = IF pending THEN "refused" ELSE "off"
      /\ \A b \in Asker \ {a} :
           apc'[b] = apc[b] /\ began'[b] = began[b] /\ answer'[b] = answer[b]
  BY <1>1 DEF DInv, DriftInv, DriftTypes, Asking
<1>3. began[a] <= gen.epoch
  BY DEF DInv, DriftInv, EpochsOK
<1>4. began[a] = gen.epoch /\ gen.epoch \notin overlapped /\ ~pending =>
        gen.epoch \in tested
  BY <1>1 DEF DInv, DriftInv, AskersOK, PendingOK
<1>5. QED
  BY <1>1, <1>2, <1>3, <1>4, AskerFrame

\* The list read is that of the generation the request began on.
LEMMA ReadOffStep ==
  ASSUME DInv, NEW a \in Asker, ReadOff(a)
  PROVE  DriftInv'
<1>1. /\ UNCHANGED <<vars, text, drift, began, answer>>
      /\ apc[a] = "off"
      /\ apc' = [apc EXCEPT ![a] = IF off THEN "refused" ELSE "panel"]
  BY DEF ReadOff, AskGoto
<1>2. /\ apc' \in [Asker -> Asking] /\ began' \in [Asker -> Nat]
      /\ answer' \in [Asker -> [epoch : Nat, data : Nat]]
      /\ apc'[a] = IF off THEN "refused" ELSE "panel"
      /\ \A b \in Asker \ {a} :
           apc'[b] = apc[b] /\ began'[b] = began[b] /\ answer'[b] = answer[b]
  BY <1>1 DEF DInv, DriftInv, DriftTypes, Asking
<1>3. began[a] <= gen.epoch
  BY DEF DInv, DriftInv, EpochsOK
<1>4. began[a] = gen.epoch /\ gen.epoch \notin overlapped => gen.epoch \in tested
  BY <1>1 DEF DInv, DriftInv, AskersOK
<1>5. began[a] = gen.epoch /\ gen.epoch \notin overlapped /\ ~off => gen.data \notin Bad
  BY <1>4 DEF DInv, DriftInv, ListOK
<1>6. QED
  BY <1>1, <1>2, <1>3, <1>4, <1>5, AskerFrame

LEMMA PanelStep ==
  ASSUME DInv, NEW a \in Asker, Panel(a)
  PROVE  DriftInv'
<1>1. UNCHANGED <<vars, text, drift, began>> /\ apc[a] = "panel"
  BY DEF Panel
<1>2. gen.epoch \in Nat /\ gen.data \in Nat
  BY DEF DInv, IInv, TypeOK
<1>3. began[a] <= gen.epoch
  BY DEF DInv, DriftInv, EpochsOK
<1>4. began[a] = gen.epoch /\ gen.epoch \notin overlapped =>
        gen.epoch \in tested /\ gen.data \notin Bad
  BY <1>1 DEF DInv, DriftInv, AskersOK
<1>5. CASE /\ answer' = [answer EXCEPT ![a] = [epoch |-> gen.epoch, data |-> gen.data]]
           /\ AskGoto(a, "answered")
  <2>1. /\ apc' \in [Asker -> Asking] /\ began' \in [Asker -> Nat]
        /\ answer' \in [Asker -> [epoch : Nat, data : Nat]]
        /\ apc'[a] = "answered" /\ began'[a] = began[a]
        /\ answer'[a] = [epoch |-> gen.epoch, data |-> gen.data]
        /\ \A b \in Asker \ {a} :
             apc'[b] = apc[b] /\ began'[b] = began[b] /\ answer'[b] = answer[b]
    BY <1>1, <1>2, <1>5 DEF DInv, DriftInv, DriftTypes, Asking, AskGoto
  <2>2. QED
    BY <1>1, <1>3, <1>4, <2>1, AskerFrame
<1>6. CASE AskGoto(a, "refused") /\ UNCHANGED answer
  <2>1. /\ apc' \in [Asker -> Asking] /\ began' \in [Asker -> Nat]
        /\ answer' \in [Asker -> [epoch : Nat, data : Nat]]
        /\ apc'[a] = "refused" /\ began'[a] = began[a]
        /\ \A b \in Asker \ {a} :
             apc'[b] = apc[b] /\ began'[b] = began[b] /\ answer'[b] = answer[b]
    BY <1>1, <1>6 DEF DInv, DriftInv, DriftTypes, Asking, AskGoto
  <2>2. QED
    BY <1>1, <1>3, <2>1, AskerFrame
<1>7. QED
  BY <1>5, <1>6 DEF Panel

-----------------------------------------------------------------------------

\* The start has tested the first generation.
LEMMA DriftInitInv ==
  ASSUME DriftInit
  PROVE  DInv
<1>1. Init /\ IInv
  BY InitIInv DEF DriftInit
<1>2. /\ gen = [epoch |-> 1, data |-> 0, set |-> 0]
      /\ pc = [t \in Thread |-> "idle"]
  BY <1>1 DEF Init
<1>3. /\ pending = FALSE /\ off \in {0 \in Bad, TRUE} /\ tested = {1} /\ overlapped = {}
      /\ dpc = [t \in Thread |-> "none"] /\ found = [t \in Thread |-> FALSE]
      /\ seen = [t \in Thread |-> 0]
      /\ apc = [a \in Asker |-> "new"] /\ began = [a \in Asker |-> 0]
      /\ answer = [a \in Asker |-> NoAnswer]
  BY DEF DriftInit
<1>4. off \in BOOLEAN /\ (0 \in Bad => off)
  <2>1. CASE off = TRUE
    BY <2>1
  <2>2. CASE off = (0 \in Bad)
    <3>1. off \in BOOLEAN
      <4>1. (0 \in Bad) \in BOOLEAN
        OBVIOUS
      <4>2. QED
        BY <4>1, <2>2, Zenon
    <3>2. 0 \in Bad => off
      BY <2>2, Zenon
    <3>3. QED
      BY <3>1, <3>2
  <2>3. off = TRUE \/ off = (0 \in Bad)
    BY <1>3, Zenon
  <2>4. QED
    BY <2>1, <2>2, <2>3, Zenon
<1>5. NoAnswer \in [epoch : Nat, data : Nat]
  BY DEF NoAnswer
<1>6. DriftTypes
  BY <1>3, <1>4, <1>5 DEF DriftTypes, Asking
<1>7. EpochsOK /\ PlaceOK /\ DueOK /\ RunOK /\ ListOK
  BY <1>2, <1>3, <1>4 DEF EpochsOK, PlaceOK, DueOK, RunOK, ListOK, Ready
<1>8. AskersOK /\ PendingOK /\ UntestedHasRun /\ OwnAnswersChecked
  BY <1>2, <1>3 DEF AskersOK, PendingOK, UntestedHasRun, OwnAnswersChecked
<1>9. QED
  BY <1>1, <1>6, <1>7, <1>8 DEF DInv, DriftInv

LEMMA DriftStep ==
  ASSUME DInv, [DriftNext]_all
  PROVE  DInv'
<1>1. IInv'
  BY RefreshPart DEF DInv
<1>. SUFFICES DriftInv'
  BY <1>1 DEF DInv
<1>2. ASSUME UNCHANGED <<gen, pc, build, text, drift, agent>>
      PROVE  DriftInv'
  <2>1. \A t \in Thread : Keeps(t)
    BY <1>2 DEF Keeps, Ready
  <2>2. QED
    BY <1>2, <2>1, KeepsFrame
<1>3. CASE UNCHANGED all
  BY <1>2, <1>3 DEF all, vars, service
<1>4. CASE Change
  BY <1>2, <1>4 DEF Change, service
<1>5. CASE Finished /\ UNCHANGED <<text, drift, agent>>
  BY <1>2, <1>5 DEF Finished, vars, service
<1>6. CASE Plain
  <2>1. ASSUME NEW t \in Thread, Swap(t)
        PROVE  DriftInv'
    BY <1>6, <2>1, SwapDrift DEF Plain
  <2>2. CASE UNCHANGED gen
    BY <1>6, <2>2, PlainStep
  <2>3. QED
    BY <1>6, <2>1, <2>2 DEF Plain, Edit, Peek, EndPeek, Call, Tick, RunTask,
       TakeWish, Ask, Calls, Skip, Lock, Load, Copy, MarkOutcome, CountOutcome,
       service
<1>7. ASSUME NEW t \in Thread,
             CheckDue(t) \/ UnlockDrift(t) \/ RunDrift(t) \/ DriftReturn(t)
      PROVE  DriftInv'
  BY <1>7, CheckStepDue, UnlockStepDrift, LookStep, ProbeStep, ListStep,
     ClearStep, ReturnStepDrift DEF RunDrift
<1>8. ASSUME NEW a \in Asker, Serve(a)
      PROVE  DriftInv'
  BY <1>8, QuestionStep, DueStep, ReadOffStep, PanelStep DEF Serve
<1>9. QED
  BY <1>3, <1>4, <1>5, <1>6, <1>7, <1>8 DEF DriftNext

(***************************************************************************)
(* The inductive invariant of the drift test, however many threads rebuild *)
(* (`refresh', `reload', `run_drift').                                     *)
(***************************************************************************)
THEOREM DriftCorrect == DriftSpec => []DInv
<1>1. DriftInit => DInv
  BY DriftInitInv
<1>2. DInv /\ [DriftNext]_all => DInv'
  BY DriftStep
<1>3. QED
  BY <1>1, <1>2, PTL DEF DriftSpec

(***************************************************************************)
(* A generation that became due while no drift run was under way is served *)
(* without waiting only once it is tested, and with its own list of the    *)
(* questions that are off (`drift_due' before the swap, `drift_pending'    *)
(* cleared after the run): only an overlapping run can break it.           *)
(***************************************************************************)
THEOREM CheckedUnlessOverlappedHolds == DriftSpec => []CheckedUnlessOverlapped
<1>1. DInv => CheckedUnlessOverlapped
  BY DEF DInv, DriftInv, PendingOK, ListOK, CheckedUnlessOverlapped
<1>2. QED
  BY <1>1, DriftCorrect, PTL

(***************************************************************************)
(* However the rebuilds and their drift runs overlap, an untested          *)
(* generation in service has its run still to come or under way            *)
(* (`run_drift' after every successful `rebuild').                         *)
(***************************************************************************)
THEOREM UntestedHasRunHolds == DriftSpec => []UntestedHasRun
<1>1. DInv => UntestedHasRun
  BY DEF DInv, DriftInv
<1>2. QED
  BY <1>1, DriftCorrect, PTL

(***************************************************************************)
(* A request no swap overtook, on a generation that is not overlapped, is  *)
(* answered from a tested generation, within its range (the checks of      *)
(* `handle_agent' in their order).                                         *)
(***************************************************************************)
THEOREM OwnAnswersCheckedHolds == DriftSpec => []OwnAnswersChecked
<1>1. DInv => OwnAnswersChecked
  BY DEF DInv, DriftInv
<1>2. QED
  BY <1>1, DriftCorrect, PTL
=============================================================================
