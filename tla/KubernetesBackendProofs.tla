---------------------- MODULE KubernetesBackendProofs ----------------------
(***************************************************************************)
(* Proofs about KubernetesBackend, for every clock range and every number  *)
(* of runs.                                                                *)
(***************************************************************************)
EXTENDS KubernetesBackend, TLAPS

\* The initial state satisfies the invariant.
LEMMA InvInit == Init => BackendInv
BY KubernetesAssumption DEF Init, BackendInv, TypeOK, OperationInv, NoStrays, PodNames

\* Every step keeps the types.
LEMMA TypeNext == TypeOK /\ OperationInv /\ [Next]_vars => TypeOK'
<1> SUFFICES ASSUME TypeOK, OperationInv, [Next]_vars PROVE TypeOK'
  OBVIOUS
<1> USE KubernetesAssumption
<1>1. ASSUME NEW i \in Images, BeginRun(i) \/ RefuseRun(i) PROVE TypeOK'
  BY <1>1 DEF BeginRun, RefuseRun, generate_pod_name, TypeOK, vars, cluster, PodNames
<1>2. ASSUME NEW n \in PodNames, BeginRemove(n) PROVE TypeOK'
  BY <1>2 DEF BeginRemove, TypeOK, cluster
<1>3. CASE KubectlRun \/ KubectlRunFails
  BY <1>3 DEF KubectlRun, KubectlRunFails, CreatePod, Goto, Return, TypeOK, OperationInv, cluster
<1>4. CASE KubectlWait \/ KubectlWaitFails
  BY <1>4 DEF KubectlWait, KubectlWaitFails, Goto, TypeOK, cluster
<1>5. CASE KubectlExpose \/ KubectlExposeFails
  BY <1>5 DEF KubectlExpose, KubectlExposeFails, CreateSvc, Goto, TypeOK, OperationInv, cluster
<1>6. CASE Undo \/ KubectlDeletePod
  BY <1>6 DEF Undo, KubectlDeletePod, DeletePod, Return, TypeOK, OperationInv, cluster
<1>7. CASE GetHostPort \/ GetHostPortFails
  BY <1>7 DEF GetHostPort, GetHostPortFails, Goto, Return, TypeOK, cluster
<1>8. CASE KubectlDeleteSvc
  BY <1>8 DEF KubectlDeleteSvc, Goto, TypeOK, OperationInv, cluster
<1>9. ASSUME NEW n \in PodNames, PodGone(n) \/ PodEvicted(n) \/ SvcRemoved(n) PROVE TypeOK'
  BY <1>9 DEF PodGone, PodEvicted, SvcRemoved, TypeOK
<1>10. CASE ClockTick
  BY <1>10 DEF ClockTick, TypeOK, cluster
<1>11. CASE Crash
  BY <1>11 DEF Crash, Return, TypeOK, cluster
<1>12. CASE UNCHANGED vars
  BY <1>12 DEF vars, TypeOK
<1> QED
  BY <1>1, <1>2, <1>3, <1>4, <1>5, <1>6, <1>7, <1>8, <1>9, <1>10, <1>11, <1>12
  DEF Next, Command, Environment

\* Every step keeps which name the operation has and whose names are whose.
LEMMA OperationNext == TypeOK /\ OperationInv /\ [Next]_vars => OperationInv'
<1> SUFFICES ASSUME TypeOK, OperationInv, [Next]_vars PROVE OperationInv'
  OBVIOUS
<1> USE KubernetesAssumption DEF TypeOK, OperationInv, Own
<1>1. ASSUME NEW i \in Images, BeginRun(i) \/ RefuseRun(i) PROVE OperationInv'
  <2>1. CASE BeginRun(i)
    <3> DEFINE new == generate_pod_name
    <3>1. new \in PodNames /\ new[2] = counter + 1
      BY <2>1 DEF BeginRun, generate_pod_name, PodNames
    <3>2. \A n \in held : n[2] \in Nat /\ n[2] <= counter
      <4>1. \A n \in PodNames : n[2] \in Nat
        BY DEF PodNames
      <4> QED
        BY <4>1
    <3>3. new \notin held
      BY <3>1, <3>2
    <3>4. /\ pc' = "run" /\ name' = new /\ counter' = counter + 1
          /\ pods' = pods /\ svcs' = svcs /\ held' = held /\ excused' = excused
      BY <2>1 DEF BeginRun, cluster
    <3> HIDE DEF new
    <3> QED
      BY <3>1, <3>2, <3>3, <3>4
  <2>2. CASE RefuseRun(i)
    BY <2>2 DEF RefuseRun, vars
  <2> QED
    BY <1>1, <2>1, <2>2
<1>2. ASSUME NEW n \in PodNames, BeginRemove(n) PROVE OperationInv'
  BY <1>2 DEF BeginRemove, cluster
<1>3. CASE KubectlRun
  BY <1>3 DEF KubectlRun, CreatePod, Goto, cluster
<1>4. CASE KubectlRunFails
  BY <1>4 DEF KubectlRunFails, CreatePod, Return, cluster
<1>5. CASE KubectlWait \/ KubectlWaitFails
  BY <1>5 DEF KubectlWait, KubectlWaitFails, Goto, cluster
<1>6. CASE KubectlExpose
  BY <1>6 DEF KubectlExpose, CreateSvc, Goto, PodNames
<1>7. CASE KubectlExposeFails
  BY <1>7 DEF KubectlExposeFails, CreateSvc, Goto
<1>8. CASE Undo
  BY <1>8 DEF Undo, DeletePod, Return
<1>9. CASE KubectlDeletePod
  BY <1>9 DEF KubectlDeletePod, DeletePod, Return
<1>10. CASE GetHostPort \/ GetHostPortFails
  BY <1>10 DEF GetHostPort, GetHostPortFails, Goto, Return, cluster
<1>11. CASE KubectlDeleteSvc
  BY <1>11 DEF KubectlDeleteSvc, Goto
<1>12. ASSUME NEW n \in PodNames, PodGone(n) \/ PodEvicted(n) \/ SvcRemoved(n)
       PROVE OperationInv'
  BY <1>12 DEF PodGone, PodEvicted, SvcRemoved
<1>13. CASE ClockTick
  BY <1>13 DEF ClockTick, cluster
<1>14. CASE Crash
  BY <1>14 DEF Crash, Return, cluster
<1>15. CASE UNCHANGED vars
  BY <1>15 DEF vars
<1> QED
  BY <1>1, <1>2, <1>3, <1>4, <1>5, <1>6, <1>7, <1>8, <1>9, <1>10, <1>11, <1>12, <1>13,
     <1>14, <1>15 DEF Next, Command, Environment

\* Every step accounts for what it leaves behind.
LEMMA StraysNext == BackendInv /\ [Next]_vars => NoStrays'
<1> SUFFICES ASSUME TypeOK, OperationInv, NoStrays, [Next]_vars PROVE NoStrays'
  BY DEF BackendInv
<1> USE KubernetesAssumption DEF TypeOK, OperationInv, NoStrays, Own
<1>1. ASSUME NEW i \in Images, BeginRun(i) \/ RefuseRun(i) PROVE NoStrays'
  BY <1>1 DEF BeginRun, RefuseRun, cluster, vars
<1>2. ASSUME NEW n \in PodNames, BeginRemove(n) PROVE NoStrays'
  BY <1>2 DEF BeginRemove, cluster
<1>3. CASE KubectlRun
  BY <1>3 DEF KubectlRun, CreatePod, Goto, cluster
<1>4. CASE KubectlRunFails
  BY <1>4 DEF KubectlRunFails, CreatePod, Return, cluster
<1>5. CASE KubectlWait \/ KubectlWaitFails
  BY <1>5 DEF KubectlWait, KubectlWaitFails, Goto, cluster
<1>6. CASE KubectlExpose
  BY <1>6 DEF KubectlExpose, CreateSvc, Goto
<1>7. CASE KubectlExposeFails
  BY <1>7 DEF KubectlExposeFails, CreateSvc, Goto
<1>8. CASE Undo
  BY <1>8 DEF Undo, DeletePod, Return
<1>9. CASE KubectlDeletePod
  <2> SUFFICES ASSUME NEW n \in PodNames \ held'
               PROVE /\ pods'[n] = "up" /\ ~Own(n)' => <<n, "pod">> \in excused'
                     /\ n \in svcs' => <<n, "svc">> \in excused'
    BY DEF NoStrays
  <2>1. name \in PodNames /\ pc = "pod" /\ svcs' = svcs /\ held' = held \ {name}
    BY <1>9 DEF KubectlDeletePod
  <2>2. CASE n # name
    BY <1>9, <2>1, <2>2 DEF KubectlDeletePod, DeletePod, Return
  <2>3. CASE n = name
    BY <1>9, <2>1, <2>3 DEF KubectlDeletePod, DeletePod, Return
  <2> QED
    BY <2>2, <2>3
<1>10. CASE GetHostPort \/ GetHostPortFails
  BY <1>10 DEF GetHostPort, GetHostPortFails, Goto, Return, cluster
<1>11. CASE KubectlDeleteSvc
  BY <1>11 DEF KubectlDeleteSvc, Goto
<1>12. ASSUME NEW n \in PodNames, PodGone(n) \/ PodEvicted(n) \/ SvcRemoved(n)
       PROVE NoStrays'
  BY <1>12 DEF PodGone, PodEvicted, SvcRemoved
<1>13. CASE ClockTick
  BY <1>13 DEF ClockTick, cluster
<1>14. CASE Crash
  BY <1>14 DEF Crash, Return, cluster
<1>15. CASE UNCHANGED vars
  BY <1>15 DEF vars
<1> QED
  BY <1>1, <1>2, <1>3, <1>4, <1>5, <1>6, <1>7, <1>8, <1>9, <1>10, <1>11, <1>12, <1>13,
     <1>14, <1>15 DEF Next, Command, Environment

\* Types, names and leftovers of the commands of kubernetes_client.cpp, in every
\* reachable state.
THEOREM BackendInvariant == Spec => []BackendInv
<1>1. BackendInv /\ [Next]_vars => BackendInv'
  BY TypeNext, OperationNext, StraysNext DEF BackendInv
<1> QED
  BY InvInit, <1>1, PTL DEF Spec

\* The type invariant of the Kubernetes backend.
THEOREM KubernetesTypes == Spec => []TypeOK
BY BackendInvariant, PTL DEF BackendInv

\* No operation of the Kubernetes backend leaves a pod or a service behind
\* unless a command failed on that very object or the process ended.
THEOREM KubernetesNoStrays == Spec => []NoStrays
BY BackendInvariant, PTL DEF BackendInv

\* kubectl delete pod only ever hits a pod of the operation that runs it.
THEOREM KubernetesDeletesOwn == Spec => DeletesOwnPod
<1> DEFINE Own1 == \A n \in PodNames : pods[n] = "up" /\ pods'[n] = "terminating" =>
                        n = name /\ <<n, "pod">> \notin excused
<1>1. BackendInv /\ [Next]_vars => [Own1]_vars
  <2> SUFFICES ASSUME BackendInv, Next, NEW n \in PodNames,
                      pods[n] = "up", pods'[n] = "terminating"
               PROVE n = name /\ <<n, "pod">> \notin excused
    BY DEF Own1
  <2> USE DEF BackendInv, TypeOK, OperationInv, Own
  <2>1. CASE Undo
    BY <2>1 DEF Undo, DeletePod, Return
  <2>2. CASE KubectlDeletePod
    BY <2>2 DEF KubectlDeletePod, DeletePod, Return
  <2>3. ASSUME ~Undo, ~KubectlDeletePod PROVE FALSE
    BY <2>3 DEF Next, Command, Environment, BeginRun, RefuseRun, BeginRemove, KubectlRun,
       KubectlRunFails, KubectlWait, KubectlWaitFails, KubectlExpose, KubectlExposeFails,
       CreatePod, GetHostPort, GetHostPortFails, KubectlDeleteSvc, PodGone, PodEvicted,
       SvcRemoved, ClockTick, Crash, cluster, vars
  <2> QED
    BY <2>1, <2>2, <2>3
<1> QED
  BY BackendInvariant, <1>1, PTL DEF Spec, DeletesOwnPod

-----------------------------------------------------------------------------
\* The refinement.

\* The interface's variables keep their values, or its ids are only ruled out.
LEMMA BackendQuiet ==
    ASSUME Status' = Status, Used \subseteq Used'
    PROVE  [Backend!Next]_(Backend!vars)
BY DEF Backend!Next, Backend!RunFails, Backend!RulesOut, Used

\* Only one name changes its status.
LEMMA BackendOne ==
    ASSUME NEW m \in PodNames, \A n \in PodNames \ {m} : Status'[n] = Status[n],
           Used \subseteq Used',
           \/ Status'[m] = Status[m]
           \/ Status[m] = "free" /\ Status'[m] = "lost" /\ m \notin Used
           \/ Status[m] = "free" /\ Status'[m] = "held" /\ m \notin Used /\ m \in Used'
           \/ Status[m] = "held" /\ Status'[m] \in {"free", "lost"} /\ Used' = Used
           \/ Status[m] = "lost" /\ Status'[m] = "free" /\ Used' = Used
    PROVE  [Backend!Next]_(Backend!vars)
<1>0. /\ Status = [n \in PodNames |-> Status[n]]
      /\ Status' = [n \in PodNames |-> Status'[n]]
      /\ Used' \in SUBSET PodNames
  BY DEF Status, Used
<1>1. Status' = [Status EXCEPT ![m] = Status'[m]]
  BY <1>0
<1>2. CASE Status'[m] = Status[m]
  BY <1>0, <1>1, <1>2, BackendQuiet
<1>3. CASE Status[m] = "free" /\ Status'[m] = "lost" /\ m \notin Used
  BY <1>0, <1>1, <1>3 DEF Backend!Next, Backend!RunLeaves, Backend!RulesOut
<1>4. CASE Status[m] = "free" /\ Status'[m] = "held" /\ m \notin Used /\ m \in Used'
  BY <1>0, <1>1, <1>4 DEF Backend!Next, Backend!Run, Backend!RulesOut
<1>5. CASE Status[m] = "held" /\ Status'[m] \in {"free", "lost"} /\ Used' = Used
  BY <1>1, <1>5 DEF Backend!Next, Backend!Remove
<1>6. CASE Status[m] = "lost" /\ Status'[m] = "free" /\ Used' = Used
  BY <1>1, <1>6 DEF Backend!Next, Backend!Vanish
<1> QED
  BY <1>2, <1>3, <1>4, <1>5, <1>6

\* Ids are used up as operations end, and are used again by no operation.
LEMMA UsedGrows ==
    ASSUME TypeOK, OperationInv
    PROVE  /\ counter' = counter /\ (pc \in {"run", "wait", "expose", "undo"}
                                    \/ pc' \notin {"run", "wait", "expose", "undo"})
                => Used \subseteq Used'
           /\ counter' = counter /\ (pc \in {"run", "wait", "expose", "undo"}
                                    <=> pc' \in {"run", "wait", "expose", "undo"})
                => Used' = Used
           /\ pc \in {"run", "wait", "expose", "undo"} => name \notin Used
           /\ counter' = counter /\ pc' = "port" /\ pc = "expose" => name \in Used'
<1>1. \A n \in PodNames : n[2] \in Nat
  BY KubernetesAssumption DEF PodNames
<1> QED
  BY <1>1, KubernetesAssumption DEF TypeOK, OperationInv, Used

\* Every step of the commands is a step of the interface or is not seen there.
LEMMA BackendStep == BackendInv /\ [Next]_vars => [Backend!Next]_(Backend!vars)
<1> SUFFICES ASSUME BackendInv, [Next]_vars PROVE [Backend!Next]_(Backend!vars)
  OBVIOUS
<1> USE KubernetesAssumption, UsedGrows DEF BackendInv, TypeOK, OperationInv, Own
<1>1. ASSUME NEW i \in Images, BeginRun(i) PROVE [Backend!Next]_(Backend!vars)
  <2>1. Status' = Status
    BY <1>1 DEF BeginRun, Status, cluster
  <2>2. \A n \in PodNames : n[2] \in Nat
    BY DEF PodNames
  <2>3. Used' = Used
    BY <1>1, <2>2 DEF BeginRun, Used
  <2> QED
    BY <2>1, <2>3, BackendQuiet
<1>2. ASSUME NEW n \in PodNames, BeginRemove(n) PROVE [Backend!Next]_(Backend!vars)
  BY <1>2, BackendQuiet DEF BeginRemove, Status, cluster
<1>3. CASE KubectlRun
  BY <1>3, BackendOne DEF KubectlRun, CreatePod, Goto, Status
<1>4. CASE KubectlRunFails
  BY <1>4, BackendOne DEF KubectlRunFails, CreatePod, Return, Status
<1>5. CASE KubectlWait \/ KubectlWaitFails
  BY <1>5, BackendQuiet DEF KubectlWait, KubectlWaitFails, Goto, Status, cluster
<1>6. CASE KubectlExpose
  BY <1>6, BackendOne DEF KubectlExpose, CreateSvc, Goto, Status
<1>7. CASE KubectlExposeFails
  BY <1>7, BackendOne DEF KubectlExposeFails, CreateSvc, Goto, Status
<1>8. CASE Undo
  BY <1>8, BackendOne DEF Undo, DeletePod, Return, Status
<1>9. CASE KubectlDeletePod
  BY <1>9, BackendOne DEF KubectlDeletePod, DeletePod, Return, Status
<1>10. CASE GetHostPort \/ GetHostPortFails
  BY <1>10, BackendQuiet DEF GetHostPort, GetHostPortFails, Goto, Return, Status, cluster
<1>11. CASE KubectlDeleteSvc
  BY <1>11, BackendOne DEF KubectlDeleteSvc, Goto, Status
<1>12. ASSUME NEW n \in PodNames, PodGone(n) \/ PodEvicted(n) \/ SvcRemoved(n)
       PROVE [Backend!Next]_(Backend!vars)
  BY <1>12, BackendOne DEF PodGone, PodEvicted, SvcRemoved, Status
<1>13. CASE ClockTick
  BY <1>13, BackendQuiet DEF ClockTick, Status, cluster
<1>14. CASE Crash
  <2>1. /\ Status' \in [PodNames -> {"free", "lost"}]
        /\ \A n \in PodNames : Status[n] = "lost" => Status'[n] = "lost"
        /\ \A n \in PodNames : Status[n] = "free" /\ Status'[n] = "lost" => n = name
    BY <1>14 DEF Crash, Return, Status, cluster
  <2>2. Used' = {}
    BY <1>14 DEF Crash, Used, PodNames
  <2> QED
    BY <2>1, <2>2 DEF Backend!Next, Backend!Crash
<1>15. CASE UNCHANGED vars \/ \E i \in Images : RefuseRun(i)
  BY <1>15, BackendQuiet DEF vars, RefuseRun, Status
<1> QED
  BY <1>1, <1>2, <1>3, <1>4, <1>5, <1>6, <1>7, <1>8, <1>9, <1>10, <1>11, <1>12, <1>13,
     <1>14, <1>15 DEF Next, Command, Environment

\* The commands of kubernetes_client.cpp implement the interface the runtime
\* manager relies on, for any number of restarts and repeated names.
THEOREM KubernetesImplements == Spec => ImplementsBackend
<1>1. Init => Backend!Init
  BY KubernetesAssumption DEF Init, Backend!Init, Status, Own, Used, PodNames
<1> QED
  BY <1>1, BackendInvariant, BackendStep, PTL DEF Spec, ImplementsBackend, Backend!Spec
=============================================================================
