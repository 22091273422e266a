------------------------- MODULE KubernetesBackend -------------------------
(***************************************************************************)
(* The Kubernetes backend (control-plane/src/kubernetes_client.cpp): each  *)
(* operation is a sequence of kubectl commands (exec_capture) on two       *)
(* objects of one name, a pod and a service.  A command may fail, may      *)
(* report a failure although the cluster carried it out, and the control   *)
(* plane may end between two commands.                                     *)
(*                                                                         *)
(* One operation runs at a time: the runtime manager calls the backend     *)
(* with its mutex_ held.                                                   *)
(***************************************************************************)
EXTENDS Naturals, Sequences

CONSTANTS Images,     \* images as sequences of characters
          SafeChars,  \* letters, digits and - _ . : /
          ClockWrap,  \* now_ms % 10000000 takes the values 0..ClockWrap-1
          MaxRuns,    \* bound: pod names generated by one process
          Null

\* The two parts of "faas-<now_ms>-<counter>".
PodNames == (0..(ClockWrap - 1)) \X (1..MaxRuns)

ASSUME KubernetesAssumption ==
    /\ ClockWrap \in Nat \ {0}
    /\ MaxRuns \in Nat
    /\ Null \notin PodNames

VARIABLES
    clock,    \* now_ms % 10000000
    counter,  \* names generated by this process
    pc,       \* the command that runs next
    name,     \* the pod the operation is about
    pods,     \* pods of the cluster: name -> "absent", "up" or "terminating"
    svcs,     \* names of the services of the cluster
    held,     \* ids that the manager was given and has not removed
    excused   \* history: <<name, kind>> of the objects that a failed command or a crash left

vars == <<clock, counter, pc, name, pods, svcs, held, excused>>

cluster == <<pods, svcs>>

is_safe_token(token) ==
    /\ token # <<>>
    /\ \A i \in 1..Len(token) : token[i] \in SafeChars

Init ==
    /\ clock = 0
    /\ counter = 0
    /\ pc = "idle"
    /\ name = Null
    /\ pods = [n \in PodNames |-> "absent"]
    /\ svcs = {}
    /\ held = {}
    /\ excused = {}

\* The operation ends.
Return ==
    /\ pc' = "idle"
    /\ name' = Null

Goto(to) == pc' = to /\ UNCHANGED name

generate_pod_name_NoCounter == <<clock, 1>>

generate_pod_name == <<clock, counter + 1>>

-----------------------------------------------------------------------------
\* run_container.

BeginRun(image) ==
    /\ pc = "idle"
    /\ is_safe_token(image)
    /\ counter < MaxRuns
    /\ name' = generate_pod_name
    /\ counter' = counter + 1
    /\ pc' = "run"
    /\ UNCHANGED <<clock, cluster, held, excused>>

\* An image that could be taken for something else by the shell runs no command.
RefuseRun(image) ==
    /\ pc = "idle"
    /\ ~is_safe_token(image)
    /\ UNCHANGED vars

\* kubectl run: a name that exists, also one that is terminating, is refused.
CreatePod ==
    /\ pods[name] = "absent"
    /\ pods' = [pods EXCEPT ![name] = "up"]

KubectlRun ==
    /\ pc = "run"
    /\ CreatePod
    /\ Goto("wait")
    /\ UNCHANGED <<clock, counter, svcs, held, excused>>

KubectlRunFails_CleansUp ==
    /\ pc = "run"
    /\ Goto("undo")
    /\ UNCHANGED <<clock, counter, cluster, held, excused>>

KubectlRunFails ==
    /\ pc = "run"
    /\ Return
    /\ \/ CreatePod /\ excused' = excused \cup {<<name, "pod">>}
       \/ UNCHANGED <<pods, excused>>
    /\ UNCHANGED <<clock, counter, svcs, held>>

\* kubectl wait: the pod becomes ready, or does not within 60 s.
KubectlWait ==
    /\ pc = "wait"
    /\ pods[name] = "up"
    /\ Goto("expose")
    /\ UNCHANGED <<clock, counter, cluster, held, excused>>

KubectlWaitFails ==
    /\ pc = "wait"
    /\ Goto("undo")
    /\ UNCHANGED <<clock, counter, cluster, held, excused>>

\* kubectl expose: needs the pod, and a name no service has.
CreateSvc_Replaces ==
    /\ pods[name] # "absent"
    /\ svcs' = svcs \cup {name}

CreateSvc ==
    /\ pods[name] # "absent"
    /\ name \notin svcs
    /\ svcs' = svcs \cup {name}

KubectlExpose ==
    /\ pc = "expose"
    /\ CreateSvc
    /\ held' = held \cup {name}
    /\ Goto("port")
    /\ UNCHANGED <<clock, counter, pods, excused>>

KubectlExposeFails ==
    /\ pc = "expose"
    /\ Goto("undo")
    /\ \/ CreateSvc /\ excused' = excused \cup {<<name, "svc">>}
       \/ UNCHANGED <<svcs, excused>>
    /\ UNCHANGED <<clock, counter, pods, held>>

\* kubectl delete pod --ignore-not-found --wait=false, which may do nothing.
DeletePod ==
    \/ /\ pods' = [pods EXCEPT ![name] = IF @ = "absent" THEN @ ELSE "terminating"]
       /\ excused' = excused \ {<<name, "pod">>}
    \/ /\ excused' = excused \cup {o \in {<<name, "pod">>} : pods[name] = "up"}
       /\ UNCHANGED pods

\* The clean-up after kubectl wait or kubectl expose; its result is ignored.
Undo_Skipped ==
    /\ pc = "undo"
    /\ Return
    /\ UNCHANGED <<clock, counter, cluster, held, excused>>

Undo ==
    /\ pc = "undo"
    /\ DeletePod
    /\ Return
    /\ UNCHANGED <<clock, counter, svcs, held>>

-----------------------------------------------------------------------------
\* get_host_port, which the manager calls for a new id; it removes the id again
\* when there is no port.

GetHostPort ==
    /\ pc = "port"
    /\ name \in svcs
    /\ Return
    /\ UNCHANGED <<clock, counter, cluster, held, excused>>

GetHostPortFails ==
    /\ pc = "port"
    /\ Goto("svc")
    /\ UNCHANGED <<clock, counter, cluster, held, excused>>

-----------------------------------------------------------------------------
\* remove_container.

BeginRemove(n) ==
    /\ pc = "idle"
    /\ n \in held
    /\ name' = n
    /\ pc' = "svc"
    /\ UNCHANGED <<clock, counter, cluster, held, excused>>

\* kubectl delete svc; its result is ignored.
KubectlDeleteSvc ==
    /\ pc = "svc"
    /\ Goto("pod")
    /\ \/ svcs' = svcs \ {name} /\ excused' = excused \ {<<name, "svc">>}
       \/ /\ excused' = excused \cup {o \in {<<name, "svc">>} : name \in svcs}
          /\ UNCHANGED svcs
    /\ UNCHANGED <<clock, counter, pods, held>>

\* kubectl delete pod.  The manager drops the id whatever the result is.
KubectlDeletePod ==
    /\ pc = "pod"
    /\ DeletePod
    /\ held' = held \ {name}
    /\ Return
    /\ UNCHANGED <<clock, counter, svcs>>

-----------------------------------------------------------------------------
\* The cluster, time and the process.

PodGone(n) ==
    /\ pods[n] = "terminating"
    /\ pods' = [pods EXCEPT ![n] = "absent"]
    /\ UNCHANGED <<clock, counter, pc, name, svcs, held, excused>>

\* Someone else, or the cluster itself, removes an object.
PodEvicted(n) ==
    /\ pods[n] = "up"
    /\ pods' = [pods EXCEPT ![n] = "absent"]
    /\ excused' = excused \ {<<n, "pod">>}
    /\ UNCHANGED <<clock, counter, pc, name, svcs, held>>

SvcRemoved(n) ==
    /\ n \in svcs
    /\ svcs' = svcs \ {n}
    /\ excused' = excused \ {<<n, "svc">>}
    /\ UNCHANGED <<clock, counter, pc, name, pods, held>>

ClockTick ==
    /\ clock' = (clock + 1) % ClockWrap
    /\ UNCHANGED <<counter, pc, name, cluster, held, excused>>

\* A new process counts from 0 again and does not know what it finds.
Crash ==
    /\ counter' = 0
    /\ Return
    /\ held' = {}
    /\ excused' = ({n \in PodNames : pods[n] = "up"} \X {"pod"}) \cup (svcs \X {"svc"})
    /\ UNCHANGED <<clock, cluster>>

Command == KubectlRun \/ KubectlRunFails \/ KubectlWait \/ KubectlWaitFails
           \/ KubectlExpose \/ KubectlExposeFails \/ Undo
           \/ GetHostPort \/ GetHostPortFails \/ KubectlDeleteSvc \/ KubectlDeletePod

Environment ==
    \/ \E n \in PodNames : PodGone(n) \/ PodEvicted(n) \/ SvcRemoved(n)
    \/ ClockTick
    \/ Crash

Next ==
    \/ \E image \in Images : BeginRun(image) \/ RefuseRun(image)
    \/ \E n \in PodNames : BeginRemove(n)
    \/ Command
    \/ Environment

Spec == Init /\ [][Next]_vars

-----------------------------------------------------------------------------
\* Properties.

TypeOK ==
    /\ clock \in 0..(ClockWrap - 1)
    /\ counter \in 0..MaxRuns
    /\ pc \in {"idle", "run", "wait", "expose", "undo", "port", "svc", "pod"}
    /\ name \in PodNames \cup {Null}
    /\ pods \in [PodNames -> {"absent", "up", "terminating"}]
    /\ svcs \in SUBSET PodNames
    /\ held \in SUBSET PodNames
    /\ excused \in SUBSET (PodNames \X {"pod", "svc"})

\* The pod of n was created by the run_container that is under way.
Own(n) == n = name /\ pc \in {"wait", "expose", "undo"}

\* No operation leaves anything behind unnoticed: a pod or service that runs is
\* held by the manager, is the one under way, or was left by a command that
\* failed on it or by a crash.  That kubectl wait fails is no such excuse.
NoStrays ==
    \A n \in PodNames \ held :
        /\ pods[n] = "up" /\ ~Own(n) => <<n, "pod">> \in excused
        /\ n \in svcs => <<n, "svc">> \in excused

\* Names repeat after a restart, but a pod is only ever deleted by the run that
\* created it or by the removal of its id: a pod that an earlier operation left
\* under the same name is not taken for the new one.
DeletesOwnPod ==
    [][\A n \in PodNames : pods[n] = "up" /\ pods'[n] = "terminating" =>
            n = name /\ <<n, "pod">> \notin excused]_vars

Status == [n \in PodNames |->
            IF n \in held THEN "held"
            ELSE IF n \in svcs \/ (pods[n] = "up" /\ ~Own(n)) THEN "lost"
            ELSE "free"]

\* The counter has gone past a name, or the operation that has it is over.
Used == {n \in PodNames :
            \/ n[2] < counter
            \/ n[2] = counter /\ pc \notin {"run", "wait", "expose", "undo"}}

Backend == INSTANCE ContainerBackend WITH Ids <- PodNames, status <- Status, used <- Used

\* The commands implement the interface: an id is handed out only when nothing
\* was left under it, by this process or an earlier one, pod or service, and
\* only once by a process, however often the clock wraps.
ImplementsBackend == Backend!Spec

-----------------------------------------------------------------------------
\* The inductive invariant: which name an operation has, that the names of one
\* process differ by their counter, and what is left halfway through a removal.
OperationInv ==
    /\ \A n \in PodNames : /\ <<n, "pod">> \in excused => pods[n] = "up"
                           /\ <<n, "svc">> \in excused => n \in svcs
    /\ name = Null <=> pc = "idle"
    /\ \A n \in held : n[2] <= counter /\ <<n, "pod">> \notin excused
    /\ \A n \in PodNames : Own(n) => <<n, "pod">> \notin excused
    /\ pc \in {"run", "wait", "expose", "undo"} => name \notin held /\ name[2] = counter
    /\ pc \in {"port", "svc", "pod"} => name \in held
    /\ pc = "pod" /\ name \in svcs => <<name, "svc">> \in excused

BackendInv == TypeOK /\ OperationInv /\ NoStrays
=============================================================================
