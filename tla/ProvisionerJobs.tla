-------------------------- MODULE ProvisionerJobs --------------------------
(***************************************************************************)
(* The shared state of the shell-provisioner job lifecycle: the Build's    *)
(* provisioner specs (their persisted UUID), the batch/v1 Job objects and  *)
(* their pods in the API server, the controller's informer cache of Jobs,  *)
(* its work queue, and the failure records the watcher emits.  The         *)
(* orchestrator (Orchestrator.tla) and the watcher (JobWatcher.tla) act on *)
(* this state; the Kubernetes job controller, kubelet and informer are the *)
(* environment, defined here.                                              *)
(***************************************************************************)
EXTENDS Naturals, Sequences, FiniteSets

CONSTANTS
    Prov,            \* the provisioners of one Build (ProvisionerSpec entries)
    Ids,             \* the UUIDs uuid.New() may return (finite pool)
    NoId,            \* spec.UUID == nil
    InitContainers,  \* init container names of a provisioner job's pod
    MainContainers,  \* main container names of the pod
    ExitCodes,       \* exit codes a container may terminate with
    HasRun,          \* [Prov -> BOOLEAN]: spec.Run != nil
    SuccessConds,    \* conditions the job controller appends when the pod succeeds
    FailureConds,    \* conditions the job controller appends when the pod fails
    Faults,          \* API / sink failures the environment may inject
    MaxFaults        \* bound on the number of injected failures in a behaviour

Containers == InitContainers \cup MainContainers

CondTypes == {"Complete", "Failed", "FailureTarget", "SuccessCriteriaMet", "Suspended"}
\* "CreateError": CreateOrUpdate refused; "CreateTimeout": it returned an
\* error (a client timeout) after the API server had committed the Job.
FaultKinds == {"CreateError", "CreateTimeout", "PersistConflict", "ApiError",
               "SinkError", "DeleteError"}

ASSUME ConstAssumption ==
    /\ Prov # {}
    /\ NoId \notin Ids
    /\ InitContainers \cap MainContainers = {}
    /\ 0 \in ExitCodes /\ ExitCodes \subseteq Nat
    /\ HasRun \in [Prov -> BOOLEAN]
    /\ SuccessConds \in Seq(CondTypes) /\ Len(SuccessConds) > 0
    /\ FailureConds \in Seq(CondTypes) /\ Len(FailureConds) > 0
    /\ Faults \subseteq FaultKinds
    /\ MaxFaults \in Nat

VARIABLES
    uuid,       \* [Prov -> Ids \cup {NoId}]: persisted ProvisionerSpec.UUID
    used,       \* UUIDs already given to a Job
    owner,      \* [Ids -> Prov]: build-name / provisioner-id labels of each Job
                \* (meaningful for the UUIDs in used)
    jobs,       \* Jobs that exist in the API server
    conds,      \* [Ids -> Seq(CondTypes)]: Job.Status.Conditions (kept after deletion)
    pod,        \* [Ids -> {"none", "done", "gone"}]: the Job's pod
    terminated, \* [Ids -> SUBSET Containers]: containers whose state is Terminated
    exitCode,   \* [Ids -> [Containers -> ExitCodes]]: their exit codes
    cached,     \* Jobs present in the controller's informer cache
    cconds,     \* [Ids -> Seq(CondTypes)]: conditions as the cache last saw them
    queue,      \* keys in the controller-runtime work queue
    recCount,   \* [Ids -> [Containers -> Nat]]: failure records emitted
    faults      \* number of failures injected so far

vars == <<uuid, used, owner, jobs, conds, pod, terminated, exitCode, cached, cconds,
          queue, recCount, faults>>

PodStates == {"none", "done", "gone"}

TypeOK ==
    /\ used \subseteq Ids
    /\ uuid \in [Prov -> used \cup {NoId}]
    /\ owner \in [Ids -> Prov]
    /\ jobs \subseteq used
    /\ conds \in [Ids -> Seq(CondTypes)]
    /\ pod \in [Ids -> PodStates]
    /\ terminated \in [Ids -> SUBSET Containers]
    /\ exitCode \in [Ids -> [Containers -> ExitCodes]]
    /\ cached \subseteq used
    /\ cconds \in [Ids -> Seq(CondTypes)]
    /\ queue \subseteq used
    /\ recCount \in [Ids -> [Containers -> Nat]]
    /\ faults \in 0..MaxFaults

Init ==
    /\ uuid = [p \in Prov |-> NoId]
    /\ used = {}
    /\ owner = [i \in Ids |-> CHOOSE p \in Prov : TRUE]
    /\ jobs = {}
    /\ conds = [i \in Ids |-> <<>>]
    /\ pod = [i \in Ids |-> "none"]
    /\ terminated = [i \in Ids |-> {}]
    /\ exitCode = [i \in Ids |-> [c \in Containers |-> 0]]
    /\ cached = {}
    /\ cconds = [i \in Ids |-> <<>>]
    /\ queue = {}
    /\ recCount = [i \in Ids |-> [c \in Containers |-> 0]]
    /\ faults = 0

(* A failure of kind k may be injected: it is enabled and the budget allows. *)
CanFail(k) == k \in Faults /\ faults < MaxFaults
Fail == faults' = faults + 1

(***************************************************************************)
(* Environment: the kubelet runs the Job's pod to termination, the Kubernetes *)
(* job controller appends the Job's conditions, the pod is garbage-        *)
(* collected, and the informer brings the cache up to date, enqueueing the *)
(* key when the event passes the watcher's predicates.                     *)
(***************************************************************************)

(* The pod runs to termination: the init containers in order, and the    *)
(* main containers only when every init container exited 0; a main        *)
(* container that never started is not Terminated.                         *)
PodTerminate(i) ==
    /\ i \in jobs /\ pod[i] = "none"
    /\ pod' = [pod EXCEPT ![i] = "done"]
    /\ \E ec \in [Containers -> ExitCodes] :
        /\ exitCode' = [exitCode EXCEPT ![i] = ec]
        /\ terminated' = [terminated EXCEPT ![i] =
                              IF \A c \in InitContainers : ec[c] = 0
                              THEN Containers ELSE InitContainers]
    /\ UNCHANGED <<uuid, used, owner, jobs, conds, cached, cconds, queue, recCount, faults>>

Succeeded(i) == terminated[i] = Containers /\ \A c \in Containers : exitCode[i][c] = 0

(* The conditions the job controller writes for Job i, in order. *)
CondSeq(i) == IF Succeeded(i) THEN SuccessConds ELSE FailureConds

(* The job controller appends the next condition of a terminated pod's Job. *)
JobCondition(i) ==
    /\ i \in jobs /\ pod[i] # "none"
    /\ Len(conds[i]) < Len(CondSeq(i))
    /\ conds' = [conds EXCEPT ![i] = Append(@, CondSeq(i)[Len(@) + 1])]
    /\ UNCHANGED <<uuid, used, owner, jobs, pod, terminated, exitCode, cached, cconds, queue, recCount, faults>>

(* The terminated pod is removed (pod GC, eviction, or background cascade  *)
(* after the Job's deletion).                                              *)
PodGone(i) ==
    /\ pod[i] = "done"
    /\ pod' = [pod EXCEPT ![i] = "gone"]
    /\ UNCHANGED <<uuid, used, owner, jobs, conds, terminated, exitCode, cached, cconds, queue, recCount, faults>>

(* The watch predicates of SetupWithManager: managed by the shell          *)
(* provisioner, in the namespace, labelled with build name and provisioner *)
(* id (true of every Job the builder makes), and JobHasAnyCondition.       *)
EventPasses(cs) == cs # <<>>

(* The informer delivers the latest state of Job i: an add/update when the *)
(* Job exists, a delete otherwise; an event that passes the predicates      *)
(* enqueues the key.                                                        *)
CacheSync(i) ==
    /\ i \in used
    /\ \/ i \in jobs /\ (i \notin cached \/ cconds[i] # conds[i])
       \/ i \notin jobs /\ i \in cached
    /\ cached' = IF i \in jobs THEN cached \cup {i} ELSE cached \ {i}
    /\ cconds' = [cconds EXCEPT ![i] = conds[i]]
    /\ queue' = IF EventPasses(conds[i]) THEN queue \cup {i} ELSE queue
    /\ UNCHANGED <<uuid, used, owner, jobs, conds, pod, terminated, exitCode, recCount, faults>>

(* The informer re-delivers a cached Job as an update event (periodic      *)
(* resync, or a status change other than the conditions), enqueueing it    *)
(* again if it passes the predicates.                                      *)
Resync(i) ==
    /\ i \in cached /\ i \notin queue
    /\ EventPasses(cconds[i])
    /\ queue' = queue \cup {i}
    /\ UNCHANGED <<uuid, used, owner, jobs, conds, pod, terminated, exitCode, cached, cconds, recCount, faults>>

Environment ==
    \E i \in Ids : \/ PodTerminate(i) \/ JobCondition(i) \/ PodGone(i)
        \/ CacheSync(i) \/ Resync(i)
=============================================================================
