---------------------------- MODULE JobLifecycle ----------------------------
(***************************************************************************)
(* The shell provisioner's job lifecycle: the orchestrator creates one Job *)
(* per provisioner run, the Kubernetes environment runs it and reports its *)
(* conditions, and the watcher resolves the outcome and deletes the Job.   *)
(***************************************************************************)
EXTENDS Orchestrator, JobWatcher

Next == Orchestrate \/ Watch \/ Environment

(* The Build controller re-runs Reconcile while spec.UUID is nil (it        *)
(* requeues), the kubelet and job controller run every pod to a terminal   *)
(* condition (the provisioner scripts terminate), the informer delivers    *)
(* every change, and the work queue hands every key to a worker.  Pod      *)
(* garbage collection is not assumed to happen.                            *)
Fairness ==
    /\ \A p \in Prov : WF_vars(Ensure(p))
    /\ \A i \in Ids : /\ WF_vars(PodTerminate(i))
                      /\ WF_vars(JobCondition(i))
                      /\ WF_vars(CacheSync(i))
                      /\ WF_vars(Reconcile(i))

Spec == Init /\ [][Next]_vars /\ Fairness

-----------------------------------------------------------------------------
(* A failure record for container c of Job i (setCache in                  *)
(* processFailedScanJob) is only ever emitted for a Job whose first        *)
(* condition is Failed and for a container of its pod that terminated with *)
(* a non-zero exit code, although the watcher reads the Job from a cache   *)
(* that lags the API server.                                               *)
RecordsSound ==
    \A i \in Ids, c \in Containers :
        recCount[i][c] > 0 =>
            /\ conds[i] # <<>> /\ Head(conds[i]) = "Failed"
            /\ c \in terminated[i] /\ exitCode[i][c] # 0

(* When the watcher has deleted a Failed Job whose pod it could still      *)
(* read, every container of that pod (init or main) that terminated with a *)
(* non-zero exit code has a failure record: the outcome is not lost.       *)
FailuresReported ==
    \A i \in used \ jobs, c \in Containers :
        ( /\ conds[i] # <<>> /\ Head(conds[i]) = "Failed"
          /\ pod[i] = "done" /\ c \in terminated[i] /\ exitCode[i][c] # 0 )
            => recCount[i][c] > 0

(* Spec 4.2: exactly one failure record per failed container.  The watcher *)
(* re-reads the Job from the API server before it lists the pods, so a     *)
(* stale cache entry of an already-processed Job, whose pods still exist   *)
(* under background deletion, does not report the failure twice.          *)
AtMostOnceRecord ==
    \A i \in Ids, c \in Containers : recCount[i][c] <= 1

(* Spec 3/8: at most one live Job per (Build, ProvisionerSpec) pair.  The  *)
(* orchestrator relies on spec.UUID alone, which it sets in memory after   *)
(* CreateOrUpdate and which the Build controller writes back later.        *)
AtMostOneJobPerProvisioner ==
    \A p \in Prov : Cardinality({i \in jobs : owner[i] = p}) <= 1

(* Every Job that is created is eventually resolved and deleted by the     *)
(* watcher ("guaranteed cleanup").                                         *)
JobEventuallyDeleted ==
    \A i \in Ids : i \in jobs ~> i \notin jobs

(* Every provisioner whose spec has an inline script (spec.Run set)        *)
(* eventually gets its Job and a persisted correlation id, although a      *)
(* create may fail or time out after committing and the write-back of      *)
(* spec.UUID may be lost: the Build controller re-runs Reconcile while     *)
(* spec.UUID is nil.  A ConfigMap-only spec panics at line 41 and never    *)
(* starts; the property does not speak of it.                              *)
ProvisionerStarts ==
    \A p \in Prov : HasRun[p] => <>(uuid[p] # NoId)
-----------------------------------------------------------------------------
(* The refinement mapping onto JobLedger.  A UUID not yet used names no    *)
(* Job; a used one names a live Job while it exists in the API server and  *)
(* a deleted one after.  A Job has finished once the job controller wrote  *)
(* its first condition; its failed containers are then those whose         *)
(* termination the pod reports with a non-zero exit code, when that first  *)
(* condition is Failed, and none otherwise.                                *)
LedgerState ==
    [i \in Ids |-> IF i \notin used THEN "unused"
                   ELSE IF i \in jobs THEN "live" ELSE "deleted"]

LedgerFinished == {i \in Ids : conds[i] # <<>>}

LedgerFailed ==
    [i \in Ids |-> IF conds[i] # <<>> /\ Head(conds[i]) = "Failed"
                   THEN {c \in terminated[i] : exitCode[i][c] # 0} ELSE {}]

Ledger == INSTANCE JobLedger
    WITH jstate <- LedgerState, finished <- LedgerFinished,
         failed <- LedgerFailed, records <- recCount

(* The lifecycle implements JobLedger: the watcher emits records only for  *)
(* failed containers of a Job that exists and has finished (although it    *)
(* reads the Job from a lagging cache), it deletes a Job only after the    *)
(* Job finished, a finished Job's outcome never changes, and the           *)
(* orchestrator never reuses a UUID.                                       *)
JobLifecycleImplementsLedger == Ledger!Spec
=============================================================================
