----------------------------- MODULE JobWatcher -----------------------------
(***************************************************************************)
(* The JobStatusWatcher: ShellJobController.reconcileJobs() and the        *)
(* helpers it calls.  One reconcile of key i is one step: controller-      *)
(* runtime runs at most one reconcile per key at a time, and the only      *)
(* concurrent writers of the state it reads are the environment's steps,   *)
(* whose effect between the cache read and the live reads is the cache's   *)
(* lag behind the API server.                                              *)
(***************************************************************************)
EXTENDS ProvisionerJobs

(* Return an error: the key is re-queued (rate-limited) by controller-runtime. *)
Requeue(i) == queue' = queue \cup {i}
Done(i) == queue' = queue \ {i}

(* deleteJob: Delete with background propagation; NotFound counts as done. *)
DeleteJob(i) ==
    \/ jobs' = jobs \ {i} /\ Done(i) /\ UNCHANGED faults
    \/ CanFail("DeleteError") /\ Fail /\ Requeue(i) /\ UNCHANGED jobs

(* GetTerminatedContainersStatusesByPod of the pod getPodByJob finds: the   *)
(* terminated containers (a missing pod yields an empty map), of which      *)
(* processFailedScanJob reports those with a non-zero exit code.            *)
(* Mutant: only the main containers' statuses are collected.             *)
TerminatedContainers_MainOnly(i) ==
    IF pod[i] = "done" THEN terminated[i] \cap MainContainers ELSE {}

TerminatedContainers(i) ==
    IF pod[i] = "done" THEN terminated[i] \cap (InitContainers \cup MainContainers) ELSE {}

(* Mutant: the ExitCode == 0 skip dropped.                               *)
FailedContainers_NoExitFilter(i) == TerminatedContainers(i)

FailedContainers(i) == {c \in TerminatedContainers(i) : exitCode[i][c] # 0}

Record(i, S) ==
    recCount' = [recCount EXCEPT ![i] = [c \in Containers |->
                                            IF c \in S THEN @[c] + 1 ELSE @[c]]]

(* processCompleteScanJob: log and delete the Job. *)
ProcessComplete(i) ==
    /\ DeleteJob(i)
    /\ UNCHANGED recCount

(* Mutant: the pods are looked up with the cached Job's selector, without  *)
(* re-reading the Job from the API server.                                 *)
ProcessFailed_CachedJob(i) ==
    \/ CanFail("ApiError") /\ Fail /\ Requeue(i) /\ UNCHANGED <<recCount, jobs>>
    \/ CanFail("SinkError") /\ Fail /\ Requeue(i) /\ UNCHANGED <<recCount, jobs>>
    \/ \E S \in SUBSET FailedContainers(i) :
          /\ S # FailedContainers(i)
          /\ CanFail("SinkError") /\ Fail
          /\ Record(i, S) /\ Requeue(i) /\ UNCHANGED jobs
    \/ Record(i, FailedContainers(i)) /\ DeleteJob(i)

(* processFailedScanJob.  getPodByJob re-reads the Job from the API server *)
(* (not the cache): NotFound is returned as an error.  Another API error    *)
(* is returned too.  Otherwise the statuses are read, the running-job entry *)
(* is dropped from the sink (may fail), one record per failed container is *)
(* set in the sink in map order (may fail part-way), and the Job deleted.   *)
ProcessFailed(i) ==
    \/ /\ i \notin jobs
       /\ Requeue(i) /\ UNCHANGED <<recCount, jobs, faults>>
    \/ /\ i \in jobs
       /\ \/ CanFail("ApiError") /\ Fail /\ Requeue(i) /\ UNCHANGED <<recCount, jobs>>
          \/ CanFail("SinkError") /\ Fail /\ Requeue(i) /\ UNCHANGED <<recCount, jobs>>
          \/ \E S \in SUBSET FailedContainers(i) :
                /\ S # FailedContainers(i)
                /\ CanFail("SinkError") /\ Fail
                /\ Record(i, S) /\ Requeue(i) /\ UNCHANGED jobs
          \/ Record(i, FailedContainers(i)) /\ DeleteJob(i)

(* Mutant: the switch has no JobFailed case.                              *)
Reconcile_NoFailedCase(i) ==
    /\ i \in queue
    /\ \/ /\ i \notin cached \/ cconds[i] = <<>>
          /\ Done(i) /\ UNCHANGED <<jobs, recCount, faults>>
       \/ /\ i \in cached /\ cconds[i] # <<>>
          /\ \/ Head(cconds[i]) = "Complete" /\ ProcessComplete(i)
             \/ /\ Head(cconds[i]) # "Complete"
                /\ Requeue(i) /\ UNCHANGED <<jobs, recCount, faults>>
    /\ UNCHANGED <<uuid, used, owner, conds, pod, terminated, exitCode, cached, cconds>>

(* reconcileJobs for key i: Get from the cache (NotFound: done), ignore a   *)
(* Job without conditions, then dispatch on the FIRST condition's type;     *)
(* any other type is an error and the key is re-queued.                     *)
Reconcile(i) ==
    /\ i \in queue
    /\ \/ /\ i \notin cached \/ cconds[i] = <<>>
          /\ Done(i) /\ UNCHANGED <<jobs, recCount, faults>>
       \/ /\ i \in cached /\ cconds[i] # <<>>
          /\ \/ Head(cconds[i]) = "Complete" /\ ProcessComplete(i)
             \/ Head(cconds[i]) = "Failed" /\ ProcessFailed(i)
             \/ /\ Head(cconds[i]) \notin {"Complete", "Failed"}
                /\ Requeue(i) /\ UNCHANGED <<jobs, recCount, faults>>
    /\ UNCHANGED <<uuid, used, owner, conds, pod, terminated, exitCode, cached, cconds>>

Watch == \E i \in Ids : Reconcile(i)
=============================================================================
