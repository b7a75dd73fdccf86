------------------------- MODULE JobLifecycleProofs -------------------------
(***************************************************************************)
(* Proofs about JobLifecycle, for every value of the constants that        *)
(* satisfies ConstAssumption.                                              *)
(***************************************************************************)
EXTENDS JobLifecycle, FiniteSetTheorems, TLAPS

USE ConstAssumption

-----------------------------------------------------------------------------
(* Type correctness, one lemma per component.                              *)

LEMMA InitTypeOK == Init => TypeOK
BY DEF Init, TypeOK, PodStates

LEMMA EnsureTypeOK ==
    ASSUME TypeOK, NEW p \in Prov, Ensure(p)
    PROVE  TypeOK'
<1>1. PICK id \in Ids \ used :
        \/ /\ used' = used \cup {id}
           /\ owner' = [owner EXCEPT ![id] = p]
           /\ jobs' = jobs \cup {id}
           /\ PersistUuid(p, id)
        \/ /\ CanFail("CreateError") /\ Fail
           /\ UNCHANGED <<uuid, used, owner, jobs>>
        \/ /\ CanFail("CreateTimeout") /\ Fail
           /\ used' = used \cup {id}
           /\ owner' = [owner EXCEPT ![id] = p]
           /\ jobs' = jobs \cup {id}
           /\ UNCHANGED uuid
  BY DEF Ensure
<1>2. UNCHANGED <<conds, pod, terminated, exitCode, cached, cconds, queue, recCount>>
  BY DEF Ensure
<1>3. CASE /\ used' = used \cup {id}
           /\ owner' = [owner EXCEPT ![id] = p]
           /\ jobs' = jobs \cup {id}
           /\ PersistUuid(p, id)
  <2>1. used' \subseteq Ids /\ jobs' \subseteq used' /\ owner' \in [Ids -> Prov]
    BY <1>1, <1>3 DEF TypeOK
  <2>2. CASE uuid' = [uuid EXCEPT ![p] = id] /\ UNCHANGED faults
    BY <1>1, <1>2, <1>3, <2>1, <2>2 DEF TypeOK
  <2>3. CASE CanFail("PersistConflict") /\ Fail /\ UNCHANGED uuid
    BY <1>1, <1>2, <1>3, <2>1, <2>3 DEF TypeOK, CanFail, Fail
  <2>4. QED
    BY <1>3, <2>2, <2>3 DEF PersistUuid
<1>4. CASE /\ CanFail("CreateError") /\ Fail
           /\ UNCHANGED <<uuid, used, owner, jobs>>
  BY <1>2, <1>4 DEF TypeOK, CanFail, Fail
<1>5. CASE /\ CanFail("CreateTimeout") /\ Fail
           /\ used' = used \cup {id}
           /\ owner' = [owner EXCEPT ![id] = p]
           /\ jobs' = jobs \cup {id}
           /\ UNCHANGED uuid
  BY <1>1, <1>2, <1>5 DEF TypeOK, CanFail, Fail
<1>6. QED
  BY <1>1, <1>3, <1>4, <1>5

LEMMA ReconcileTypeOK ==
    ASSUME TypeOK, NEW i \in Ids, Reconcile(i)
    PROVE  TypeOK'
<1> DEFINE Rec(S) == [recCount EXCEPT ![i] = [c \in Containers |->
                                                IF c \in S THEN @[c] + 1 ELSE @[c]]]
<1>1. i \in used
  BY DEF Reconcile, TypeOK
<1>2. UNCHANGED <<uuid, used, owner, conds, pod, terminated, exitCode, cached, cconds>>
  BY DEF Reconcile
<1>3. queue' \subseteq used
  BY <1>1 DEF Reconcile, ProcessComplete, ProcessFailed, DeleteJob, Requeue, Done, TypeOK
<1>4. jobs' \subseteq used
  BY DEF Reconcile, ProcessComplete, ProcessFailed, DeleteJob, TypeOK
<1>5. faults' \in 0..MaxFaults
  BY DEF Reconcile, ProcessComplete, ProcessFailed, DeleteJob, TypeOK, CanFail, Fail
<1>6. \A S \in SUBSET Containers : Rec(S) \in [Ids -> [Containers -> Nat]]
  BY DEF TypeOK
<1>7. \A S \in SUBSET Containers : Record(i, S) => recCount' \in [Ids -> [Containers -> Nat]]
  BY <1>6 DEF Record
<1>8. FailedContainers(i) \in SUBSET Containers
  BY DEF FailedContainers, TerminatedContainers, Containers
<1>9. recCount' \in [Ids -> [Containers -> Nat]]
  BY <1>7, <1>8 DEF Reconcile, ProcessComplete, ProcessFailed, TypeOK
<1>10. QED
  BY <1>2, <1>3, <1>4, <1>5, <1>9 DEF TypeOK

LEMMA EnvironmentTypeOK ==
    ASSUME TypeOK, Environment
    PROVE  TypeOK'
<1>1. PICK i \in Ids : \/ PodTerminate(i) \/ JobCondition(i) \/ PodGone(i)
                       \/ CacheSync(i) \/ Resync(i)
  BY DEF Environment
<1>2. CASE PodTerminate(i)
  <2>1. PICK ec \in [Containers -> ExitCodes] :
          /\ exitCode' = [exitCode EXCEPT ![i] = ec]
          /\ terminated' = [terminated EXCEPT ![i] =
                                IF \A c \in InitContainers : ec[c] = 0
                                THEN Containers ELSE InitContainers]
    BY <1>2 DEF PodTerminate
  <2>2. (IF \A c \in InitContainers : ec[c] = 0 THEN Containers ELSE InitContainers)
          \in SUBSET Containers
    BY DEF Containers
  <2>3. QED
    BY <1>2, <2>1, <2>2 DEF PodTerminate, TypeOK, PodStates
<1>3. CASE JobCondition(i)
  <2>1. CondSeq(i) \in Seq(CondTypes)
    BY DEF CondSeq
  <2>2. Len(conds[i]) + 1 \in 1..Len(CondSeq(i))
    BY <1>3, <2>1 DEF JobCondition, TypeOK
  <2>3. Append(conds[i], CondSeq(i)[Len(conds[i]) + 1]) \in Seq(CondTypes)
    BY <2>1, <2>2 DEF TypeOK
  <2>4. QED
    BY <1>3, <2>3 DEF JobCondition, TypeOK
<1>4. CASE PodGone(i)
  BY <1>4 DEF PodGone, TypeOK, PodStates
<1>5. CASE CacheSync(i)
  BY <1>5 DEF CacheSync, TypeOK
<1>6. CASE Resync(i)
  BY <1>6 DEF Resync, TypeOK
<1>7. QED
  BY <1>1, <1>2, <1>3, <1>4, <1>5, <1>6

LEMMA NextTypeOK == TypeOK /\ [Next]_vars => TypeOK'
<1> SUFFICES ASSUME TypeOK, [Next]_vars PROVE TypeOK'
  OBVIOUS
<1>1. CASE Orchestrate
  BY <1>1, EnsureTypeOK DEF Orchestrate
<1>2. CASE Watch
  BY <1>2, ReconcileTypeOK DEF Watch
<1>3. CASE Environment
  BY <1>3, EnvironmentTypeOK
<1>4. CASE UNCHANGED vars
  BY <1>4 DEF vars, TypeOK
<1>5. QED
  BY <1>1, <1>2, <1>3, <1>4 DEF Next

(* The type invariant holds in every reachable state: in particular a      *)
(* persisted spec.UUID always names a Job that Reconcile created, and the  *)
(* injected-failure counter stays within MaxFaults.                        *)
THEOREM TypeCorrect == Spec => []TypeOK
BY InitTypeOK, NextTypeOK, PTL DEF Spec

-----------------------------------------------------------------------------
(* RecordsSound.  It is not inductive: a record is emitted on the cached   *)
(* first condition, so the cache must agree with the API server on it, and *)
(* the pod's exit codes must be frozen once recorded.                      *)

(* A non-empty cached condition list has the live list's first condition. *)
CacheConsistent ==
    \A i \in Ids : cconds[i] # <<>> =>
                    conds[i] # <<>> /\ Head(cconds[i]) = Head(conds[i])

(* A recorded Job's pod has terminated, so its exit codes no longer change. *)
RecordedPodTerminated ==
    \A i \in Ids, c \in Containers : recCount[i][c] > 0 => pod[i] # "none"

IInv == TypeOK /\ CacheConsistent /\ RecordedPodTerminated /\ RecordsSound

(* Appending to a non-empty sequence keeps its head. *)
LEMMA HeadAppend ==
    ASSUME NEW T, NEW s \in Seq(T), NEW x \in T, s # <<>>
    PROVE  Append(s, x) # <<>> /\ Head(Append(s, x)) = Head(s)
OBVIOUS

(* Appending to any sequence makes it non-empty. *)
LEMMA AppendNonEmpty ==
    ASSUME NEW T, NEW s \in Seq(T), NEW x \in T
    PROVE  Append(s, x) # <<>>
<1>1. Len(Append(s, x)) = Len(s) + 1 /\ Len(s) \in Nat
  OBVIOUS
<1>2. Len(<<>>) = 0
  OBVIOUS
<1>3. QED
  BY <1>1, <1>2

LEMMA InitIInv == Init => IInv
BY InitTypeOK DEF Init, IInv, CacheConsistent, RecordedPodTerminated, RecordsSound

(* A reconcile either leaves the records alone, or adds records for some of *)
(* the failed containers of a Job whose cached first condition is Failed.  *)
LEMMA ReconcileRecords ==
    ASSUME TypeOK, NEW i \in Ids, Reconcile(i)
    PROVE  \/ recCount' = recCount
           \/ /\ i \in cached /\ cconds[i] # <<>> /\ Head(cconds[i]) = "Failed"
              /\ \E S \in SUBSET FailedContainers(i) : Record(i, S)
<1>1. CASE i \notin cached \/ cconds[i] = <<>>
  BY <1>1 DEF Reconcile
<1>2. CASE i \in cached /\ cconds[i] # <<>> /\ Head(cconds[i]) = "Complete"
  BY <1>2 DEF Reconcile, ProcessComplete
<1>3. CASE i \in cached /\ cconds[i] # <<>> /\ Head(cconds[i]) = "Failed"
  <2>1. ProcessFailed(i)
    BY <1>3 DEF Reconcile
  <2>2. QED
    BY <1>3, <2>1 DEF ProcessFailed
<1>4. CASE i \in cached /\ cconds[i] # <<>> /\ Head(cconds[i]) \notin {"Complete", "Failed"}
  BY <1>4 DEF Reconcile
<1>5. QED
  BY <1>1, <1>2, <1>3, <1>4

LEMMA ReconcileIInv ==
    ASSUME IInv, NEW i \in Ids, Reconcile(i)
    PROVE  IInv'
<1>1. TypeOK'
  BY ReconcileTypeOK DEF IInv
<1>2. UNCHANGED <<conds, cconds, pod, terminated, exitCode>>
  BY DEF Reconcile
<1>3. CacheConsistent'
  BY <1>2 DEF IInv, CacheConsistent
<1>4. CASE recCount' = recCount
  BY <1>1, <1>2, <1>3, <1>4 DEF IInv, RecordedPodTerminated, RecordsSound
<1>5. CASE /\ i \in cached /\ cconds[i] # <<>> /\ Head(cconds[i]) = "Failed"
           /\ \E S \in SUBSET FailedContainers(i) : Record(i, S)
  <2>1. PICK S \in SUBSET FailedContainers(i) : Record(i, S)
    BY <1>5
  <2>2. conds[i] # <<>> /\ Head(conds[i]) = "Failed"
    BY <1>5 DEF IInv, CacheConsistent
  <2>3. \A c \in S : pod[i] = "done" /\ c \in terminated[i] /\ exitCode[i][c] # 0
    BY DEF FailedContainers, TerminatedContainers
  <2>4. \A j \in Ids, c \in Containers :
          recCount'[j][c] > 0 => recCount[j][c] > 0 \/ (j = i /\ c \in S)
    BY <2>1 DEF Record, IInv, TypeOK
  <2>5. RecordedPodTerminated'
    BY <1>2, <2>3, <2>4 DEF IInv, RecordedPodTerminated
  <2>6. RecordsSound'
    BY <1>2, <2>2, <2>3, <2>4 DEF IInv, RecordsSound
  <2>7. QED
    BY <1>1, <1>3, <2>5, <2>6 DEF IInv
<1>6. QED
  BY <1>4, <1>5, ReconcileRecords DEF IInv

LEMMA EnsureIInv ==
    ASSUME IInv, NEW p \in Prov, Ensure(p)
    PROVE  IInv'
<1>1. TypeOK'
  BY EnsureTypeOK DEF IInv
<1>2. UNCHANGED <<conds, cconds, pod, terminated, exitCode, recCount>>
  BY DEF Ensure
<1>3. QED
  BY <1>1, <1>2 DEF IInv, CacheConsistent, RecordedPodTerminated, RecordsSound

LEMMA EnvironmentIInv ==
    ASSUME IInv, Environment
    PROVE  IInv'
<1>1. TypeOK'
  BY EnvironmentTypeOK DEF IInv
<1>2. PICK i \in Ids : \/ PodTerminate(i) \/ JobCondition(i) \/ PodGone(i)
                       \/ CacheSync(i) \/ Resync(i)
  BY DEF Environment
<1>3. CASE PodTerminate(i)
  <2>1. UNCHANGED <<conds, cconds, recCount>> /\ pod[i] = "none"
    BY <1>3 DEF PodTerminate
  <2>2. \A j \in Ids \ {i} : pod'[j] = pod[j] /\ terminated'[j] = terminated[j]
                             /\ exitCode'[j] = exitCode[j]
    BY <1>3 DEF PodTerminate, IInv, TypeOK
  <2>3. \A c \in Containers : recCount[i][c] = 0
    BY <2>1 DEF IInv, TypeOK, RecordedPodTerminated
  <2>4. pod'[i] = "done"
    BY <1>3 DEF PodTerminate, IInv, TypeOK
  <2>5. QED
    BY <1>1, <2>1, <2>2, <2>3, <2>4
       DEF IInv, CacheConsistent, RecordedPodTerminated, RecordsSound
<1>4. CASE JobCondition(i)
  <2>1. UNCHANGED <<cconds, pod, terminated, exitCode, recCount>>
    BY <1>4 DEF JobCondition
  <2>2. \A j \in Ids : conds[j] # <<>> =>
                        conds'[j] # <<>> /\ Head(conds'[j]) = Head(conds[j])
    <3> SUFFICES ASSUME NEW j \in Ids, conds[j] # <<>>
                 PROVE  conds'[j] # <<>> /\ Head(conds'[j]) = Head(conds[j])
      OBVIOUS
    <3>1. CASE j = i
      <4>1. CondSeq(i) \in Seq(CondTypes) /\ Len(conds[i]) + 1 \in 1..Len(CondSeq(i))
        BY <1>4 DEF CondSeq, JobCondition, IInv, TypeOK
      <4>2. CondSeq(i)[Len(conds[i]) + 1] \in CondTypes
        BY <4>1
      <4>3. conds'[i] = Append(conds[i], CondSeq(i)[Len(conds[i]) + 1])
        BY <1>4 DEF JobCondition, IInv, TypeOK
      <4>4. conds[i] \in Seq(CondTypes) /\ conds[i] # <<>>
        BY <3>1 DEF IInv, TypeOK
      <4>5. QED
        BY <3>1, <4>2, <4>3, <4>4, HeadAppend
    <3>2. CASE j # i
      BY <1>4, <3>2 DEF JobCondition, IInv, TypeOK
    <3>3. QED
      BY <3>1, <3>2
  <2>3. QED
    BY <1>1, <2>1, <2>2 DEF IInv, CacheConsistent, RecordedPodTerminated, RecordsSound
<1>5. CASE PodGone(i)
  <2>1. UNCHANGED <<conds, cconds, terminated, exitCode, recCount>>
    BY <1>5 DEF PodGone
  <2>2. \A j \in Ids : pod[j] # "none" => pod'[j] # "none"
    BY <1>5 DEF PodGone, IInv, TypeOK
  <2>3. QED
    BY <1>1, <2>1, <2>2 DEF IInv, CacheConsistent, RecordedPodTerminated, RecordsSound
<1>6. CASE CacheSync(i)
  <2>1. UNCHANGED <<conds, pod, terminated, exitCode, recCount>>
    BY <1>6 DEF CacheSync
  <2>2. \A j \in Ids : cconds'[j] = cconds[j] \/ cconds'[j] = conds[j]
    BY <1>6 DEF CacheSync, IInv, TypeOK
  <2>3. QED
    BY <1>1, <2>1, <2>2 DEF IInv, CacheConsistent, RecordedPodTerminated, RecordsSound
<1>7. CASE Resync(i)
  <2>1. UNCHANGED <<conds, cconds, pod, terminated, exitCode, recCount>>
    BY <1>7 DEF Resync
  <2>2. QED
    BY <1>1, <2>1 DEF IInv, CacheConsistent, RecordedPodTerminated, RecordsSound
<1>8. QED
  BY <1>2, <1>3, <1>4, <1>5, <1>6, <1>7

LEMMA NextIInv == IInv /\ [Next]_vars => IInv'
<1> SUFFICES ASSUME IInv, [Next]_vars PROVE IInv'
  OBVIOUS
<1>1. CASE Orchestrate
  BY <1>1, EnsureIInv DEF Orchestrate
<1>2. CASE Watch
  BY <1>2, ReconcileIInv DEF Watch
<1>3. CASE Environment
  BY <1>3, EnvironmentIInv
<1>4. CASE UNCHANGED vars
  BY <1>4 DEF vars, IInv, TypeOK, CacheConsistent, RecordedPodTerminated, RecordsSound
<1>5. QED
  BY <1>1, <1>2, <1>3, <1>4 DEF Next

(* RecordsSound holds in every reachable state, for any number of          *)
(* provisioners, UUIDs, containers and injected failures: the watcher's    *)
(* failure records (setCache in processFailedScanJob) name only non-zero   *)
(* exits of containers of Jobs whose first condition is Failed, although   *)
(* it dispatches on the lagging informer cache.                            *)
THEOREM RecordsSoundInvariant == Spec => []RecordsSound
<1>1. Spec => []IInv
  BY InitIInv, NextIInv, PTL DEF Spec
<1>2. QED
  BY <1>1, PTL DEF IInv
-----------------------------------------------------------------------------
(* AtMostOnceRecord, when neither the sink nor the Delete of a processed   *)
(* Job can fail (no SinkError, no DeleteError; dup_records shows what goes *)
(* wrong otherwise).  A Job's records are emitted in the step that deletes *)
(* it, and a deleted Job's UUID is never reused.                           *)
RecordedOnce ==
    \A i \in Ids, c \in Containers :
        /\ recCount[i][c] <= 1
        /\ recCount[i][c] > 0 => i \in used \ jobs

NoRetryAfterRecord == "SinkError" \notin Faults /\ "DeleteError" \notin Faults

(* Without those failures, a reconcile either leaves the records alone and *)
(* deletes no Job but i, or records the failed containers of live Job i    *)
(* and deletes it.                                                         *)
LEMMA ReconcileNoRetry ==
    ASSUME TypeOK, NoRetryAfterRecord, NEW i \in Ids, Reconcile(i)
    PROVE  \/ recCount' = recCount /\ jobs' \subseteq jobs
           \/ /\ i \in jobs /\ Record(i, FailedContainers(i))
              /\ jobs' = jobs \ {i}
<1>1. ~CanFail("SinkError") /\ ~CanFail("DeleteError")
  BY DEF NoRetryAfterRecord, CanFail
<1>2. DeleteJob(i) => jobs' = jobs \ {i}
  BY <1>1 DEF DeleteJob
<1>3. CASE ProcessFailed(i)
  <2>1. CASE i \in jobs /\ Record(i, FailedContainers(i)) /\ DeleteJob(i)
    BY <1>2, <2>1
  <2>2. QED
    BY <1>1, <1>3, <2>1 DEF ProcessFailed
<1>4. CASE ProcessComplete(i)
  BY <1>2, <1>4 DEF ProcessComplete
<1>5. QED
  BY <1>3, <1>4 DEF Reconcile

LEMMA InitRecordedOnce == Init => RecordedOnce
BY DEF Init, RecordedOnce

LEMMA NextRecordedOnce ==
    ASSUME TypeOK, RecordedOnce, NoRetryAfterRecord, [Next]_vars
    PROVE  RecordedOnce'
<1>1. CASE Orchestrate
  <2>1. PICK p \in Prov : Ensure(p)
    BY <1>1 DEF Orchestrate
  <2>2. PICK id \in Ids \ used :
          /\ used \subseteq used' /\ used' \subseteq used \cup {id}
          /\ jobs' \subseteq jobs \cup {id}
    BY <2>1 DEF Ensure
  <2>3. \A c \in Containers : recCount[id][c] = 0
    BY <2>2 DEF RecordedOnce, TypeOK
  <2>4. UNCHANGED recCount
    BY <2>1 DEF Ensure
  <2>5. QED
    BY <2>2, <2>3, <2>4 DEF RecordedOnce
<1>2. CASE Watch
  <2>1. PICK i \in Ids : Reconcile(i)
    BY <1>2 DEF Watch
  <2>2. UNCHANGED used
    BY <2>1 DEF Reconcile
  <2>3. CASE recCount' = recCount /\ jobs' \subseteq jobs
    BY <2>2, <2>3 DEF RecordedOnce
  <2>4. CASE i \in jobs /\ Record(i, FailedContainers(i)) /\ jobs' = jobs \ {i}
    <3>1. \A c \in Containers : recCount[i][c] = 0
      BY <2>4 DEF RecordedOnce, TypeOK
    <3>2. \A j \in Ids, c \in Containers :
            recCount'[j][c] = IF j = i /\ c \in FailedContainers(i)
                              THEN recCount[j][c] + 1 ELSE recCount[j][c]
      BY <2>4 DEF Record, TypeOK
    <3>3. i \in used
      BY <2>4 DEF TypeOK
    <3>4. QED
      BY <2>2, <2>4, <3>1, <3>2, <3>3 DEF RecordedOnce, TypeOK
  <2>5. QED
    BY <2>1, <2>3, <2>4, ReconcileNoRetry
<1>3. CASE Environment \/ UNCHANGED vars
  <2>1. UNCHANGED <<used, jobs, recCount>>
    BY <1>3 DEF Environment, PodTerminate, JobCondition, PodGone, CacheSync,
                Resync, vars
  <2>2. QED
    BY <2>1 DEF RecordedOnce
<1>4. QED
  BY <1>1, <1>2, <1>3 DEF Next

(* Spec 4.2 for every number of Jobs and containers: as long as the sink   *)
(* writes and the Delete that follow them cannot fail, processFailedScanJob *)
(* emits the failure record of a container at most once, although the      *)
(* informer may re-deliver the deleted Job and the key be reconciled again. *)
THEOREM AtMostOnceRecordInvariant ==
    NoRetryAfterRecord => (Spec => []AtMostOnceRecord)
<1> SUFFICES ASSUME NoRetryAfterRecord PROVE Spec => []AtMostOnceRecord
  OBVIOUS
<1>1. Init => TypeOK /\ RecordedOnce
  BY InitTypeOK, InitRecordedOnce
<1>2. TypeOK /\ RecordedOnce /\ [Next]_vars => (TypeOK /\ RecordedOnce)'
  BY NextTypeOK, NextRecordedOnce
<1>3. RecordedOnce => AtMostOnceRecord
  BY DEF RecordedOnce, AtMostOnceRecord
<1>4. QED
  BY <1>1, <1>2, <1>3, PTL DEF Spec

-----------------------------------------------------------------------------
(* FailuresReported, under every failure.  A Job leaves the API server     *)
(* only through the watcher's Delete: processCompleteScanJob's, whose      *)
(* cached first condition is then also the live one and is not Failed, or  *)
(* processFailedScanJob's, right after it recorded every failed container. *)
(* After the Delete its conditions, pod and exit codes no longer change,   *)
(* except that the pod may go away.  The strengthening is IInv, for the    *)
(* cache's agreement with the API server.                                  *)

(* Container c of Job i terminated with a non-zero exit code, in a pod the *)
(* watcher can read, and the Job's first condition is Failed.              *)
FailedAt(i, c) ==
    /\ conds[i] # <<>> /\ Head(conds[i]) = "Failed"
    /\ pod[i] = "done" /\ c \in terminated[i] /\ exitCode[i][c] # 0

(* A reconcile deletes no Job but i, and i only after a Complete first     *)
(* condition in the cache or with the records of its failed containers.   *)
LEMMA ReconcileDeletes ==
    ASSUME TypeOK, NEW i \in Ids, Reconcile(i)
    PROVE  \/ jobs' = jobs
           \/ /\ jobs' = jobs \ {i} /\ cconds[i] # <<>>
              /\ \/ Head(cconds[i]) = "Complete"
                 \/ Record(i, FailedContainers(i))
<1>1. DeleteJob(i) => jobs' = jobs \/ jobs' = jobs \ {i}
  BY DEF DeleteJob
<1>2. CASE i \in cached /\ cconds[i] # <<>> /\ Head(cconds[i]) = "Complete"
  BY <1>1, <1>2 DEF Reconcile, ProcessComplete
<1>3. CASE i \in cached /\ cconds[i] # <<>> /\ Head(cconds[i]) = "Failed"
  <2>1. ProcessFailed(i)
    BY <1>3 DEF Reconcile
  <2>2. QED
    BY <1>1, <1>3, <2>1 DEF ProcessFailed
<1>3a. CASE ~(i \in cached /\ cconds[i] # <<>>)
  BY <1>3a DEF Reconcile
<1>4. CASE i \in cached /\ cconds[i] # <<>> /\ Head(cconds[i]) \notin {"Complete", "Failed"}
  BY <1>4 DEF Reconcile
<1>5. QED
  BY <1>2, <1>3, <1>3a, <1>4

LEMMA ReconcileReported ==
    ASSUME IInv, FailuresReported, NEW i \in Ids, Reconcile(i)
    PROVE  FailuresReported'
<1>1. UNCHANGED <<used, conds, pod, terminated, exitCode>>
  BY DEF Reconcile
<1>2. \A j \in Ids, c \in Containers : recCount'[j][c] >= recCount[j][c]
  <2>1. CASE recCount' = recCount
    BY <2>1 DEF IInv, TypeOK
  <2>2. CASE \E S \in SUBSET FailedContainers(i) : Record(i, S)
    BY <2>2 DEF Record, IInv, TypeOK
  <2>3. QED
    BY <2>1, <2>2, ReconcileRecords DEF IInv
<1> SUFFICES ASSUME NEW j \in used \ jobs', NEW c \in Containers, FailedAt(j, c)'
             PROVE  recCount'[j][c] > 0
  BY <1>1 DEF FailuresReported, FailedAt
<1>3. FailedAt(j, c)
  BY <1>1 DEF FailedAt
<1>4. CASE j \notin jobs
  <2>1. j \in Ids /\ recCount[j][c] \in Nat /\ recCount'[j][c] \in Nat
    BY <1>1, ReconcileTypeOK DEF IInv, TypeOK
  <2>2. recCount[j][c] > 0
    BY <1>3, <1>4 DEF FailuresReported, FailedAt
  <2>3. QED
    BY <1>2, <2>1, <2>2
<1>5. CASE j \in jobs
  <2>1. j = i /\ jobs' = jobs \ {i} /\ cconds[i] # <<>>
    BY <1>5, ReconcileDeletes DEF IInv
  <2>2. Head(cconds[i]) # "Complete"
    BY <1>3, <2>1 DEF IInv, CacheConsistent, FailedAt
  <2>3. Record(i, FailedContainers(i))
    BY <1>5, <2>1, <2>2, ReconcileDeletes DEF IInv
  <2>4. c \in FailedContainers(i)
    BY <1>3, <2>1 DEF FailedAt, FailedContainers, TerminatedContainers, Containers
  <2>5. QED
    BY <2>1, <2>3, <2>4 DEF Record, IInv, TypeOK
<1>6. QED
  BY <1>4, <1>5

LEMMA EnvironmentReported ==
    ASSUME IInv, FailuresReported, Environment
    PROVE  FailuresReported'
<1>1. UNCHANGED <<used, jobs, recCount>>
  BY DEF Environment, PodTerminate, JobCondition, PodGone, CacheSync, Resync
<1>2. \A j \in used \ jobs, c \in Containers : FailedAt(j, c)' => FailedAt(j, c)
  <2> SUFFICES ASSUME NEW j \in used \ jobs, NEW c \in Containers
               PROVE  FailedAt(j, c)' => FailedAt(j, c)
    OBVIOUS
  <2>1. PICK i \in Ids : \/ PodTerminate(i) \/ JobCondition(i) \/ PodGone(i)
                         \/ CacheSync(i) \/ Resync(i)
    BY DEF Environment
  <2>2. CASE PodTerminate(i) \/ JobCondition(i)
    <3>1. i # j
      BY <2>2 DEF PodTerminate, JobCondition
    <3>2. QED
      BY <2>2, <3>1 DEF PodTerminate, JobCondition, FailedAt, IInv, TypeOK
  <2>3. CASE PodGone(i)
    BY <2>3 DEF PodGone, FailedAt, IInv, TypeOK
  <2>4. CASE CacheSync(i) \/ Resync(i)
    BY <2>4 DEF CacheSync, Resync, FailedAt
  <2>5. QED
    BY <2>1, <2>2, <2>3, <2>4
<1>3. QED
  BY <1>1, <1>2 DEF FailuresReported, FailedAt

LEMMA NextReported ==
    ASSUME IInv, FailuresReported, [Next]_vars
    PROVE  FailuresReported'
<1>1. CASE Orchestrate
  <2>1. PICK p \in Prov : Ensure(p)
    BY <1>1 DEF Orchestrate
  <2>2. PICK id \in Ids \ used :
          /\ used' \subseteq used \cup {id} /\ jobs \subseteq jobs'
          /\ used' \ jobs' \subseteq used \ jobs
    BY <2>1 DEF Ensure
  <2>3. UNCHANGED <<conds, pod, terminated, exitCode, recCount>>
    BY <2>1 DEF Ensure
  <2>4. QED
    BY <2>2, <2>3 DEF FailuresReported
<1>2. CASE Watch
  BY <1>2, ReconcileReported DEF Watch
<1>3. CASE Environment
  BY <1>3, EnvironmentReported
<1>4. CASE UNCHANGED vars
  BY <1>4 DEF vars, FailuresReported
<1>5. QED
  BY <1>1, <1>2, <1>3, <1>4 DEF Next

(* Spec 4.2/8 for every number of Jobs and containers and under every      *)
(* failure the model injects: once the watcher has deleted a Failed Job    *)
(* whose pod it can read, every container of that pod that exited non-zero *)
(* has a failure record.  A failed Job is never deleted unreported, not    *)
(* even through a stale cache entry that still reads Complete.             *)
THEOREM FailuresReportedInvariant == Spec => []FailuresReported
<1>1. Init => IInv /\ FailuresReported
  BY InitIInv DEF Init, FailuresReported
<1>2. IInv /\ FailuresReported /\ [Next]_vars => (IInv /\ FailuresReported)'
  BY NextIInv, NextReported
<1>3. QED
  BY <1>1, <1>2, PTL DEF Spec

-----------------------------------------------------------------------------
(* The refinement of JobLedger.  Besides CacheConsistent (a record is      *)
(* emitted on the cached first condition, which must be the live one), it *)
(* needs that a pod still running has no condition yet, so that the pod's *)
(* exit codes, written when it terminates, do not change the outcome of a *)
(* Job that has already finished.                                         *)

PodFirst == \A i \in Ids : pod[i] = "none" => conds[i] = <<>>

LEMMA InitPodFirst == Init => PodFirst
BY DEF Init, PodFirst

LEMMA NextPodFirst == TypeOK /\ PodFirst /\ [Next]_vars => PodFirst'
<1> SUFFICES ASSUME TypeOK, PodFirst, [Next]_vars PROVE PodFirst'
  OBVIOUS
<1>1. CASE Orchestrate
  BY <1>1 DEF Orchestrate, Ensure, PodFirst
<1>2. CASE Watch
  BY <1>2 DEF Watch, Reconcile, PodFirst
<1>3. CASE Environment
  <2>1. PICK i \in Ids : \/ PodTerminate(i) \/ JobCondition(i) \/ PodGone(i)
                         \/ CacheSync(i) \/ Resync(i)
    BY <1>3 DEF Environment
  <2>2. CASE PodTerminate(i)
    BY <2>2 DEF PodTerminate, PodFirst, TypeOK
  <2>3. CASE JobCondition(i)
    BY <2>3 DEF JobCondition, PodFirst, TypeOK
  <2>4. CASE PodGone(i)
    BY <2>4 DEF PodGone, PodFirst, TypeOK
  <2>5. CASE CacheSync(i) \/ Resync(i)
    BY <2>5 DEF CacheSync, Resync, PodFirst
  <2>6. QED
    BY <2>1, <2>2, <2>3, <2>4, <2>5
<1>4. CASE UNCHANGED vars
  BY <1>4 DEF vars, PodFirst
<1>5. QED
  BY <1>1, <1>2, <1>3, <1>4 DEF Next

LEMMA InitLedger == Init => Ledger!Init
BY DEF Init, Ledger!Init, LedgerState, LedgerFinished, LedgerFailed

(* A step that leaves the Jobs, their conditions, pods' exit codes and the *)
(* records alone is a stutter of JobLedger.                                *)
LEMMA LedgerStutter ==
    ASSUME UNCHANGED <<used, jobs, conds, terminated, exitCode, recCount>>
    PROVE  UNCHANGED Ledger!lvars
BY DEF Ledger!lvars, LedgerState, LedgerFinished, LedgerFailed

(* Ensure creates at most one Job, with a UUID never used before. *)
LEMMA EnsureLedger ==
    ASSUME TypeOK, NEW p \in Prov, Ensure(p)
    PROVE  [Ledger!Next]_Ledger!lvars
<1>1. UNCHANGED <<conds, terminated, exitCode, recCount>>
  BY DEF Ensure
<1>2. PICK id \in Ids \ used :
        \/ used' = used \cup {id} /\ jobs' = jobs \cup {id}
        \/ UNCHANGED <<used, jobs>>
  BY DEF Ensure
<1>3. CASE UNCHANGED <<used, jobs>>
  BY <1>1, <1>3, LedgerStutter
<1>4. CASE used' = used \cup {id} /\ jobs' = jobs \cup {id}
  <2>1. LedgerState' = [LedgerState EXCEPT ![id] = "live"]
    BY <1>2, <1>4 DEF LedgerState, TypeOK
  <2>2. LedgerState[id] = "unused"
    BY <1>2 DEF LedgerState
  <2>3. UNCHANGED <<LedgerFinished, LedgerFailed>>
    BY <1>1 DEF LedgerFinished, LedgerFailed
  <2>4. Ledger!Create(id)
    BY <1>1, <2>1, <2>2, <2>3 DEF Ledger!Create
  <2>5. QED
    BY <1>2, <2>4 DEF Ledger!Next
<1>5. QED
  BY <1>2, <1>3, <1>4

(* The kubelet's and job controller's steps: the first condition of a Job *)
(* finishes it, and nothing else the environment does changes the ledger. *)
LEMMA EnvironmentLedger ==
    ASSUME TypeOK, PodFirst, Environment
    PROVE  [Ledger!Next]_Ledger!lvars
<1>1. PICK i \in Ids : \/ PodTerminate(i) \/ JobCondition(i) \/ PodGone(i)
                       \/ CacheSync(i) \/ Resync(i)
  BY DEF Environment
<1>2. CASE PodTerminate(i)
  <2>1. UNCHANGED <<used, jobs, conds, recCount>> /\ conds[i] = <<>>
    BY <1>2 DEF PodTerminate, PodFirst
  <2>2. \A j \in Ids \ {i} : terminated'[j] = terminated[j] /\ exitCode'[j] = exitCode[j]
    BY <1>2 DEF PodTerminate, TypeOK
  <2>3. \A j \in Ids : LedgerFailed'[j] = LedgerFailed[j]
    BY <2>1, <2>2 DEF LedgerFailed
  <2>4. LedgerFailed' = LedgerFailed
    BY <2>3 DEF LedgerFailed
  <2>5. QED
    BY <2>1, <2>4 DEF Ledger!lvars, LedgerState, LedgerFinished
<1>3. CASE JobCondition(i)
  <2>1. UNCHANGED <<used, jobs, terminated, exitCode, recCount>> /\ i \in jobs
    BY <1>3 DEF JobCondition
  <2>2. CondSeq(i) \in Seq(CondTypes) /\ Len(conds[i]) + 1 \in 1..Len(CondSeq(i))
    BY <1>3 DEF CondSeq, JobCondition, TypeOK
  <2>3. CondSeq(i)[Len(conds[i]) + 1] \in CondTypes
    BY <2>2
  <2>4. conds' = [conds EXCEPT ![i] = Append(conds[i], CondSeq(i)[Len(conds[i]) + 1])]
    BY <1>3 DEF JobCondition
  <2>5. conds'[i] # <<>> /\ \A j \in Ids \ {i} : conds'[j] = conds[j]
    <3>1. conds[i] \in Seq(CondTypes)
      BY DEF TypeOK
    <3>2. conds'[i] = Append(conds[i], CondSeq(i)[Len(conds[i]) + 1])
      BY <2>4 DEF TypeOK
    <3>3. conds'[i] # <<>>
      BY <2>3, <3>1, <3>2, AppendNonEmpty
    <3>4. \A j \in Ids \ {i} : conds'[j] = conds[j]
      BY <2>4 DEF TypeOK
    <3>5. QED
      BY <3>3, <3>4
  <2>6. \A j \in Ids \ {i} : LedgerFailed'[j] = LedgerFailed[j]
    BY <2>1, <2>5 DEF LedgerFailed
  <2>7. CASE conds[i] = <<>>
    <3>1. LedgerState[i] = "live" /\ i \notin LedgerFinished
      BY <2>1, <2>7 DEF LedgerState, TypeOK, LedgerFinished
    <3>2. LedgerFinished' = LedgerFinished \cup {i}
      BY <2>5, <2>7 DEF LedgerFinished
    <3>3. LedgerFailed'[i] \in SUBSET Containers
      BY <2>1 DEF LedgerFailed, TypeOK
    <3>4. LedgerFailed' = [LedgerFailed EXCEPT ![i] = LedgerFailed'[i]]
      BY <2>6 DEF LedgerFailed
    <3>5. LedgerState' = LedgerState
      BY <2>1 DEF LedgerState
    <3>6. Ledger!Finish(i)
      BY <2>1, <3>1, <3>2, <3>3, <3>4, <3>5 DEF Ledger!Finish
    <3>7. QED
      BY <3>6 DEF Ledger!Next
  <2>8. CASE conds[i] # <<>>
    <3>1. Head(conds'[i]) = Head(conds[i])
      BY <2>3, <2>4, <2>8, HeadAppend DEF TypeOK
    <3>2. LedgerFinished' = LedgerFinished
      BY <2>5, <2>8 DEF LedgerFinished
    <3>3. LedgerFailed'[i] = LedgerFailed[i]
      BY <2>1, <2>5, <2>8, <3>1 DEF LedgerFailed
    <3>4. LedgerFailed' = LedgerFailed
      BY <2>6, <3>3 DEF LedgerFailed
    <3>5. QED
      BY <2>1, <3>2, <3>4 DEF Ledger!lvars, LedgerState
  <2>9. QED
    BY <2>7, <2>8
<1>4. CASE PodGone(i) \/ CacheSync(i) \/ Resync(i)
  BY <1>4, LedgerStutter DEF PodGone, CacheSync, Resync
<1>5. QED
  BY <1>1, <1>2, <1>3, <1>4

(* A watcher step that records S for a live Job whose cached first        *)
(* condition it read, and may delete the Job, is a Report of JobLedger:    *)
(* the cache agrees with the API server on the first condition, so the Job *)
(* has finished, and S is among its failed containers.                     *)
LEMMA ReportStep ==
    ASSUME IInv, NEW i \in Ids, NEW S \in SUBSET Containers,
           i \in jobs, cconds[i] # <<>>,
           S = {} \/ (Head(cconds[i]) = "Failed" /\ S \subseteq FailedContainers(i)),
           Record(i, S), jobs' = jobs \/ jobs' = jobs \ {i},
           UNCHANGED <<used, conds, terminated, exitCode>>
    PROVE  Ledger!Next
<1>1. LedgerState[i] = "live" /\ i \in LedgerFinished
  BY DEF IInv, TypeOK, CacheConsistent, LedgerState, LedgerFinished
<1>2. S \subseteq LedgerFailed[i]
  <2>1. CASE Head(cconds[i]) = "Failed" /\ S \subseteq FailedContainers(i)
    <3>1. conds[i] # <<>> /\ Head(conds[i]) = "Failed"
      BY <2>1 DEF IInv, CacheConsistent
    <3>2. FailedContainers(i) \subseteq {c \in terminated[i] : exitCode[i][c] # 0}
      BY DEF FailedContainers, TerminatedContainers
    <3>3. QED
      BY <2>1, <3>1, <3>2 DEF LedgerFailed
  <2>2. QED
    BY <2>1
<1>3. LedgerState' \in {LedgerState, [LedgerState EXCEPT ![i] = "deleted"]}
  <2>1. CASE jobs' = jobs
    <3>1. LedgerState' = LedgerState
      BY <2>1 DEF LedgerState
    <3>2. QED
      BY <3>1
  <2>2. CASE jobs' = jobs \ {i}
    <3>1. LedgerState' = [LedgerState EXCEPT ![i] = "deleted"]
      BY <2>2 DEF LedgerState, IInv, TypeOK
    <3>2. QED
      BY <3>1
  <2>3. QED
    BY <2>1, <2>2
<1>4. UNCHANGED <<LedgerFinished, LedgerFailed>>
  BY DEF LedgerFinished, LedgerFailed
<1>5. Ledger!Report(i, S)
  BY <1>1, <1>2, <1>3, <1>4 DEF Ledger!Report, Record
<1>6. QED
  BY <1>5 DEF Ledger!Next

(* Recording nothing leaves the records as they are. *)
LEMMA RecordNothing ==
    ASSUME TypeOK, NEW i \in Ids, recCount' = recCount
    PROVE  Record(i, {})
BY DEF Record, TypeOK

(* reconcileJobs: a Job that is gone or has no condition, a first         *)
(* condition other than Complete or Failed, an API or sink error before    *)
(* any record, and a failed Delete change nothing the ledger sees; the     *)
(* records set and the Delete that follows are one Report.                 *)
LEMMA ReconcileLedger ==
    ASSUME IInv, NEW i \in Ids, Reconcile(i)
    PROVE  [Ledger!Next]_Ledger!lvars
<1>1. UNCHANGED <<used, conds, terminated, exitCode>>
  BY DEF Reconcile
<1>2. DeleteJob(i) => jobs' = jobs \/ jobs' = jobs \ {i}
  BY DEF DeleteJob
<1>3. CASE i \notin cached \/ cconds[i] = <<>>
  BY <1>1, <1>3, LedgerStutter DEF Reconcile
<1>4. CASE /\ i \in cached /\ cconds[i] # <<>>
           /\ Head(cconds[i]) \notin {"Complete", "Failed"}
  BY <1>1, <1>4, LedgerStutter DEF Reconcile
<1>5. CASE i \in cached /\ cconds[i] # <<>> /\ Head(cconds[i]) = "Complete"
  <2>1. DeleteJob(i) /\ recCount' = recCount
    BY <1>5 DEF Reconcile, ProcessComplete
  <2>2. CASE i \in jobs
    BY <1>1, <1>2, <1>5, <2>1, <2>2, RecordNothing, ReportStep DEF IInv
  <2>3. CASE i \notin jobs
    <3>1. jobs' = jobs
      BY <1>2, <2>1, <2>3
    <3>2. QED
      BY <1>1, <2>1, <3>1, LedgerStutter
  <2>4. QED
    BY <2>2, <2>3
<1>6. CASE i \in cached /\ cconds[i] # <<>> /\ Head(cconds[i]) = "Failed"
  <2>1. ProcessFailed(i)
    BY <1>6 DEF Reconcile
  <2>2. CASE UNCHANGED <<jobs, recCount>>
    BY <1>1, <2>2, LedgerStutter
  <2>3. CASE /\ i \in jobs
             /\ \E S \in SUBSET FailedContainers(i) : Record(i, S) /\ UNCHANGED jobs
    <3>1. PICK S \in SUBSET FailedContainers(i) : Record(i, S) /\ UNCHANGED jobs
      BY <2>3
    <3>2. S \in SUBSET Containers
      BY DEF FailedContainers, TerminatedContainers, Containers
    <3>3. QED
      BY <1>1, <1>6, <2>3, <3>1, <3>2, ReportStep
  <2>4. CASE i \in jobs /\ Record(i, FailedContainers(i)) /\ DeleteJob(i)
    <3>1. FailedContainers(i) \in SUBSET Containers
      BY DEF FailedContainers, TerminatedContainers, Containers
    <3>2. QED
      BY <1>1, <1>2, <1>6, <2>4, <3>1, ReportStep
  <2>5. QED
    BY <2>1, <2>2, <2>3, <2>4 DEF ProcessFailed
<1>7. QED
  BY <1>3, <1>4, <1>5, <1>6 DEF Reconcile

LEMMA NextLedger ==
    IInv /\ PodFirst /\ [Next]_vars => [Ledger!Next]_Ledger!lvars
<1> SUFFICES ASSUME IInv, PodFirst, [Next]_vars PROVE [Ledger!Next]_Ledger!lvars
  OBVIOUS
<1>1. CASE Orchestrate
  BY <1>1, EnsureLedger DEF Orchestrate, IInv
<1>2. CASE Watch
  BY <1>2, ReconcileLedger DEF Watch
<1>3. CASE Environment
  BY <1>3, EnvironmentLedger DEF IInv
<1>4. CASE UNCHANGED vars
  BY <1>4, LedgerStutter DEF vars
<1>5. QED
  BY <1>1, <1>2, <1>3, <1>4 DEF Next

(* For every value of the constants and every fault, the job lifecycle    *)
(* implements JobLedger: the watcher reports failures only for failed     *)
(* containers of a Job that exists and has finished, deletes a Job only   *)
(* after it finished, a finished Job's outcome never changes (a pod's exit *)
(* codes are written before its Job's first condition), and no UUID is    *)
(* used for a second Job.                                                  *)
THEOREM LedgerRefinement == Spec => JobLifecycleImplementsLedger
<1>1. Spec => [](IInv /\ PodFirst)
  <2>1. Init => IInv /\ PodFirst
    BY InitIInv, InitPodFirst
  <2>2. IInv /\ PodFirst /\ [Next]_vars => (IInv /\ PodFirst)'
    BY NextIInv, NextPodFirst DEF IInv
  <2>3. QED
    BY <2>1, <2>2, PTL DEF Spec
<1>2. QED
  BY <1>1, InitLedger, NextLedger, PTL
     DEF Spec, JobLifecycleImplementsLedger, Ledger!Spec

=============================================================================
