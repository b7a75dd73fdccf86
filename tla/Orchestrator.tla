---------------------------- MODULE Orchestrator ----------------------------
(***************************************************************************)
(* The ProvisionerJobOrchestrator: controller.Reconcile(ctx, client, build, *)
(* spec) of the shell provisioner, called by the Build controller for one   *)
(* ProvisionerSpec, followed by the Build controller's write-back of the   *)
(* mutated spec (spec.UUID) to the API server.                             *)
(***************************************************************************)
EXTENDS ProvisionerJobs

(* The Build controller persists the spec.UUID that Reconcile assigned in  *)
(* memory; on an optimistic-concurrency conflict it re-fetches the Build,  *)
(* and the assignment is lost (the write-back is outside src/).            *)
PersistUuid(p, id) ==
    \/ uuid' = [uuid EXCEPT ![p] = id] /\ UNCHANGED faults
    \/ CanFail("PersistConflict") /\ Fail /\ UNCHANGED uuid

(* Mutants of Ensure (plausible bugs, each must be caught by a property):  *)
(* spec.UUID assigned before CreateOrUpdate and kept when it fails.        *)
Ensure_UuidBeforeCreate(p) ==
    /\ uuid[p] = NoId
    /\ HasRun[p]
    /\ \E id \in Ids \ used :
        \/ /\ used' = used \cup {id}
           /\ owner' = [owner EXCEPT ![id] = p]
           /\ jobs' = jobs \cup {id}
           /\ PersistUuid(p, id)
        \/ /\ CanFail("CreateError") /\ Fail
           /\ uuid' = [uuid EXCEPT ![p] = id]
           /\ UNCHANGED <<used, owner, jobs>>
    /\ UNCHANGED <<conds, pod, terminated, exitCode, cached, cconds, queue, recCount>>

(* The check inverted (spec.UUID != nil): no Job is ever created.           *)
Ensure_GuardInverted(p) ==
    /\ uuid[p] # NoId
    /\ HasRun[p]
    /\ UNCHANGED vars

(* Reconcile with spec.UUID == nil: mint a UUID, build the Job (line 41    *)
(* dereferences spec.Run whenever RunConfigMapRef is set, so a spec whose  *)
(* script comes only from a ConfigMap panics there and nothing happens),   *)
(* CreateOrUpdate it, and set spec.UUID.  A CreateOrUpdate error returns   *)
(* before the UUID is set, whether or not the API server committed the     *)
(* Job.  With spec.UUID set Reconcile does nothing.                        *)
Ensure(p) ==
    /\ uuid[p] = NoId
    /\ HasRun[p]
    /\ \E id \in Ids \ used :
        \/ /\ used' = used \cup {id}
           /\ owner' = [owner EXCEPT ![id] = p]
           /\ jobs' = jobs \cup {id}
           /\ PersistUuid(p, id)
        \/ /\ CanFail("CreateError") /\ Fail
           /\ UNCHANGED <<uuid, used, owner, jobs>>
        \/ /\ CanFail("CreateTimeout") /\ Fail
           /\ used' = used \cup {id}
           /\ owner' = [owner EXCEPT ![id] = p]
           /\ jobs' = jobs \cup {id}
           /\ UNCHANGED uuid
    /\ UNCHANGED <<conds, pod, terminated, exitCode, cached, cconds, queue, recCount>>

Orchestrate == \E p \in Prov : Ensure(p)
=============================================================================
