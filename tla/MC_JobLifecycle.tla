--------------------------- MODULE MC_JobLifecycle ---------------------------
(* Instantiation of JobLifecycle for TLC: the provisioners, UUIDs and      *)
(* container names are model values given in the .cfg files.              *)
EXTENDS JobLifecycle, TLC

\* Every provisioner has an inline script (spec.Run set).
MCHasRunAll == [p \in Prov |-> TRUE]

\* Job controller that writes the terminal condition directly.
MCSuccessDirect == <<"Complete">>
MCFailureDirect == <<"Failed">>
\* Job controller (Kubernetes 1.31+) that writes an interim condition first.
MCSuccessInterim == <<"SuccessCriteriaMet", "Complete">>
MCFailureInterim == <<"FailureTarget", "Failed">>

MCExitCodes == {0, 7}
MCAllFaults == FaultKinds
MCNoConflict == FaultKinds \ {"CreateTimeout", "PersistConflict", "SinkError", "DeleteError"}
MCDeleteError == {"DeleteError"}
MCLostWriteBack == {"CreateTimeout", "PersistConflict"}
MCNoFaults == {}
=============================================================================
