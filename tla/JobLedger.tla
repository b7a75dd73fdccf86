----------------------------- MODULE JobLedger -----------------------------
(***************************************************************************)
(* What the shell provisioner's job lifecycle promises about each Job, as  *)
(* the rest of forge sees it (spec 4.2 and 8), without caches, queues,     *)
(* pods or conditions: a Job is created once; it finishes once, and its    *)
(* outcome (the containers that failed) is fixed when it does; failure     *)
(* records are emitted only for containers of that outcome and only while  *)
(* the Job exists; the Job is deleted only after it finished, and a        *)
(* deleted Job is never created again.  How many records a container gets  *)
(* is left open: retries after a partial failure may repeat them.          *)
(***************************************************************************)
EXTENDS Naturals

CONSTANTS
    Ids,        \* the Jobs' UUIDs
    Containers  \* the containers of a Job's pod

VARIABLES
    jstate,     \* [Ids -> {"unused", "live", "deleted"}]
    finished,   \* Jobs whose outcome is known
    failed,     \* [Ids -> SUBSET Containers]: the failed containers of a finished Job
    records     \* [Ids -> [Containers -> Nat]]: failure records emitted

lvars == <<jstate, finished, failed, records>>

LedgerTypeOK ==
    /\ jstate \in [Ids -> {"unused", "live", "deleted"}]
    /\ finished \subseteq Ids
    /\ failed \in [Ids -> SUBSET Containers]
    /\ records \in [Ids -> [Containers -> Nat]]

Init ==
    /\ jstate = [i \in Ids |-> "unused"]
    /\ finished = {}
    /\ failed = [i \in Ids |-> {}]
    /\ records = [i \in Ids |-> [c \in Containers |-> 0]]

\* A Job with a fresh UUID is created.
Create(i) ==
    /\ jstate[i] = "unused"
    /\ jstate' = [jstate EXCEPT ![i] = "live"]
    /\ UNCHANGED <<finished, failed, records>>

\* A live Job finishes; which of its containers failed is fixed now.
Finish(i) ==
    /\ jstate[i] = "live" /\ i \notin finished
    /\ finished' = finished \cup {i}
    /\ \E F \in SUBSET Containers : failed' = [failed EXCEPT ![i] = F]
    /\ UNCHANGED <<jstate, records>>

\* The outcome of a finished, live Job is reported: one more record for
\* each container of S, all among its failed ones; the Job may be deleted
\* in the same step.
Report(i, S) ==
    /\ jstate[i] = "live" /\ i \in finished
    /\ S \subseteq failed[i]
    /\ records' = [records EXCEPT ![i] = [c \in Containers |->
                                             IF c \in S THEN @[c] + 1 ELSE @[c]]]
    /\ jstate' \in {jstate, [jstate EXCEPT ![i] = "deleted"]}
    /\ UNCHANGED <<finished, failed>>

Next == \E i \in Ids : Create(i) \/ Finish(i) \/ \E S \in SUBSET Containers : Report(i, S)

Spec == Init /\ [][Next]_lvars
=============================================================================
