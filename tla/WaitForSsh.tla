----------------------------- MODULE WaitForSsh -----------------------------
(***************************************************************************)
(* SSHClient.WaitForSSH: try Connect; on success Disconnect (deferred) and *)
(* return nil; on failure return ErrTimeout once time.Since(start) >=      *)
(* maxWait, else sleep two seconds and try again.  Time is a count of      *)
(* whole seconds since start.  A Connect attempt is a TCP dial, which the  *)
(* net.Dialer's Timeout cuts off, then an SSH handshake                    *)
(* (cssh.NewClientConn, with ClientConfig.Timeout unset), which nothing    *)
(* cuts off: it may take any finite time, or hold the attempt forever when *)
(* the peer accepts TCP and never answers.                                 *)
(***************************************************************************)
EXTENDS Naturals

CONSTANTS
    MaxWait,        \* maxWait, in seconds
    RetrySleep,     \* the sleep between attempts (2 s)
    DialTimeout,    \* net.Dialer Timeout (60 s)
    DialTimes,      \* seconds the TCP dial may take (at most DialTimeout)
    HandshakeTimes, \* seconds the SSH handshake may take before it returns
    HandshakeHangs  \* TRUE when the peer may accept TCP and never speak SSH

ASSUME WaitAssumption ==
    /\ MaxWait \in Nat
    /\ RetrySleep \in Nat \ {0}
    /\ DialTimeout \in Nat
    /\ DialTimes \subseteq 0..DialTimeout /\ DialTimes # {}
    /\ HandshakeTimes \subseteq Nat
    /\ HandshakeHangs \in BOOLEAN

VARIABLES
    now,        \* seconds since start
    pc,         \* "connect", "check", "hung", "done"
    attempts,   \* Connect calls started
    result      \* "none", "ok" (nil) or "timeout" (ErrTimeout)

vars == <<now, pc, attempts, result>>

TypeOK ==
    /\ now \in Nat
    /\ pc \in {"connect", "check", "hung", "done"}
    /\ attempts \in Nat
    /\ result \in {"none", "ok", "timeout"}

Init ==
    /\ now = 0
    /\ pc = "connect"
    /\ attempts = 0
    /\ result = "none"

\* client.Connect(): d.Dial fails after d seconds, or it connects and the
\* handshake fails or succeeds h seconds later, or never returns; on
\* success the deferred Disconnect runs and nil is returned.
Connect ==
    /\ pc = "connect"
    /\ attempts' = attempts + 1
    /\ \E d \in DialTimes :
          \/ now' = now + d /\ pc' = "check" /\ UNCHANGED result
          \/ \E h \in HandshakeTimes :
                /\ now' = now + d + h
                /\ \/ pc' = "check" /\ UNCHANGED result
                   \/ pc' = "done" /\ result' = "ok"
          \/ HandshakeHangs /\ now' = now + d /\ pc' = "hung" /\ UNCHANGED result

\* Mutant: the elapsed time is compared with > instead of >=.
CheckDeadline_Strict ==
    /\ pc = "check"
    /\ IF now > MaxWait
       THEN pc' = "done" /\ result' = "timeout" /\ UNCHANGED now
       ELSE pc' = "connect" /\ now' = now + RetrySleep /\ UNCHANGED result
    /\ UNCHANGED attempts

\* timePassed >= maxWait ends the loop; otherwise time.Sleep(2s) and retry.
CheckDeadline ==
    /\ pc = "check"
    /\ IF now >= MaxWait
       THEN pc' = "done" /\ result' = "timeout" /\ UNCHANGED now
       ELSE pc' = "connect" /\ now' = now + RetrySleep /\ UNCHANGED result
    /\ UNCHANGED attempts

Next == Connect \/ CheckDeadline

\* WaitForSSH runs on its caller's goroutine, which is scheduled.
Spec == Init /\ [][Next]_vars /\ WF_vars(Next)

-----------------------------------------------------------------------------
(* Properties                                                              *)

(* What the deadline check at line 495 bounds, however long each attempt  *)
(* takes: ErrTimeout is returned only once maxWait has passed; no Connect  *)
(* attempt starts once maxWait plus one sleep has passed; and, since the   *)
(* attempts are at least one sleep apart, there are at most two more than  *)
(* maxWait / sleep of them.  How long the last attempt holds the caller is *)
(* not bounded: the handshake has no deadline.                             *)
WaitBounded ==
    /\ result = "timeout" => MaxWait <= now
    /\ pc = "connect" => now < MaxWait + RetrySleep
    /\ (attempts - 2) * RetrySleep < MaxWait

(* WaitForSSH returns to its caller.                                      *)
WaitReturns == <>(pc = "done")

=============================================================================
