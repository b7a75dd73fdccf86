-------------------------- MODULE WaitForSshProofs --------------------------
(***************************************************************************)
(* Proof that WaitForSSH's deadline check bounds when it gives up and how  *)
(* many attempts it makes, for every maxWait, sleep, dial timeout, set of  *)
(* dial durations within it and set of handshake durations that satisfy    *)
(* WaitAssumption.                                                         *)
(***************************************************************************)
EXTENDS WaitForSsh, TLAPS

USE WaitAssumption

(* The strengthening.  About to attempt, the caller has slept once per     *)
(* attempt so far, and the check before saw less than maxWait; after an    *)
(* attempt, at least one sleep per earlier attempt has passed; a result is *)
(* set only when the loop is over.                                         *)
IInv ==
    /\ TypeOK
    /\ pc = "connect" => now >= attempts * RetrySleep /\ now < MaxWait + RetrySleep
    /\ pc # "connect" => attempts > 0 /\ now >= (attempts - 1) * RetrySleep
    /\ result # "none" => pc = "done"
    /\ WaitBounded

LEMMA InitIInv == Init => IInv
BY DEF Init, IInv, TypeOK, WaitBounded

(* An attempt started at most one sleep after maxWait, by the check before *)
(* it, so the attempt count stays within the bound.                        *)
LEMMA ConnectIInv ==
    ASSUME IInv, Connect
    PROVE  IInv'
<1>1. PICK d \in DialTimes :
          \/ now' = now + d /\ pc' = "check" /\ UNCHANGED result
          \/ \E h \in HandshakeTimes :
                /\ now' = now + d + h
                /\ \/ pc' = "check" /\ UNCHANGED result
                   \/ pc' = "done" /\ result' = "ok"
          \/ HandshakeHangs /\ now' = now + d /\ pc' = "hung" /\ UNCHANGED result
  BY DEF Connect
<1>2. /\ now' \in Nat
      /\ now' >= now
      /\ pc' \in {"check", "done", "hung"}
      /\ result' \in {"none", "ok"}
      /\ result' # "none" => pc' = "done"
  <2>1. d \in Nat /\ now \in Nat
    BY DEF IInv, TypeOK
  <2>2. CASE now' = now + d /\ pc' = "check" /\ UNCHANGED result
    BY <2>1, <2>2 DEF Connect, IInv, TypeOK
  <2>3. CASE \E h \in HandshakeTimes :
                /\ now' = now + d + h
                /\ \/ pc' = "check" /\ UNCHANGED result
                   \/ pc' = "done" /\ result' = "ok"
    <3>1. PICK h \in HandshakeTimes :
                /\ now' = now + d + h
                /\ \/ pc' = "check" /\ UNCHANGED result
                   \/ pc' = "done" /\ result' = "ok"
      BY <2>3
    <3>2. h \in Nat
      OBVIOUS
    <3>3. QED
      BY <2>1, <3>1, <3>2 DEF Connect, IInv, TypeOK
  <2>4. CASE HandshakeHangs /\ now' = now + d /\ pc' = "hung" /\ UNCHANGED result
    BY <2>1, <2>4 DEF Connect, IInv, TypeOK
  <2>5. QED
    BY <1>1, <2>2, <2>3, <2>4
<1>3. (attempts' - 2) * RetrySleep < MaxWait
  <2>1. attempts * RetrySleep < MaxWait + RetrySleep
    BY DEF Connect, IInv, TypeOK
  <2>2. (attempts - 1) * RetrySleep = attempts * RetrySleep - RetrySleep
    BY DEF IInv, TypeOK
  <2>3. (attempts - 1) * RetrySleep < MaxWait
    BY <2>1, <2>2 DEF IInv, TypeOK
  <2>4. QED
    BY <2>3 DEF Connect, IInv, TypeOK
<1>4. now' >= (attempts' - 1) * RetrySleep
  <2>1. attempts' - 1 = attempts /\ now >= attempts * RetrySleep
    BY DEF Connect, IInv, TypeOK
  <2>2. (attempts' - 1) * RetrySleep = attempts * RetrySleep
    BY <2>1
  <2>3. QED
    BY <1>2, <2>1, <2>2 DEF IInv, TypeOK
<1>5. QED
  BY <1>2, <1>3, <1>4 DEF Connect, IInv, TypeOK, WaitBounded

LEMMA CheckIInv ==
    ASSUME IInv, CheckDeadline
    PROVE  IInv'
<1>1. CASE now >= MaxWait
  BY <1>1 DEF CheckDeadline, IInv, TypeOK, WaitBounded
<1>2. CASE ~(now >= MaxWait)
  <2>1. now' >= attempts' * RetrySleep
    BY <1>2 DEF CheckDeadline, IInv, TypeOK
  <2>2. QED
    BY <1>2, <2>1 DEF CheckDeadline, IInv, TypeOK, WaitBounded
<1>3. QED
  BY <1>1, <1>2

LEMMA NextIInv == IInv /\ [Next]_vars => IInv'
<1> SUFFICES ASSUME IInv, [Next]_vars PROVE IInv'
  OBVIOUS
<1>1. CASE Connect
  BY <1>1, ConnectIInv
<1>2. CASE CheckDeadline
  BY <1>2, CheckIInv
<1>3. CASE UNCHANGED vars
  BY <1>3 DEF vars, IInv, TypeOK, WaitBounded
<1>4. QED
  BY <1>1, <1>2, <1>3 DEF Next

(* WaitForSSH returns ErrTimeout only once maxWait has passed, starts no   *)
(* attempt once maxWait plus one sleep has passed, and makes at most two   *)
(* more attempts than maxWait / sleep (WaitBounded), whatever the          *)
(* constants and however long the handshakes take.                         *)
THEOREM WaitBoundedInvariant == Spec => []WaitBounded
<1>1. Spec => []IInv
  BY InitIInv, NextIInv, PTL DEF Spec
<1>2. QED
  BY <1>1, PTL DEF IInv
=============================================================================
