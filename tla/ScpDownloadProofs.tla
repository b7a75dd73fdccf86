-------------------------- MODULE ScpDownloadProofs --------------------------
(***************************************************************************)
(* Proof that Download returns nil only after dst received the whole file  *)
(* from a well-formed header and a cleanly exiting scp -f, for every file  *)
(* size, window, error-channel capacity, set of headers and set of faults *)
(* that satisfy DownloadAssumption.                                        *)
(***************************************************************************)
EXTENDS ScpDownload, TLAPS

USE DownloadAssumption

\* TypeOK in two parts: the Boolean variables, and the rest.
BoolOK == acked \in BOOLEAN /\ exitErr \in BOOLEAN
DataOK ==
    /\ call \in {"session", "wait", "done"}
    /\ acker \in {"ack", "done"}
    /\ reader \in {"header", "copy", "fail", "done"}
    /\ runner \in {"run", "fail", "done"}
    /\ remote \in {"start", "data", "exit", "exited"}
    /\ header \in Headers
    /\ buf \in Seq(Units) /\ Len(buf) <= Window
    /\ sent \in 0..FileSize /\ written \in 0..FileSize
    /\ failure \in [{"reader", "runner"} -> Errors \cup {"none"}]
    /\ errs \in Seq(Errors) /\ Len(errs) <= ErrCap
    /\ result \in Errors \cup {"none", "nil"}
    /\ reader = "fail" => failure["reader"] \in Errors
    /\ runner = "fail" => failure["runner"] \in Errors

(* A result is set only once Download has returned, so no goroutine runs  *)
(* after it.  The reader copies only after a well-formed header, and it    *)
(* finishes without an error only once dst has the whole file; otherwise   *)
(* its error is on errorChan.  The runner finishes only after scp -f       *)
(* exited (its status is then fixed), and an error exit is on errorChan   *)
(* too.  The channel only grows.                                          *)
Reported ==
    /\ result # "none" => call = "done"
    /\ reader = "copy" => header = "ok"
    /\ reader = "done" => (header = "ok" /\ written = FileSize) \/ errs # <<>>
    /\ runner \in {"fail", "done"} => remote = "exited"
    /\ runner = "fail" => exitErr
    /\ runner = "done" /\ exitErr => errs # <<>>
    /\ DownloadSound

\* The inductive invariant.
IInv == BoolOK /\ DataOK /\ Reported

LEMMA TypeSplit == IInv => TypeOK
BY Zenon DEF IInv, TypeOK, BoolOK, DataOK

LEMMA InitIInv == Init => IInv
<1> SUFFICES ASSUME Init PROVE IInv
  OBVIOUS
<1>1. BoolOK
  BY Zenon DEF Init, BoolOK
<1>2. DataOK
  BY DEF Init, DataOK, Errors
<1>3. Reported
  BY Zenon DEF Init, Reported, DownloadSound
<1>4. QED
  BY <1>1, <1>2, <1>3 DEF IInv

\* Download's own goroutine.
LEMMA CallIInv ==
    ASSUME IInv, OpenSession \/ Finish
    PROVE  IInv'
<1>1. BoolOK'
  BY Zenon DEF IInv, BoolOK, OpenSession, Finish
<1>2. CASE OpenSession
  <2>1. DataOK'
    BY <1>2 DEF OpenSession, IInv, DataOK, Errors
  <2>2. Reported'
    BY <1>2, Zenon DEF OpenSession, IInv, Reported, DownloadSound
  <2>3. QED
    BY <1>1, <2>1, <2>2 DEF IInv
<1>3. CASE Finish /\ errs = <<>>
  <2>1. DataOK'
    BY <1>3 DEF Finish, IInv, DataOK
  <2>2. Reported'
    BY <1>3, Zenon DEF Finish, IInv, Reported, DownloadSound
  <2>3. QED
    BY <1>1, <2>1, <2>2 DEF IInv
<1>4. CASE Finish /\ errs # <<>>
  <2>1. result' \in Errors
    BY <1>4 DEF Finish, IInv, DataOK
  <2>2. DataOK'
    BY <1>4, <2>1 DEF Finish, IInv, DataOK
  <2>3. result' # "nil"
    BY <2>1 DEF Errors
  <2>4. Reported'
    BY <1>4, <2>3, Zenon DEF Finish, IInv, Reported, DownloadSound
  <2>5. QED
    BY <1>1, <2>2, <2>4 DEF IInv
<1>5. QED
  BY <1>2, <1>3, <1>4

\* The goroutines and the remote run only while Download waits, when no
\* result is set: DownloadSound holds trivially across their steps.
LEMMA RunningSound ==
    ASSUME IInv, Running, UNCHANGED result
    PROVE  DownloadSound'
BY Zenon DEF IInv, Reported, DownloadSound, Running

LEMMA AckIInv ==
    ASSUME IInv, Ack
    PROVE  IInv'
<1>1. BoolOK' /\ DataOK'
  BY DEF Ack, IInv, BoolOK, DataOK
<1>2. Reported'
  BY RunningSound, Zenon DEF Ack, IInv, Reported, Running
<1>3. QED
  BY <1>1, <1>2 DEF IInv

LEMMA ReadHeaderIInv ==
    ASSUME IInv, ReadHeader
    PROVE  IInv'
<1>1. BoolOK'
  BY Zenon DEF ReadHeader, IInv, BoolOK
<1>2. DataOK'
  <2>1. CASE buf = <<>>
    BY <2>1 DEF ReadHeader, Fail, IInv, DataOK, Errors
  <2>2. CASE buf # <<>> /\ header = "ok"
    BY <2>2 DEF ReadHeader, IInv, DataOK
  <2>3. CASE buf # <<>> /\ header = "length"
    <3>1. buf' = Tail(buf) /\ reader' = "fail"
          /\ failure' = [failure EXCEPT !["reader"] = "parseInt"]
          /\ UNCHANGED <<call, acker, runner, remote, header, sent, written, errs, result>>
      BY <2>3, Zenon DEF ReadHeader, Fail
    <3>2. QED
      BY <2>3, <3>1 DEF IInv, DataOK, Errors
  <2>4. CASE buf # <<>> /\ header \notin {"ok", "length"}
    <3>1. buf' = Tail(buf) /\ reader' = "fail"
          /\ failure' = [failure EXCEPT !["reader"] = "invalidLength"]
          /\ UNCHANGED <<call, acker, runner, remote, header, sent, written, errs, result>>
      BY <2>4, Zenon DEF ReadHeader, Fail
    <3>2. QED
      BY <2>4, <3>1 DEF IInv, DataOK, Errors
  <2>5. QED
    BY <2>1, <2>2, <2>3, <2>4
<1>3. Reported'
  <2>1. reader' \in {"copy", "fail"} /\ (reader' = "copy" => header = "ok")
    BY Zenon DEF ReadHeader
  <2>2. QED
    BY <2>1, RunningSound, Zenon DEF ReadHeader, IInv, Reported, Running
<1>4. QED
  BY <1>1, <1>2, <1>3 DEF IInv

LEMMA CopyUnitIInv ==
    ASSUME IInv, CopyUnit
    PROVE  IInv'
<1>1. BoolOK'
  BY Zenon DEF CopyUnit, IInv, BoolOK
<1>2. CASE written = FileSize
  <2>1. reader' = "done" /\ UNCHANGED <<buf, written, failure>>
    BY <1>2 DEF CopyUnit
  <2>2. DataOK'
    BY <2>1 DEF CopyUnit, IInv, DataOK
  <2>3. Reported'
    BY <1>2, <2>1, RunningSound, Zenon DEF CopyUnit, IInv, Reported, Running
  <2>4. QED
    BY <1>1, <2>2, <2>3 DEF IInv
<1>3. CASE written # FileSize
  <2>1. buf # <<>> /\ buf' = Tail(buf)
        /\ \/ written' = written + 1 /\ UNCHANGED <<reader, failure>>
           \/ reader' = "fail" /\ failure' = [failure EXCEPT !["reader"] = "dst"]
              /\ UNCHANGED written
    BY <1>3 DEF CopyUnit, Fail
  <2>2. DataOK'
    BY <1>3, <2>1 DEF CopyUnit, IInv, DataOK, Errors
  <2>3. Reported'
    BY <2>1, RunningSound, Zenon DEF CopyUnit, IInv, Reported, Running
  <2>4. QED
    BY <1>1, <2>2, <2>3 DEF IInv
<1>4. QED
  BY <1>2, <1>3

LEMMA SendIInv ==
    ASSUME IInv, NEW g \in {"reader", "runner"}, Send(g)
    PROVE  IInv'
<1>1. BoolOK'
  BY Zenon DEF Send, IInv, BoolOK
<1>2. DataOK'
  <2>1. CASE g = "reader"
    BY <2>1 DEF Send, IInv, DataOK
  <2>2. CASE g = "runner"
    BY <2>2 DEF Send, IInv, DataOK
  <2>3. QED
    BY <2>1, <2>2
<1>3. errs' # <<>>
  BY DEF Send, IInv, DataOK
<1>4. Reported'
  <2>1. CASE g = "reader"
    BY <2>1, <1>3, RunningSound, Zenon DEF Send, IInv, Reported, Running
  <2>2. CASE g = "runner"
    BY <2>2, <1>3, RunningSound, Zenon DEF Send, IInv, Reported, Running
  <2>3. QED
    BY <2>1, <2>2
<1>5. QED
  BY <1>1, <1>2, <1>4 DEF IInv

LEMMA RunReturnsIInv ==
    ASSUME IInv, RunReturns
    PROVE  IInv'
<1>1. BoolOK' /\ DataOK'
  BY DEF RunReturns, Fail, IInv, BoolOK, DataOK, Errors
<1>2. Reported'
  BY RunningSound, Zenon DEF RunReturns, IInv, Reported, Running
<1>3. QED
  BY <1>1, <1>2 DEF IInv

LEMMA RemoteIInv ==
    ASSUME IInv, Remote
    PROVE  IInv'
<1>1. BoolOK'
  BY Zenon DEF Remote, RemoteHeader, RemoteData, RemoteExit, IInv, BoolOK
<1>2. DataOK'
  <2>1. CASE RemoteHeader
    <3>1. /\ Len(buf) < Window
          /\ \/ UNCHANGED buf
             \/ buf' = Append(buf, "header")
          /\ remote' \in {"data", "exit"}
          /\ UNCHANGED <<call, acker, reader, runner, header, sent, written,
                         failure, errs, result>>
      BY <2>1, Zenon DEF RemoteHeader, Room
    <3>2. buf' \in Seq(Units) /\ Len(buf') =< Window
      <4>1. CASE UNCHANGED buf
        BY <3>1, <4>1 DEF IInv, DataOK
      <4>2. CASE buf' = Append(buf, "header")
        BY <3>1, <4>2 DEF IInv, DataOK, Units
      <4>3. QED
        BY <3>1, <4>1, <4>2
    <3>3. QED
      BY <3>1, <3>2 DEF IInv, DataOK
  <2>2. CASE RemoteData
    <3>1. CASE sent < FileSize
      <4>1. Len(buf) < Window /\ buf' = Append(buf, "data") /\ sent' = sent + 1
            /\ UNCHANGED <<call, acker, reader, runner, remote, header, written,
                           failure, errs, result>>
        BY <2>2, <3>1 DEF RemoteData, Room
      <4>2. QED
        BY <3>1, <4>1 DEF IInv, DataOK, Units
    <3>2. CASE ~(sent < FileSize)
      <4>1. Len(buf) < Window /\ buf' = Append(buf, "nul") /\ remote' = "exit"
            /\ UNCHANGED <<call, acker, reader, runner, header, sent, written,
                           failure, errs, result>>
        BY <2>2, <3>2 DEF RemoteData, Room
      <4>2. QED
        BY <4>1 DEF IInv, DataOK, Units
    <3>3. QED
      BY <3>1, <3>2
  <2>3. CASE RemoteExit
    BY <2>3 DEF RemoteExit, IInv, DataOK
  <2>4. QED
    BY <2>1, <2>2, <2>3 DEF Remote
<1>3. Reported'
  <2>1. CASE RemoteHeader
    <3>1. runner = "run"
      BY <2>1, Zenon DEF RemoteHeader, IInv, Reported, DataOK
    <3>2. QED
      BY <2>1, <3>1, RunningSound, Zenon DEF RemoteHeader, IInv, Reported, Running
  <2>2. CASE RemoteData
    BY <2>2, RunningSound, Zenon DEF RemoteData, IInv, Reported, Running
  <2>3. CASE RemoteExit
    BY <2>3, RunningSound, Zenon DEF RemoteExit, IInv, Reported, Running
  <2>4. QED
    BY <2>1, <2>2, <2>3 DEF Remote
<1>4. QED
  BY <1>1, <1>2, <1>3 DEF IInv

LEMMA NextIInv == IInv /\ [Next]_vars => IInv'
<1> SUFFICES ASSUME IInv, [Next]_vars PROVE IInv'
  OBVIOUS
<1>1. CASE OpenSession \/ Finish
  BY <1>1, CallIInv
<1>2. CASE Ack
  BY <1>2, AckIInv
<1>3. CASE Reader
  BY <1>3, ReadHeaderIInv, CopyUnitIInv, SendIInv DEF Reader
<1>4. CASE Runner
  BY <1>4, RunReturnsIInv, SendIInv DEF Runner
<1>5. CASE Remote
  BY <1>5, RemoteIInv
<1>6. CASE Returned \/ UNCHANGED vars
  BY <1>6 DEF Returned, vars, IInv, BoolOK, DataOK, Reported, DownloadSound
<1>7. QED
  BY <1>1, <1>2, <1>3, <1>4, <1>5, <1>6 DEF Next

(* Download returns nil only when dst holds the whole file, the header was *)
(* well formed and scp -f exited 0 (DownloadSound), for every size, window *)
(* and capacity: no goroutine's error is lost on the way to the select.  *)
THEOREM DownloadSoundInvariant == Spec => []DownloadSound
<1>1. Spec => []IInv
  BY InitIInv, NextIInv, PTL DEF Spec
<1>2. IInv => DownloadSound
  BY DEF IInv, Reported
<1>3. QED
  BY <1>1, <1>2, PTL

(* Every reachable state of Download is well typed (TypeOK): in particular   *)
(* the channel window and errorChan never hold more than their capacity.  *)
THEOREM DownloadTypeCorrect == Spec => []TypeOK
<1>1. Spec => []IInv
  BY InitIInv, NextIInv, PTL DEF Spec
<1>2. QED
  BY <1>1, TypeSplit, PTL

=============================================================================
