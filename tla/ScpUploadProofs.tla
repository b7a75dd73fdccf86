--------------------------- MODULE ScpUploadProofs ---------------------------
(***************************************************************************)
(* Proof that Upload returns nil only after a complete, clean transfer,    *)
(* for every file size, window and error-channel capacity, under every     *)
(* failure of UploadAssumption's Faults.                                   *)
(***************************************************************************)
EXTENDS ScpUpload, TLAPS

USE UploadAssumption

\* TypeOK in two parts: the Boolean variables, and the rest.
BoolOK == eof \in BOOLEAN /\ storeErr \in BOOLEAN /\ exitErr \in BOOLEAN
DataOK ==
    /\ call \in {"read", "session", "wait", "done"}
    /\ writer \in {"header", "copy", "trailer", "fail", "done", "closed"}
    /\ runner \in {"run", "fail", "done"}
    /\ sink \in {"header", "data", "trailer", "drain", "exited"}
    /\ buf \in Seq(Units) /\ Len(buf) <= Window
    /\ copied \in 0..FileSize /\ received \in 0..FileSize
    /\ errs \in Seq(Errors) /\ Len(errs) <= ErrCap
    /\ result \in Errors \cup {"none", "nil"}

(* The sink's position bounds what it has received: nothing before the    *)
(* header, less than the file while reading data, all of it at the        *)
(* trailer and after.                                                     *)
Counts ==
    /\ sink = "header" => received = 0
    /\ sink = "data" => received < FileSize
    /\ sink \in {"trailer", "drain"} => received = FileSize

(* A sink that exited with status 0 did so at EOF after storing           *)
(* everything.  The runner has finished only after the sink exited, and   *)
(* if that exit was an error the runner has already put it on errorChan   *)
(* (which only grows).                                                    *)
Reported ==
    /\ Closed /\ ~exitErr => received = FileSize /\ ~storeErr
    /\ runner \in {"fail", "done"} => Closed
    /\ runner = "fail" => exitErr
    /\ runner = "done" /\ exitErr => errs # <<>>
    /\ UploadSound

\* The inductive invariant.
IInv == BoolOK /\ DataOK /\ Counts /\ Reported

LEMMA TypeSplit == TypeOK <=> BoolOK /\ DataOK
BY Zenon DEF TypeOK, BoolOK, DataOK

LEMMA InitIInv == Init => IInv
<1> SUFFICES ASSUME Init PROVE IInv
  OBVIOUS
<1>1. BoolOK
  BY Zenon DEF Init, BoolOK
<1>2. DataOK
  BY DEF Init, DataOK, Errors
<1>3. Counts
  BY DEF Init, Counts
<1>4. Reported
  BY Zenon DEF Init, Reported, UploadSound, Closed
<1>5. QED
  BY <1>1, <1>2, <1>3, <1>4 DEF IInv

\* Upload's own goroutine: Prepare and Finish.
LEMMA CallIInv ==
    ASSUME IInv, Prepare \/ Finish
    PROVE  IInv'
<1>1. BoolOK'
  BY Zenon DEF IInv, BoolOK, Prepare, Finish
<1>2. DataOK'
  <2>1. CASE Prepare
    BY <2>1 DEF IInv, DataOK, Prepare, FaultKinds, Errors
  <2>2. CASE Finish /\ errs = <<>>
    BY <2>2 DEF IInv, DataOK, Finish
  <2>3. CASE Finish /\ errs # <<>>
    <3>1. Head(errs) \in Errors
      BY <2>3 DEF IInv, DataOK
    <3>2. QED
      BY <2>3, <3>1 DEF IInv, DataOK, Finish
  <2>4. QED
    BY <2>1, <2>2, <2>3
<1>3. Counts'
  BY DEF IInv, Counts, Prepare, Finish
<1>4. Reported'
  <2>1. CASE Prepare
    BY <2>1, Zenon DEF IInv, Reported, UploadSound, Closed, Prepare
  <2>2. CASE Finish /\ errs = <<>>
    BY <2>2, Zenon DEF IInv, Reported, UploadSound, Closed, Finish
  <2>4. CASE Finish /\ errs # <<>>
    <3>1. result' # "nil"
      BY <2>4 DEF IInv, DataOK, Finish, Errors
    <3>2. QED
      BY <2>4, <3>1, Zenon DEF IInv, Reported, UploadSound, Closed, Finish
  <2>3. QED
    BY <2>1, <2>2, <2>4
<1>5. QED
  BY <1>1, <1>2, <1>3, <1>4 DEF IInv

\* The writer goroutine: it changes no state of the sink or the runner.
LEMMA WriterIInv ==
    ASSUME IInv, Writer
    PROVE  IInv'
<1>1. BoolOK' /\ Counts' /\ Reported'
  <2>1. UNCHANGED <<call, runner, sink, received, storeErr, exitErr, result>>
        /\ (errs' = errs \/ errs' = Append(errs, "eof"))
        /\ eof' \in BOOLEAN
    BY Zenon DEF Writer, WriteHeader, CopyUnit, WriteTrailer, SendError, CloseStdin,
                 IInv, BoolOK
  <2>2. errs' # <<>> \/ errs = <<>>
    BY <2>1 DEF IInv, DataOK
  <2>3. QED
    BY <2>1, <2>2, Zenon DEF IInv, BoolOK, Counts, Reported, UploadSound, Closed
<1>2. DataOK'
  <2>1. CASE WriteHeader
    BY <2>1 DEF WriteHeader, Put, CanPut, Room, Closed, IInv, DataOK, Units
  <2>2. CASE CopyUnit
    <3>1. CASE copied = FileSize
      BY <2>2, <3>1 DEF CopyUnit, IInv, DataOK
    <3>2. CASE copied # FileSize /\ Closed
      BY <2>2, <3>2 DEF CopyUnit, IInv, DataOK
    <3>3. CASE copied # FileSize /\ ~Closed
      <4>1. Len(buf) < Window /\ buf' = Append(buf, "data") /\ copied' = copied + 1
        BY <2>2, <3>3 DEF CopyUnit, CanPut, Room
      <4>2. QED
        BY <2>2, <3>3, <4>1 DEF CopyUnit, IInv, DataOK, Units
    <3>4. QED
      BY <3>1, <3>2, <3>3
  <2>3. CASE WriteTrailer
    BY <2>3 DEF WriteTrailer, Put, CanPut, Room, Closed, IInv, DataOK, Units
  <2>4. CASE SendError("writer")
    BY <2>4 DEF SendError, IInv, DataOK, Errors
  <2>5. CASE CloseStdin
    BY <2>5 DEF CloseStdin, IInv, DataOK
  <2>6. QED
    BY <2>1, <2>2, <2>3, <2>4, <2>5 DEF Writer
<1>3. QED
  BY <1>1, <1>2 DEF IInv

\* The runner goroutine.
LEMMA RunnerIInv ==
    ASSUME IInv, Runner
    PROVE  IInv'
<1>1. DataOK'
  <2>1. CASE RunReturns
    BY <2>1 DEF RunReturns, IInv, DataOK
  <2>2. CASE SendError("runner")
    <3>1. errs' = Append(errs, "exit") /\ Len(errs) < ErrCap /\ runner' = "done"
          /\ UNCHANGED <<call, writer, sink, buf, copied, received, result>>
      BY <2>2 DEF SendError
    <3>2. QED
      BY <3>1 DEF IInv, DataOK, Errors
  <2>3. QED
    BY <2>1, <2>2 DEF Runner
<1>2. Counts'
  BY DEF Runner, RunReturns, SendError, IInv, Counts
<1>3. BoolOK' /\ Reported'
  <2>1. CASE RunReturns
    BY <2>1, Zenon DEF RunReturns, IInv, BoolOK, Reported, UploadSound, Closed
  <2>2. CASE SendError("runner")
    <3>1. errs' # <<>>
      BY <2>2 DEF SendError, IInv, DataOK
    <3>2. QED
      BY <2>2, <3>1, Zenon DEF SendError, IInv, BoolOK, Reported, UploadSound, Closed
  <2>3. QED
    BY <2>1, <2>2 DEF Runner
<1>4. QED
  BY <1>1, <1>2, <1>3 DEF IInv

\* The remote scp -t: it changes neither goroutine nor the result.
LEMMA SinkIInv ==
    ASSUME IInv, Sink
    PROVE  IInv'
<1>1. DataOK' /\ Counts'
  <2>1. CASE SinkHeader
    <3>1. CASE /\ sink' = (IF FileSize = 0 THEN "trailer" ELSE "data")
               /\ buf' = Tail(buf) /\ UNCHANGED exitErr
      BY <2>1, <3>1 DEF SinkHeader, IInv, DataOK, Counts
    <3>2. CASE SinkExit(TRUE)
      BY <2>1, <3>2 DEF SinkHeader, SinkExit, IInv, DataOK, Counts
    <3>3. QED
      BY <2>1, <3>1, <3>2 DEF SinkHeader
  <2>2. CASE SinkData
    BY <2>2 DEF SinkData, IInv, DataOK, Counts
  <2>3. CASE SinkTrailer
    BY <2>3 DEF SinkTrailer, IInv, DataOK, Counts
  <2>4. CASE SinkEOF
    BY <2>4 DEF SinkEOF, SinkExit, IInv, DataOK, Counts
  <2>5. QED
    BY <2>1, <2>2, <2>3, <2>4 DEF Sink
<1>2. BoolOK' /\ Reported'
  <2>1. UNCHANGED <<call, writer, runner, errs, result>>
    BY Zenon DEF Sink, SinkHeader, SinkData, SinkTrailer, SinkEOF, SinkExit
  <2>2. ~Closed
    BY Zenon DEF Sink, SinkHeader, SinkData, SinkTrailer, SinkEOF, Closed
  <2>4. CASE SinkHeader
    BY <2>1, <2>2, <2>4, Zenon DEF SinkHeader, SinkExit, IInv, BoolOK, Reported,
                                   UploadSound, Closed
  <2>5. CASE SinkData
    <3>1. ~Closed'
      BY <2>5 DEF SinkData, Closed
    <3>2. QED
      BY <2>1, <2>2, <3>1, <2>5, Zenon DEF SinkData, IInv, BoolOK, Reported,
                                         UploadSound, Closed
  <2>6. CASE SinkTrailer
    BY <2>1, <2>2, <2>6, Zenon DEF SinkTrailer, IInv, BoolOK, Reported,
                                   UploadSound, Closed
  <2>7. CASE SinkEOF
    <3>1. received = FileSize
      BY <2>7 DEF SinkEOF, IInv, Counts
    <3>2. QED
      BY <2>1, <2>2, <3>1, <2>7, Zenon DEF SinkEOF, SinkExit, IInv, BoolOK, Reported,
                                         UploadSound, Closed
  <2>8. QED
    BY <2>4, <2>5, <2>6, <2>7 DEF Sink
<1>3. QED
  BY <1>1, <1>2 DEF IInv

LEMMA NextIInv == IInv /\ [Next]_vars => IInv'
<1> SUFFICES ASSUME IInv, [Next]_vars PROVE IInv'
  OBVIOUS
<1>1. CASE Prepare \/ Finish
  BY <1>1, CallIInv
<1>2. CASE Writer
  BY <1>2, WriterIInv
<1>3. CASE Runner
  BY <1>3, RunnerIInv
<1>4. CASE Sink
  BY <1>4, SinkIInv
<1>5. CASE Returned \/ UNCHANGED vars
  BY <1>5 DEF Returned, vars, IInv, BoolOK, DataOK, Counts, Reported,
              UploadSound, Closed
<1>6. QED
  BY <1>1, <1>2, <1>3, <1>4, <1>5 DEF Next

(* Upload returns nil only when scp -t received the whole content, stored  *)
(* it and exited 0 (UploadSound), for every size, window and capacity:   *)
(* neither io.Copy's error nor the sink's exit status can be lost.       *)
THEOREM UploadSoundInvariant == Spec => []UploadSound
<1>1. Spec => []IInv
  BY InitIInv, NextIInv, PTL DEF Spec
<1>2. IInv => UploadSound
  BY DEF IInv, Reported
<1>3. QED
  BY <1>1, <1>2, PTL

(* Every reachable state of Upload is well typed (TypeOK): in particular   *)
(* the channel window and errorChan never hold more than their capacity.  *)
THEOREM UploadTypeCorrect == Spec => []TypeOK
<1>1. Spec => []IInv
  BY InitIInv, NextIInv, PTL DEF Spec
<1>2. QED
  BY <1>1, TypeSplit, PTL DEF IInv

=============================================================================
