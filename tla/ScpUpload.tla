------------------------------ MODULE ScpUpload ------------------------------
(***************************************************************************)
(* SSHClient.Upload: the file is read into memory, then one session runs   *)
(* "/usr/bin/scp -t dir" while a writer goroutine sends the header line,   *)
(* the content and a NUL on its stdin.  A WaitGroup joins the writer and   *)
(* the runner; a buffered channel carries their errors.                   *)
(*                                                                         *)
(* The writer's defers run in reverse order: wg.Done() first, then         *)
(* w.Close().  The remote sink reads commands until EOF on stdin, so the   *)
(* runner's session.Run returns only after that Close.                    *)
(*                                                                         *)
(* stdin is a sequence of units in the channel's window: the header, data  *)
(* units and the NUL.  Once the remote has exited the channel is closed    *)
(* and every write fails.                                                 *)
(***************************************************************************)
EXTENDS Naturals, Sequences

CONSTANTS
    FileSize,     \* data units of the file
    Window,       \* units the channel carries before the writer blocks
    ErrCap,       \* capacity of errorChan (2 in the code)
    Faults        \* failures that may happen (see FaultKinds)

\* "read": io.ReadAll(src) fails; "session": NewSession or StdinPipe fails;
\* "reject": the sink cannot create the file and exits on the header;
\* "store": the sink fails to write the file, reads on and exits 1.
FaultKinds == {"read", "session", "reject", "store"}

ASSUME UploadAssumption ==
    /\ FileSize \in Nat
    /\ Window \in Nat \ {0}
    /\ ErrCap \in Nat
    /\ Faults \subseteq FaultKinds

\* The errors Upload can return.
Errors == {"read", "session", "eof", "exit"}

VARIABLES
    call,      \* Upload itself: "read", "session", "wait", "done"
    writer,    \* "header", "copy", "trailer", "fail", "done" (wg.Done), "closed"
    runner,    \* "run", "fail", "done"
    sink,      \* scp -t: "header", "data", "trailer", "drain", "exited"
    buf,       \* units on stdin not yet read by the sink
    eof,       \* stdin is closed
    copied,    \* data units io.Copy has written
    received,  \* data units the sink has read
    storeErr,  \* the sink failed to store the file
    exitErr,   \* the sink exited with a non-zero status
    errs,      \* errorChan
    result     \* what Upload returned ("none" before, "nil" for nil)

vars == <<call, writer, runner, sink, buf, eof, copied, received, storeErr,
          exitErr, errs, result>>

Units == {"header", "data", "nul"}

TypeOK ==
    /\ call \in {"read", "session", "wait", "done"}
    /\ writer \in {"header", "copy", "trailer", "fail", "done", "closed"}
    /\ runner \in {"run", "fail", "done"}
    /\ sink \in {"header", "data", "trailer", "drain", "exited"}
    /\ buf \in Seq(Units) /\ Len(buf) <= Window
    /\ eof \in BOOLEAN
    /\ copied \in 0..FileSize /\ received \in 0..FileSize
    /\ storeErr \in BOOLEAN /\ exitErr \in BOOLEAN
    /\ errs \in Seq(Errors) /\ Len(errs) <= ErrCap
    /\ result \in Errors \cup {"none", "nil"}

Init ==
    /\ call = "read"
    /\ writer = "header" /\ runner = "run" /\ sink = "header"
    /\ buf = <<>> /\ eof = FALSE
    /\ copied = 0 /\ received = 0
    /\ storeErr = FALSE /\ exitErr = FALSE
    /\ errs = <<>>
    /\ result = "none"

Running == call = "wait"

-----------------------------------------------------------------------------
(* Upload's own goroutine.                                                 *)

\* io.ReadAll(src), then NewSession and StdinPipe; an error returns at once.
Prepare ==
    /\ call \in {"read", "session"}
    /\ \/ /\ call \in Faults
          /\ call' = "done" /\ result' = call
       \/ /\ call' = IF call = "read" THEN "session" ELSE "wait"
          /\ UNCHANGED result
    /\ UNCHANGED <<writer, runner, sink, buf, eof, copied, received, storeErr,
                   exitErr, errs>>

\* Mutant: the error channel is not read after wg.Wait().
Finish_IgnoreErrors ==
    /\ call = "wait"
    /\ writer \in {"done", "closed"} /\ runner = "done"
    /\ call' = "done" /\ result' = "nil"
    /\ UNCHANGED <<writer, runner, sink, buf, eof, copied, received, storeErr,
                   exitErr, errs>>

\* wg.Wait() (the writer counts as done before it closes stdin), then a
\* non-blocking receive: the first error sent, or nil.
Finish ==
    /\ call = "wait"
    /\ writer \in {"done", "closed"} /\ runner = "done"
    /\ call' = "done"
    /\ result' = IF errs = <<>> THEN "nil" ELSE Head(errs)
    /\ UNCHANGED <<writer, runner, sink, buf, eof, copied, received, storeErr,
                   exitErr, errs>>

-----------------------------------------------------------------------------
(* The writer goroutine.                                                   *)

Room == Len(buf) < Window
Closed == sink = "exited"

\* Write unit u on stdin: blocks while the window is full; on a closed
\* channel the write fails and nothing is sent.
Put(u) == IF Closed THEN UNCHANGED buf ELSE buf' = Append(buf, u)
CanPut == Closed \/ Room

\* fmt.Fprintf(w, "C%#o %d %s\n", ...): its error is ignored.
WriteHeader ==
    /\ Running /\ writer = "header" /\ CanPut
    /\ Put("header")
    /\ writer' = "copy"
    /\ UNCHANGED <<call, runner, sink, eof, copied, received, storeErr, exitErr,
                   errs, result>>

\* Mutant: io.Copy writes one unit more than the content.
CopyUnit_OffByOne ==
    /\ Running /\ writer = "copy" /\ CanPut
    /\ IF copied > FileSize
       THEN writer' = "trailer" /\ UNCHANGED <<buf, copied>>
       ELSE IF Closed
            THEN writer' = "fail" /\ UNCHANGED <<buf, copied>>
            ELSE buf' = Append(buf, "data") /\ copied' = copied + 1 /\ UNCHANGED writer
    /\ UNCHANGED <<call, runner, sink, eof, received, storeErr, exitErr, errs, result>>

\* io.Copy(w, bytes.NewReader(fileContent)): one unit per step; a write on
\* the closed channel fails and the error goes to errorChan.
CopyUnit ==
    /\ Running /\ writer = "copy" /\ CanPut
    /\ IF copied = FileSize
       THEN writer' = "trailer" /\ UNCHANGED <<buf, copied>>
       ELSE IF Closed
            THEN writer' = "fail" /\ UNCHANGED <<buf, copied>>
            ELSE buf' = Append(buf, "data") /\ copied' = copied + 1 /\ UNCHANGED writer
    /\ UNCHANGED <<call, runner, sink, eof, received, storeErr, exitErr, errs, result>>

\* fmt.Fprint(w, "\x00"), error ignored; return runs the deferred wg.Done().
WriteTrailer ==
    /\ Running /\ writer = "trailer" /\ CanPut
    /\ Put("nul")
    /\ writer' = "done"
    /\ UNCHANGED <<call, runner, sink, eof, copied, received, storeErr, exitErr,
                   errs, result>>

\* Mutant: stdin is never closed.
CloseStdin_Skipped ==
    /\ call \in {"wait", "done"} /\ writer = "done"
    /\ writer' = "closed"
    /\ UNCHANGED <<call, runner, sink, buf, eof, copied, received, storeErr,
                   exitErr, errs, result>>

\* The deferred w.Close(), after wg.Done(); Upload may already have returned.
CloseStdin ==
    /\ call \in {"wait", "done"} /\ writer = "done"
    /\ writer' = "closed"
    /\ eof' = TRUE
    /\ UNCHANGED <<call, runner, sink, buf, copied, received, storeErr, exitErr,
                   errs, result>>

\* errorChan <- err from the writer ("eof") or the runner ("exit"): blocks
\* while the channel is full; then the goroutine returns.
SendError(g) ==
    /\ Running
    /\ IF g = "writer" THEN writer = "fail" ELSE runner = "fail"
    /\ Len(errs) < ErrCap
    /\ errs' = Append(errs, IF g = "writer" THEN "eof" ELSE "exit")
    /\ IF g = "writer" THEN writer' = "done" /\ UNCHANGED runner
                       ELSE runner' = "done" /\ UNCHANGED writer
    /\ UNCHANGED <<call, sink, buf, eof, copied, received, storeErr, exitErr, result>>

\* session.Run returns once the remote has exited.
RunReturns ==
    /\ Running /\ runner = "run" /\ Closed
    /\ runner' = IF exitErr THEN "fail" ELSE "done"
    /\ UNCHANGED <<call, writer, sink, buf, eof, copied, received, storeErr,
                   exitErr, errs, result>>

-----------------------------------------------------------------------------
(* The remote scp -t (OpenSSH "sink" mode).                               *)

\* Exit: the channel closes and what it still buffered is dropped.
SinkExit(status) ==
    /\ sink' = "exited" /\ exitErr' = status /\ buf' = <<>>

\* The C line: create the file, or report the error and give up.
SinkHeader ==
    /\ Running /\ sink = "header" /\ buf # <<>>
    /\ \/ /\ sink' = IF FileSize = 0 THEN "trailer" ELSE "data"
          /\ buf' = Tail(buf) /\ UNCHANGED exitErr
       \/ "reject" \in Faults /\ SinkExit(TRUE)
    /\ UNCHANGED <<call, writer, runner, eof, copied, received, storeErr, errs, result>>

\* One data unit; a failed write to the file is remembered and reading goes on.
SinkData ==
    /\ Running /\ sink = "data" /\ buf # <<>>
    /\ buf' = Tail(buf)
    /\ received' = received + 1
    /\ \/ UNCHANGED storeErr
       \/ "store" \in Faults /\ storeErr' = TRUE
    /\ sink' = IF received + 1 = FileSize THEN "trailer" ELSE "data"
    /\ UNCHANGED <<call, writer, runner, eof, copied, exitErr, errs, result>>

\* The NUL after the content; then the sink waits for the next command.
SinkTrailer ==
    /\ Running /\ sink = "trailer" /\ buf # <<>>
    /\ buf' = Tail(buf) /\ sink' = "drain"
    /\ UNCHANGED <<call, writer, runner, eof, copied, received, storeErr, exitErr,
                   errs, result>>

\* EOF on stdin: exit with status 1 if any write failed.
SinkEOF ==
    /\ sink = "drain" /\ buf = <<>> /\ eof
    /\ SinkExit(storeErr)
    /\ UNCHANGED <<call, writer, runner, eof, copied, received, storeErr, errs, result>>

-----------------------------------------------------------------------------

\* Upload has returned: nothing more happens in this call but the writer's
\* Close and the sink's exit.
Returned == call = "done" /\ UNCHANGED vars

Writer == WriteHeader \/ CopyUnit \/ WriteTrailer \/ SendError("writer") \/ CloseStdin
Runner == RunReturns \/ SendError("runner")
Sink == SinkHeader \/ SinkData \/ SinkTrailer \/ SinkEOF

Next == Prepare \/ Finish \/ Writer \/ Runner \/ Sink \/ Returned

Spec == Init /\ [][Next]_vars /\ WF_vars(Prepare \/ Finish)
        /\ WF_vars(Writer) /\ WF_vars(Runner) /\ WF_vars(Sink)

-----------------------------------------------------------------------------
(* Properties                                                              *)

(* Upload returns nil only when the sink read the whole content, stored it *)
(* without error and exited 0: neither the writer's io.Copy error nor the *)
(* exit status of scp -t is lost on the way to the final select.          *)
UploadSound ==
    result = "nil" => received = FileSize /\ ~storeErr /\ ~exitErr /\ Closed

(* Upload returns, and stdin is eventually closed, though wg.Done() runs  *)
(* before w.Close() and the sink exits only at EOF.                       *)
UploadReturns == <>(call = "done" /\ writer \in {"closed", "header"})

=============================================================================
