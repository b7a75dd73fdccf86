----------------------------- MODULE ScpDownload -----------------------------
(***************************************************************************)
(* SSHClient.Download: one session, three goroutines joined by a WaitGroup *)
(* and a buffered error channel, against the remote "scp -f" that sends    *)
(* the file on the session's stdout.                                      *)
(*                                                                         *)
(*   acker  - writes the three NUL acks on stdin and closes it;            *)
(*   reader - reads the header line, checks it, parses the length and      *)
(*            copies that many bytes to dst;                              *)
(*   runner - session.Run("/usr/bin/scp -f path"): returns when the remote *)
(*            process exits.                                              *)
(*                                                                         *)
(* The remote writes into the channel only while the channel's window has  *)
(* room; the window opens again as the reader reads.  The stream is a      *)
(* sequence of units: the header line, data units and the trailing NUL.    *)
(***************************************************************************)
EXTENDS Naturals, Sequences

CONSTANTS
    FileSize,     \* data units of the remote file
    Window,       \* units the channel buffers before the remote blocks
    ErrCap,       \* capacity of errorChan (3 in the code)
    Headers,      \* header lines the remote may send (see HeaderKinds)
    Faults        \* failures that may happen (see FaultKinds)

\* "ok": C0644 <len> <name>; "fields": not three fields (what scp -f
\* sends for a file name with a space in it); "lead": a first
\* field that is not C and four digits; "length": a length that is not a
\* decimal number; "remoteError": the \x01 error line scp sends for a
\* missing or unreadable file; "missing": nothing, the remote shell cannot
\* run /usr/bin/scp and exits non-zero.
HeaderKinds == {"ok", "fields", "lead", "length", "remoteError", "missing"}
\* "session": NewSession or a pipe fails; "dst": writing to dst fails.
FaultKinds == {"session", "dst"}

ASSUME DownloadAssumption ==
    /\ FileSize \in Nat
    /\ Window \in Nat \ {0}
    /\ ErrCap \in Nat
    /\ Headers \subseteq HeaderKinds /\ Headers # {}
    /\ Faults \subseteq FaultKinds

\* The errors Download can return.
Errors == {"session", "eof", "invalidLength", "parseInt", "dst", "exit"}

VARIABLES
    call,      \* Download itself: "session", "wait", "done"
    acker,     \* "ack", "done"
    reader,    \* "header", "copy", "fail", "done"
    runner,    \* "run", "fail", "done"
    remote,    \* scp -f: "start", "data", "exit", "exited"
    header,    \* the header line the remote sends
    acked,     \* the acks are on stdin
    buf,       \* units in the channel not yet read
    sent,      \* data units the remote has sent
    written,   \* data units copied to dst
    failure,   \* the error the failing reader or runner is about to send
    errs,      \* errorChan
    exitErr,   \* the remote exited with a non-zero status
    result     \* what Download returned ("none" before, "nil" for nil)

vars == <<call, acker, reader, runner, remote, header, acked, buf, sent, written,
          failure, errs, exitErr, result>>

Units == {"header", "data", "nul"}

TypeOK ==
    /\ call \in {"session", "wait", "done"}
    /\ acker \in {"ack", "done"}
    /\ reader \in {"header", "copy", "fail", "done"}
    /\ runner \in {"run", "fail", "done"}
    /\ remote \in {"start", "data", "exit", "exited"}
    /\ header \in Headers
    /\ acked \in BOOLEAN
    /\ buf \in Seq(Units) /\ Len(buf) <= Window
    /\ sent \in 0..FileSize /\ written \in 0..FileSize
    /\ failure \in [{"reader", "runner"} -> Errors \cup {"none"}]
    /\ errs \in Seq(Errors) /\ Len(errs) <= ErrCap
    /\ exitErr \in BOOLEAN
    /\ result \in Errors \cup {"none", "nil"}

Init ==
    /\ call = "session"
    /\ acker = "ack" /\ reader = "header" /\ runner = "run"
    /\ remote = "start"
    /\ header \in Headers
    /\ acked = FALSE
    /\ buf = <<>> /\ sent = 0 /\ written = 0
    /\ failure = [g \in {"reader", "runner"} |-> "none"]
    /\ errs = <<>>
    /\ exitErr = FALSE
    /\ result = "none"

\* The goroutines run once Download has its session and pipes.
Running == call = "wait"

-----------------------------------------------------------------------------
(* Download's own goroutine.                                               *)

\* NewSession, StdinPipe and StdoutPipe; an error returns at once.
OpenSession ==
    /\ call = "session"
    /\ \/ /\ "session" \in Faults
          /\ call' = "done" /\ result' = "session"
       \/ /\ call' = "wait"
          /\ UNCHANGED result
    /\ UNCHANGED <<acker, reader, runner, remote, header, acked, buf, sent, written,
                   failure, errs, exitErr>>

\* Mutant: errorChan is not read after wg.Wait().
Finish_IgnoreErrors ==
    /\ call = "wait"
    /\ acker = "done" /\ reader = "done" /\ runner = "done"
    /\ call' = "done"
    /\ result' = "nil"
    /\ UNCHANGED <<acker, reader, runner, remote, header, acked, buf, sent, written,
                   failure, errs, exitErr>>

\* wg.Wait(), then a non-blocking receive: the first error sent, or nil.
Finish ==
    /\ call = "wait"
    /\ acker = "done" /\ reader = "done" /\ runner = "done"
    /\ call' = "done"
    /\ result' = IF errs = <<>> THEN "nil" ELSE Head(errs)
    /\ UNCHANGED <<acker, reader, runner, remote, header, acked, buf, sent, written,
                   failure, errs, exitErr>>

-----------------------------------------------------------------------------
(* The goroutines.                                                         *)

\* The three Fprint calls and the deferred Close of the ack pipe.
Ack ==
    /\ Running /\ acker = "ack"
    /\ acked' = TRUE
    /\ acker' = "done"
    /\ UNCHANGED <<call, reader, runner, remote, header, buf, sent, written,
                   failure, errs, exitErr, result>>

\* The reader or the runner gives up with error e.
Fail(g, e) == failure' = [failure EXCEPT ![g] = e]

\* ReadString('\n'), the field checks and ParseInt.
ReadHeader ==
    /\ Running /\ reader = "header"
    /\ \/ buf = <<>> /\ remote = "exited"
       \/ buf # <<>>
    /\ IF buf = <<>>
       THEN reader' = "fail" /\ Fail("reader", "eof") /\ UNCHANGED buf
       ELSE /\ buf' = Tail(buf)
            /\ CASE header = "ok" ->
                      reader' = "copy" /\ UNCHANGED failure
               []   header = "length" ->
                      reader' = "fail" /\ Fail("reader", "parseInt")
               []   OTHER ->
                      reader' = "fail" /\ Fail("reader", "invalidLength")
    /\ UNCHANGED <<call, acker, runner, remote, header, acked, sent, written, errs,
                   exitErr, result>>

\* One unit read and written to dst; the reader reads on to EOF.
CopyUnit_Overrun ==
    /\ Running /\ reader = "copy"
    /\ buf # <<>>
    /\ buf' = Tail(buf)
    /\ \/ written' = written + 1 /\ UNCHANGED <<reader, failure>>
       \/ /\ "dst" \in Faults
          /\ reader' = "fail" /\ Fail("reader", "dst")
          /\ UNCHANGED written
    /\ UNCHANGED <<call, acker, runner, remote, header, acked, sent, errs, exitErr, result>>

\* io.CopyN(dst, dr, length): one unit read and written to dst, until
\* length units are written.  (scp -f sends exactly the length it
\* announced, so CopyN never meets EOF here.)
CopyUnit ==
    /\ Running /\ reader = "copy"
    /\ IF written = FileSize
       THEN reader' = "done" /\ UNCHANGED <<buf, written, failure>>
       ELSE /\ buf # <<>>
            /\ buf' = Tail(buf)
            /\ \/ written' = written + 1 /\ UNCHANGED <<reader, failure>>
               \/ /\ "dst" \in Faults
                  /\ reader' = "fail" /\ Fail("reader", "dst")
                  /\ UNCHANGED written
    /\ UNCHANGED <<call, acker, runner, remote, header, acked, sent, errs, exitErr, result>>

\* session.Run returns once the remote process has exited.
RunReturns ==
    /\ Running /\ runner = "run"
    /\ remote = "exited"
    /\ IF exitErr
       THEN runner' = "fail" /\ Fail("runner", "exit")
       ELSE runner' = "done" /\ UNCHANGED failure
    /\ UNCHANGED <<call, acker, reader, remote, header, acked, buf, sent, written,
                   errs, exitErr, result>>

\* Mutant: errorChan buffered for one error only.
Send_Cap1(g) ==
    /\ Running
    /\ g = "reader" => reader = "fail"
    /\ g = "runner" => runner = "fail"
    /\ Len(errs) < 1
    /\ errs' = Append(errs, failure[g])
    /\ IF g = "reader" THEN reader' = "done" /\ UNCHANGED runner
                       ELSE runner' = "done" /\ UNCHANGED reader
    /\ UNCHANGED <<call, acker, remote, header, acked, buf, sent, written, failure,
                   exitErr, result>>

\* errorChan <- err: blocks while the channel is full; then return.
Send(g) ==
    /\ Running
    /\ g = "reader" => reader = "fail"
    /\ g = "runner" => runner = "fail"
    /\ Len(errs) < ErrCap
    /\ errs' = Append(errs, failure[g])
    /\ IF g = "reader" THEN reader' = "done" /\ UNCHANGED runner
                       ELSE runner' = "done" /\ UNCHANGED reader
    /\ UNCHANGED <<call, acker, remote, header, acked, buf, sent, written, failure,
                   exitErr, result>>

-----------------------------------------------------------------------------
(* The remote scp -f (OpenSSH "source" mode): it waits for the first ack, *)
(* sends the header, then the data and a NUL, each only while the window   *)
(* has room, and exits; after an error line it exits with status 1.        *)

Room == Len(buf) < Window

RemoteHeader ==
    /\ Running /\ remote = "start"
    /\ acked /\ Room
    /\ CASE header = "missing" ->
              remote' = "exit" /\ exitErr' = TRUE /\ UNCHANGED buf
       []   header = "remoteError" ->
              buf' = Append(buf, "header") /\ remote' = "exit" /\ exitErr' = TRUE
       []   OTHER ->
              buf' = Append(buf, "header") /\ remote' = "data" /\ UNCHANGED exitErr
    /\ UNCHANGED <<call, acker, reader, runner, header, acked, sent, written,
                   failure, errs, result>>

RemoteData ==
    /\ Running /\ remote = "data"
    /\ Room
    /\ IF sent < FileSize
       THEN buf' = Append(buf, "data") /\ sent' = sent + 1 /\ UNCHANGED remote
       ELSE buf' = Append(buf, "nul") /\ remote' = "exit" /\ UNCHANGED sent
    /\ UNCHANGED <<call, acker, reader, runner, header, acked, written, failure,
                   errs, exitErr, result>>

\* The remaining acks are already on stdin: the process exits.
RemoteExit ==
    /\ Running /\ remote = "exit"
    /\ remote' = "exited"
    /\ UNCHANGED <<call, acker, reader, runner, header, acked, buf, sent, written,
                   failure, errs, exitErr, result>>

-----------------------------------------------------------------------------

Reader == ReadHeader \/ CopyUnit \/ Send("reader")
Runner == RunReturns \/ Send("runner")
Remote == RemoteHeader \/ RemoteData \/ RemoteExit

\* Download has returned: nothing more happens in this call.
Returned == call = "done" /\ UNCHANGED vars

Next == OpenSession \/ Finish \/ Ack \/ Reader \/ Runner \/ Remote \/ Returned

\* Go's scheduler runs every runnable goroutine, each on its own; the
\* remote process runs while it is not blocked on the window.
Spec == Init /\ [][Next]_vars /\ WF_vars(OpenSession \/ Finish) /\ WF_vars(Ack)
        /\ WF_vars(Reader) /\ WF_vars(Runner) /\ WF_vars(Remote)

-----------------------------------------------------------------------------
(* Properties                                                              *)

(* Download returns nil only when dst received the whole file and the     *)
(* remote scp exited cleanly: no goroutine's error may be lost between    *)
(* the error channel and the final select.                                *)
DownloadSound ==
    result = "nil" => written = FileSize /\ ~exitErr /\ header = "ok"

(* Download returns to its caller, whatever the remote sends.             *)
DownloadReturns == <>(call = "done")

=============================================================================
