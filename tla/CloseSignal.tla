---------------------------- MODULE CloseSignal ----------------------------
(***************************************************************************)
(* What Connect and Disconnect promise about client.close, the one-shot   *)
(* signal that stops a session's keepAlive goroutine: a Connect that finds *)
(* no signal makes a fresh one; a Disconnect closes the current signal,    *)
(* once, and forgets it, as a single step.  No signal is closed twice and  *)
(* none is used again after it was closed.                                 *)
(***************************************************************************)
EXTENDS Naturals

CONSTANT MaxChans   \* signals that can be made (one per Connect)

VARIABLES
    sig,    \* the current signal, 0 when there is none
    shut,   \* signals closed so far
    made    \* signals made so far, numbered 1..made

svars == <<sig, shut, made>>

Init == sig = 0 /\ shut = {} /\ made = 0

Open ==
    /\ sig = 0 /\ made < MaxChans
    /\ made' = made + 1
    /\ sig' = made + 1
    /\ UNCHANGED shut

Close ==
    /\ sig # 0 /\ sig \notin shut
    /\ shut' = shut \cup {sig}
    /\ sig' = 0
    /\ UNCHANGED made

Next == Open \/ Close

Spec == Init /\ [][Next]_svars
=============================================================================
