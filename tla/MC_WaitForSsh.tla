---------------------------- MODULE MC_WaitForSsh ----------------------------
(* Instantiation of WaitForSsh for TLC, with the two-second sleep and the  *)
(* 60 s dial timeout of ssh.go.                                           *)
EXTENDS WaitForSsh, TLC

\* A refused connection fails at once, a slow one after a second; a dial to
\* an unreachable address takes the whole dial timeout.  A handshake fails
\* or succeeds at once, after a few seconds, or after 90 s, beyond the dial
\* timeout that does not cover it.
MCDialTimes == {0, 1, 60}
MCHandshakeTimes == {0, 2, 90}
MCInstantFailure == {0}
=============================================================================
