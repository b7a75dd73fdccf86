----------------------------- MODULE SshSession -----------------------------
(***************************************************************************)
(* The connection life cycle of pkg/ssh's SSHClient: Connect (Validate,    *)
(* the choice of the auth method, dial, and the section under closeMutex   *)
(* that creates the close channel and starts keepAlive), the keepAlive     *)
(* goroutines, Disconnect, and the credential setters of a rotating        *)
(* caller.  Each goroutine is a process with a program counter; a step     *)
(* is what the code does between two points where another goroutine can   *)
(* interleave (an unsynchronised read of a shared field, a lock).          *)
(*                                                                         *)
(* Data is abstracted: a credential is Empty (the string "") or a model   *)
(* value; a connection and a channel are numbered by their creation; time *)
(* is left out (the ticker may fire whenever a keepAlive goroutine waits).*)
(***************************************************************************)
EXTENDS Naturals, FiniteSets

CONSTANTS
    Main,           \* the goroutine owning the session: Connect ... Disconnect
    Closers,        \* other goroutines that call Disconnect concurrently
    NoHolder,       \* closeMutex is free
    Empty,          \* the empty string: a credential that is not set
    Secrets,        \* non-empty passwords and keys
    InitKey,        \* Creds.SSHPrivateKey when the client is built
    InitPassword,   \* Creds.SSHPassword when the client is built
    KeyValues,      \* values a rotating caller passes to SetSSHPrivateKey
    PasswordValues, \* values a rotating caller passes to SetSSHPassword
    KeepAlive,      \* Options.KeepAlive (seconds; 0 disables keepAlive)
    MaxConnects,    \* Connect/Disconnect brackets Main performs
    MaxRotations    \* credential setter calls

Callers == {Main} \cup Closers
Creds == Secrets \cup {Empty}

ASSUME SessionAssumption ==
    /\ Main \notin Closers
    /\ NoHolder \notin Callers
    /\ Empty \notin Secrets
    /\ {InitKey, InitPassword} \subseteq Creds
    /\ KeyValues \cup PasswordValues \subseteq Creds
    /\ KeepAlive \in Nat
    /\ MaxConnects \in Nat \ {0}
    /\ MaxRotations \in Nat

\* A keepAlive goroutine is numbered by the Connect that started it.
KaIds == 1..MaxConnects

VARIABLES
    pc,          \* pc[c]: where goroutine c is in Connect or Disconnect
    brackets,    \* Connect calls Main has finished (with or without error)
    key,         \* Creds.SSHPrivateKey
    password,    \* Creds.SSHPassword
    rotations,   \* setter calls so far
    auth,        \* the AuthMethod Connect chose: "key", "password" or "none" (nil)
    conn,        \* client.cryptoClient: id of the connection, 0 = nil
    alive,       \* connections the server has not dropped
    nConns,      \* connections dialled so far
    closeCh,     \* client.close: id of the channel, 0 = nil
    closed,      \* channels close() has been called on
    nChans,      \* channels made so far
    holder,      \* the goroutine holding closeMutex
    ka,          \* ka[k]: where keepAlive goroutine k is
    kaCh         \* kaCh[k]: the channel k's select receives from (0 = nil)

vars == <<pc, brackets, key, password, rotations, auth, conn, alive, nConns,
          closeCh, closed, nChans, holder, ka, kaCh>>

ConnectPcs == {"validate", "auth", "dial", "lock", "locked"}
DisconnectPcs == {"dsel", "dlock", "dclose", "dnil"}
PanicPcs == {"authPanic", "closePanic"}
PcStates == {"idle", "connected", "done"} \cup ConnectPcs \cup DisconnectPcs \cup PanicPcs
KaStates == {"none", "loop", "wait", "send", "exit", "nilPanic"}

TypeOK ==
    /\ pc \in [Callers -> PcStates]
    /\ brackets \in 0..MaxConnects
    /\ key \in Creds /\ password \in Creds
    /\ rotations \in 0..MaxRotations
    /\ auth \in {"key", "password", "none"}
    /\ nConns \in 0..MaxConnects /\ conn \in 0..nConns
    /\ alive \subseteq 1..nConns
    /\ nChans \in 0..MaxConnects /\ closeCh \in 0..nChans
    /\ closed \subseteq 1..nChans
    /\ holder \in Callers \cup {NoHolder}
    /\ ka \in [KaIds -> KaStates]
    /\ kaCh \in [KaIds -> 0..nChans]

Init ==
    /\ pc = [c \in Callers |-> IF c = Main THEN "idle" ELSE "dsel"]
    /\ brackets = 0
    /\ key = InitKey /\ password = InitPassword
    /\ rotations = 0
    /\ auth = "none"
    /\ conn = 0 /\ alive = {} /\ nConns = 0
    /\ closeCh = 0 /\ closed = {} /\ nChans = 0
    /\ holder = NoHolder
    /\ ka = [k \in KaIds |-> "none"]
    /\ kaCh = [k \in KaIds |-> 0]

-----------------------------------------------------------------------------
(* Connect, run by Main.  A Connect that returns an error ends the bracket. *)

Goto(c, l) == pc' = [pc EXCEPT ![c] = l]

\* Connect returns an error: the caller's bracket is over.
ConnectFails ==
    /\ Goto(Main, "idle")
    /\ brackets' = brackets + 1

StartConnect ==
    /\ pc[Main] = "idle"
    /\ brackets < MaxConnects
    /\ Goto(Main, "validate")
    /\ UNCHANGED <<brackets, key, password, rotations, auth, conn, alive, nConns,
                   closeCh, closed, nChans, holder, ka, kaCh>>

\* Validate reads the credentials without Creds.mu; a username is assumed.
Validate ==
    /\ pc[Main] = "validate"
    /\ IF password = Empty /\ key = Empty
       THEN ConnectFails
       ELSE Goto(Main, "auth") /\ UNCHANGED brackets
    /\ UNCHANGED <<key, password, rotations, auth, conn, alive, nConns,
                   closeCh, closed, nChans, holder, ka, kaCh>>

\* The key takes precedence; the fields are read again, without the lock, so
\* neither may be set any more and auth stays nil.
ChooseAuth ==
    /\ pc[Main] = "auth"
    /\ auth' = CASE key # Empty      -> "key"
               []   password # Empty -> "password"
               []   OTHER            -> "none"
    /\ Goto(Main, "dial")
    /\ UNCHANGED <<brackets, key, password, rotations, conn, alive, nConns,
                   closeCh, closed, nChans, holder, ka, kaCh>>

\* Mutant: dial's result is assigned to client.cryptoClient before err is
\* checked, so a failed dial leaves it nil.
Dial_StoreBeforeCheck ==
    /\ pc[Main] = "dial"
    /\ \/ /\ ConnectFails
          /\ conn' = 0
          /\ UNCHANGED <<alive, nConns>>
       \/ /\ auth = "none"
          /\ Goto(Main, "authPanic")
          /\ UNCHANGED <<brackets, conn, alive, nConns>>
       \/ /\ auth # "none"
          /\ nConns' = nConns + 1
          /\ conn' = nConns + 1
          /\ alive' = alive \cup {nConns + 1}
          /\ Goto(Main, "lock")
          /\ UNCHANGED brackets
    /\ UNCHANGED <<key, password, rotations, auth, closeCh, closed, nChans, holder, ka, kaCh>>

\* dial: the TCP connection and the handshake.  A nil AuthMethod in
\* ClientConfig.Auth makes the handshake call a method on nil: a panic.
Dial ==
    /\ pc[Main] = "dial"
    /\ \/ /\ ConnectFails
          /\ UNCHANGED <<conn, alive, nConns>>
       \/ /\ auth = "none"
          /\ Goto(Main, "authPanic")
          /\ UNCHANGED <<brackets, conn, alive, nConns>>
       \/ /\ auth # "none"
          /\ nConns' = nConns + 1
          /\ conn' = nConns + 1
          /\ alive' = alive \cup {nConns + 1}
          /\ Goto(Main, "lock")
          /\ UNCHANGED brackets
    /\ UNCHANGED <<key, password, rotations, auth, closeCh, closed, nChans, holder, ka, kaCh>>

Lock(c, next) ==
    /\ holder = NoHolder
    /\ holder' = c
    /\ Goto(c, next)

ConnectLock ==
    /\ pc[Main] = "lock"
    /\ Lock(Main, "locked")
    /\ UNCHANGED <<brackets, key, password, rotations, auth, conn, alive, nConns,
                   closeCh, closed, nChans, ka, kaCh>>

\* Under closeMutex: make the channel if it is nil, start keepAlive.
ConnectLocked ==
    /\ pc[Main] = "locked"
    /\ IF closeCh = 0
       THEN closeCh' = nChans + 1 /\ nChans' = nChans + 1
       ELSE UNCHANGED <<closeCh, nChans>>
    /\ IF KeepAlive > 0
       THEN ka' = [ka EXCEPT ![nConns] = "loop"]
       ELSE UNCHANGED ka
    /\ holder' = NoHolder
    /\ Goto(Main, "connected")
    /\ brackets' = brackets + 1
    /\ UNCHANGED <<key, password, rotations, auth, conn, alive, nConns, closed, kaCh>>

-----------------------------------------------------------------------------
(* Disconnect, run by Main after a successful Connect and by the Closers.  *)

\* Disconnect returns to its caller.
DisconnectReturn(c) ==
    IF c = Main THEN Goto(Main, "idle") ELSE Goto(c, "done")

StartDisconnect ==
    /\ pc[Main] = "connected"
    /\ Goto(Main, "dsel")
    /\ UNCHANGED <<brackets, key, password, rotations, auth, conn, alive, nConns,
                   closeCh, closed, nChans, holder, ka, kaCh>>

\* Mutant: a plain receive from client.close, without the default case.
DSelect_Blocking(c) ==
    /\ pc[c] = "dsel"
    /\ closeCh # 0 /\ closeCh \in closed
    /\ DisconnectReturn(c)
    /\ UNCHANGED <<brackets, key, password, rotations, auth, conn, alive, nConns,
                   closeCh, closed, nChans, holder, ka, kaCh>>

\* select { case <-client.close: default: }: client.close is read without
\* the lock; a receive is ready only on a closed channel (nothing is sent).
DSelect(c) ==
    /\ pc[c] = "dsel"
    /\ IF closeCh # 0 /\ closeCh \in closed
       THEN DisconnectReturn(c)
       ELSE Goto(c, "dlock")
    /\ UNCHANGED <<brackets, key, password, rotations, auth, conn, alive, nConns,
                   closeCh, closed, nChans, holder, ka, kaCh>>

DLock(c) ==
    /\ pc[c] = "dlock"
    /\ Lock(c, "dclose")
    /\ UNCHANGED <<brackets, key, password, rotations, auth, conn, alive, nConns,
                   closeCh, closed, nChans, ka, kaCh>>

\* if client.close != nil { close(client.close) ... }; closing a closed
\* channel panics.
DClose(c) ==
    /\ pc[c] = "dclose"
    /\ CASE closeCh = 0 ->
              DisconnectReturn(c) /\ holder' = NoHolder /\ UNCHANGED closed
       []   closeCh \in closed ->
              Goto(c, "closePanic") /\ UNCHANGED <<holder, closed>>
       []   OTHER ->
              Goto(c, "dnil") /\ closed' = closed \cup {closeCh} /\ UNCHANGED holder
    /\ UNCHANGED <<brackets, key, password, rotations, auth, conn, alive, nConns,
                   closeCh, nChans, ka, kaCh>>

\* Mutant: client.close is not reset to nil after close().
DClear_KeepChannel(c) ==
    /\ pc[c] = "dnil"
    /\ holder' = NoHolder
    /\ DisconnectReturn(c)
    /\ UNCHANGED <<brackets, key, password, rotations, auth, conn, alive, nConns,
                   closeCh, closed, nChans, ka, kaCh>>

\* client.close = nil, then the deferred Unlock.
DClear(c) ==
    /\ pc[c] = "dnil"
    /\ closeCh' = 0
    /\ holder' = NoHolder
    /\ DisconnectReturn(c)
    /\ UNCHANGED <<brackets, key, password, rotations, auth, conn, alive, nConns,
                   closed, nChans, ka, kaCh>>

\* Main's last bracket is over.
MainDone ==
    /\ pc[Main] = "idle"
    /\ brackets = MaxConnects
    /\ Goto(Main, "done")
    /\ UNCHANGED <<brackets, key, password, rotations, auth, conn, alive, nConns,
                   closeCh, closed, nChans, holder, ka, kaCh>>

-----------------------------------------------------------------------------
(* The keepAlive goroutine started by the k-th Connect.                    *)

\* Entering the select evaluates client.close, without the lock.
KaSelect(k) ==
    /\ ka[k] = "loop"
    /\ kaCh' = [kaCh EXCEPT ![k] = closeCh]
    /\ ka' = [ka EXCEPT ![k] = "wait"]
    /\ UNCHANGED <<pc, brackets, key, password, rotations, auth, conn, alive, nConns,
                   closeCh, closed, nChans, holder>>

\* case <-t.C: the ticker fires.
KaTick(k) ==
    /\ ka[k] = "wait"
    /\ ka' = [ka EXCEPT ![k] = "send"]
    /\ UNCHANGED <<pc, brackets, key, password, rotations, auth, conn, alive, nConns,
                   closeCh, closed, nChans, holder, kaCh>>

\* case <-client.close: ready once the channel read at the select is closed;
\* a nil channel is never ready.
KaSignal(k) ==
    /\ ka[k] = "wait"
    /\ kaCh[k] \in closed
    /\ ka' = [ka EXCEPT ![k] = "exit"]
    /\ UNCHANGED <<pc, brackets, key, password, rotations, auth, conn, alive, nConns,
                   closeCh, closed, nChans, holder, kaCh>>

\* client.cryptoClient.Conn.SendRequest, the client read now, without the
\* lock: a nil client panics; an error ends the goroutine.
KaSend(k) ==
    /\ ka[k] = "send"
    /\ ka' = [ka EXCEPT ![k] = CASE conn = 0      -> "nilPanic"
                                 []   conn \in alive -> "loop"
                                 []   OTHER         -> "exit"]
    /\ UNCHANGED <<pc, brackets, key, password, rotations, auth, conn, alive, nConns,
                   closeCh, closed, nChans, holder, kaCh>>

-----------------------------------------------------------------------------
(* The credential setters (under Creds.mu, so each is atomic) and the      *)
(* server dropping a connection.                                           *)

SetSSHPrivateKey(s) ==
    /\ rotations < MaxRotations
    /\ key' = s
    /\ rotations' = rotations + 1
    /\ UNCHANGED <<pc, brackets, password, auth, conn, alive, nConns,
                   closeCh, closed, nChans, holder, ka, kaCh>>

SetSSHPassword(s) ==
    /\ rotations < MaxRotations
    /\ password' = s
    /\ rotations' = rotations + 1
    /\ UNCHANGED <<pc, brackets, key, auth, conn, alive, nConns,
                   closeCh, closed, nChans, holder, ka, kaCh>>

ConnDrop(n) ==
    /\ n \in alive
    /\ alive' = alive \ {n}
    /\ UNCHANGED <<pc, brackets, key, password, rotations, auth, conn, nConns,
                   closeCh, closed, nChans, holder, ka, kaCh>>

-----------------------------------------------------------------------------

MainStep ==
    \/ StartConnect \/ Validate \/ ChooseAuth \/ Dial \/ ConnectLock
    \/ ConnectLocked \/ StartDisconnect \/ MainDone

DisconnectStep(c) == DSelect(c) \/ DLock(c) \/ DClose(c) \/ DClear(c)

KeepAliveStep(k) == KaSelect(k) \/ KaTick(k) \/ KaSignal(k) \/ KaSend(k)

Rotate ==
    \/ \E s \in KeyValues : SetSSHPrivateKey(s)
    \/ \E s \in PasswordValues : SetSSHPassword(s)

Next ==
    \/ MainStep
    \/ \E c \in Callers : DisconnectStep(c)
    \/ \E k \in KaIds : KeepAliveStep(k)
    \/ Rotate
    \/ \E n \in 1..MaxConnects : ConnDrop(n)

(***************************************************************************)
(* Fairness: the Go scheduler runs every runnable goroutine, and a         *)
(* goroutine waiting for closeMutex gets it once it stays free; a ticker   *)
(* keeps firing.  Whether a select with both cases ready picks the close   *)
(* case is random, so KaSignal gets only weak fairness.  The server and    *)
(* the rotating caller need not act.                                       *)
(***************************************************************************)
Fairness ==
    /\ WF_vars(MainStep)
    /\ \A c \in Callers : WF_vars(DisconnectStep(c))
    /\ \A k \in KaIds : WF_vars(KaSelect(k)) /\ WF_vars(KaTick(k))
                        /\ WF_vars(KaSignal(k)) /\ WF_vars(KaSend(k))

Spec == Init /\ [][Next]_vars /\ Fairness

-----------------------------------------------------------------------------
(* Properties                                                              *)

(* Disconnect never closes a channel twice (nor a nil one), however many   *)
(* goroutines call it at once: the nil check and the reset under           *)
(* closeMutex in Disconnect must make later calls no-ops.                  *)
NoClosePanic == \A c \in Callers : pc[c] # "closePanic"

(* A keepAlive goroutine, which reads client.cryptoClient without a lock  *)
(* on every tick and may outlive its Disconnect, never finds it nil: a     *)
(* later Connect whose dial fails must leave the earlier client in place.  *)
NoNilClientPanic == \A k \in KaIds : ka[k] # "nilPanic"

(* Every Disconnect call returns: called twice, or after the session is    *)
(* gone, it neither blocks nor panics (the select's default case).         *)
DisconnectReturns ==
    \A c \in Callers : pc[c] \in DisconnectPcs ~> pc[c] \notin DisconnectPcs \cup PanicPcs

(* Once Main has disconnected for good, every keepAlive goroutine ends:   *)
(* the one-shot close signal must reach it.                               *)
KeepAliveStops ==
    pc[Main] = "done" ~> \A k \in KaIds : ka[k] \in {"none", "exit"}

-----------------------------------------------------------------------------
(* The refinement mapping onto CloseSignal.  A Disconnect's effect takes  *)
(* place when it closes the channel under closeMutex: from then until it   *)
(* resets client.close to nil, the session already has no signal.          *)
ClearingClose == \E c \in Callers : pc[c] = "dnil"

Signal == INSTANCE CloseSignal
    WITH sig <- IF ClearingClose THEN 0 ELSE closeCh, shut <- closed,
         made <- nChans, MaxChans <- MaxConnects

(* The session implements CloseSignal: however Main, the other Disconnect *)
(* callers and the keepAlive goroutines interleave, each Connect that     *)
(* finds client.close nil makes a fresh channel, and each channel is      *)
(* closed once, by a Disconnect that then clears it, as if Disconnect     *)
(* were atomic.                                                            *)
SessionImplementsCloseSignal == Signal!Spec
=============================================================================
