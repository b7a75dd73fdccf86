-------------------------- MODULE SshSessionProofs --------------------------
(***************************************************************************)
(* Proofs about SshSession, for every value of the constants that          *)
(* satisfies SessionAssumption: type correctness, and that Disconnect      *)
(* never closes a closed channel however the goroutines interleave.        *)
(***************************************************************************)
EXTENDS SshSession, TLAPS

USE SessionAssumption

-----------------------------------------------------------------------------
(* Type correctness.  The bounds on the counters of connections and        *)
(* channels need the number of brackets Main has started: a dial happens   *)
(* only in a bracket that has not finished, and each successful one ends   *)
(* its bracket under closeMutex.                                           *)

Counting ==
    /\ pc[Main] \in ConnectPcs => brackets < MaxConnects
    /\ nConns <= brackets + (IF pc[Main] \in {"lock", "locked"} THEN 1 ELSE 0)
    /\ nChans <= brackets

TypeInv == TypeOK /\ Counting

LEMMA InitTypeInv == Init => TypeInv
BY DEF Init, TypeInv, TypeOK, Counting, PcStates, KaStates, Callers, Creds, KaIds,
       DisconnectPcs, PanicPcs,
       ConnectPcs

LEMMA MainTypeInv ==
    ASSUME TypeInv, MainStep
    PROVE  TypeInv'
<1> USE DEF TypeInv, TypeOK, Counting, Goto, PcStates, ConnectPcs, DisconnectPcs,
            PanicPcs, Callers
<1>1. CASE StartConnect
  BY <1>1 DEF StartConnect
<1>2. CASE Validate
  <2>1. CASE password = Empty /\ key = Empty
    BY <1>2, <2>1 DEF Validate, ConnectFails
  <2>2. CASE ~(password = Empty /\ key = Empty)
    BY <1>2, <2>2 DEF Validate
  <2>3. QED
    BY <2>1, <2>2
<1>3. CASE ChooseAuth
  BY <1>3 DEF ChooseAuth
<1>4. CASE Dial
  <2>1. brackets < MaxConnects /\ nConns <= brackets
    BY <1>4 DEF Dial
  <2>2. CASE ConnectFails /\ UNCHANGED <<conn, alive, nConns>>
    BY <1>4, <2>1, <2>2 DEF Dial, ConnectFails
  <2>3. CASE auth = "none" /\ Goto(Main, "authPanic")
                          /\ UNCHANGED <<brackets, conn, alive, nConns>>
    BY <1>4, <2>1, <2>3 DEF Dial
  <2>4. CASE /\ auth # "none"
             /\ nConns' = nConns + 1
             /\ conn' = nConns + 1
             /\ alive' = alive \cup {nConns + 1}
             /\ Goto(Main, "lock")
             /\ UNCHANGED brackets
    BY <1>4, <2>1, <2>4 DEF Dial
  <2>5. QED
    BY <1>4, <2>2, <2>3, <2>4 DEF Dial
<1>5. CASE ConnectLock
  BY <1>5 DEF ConnectLock, Lock
<1>6. CASE ConnectLocked
  <2>1. ka' \in {ka, [ka EXCEPT ![nConns] = "loop"]}
    BY <1>6 DEF ConnectLocked
  <2>2. [ka EXCEPT ![nConns] = "loop"] \in [KaIds -> KaStates]
    BY DEF KaStates
  <2>3. ka' \in [KaIds -> KaStates]
    BY <2>1, <2>2
  <2>4. closeCh' \in 0..nChans' /\ nChans' <= brackets + 1 /\ nChans' \in 0..MaxConnects
    BY <1>6 DEF ConnectLocked
  <2>5. QED
    BY <1>6, <2>3, <2>4 DEF ConnectLocked
<1>7. CASE StartDisconnect
  BY <1>7 DEF StartDisconnect
<1>8. CASE MainDone
  BY <1>8 DEF MainDone
<1>9. QED
  BY <1>1, <1>2, <1>3, <1>4, <1>5, <1>6, <1>7, <1>8 DEF MainStep

LEMMA DisconnectTypeInv ==
    ASSUME TypeInv, NEW c \in Callers, DisconnectStep(c)
    PROVE  TypeInv'
<1> USE DEF TypeInv, TypeOK, Counting, Goto, PcStates, ConnectPcs, DisconnectPcs,
            PanicPcs, Callers, DisconnectReturn
<1>1. CASE DSelect(c)
  BY <1>1 DEF DSelect
<1>2. CASE DLock(c)
  BY <1>2 DEF DLock, Lock
<1>3. CASE DClose(c)
  <2>1. CASE closeCh = 0
    BY <1>3, <2>1 DEF DClose
  <2>2. CASE closeCh # 0 /\ closeCh \in closed
    BY <1>3, <2>2 DEF DClose
  <2>3. CASE closeCh # 0 /\ closeCh \notin closed
    BY <1>3, <2>3 DEF DClose
  <2>4. QED
    BY <2>1, <2>2, <2>3
<1>4. CASE DClear(c)
  BY <1>4 DEF DClear
<1>5. QED
  BY <1>1, <1>2, <1>3, <1>4 DEF DisconnectStep

LEMMA KeepAliveTypeInv ==
    ASSUME TypeInv, NEW k \in KaIds, KeepAliveStep(k)
    PROVE  TypeInv'
<1> USE DEF TypeInv, TypeOK, Counting, KaStates
<1>1. CASE KaSelect(k)
  BY <1>1 DEF KaSelect
<1>2. CASE KaTick(k)
  BY <1>2 DEF KaTick
<1>3. CASE KaSignal(k)
  BY <1>3 DEF KaSignal
<1>4. CASE KaSend(k)
  BY <1>4 DEF KaSend
<1>5. QED
  BY <1>1, <1>2, <1>3, <1>4 DEF KeepAliveStep

LEMMA EnvTypeInv ==
    ASSUME TypeInv, Rotate \/ \E n \in 1..MaxConnects : ConnDrop(n)
    PROVE  TypeInv'
<1> USE DEF TypeInv, TypeOK, Counting
<1>1. CASE \E s \in KeyValues : SetSSHPrivateKey(s)
  BY <1>1 DEF SetSSHPrivateKey, Creds
<1>2. CASE \E s \in PasswordValues : SetSSHPassword(s)
  BY <1>2 DEF SetSSHPassword, Creds
<1>3. CASE \E n \in 1..MaxConnects : ConnDrop(n)
  BY <1>3 DEF ConnDrop
<1>4. QED
  BY <1>1, <1>2, <1>3 DEF Rotate

LEMMA NextTypeInv == TypeInv /\ [Next]_vars => TypeInv'
<1> SUFFICES ASSUME TypeInv, [Next]_vars PROVE TypeInv'
  OBVIOUS
<1>1. CASE MainStep
  BY <1>1, MainTypeInv
<1>2. CASE \E c \in Callers : DisconnectStep(c)
  BY <1>2, DisconnectTypeInv
<1>3. CASE \E k \in KaIds : KeepAliveStep(k)
  BY <1>3, KeepAliveTypeInv
<1>4. CASE Rotate \/ \E n \in 1..MaxConnects : ConnDrop(n)
  BY <1>4, EnvTypeInv
<1>5. CASE UNCHANGED vars
  BY <1>5 DEF vars, TypeInv, TypeOK, Counting
<1>6. QED
  BY <1>1, <1>2, <1>3, <1>4, <1>5 DEF Next

(* Every reachable state of the session is well typed: the connection and *)
(* channel counters stay within MaxConnects, and closeMutex is free or     *)
(* held by one of the calling goroutines.                                  *)
THEOREM TypeCorrect == Spec => []TypeOK
<1>1. Spec => []TypeInv
  BY InitTypeInv, NextTypeInv, PTL DEF Spec
<1>2. QED
  BY <1>1, PTL DEF TypeInv

-----------------------------------------------------------------------------
(* NoClosePanic.  It is not inductive: a Disconnect about to close the      *)
(* channel must know that no one closed it before.  Two facts give that:   *)
(* closeMutex is held by whoever is in its critical section, and a closed  *)
(* channel is still in client.close only while the goroutine that closed   *)
(* it, holding the lock, has yet to reset the field to nil.                *)

LockPcs == {"locked", "dclose", "dnil"}

LockHeld == \A c \in Callers : pc[c] \in LockPcs => holder = c

ClosedWhileClearing ==
    closeCh # 0 /\ closeCh \in closed => \E c \in Callers : pc[c] = "dnil"

IInv == TypeInv /\ LockHeld /\ ClosedWhileClearing /\ NoClosePanic

LEMMA InitIInv == Init => IInv
BY InitTypeInv DEF Init, IInv, LockHeld, ClosedWhileClearing, NoClosePanic, LockPcs

\* Only one goroutine is in closeMutex's critical section.
LEMMA LockUnique ==
    ASSUME TypeInv, LockHeld, NEW c \in Callers, NEW d \in Callers,
           pc[c] \in LockPcs, pc[d] \in LockPcs
    PROVE  c = d
BY DEF LockHeld

LEMMA MainIInv ==
    ASSUME IInv, MainStep
    PROVE  IInv'
<1> USE DEF IInv, LockHeld, ClosedWhileClearing, NoClosePanic, LockPcs, Goto
<1>1. TypeInv'
  BY MainTypeInv
<1>2. Main \in Callers /\ pc \in [Callers -> PcStates]
  BY DEF TypeInv, TypeOK, Callers
<1>3. CASE StartConnect \/ Validate \/ ChooseAuth \/ Dial \/ StartDisconnect \/ MainDone
  <2>1. pc[Main] \notin LockPcs \cup {"dnil"} /\ pc'[Main] \notin LockPcs \cup {"dnil", "closePanic"}
    BY <1>2, <1>3 DEF StartConnect, Validate, ChooseAuth, Dial, StartDisconnect,
                      MainDone, ConnectFails
  <2>2. \A c \in Callers \ {Main} : pc'[c] = pc[c]
    BY <1>2, <1>3 DEF StartConnect, Validate, ChooseAuth, Dial, StartDisconnect,
                      MainDone, ConnectFails
  <2>3. UNCHANGED <<holder, closeCh, closed>>
    BY <1>3 DEF StartConnect, Validate, ChooseAuth, Dial, StartDisconnect, MainDone
  <2>4. QED
    BY <1>1, <1>2, <2>1, <2>2, <2>3
<1>4. CASE ConnectLock
  <2>1. holder = NoHolder /\ holder' = Main /\ pc' = [pc EXCEPT ![Main] = "locked"]
    BY <1>4 DEF ConnectLock, Lock
  <2>2. \A c \in Callers : pc[c] \notin LockPcs
    BY <2>1, SessionAssumption
  <2>3. UNCHANGED <<closeCh, closed>>
    BY <1>4 DEF ConnectLock
  <2>4. pc[Main] = "lock"
    BY <1>4 DEF ConnectLock
  <2>5. QED
    BY <1>1, <1>2, <2>1, <2>2, <2>3, <2>4
<1>5. CASE ConnectLocked
  <2>1. pc[Main] = "locked" /\ holder = Main
    BY <1>2, <1>5 DEF ConnectLocked
  <2>2. \A c \in Callers \ {Main} : pc[c] \notin LockPcs
    BY <2>1, LockUnique DEF IInv
  <2>3. pc' = [pc EXCEPT ![Main] = "connected"] /\ holder' = NoHolder /\ UNCHANGED closed
    BY <1>5 DEF ConnectLocked
  <2>4. ~(closeCh' # 0 /\ closeCh' \in closed')
    <3>1. CASE closeCh = 0
      BY <1>5, <2>3, <3>1 DEF ConnectLocked, TypeInv, TypeOK
    <3>2. CASE closeCh # 0
      BY <1>2, <1>5, <2>1, <2>2, <2>3, <3>2 DEF ConnectLocked
    <3>3. QED
      BY <3>1, <3>2
  <2>5. QED
    BY <1>1, <1>2, <2>2, <2>3, <2>4
<1>6. QED
  BY <1>3, <1>4, <1>5 DEF MainStep

LEMMA DisconnectIInv ==
    ASSUME IInv, NEW c \in Callers, DisconnectStep(c)
    PROVE  IInv'
<1> USE DEF IInv, LockHeld, ClosedWhileClearing, NoClosePanic, LockPcs, Goto,
            DisconnectReturn
<1>1. TypeInv'
  BY DisconnectTypeInv
<1>2. pc \in [Callers -> PcStates] /\ Main \in Callers
  BY DEF TypeInv, TypeOK, Callers
<1>3. CASE DSelect(c)
  <2>1. pc[c] = "dsel" /\ pc' \in {[pc EXCEPT ![c] = "dlock"], [pc EXCEPT ![c] = "idle"],
                                   [pc EXCEPT ![c] = "done"]}
    BY <1>3 DEF DSelect
  <2>2. UNCHANGED <<holder, closeCh, closed>>
    BY <1>3 DEF DSelect
  <2>3. QED
    BY <1>1, <1>2, <2>1, <2>2
<1>4. CASE DLock(c)
  <2>1. holder = NoHolder /\ holder' = c /\ pc' = [pc EXCEPT ![c] = "dclose"]
    BY <1>4 DEF DLock, Lock
  <2>2. \A d \in Callers : pc[d] \notin LockPcs
    BY <2>1, SessionAssumption
  <2>3. UNCHANGED <<closeCh, closed>> /\ pc[c] = "dlock"
    BY <1>4 DEF DLock
  <2>4. QED
    BY <1>1, <1>2, <2>1, <2>2, <2>3
<1>5. CASE DClose(c)
  <2>1. pc[c] = "dclose" /\ holder = c
    BY <1>5 DEF DClose
  <2>2. \A d \in Callers \ {c} : pc[d] \notin LockPcs
    BY <2>1, LockUnique DEF IInv
  <2>3. UNCHANGED closeCh
    BY <1>5 DEF DClose
  <2>4. CASE closeCh = 0
    <3>0. closeCh \notin closed
      BY <2>4 DEF IInv, TypeInv, TypeOK
    <3>1. holder' = NoHolder /\ UNCHANGED closed
          /\ pc' \in {[pc EXCEPT ![c] = "idle"], [pc EXCEPT ![c] = "done"]}
      BY <1>5, <2>4, <3>0 DEF DClose
    <3>2. QED
      BY <1>1, <1>2, <2>1, <2>2, <2>3, <2>4, <3>1
  <2>5. CASE closeCh # 0 /\ closeCh \in closed
    <3>1. PICK d \in Callers : pc[d] = "dnil"
      BY <2>5
    <3>2. d = c
      BY <2>1, <3>1, LockUnique DEF IInv
    <3>3. QED
      BY <2>1, <3>1, <3>2
  <2>6. CASE closeCh # 0 /\ closeCh \notin closed
    <3>1. pc' = [pc EXCEPT ![c] = "dnil"] /\ closed' = closed \cup {closeCh}
          /\ UNCHANGED holder
      BY <1>5, <2>6 DEF DClose
    <3>2. QED
      BY <1>1, <1>2, <2>1, <2>2, <2>3, <3>1
  <2>7. QED
    BY <2>4, <2>5, <2>6
<1>6. CASE DClear(c)
  <2>1. pc[c] = "dnil" /\ holder = c
    BY <1>6 DEF DClear
  <2>2. \A d \in Callers \ {c} : pc[d] \notin LockPcs
    BY <2>1, LockUnique DEF IInv
  <2>3. /\ closeCh' = 0 /\ holder' = NoHolder /\ UNCHANGED closed
        /\ pc' \in {[pc EXCEPT ![c] = "idle"], [pc EXCEPT ![c] = "done"]}
    BY <1>6 DEF DClear
  <2>4. QED
    BY <1>1, <1>2, <2>1, <2>2, <2>3
<1>7. QED
  BY <1>3, <1>4, <1>5, <1>6 DEF DisconnectStep

\* The keepAlive goroutines, the setters and the server leave the program
\* counters, the lock and the channel alone.
LEMMA OtherIInv ==
    ASSUME IInv,
           \/ \E k \in KaIds : KeepAliveStep(k)
           \/ Rotate \/ \E n \in 1..MaxConnects : ConnDrop(n)
    PROVE  IInv'
<1>1. TypeInv'
  BY KeepAliveTypeInv, EnvTypeInv DEF IInv
<1>2. UNCHANGED <<pc, holder, closeCh, closed>>
  BY DEF KeepAliveStep, KaSelect, KaTick, KaSignal, KaSend, Rotate, SetSSHPrivateKey,
         SetSSHPassword, ConnDrop
<1>3. QED
  BY <1>1, <1>2 DEF IInv, LockHeld, ClosedWhileClearing, NoClosePanic

LEMMA NextIInv == IInv /\ [Next]_vars => IInv'
<1> SUFFICES ASSUME IInv, [Next]_vars PROVE IInv'
  OBVIOUS
<1>1. CASE MainStep
  BY <1>1, MainIInv
<1>2. CASE \E c \in Callers : DisconnectStep(c)
  BY <1>2, DisconnectIInv
<1>3. CASE \/ \E k \in KaIds : KeepAliveStep(k)
           \/ Rotate \/ \E n \in 1..MaxConnects : ConnDrop(n)
  BY <1>3, OtherIInv
<1>4. CASE UNCHANGED vars
  BY <1>4 DEF vars, IInv, TypeInv, TypeOK, Counting, LockHeld, ClosedWhileClearing,
              NoClosePanic
<1>5. QED
  BY <1>1, <1>2, <1>3, <1>4 DEF Next

(* Disconnect never closes a closed or nil channel, whatever Main, the     *)
(* other Disconnect callers, the keepAlive goroutines, the credential      *)
(* setters and the server do, and however many brackets Main runs.        *)
THEOREM NoClosePanicInvariant == Spec => []NoClosePanic
<1>1. Spec => []IInv
  BY InitIInv, NextIInv, PTL DEF Spec
<1>2. QED
  BY <1>1, PTL DEF IInv
-----------------------------------------------------------------------------
(* The refinement of CloseSignal rests on the same invariant: the lock    *)
(* holder is the only goroutine in the critical section, so when          *)
(* ConnectLocked makes a channel or DClose closes one, nobody is between   *)
(* close() and the reset to nil.                                           *)

(* A step that keeps who is about to reset client.close, the channel, the  *)
(* closed channels and the channel count is a stutter of CloseSignal.      *)
LEMMA SignalStutter ==
    ASSUME \A d \in Callers : pc'[d] = "dnil" <=> pc[d] = "dnil",
           UNCHANGED <<closeCh, closed, nChans>>
    PROVE  UNCHANGED Signal!svars
BY DEF Signal!svars, ClearingClose

(* Inside closeMutex's critical section nobody else is clearing. *)
LEMMA HolderAlone ==
    ASSUME IInv, NEW c \in Callers, pc[c] \in LockPcs, pc[c] # "dnil"
    PROVE  ~ClearingClose
BY LockUnique DEF ClearingClose, IInv, LockPcs

LEMMA InitSignal == Init => Signal!Init
BY SessionAssumption DEF Init, Signal!Init, ClearingClose, Callers

LEMMA MainSignal ==
    ASSUME IInv, MainStep
    PROVE  [Signal!Next]_Signal!svars
<1>1. Main \in Callers /\ pc \in [Callers -> PcStates]
  BY DEF IInv, TypeInv, TypeOK, Callers
<1>2. CASE StartConnect \/ Validate \/ ChooseAuth \/ Dial \/ ConnectLock
           \/ StartDisconnect \/ MainDone
  <2>1. pc[Main] # "dnil" /\ pc'[Main] # "dnil"
    BY <1>1, <1>2 DEF StartConnect, Validate, ChooseAuth, Dial, ConnectLock, Lock,
                      StartDisconnect, MainDone, ConnectFails, Goto
  <2>2. \A d \in Callers \ {Main} : pc'[d] = pc[d]
    BY <1>1, <1>2 DEF StartConnect, Validate, ChooseAuth, Dial, ConnectLock, Lock,
                      StartDisconnect, MainDone, ConnectFails, Goto
  <2>3. UNCHANGED <<closeCh, closed, nChans>>
    BY <1>2 DEF StartConnect, Validate, ChooseAuth, Dial, ConnectLock,
                StartDisconnect, MainDone
  <2>4. QED
    BY <2>1, <2>2, <2>3, SignalStutter
<1>3. CASE ConnectLocked
  <2>1. pc[Main] = "locked" /\ pc' = [pc EXCEPT ![Main] = "connected"]
    BY <1>3 DEF ConnectLocked, Goto
  <2>2. ~ClearingClose
    BY <1>1, <2>1, HolderAlone DEF LockPcs
  <2>3. ~ClearingClose'
    BY <1>1, <2>1, <2>2 DEF ClearingClose
  <2>4. UNCHANGED closed
    BY <1>3 DEF ConnectLocked
  <2>5. CASE closeCh = 0
    <3>1. closeCh' = nChans + 1 /\ nChans' = nChans + 1
      BY <1>3, <2>5 DEF ConnectLocked
    <3>2. nChans < MaxConnects
      BY <2>1 DEF IInv, TypeInv, TypeOK, Counting, ConnectPcs
    <3>3. Signal!Open
      BY <2>2, <2>3, <2>4, <2>5, <3>1, <3>2 DEF Signal!Open
    <3>4. QED
      BY <3>3 DEF Signal!Next
  <2>6. CASE closeCh # 0
    <3>1. UNCHANGED <<closeCh, nChans>>
      BY <1>3, <2>6 DEF ConnectLocked
    <3>2. QED
      BY <2>2, <2>3, <2>4, <3>1 DEF Signal!svars
  <2>7. QED
    BY <2>5, <2>6
<1>4. QED
  BY <1>2, <1>3 DEF MainStep

LEMMA DisconnectSignal ==
    ASSUME IInv, NEW c \in Callers, DisconnectStep(c)
    PROVE  [Signal!Next]_Signal!svars
<1> USE DEF Goto, DisconnectReturn
<1>1. pc \in [Callers -> PcStates] /\ Main \in Callers
  BY DEF IInv, TypeInv, TypeOK, Callers
<1>2. CASE DSelect(c) \/ DLock(c)
  <2>1. pc[c] \in {"dsel", "dlock"}
        /\ pc' \in {[pc EXCEPT ![c] = "dlock"], [pc EXCEPT ![c] = "dclose"],
                    [pc EXCEPT ![c] = "idle"], [pc EXCEPT ![c] = "done"]}
    BY <1>2 DEF DSelect, DLock, Lock
  <2>2. UNCHANGED <<closeCh, closed, nChans>>
    BY <1>2 DEF DSelect, DLock
  <2>3. QED
    BY <1>1, <2>1, <2>2, SignalStutter
<1>3. CASE DClose(c)
  <2>1. pc[c] = "dclose" /\ UNCHANGED <<closeCh, nChans>>
    BY <1>3 DEF DClose
  <2>2. ~ClearingClose
    BY <1>1, <2>1, HolderAlone DEF LockPcs
  <2>3. CASE closeCh = 0
    <3>0. closeCh \notin closed
      BY <2>3 DEF IInv, TypeInv, TypeOK
    <3>1. pc' \in {[pc EXCEPT ![c] = "idle"], [pc EXCEPT ![c] = "done"]}
          /\ UNCHANGED closed
      BY <1>3, <2>3, <3>0 DEF DClose
    <3>2. QED
      BY <1>1, <2>1, <3>1, SignalStutter
  <2>4. CASE closeCh # 0 /\ closeCh \in closed
    BY <2>2, <2>4 DEF IInv, ClosedWhileClearing, ClearingClose
  <2>5. CASE closeCh # 0 /\ closeCh \notin closed
    <3>1. pc' = [pc EXCEPT ![c] = "dnil"] /\ closed' = closed \cup {closeCh}
      BY <1>3, <2>5 DEF DClose
    <3>2. ClearingClose'
      BY <1>1, <3>1 DEF ClearingClose
    <3>3. Signal!Close
      BY <2>1, <2>2, <2>5, <3>1, <3>2 DEF Signal!Close
    <3>4. QED
      BY <3>3 DEF Signal!Next
  <2>6. QED
    BY <2>3, <2>4, <2>5
<1>4. CASE DClear(c)
  <2>1. pc[c] = "dnil" /\ closeCh' = 0 /\ UNCHANGED <<closed, nChans>>
        /\ pc' \in {[pc EXCEPT ![c] = "idle"], [pc EXCEPT ![c] = "done"]}
    BY <1>4 DEF DClear
  <2>2. \A d \in Callers \ {c} : pc[d] # "dnil"
    BY <2>1, LockUnique DEF IInv, LockPcs
  <2>3. ClearingClose /\ ~ClearingClose'
    BY <1>1, <2>1, <2>2 DEF ClearingClose
  <2>4. QED
    BY <2>1, <2>3 DEF Signal!svars
<1>5. QED
  BY <1>2, <1>3, <1>4 DEF DisconnectStep

LEMMA NextSignal == IInv /\ [Next]_vars => [Signal!Next]_Signal!svars
<1> SUFFICES ASSUME IInv, [Next]_vars PROVE [Signal!Next]_Signal!svars
  OBVIOUS
<1>1. CASE MainStep
  BY <1>1, MainSignal
<1>2. CASE \E c \in Callers : DisconnectStep(c)
  BY <1>2, DisconnectSignal
<1>3. CASE \/ \E k \in KaIds : KeepAliveStep(k)
           \/ Rotate \/ \E n \in 1..MaxConnects : ConnDrop(n)
  <2>1. UNCHANGED <<pc, closeCh, closed, nChans>>
    BY <1>3 DEF KeepAliveStep, KaSelect, KaTick, KaSignal, KaSend, Rotate,
                SetSSHPrivateKey, SetSSHPassword, ConnDrop
  <2>2. QED
    BY <2>1, SignalStutter
<1>4. CASE UNCHANGED vars
  BY <1>4, SignalStutter DEF vars
<1>5. QED
  BY <1>1, <1>2, <1>3, <1>4 DEF Next

(* For every number of brackets, of concurrent Disconnect callers and of  *)
(* keepAlive goroutines, the session implements CloseSignal: each channel *)
(* client.close holds is made fresh by a Connect that found none, closed  *)
(* once, and dropped by the Disconnect that closed it, which takes effect *)
(* as a single step at close().                                            *)
THEOREM SessionRefinesCloseSignal == Spec => SessionImplementsCloseSignal
<1>1. Spec => []IInv
  BY InitIInv, NextIInv, PTL DEF Spec
<1>2. QED
  BY <1>1, InitSignal, NextSignal, PTL
     DEF Spec, SessionImplementsCloseSignal, Signal!Spec

-----------------------------------------------------------------------------
(* NoNilClientPanic.  client.cryptoClient is set only from a successful    *)
(* dial and never reset, so it is non-nil from the first successful dial  *)
(* on: while Main is in closeMutex after it, and for every keepAlive       *)
(* goroutine, which Main starts there.                                     *)
ClientSet ==
    /\ pc[Main] \in {"lock", "locked"} => conn # 0
    /\ \A k \in KaIds : ka[k] # "none" => conn # 0
    /\ NoNilClientPanic

LEMMA InitClientSet == Init => ClientSet
BY DEF Init, ClientSet, NoNilClientPanic, Callers

\* Main's steps: only a successful dial writes cryptoClient, and only the
\* section under closeMutex starts a keepAlive goroutine.
LEMMA MainClientSet ==
    ASSUME TypeInv, ClientSet, MainStep
    PROVE  ClientSet'
<1> USE DEF TypeInv, TypeOK, Goto, Callers
<1>1. CASE Dial
  <2>1. CASE ConnectFails /\ UNCHANGED <<conn, alive, nConns>>
    BY <1>1, <2>1 DEF Dial, ConnectFails, ClientSet, NoNilClientPanic
  <2>2. CASE auth = "none" /\ Goto(Main, "authPanic")
                          /\ UNCHANGED <<brackets, conn, alive, nConns>>
    BY <1>1, <2>2 DEF Dial, ClientSet, NoNilClientPanic
  <2>3. CASE auth # "none" /\ conn' = nConns + 1
    BY <1>1, <2>3 DEF Dial, ClientSet, NoNilClientPanic
  <2>4. QED
    BY <1>1, <2>1, <2>2, <2>3 DEF Dial
<1>2. CASE ConnectLocked
  <2>1. conn # 0
    BY <1>2 DEF ConnectLocked, ClientSet
  <2>2. \A k \in KaIds : ka'[k] # "nilPanic"
    BY <1>2 DEF ConnectLocked, ClientSet, NoNilClientPanic
  <2>3. QED
    BY <1>2, <2>1, <2>2 DEF ConnectLocked, ClientSet, NoNilClientPanic
<1>3. CASE StartConnect \/ Validate \/ ChooseAuth \/ ConnectLock \/ StartDisconnect
           \/ MainDone
  <2>1. UNCHANGED <<conn, ka>>
    BY <1>3 DEF StartConnect, Validate, ChooseAuth, ConnectLock, StartDisconnect,
                MainDone
  <2>2. pc'[Main] \in {"lock", "locked"} => pc[Main] = "lock"
    BY <1>3 DEF StartConnect, Validate, ConnectFails, ChooseAuth, ConnectLock, Lock,
                StartDisconnect, MainDone
  <2>3. QED
    BY <2>1, <2>2 DEF ClientSet, NoNilClientPanic
<1>4. QED
  BY <1>1, <1>2, <1>3 DEF MainStep

\* A Disconnect, by Main or another goroutine, ends away from closeMutex's
\* Connect section and touches neither the client nor keepAlive.
LEMMA DisconnectClientSet ==
    ASSUME TypeInv, ClientSet, NEW c \in Callers, DisconnectStep(c)
    PROVE  ClientSet'
<1>1. UNCHANGED <<conn, ka>>
  BY DEF DisconnectStep, DSelect, DLock, Lock, DClose, DClear
<1>2. pc'[Main] \in {"lock", "locked"} => pc[Main] \in {"lock", "locked"}
  BY DEF DisconnectStep, DSelect, DLock, Lock, DClose, DClear, DisconnectReturn, Goto,
         TypeInv, TypeOK, Callers
<1>3. QED
  BY <1>1, <1>2 DEF ClientSet, NoNilClientPanic

\* A keepAlive goroutine runs only after a successful dial, so its
\* SendRequest finds a client.
LEMMA KeepAliveClientSet ==
    ASSUME TypeInv, ClientSet, NEW k \in KaIds, KeepAliveStep(k)
    PROVE  ClientSet'
<1>1. UNCHANGED <<pc, conn>> /\ ka[k] # "none"
  BY DEF KeepAliveStep, KaSelect, KaTick, KaSignal, KaSend
<1>2. conn # 0
  BY <1>1 DEF ClientSet
<1>3. \A j \in KaIds : ka'[j] \in {ka[j], "loop", "wait", "send", "exit"}
  <2>1. CASE KaSend(k)
    BY <1>2, <2>1 DEF KaSend, TypeInv, TypeOK
  <2>2. CASE KaSelect(k) \/ KaTick(k) \/ KaSignal(k)
    BY <2>2 DEF KaSelect, KaTick, KaSignal, TypeInv, TypeOK
  <2>3. QED
    BY <2>1, <2>2 DEF KeepAliveStep
<1>4. QED
  BY <1>1, <1>2, <1>3 DEF ClientSet, NoNilClientPanic

LEMMA NextClientSet == TypeInv /\ ClientSet /\ [Next]_vars => ClientSet'
<1> SUFFICES ASSUME TypeInv, ClientSet, [Next]_vars PROVE ClientSet'
  OBVIOUS
<1>1. CASE MainStep
  BY <1>1, MainClientSet
<1>2. CASE \E c \in Callers : DisconnectStep(c)
  BY <1>2, DisconnectClientSet
<1>3. CASE \E k \in KaIds : KeepAliveStep(k)
  BY <1>3, KeepAliveClientSet
<1>4. CASE Rotate \/ \E n \in 1..MaxConnects : ConnDrop(n)
  BY <1>4 DEF Rotate, SetSSHPrivateKey, SetSSHPassword, ConnDrop, ClientSet,
              NoNilClientPanic
<1>5. CASE UNCHANGED vars
  BY <1>5 DEF vars, ClientSet, NoNilClientPanic
<1>6. QED
  BY <1>1, <1>2, <1>3, <1>4, <1>5 DEF Next

(* No keepAlive goroutine dereferences a nil client.cryptoClient, however  *)
(* many brackets Main runs, whatever their dials return, and however long  *)
(* a keepAlive goroutine outlives its Disconnect.                          *)
THEOREM NoNilClientPanicInvariant == Spec => []NoNilClientPanic
<1>1. Spec => [](TypeInv /\ ClientSet)
  BY InitTypeInv, NextTypeInv, InitClientSet, NextClientSet, PTL DEF Spec
<1>2. QED
  BY <1>1, PTL DEF ClientSet
=============================================================================
