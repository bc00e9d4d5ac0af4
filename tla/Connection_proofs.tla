-------------------------- MODULE Connection_proofs --------------------------
(***************************************************************************)
(* The safety of the connecting side, for any number of sockets, with a    *)
(* server that comes and goes freely; and that of a client and a server    *)
(* together, for any number of net.Sockets, net.Servers and halves of      *)
(* packets: what the connecting side does is IpcSocket, so its invariant   *)
(* is the one proved for that; the servers, what they accept, and the      *)
(* decoders are added.                                                     *)
(***************************************************************************)
EXTENDS Connection, FiniteSetTheorems, TLAPS

(***************************************************************************)
(* The inductive invariant of IpcSocket, for a program that calls connect  *)
(* at the start and when the 'error' of _onSocketError has told it that    *)
(* IpcSocket gave up.                                                      *)
(***************************************************************************)

(* The program does not call connect while IpcSocket tries on its own, or  *)
(* is connected: it does not take the 'error' that a decoder emits with    *)
(* whatever it is given ("invalid") for that of _onSocketError.            *)
Careful == ConnectsOn \subseteq {"start", "error"}

(* What sockets become: with the listeners of a connection, as this was    *)
(* when it broke, or as an attempt was when it failed.                     *)
Served == [state |-> "connected", onError |-> FALSE, onConnect |-> FALSE,
           guarded |-> ProgramListens, onData |-> 1, onClose |-> 1]
Broken == [Served EXCEPT !.state = "failed"]
Refused == [Free EXCEPT !.state = "failed"]

(* The socket that is tried, is in use, or will reconnect when it closes.  *)
Busy == {s \in Sockets : socket[s] \in {Connecting, Served, Broken}}

SocketForms == \A s \in Sockets : socket[s] \in {Free, Connecting, Served, Broken, Refused}

OneBusy ==
  /\ \A s, t \in Busy : s = t
  /\ timers \in {0, 1}
  /\ timers = 1 => Busy = {}

BusyIsCurrent == \A s \in Sockets : socket[s] \in {Connecting, Served} => s = current

(* The program may connect only when nothing goes on, and when nothing     *)
(* goes on it may.                                                         *)
ProgramsTurn ==
  /\ ~answered /\ event \in {"start", "error"} => Busy = {} /\ timers = 0
  /\ Busy = {} /\ timers = 0 => event \in {"start", "error"}

(* Attempts are counted from the first connection on, and only between     *)
(* connections.                                                            *)
CountsLostConnections ==
  /\ ~connectedOnce =>
       numReconnects = 0 /\ \A s \in Sockets : socket[s] \notin {Served, Broken}
  /\ connectedOnce /\ (\A s \in Sockets : socket[s] \notin {Served, Broken}) =>
       numReconnects > 0

Sound ==
  /\ SocketForms
  /\ OneBusy
  /\ BusyIsCurrent
  /\ ProgramsTurn
  /\ CountsLostConnections

IInv == TypeOK /\ Sound

(* The five forms are told apart by their fields.                          *)
LEMMA Forms ==
  /\ Free.state = "free" /\ Free.onClose = 0
  /\ Free.onConnect = FALSE /\ Free.onError = FALSE
  /\ Connecting.state = "connecting" /\ Connecting.onClose = 0 /\ Connecting.onData = 0
  /\ Connecting.onConnect = TRUE /\ Connecting.onError = TRUE
  /\ Connecting.guarded = FALSE
  /\ Served.state = "connected" /\ Served.onClose = 1 /\ Served.onData = 1
  /\ Served.onError = FALSE /\ Served.onConnect = FALSE
  /\ Served.guarded = ProgramListens
  /\ Broken.state = "failed" /\ Broken.onClose = 1
  /\ Refused.state = "failed" /\ Refused.onClose = 0 /\ Refused.onData = 0
  /\ Refused.onError = FALSE /\ Refused.onConnect = FALSE
  /\ Refused.guarded = FALSE
BY DEF Free, Connecting, Served, Broken, Refused

(***************************************************************************)
(* Types                                                                   *)
(***************************************************************************)

(* Every record a socket can be is one of the type. *)
SocketRecord ==
  [state : {"free", "connecting", "connected", "failed"},
   onError : BOOLEAN, onConnect : BOOLEAN, guarded : BOOLEAN,
   onData : Nat, onClose : Nat]

(* The forms of a socket are records of its fields.                        *)
LEMMA FormTypes ==
  /\ Free \in SocketRecord
  /\ Connecting \in SocketRecord
  /\ Served \in SocketRecord
  /\ Refused \in SocketRecord
BY IpcSocketAssumption DEF Free, Connecting, Served, Refused, SocketRecord

(* A connecting socket has fields like any other.                          *)
LEMMA ConnectingIsRecord == Connecting \in SocketRecord
BY FormTypes

(* Sockets with the same fields are the same.                              *)
LEMMA SameFields ==
  ASSUME NEW r \in SocketRecord, NEW q \in SocketRecord,
         r.state = q.state, r.onError = q.onError, r.onConnect = q.onConnect,
         r.guarded = q.guarded, r.onData = q.onData, r.onClose = q.onClose
  PROVE  r = q
BY DEF SocketRecord

(* Handlers may be added to a socket any number of times.                  *)
LEMMA PreparedTypes ==
  ASSUME NEW t \in SocketRecord
  PROVE  Prepared(t) \in SocketRecord
<1>1. t.onData + 1 \in Nat /\ t.onClose + 1 \in Nat  BY DEF SocketRecord
<1> QED  BY <1>1, IpcSocketAssumption DEF Prepared, SocketRecord

(* The types hold before anything is connected.                            *)
LEMMA InitTypes == Init => TypeOK
<1> SUFFICES ASSUME Init PROVE TypeOK  OBVIOUS
<1>1. socket \in [Sockets -> SocketRecord]  BY FormTypes DEF Init
<1>2. numReconnects \in 0 .. MaxReconnects  BY IpcSocketAssumption DEF Init
<1> QED  BY <1>1, <1>2 DEF Init, TypeOK, SocketRecord, Events

(* The count of attempts stays within its bound.                           *)
LEMMA CountedTypes ==
  ASSUME NEW n \in Nat
  PROVE  Counted(n) \in 0 .. MaxReconnects
BY IpcSocketAssumption DEF Counted

(* Every step keeps the types.                                             *)
LEMMA NextTypes ==
  ASSUME TypeOK, [Next]_vars
  PROVE  TypeOK'
<1> USE IpcSocketAssumption
<1>1. socket \in [Sockets -> SocketRecord] /\ timers \in Nat /\ numReconnects \in Nat
  BY DEF TypeOK, SocketRecord
<1>2. \A n \in Nat : Counted(n) \in 0 .. MaxReconnects  BY CountedTypes
<1>3. CASE ProgramConnects
  <2>1. PICK s \in Sockets : socket' = [socket EXCEPT ![s] = Connecting] /\ current' = s
    BY <1>3 DEF ProgramConnects, Connect
  <2>2. socket' \in [Sockets -> SocketRecord]  BY <2>1, <1>1, FormTypes
  <2> QED  BY <1>3, <2>1, <2>2 DEF ProgramConnects, TypeOK, SocketRecord
<1>4. CASE TimerFires
  <2>1. PICK s \in Sockets : socket' = [socket EXCEPT ![s] = Connecting] /\ current' = s
    BY <1>4 DEF TimerFires, Connect
  <2>2. socket' \in [Sockets -> SocketRecord]  BY <2>1, <1>1, FormTypes
  <2>3. timers' \in Nat  BY <1>1, <1>4 DEF TimerFires
  <2> QED  BY <1>4, <2>1, <2>2, <2>3 DEF TimerFires, TypeOK, SocketRecord
<1>5. ASSUME NEW s \in Sockets, SocketConnects(s) PROVE TypeOK'
  <2>1. \A t \in SocketRecord : Prepared(t) \in SocketRecord  BY PreparedTypes
  <2>2. socket' \in [Sockets -> SocketRecord]
    <3>1. CASE socket[s].onConnect
      <4> DEFINE made == [socket EXCEPT ![s].state = "connected", ![s].onConnect = FALSE]
      <4>1. made \in [Sockets -> SocketRecord]  BY <1>1 DEF SocketRecord
      <4>2. socket' = [made EXCEPT ![current] = Prepared(@)]
        BY <1>5, <3>1 DEF SocketConnects, OnSocketConnect
      <4> HIDE DEF made
      <4> QED  BY <4>1, <4>2, <2>1
    <3>2. CASE ~socket[s].onConnect
      BY <1>1, <1>5, <3>2 DEF SocketConnects, SocketRecord
    <3> QED  BY <3>1, <3>2
  <2>3. /\ numReconnects' \in 0 .. MaxReconnects /\ event' \in Events
        /\ answered' \in BOOLEAN /\ connectedOnce' \in BOOLEAN
    BY <1>5 DEF SocketConnects, OnSocketConnect, Emit, TypeOK, Events
  <2> QED  BY <1>5, <2>2, <2>3 DEF SocketConnects, TypeOK, SocketRecord
<1>6. ASSUME NEW s \in Sockets, NEW code, OnSocketError(s, code)
      PROVE  /\ socket' \in [Sockets -> SocketRecord]
             /\ timers' \in Nat /\ numReconnects' \in 0 .. MaxReconnects
             /\ event' \in Events /\ answered' \in BOOLEAN
  <2> DEFINE made == [socket EXCEPT ![s].state = "failed", ![s].onError = FALSE]
  <2>1. made \in [Sockets -> SocketRecord]  BY <1>1 DEF SocketRecord
  <2>2. socket' = [made EXCEPT ![current].onConnect = FALSE]
    BY <1>6 DEF OnSocketError
  <2> HIDE DEF made
  <2>3. socket' \in [Sockets -> SocketRecord]  BY <2>1, <2>2 DEF SocketRecord
  <2>4. timers' \in Nat /\ numReconnects' \in 0 .. MaxReconnects
    BY <1>1, <1>2, <1>6 DEF OnSocketError, Reconnect, TypeOK
  <2>5. event' \in Events /\ answered' \in BOOLEAN
    BY <1>6 DEF OnSocketError, Emit, Events
  <2> QED  BY <2>3, <2>4, <2>5
<1>7. ASSUME NEW s \in Sockets, Unhandled(s)
      PROVE  socket' \in [Sockets -> SocketRecord]
  BY <1>1, <1>7 DEF Unhandled, SocketRecord
<1>8. ASSUME NEW s \in Sockets, Fails(s) PROVE TypeOK'
  BY <1>6, <1>7, <1>8 DEF Fails, SocketFails, Unhandled, TypeOK, SocketRecord
<1>9. ASSUME NEW s \in Sockets, SocketBreaks(s) PROVE TypeOK'
  <2>1. ASSUME socket' = [socket EXCEPT ![s].state = "failed"]
        PROVE  socket' \in [Sockets -> SocketRecord]
    BY <1>1, <2>1 DEF SocketRecord
  <2> QED
    BY <1>6, <1>7, <1>9, <2>1 DEF SocketBreaks, Unhandled, TypeOK, SocketRecord
<1>10. ASSUME NEW s \in Sockets, SocketCloses(s) PROVE TypeOK'
  <2>1. socket' \in [Sockets -> SocketRecord]
    BY <1>1, <1>10, FormTypes DEF SocketCloses
  <2>2. socket[s].onClose \in Nat  BY <1>1 DEF SocketRecord
  <2>3. timers' \in Nat /\ numReconnects' \in 0 .. MaxReconnects
    BY <1>1, <1>2, <1>10, <2>2 DEF SocketCloses, Reconnect, TypeOK
  <2>4. event' \in Events /\ answered' \in BOOLEAN
    BY <1>10 DEF SocketCloses, Emit, Events, TypeOK
  <2> QED  BY <1>10, <2>1, <2>3, <2>4 DEF SocketCloses, TypeOK, SocketRecord
<1>11. CASE ServerStarts \/ ServerStops \/ UNCHANGED vars
  BY <1>11 DEF ServerStarts, ServerStops, vars, TypeOK
<1>12. ASSUME NEW s \in Sockets, SocketReceives(s) PROVE TypeOK'
  BY <1>12 DEF SocketReceives, Emit, Events, TypeOK
<1> QED
  BY <1>3, <1>4, <1>5, <1>8, <1>9, <1>10, <1>11, <1>12 DEF Next

(***************************************************************************)
(* The invariant, action by action                                         *)
(***************************************************************************)

(* Only one socket changes, from one form to another.                      *)
LEMMA OthersStay ==
  ASSUME TypeOK, NEW s \in Sockets, NEW form,
         socket' = [socket EXCEPT ![s] = form]
  PROVE  socket'[s] = form /\ \A t \in Sockets : t # s => socket'[t] = socket[t]
BY DEF TypeOK

(* A new attempt when nothing else goes on.                                *)
LEMMA ConnectStep ==
  ASSUME TypeOK, Sound, Connect, Busy = {}, timers' = 0,
         answered' \/ event' \notin {"start", "error"},
         UNCHANGED <<numReconnects, connectedOnce>>
  PROVE  Sound'
<1>1. PICK s \in Sockets : /\ socket' = [socket EXCEPT ![s] = Connecting]
                           /\ current' = s
  BY DEF Connect
<1>2. socket'[s] = Connecting /\ \A t \in Sockets : t # s => socket'[t] = socket[t]
  BY <1>1, OthersStay
<1>3. \A t \in Sockets : socket[t] \notin {Connecting, Served, Broken}  BY DEF Busy
<1>4. Connecting \notin {Served, Broken}  BY Forms
<1>5. Busy' = {s}  BY <1>2, <1>3 DEF Busy
<1>6. SocketForms'  BY <1>2 DEF Sound, SocketForms
<1>7. OneBusy'  BY <1>5 DEF OneBusy
<1>8. BusyIsCurrent'  BY <1>1, <1>2, <1>3 DEF BusyIsCurrent
<1>9. ProgramsTurn'  BY <1>5 DEF ProgramsTurn
<1>10. CountsLostConnections'
  BY <1>2, <1>3, <1>4 DEF Sound, CountsLostConnections
<1> QED  BY <1>6, <1>7, <1>8, <1>9, <1>10 DEF Sound

(* connect begins an attempt when there is none.                           *)
LEMMA ProgramConnectsStep ==
  ASSUME Careful, TypeOK, Sound, ProgramConnects
  PROVE  Sound'
<1>1. event \in {"start", "error"} /\ ~answered  BY DEF Careful, ProgramConnects
<1>2. Busy = {} /\ timers = 0  BY <1>1 DEF Sound, ProgramsTurn
<1> QED  BY <1>2, ConnectStep DEF ProgramConnects

(* The timer begins an attempt, when the last one has come to its end.     *)
LEMMA TimerFiresStep ==
  ASSUME TypeOK, Sound, TimerFires
  PROVE  Sound'
<1>1. timers = 1 /\ timers' = 0 /\ Busy = {}
  BY DEF TimerFires, Sound, OneBusy
<1>2. answered' \/ event' \notin {"start", "error"}
  BY <1>1 DEF TimerFires, Sound, ProgramsTurn, TypeOK
<1> QED  BY <1>1, <1>2, ConnectStep DEF TimerFires

(* The socket that connects is this._socket, so it is the one prepared.    *)
LEMMA ConnectingIsPrepared ==
  ASSUME TypeOK, Sound, NEW s \in Sockets, SocketConnects(s)
  PROVE  /\ socket[s] = Connecting /\ OnSocketConnect(s)
         /\ socket' = [socket EXCEPT ![s] = Served]
<1>1. socket[s] = Connecting
  BY Forms DEF SocketConnects, InState, Sound, SocketForms
<1>2. OnSocketConnect(s)  BY <1>1, Forms DEF SocketConnects
<1>3. current = s  BY <1>1 DEF Sound, BusyIsCurrent
<1> DEFINE made == [socket EXCEPT ![s].state = "connected", ![s].onConnect = FALSE]
<1>4. socket' = [made EXCEPT ![s] = Prepared(@)]
  BY <1>2, <1>3 DEF OnSocketConnect
<1>5. made = [socket EXCEPT ![s] = [Connecting EXCEPT !.state = "connected",
                                                      !.onConnect = FALSE]]
  BY <1>1
<1>6. made[s] = [Connecting EXCEPT !.state = "connected", !.onConnect = FALSE]
  BY <1>5 DEF TypeOK
<1>7. Prepared(made[s]) = Served
  <2> DEFINE r == Prepared(made[s])
  <2>1. made[s] \in SocketRecord
    <3>1. made \in [Sockets -> SocketRecord]  BY DEF TypeOK, SocketRecord
    <3> HIDE DEF made
    <3> QED  BY <3>1
  <2> HIDE DEF made
  <2>2. /\ made[s].state = "connected" /\ made[s].onConnect = FALSE
        /\ made[s].onData = 0 /\ made[s].onClose = 0
    BY <1>6, ConnectingIsRecord, Forms DEF SocketRecord
  <2>3. r \in SocketRecord  BY <2>1, PreparedTypes
  <2>4. /\ r.state = "connected" /\ r.onError = FALSE /\ r.onConnect = FALSE
        /\ r.guarded = ProgramListens /\ r.onData = 1 /\ r.onClose = 1
    BY <2>1, <2>2 DEF Prepared, SocketRecord
  <2> HIDE DEF r
  <2>5. r = Served  BY <2>3, <2>4, SameFields, FormTypes, Forms
  <2> QED  BY <2>5 DEF r
<1>8. [made EXCEPT ![s] = Served] = [socket EXCEPT ![s] = Served]
  BY <1>5 DEF TypeOK
<1> HIDE DEF made
<1>9. socket' = [made EXCEPT ![s] = Prepared(made[s])]  BY <1>4
<1> QED  BY <1>1, <1>2, <1>7, <1>8, <1>9

(* 'connect' gives a socket its handlers of data and close.                *)
LEMMA SocketConnectsStep ==
  ASSUME TypeOK, Sound, NEW s \in Sockets, SocketConnects(s)
  PROVE  Sound'
<1>1. /\ socket[s] = Connecting /\ OnSocketConnect(s)
      /\ socket' = [socket EXCEPT ![s] = Served]
  BY ConnectingIsPrepared
<1>2. socket'[s] = Served /\ \A t \in Sockets : t # s => socket'[t] = socket[t]
  BY <1>1, OthersStay
<1>3. Busy' = Busy /\ s \in Busy  BY <1>1, <1>2 DEF Busy
<1>4. UNCHANGED <<current, timers>>  BY DEF SocketConnects
<1>5. event' \in {"connect", "reconnect"} /\ connectedOnce'
  BY <1>1 DEF OnSocketConnect, Emit
<1>6. SocketForms'  BY <1>2 DEF Sound, SocketForms
<1>7. OneBusy'  BY <1>3, <1>4 DEF Sound, OneBusy
<1>8. BusyIsCurrent'  BY <1>1, <1>2, <1>4 DEF Sound, BusyIsCurrent
<1>9. ProgramsTurn'  BY <1>3, <1>5 DEF ProgramsTurn
<1>10. CountsLostConnections'  BY <1>2, <1>5 DEF CountsLostConnections
<1> QED  BY <1>6, <1>7, <1>8, <1>9, <1>10 DEF Sound

(* An attempt that fails is this._socket too.                              *)
LEMMA FailingIsRefused ==
  ASSUME TypeOK, Sound, NEW s \in Sockets, Fails(s)
  PROVE  /\ socket[s] = Connecting
         /\ \E code \in Codes : OnSocketError(s, code)
         /\ socket' = [socket EXCEPT ![s] = Refused]
         /\ UNCHANGED <<up, current, connectedOnce, crashed>>
<1>1. PICK code \in Codes : SocketFails(s, code)  BY DEF Fails
<1>2. socket[s] = Connecting
  BY <1>1, Forms DEF SocketFails, InState, Sound, SocketForms
<1>3. OnSocketError(s, code) /\ UNCHANGED <<up, current, connectedOnce, crashed>>
  BY <1>1, <1>2, Forms DEF SocketFails
<1>4. current = s  BY <1>2 DEF Sound, BusyIsCurrent
<1> DEFINE made == [socket EXCEPT ![s].state = "failed", ![s].onError = FALSE]
<1>5. socket' = [made EXCEPT ![s].onConnect = FALSE]
  BY <1>3, <1>4 DEF OnSocketError
<1>6. made = [socket EXCEPT ![s] = [Connecting EXCEPT !.state = "failed",
                                                      !.onError = FALSE]]
  BY <1>2
<1>7. made[s] = [Connecting EXCEPT !.state = "failed", !.onError = FALSE]
  BY <1>6 DEF TypeOK
<1>8. [made[s] EXCEPT !.onConnect = FALSE] = Refused
  <2> DEFINE r == [made[s] EXCEPT !.onConnect = FALSE]
  <2>1. made[s] \in SocketRecord
    <3>1. made \in [Sockets -> SocketRecord]  BY DEF TypeOK, SocketRecord
    <3> HIDE DEF made
    <3> QED  BY <3>1
  <2> HIDE DEF made
  <2>2. /\ made[s].state = "failed" /\ made[s].onError = FALSE
        /\ made[s].guarded = FALSE /\ made[s].onData = 0 /\ made[s].onClose = 0
    BY <1>7, ConnectingIsRecord, Forms DEF SocketRecord
  <2>3. r \in SocketRecord  BY <2>1 DEF SocketRecord
  <2>4. /\ r.state = "failed" /\ r.onError = FALSE /\ r.onConnect = FALSE
        /\ r.guarded = FALSE /\ r.onData = 0 /\ r.onClose = 0
    BY <2>1, <2>2 DEF SocketRecord
  <2> HIDE DEF r
  <2>5. r = Refused  BY <2>3, <2>4, SameFields, FormTypes, Forms
  <2> QED  BY <2>5 DEF r
<1>9. [made EXCEPT ![s] = Refused] = [socket EXCEPT ![s] = Refused]
  BY <1>6 DEF TypeOK
<1> HIDE DEF made
<1>10. socket' = [made EXCEPT ![s] = [made[s] EXCEPT !.onConnect = FALSE]]
  BY <1>5
<1> QED  BY <1>2, <1>3, <1>8, <1>9, <1>10

(* A refused socket makes room for one timer, or for none.                 *)
LEMMA FailsStep ==
  ASSUME TypeOK, Sound, NEW s \in Sockets, Fails(s)
  PROVE  Sound'
<1>1. /\ socket[s] = Connecting
      /\ socket' = [socket EXCEPT ![s] = Refused]
      /\ UNCHANGED <<current, connectedOnce>>
  BY FailingIsRefused
<1>2. PICK code \in Codes : OnSocketError(s, code)  BY FailingIsRefused
<1>3. socket'[s] = Refused /\ \A t \in Sockets : t # s => socket'[t] = socket[t]
  BY <1>1, OthersStay
<1>4. Refused \notin {Connecting, Served, Broken} /\ Connecting \notin {Served, Broken}
  BY Forms
<1>5. Busy = {s} /\ timers = 0  BY <1>1 DEF Sound, OneBusy, Busy
<1>6. Busy' = {}  BY <1>3, <1>4, <1>5 DEF Busy
<1>7. \/ event' = "warn" /\ timers' = 1 /\ numReconnects > 0
         /\ numReconnects' = Counted(numReconnects + 1)
      \/ event' = "error" /\ timers' = 0 /\ numReconnects' = numReconnects
  BY <1>2, <1>5 DEF OnSocketError, Emit, Reconnect
<1>8. numReconnects > 0 <=> numReconnects' > 0
  BY <1>7, IpcSocketAssumption DEF Counted, TypeOK
<1>9. SocketForms'  BY <1>3 DEF Sound, SocketForms
<1>10. OneBusy'  BY <1>6, <1>7 DEF OneBusy
<1>11. BusyIsCurrent'  BY <1>1, <1>3, <1>4 DEF Sound, BusyIsCurrent
<1>12. ProgramsTurn'  BY <1>6, <1>7 DEF ProgramsTurn
<1>13. CountsLostConnections'
  <2>1. \A t \in Sockets : socket'[t] \in {Served, Broken} <=> socket[t] \in {Served, Broken}
    BY <1>1, <1>3, <1>4
  <2>2. numReconnects \in Nat /\ (numReconnects = 0 => numReconnects' = 0)
    BY <1>7 DEF TypeOK
  <2> QED  BY <1>1, <1>8, <2>1, <2>2 DEF Sound, CountsLostConnections
<1> QED  BY <1>9, <1>10, <1>11, <1>12, <1>13 DEF Sound

(* A connection that breaks has no listener of the class left.             *)
LEMMA BreakingIsBroken ==
  ASSUME TypeOK, Sound, NEW s \in Sockets, SocketBreaks(s)
  PROVE  /\ socket[s] = Served
         /\ socket' = [socket EXCEPT ![s] = Broken]
         /\ crashed' = (crashed \/ ~ProgramListens)
         /\ UNCHANGED <<up, current, timers, numReconnects, event, answered,
                        connectedOnce>>
<1>1. socket[s] = Served
  BY Forms DEF SocketBreaks, InState, Sound, SocketForms
<1>2. socket' = [socket EXCEPT ![s].state = "failed"]
  BY <1>1, Forms DEF SocketBreaks, Unhandled
<1>3. socket' = [socket EXCEPT ![s] = Broken]  BY <1>1, <1>2 DEF Broken
<1>4. crashed' = (crashed \/ ~ProgramListens)
  BY <1>1, Forms, IpcSocketAssumption DEF SocketBreaks, Unhandled, TypeOK
<1>5. UNCHANGED <<up, current, timers, numReconnects, event, answered, connectedOnce>>
  BY <1>1, Forms DEF SocketBreaks, Unhandled
<1> QED  BY <1>1, <1>3, <1>4, <1>5

(* A socket that breaks is still the current one.                          *)
LEMMA SocketBreaksStep ==
  ASSUME TypeOK, Sound, NEW s \in Sockets, SocketBreaks(s)
  PROVE  Sound'
<1>1. /\ socket[s] = Served
      /\ socket' = [socket EXCEPT ![s] = Broken]
      /\ UNCHANGED <<current, timers, numReconnects, event, answered, connectedOnce>>
  BY BreakingIsBroken
<1>2. socket'[s] = Broken /\ \A t \in Sockets : t # s => socket'[t] = socket[t]
  BY <1>1, OthersStay
<1>3. Broken \notin {Connecting, Served}  BY Forms
<1>4. Busy' = Busy  BY <1>1, <1>2 DEF Busy
<1>5. SocketForms'  BY <1>2 DEF Sound, SocketForms
<1>6. OneBusy'  BY <1>1, <1>4 DEF Sound, OneBusy
<1>7. BusyIsCurrent'  BY <1>1, <1>2, <1>3 DEF Sound, BusyIsCurrent
<1>8. ProgramsTurn'  BY <1>1, <1>4 DEF Sound, ProgramsTurn
<1>9. CountsLostConnections'
  BY <1>1, <1>2 DEF Sound, CountsLostConnections
<1> QED  BY <1>5, <1>6, <1>7, <1>8, <1>9 DEF Sound

(* Data comes from the socket in use, so that the 'error' after it is not  *)
(* the last of an IpcSocket that has given up.                             *)
LEMMA SocketReceivesStep ==
  ASSUME TypeOK, Sound, NEW s \in Sockets, SocketReceives(s)
  PROVE  Sound'
<1>1. socket[s] = Served
  BY Forms DEF SocketReceives, InState, Sound, SocketForms
<1>2. UNCHANGED <<socket, current, timers, numReconnects, connectedOnce>>
  BY DEF SocketReceives
<1>3. event' = "invalid"  BY DEF SocketReceives, Emit
<1>4. Busy' = Busy /\ s \in Busy  BY <1>1, <1>2 DEF Busy
<1>5. ProgramsTurn'  BY <1>3, <1>4 DEF ProgramsTurn
<1>6. SocketForms' /\ OneBusy' /\ BusyIsCurrent'
  BY <1>2, <1>4 DEF Sound, SocketForms, OneBusy, BusyIsCurrent
<1>7. CountsLostConnections'  BY <1>2 DEF Sound, CountsLostConnections
<1> QED  BY <1>5, <1>6, <1>7 DEF Sound

(* A socket that closes leaves its place to a timer.                       *)
LEMMA SocketClosesStep ==
  ASSUME TypeOK, Sound, NEW s \in Sockets, SocketCloses(s)
  PROVE  Sound'
<1>1. socket[s] \in {Served, Broken, Refused}
  BY Forms DEF SocketCloses, InState, Sound, SocketForms
<1>2. socket' = [socket EXCEPT ![s] = Free] /\ UNCHANGED <<current, connectedOnce>>
  BY DEF SocketCloses
<1>3. socket'[s] = Free /\ \A t \in Sockets : t # s => socket'[t] = socket[t]
  BY <1>2, OthersStay
<1>4. /\ Free \notin {Connecting, Served, Broken}
      /\ Refused \notin {Connecting, Served, Broken}
  BY Forms
<1>5. SocketForms'  BY <1>3 DEF Sound, SocketForms
<1>6. BusyIsCurrent'  BY <1>2, <1>3, <1>4 DEF Sound, BusyIsCurrent
<1>7. CASE socket[s] = Refused
  <2>1. UNCHANGED <<timers, numReconnects, event, answered>>
    BY <1>7, Forms DEF SocketCloses
  <2>2. Busy' = Busy  BY <1>3, <1>4, <1>7 DEF Busy
  <2>3. OneBusy' /\ ProgramsTurn'  BY <2>1, <2>2 DEF Sound, OneBusy, ProgramsTurn
  <2>4. \A t \in Sockets : socket'[t] \in {Served, Broken} <=> socket[t] \in {Served, Broken}
    BY <1>3, <1>4, <1>7
  <2>5. CountsLostConnections'
    BY <1>2, <2>1, <2>4 DEF Sound, CountsLostConnections
  <2> QED  BY <1>5, <1>6, <2>3, <2>5 DEF Sound
<1>8. CASE socket[s] \in {Served, Broken}
  <2>1. Busy = {s} /\ timers = 0  BY <1>8 DEF Sound, OneBusy, Busy
  <2>2. Busy' = {}  BY <1>3, <1>4, <2>1 DEF Busy
  <2>3. socket[s].onClose = 1  BY <1>8, Forms
  <2>4. event' = "close" /\ timers' = 1 /\ numReconnects' = Counted(numReconnects + 1)
    BY <2>1, <2>3 DEF SocketCloses, Emit, Reconnect
  <2>5. numReconnects' > 0
    BY <2>4, IpcSocketAssumption DEF Counted, TypeOK
  <2>6. OneBusy' /\ ProgramsTurn'  BY <2>2, <2>4 DEF OneBusy, ProgramsTurn
  <2>7. connectedOnce  BY <1>8 DEF Sound, CountsLostConnections
  <2>8. CountsLostConnections'
    BY <1>2, <2>5, <2>7 DEF CountsLostConnections
  <2> QED  BY <1>5, <1>6, <2>6, <2>8 DEF Sound
<1> QED  BY <1>1, <1>7, <1>8

(* Every step keeps the forms of the sockets.                              *)
LEMMA NextSound ==
  ASSUME Careful, TypeOK, Sound, [Next]_vars
  PROVE  Sound'
<1>1. CASE ServerStarts \/ ServerStops \/ UNCHANGED vars
  BY <1>1 DEF ServerStarts, ServerStops, vars, Sound, SocketForms, OneBusy, Busy,
              BusyIsCurrent, ProgramsTurn, CountsLostConnections
<1> QED
  BY <1>1, ProgramConnectsStep, TimerFiresStep, SocketConnectsStep, FailsStep,
     SocketBreaksStep, SocketReceivesStep, SocketClosesStep DEF Next

(* There is no socket yet.                                                 *)
LEMMA InitSound == Init => Sound
<1> SUFFICES ASSUME Init PROVE Sound  OBVIOUS
<1>1. \A s \in Sockets : socket[s] = Free  BY DEF Init
<1>2. Free \notin {Connecting, Served, Broken}  BY Forms
<1>3. Busy = {}  BY <1>1, <1>2 DEF Busy
<1> QED
  BY <1>1, <1>2, <1>3 DEF Init, Sound, SocketForms, OneBusy, BusyIsCurrent,
                          ProgramsTurn, CountsLostConnections

(***************************************************************************)
(* What follows from it                                                    *)
(***************************************************************************)
LEMMA SoundIsOneAttempt ==
  ASSUME TypeOK, Sound
  PROVE  OneAttempt
<1> DEFINE attempts ==
      {s \in Live : ~InState(s, "failed") \/ socket[s].onClose > 0}
<1>1. attempts = Busy
  BY Forms DEF Sound, SocketForms, Live, InState, Busy
<1>2. CASE Busy = {}
  BY <1>1, <1>2, FS_EmptySet DEF Sound, OneBusy, OneAttempt
<1>3. CASE Busy # {}
  <2>1. PICK s \in Busy : TRUE  BY <1>3
  <2>2. Busy = {s} /\ timers = 0  BY <2>1 DEF Sound, OneBusy
  <2>3. Cardinality(attempts) = 1  BY <1>1, <2>2, FS_Singleton
  <2> QED  BY <2>2, <2>3 DEF OneAttempt
<1> QED  BY <1>2, <1>3

(* A connected socket is in the form that has one handler of each event.   *)
LEMMA SoundIsServed ==
  ASSUME TypeOK, Sound
  PROVE  ConnectedSocketIsServed
<1> SUFFICES ASSUME NEW s \in Connected
             PROVE  socket[s].onData = 1 /\ socket[s].onClose = 1 /\ s = current
  BY DEF ConnectedSocketIsServed
<1>1. s \in Sockets /\ socket[s] = Served
  BY Forms DEF Connected, InState, Sound, SocketForms
<1> QED  BY <1>1, Forms DEF Sound, BusyIsCurrent

(* Without a socket or a timer the last event was an error, or the         *)
(* beginning.                                                              *)
LEMMA SoundIsNotSilent ==
  ASSUME TypeOK, Sound
  PROVE  NeverSilentlyIdle
<1> SUFFICES ASSUME Live = {}, timers = 0 PROVE event \in {"start", "error"}
  BY DEF NeverSilentlyIdle
<1>1. Busy = {}  BY Forms DEF Live, InState, Busy
<1> QED  BY <1>1 DEF Sound, ProgramsTurn

(* Only a step that connects a socket is the one OnSocketConnect describes, *)
(* and then no other is connected and lost connections have been counted.   *)
LEMMA AnnouncedStep ==
  ASSUME Careful, TypeOK, Sound, [Next]_vars, NEW s \in Sockets, OnSocketConnect(s)
  PROVE  event' = IF connectedOnce THEN "reconnect" ELSE "connect"
<1>1. /\ event' = IF numReconnects > 0 THEN "reconnect" ELSE "connect"
      /\ ~answered'
      /\ socket' = [[socket EXCEPT ![s].state = "connected", ![s].onConnect = FALSE]
                       EXCEPT ![current] = Prepared(@)]
  BY DEF OnSocketConnect, Emit
<1>2. numReconnects \in Nat  BY DEF TypeOK
<1>3. socket'[s].state = "connected"  BY <1>1 DEF TypeOK, Prepared
<1>4. current \in Sockets => socket'[current] # socket[current]
  <2> SUFFICES ASSUME current \in Sockets
               PROVE  socket'[current] # socket[current]
    OBVIOUS
  <2>1. socket[current].onData \in Nat  BY DEF TypeOK
  <2>2. socket'[current].onData = socket[current].onData + 1
    BY <1>1 DEF TypeOK, Prepared
  <2> QED  BY <2>1, <2>2
<1>5. ASSUME socket'[s] = socket[s], socket'[current] = socket[current] PROVE FALSE
  <2>1. socket[s] = Served  BY <1>3, <1>5, Forms DEF Sound, SocketForms
  <2>2. s = current  BY <2>1 DEF Sound, BusyIsCurrent
  <2> QED  BY <1>4, <1>5, <2>2
<1>6. ASSUME NEW t \in Sockets, NEW form, form \in {Free, Connecting, Broken, Refused},
             socket' = [socket EXCEPT ![t] = form]
      PROVE  socket[s] = Served /\ s # t
  <2>1. s # t  BY <1>3, <1>6, Forms DEF TypeOK
  <2>2. socket'[s] = socket[s]  BY <1>6, <2>1 DEF TypeOK
  <2> QED  BY <1>3, <2>1, <2>2, Forms DEF Sound, SocketForms
<1>7. CASE ProgramConnects  BY <1>1, <1>7 DEF ProgramConnects
<1>8. CASE TimerFires
  <2>1. Busy = {}  BY <1>8 DEF TimerFires, Sound, OneBusy
  <2>2. PICK t \in Sockets : socket' = [socket EXCEPT ![t] = Connecting]
    BY <1>8 DEF TimerFires, Connect
  <2>3. socket[s] = Served  BY <1>6, <2>2
  <2> QED  BY <2>1, <2>3 DEF Busy
<1>9. ASSUME NEW t \in Sockets, SocketConnects(t)
      PROVE  event' = IF connectedOnce THEN "reconnect" ELSE "connect"
  <2>1. socket[t] = Connecting  BY <1>9, ConnectingIsPrepared
  <2>2. \A u \in Sockets : socket[u] \notin {Served, Broken}
    BY <2>1, Forms DEF Sound, OneBusy, Busy
  <2>3. connectedOnce <=> numReconnects > 0
    BY <1>2, <2>2 DEF Sound, CountsLostConnections
  <2> QED  BY <1>1, <2>3
<1>10. ASSUME NEW t \in Sockets, Fails(t) PROVE FALSE
  <2>1. socket[t] = Connecting /\ socket' = [socket EXCEPT ![t] = Refused]
    BY <1>10, FailingIsRefused
  <2>2. socket[s] = Served /\ s # t  BY <1>6, <2>1
  <2> QED  BY <2>1, <2>2 DEF Sound, OneBusy, Busy
<1>11. ASSUME NEW t \in Sockets, SocketBreaks(t) PROVE FALSE
  <2>1. socket[t] = Served /\ socket' = [socket EXCEPT ![t] = Broken]
    BY <1>11, BreakingIsBroken
  <2>2. socket[s] = Served /\ s # t  BY <1>6, <2>1
  <2> QED  BY <2>1, <2>2 DEF Sound, OneBusy, Busy
<1>12. ASSUME NEW t \in Sockets, SocketCloses(t) PROVE FALSE
  <2>1. socket' = [socket EXCEPT ![t] = Free]  BY <1>12 DEF SocketCloses
  <2>2. socket[s] = Served /\ s # t  BY <1>6, <2>1
  <2>3. s = current  BY <2>2 DEF Sound, BusyIsCurrent
  <2>4. socket'[s] = socket[s]  BY <2>1, <2>2 DEF TypeOK
  <2> QED  BY <1>5, <2>3, <2>4
<1>13. CASE ServerStarts \/ ServerStops \/ UNCHANGED vars
  BY <1>5, <1>13 DEF ServerStarts, ServerStops, vars
<1>14. ASSUME NEW t \in Sockets, SocketReceives(t) PROVE FALSE
  BY <1>5, <1>14 DEF SocketReceives
<1> QED
  BY <1>7, <1>8, <1>9, <1>10, <1>11, <1>12, <1>13, <1>14 DEF Next

(* The program's own listener is there whenever a connection breaks.       *)
LEMMA NoCrashStep ==
  ASSUME ProgramListens, TypeOK, Sound, ~crashed, [Next]_vars
  PROVE  ~crashed'
<1>1. ASSUME NEW s \in Sockets, SocketBreaks(s) PROVE ~crashed'
  BY <1>1, BreakingIsBroken
<1>2. ASSUME NEW s \in Sockets, Fails(s) PROVE ~crashed'
  BY <1>2, FailingIsRefused
<1> QED
  BY <1>1, <1>2 DEF Next, ProgramConnects, TimerFires, SocketConnects,
                    SocketReceives, SocketCloses, ServerStarts, ServerStops, vars

(***************************************************************************)
(* Theorems                                                                *)
(***************************************************************************)

(* Every variable has its type, whenever the program calls connect.        *)
THEOREM SocketTypes == Spec => []TypeOK
<1>1. Init => TypeOK  BY InitTypes
<1>2. TypeOK /\ [Next]_vars => TypeOK'  BY NextTypes
<1> QED  BY <1>1, <1>2, PTL DEF Spec

(* The inductive invariant, of a process with an IpcSocket in it: without  *)
(* the fairness, so that it holds where others share the variables.        *)
THEOREM SocketInvariant ==
  ASSUME Careful
  PROVE  Init /\ [][Next]_vars => []IInv
<1>1. Init => IInv  BY InitTypes, InitSound DEF IInv
<1>2. IInv /\ [Next]_vars => IInv'  BY NextTypes, NextSound DEF IInv
<1> QED  BY <1>1, <1>2, PTL

(* A closed connection starts one chain of attempts, whatever fails or     *)
(* closes meanwhile; what is connected has one decoder, one listener of    *)
(* 'close', and is this._socket; and the chain ends by 'error' only.       *)
THEOREM SocketSafety ==
  ASSUME Careful
  PROVE  Spec => [](OneAttempt /\ ConnectedSocketIsServed /\ NeverSilentlyIdle)
<1>1. IInv => OneAttempt /\ ConnectedSocketIsServed /\ NeverSilentlyIdle
  BY SoundIsOneAttempt, SoundIsServed, SoundIsNotSilent DEF IInv
<1> QED  BY <1>1, SocketInvariant, PTL DEF Spec

(***************************************************************************)
(* Both ends of a connection                                               *)
(***************************************************************************)

(* The serving program does not call listen while a server listens.        *)
CarefulServer == ListensOn \subseteq {"start", "stopped", "error"}

(* The forms of servers and of accepted sockets.                           *)
Opening == [state |-> "opening", onError |-> TRUE, guarded |-> FALSE]
Serves == [state |-> "listening", onError |-> FALSE, guarded |-> ServerGuarded]

Pending == [NoPeer EXCEPT !.state = "pending"]
PeerOf(state, v) ==
  [state |-> state, onData |-> 1, onClose |-> 1, guarded |-> ServerGuarded,
   reported |-> v, acceptor |-> v]

ServerForms == {Closed, Opening, Serves}

OneServer == \A v \in Servers : server[v] # Closed => v = listener

(* The program may call listen when no server is open, and then only.      *)
ServersTurn ==
  (\A v \in Servers : server[v] = Closed)
    <=> ~replied /\ occasion \in {"start", "stopped", "error"}

PeerForms ==
  {NoPeer, Pending} \cup {PeerOf(state, v) : state \in {"open", "failed"}, v \in Servers}

ServerSound ==
  /\ listener \in Servers \cup {NoServer}
  /\ occasion \in Occasions /\ replied \in BOOLEAN /\ serverCrashed \in BOOLEAN
  /\ server \in [Servers -> ServerForms]
  /\ OneServer
  /\ ServersTurn
  /\ peer \in [Peers -> PeerForms]

(* Nothing of an old connection is left when a socket is used again.       *)
FreshSockets ==
  \A s \in Sockets :
    /\ socket[s] = Connecting => peer[s] = NoPeer
    /\ socket[s] \in {Free, Connecting} => wire[s] = NoWire

WireTypes ==
  /\ wire \in [Sockets -> [written : 0 .. MaxHalves, arrived : 0 .. MaxHalves]]
  /\ decoder \in [of : Sockets \cup {NoSocket}, held : 0 .. 1]

(* What is added to the two sides: the bytes on a connection and the       *)
(* decoder that takes them.                                                *)
DataSound ==
  /\ FreshSockets
  /\ WireTypes
  /\ PacketsAreOfOneConnection

ConnectionInv ==
  /\ IInv
  /\ ServerSound
  /\ DataSound

(* The forms are told apart by their fields.                               *)
LEMMA ServerFormFields ==
  /\ Closed.state = "closed" /\ Closed.onError = FALSE /\ Closed.guarded = FALSE
  /\ Opening.state = "opening" /\ Opening.onError = TRUE /\ Opening.guarded = FALSE
  /\ Serves.state = "listening" /\ Serves.onError = FALSE
  /\ Serves.guarded = ServerGuarded
BY DEF Closed, Opening, Serves

ServerRecord ==
  [state : {"closed", "opening", "listening"}, onError : BOOLEAN, guarded : BOOLEAN]

(* The forms of a server are records of its fields.                        *)
LEMMA ServerFormTypes == ServerForms \subseteq ServerRecord
BY IpcServerAssumption DEF ServerForms, Closed, Opening, Serves, ServerRecord

(* Servers with the same fields are the same.                              *)
LEMMA SameServerFields ==
  ASSUME NEW r \in ServerRecord, NEW q \in ServerRecord,
         r.state = q.state, r.onError = q.onError, r.guarded = q.guarded
  PROVE  r = q
BY DEF ServerRecord

(* listen, and then 'listening', take a closed server through the forms.   *)
LEMMA OpeningIs ==
  [[Closed EXCEPT !.state = "opening"] EXCEPT !.onError = TRUE] = Opening
<1> DEFINE r == [[Closed EXCEPT !.state = "opening"] EXCEPT !.onError = TRUE]
<1>1. Closed \in ServerRecord /\ Opening \in ServerRecord
  BY ServerFormTypes DEF ServerForms
<1>2. r \in ServerRecord  BY <1>1 DEF ServerRecord
<1>3. r.state = "opening" /\ r.onError = TRUE /\ r.guarded = FALSE
  BY <1>1, ServerFormFields DEF ServerRecord
<1> HIDE DEF r
<1>4. r = Opening  BY <1>1, <1>2, <1>3, SameServerFields, ServerFormFields
<1> QED  BY <1>4 DEF r

(* A server that listens is in the form in which it serves.                *)
LEMMA ServesIs ==
  ASSUME NEW r, r = [[[Opening EXCEPT !.state = "listening"]
                        EXCEPT !.onError = FALSE] EXCEPT !.guarded = ServerGuarded]
  PROVE  r = Serves
<1>1. Opening \in ServerRecord /\ Serves \in ServerRecord
  BY ServerFormTypes DEF ServerForms
<1>2. r \in ServerRecord  BY <1>1, IpcServerAssumption DEF ServerRecord
<1>3. r.state = "listening" /\ r.onError = FALSE /\ r.guarded = ServerGuarded
  BY <1>1, ServerFormFields DEF ServerRecord
<1> QED  BY <1>1, <1>2, <1>3, SameServerFields, ServerFormFields

(* What the fields of a peer are, in each of its forms.                    *)
LEMMA PeerFormFields ==
  /\ NoPeer.state = "none" /\ NoPeer.onData = 0 /\ NoPeer.onClose = 0
  /\ Pending.state = "pending" /\ Pending.onData = 0 /\ Pending.onClose = 0
  /\ \A state \in {"open", "failed"}, v \in Servers :
       /\ PeerOf(state, v).state = state /\ PeerOf(state, v).guarded = ServerGuarded
       /\ PeerOf(state, v).reported = v /\ PeerOf(state, v).acceptor = v
BY DEF NoPeer, Pending, PeerOf

(***************************************************************************)
(* The connecting side                                                     *)
(***************************************************************************)

(* A step of the two is a step of IpcSocket, with the server it can reach  *)
(* starting or stopping, or none of its.                                   *)
LEMMA StepOfSocket ==
  ASSUME TypeOK, [ConnectionNext]_allVars
  PROVE  [Next]_vars
<1>1. CASE UNCHANGED allVars  BY <1>1 DEF allVars
<1>2. CASE ConnectionNext /\ Serving(ServerStep)
  <2>1. /\ ~crashed /\ up' \in BOOLEAN
        /\ UNCHANGED <<socket, current, timers, numReconnects, event, answered,
                       connectedOnce, crashed>>
    BY <1>2 DEF ConnectionNext, Serving
  <2>2. up \in BOOLEAN  BY DEF TypeOK
  <2> QED  BY <2>1, <2>2 DEF Next, ServerStarts, ServerStops, vars
<1> QED
  BY <1>1, <1>2 DEF ConnectionNext, Connects, Established, NotEstablished, Breaks,
                    Closes, HandleData, WriteHalf, Next

(* The socket begins as it does on its own.                                *)
LEMMA InitOfSocket == ConnectionInit => Init
BY DEF ConnectionInit

(***************************************************************************)
(* The serving side                                                        *)
(***************************************************************************)
LEMMA ServerInitSound == ServerInit => ServerSound
<1> SUFFICES ASSUME ServerInit PROVE ServerSound  OBVIOUS
<1>1. Closed \in ServerForms /\ NoPeer \in PeerForms  BY DEF ServerForms, PeerForms
<1>2. \A v \in Servers : server[v] = Closed  BY DEF ServerInit
<1>3. OneServer /\ ServersTurn  BY <1>2 DEF OneServer, ServersTurn, ServerInit
<1> QED  BY <1>1, <1>3 DEF ServerInit, ServerSound, Occasions

(* Only one server changes, from one form to another.                      *)
LEMMA OtherServersStay ==
  ASSUME ServerSound, NEW v \in Servers, NEW form, form \in ServerForms,
         server' = [server EXCEPT ![v] = form]
  PROVE  /\ server'[v] = form
         /\ \A u \in Servers : u # v => server'[u] = server[u]
         /\ server' \in [Servers -> ServerForms]
BY DEF ServerSound

(* listen makes a closed server the one that opens.                        *)
LEMMA ProgramServesStep ==
  ASSUME CarefulServer, ServerSound, ProgramServes
  PROVE  ServerSound'
<1>1. PICK v \in Servers :
        /\ server' = [server EXCEPT ![v].state = "opening", ![v].onError = TRUE]
        /\ server[v] = Closed /\ listener' = v
  BY DEF ProgramServes, Listen
<1>2. [[Closed EXCEPT !.state = "opening"] EXCEPT !.onError = TRUE] = Opening
  BY OpeningIs
<1>3. server' = [server EXCEPT ![v] = Opening]
  BY <1>1, <1>2 DEF ServerSound
<1>4. \A u \in Servers : server[u] = Closed
  BY DEF ServerSound, ServersTurn, ProgramServes, CarefulServer
<1>5. Opening # Closed  BY ServerFormFields
<1>6. /\ server'[v] = Opening /\ \A u \in Servers : u # v => server'[u] = Closed
      /\ server' \in [Servers -> ServerForms]
  BY <1>3, <1>4, OtherServersStay DEF ServerForms
<1>7. OneServer'  BY <1>1, <1>6 DEF OneServer
<1>8. ServersTurn'  BY <1>5, <1>6 DEF ServersTurn, ProgramServes
<1> QED
  BY <1>1, <1>6, <1>7, <1>8 DEF ProgramServes, ServerSound

(* 'listening' makes the server that opens the one that serves.            *)
LEMMA ServerListensStep ==
  ASSUME ServerSound, NEW v \in Servers, ServerListens(v)
  PROVE  ServerSound'
<1>1. server[v] = Opening /\ listener = v
  BY ServerFormFields DEF ServerListens, ServerSound, ServerForms, OneServer
<1> DEFINE r == [[[Opening EXCEPT !.state = "listening"]
                     EXCEPT !.onError = FALSE] EXCEPT !.guarded = ServerGuarded]
<1>2. server' = [server EXCEPT ![v] = r]
  BY <1>1 DEF ServerListens, OnServerListening, ServerSound
<1>3. r = Serves  BY ServesIs
<1> HIDE DEF r
<1>4. server' = [server EXCEPT ![v] = Serves]  BY <1>2, <1>3
<1>5. /\ server'[v] = Serves /\ \A u \in Servers : u # v => server'[u] = server[u]
      /\ server' \in [Servers -> ServerForms]
  BY <1>4, OtherServersStay DEF ServerForms
<1>6. /\ occasion' = "listening" /\ ~replied' /\ replied' \in BOOLEAN
      /\ UNCHANGED <<listener, peer, serverCrashed>>
  BY DEF ServerListens, OnServerListening, Tell
<1>7. OneServer'  BY <1>1, <1>5, <1>6 DEF ServerSound, OneServer
<1>8. ServersTurn'  BY <1>5, <1>6, ServerFormFields DEF ServersTurn
<1> QED  BY <1>5, <1>6, <1>7, <1>8 DEF ServerSound, Occasions

(* A server that could not listen is closed and the program told; one that *)
(* listens has the listener of the program, or the process ends.           *)
LEMMA ServerFailsStep ==
  ASSUME ServerSound, NEW v \in Servers, ServerFails(v)
  PROVE  ServerSound' /\ (ServerGuarded => serverCrashed' = serverCrashed)
<1>1. server[v] \in {Opening, Serves} /\ UNCHANGED peer
  BY DEF ServerFails, ServerSound, ServerForms
<1>2. CASE server[v] = Serves
  <2>1. UNCHANGED <<server, listener, occasion, replied, peer>>
    BY <1>1, <1>2, ServerFormFields DEF ServerFails, ServerUnhandled
  <2>2. serverCrashed' \in BOOLEAN /\ (ServerGuarded => serverCrashed' = serverCrashed)
    BY <1>2, ServerFormFields DEF ServerFails, ServerUnhandled, ServerSound
  <2> QED  BY <2>1, <2>2 DEF ServerSound, OneServer, ServersTurn
<1>3. CASE server[v] = Opening
  <2>1. /\ server' = [server EXCEPT ![v] = Closed]
        /\ occasion' = "error" /\ ~replied' /\ replied' \in BOOLEAN
        /\ UNCHANGED <<listener, serverCrashed>>
    BY <1>3, ServerFormFields DEF ServerFails, OnServerError, Tell
  <2>2. /\ server'[v] = Closed /\ \A u \in Servers : u # v => server'[u] = server[u]
        /\ server' \in [Servers -> ServerForms]
    BY <2>1, OtherServersStay DEF ServerForms
  <2>3. \A u \in Servers : server'[u] = Closed
    BY <1>3, <2>2, ServerFormFields DEF ServerSound, OneServer
  <2>4. OneServer' /\ ServersTurn'  BY <2>1, <2>3 DEF OneServer, ServersTurn
  <2> QED  BY <1>1, <2>1, <2>2, <2>4 DEF ServerSound, Occasions
<1> QED  BY <1>1, <1>2, <1>3

(* close closes the one server that listens, and what it had not accepted. *)
LEMMA ProgramStopsStep ==
  ASSUME ServerSound, ProgramStops
  PROVE  ServerSound'
<1> DEFINE v == listener
<1>1. v \in Servers /\ server' = [server EXCEPT ![v] = Closed] /\ server[v] # Closed
  BY ServerFormFields DEF ProgramStops, Listening
<1>2. /\ server'[v] = Closed /\ \A u \in Servers : u # v => server'[u] = server[u]
      /\ server' \in [Servers -> ServerForms]
  BY <1>1, OtherServersStay DEF ServerForms
<1>3. \A u \in Servers : server'[u] = Closed
  BY <1>1, <1>2 DEF ServerSound, OneServer
<1>4. /\ occasion' = "stopped" /\ ~replied' /\ replied' \in BOOLEAN
      /\ UNCHANGED <<listener, serverCrashed>>
  BY DEF ProgramStops, Tell
<1>5. peer' \in [Peers -> PeerForms]
  BY DEF ProgramStops, ServerSound, PeerForms
<1>6. OneServer' /\ ServersTurn'  BY <1>3, <1>4 DEF OneServer, ServersTurn
<1> QED  BY <1>2, <1>4, <1>5, <1>6 DEF ServerSound, Occasions

(* A socket is accepted by the server that listens, which is this._server. *)
LEMMA AcceptStep ==
  ASSUME ServerSound, NEW s \in Peers, Accept(s)
  PROVE  ServerSound'
<1>1. PICK v \in Listening : OnServerConnection(s, v)  BY DEF Accept
<1>2. v \in Servers /\ v = listener
  BY <1>1, ServerFormFields DEF Listening, ServerSound, OneServer
<1>3. peer[s] = Pending
  BY PeerFormFields DEF Accept, ServerSound, PeerForms
<1>4. peer' = [peer EXCEPT ![s] = PeerOf("open", v)]
  BY <1>1, <1>2, <1>3, PeerFormFields DEF OnServerConnection, PeerOf, ServerSound
<1>5. PeerOf("open", v) \in PeerForms  BY <1>2 DEF PeerForms
<1>6. peer' \in [Peers -> PeerForms]  BY <1>4, <1>5 DEF ServerSound
<1> QED  BY <1>6 DEF Accept, ServerSound, OneServer, ServersTurn

(* An open peer that breaks has failed, and is still reported right.       *)
LEMMA PeerBreaksStep ==
  ASSUME ServerSound, NEW s \in Peers, PeerBreaks(s)
  PROVE  ServerSound' /\ (ServerGuarded => serverCrashed' = serverCrashed)
<1>1. PICK v \in Servers : peer[s] = PeerOf("open", v)
  BY PeerFormFields DEF PeerBreaks, ServerSound, PeerForms
<1>2. [PeerOf("open", v) EXCEPT !.state = "failed"] = PeerOf("failed", v)
  BY DEF PeerOf
<1>3. peer[s].guarded = ServerGuarded  BY <1>1, PeerFormFields
<1>4. CASE ServerGuarded
  <2>1. peer' = [peer EXCEPT ![s] = PeerOf("failed", v)] /\ UNCHANGED serverCrashed
    BY <1>1, <1>2, <1>3, <1>4 DEF PeerBreaks, ServerSound
  <2>2. PeerOf("failed", v) \in PeerForms  BY DEF PeerForms
  <2>3. peer' \in [Peers -> PeerForms]  BY <2>1, <2>2 DEF ServerSound
  <2> QED  BY <2>1, <2>3 DEF PeerBreaks, ServerSound, OneServer, ServersTurn
<1>5. CASE ~ServerGuarded
  BY <1>3, <1>5 DEF PeerBreaks, ServerSound, OneServer, ServersTurn
<1> QED  BY <1>4, <1>5

(* A peer that closes is none any more.                                    *)
LEMMA PeerClosesStep ==
  ASSUME ServerSound, NEW s \in Peers, PeerCloses(s)
  PROVE  ServerSound'
<1>1. peer' \in [Peers -> PeerForms]
  BY DEF PeerCloses, ServerSound, PeerForms
<1> QED  BY <1>1 DEF PeerCloses, ServerSound, OneServer, ServersTurn

(* When the server restarts there is no server, listener or peer.          *)
LEMMA ServerRestartsStep ==
  ASSUME ServerSound, ServerRestarts
  PROVE  ServerSound'
<1>1. Closed \in ServerForms /\ NoPeer \in PeerForms  BY DEF ServerForms, PeerForms
<1>2. \A v \in Servers : server'[v] = Closed  BY DEF ServerRestarts
<1>3. OneServer' /\ ServersTurn'
  BY <1>2 DEF ServerRestarts, Tell, OneServer, ServersTurn
<1> QED  BY <1>1, <1>3 DEF ServerRestarts, Tell, ServerSound, Occasions

(* Whatever the server's side does, its servers and peers stay sound.      *)
LEMMA ServerStepSound ==
  ASSUME CarefulServer, ServerSound, ServerStep
  PROVE  ServerSound' /\ (ServerGuarded => serverCrashed' = serverCrashed)
<1> USE ConnectionAssumption
<1>1. ServerSound'
  BY ProgramServesStep, ServerListensStep, ServerFailsStep, ProgramStopsStep,
     AcceptStep, PeerBreaksStep, PeerClosesStep, ServerRestartsStep DEF ServerStep
<1>2. CASE \/ ProgramServes \/ ProgramStops \/ ServerRestarts
           \/ \E v \in Servers : ServerListens(v)
           \/ \E s \in Sockets : Accept(s) \/ PeerCloses(s)
  BY <1>1, <1>2 DEF ProgramServes, ProgramStops, ServerRestarts, ServerListens, Accept,
                    PeerCloses
<1> QED  BY <1>1, <1>2, ServerFailsStep, PeerBreaksStep DEF ServerStep

(***************************************************************************)
(* Both sides                                                              *)
(***************************************************************************)

(* Every socket in use has the form of one.                                *)
LEMMA ConnectedIsServed ==
  ASSUME TypeOK, Sound, NEW s \in Sockets
  PROVE  /\ InState(s, "connected") <=> socket[s] = Served
         /\ InState(s, "free") <=> socket[s] = Free
BY Forms DEF InState, Sound, SocketForms

(* An attempt to connect leaves the servers and the data alone.            *)
LEMMA ConnectsData ==
  ASSUME TypeOK, Sound, ServerSound, DataSound, Connects
  PROVE  ServerSound' /\ DataSound' /\ UNCHANGED serverCrashed
<1>1. UNCHANGED <<serverVars, data>>  BY DEF Connects
<1>2. PICK s \in Sockets : InState(s, "free") /\ socket' = [socket EXCEPT ![s] = Connecting]
  BY DEF Connects, ProgramConnects, TimerFires, Connect
<1>3. socket'[s] = Connecting /\ \A t \in Sockets : t # s => socket'[t] = socket[t]
  BY <1>2, OthersStay
<1>4. socket[s] = Free  BY <1>2, ConnectedIsServed
<1>5. s \in Reused  BY <1>2, <1>3, Forms DEF Reused
<1>6. peer[s] = NoPeer
  BY <1>5, PeerFormFields, ConnectionAssumption DEF Connects, ServerSound, PeerForms
<1>7. FreshSockets'
  BY <1>1, <1>3, <1>4, <1>6 DEF DataSound, FreshSockets, serverVars, data
<1>8. \A t \in Sockets : socket'[t].state = "connected" => socket[t].state = "connected"
  BY <1>3, Forms
<1>9. PacketsAreOfOneConnection'
  BY <1>1, <1>8 DEF DataSound, PacketsAreOfOneConnection, Connected, InState, data
<1> QED
  BY <1>1, <1>7, <1>9 DEF serverVars, data, ServerSound, OneServer, ServersTurn,
                          DataSound, WireTypes

(* A connection that is established gets a decoder of its own.             *)
LEMMA EstablishedData ==
  ASSUME TypeOK, Sound, ServerSound, DataSound, NEW s \in Sockets, Established(s)
  PROVE  ServerSound' /\ DataSound' /\ UNCHANGED serverCrashed
<1> USE ConnectionAssumption
<1>1. /\ socket[s] = Connecting
      /\ socket' = [socket EXCEPT ![s] = Served]
  BY ConnectingIsPrepared DEF Established
<1>2. socket'[s] = Served /\ \A t \in Sockets : t # s => socket'[t] = socket[t]
  BY <1>1, OthersStay
<1>3. current = s  BY <1>1 DEF Sound, BusyIsCurrent
<1>4. /\ decoder' = NewDecoder(s)
      /\ peer' = [peer EXCEPT ![s].state = "pending"]
      /\ UNCHANGED <<server, listener, occasion, replied, serverCrashed, wire>>
  BY <1>1, <1>3, Forms DEF Established, ParseStream
<1>5. peer[s] = NoPeer /\ wire[s] = NoWire  BY <1>1 DEF DataSound, FreshSockets
<1>6. peer' = [peer EXCEPT ![s] = Pending]
  BY <1>4, <1>5 DEF ServerSound, Pending
<1>7. peer' \in [Peers -> PeerForms]  BY <1>6 DEF ServerSound, PeerForms
<1>8. ServerSound'  BY <1>4, <1>7 DEF ServerSound, OneServer, ServersTurn
<1>9. FreshSockets'
  <2> SUFFICES ASSUME NEW t \in Sockets
               PROVE  /\ socket'[t] = Connecting => peer'[t] = NoPeer
                      /\ socket'[t] \in {Free, Connecting} => wire'[t] = NoWire
    BY DEF FreshSockets
  <2>1. CASE t = s  BY <1>2, <2>1, Forms
  <2>2. CASE t # s
    BY <1>2, <1>4, <1>6, <2>2 DEF DataSound, FreshSockets, ServerSound
  <2> QED  BY <2>1, <2>2
<1>10. WireTypes'
  BY <1>4 DEF DataSound, WireTypes, NewDecoder
<1>11. \A t \in Sockets : InState(t, "connected")' => t = s
  <2> SUFFICES ASSUME NEW t \in Sockets, InState(t, "connected")', t # s PROVE FALSE
    OBVIOUS
  <2>1. socket[t] = Served
    BY <1>2, Forms DEF InState, Sound, SocketForms
  <2> QED  BY <1>1, <2>1 DEF Sound, OneBusy, Busy
<1>12. PacketsAreOfOneConnection'
  BY <1>4, <1>5, <1>11 DEF PacketsAreOfOneConnection, Connected, NewDecoder, NoWire
<1> QED  BY <1>4, <1>8, <1>9, <1>10, <1>12 DEF DataSound

(* An attempt that fails, or a connection that breaks: the socket is not   *)
(* used until it is closed.                                                *)
LEMMA EndedData ==
  ASSUME TypeOK, Sound, ServerSound, DataSound, UNCHANGED <<serverVars, data>>,
         NEW s \in Sockets, NEW form, form \in {Refused, Broken},
         socket' = [socket EXCEPT ![s] = form]
  PROVE  ServerSound' /\ DataSound' /\ UNCHANGED serverCrashed
<1>1. socket'[s] = form /\ \A t \in Sockets : t # s => socket'[t] = socket[t]
  BY OthersStay
<1>2. FreshSockets'
  BY <1>1, Forms DEF DataSound, FreshSockets, serverVars, data
<1>3. \A t \in Sockets : socket'[t].state = "connected" => socket[t].state = "connected"
  BY <1>1, Forms
<1>4. PacketsAreOfOneConnection'
  BY <1>3 DEF DataSound, PacketsAreOfOneConnection, Connected, InState, data
<1> QED
  BY <1>2, <1>4 DEF serverVars, data, ServerSound, OneServer, ServersTurn,
                    DataSound, WireTypes

(* The wire of a socket goes with it.                                      *)
LEMMA ClosesData ==
  ASSUME TypeOK, Sound, ServerSound, DataSound, NEW s \in Sockets, Closes(s)
  PROVE  ServerSound' /\ DataSound' /\ UNCHANGED serverCrashed
<1>1. /\ socket' = [socket EXCEPT ![s] = Free]
      /\ wire' = [wire EXCEPT ![s] = NoWire]
      /\ UNCHANGED <<serverVars, decoder>>
  BY DEF Closes, SocketCloses
<1>2. socket'[s] = Free /\ \A t \in Sockets : t # s => socket'[t] = socket[t]
  BY <1>1, OthersStay
<1>3. NoWire \in [written : 0 .. MaxHalves, arrived : 0 .. MaxHalves]
  BY ConnectionAssumption DEF NoWire
<1>4. WireTypes'  BY <1>1, <1>3 DEF DataSound, WireTypes
<1>5. FreshSockets'
  <2> SUFFICES ASSUME NEW t \in Sockets
               PROVE  /\ socket'[t] = Connecting => peer'[t] = NoPeer
                      /\ socket'[t] \in {Free, Connecting} => wire'[t] = NoWire
    BY DEF FreshSockets
  <2>1. CASE t = s
    BY <1>1, <1>2, <2>1, Forms DEF DataSound, WireTypes
  <2>2. CASE t # s
    BY <1>1, <1>2, <2>2 DEF DataSound, FreshSockets, WireTypes, serverVars
  <2> QED  BY <2>1, <2>2
<1>6. PacketsAreOfOneConnection'
  <2> SUFFICES ASSUME NEW t \in Sockets, socket'[t].state = "connected"
               PROVE  decoder'.of = t /\ decoder'.held = wire'[t].arrived % 2
    BY DEF PacketsAreOfOneConnection, Connected, InState
  <2>1. t # s  BY <1>2, Forms
  <2>2. socket[t].state = "connected" /\ wire'[t] = wire[t] /\ decoder' = decoder
    BY <1>1, <1>2, <2>1 DEF DataSound, WireTypes
  <2> QED  BY <2>2 DEF DataSound, PacketsAreOfOneConnection, Connected, InState
<1> QED
  BY <1>1, <1>4, <1>5, <1>6 DEF serverVars, ServerSound, OneServer, ServersTurn, DataSound

(* Two halves make a packet.                                               *)
LEMMA Alternates ==
  ASSUME NEW n \in Nat
  PROVE  (n + 1) % 2 = 1 - (n % 2) /\ n % 2 \in 0 .. 1
OBVIOUS

(* A half of a packet that arrives is decoded with the other half of it.   *)
LEMMA HandleDataData ==
  ASSUME TypeOK, Sound, ServerSound, DataSound, NEW s \in Sockets, HandleData(s)
  PROVE  ServerSound' /\ DataSound' /\ UNCHANGED serverCrashed
<1>1. /\ wire' = [wire EXCEPT ![s].arrived = @ + 1]
      /\ decoder' = [decoder EXCEPT !.held = 1 - @]
      /\ socket' = socket /\ UNCHANGED serverVars
      /\ wire[s].arrived < wire[s].written
  BY DEF HandleData, SocketReceives
<1>2. socket[s] = Served  BY ConnectedIsServed DEF HandleData, SocketReceives
<1>3. wire[s] \in [written : 0 .. MaxHalves, arrived : 0 .. MaxHalves]
  BY DEF DataSound, WireTypes
<1>4. wire[s].arrived \in Nat /\ wire[s].arrived + 1 \in 0 .. MaxHalves
  BY <1>1, <1>3, ConnectionAssumption
<1>5. WireTypes'  BY <1>1, <1>4 DEF DataSound, WireTypes
<1>6. FreshSockets'
  BY <1>1, <1>2, Forms DEF DataSound, FreshSockets, WireTypes, serverVars
<1>7. \A t \in Sockets : InState(t, "connected") => t = s
  BY <1>2, ConnectedIsServed DEF Sound, BusyIsCurrent
<1>8. wire'[s].arrived = wire[s].arrived + 1 /\ decoder'.held = 1 - decoder.held
      /\ decoder'.of = decoder.of
  BY <1>1, <1>3 DEF DataSound, WireTypes
<1>9. decoder.of = s /\ decoder.held = wire[s].arrived % 2
  BY DEF HandleData, SocketReceives, DataSound, PacketsAreOfOneConnection, Connected
<1>10. decoder'.of = s /\ decoder'.held = wire'[s].arrived % 2
  BY <1>4, <1>8, <1>9, Alternates
<1>11. PacketsAreOfOneConnection'
  BY <1>1, <1>7, <1>10 DEF PacketsAreOfOneConnection, Connected, InState
<1> QED
  BY <1>1, <1>5, <1>6, <1>11 DEF serverVars, ServerSound, OneServer, ServersTurn, DataSound

(* Only the peer of a served socket writes on its wire.                    *)
LEMMA WriteHalfData ==
  ASSUME TypeOK, Sound, ServerSound, DataSound, NEW s \in Sockets, WriteHalf(s)
  PROVE  ServerSound' /\ DataSound' /\ UNCHANGED serverCrashed
<1>1. /\ wire' = [wire EXCEPT ![s].written = @ + 1] /\ wire[s].written < MaxHalves
      /\ socket' = socket /\ UNCHANGED <<serverVars, decoder>>
  BY DEF WriteHalf, vars
<1>2. socket[s] = Served  BY ConnectedIsServed DEF WriteHalf
<1>3. wire[s] \in [written : 0 .. MaxHalves, arrived : 0 .. MaxHalves]
  BY DEF DataSound, WireTypes
<1>4. wire[s].written + 1 \in 0 .. MaxHalves  BY <1>1, <1>3, ConnectionAssumption
<1>5. WireTypes'  BY <1>1, <1>4 DEF DataSound, WireTypes
<1>6. FreshSockets'
  BY <1>1, <1>2, Forms DEF DataSound, FreshSockets, WireTypes, serverVars
<1>7. \A t \in Sockets : wire'[t].arrived = wire[t].arrived
  BY <1>1, <1>3 DEF DataSound, WireTypes
<1>8. PacketsAreOfOneConnection'
  BY <1>1, <1>7 DEF DataSound, PacketsAreOfOneConnection, Connected, InState
<1> QED
  BY <1>1, <1>5, <1>6, <1>8 DEF serverVars, ServerSound, OneServer, ServersTurn, DataSound

(* No step of a server gives a peer to a socket that connects.             *)
LEMMA ServingData ==
  ASSUME CarefulServer, TypeOK, Sound, ServerSound, DataSound, Serving(ServerStep)
  PROVE  /\ ServerSound' /\ DataSound'
         /\ ServerGuarded => serverCrashed' = serverCrashed
<1>1. ServerSound' /\ (ServerGuarded => serverCrashed' = serverCrashed)
  BY ServerStepSound DEF Serving
<1>2. UNCHANGED <<socket, data>>  BY DEF Serving
<1>3. \A s \in Peers : peer[s] = NoPeer => peer'[s] = NoPeer
  BY PeerFormFields
     DEF Serving, ServerStep, ProgramServes, ServerListens, ServerFails, ProgramStops,
         Accept, OnServerConnection, PeerBreaks, PeerCloses, ServerRestarts, ServerSound
<1>4. FreshSockets'
  BY <1>2, <1>3, ConnectionAssumption DEF DataSound, FreshSockets, data
<1> QED
  BY <1>1, <1>2, <1>4 DEF data, DataSound, WireTypes, PacketsAreOfOneConnection,
                          Connected, InState

(* Nothing is connected, and nothing is held by the decoder.               *)
LEMMA InitConnection == ConnectionInit => ConnectionInv
<1> SUFFICES ASSUME ConnectionInit PROVE ConnectionInv  OBVIOUS
<1>1. IInv  BY InitOfSocket, InitTypes, InitSound DEF IInv
<1>2. ServerSound  BY ServerInitSound DEF ConnectionInit
<1>3. \A s \in Sockets : socket[s] = Free /\ peer[s] = NoPeer /\ wire[s] = NoWire
  BY ConnectionAssumption DEF ConnectionInit, Init, ServerInit
<1>4. FreshSockets  BY <1>3 DEF FreshSockets
<1>5. WireTypes
  BY ConnectionAssumption DEF ConnectionInit, WireTypes, NoWire, NewDecoder
<1>6. PacketsAreOfOneConnection
  BY <1>3, Forms DEF PacketsAreOfOneConnection, Connected, InState
<1> QED  BY <1>1, <1>2, <1>4, <1>5, <1>6 DEF ConnectionInv, DataSound

(* Every step of the two programs and the network keeps the invariant.     *)
LEMMA NextConnection ==
  ASSUME Careful, CarefulServer, ConnectionInv, [ConnectionNext]_allVars
  PROVE  ConnectionInv' /\ (ServerGuarded => serverCrashed' = serverCrashed)
<1>1. TypeOK /\ Sound /\ ServerSound /\ DataSound  BY DEF ConnectionInv, IInv
<1>2. IInv'
  BY <1>1, StepOfSocket, NextTypes, NextSound DEF IInv
<1>3. ASSUME NEW s \in Sockets, NotEstablished(s)
      PROVE  ServerSound' /\ DataSound' /\ UNCHANGED serverCrashed
  BY <1>1, <1>3, FailingIsRefused, EndedData DEF NotEstablished
<1>4. ASSUME NEW s \in Sockets, Breaks(s)
      PROVE  ServerSound' /\ DataSound' /\ UNCHANGED serverCrashed
  BY <1>1, <1>4, BreakingIsBroken, EndedData DEF Breaks
<1>5. ASSUME UNCHANGED allVars
      PROVE  ServerSound' /\ DataSound' /\ UNCHANGED serverCrashed
  <2>1. /\ UNCHANGED <<socket, wire, decoder>>
        /\ UNCHANGED <<server, listener, occasion, replied, peer, serverCrashed>>
    BY <1>5 DEF allVars, vars, serverVars
  <2>2. ServerSound'
    BY <1>1, <2>1 DEF ServerSound, OneServer, ServersTurn
  <2>3. FreshSockets' /\ WireTypes'
    BY <1>1, <2>1 DEF DataSound, FreshSockets, WireTypes
  <2>4. PacketsAreOfOneConnection'
    BY <1>1, <2>1 DEF DataSound, PacketsAreOfOneConnection, Connected, InState
  <2> QED  BY <2>1, <2>2, <2>3, <2>4 DEF DataSound
<1>6. ASSUME Serving(ServerStep)
      PROVE  /\ ServerSound' /\ DataSound'
             /\ ServerGuarded => serverCrashed' = serverCrashed
  BY <1>1, <1>6, ServingData
<1>7. /\ ServerSound' /\ DataSound'
      /\ ServerGuarded => serverCrashed' = serverCrashed
  <2>1. CASE Connects
    BY <1>1, <2>1, ConnectsData DEF Connects, serverVars
  <2>2. ASSUME NEW s \in Sockets,
               Established(s) \/ Closes(s) \/ HandleData(s) \/ WriteHalf(s)
        PROVE  ServerSound' /\ DataSound' /\ UNCHANGED serverCrashed
    BY <1>1, <2>2, EstablishedData, ClosesData, HandleDataData, WriteHalfData
  <2> QED
    BY <1>3, <1>4, <1>5, <1>6, <2>1, <2>2 DEF ConnectionNext
<1> QED  BY <1>2, <1>7 DEF ConnectionInv

(* The invariant is one of types.                                          *)
LEMMA PeerFormTypes ==
  PeerForms \subseteq
    [state : {"none", "pending", "open", "failed"}, onData : 0 .. 1, onClose : 0 .. 1,
     guarded : BOOLEAN, reported : Servers \cup {NoServer},
     acceptor : Servers \cup {NoServer}]
<1> DEFINE T ==
    [state : {"none", "pending", "open", "failed"}, onData : 0 .. 1, onClose : 0 .. 1,
     guarded : BOOLEAN, reported : Servers \cup {NoServer},
     acceptor : Servers \cup {NoServer}]
<1>1. NoPeer \in T  BY DEF NoPeer
<1>2. Pending \in T  BY <1>1 DEF Pending
<1>3. \A state \in {"open", "failed"}, v \in Servers : PeerOf(state, v) \in T
  BY IpcServerAssumption DEF PeerOf
<1> HIDE DEF T
<1>4. PeerForms \subseteq T  BY <1>1, <1>2, <1>3 DEF PeerForms
<1> QED  BY <1>4 DEF T

(* The invariant has the types in it.                                      *)
LEMMA ConnectionInvTypes == ConnectionInv => ConnectionTypeOK
<1> SUFFICES ASSUME ConnectionInv PROVE ConnectionTypeOK  OBVIOUS
<1>1. server \in [Servers -> ServerRecord]
  BY ServerFormTypes DEF ConnectionInv, ServerSound
<1>2. peer \in [Peers ->
       [state : {"none", "pending", "open", "failed"}, onData : 0 .. 1,
        onClose : 0 .. 1, guarded : BOOLEAN, reported : Servers \cup {NoServer},
        acceptor : Servers \cup {NoServer}]]
  BY PeerFormTypes DEF ConnectionInv, ServerSound
<1>3. ServerTypeOK
  BY <1>1, <1>2 DEF ConnectionInv, ServerSound, ServerTypeOK, ServerRecord
<1> QED
  BY <1>3 DEF ConnectionInv, IInv, DataSound, WireTypes, ConnectionTypeOK

(* The two properties of the server, from the forms of servers and peers.  *)
LEMMA ServersAreTheirs ==
  ASSUME ServerSound
  PROVE  PeersAreReportedWithTheirServer /\ NeverSilentlyDeaf
<1>1. \A s \in Peers : peer[s].reported = peer[s].acceptor
  <2> SUFFICES ASSUME NEW s \in Peers PROVE peer[s].reported = peer[s].acceptor
    OBVIOUS
  <2>1. NoPeer.reported = NoPeer.acceptor /\ Pending.reported = Pending.acceptor
    BY DEF NoPeer, Pending
  <2> QED  BY <2>1, PeerFormFields DEF ServerSound, PeerForms
<1>2. Listening \subseteq {listener}
  BY ServerFormFields DEF Listening, ServerSound, OneServer
<1>3. NeverSilentlyDeaf  BY DEF ServerSound, ServersTurn, NeverSilentlyDeaf
<1> QED  BY <1>1, <1>2, <1>3 DEF PeersAreReportedWithTheirServer

(***************************************************************************)
(* Theorems                                                                *)
(***************************************************************************)

(* Whatever happens at the other end, one end of a connection behaves as   *)
(* IpcSocket alone does, with a server that comes and goes.                *)
THEOREM ConnectionImplementsSocket ==
  ConnectionSpec => Init /\ [][Next]_vars
<1>1. ConnectionInit => Init /\ TypeOK  BY InitOfSocket, InitTypes
<1>2. TypeOK /\ [ConnectionNext]_allVars => [Next]_vars  BY StepOfSocket
<1>3. TypeOK /\ [Next]_vars => TypeOK'  BY NextTypes
<1> QED  BY <1>1, <1>2, <1>3, PTL DEF ConnectionSpec

(* The invariant of both ends and of what is between them.                 *)
THEOREM ConnectionInvariant ==
  ASSUME Careful, CarefulServer
  PROVE  ConnectionSpec => []ConnectionInv
<1>1. ConnectionInit => ConnectionInv  BY InitConnection
<1>2. ConnectionInv /\ [ConnectionNext]_allVars => ConnectionInv'  BY NextConnection
<1> QED  BY <1>1, <1>2, PTL DEF ConnectionSpec

(* Every variable has its type.                                            *)
THEOREM ConnectionTypes ==
  ASSUME Careful, CarefulServer
  PROVE  ConnectionSpec => []ConnectionTypeOK
BY ConnectionInvariant, ConnectionInvTypes, PTL

(* A closed connection starts one chain of attempts: never two that would  *)
(* fight for this._socket. (_onSocketError, reconnect) With a program that *)
(* connects on every 'error' there are two after the first data.           *)
THEOREM OneAttemptAtATime ==
  ASSUME Careful
  PROVE  ConnectionSpec => []OneAttempt
<1>1. IInv => OneAttempt  BY SoundIsOneAttempt DEF IInv
<1> QED  BY <1>1, ConnectionImplementsSocket, SocketInvariant, PTL

(* A connected socket feeds one decoder, tells of its closing once, and is *)
(* this._socket, as long as the program, Careful, does not connect on the  *)
(* 'error' of that decoder. (_onSocketConnect, _parseStream)               *)
THEOREM ConnectedIsAlwaysServed ==
  ASSUME Careful
  PROVE  ConnectionSpec => []ConnectedSocketIsServed
<1>1. IInv => ConnectedSocketIsServed  BY SoundIsServed DEF IInv
<1> QED  BY <1>1, ConnectionImplementsSocket, SocketInvariant, PTL

(* IpcSocket gives up by the 'error' of _onSocketError only, and no data   *)
(* comes after it that would be told by another.                           *)
THEOREM SilenceIsNeverIdle ==
  ASSUME Careful
  PROVE  ConnectionSpec => []NeverSilentlyIdle
<1>1. IInv => NeverSilentlyIdle  BY SoundIsNotSilent DEF IInv
<1> QED  BY <1>1, ConnectionImplementsSocket, SocketInvariant, PTL

(* The first connection is announced by 'connect', every later one by      *)
(* 'reconnect', with data and the 'error' after it in between.             *)
THEOREM ReconnectionsAreAnnounced ==
  ASSUME Careful
  PROVE  ConnectionSpec => AnnouncesReconnections
<1>1. IInv /\ [Next]_vars =>
        [\A s \in Sockets :
           OnSocketConnect(s) =>
             event' = IF connectedOnce THEN "reconnect" ELSE "connect"]_vars
  BY AnnouncedStep DEF IInv
<1> QED
  BY <1>1, ConnectionImplementsSocket, SocketInvariant, PTL DEF AnnouncesReconnections

(* No 'error' at either end is without a listener, of programs that add    *)
(* theirs when they are told of a connection or of a server.               *)
THEOREM ErrorsAreAlwaysHandled ==
  ASSUME Careful, CarefulServer, ProgramListens, ServerGuarded
  PROVE  ConnectionSpec => []ErrorsAreHandled
<1>1. ConnectionInit => ErrorsAreHandled
  BY DEF ConnectionInit, Init, ServerInit, ErrorsAreHandled
<1>2. ConnectionInv /\ ErrorsAreHandled /\ [ConnectionNext]_allVars => ErrorsAreHandled'
  BY StepOfSocket, NoCrashStep, NextConnection DEF ConnectionInv, IInv, ErrorsAreHandled
<1> QED  BY <1>1, <1>2, ConnectionInvariant, PTL DEF ConnectionSpec

(* No packet is made of the bytes of two connections. (_parseStream makes  *)
(* a decoder for each)                                                     *)
THEOREM PacketsStayInTheirConnection ==
  ASSUME Careful, CarefulServer
  PROVE  ConnectionSpec => []PacketsAreOfOneConnection
<1>1. ConnectionInv => PacketsAreOfOneConnection  BY DEF ConnectionInv, DataSound
<1> QED  BY <1>1, ConnectionInvariant, PTL

(* An accepted socket is reported with the server that accepted it, and    *)
(* that is this._server as long as it listens. (_onServerConnection)       *)
THEOREM PeersAreAlwaysReportedRight ==
  ASSUME Careful, CarefulServer
  PROVE  ConnectionSpec => []PeersAreReportedWithTheirServer
<1>1. ConnectionInv => PeersAreReportedWithTheirServer
  BY ServersAreTheirs DEF ConnectionInv
<1> QED  BY <1>1, ConnectionInvariant, PTL

(* IpcSocket never stops listening in silence. (_onServerError)            *)
THEOREM SilenceIsNeverDeaf ==
  ASSUME Careful, CarefulServer
  PROVE  ConnectionSpec => []NeverSilentlyDeaf
<1>1. ConnectionInv => NeverSilentlyDeaf  BY ServersAreTheirs DEF ConnectionInv
<1> QED  BY <1>1, ConnectionInvariant, PTL
=============================================================================
