------------------------------ MODULE IpcSocket ------------------------------
(***************************************************************************)
(* The connecting side of IpcSocket and IpcPacketSocket: connect, what it  *)
(* does when a net.Socket connects, fails or closes, and the timer of the  *)
(* next attempt. Every callback runs to its end, so each is one step; what *)
(* interleaves is the order in which sockets, timers and the program get   *)
(* their turn.                                                             *)
(*                                                                         *)
(* The handlers act on this._socket as it is when they run, which need not *)
(* be the socket the event comes from.                                     *)
(***************************************************************************)
EXTENDS Integers, FiniteSets

CONSTANTS
  Sockets,         (* net.Socket objects, used again when closed             *)
  NoSocket,        (* this._socket before the first connect                  *)
  ConnectsOn,      (* the events after which the program calls connect       *)
  ProgramListens,  (* on 'connect' it adds an 'error' listener to the socket *)
  MaxReconnects    (* where _numReconnects stops counting: only whether it   *)
                   (* is zero is ever asked                                  *)

(* What the program may connect after: the start, and the events emitted,  *)
(* but for those that bring data. Two are called 'error'. "error" is the   *)
(* one of _onSocketError, with the error and the socket; "invalid" that of *)
(* the decoder, with the socket, the server and another error: a listener  *)
(* tells them apart by the first argument.                                 *)
Events == {"start", "connect", "reconnect", "close", "warn", "error", "invalid"}

ASSUME IpcSocketAssumption ==
  /\ NoSocket \notin Sockets
  /\ ConnectsOn \subseteq Events
  /\ ProgramListens \in BOOLEAN
  /\ MaxReconnects \in Nat \ {0}

VARIABLES
  up,             (* a server listens at the address                         *)
  socket,         (* per net.Socket: its state, and its listeners            *)
  current,        (* _socket                                                 *)
  timers,         (* how many timers of reconnect are pending                *)
  numReconnects,  (* _numReconnects                                          *)
  event,          (* the last of these events                                *)
  answered,       (* the program has called connect since that event         *)
  connectedOnce,  (* ghost: 'connect' or 'reconnect' has been emitted        *)
  crashed         (* a socket emitted 'error' and had no listener for it     *)

vars == <<up, socket, current, timers, numReconnects, event, answered,
          connectedOnce, crashed>>

(* onData counts the listeners _parseStream added, each with a decoder;    *)
(* onClose those of _onSocketConnect; guarded is the program's own.        *)
Free == [state |-> "free", onError |-> FALSE, onConnect |-> FALSE,
         guarded |-> FALSE, onData |-> 0, onClose |-> 0]

Init ==
  /\ up \in BOOLEAN
  /\ socket = [s \in Sockets |-> Free]
  /\ current = NoSocket
  /\ timers = 0
  /\ numReconnects = 0
  /\ event = "start"
  /\ answered = FALSE
  /\ connectedOnce = FALSE
  /\ crashed = FALSE

InState(s, state) == socket[s].state = state
Live == {s \in Sockets : ~InState(s, "free")}
Connected == {s \in Sockets : InState(s, "connected")}

Counted(n) == IF n > MaxReconnects THEN MaxReconnects ELSE n

Emit(e) ==
  /\ event' = e
  /\ answered' = FALSE

(***************************************************************************)
(* connect and reconnect                                                   *)
(***************************************************************************)
Connecting == [Free EXCEPT !.state = "connecting", !.onError = TRUE,
                           !.onConnect = TRUE]

Connect ==
  \E s \in Sockets :
    /\ InState(s, "free")
    /\ socket' = [socket EXCEPT ![s] = Connecting]
    /\ current' = s

(* As bugs: the attempts are not counted, or counted without end.          *)
ReconnectUncounted(times) ==
  /\ timers' = timers + times
  /\ UNCHANGED numReconnects

ReconnectUnbounded(times) ==
  /\ numReconnects' = numReconnects + times
  /\ timers' = timers + times

(* options.delayReconnect is never 0, so it always waits for a timer.      *)
Reconnect(times) ==
  /\ numReconnects' = Counted(numReconnects + times)
  /\ timers' = timers + times

(* The program connects at the start and, as its listeners decide, again.  *)
ProgramConnects ==
  /\ ~answered
  /\ event \in ConnectsOn
  /\ Connect
  /\ answered' = TRUE
  /\ UNCHANGED <<up, timers, numReconnects, event, connectedOnce, crashed>>

TimerFires ==
  /\ timers > 0
  /\ timers' = timers - 1
  /\ Connect
  /\ UNCHANGED <<up, numReconnects, event, answered, connectedOnce, crashed>>

(***************************************************************************)
(* Events of the sockets                                                   *)
(***************************************************************************)

(* 'connect' of s: _onSocketConnect prepares this._socket.                 *)
Prepared(s) ==
  [s EXCEPT !.onError = FALSE, !.guarded = ProgramListens,
            !.onData = s.onData + 1, !.onClose = s.onClose + 1]

OnSocketConnect(s) ==
  /\ socket' = [[socket EXCEPT ![s].state = "connected", ![s].onConnect = FALSE]
                   EXCEPT ![current] = Prepared(@)]
  /\ Emit(IF numReconnects > 0 THEN "reconnect" ELSE "connect")
  /\ numReconnects' = 0
  /\ connectedOnce' = TRUE

SocketConnects(s) ==
  /\ InState(s, "connecting")
  /\ up
  /\ IF socket[s].onConnect
     THEN OnSocketConnect(s)
     ELSE /\ socket' = [socket EXCEPT ![s].state = "connected"]
          /\ UNCHANGED <<numReconnects, event, answered, connectedOnce>>
  /\ UNCHANGED <<up, current, timers, crashed>>

(* As bugs: the attempt is repeated and the program told as well; or it is *)
(* neither repeated nor told.                                              *)
RetryAndTell(s, code) ==
  /\ socket' = [[socket EXCEPT ![s].state = "failed", ![s].onError = FALSE]
                   EXCEPT ![current].onConnect = FALSE]
  /\ Emit("error")
  /\ IF code = "ECONNREFUSED" /\ numReconnects > 0
     THEN Reconnect(1)
     ELSE UNCHANGED <<timers, numReconnects>>

GiveUpQuietly(s, code) ==
  /\ socket' = [[socket EXCEPT ![s].state = "failed", ![s].onError = FALSE]
                   EXCEPT ![current].onConnect = FALSE]
  /\ Emit(IF code = "ECONNREFUSED" /\ numReconnects > 0 THEN "warn" ELSE "error")
  /\ UNCHANGED <<timers, numReconnects>>

(* 'error' of s while it connects: _onSocketError, for this._socket.       *)
OnSocketError(s, code) ==
  /\ socket' = [[socket EXCEPT ![s].state = "failed", ![s].onError = FALSE]
                   EXCEPT ![current].onConnect = FALSE]
  /\ \/ /\ code = "ECONNREFUSED" /\ numReconnects > 0
        /\ Emit("warn")
        /\ Reconnect(1)
     \/ /\ ~(code = "ECONNREFUSED" /\ numReconnects > 0)
        /\ Emit("error")
        /\ UNCHANGED <<timers, numReconnects>>

Unhandled(s) ==
  /\ crashed' = TRUE
  /\ socket' = [socket EXCEPT ![s].state = "failed"]
  /\ UNCHANGED <<timers, numReconnects, event, answered>>

SocketFails(s, code) ==
  /\ InState(s, "connecting")
  /\ code = "ECONNREFUSED" => ~up
  /\ \/ socket[s].onError /\ OnSocketError(s, code) /\ UNCHANGED crashed
     \/ ~socket[s].onError /\ Unhandled(s)
  /\ UNCHANGED <<up, current, connectedOnce>>

(* 'error' of s once it is connected: its listeners were all removed, but  *)
(* for the one the program has added since.                                *)
SocketBreaks(s) ==
  /\ InState(s, "connected")
  /\ \/ /\ socket[s].guarded
        /\ socket' = [socket EXCEPT ![s].state = "failed"]
        /\ UNCHANGED <<timers, numReconnects, event, answered, crashed>>
     \/ /\ socket[s].onError /\ ~socket[s].guarded
        /\ OnSocketError(s, "ECONNRESET")
        /\ UNCHANGED crashed
     \/ /\ ~socket[s].onError /\ ~socket[s].guarded
        /\ Unhandled(s)
  /\ UNCHANGED <<up, current, connectedOnce>>

(* 'data' of s: handleData of its decoder comes to the end of the bytes,   *)
(* takes the header that is not there for an invalid one, and emits        *)
(* 'error', whatever the bytes were. (DeclareHeader, isNotValid)           *)
SocketReceives(s) ==
  /\ InState(s, "connected")
  /\ socket[s].onData > 0
  /\ Emit("invalid")
  /\ UNCHANGED <<up, socket, current, timers, numReconnects, connectedOnce, crashed>>

(* 'close' of s, after an 'error', or because either end closed it: each   *)
(* listener emits 'close' and reconnects. The data listener goes with s.   *)
SocketCloses(s) ==
  /\ InState(s, "failed") \/ InState(s, "connected")
  /\ socket' = [socket EXCEPT ![s] = Free]
  /\ \/ /\ socket[s].onClose > 0
        /\ Emit("close")
        /\ Reconnect(socket[s].onClose)
     \/ /\ socket[s].onClose = 0
        /\ UNCHANGED <<timers, numReconnects, event, answered>>
  /\ UNCHANGED <<up, current, connectedOnce, crashed>>

(***************************************************************************)
(* The server at the other end starts and stops                            *)
(***************************************************************************)
ServerStarts ==
  /\ ~up
  /\ up' = TRUE
  /\ UNCHANGED <<socket, current, timers, numReconnects, event, answered,
                 connectedOnce, crashed>>

ServerStops ==
  /\ up
  /\ up' = FALSE
  /\ UNCHANGED <<socket, current, timers, numReconnects, event, answered,
                 connectedOnce, crashed>>

Codes == {"ECONNREFUSED", "ETIMEDOUT"}

Fails(s) == \E code \in Codes : SocketFails(s, code)

Next ==
  /\ ~crashed
  /\ \/ ProgramConnects
     \/ TimerFires
     \/ \E s \in Sockets : \/ SocketConnects(s)
                           \/ Fails(s)
                           \/ SocketBreaks(s)
                           \/ SocketReceives(s)
                           \/ SocketCloses(s)
     \/ ServerStarts
     \/ ServerStops

(* Node runs a timer once it is due, tells of every attempt how it ended,  *)
(* and emits 'close' after 'error'. Nothing makes a connection close, a    *)
(* server start, or the program call connect.                              *)
Fairness ==
  /\ WF_vars(~crashed /\ TimerFires)
  /\ \A s \in Sockets :
       /\ WF_vars(~crashed /\ (SocketConnects(s) \/ Fails(s)))
       /\ WF_vars(~crashed /\ InState(s, "failed") /\ SocketCloses(s))

Spec == Init /\ [][Next]_vars /\ Fairness

(***************************************************************************)
(* Properties                                                              *)
(***************************************************************************)

(* Every variable has its type. *)
TypeOK ==
  /\ up \in BOOLEAN
  /\ socket \in [Sockets ->
       [state : {"free", "connecting", "connected", "failed"},
        onError : BOOLEAN, onConnect : BOOLEAN, guarded : BOOLEAN,
        onData : Nat, onClose : Nat]]
  /\ current \in Sockets \cup {NoSocket}
  /\ timers \in Nat
  /\ numReconnects \in 0 .. MaxReconnects
  /\ event \in Events
  /\ answered \in BOOLEAN
  /\ connectedOnce \in BOOLEAN
  /\ crashed \in BOOLEAN

(* A closed connection starts one chain of attempts: there is one socket   *)
(* being tried or in use, or one timer, never two that would fight for     *)
(* this._socket. A socket that is on its way to 'close' may linger beside. *)
(* (Of a program that does not connect on the 'error' of the decoder: one  *)
(* that does has a second socket with the first data.)                     *)
OneAttempt ==
  Cardinality({s \in Live : ~InState(s, "failed") \/ socket[s].onClose > 0})
    + timers <= 1

(* A connected socket feeds one decoder, tells of its closing once, and is *)
(* the one the program finds in ipcSocket.socket.                          *)
ConnectedSocketIsServed ==
  \A s \in Connected :
    /\ socket[s].onData = 1
    /\ socket[s].onClose = 1
    /\ s = current

(* IpcSocket never gives up in silence: if nothing is live and no timer    *)
(* runs after a connect, the last the program was told is the 'error' of   *)
(* _onSocketError, and not that of the decoder.                            *)
NeverSilentlyIdle ==
  Live = {} /\ timers = 0 => event \in {"start", "error"}

(* The first connection is announced by 'connect' and every later one by   *)
(* 'reconnect', whatever failed, or was received, in between.              *)
AnnouncesReconnections ==
  [][\A s \in Sockets :
       OnSocketConnect(s) =>
         event' = IF connectedOnce THEN "reconnect" ELSE "connect"]_vars

(* An 'error' of a socket always reaches a listener. *)
SocketErrorsAreHandled == ~crashed
=============================================================================
