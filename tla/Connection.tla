------------------------------ MODULE Connection ------------------------------
(***************************************************************************)
(* Two processes with an IpcPacketSocket each: IpcSocket connects, and     *)
(* what it connects to is IpcServer, which may fail, stop, or die and come *)
(* back. Between the two, TCP: a connection is there for the connecting    *)
(* end first, and one end may close, or break, long before the other is    *)
(* told. A socket and the one accepted for it have the same name.          *)
(*                                                                         *)
(* The serving program writes packets to what it has accepted, and TCP     *)
(* cuts each in two halves; what is under way is lost with the connection. *)
(* The connecting program writes nothing, so no decoder of an accepted     *)
(* socket runs.                                                            *)
(***************************************************************************)
EXTENDS IpcSocket, IpcServer

CONSTANT MaxHalves  (* bound on the halves of packets on one connection      *)

ASSUME ConnectionAssumption == Peers = Sockets /\ MaxHalves \in Nat

VARIABLES
  wire,    (* per connection: the halves written, and those that arrived     *)
  decoder  (* the IpcPacketSocketDecoder made last: the socket it is for,    *)
           (* and the halves it holds                                        *)

allVars == <<vars, serverVars, wire, decoder>>
data == <<wire, decoder>>

NoWire == [written |-> 0, arrived |-> 0]
NewDecoder(s) == [of |-> s, held |-> 0]

ConnectionInit ==
  /\ Init
  /\ ServerInit
  /\ up = FALSE
  /\ wire = [s \in Sockets |-> NoWire]
  /\ decoder = NewDecoder(NoSocket)

(***************************************************************************)
(* The connecting process                                                  *)
(***************************************************************************)
Reused == {s \in Sockets : InState(s, "free") /\ socket'[s].state # "free"}

(* A socket is used again when nothing is left of it at the other end. *)
Connects ==
  /\ ProgramConnects \/ TimerFires
  /\ \A s \in Reused : peer[s].state = "none"
  /\ UNCHANGED <<serverVars, data>>

(* As a bug: the decoder there is goes on with the new socket.             *)
ParseStreamOnce(s) == decoder' = [decoder EXCEPT !.of = s]

(* _parseStream makes a decoder. *)
ParseStream(s) == decoder' = NewDecoder(s)

Established(s) ==
  /\ SocketConnects(s)
  /\ IF socket[s].onConnect THEN ParseStream(current) ELSE UNCHANGED decoder
  /\ peer' = [peer EXCEPT ![s].state = "pending"]
  /\ UNCHANGED <<server, listener, occasion, replied, serverCrashed, wire>>

NotEstablished(s) == Fails(s) /\ UNCHANGED <<serverVars, data>>

Breaks(s) == SocketBreaks(s) /\ UNCHANGED <<serverVars, data>>

Closes(s) ==
  /\ SocketCloses(s)
  /\ wire' = [wire EXCEPT ![s] = NoWire]
  /\ UNCHANGED <<serverVars, decoder>>

(* 'data' of s: handleData of its decoder takes half a packet in, and ends *)
(* with an 'error' after the first half as after the second.               *)
HandleData(s) ==
  /\ SocketReceives(s)
  /\ wire[s].arrived < wire[s].written
  /\ wire' = [wire EXCEPT ![s].arrived = @ + 1]
  /\ decoder' = [decoder EXCEPT !.held = 1 - @]
  /\ UNCHANGED serverVars

(***************************************************************************)
(* The serving process                                                     *)
(***************************************************************************)
Serving(action) ==
  /\ action
  /\ up' = (\E v \in Servers : server'[v].state = "listening")
  /\ UNCHANGED <<socket, current, timers, numReconnects, event, answered,
                 connectedOnce, crashed, data>>

(* The program writes half a packet to a socket it was told of. *)
WriteHalf(s) ==
  /\ peer[s].state = "open"
  /\ InState(s, "connected")
  /\ wire[s].written < MaxHalves
  /\ wire' = [wire EXCEPT ![s].written = @ + 1]
  /\ UNCHANGED <<vars, serverVars, decoder>>

ServerStep ==
  \/ ProgramServes
  \/ \E v \in Servers : ServerListens(v) \/ ServerFails(v)
  \/ ProgramStops
  \/ \E s \in Sockets : Accept(s) \/ PeerBreaks(s) \/ PeerCloses(s)
  \/ ServerRestarts

ConnectionNext ==
  /\ ~crashed /\ ~serverCrashed
  /\ \/ Connects
     \/ \E s \in Sockets : \/ Established(s)
                           \/ NotEstablished(s)
                           \/ Breaks(s)
                           \/ Closes(s)
                           \/ HandleData(s)
                           \/ WriteHalf(s)
     \/ Serving(ServerStep)

Running(action) == ~crashed /\ ~serverCrashed /\ action

(* Beside what IpcSocket may rely on: a server accepts what has connected, *)
(* and an end whose other end is gone is told by 'error' or by 'close'.    *)
ConnectionFairness ==
  /\ WF_allVars(Running(TimerFires /\ Connects))
  /\ \A s \in Sockets :
       /\ WF_allVars(Running(Established(s) \/ NotEstablished(s)))
       /\ WF_allVars(Running((InState(s, "failed") \/ peer[s].state = "none") /\ Closes(s)))
       /\ WF_allVars(Running((peer[s].state = "failed" \/ ~InState(s, "connected"))
                             /\ Serving(PeerCloses(s))))
       /\ WF_allVars(Running(Serving(Accept(s))))

ConnectionSpec ==
  ConnectionInit /\ [][ConnectionNext]_allVars /\ ConnectionFairness

(***************************************************************************)
(* Properties                                                              *)
(***************************************************************************)

(* Every variable has its type. *)
ConnectionTypeOK ==
  /\ TypeOK
  /\ ServerTypeOK
  /\ wire \in [Sockets -> [written : 0 .. MaxHalves, arrived : 0 .. MaxHalves]]
  /\ decoder \in [of : Sockets \cup {NoSocket}, held : 0 .. 1]

(* The half of a packet that a lost connection leaves is never completed   *)
(* with the bytes of the next: the decoder of the socket in use is its own *)
(* and holds what this connection brought and did not complete.            *)
PacketsAreOfOneConnection ==
  \A s \in Connected :
    decoder.of = s /\ decoder.held = wire[s].arrived % 2

(* No 'error' of a socket or of a server, at either end, is without a      *)
(* listener that would keep the process from ending.                       *)
ErrorsAreHandled == ~crashed /\ ~serverCrashed

(* One end of a connection that is there at both ends goes. *)
Lost(s) ==
  /\ InState(s, "connected") /\ peer[s].state \in {"pending", "open"}
  /\ socket'[s].state # "connected" \/ peer'[s].state \notin {"pending", "open"}

(* Whatever happened to the servers and the connections before, when a     *)
(* server is there to stay and connections no longer break, the program    *)
(* that lost one is connected to a server that has accepted it, or was     *)
(* told by the 'error' of _onSocketError that it will not be.              *)
IsServedAgain ==
  <>[]up /\ <>[][\A s \in Sockets : ~Lost(s)]_allVars =>
    [](event = "close" =>
         <>(event = "error" \/ \E s \in Connected : peer[s].state = "open"))
=============================================================================
