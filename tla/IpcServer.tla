------------------------------ MODULE IpcServer ------------------------------
(***************************************************************************)
(* The listening side of IpcSocket and IpcPacketSocket: listen, what it    *)
(* does when a net.Server listens or fails, and the sockets it accepts.    *)
(*                                                                         *)
(* The handlers act on this._server as it is when they run, which need not *)
(* be the server the event comes from.                                     *)
(***************************************************************************)
EXTENDS Integers, FiniteSets

CONSTANTS
  Servers,       (* net.Server objects, used again when closed               *)
  NoServer,      (* this._server before the first listen                     *)
  Peers,         (* net.Socket objects the servers accept, by their other    *)
                 (* ends, used again when closed                             *)
  ListensOn,     (* after which of the occasions the program calls listen    *)
  ServerGuarded  (* the program adds an 'error' listener to the server on    *)
                 (* 'listening' and to a socket on 'connection'              *)

(* The events of net.Servers, and their stop. What is emitted for accepted *)
(* sockets ('connection', 'close', the 'error' of a decoder) is not among  *)
(* them: the program does not listen because of these.                     *)
Occasions == {"start", "listening", "stopped", "error"}

ASSUME IpcServerAssumption ==
  /\ NoServer \notin Servers
  /\ ListensOn \subseteq Occasions
  /\ ServerGuarded \in BOOLEAN

VARIABLES
  server,         (* per net.Server: its state, and its listeners            *)
  listener,       (* _server                                                 *)
  peer,           (* per accepted socket: its state, and its listeners       *)
  occasion,       (* the last event emitted for a server, or its stop        *)
  replied,        (* the program has called listen since                     *)
  serverCrashed   (* 'error' was emitted and had no listener                 *)

serverVars == <<server, listener, peer, occasion, replied, serverCrashed>>

Closed == [state |-> "closed", onError |-> FALSE, guarded |-> FALSE]

(* `reported` is the server the listeners of 'connection' are told,        *)
(* `acceptor` the one that accepted.                                       *)
NoPeer == [state |-> "none", onData |-> 0, onClose |-> 0, guarded |-> FALSE,
           reported |-> NoServer, acceptor |-> NoServer]

ServerInit ==
  /\ server = [v \in Servers |-> Closed]
  /\ listener = NoServer
  /\ peer = [s \in Peers |-> NoPeer]
  /\ occasion = "start"
  /\ replied = FALSE
  /\ serverCrashed = FALSE

Listening == {v \in Servers : server[v].state = "listening"}

Tell(o) ==
  /\ occasion' = o
  /\ replied' = FALSE

(***************************************************************************)
(* listen                                                                  *)
(***************************************************************************)
Listen ==
  \E v \in Servers :
    /\ server[v] = Closed
    /\ server' = [server EXCEPT ![v].state = "opening", ![v].onError = TRUE]
    /\ listener' = v

ProgramServes ==
  /\ ~replied
  /\ occasion \in ListensOn
  /\ Listen
  /\ replied' = TRUE
  /\ UNCHANGED <<peer, occasion, serverCrashed>>

(* As a bug: the listeners of 'error' are removed once 'listening' was     *)
(* emitted, with the one the program has just added.                       *)
TellThenRemove(v) ==
  /\ server' = [[server EXCEPT ![v].state = "listening"]
                  EXCEPT ![listener].onError = FALSE, ![listener].guarded = FALSE]
  /\ Tell("listening")

(* 'listening' of v: _onServerListening, for this._server.                 *)
OnServerListening(v) ==
  /\ server' = [[server EXCEPT ![v].state = "listening"]
                  EXCEPT ![listener].onError = FALSE,
                         ![listener].guarded = ServerGuarded]
  /\ Tell("listening")

(* The address is that of one server at a time. *)
ServerListens(v) ==
  /\ server[v].state = "opening"
  /\ Listening = {}
  /\ OnServerListening(v)
  /\ UNCHANGED <<listener, peer, serverCrashed>>

(* As bugs: an error is not passed on; or listen is tried again as well.   *)
OnServerErrorQuietly(v) ==
  /\ server' = [server EXCEPT ![v] = Closed]
  /\ UNCHANGED <<listener, occasion, replied>>

OnServerErrorAgain(v) ==
  /\ \E u \in Servers \ {v} :
       /\ server[u] = Closed
       /\ server' = [server EXCEPT ![v] = Closed, ![u].state = "opening",
                                   ![u].onError = TRUE]
       /\ listener' = u
  /\ Tell("error")

(* 'error' of v: _onServerError; a server that could not listen is closed. *)
OnServerError(v) ==
  /\ server' = [server EXCEPT ![v] = IF @.state = "opening" THEN Closed
                                     ELSE [@ EXCEPT !.onError = FALSE]]
  /\ Tell("error")
  /\ UNCHANGED listener

ServerUnhandled ==
  /\ serverCrashed' = TRUE
  /\ UNCHANGED <<server, listener, occasion, replied>>

(* The address is taken or, once v listens, a connection cannot be         *)
(* accepted.                                                               *)
ServerFails(v) ==
  /\ server[v] # Closed
  /\ \/ /\ server[v].guarded
        /\ UNCHANGED <<server, listener, occasion, replied, serverCrashed>>
     \/ /\ server[v].onError /\ ~server[v].guarded
        /\ OnServerError(v)
        /\ UNCHANGED serverCrashed
     \/ /\ ~server[v].onError /\ ~server[v].guarded
        /\ ServerUnhandled
  /\ UNCHANGED peer

(* The program closes ipcSocket.server: what it has accepted stays, what   *)
(* it has not is dropped.                                                  *)
ProgramStops ==
  /\ listener \in Listening
  /\ server' = [server EXCEPT ![listener] = Closed]
  /\ peer' = [s \in Peers |-> IF peer[s].state = "pending" THEN NoPeer ELSE peer[s]]
  /\ Tell("stopped")
  /\ UNCHANGED <<listener, serverCrashed>>

(***************************************************************************)
(* The sockets it accepts                                                  *)
(***************************************************************************)

(* 'connection' of v: _onServerConnection, for this._server.               *)
OnServerConnection(s, v) ==
  peer' = [peer EXCEPT ![s] = [state |-> "open", onData |-> @.onData + 1,
                               onClose |-> @.onClose + 1, guarded |-> ServerGuarded,
                               reported |-> listener, acceptor |-> v]]

Accept(s) ==
  /\ peer[s].state = "pending"
  /\ \E v \in Listening : OnServerConnection(s, v)
  /\ UNCHANGED <<server, listener, occasion, replied, serverCrashed>>

(* 'error' of an accepted socket: no listener but the program's own. *)
PeerBreaks(s) ==
  /\ peer[s].state = "open"
  /\ \/ /\ peer[s].guarded
        /\ peer' = [peer EXCEPT ![s].state = "failed"]
        /\ UNCHANGED serverCrashed
     \/ /\ ~peer[s].guarded
        /\ serverCrashed' = TRUE
        /\ UNCHANGED peer
  /\ UNCHANGED <<server, listener, occasion, replied>>

(* 'close' of an accepted socket, after an 'error' or because either end   *)
(* closed it.                                                              *)
PeerCloses(s) ==
  /\ peer[s].state \in {"open", "failed"}
  /\ peer' = [peer EXCEPT ![s] = NoPeer]
  /\ UNCHANGED <<server, listener, occasion, replied, serverCrashed>>

(* The process ends, whatever it was doing, and another takes its place.   *)
ServerRestarts ==
  /\ server' = [v \in Servers |-> Closed]
  /\ listener' = NoServer
  /\ peer' = [s \in Peers |-> NoPeer]
  /\ Tell("start")
  /\ UNCHANGED serverCrashed

(***************************************************************************)
(* Properties                                                              *)
(***************************************************************************)
ServerTypeOK ==
  /\ server \in [Servers -> [state : {"closed", "opening", "listening"},
                             onError : BOOLEAN, guarded : BOOLEAN]]
  /\ listener \in Servers \cup {NoServer}
  /\ peer \in [Peers ->
       [state : {"none", "pending", "open", "failed"}, onData : 0 .. 1,
        onClose : 0 .. 1, guarded : BOOLEAN, reported : Servers \cup {NoServer},
        acceptor : Servers \cup {NoServer}]]
  /\ occasion \in Occasions
  /\ replied \in BOOLEAN
  /\ serverCrashed \in BOOLEAN

(* An accepted socket is reported with the server that accepted it, which  *)
(* is the one the program finds in ipcSocket.server as long as it listens. *)
PeersAreReportedWithTheirServer ==
  /\ \A s \in Peers : peer[s].reported = peer[s].acceptor
  /\ Listening \subseteq {listener}

(* IpcSocket never stops serving in silence: if no server listens or is    *)
(* about to, the program has not begun, has stopped it, or was told by     *)
(* 'error', and that since it last called listen. (_onServerError)         *)
NeverSilentlyDeaf ==
  (\A v \in Servers : server[v] = Closed) =>
    ~replied /\ occasion \in {"start", "stopped", "error"}
=============================================================================
