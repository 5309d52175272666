------------------------------- MODULE Sockets ------------------------------
(***************************************************************************)
(* The socket clients: NetworkClient, whose copies share one Impl and its  *)
(* socket; WiFiClient, which owns its socket; and SecureClient, which      *)
(* layers OpenSSL's context and session over a WiFiClient. The descriptors *)
(* are the kernel's: it hands out a number that is free, also one that was *)
(* closed a moment ago, and other parts of the simulator open sockets,     *)
(* too. Peers, OpenSSL and the abort callback are external.                *)
(***************************************************************************)
EXTENDS Naturals, FiniteSets

CONSTANTS
  Sockets,   (* the descriptors of the process                              *)
  Copies,    (* NetworkClient objects                                       *)
  Impls,     (* NetworkClient::Impl objects                                 *)
  MaxWrite,  (* bound: bytes of one write of SecureClient                   *)
  Absent     (* no descriptor, no Impl, a null pointer                      *)

ASSUME SocketsAssumption ==
  /\ Absent \notin Sockets \cup Impls
  /\ MaxWrite \in Nat
  /\ IsFiniteSet(Copies) /\ Cardinality(Copies) < Cardinality(Impls)

VARIABLES
  opened,    (* the descriptors that are open                               *)
  elsewhere, (* those the rest of the simulator has open                    *)
  impl,      (* NetworkClient::impl_ of each copy                           *)
  implFd,    (* NetworkClient::Impl::fd                                     *)
  plainFd,   (* WiFiClient::fd_ of a client without TLS                     *)
  tls,       (* SecureClient, where it stands in a call, and its WiFiClient *)
  abort,     (* what _shouldAbort answers                                   *)
  late       (* getTimeout() has passed since the call began                *)

netVars == <<impl, implFd>>
sockVars == <<opened, elsewhere, netVars, plainFd, tls, abort, late>>

Unused == Sockets \ opened

-----------------------------------------------------------------------------
(* The rest of the simulator.                                              *)

OpenElsewhere ==
  /\ \E fd \in Unused : /\ opened' = opened \cup {fd}
                        /\ elsewhere' = elsewhere \cup {fd}
  /\ UNCHANGED <<netVars, plainFd, tls, abort, late>>
CloseElsewhere ==
  /\ \E fd \in elsewhere : /\ opened' = opened \ {fd}
                           /\ elsewhere' = elsewhere \ {fd}
  /\ UNCHANGED <<netVars, plainFd, tls, abort, late>>

-----------------------------------------------------------------------------
(* NetworkClient                                                           *)

Holding(i) == {c \in Copies : impl[c] = i}

(* ~Impl closes the socket when the last copy lets go of it.               *)
Dying(c) ==
  IF impl[c] # Absent /\ Holding(impl[c]) = {c} THEN {implFd[impl[c]]}
  ELSE {}

(* stop() closes the socket for every copy. connect() opens the new one    *)
(* before; only the copy that connects gets it.                            *)
(* Seeded fault: the old socket is closed, but its Impl still names it.    *)
ConnectedKeepsFd(c, fd, i) ==
  /\ opened' = (opened \cup {fd}) \ (IF impl[c] = Absent THEN {}
                                     ELSE {implFd[impl[c]]})
  /\ implFd' = [implFd EXCEPT ![i] = fd]
ConnectedTo(c, fd, i) ==
  /\ opened' = (opened \cup {fd}) \ (IF impl[c] = Absent THEN {}
                                     ELSE {implFd[impl[c]]})
  /\ implFd' = [j \in Impls |-> IF j = i THEN fd
                                ELSE IF j = impl[c] THEN Absent ELSE implFd[j]]

NetConnect(c) ==
  /\ \E fd \in Unused, i \in Impls :
       /\ Holding(i) = {}
       /\ ConnectedTo(c, fd, i)
       /\ impl' = [impl EXCEPT ![c] = i]
  /\ UNCHANGED <<elsewhere, plainFd, tls, abort, late>>

NetStop(c) ==
  /\ impl[c] # Absent
  /\ opened' = opened \ {implFd[impl[c]]}
  /\ implFd' = [implFd EXCEPT ![impl[c]] = Absent]
  /\ UNCHANGED <<elsewhere, impl, plainFd, tls, abort, late>>

(* WebServer::client(): c holds a duplicate of the server's descriptor, or *)
(* an Impl without one.                                                    *)
NetDuplicate(c) ==
  /\ impl[c] = Absent
  /\ \E fd \in Unused \cup {Absent}, i \in Impls :
       /\ Holding(i) = {}
       /\ opened' = opened \cup ({fd} \ {Absent})
       /\ implFd' = [implFd EXCEPT ![i] = fd]
       /\ impl' = [impl EXCEPT ![c] = i]
  /\ UNCHANGED <<elsewhere, plainFd, tls, abort, late>>

(* c becomes a copy that holds new, or is destroyed.                       *)
NetAssign(c, new) ==
  /\ new # impl[c]
  /\ opened' = opened \ Dying(c)
  /\ implFd' = IF Dying(c) = {} THEN implFd
               ELSE [implFd EXCEPT ![impl[c]] = Absent]
  /\ impl' = [impl EXCEPT ![c] = new]
  /\ UNCHANGED <<elsewhere, plainFd, tls, abort, late>>

-----------------------------------------------------------------------------
(* WiFiClient                                                              *)

(* connect: stop(), then the first address that answers in time, or none.  *)
PlainConnect ==
  /\ \/ \E fd \in (Unused \cup {plainFd}) \ {Absent} :
          /\ opened' = (opened \ {plainFd}) \cup {fd}
          /\ plainFd' = fd
     \/ opened' = opened \ {plainFd} /\ plainFd' = Absent
  /\ UNCHANGED <<elsewhere, netVars, tls, abort, late>>

(* stop, and read, write or connected when the peer is gone or too slow.   *)
PlainStop ==
  /\ plainFd # Absent
  /\ opened' = opened \ {plainFd}
  /\ plainFd' = Absent
  /\ UNCHANGED <<elsewhere, netVars, tls, abort, late>>

-----------------------------------------------------------------------------
(* SecureClient                                                            *)

Stopped == [fd |-> Absent, ctx |-> FALSE, ssl |-> Absent, up |-> FALSE,
            aborted |-> tls.aborted, left |-> 0, pc |-> "idle"]

(* stop(): session, context, then the socket.                              *)
Stop ==
  /\ opened' = opened \ {tls.fd}
  /\ tls' = Stopped

Goto(label) == tls' = [tls EXCEPT !.pc = label] /\ UNCHANGED opened
Aborting == abort \/ tls.aborted

TlsConnect ==
  /\ tls.pc = "idle"
  /\ opened' = opened \ {tls.fd}
  /\ tls' = [Stopped EXCEPT !.aborted = abort,
                            !.pc = IF abort THEN "idle" ELSE "tcp"]
  /\ late' = FALSE
  /\ UNCHANGED <<elsewhere, netVars, plainFd, abort>>

(* _transport.connect, then the abort check.                               *)
TlsTransport ==
  /\ tls.pc = "tcp"
  /\ \/ \E fd \in Unused :
          IF abort THEN /\ tls' = [Stopped EXCEPT !.aborted = TRUE]
                        /\ UNCHANGED opened
          ELSE /\ opened' = opened \cup {fd}
               /\ tls' = [tls EXCEPT !.fd = fd, !.pc = "ctx"]
     \/ Stop

(* SSL_CTX_new and the trust anchors; each may fail.                       *)
TlsContext ==
  /\ tls.pc = "ctx"
  /\ \/ tls' = [tls EXCEPT !.ctx = TRUE, !.pc = "ssl"] /\ UNCHANGED opened
     \/ Stop

(* SSL_new and SSL_set_fd, the host name.                                  *)
TlsSession ==
  /\ tls.pc = "ssl"
  /\ \/ tls' = [tls EXCEPT !.ssl = tls.fd, !.pc = "handshake"]
        /\ UNCHANGED opened
     \/ Stop

(* One turn of the loop around SSL_connect or SSL_write: done, an error,   *)
(* or the peer is slow; then the abort flag and the clock decide whether   *)
(* there is another turn after delay(1).                                   *)
(* Seeded fault: the clock and the flag are not looked at.                 *)
GivesUpNever == FALSE
GivesUp == Aborting \/ late

TlsHandshake ==
  /\ tls.pc = "handshake"
  /\ IF Aborting
     THEN /\ opened' = opened \ {tls.fd}
          /\ tls' = [Stopped EXCEPT !.aborted = TRUE]
     ELSE \/ tls' = [tls EXCEPT !.up = TRUE, !.pc = "idle"] /\ UNCHANGED opened
          \/ Stop
          \/ ~GivesUp /\ Goto("handshakeDelay")

TlsWriteStart ==
  /\ tls.pc = "idle" /\ tls.up
  /\ tls' = [tls EXCEPT !.pc = "write", !.left = MaxWrite]
  /\ late' = FALSE
  /\ UNCHANGED <<opened, elsewhere, netVars, plainFd, abort>>

TlsWrite ==
  /\ tls.pc = "write"
  /\ \/ \E n \in 1 .. tls.left :
          /\ tls' = [tls EXCEPT
              !.left = @ - n,
              !.pc = IF n = tls.left THEN "idle" ELSE "write"]
          /\ UNCHANGED opened
     \/ opened' = opened \ {tls.fd} /\ tls' = Stopped
     \/ GivesUp /\ opened' = opened \ {tls.fd}
                /\ tls' = [Stopped EXCEPT !.aborted = Aborting]
     \/ ~GivesUp /\ Goto("writeDelay")

TlsDelay ==
  \/ tls.pc = "handshakeDelay" /\ Goto("handshake")
  \/ tls.pc = "writeDelay" /\ Goto("write")

(* read, peek, available, connected: an end or error stops the client.     *)
TlsRead ==
  /\ tls.pc = "idle" /\ tls.up
  /\ Stop
  /\ UNCHANGED <<elsewhere, netVars, plainFd, abort, late>>

TlsStop ==
  /\ tls.pc = "idle"
  /\ Stop
  /\ UNCHANGED <<elsewhere, netVars, plainFd, abort, late>>

TlsStep ==
  /\ \/ TlsTransport \/ TlsContext \/ TlsSession
     \/ TlsHandshake \/ TlsWrite \/ TlsDelay
  /\ UNCHANGED <<elsewhere, netVars, plainFd, abort, late>>

AskAbort ==
  /\ abort' = ~abort
  /\ UNCHANGED <<opened, elsewhere, netVars, plainFd, tls, late>>
TimeOut ==
  /\ tls.pc # "idle" /\ ~late
  /\ late' = TRUE
  /\ UNCHANGED <<opened, elsewhere, netVars, plainFd, tls, abort>>

-----------------------------------------------------------------------------

SocketsInit ==
  /\ opened = {} /\ elsewhere = {}
  /\ impl = [c \in Copies |-> Absent] /\ implFd = [i \in Impls |-> Absent]
  /\ plainFd = Absent
  /\ tls = [fd |-> Absent, ctx |-> FALSE, ssl |-> Absent, up |-> FALSE,
            aborted |-> FALSE, left |-> 0, pc |-> "idle"]
  /\ abort = FALSE /\ late = FALSE

SocketsNext ==
  \/ OpenElsewhere \/ CloseElsewhere
  \/ \E c \in Copies : NetConnect(c) \/ NetStop(c) \/ NetDuplicate(c)
  \/ \E c \in Copies, new \in {impl[d] : d \in Copies} \cup {Absent} :
       NetAssign(c, new)
  \/ PlainConnect \/ PlainStop
  \/ TlsConnect \/ TlsWriteStart \/ TlsRead \/ TlsStop \/ TlsStep
  \/ AskAbort \/ TimeOut

-----------------------------------------------------------------------------
(* Properties.                                                             *)

(* Every open descriptor has exactly one owner that will close it, and no  *)
(* owner names a closed one: whatever copies were made and connected       *)
(* again, whatever failed and however numbers are used again, nobody       *)
(* closes or writes to a descriptor of somebody else, and none leaks.      *)
Owners(fd) ==
  {<<"impl", i>> : i \in {j \in Impls : Holding(j) # {} /\ implFd[j] = fd}}
  \cup (IF plainFd = fd THEN {<<"plain">>} ELSE {})
  \cup (IF tls.fd = fd THEN {<<"tls">>} ELSE {})
  \cup (IF fd \in elsewhere THEN {<<"elsewhere">>} ELSE {})
OwnersAreRight ==
  \A fd \in Sockets :
    /\ fd \in opened <=> Owners(fd) # {}
    /\ \A o, p \in Owners(fd) : o = p

(* A session of OpenSSL is bound to the transport's own open descriptor    *)
(* and stands on a context; what a failed, aborted or ended connection     *)
(* leaves behind is nothing.                                               *)
LayersAreRight ==
  /\ tls.ssl # Absent => tls.ssl = tls.fd /\ tls.ctx
  /\ tls.up => tls.ssl # Absent
  /\ tls.pc = "idle" /\ ~tls.up => tls.fd = Absent /\ ~tls.ctx

SocketsOwned == OwnersAreRight /\ LayersAreRight

(* A call of SecureClient returns, however slow the peer is.               *)
CallsReturn == tls.pc # "idle" ~> tls.pc = "idle"
=============================================================================
