------------------------------ MODULE TcpServer ------------------------------
(***************************************************************************)
(* The manager's TCP server (TCPServer of network_utils.py): start and     *)
(* stop in the caller's thread, the accept loop in a thread that stop does *)
(* not join, and send_firmware_package in a third one.  They share         *)
(* is_running, server_socket and client_socket without a lock.             *)
(*                                                                         *)
(* Connections are numbered in the order gateways make them, listening     *)
(* sockets in the order of start.  A listening socket that is closed while *)
(* a thread is in its accept() either wakes that thread with an error or   *)
(* goes on taking one connection, as the platform has it.                  *)
(***************************************************************************)
EXTENDS Naturals, Sequences

CONSTANTS
    MaxConns,    \* bound on the connections gateways make
    MaxStarts,   \* bound on the calls of start
    MaxSends,    \* bound on the calls of send_firmware_package
    MaxErrors,   \* bound on the errors of accept() itself and of Thread.start
    Chunks       \* 4096-byte chunks in a package

ASSUME ServerAssumption ==
    /\ {MaxConns, MaxStarts, MaxSends, MaxErrors} \subseteq Nat
    /\ Chunks \in Nat \ {0}

VARIABLES
    isRunning,   \* self.is_running
    listener,    \* self.server_socket, None = 0
    client,      \* self.client_socket, None = 0
    ctl,         \* the caller's thread: pc, and the client when it called stop
    starts,      \* calls of start so far
    acc,         \* the accept threads, one per start
    queue,       \* the listening socket a connection waits at, 0: at none
    conns,       \* connections made so far
    closed,      \* connections closed at either end
    snd,         \* the sending thread: pc, call, next chunk, socket in use
    got,         \* the chunks each connection has been sent
    stopped,     \* clients the server had at calls of stop that have returned
    errors

control == <<isRunning, listener, ctl, starts, stopped>>
network == <<queue, conns>>
vars == <<control, client, acc, network, closed, snd, got, errors>>

None == 0
Conn == 1 .. MaxConns
Thread == 1 .. MaxStarts

(* A server_socket whose bind() or listen() failed: nobody can connect.    *)
Unbound == MaxStarts + 1

-----------------------------------------------------------------------------
(* start and stop, in the thread of the caller.                            *)

(* start, up to listen() and is_running; it raises when already running.   *)
StartListen ==
    /\ ctl.pc = "idle" /\ ~isRunning /\ starts < MaxStarts
    /\ starts' = starts + 1
    /\ listener' = starts + 1
    /\ isRunning' = TRUE
    /\ ctl' = [ctl EXCEPT !.pc = "start"]
    /\ UNCHANGED <<client, acc, network, closed, snd, got, stopped, errors>>

(* bind() or listen() raises, and start with it.                           *)
StartUnbound ==
    /\ ctl.pc = "idle" /\ ~isRunning
    /\ listener' = Unbound
    /\ UNCHANGED <<isRunning, starts, ctl, stopped, client, acc, network, closed, snd, got, errors>>

(* start, the rest: the accept thread is created.                          *)
StartThread ==
    /\ ctl.pc = "start"
    /\ ctl' = [ctl EXCEPT !.pc = "idle"]
    /\ acc' = [acc EXCEPT ![listener] = [@ EXCEPT !.pc = "loop"]]
    /\ UNCHANGED <<isRunning, listener, starts, client, network, closed, snd, got, stopped, errors>>

(* The Thread's start() raises: is_running stays set.                      *)
StartNoThread ==
    /\ ctl.pc = "start" /\ errors < MaxErrors
    /\ errors' = errors + 1
    /\ ctl' = [ctl EXCEPT !.pc = "idle"]
    /\ UNCHANGED <<isRunning, listener, starts, stopped, client, acc, network, closed, snd, got>>

StopRunning ==
    /\ ctl.pc = "idle"
    /\ isRunning' = FALSE
    /\ ctl' = [pc |-> "stopClient", held |-> client]
    /\ UNCHANGED <<listener, starts, client, acc, network, closed, snd, got, stopped, errors>>

StopClient ==
    /\ ctl.pc = "stopClient"
    /\ closed' = closed \union ({client} \ {None})
    /\ ctl' = [ctl EXCEPT !.pc = IF client # None THEN "dropClient" ELSE "stopListener"]
    /\ UNCHANGED <<isRunning, listener, starts, client, acc, network, snd, got, stopped, errors>>

(* Mutant: the closed client socket is not set to None.                    *)
DropClientForgotten ==
    /\ ctl.pc = "dropClient"
    /\ ctl' = [ctl EXCEPT !.pc = "stopListener"]
    /\ UNCHANGED <<isRunning, listener, starts, client, acc, network, closed, snd, got, stopped, errors>>

DropClient ==
    /\ ctl.pc = "dropClient"
    /\ client' = None
    /\ ctl' = [ctl EXCEPT !.pc = "stopListener"]
    /\ UNCHANGED <<isRunning, listener, starts, acc, network, closed, snd, got, stopped, errors>>

(* The listening socket is closed: connections that wait at it are reset,  *)
(* unless a thread is in its accept().                                     *)
StopListener ==
    /\ ctl.pc = "stopListener"
    /\ listener' = None
    /\ LET blocked == \E t \in Thread : acc[t].pc = "accept" /\ acc[t].sock = listener
           reset == {c \in Conn : listener # None /\ queue[c] = listener /\ ~blocked}
       IN  /\ queue' = [c \in Conn |-> IF c \in reset THEN None ELSE queue[c]]
           /\ closed' = closed \union reset
    /\ stopped' = stopped \union ({ctl.held} \ {None})
    /\ ctl' = [pc |-> "idle", held |-> None]
    /\ UNCHANGED <<isRunning, starts, client, acc, conns, snd, got, errors>>

-----------------------------------------------------------------------------
(* _accept_loop, in thread t.                                              *)

(* Mutant: no other client is accepted while there is one.                 *)
AcceptCheckOneClient(t) ==
    /\ acc[t].pc = "loop" /\ client = None
    /\ acc' = [acc EXCEPT ![t].pc = IF isRunning THEN "read" ELSE "done"]
    /\ UNCHANGED <<control, client, network, closed, snd, got, errors>>

AcceptCheck(t) ==
    /\ acc[t].pc = "loop"
    /\ acc' = [acc EXCEPT ![t].pc = IF isRunning THEN "read" ELSE "done"]
    /\ UNCHANGED <<control, client, network, closed, snd, got, errors>>

(* self.server_socket is read for accept(), after is_running: stop may     *)
(* have set it to None (which raises: break), and start to a new socket,   *)
(* whose accept() raises when it is not bound.                             *)
AcceptRead(t) ==
    /\ acc[t].pc = "read"
    /\ acc' = [acc EXCEPT ![t] = IF listener \in {None, Unbound} THEN [@ EXCEPT !.pc = "done"]
                                 ELSE [@ EXCEPT !.pc = "accept", !.sock = listener]]
    /\ UNCHANGED <<control, client, network, closed, snd, got, errors>>

AcceptConn(t) ==
    /\ acc[t].pc = "accept"
    /\ \E c \in Conn :
        /\ queue[c] = acc[t].sock
        /\ \A d \in 1 .. c - 1 : queue[d] # queue[c]
        /\ queue' = [queue EXCEPT ![c] = None]
        /\ acc' = [acc EXCEPT ![t] = [@ EXCEPT !.pc = "close", !.conn = c]]
    /\ UNCHANGED <<control, client, conns, closed, snd, got, errors>>

(* accept() raises, on a closed socket or for a reason of its own: break.  *)
AcceptError(t) ==
    /\ acc[t].pc = "accept"
    /\ IF acc[t].sock # listener THEN UNCHANGED errors
       ELSE errors < MaxErrors /\ errors' = errors + 1
    /\ acc' = [acc EXCEPT ![t] = [@ EXCEPT !.pc = "done"]]
    /\ LET reset == {c \in Conn : acc[t].sock # listener /\ queue[c] = acc[t].sock}
       IN  /\ queue' = [c \in Conn |-> IF c \in reset THEN None ELSE queue[c]]
           /\ closed' = closed \union reset
    /\ UNCHANGED <<control, client, conns, snd, got>>

(* "Close previous client if exists".                                      *)
CloseOld(t) ==
    /\ acc[t].pc = "close"
    /\ closed' = closed \union ({client} \ {None})
    /\ acc' = [acc EXCEPT ![t] = [@ EXCEPT !.pc = "assign"]]
    /\ UNCHANGED <<control, client, network, snd, got, errors>>

(* Mutant: the loop ends with the first client.                            *)
AssignAndReturn(t) ==
    /\ acc[t].pc = "assign"
    /\ client' = acc[t].conn
    /\ acc' = [acc EXCEPT ![t] = [@ EXCEPT !.pc = "done", !.conn = None]]
    /\ UNCHANGED <<control, network, closed, snd, got, errors>>

AssignNew(t) ==
    /\ acc[t].pc = "assign"
    /\ client' = acc[t].conn
    /\ acc' = [acc EXCEPT ![t] = [@ EXCEPT !.pc = "loop", !.conn = None]]
    /\ UNCHANGED <<control, network, closed, snd, got, errors>>

-----------------------------------------------------------------------------
(* send_firmware_package.                                                  *)

(* Mutant: a send goes on where the last one stopped.                      *)
SendStartKeepsOffset ==
    /\ snd.pc \in {"idle", "ok", "failed"} /\ snd.call < MaxSends
    /\ client # None
    /\ snd' = [snd EXCEPT !.pc = "loop", !.call = @ + 1]
    /\ UNCHANGED <<control, client, acc, network, closed, got, errors>>

SendStart ==
    /\ snd.pc \in {"idle", "ok", "failed"} /\ snd.call < MaxSends
    /\ client # None
    /\ snd' = [pc |-> "loop", call |-> snd.call + 1, next |-> 1, sock |-> None]
    /\ UNCHANGED <<control, client, acc, network, closed, got, errors>>

(* self.client_socket is read for every chunk; None has no sendall.        *)
SendRead ==
    /\ snd.pc = "loop"
    /\ snd' = IF client = None THEN [snd EXCEPT !.pc = "failed"]
              ELSE [snd EXCEPT !.pc = "send", !.sock = client]
    /\ UNCHANGED <<control, client, acc, network, closed, got, errors>>

(* Mutant: an error of sendall is ignored.                                 *)
SendChunkIgnoresError ==
    /\ snd.pc = "send"
    /\ got' = IF snd.sock \in closed THEN got
              ELSE [got EXCEPT ![snd.sock] = Append(@, <<snd.call, snd.next>>)]
    /\ snd' = [snd EXCEPT !.pc = IF snd.next = Chunks THEN "ok" ELSE "loop", !.next = @ + 1]
    /\ UNCHANGED <<control, client, acc, network, closed, errors>>

(* Mutant: the offset advances by two chunks.                              *)
SendChunkSkips ==
    /\ snd.pc = "send"
    /\ IF snd.sock \in closed
       THEN snd' = [snd EXCEPT !.pc = "failed"] /\ UNCHANGED got
       ELSE /\ got' = [got EXCEPT ![snd.sock] = Append(@, <<snd.call, snd.next>>)]
            /\ snd' = [snd EXCEPT !.pc = IF snd.next + 1 >= Chunks THEN "ok" ELSE "loop", !.next = @ + 2]
    /\ UNCHANGED <<control, client, acc, network, closed, errors>>

SendChunk ==
    /\ snd.pc = "send"
    /\ IF snd.sock \in closed
       THEN snd' = [snd EXCEPT !.pc = "failed"] /\ UNCHANGED got
       ELSE /\ got' = [got EXCEPT ![snd.sock] = Append(@, <<snd.call, snd.next>>)]
            /\ snd' = [snd EXCEPT !.pc = IF snd.next = Chunks THEN "ok" ELSE "loop", !.next = @ + 1]
    /\ UNCHANGED <<control, client, acc, network, closed, errors>>

-----------------------------------------------------------------------------
(* Gateways connect, and leave.                                            *)

Connect ==
    /\ conns < MaxConns
    /\ conns' = conns + 1
    /\ \E l \in ({listener} \ {None, Unbound}) \union {acc[t].sock : t \in {u \in Thread : acc[u].pc = "accept"}} :
        queue' = [queue EXCEPT ![conns'] = l]
    /\ UNCHANGED <<control, client, acc, closed, snd, got, errors>>

Leave ==
    /\ \E c \in Conn : c <= conns /\ c \notin closed /\ closed' = closed \union {c}
    /\ UNCHANGED <<control, client, acc, network, snd, got, errors>>

-----------------------------------------------------------------------------
Init ==
    /\ isRunning = FALSE /\ listener = None /\ client = None
    /\ ctl = [pc |-> "idle", held |-> None]
    /\ starts = 0 /\ stopped = {} /\ errors = 0
    /\ acc = [t \in Thread |-> [pc |-> "none", sock |-> None, conn |-> None]]
    /\ queue = [c \in Conn |-> None] /\ conns = 0 /\ closed = {}
    /\ snd = [pc |-> "idle", call |-> 0, next |-> 1, sock |-> None]
    /\ got = [c \in Conn |-> <<>>]

Starting == StartListen \/ StartUnbound \/ StartThread \/ StartNoThread
Stopping == StopRunning \/ StopClient \/ DropClient \/ StopListener
Control == Starting \/ Stopping
AcceptLoop(t) ==
    AcceptCheck(t) \/ AcceptRead(t) \/ AcceptConn(t) \/ AcceptError(t) \/ CloseOld(t) \/ AssignNew(t)
Accept == \E t \in Thread : AcceptLoop(t)
Send == SendStart \/ SendRead \/ SendChunk
Gateways == Connect \/ Leave

Next == Control \/ Accept \/ Send \/ Gateways
Spec == Init /\ [][Next]_vars

(* The operating system runs the threads that can run, and accept()        *)
(* returns when a connection waits.                                        *)
FairSpec ==
    /\ Spec
    /\ \A t \in Thread : WF_vars(AcceptCheck(t) \/ AcceptRead(t) \/ AcceptConn(t) \/ CloseOld(t) \/ AssignNew(t))
    /\ WF_vars(StartThread)

-----------------------------------------------------------------------------
(* The variables keep to their types: the offset of a send stays within    *)
(* the package.                                                            *)
TypeOK ==
    /\ isRunning \in BOOLEAN
    /\ listener \in 0 .. MaxStarts + 1 /\ starts \in 0 .. MaxStarts
    /\ client \in 0 .. MaxConns /\ conns \in 0 .. MaxConns
    /\ ctl \in [pc : {"idle", "start", "stopClient", "dropClient", "stopListener"}, held : 0 .. MaxConns]
    /\ acc \in [Thread -> [pc : {"none", "loop", "read", "accept", "close", "assign", "done"},
                           sock : 0 .. MaxStarts, conn : 0 .. MaxConns]]
    /\ queue \in [Conn -> 0 .. MaxStarts]
    /\ closed \subseteq Conn /\ stopped \subseteq Conn
    /\ snd \in [pc : {"idle", "loop", "send", "ok", "failed"}, call : 0 .. MaxSends,
                next : 1 .. Chunks + 1, sock : 0 .. MaxConns]
    /\ got \in [Conn -> Seq((1 .. MaxSends) \X (1 .. Chunks))]
    /\ errors \in 0 .. MaxErrors

Has(c, k) == \E i \in DOMAIN got[c] : got[c][i] = <<snd.call, k>>

(* send_firmware_package returns True only when every chunk has been sent, *)
(* each to one connection and once, whatever clients came and went.        *)
EveryChunkOnce ==
    snd.pc = "ok" => \A k \in 1 .. Chunks : \E c \in Conn :
        Has(c, k) /\ \A d \in Conn \ {c} : ~Has(d, k)

(* What one connection receives is a run of the stream without a gap: it   *)
(* may begin inside a package, but after a chunk comes the next one, or    *)
(* the first chunk of a later package after the last.                      *)
NoGaps ==
    \A c \in Conn : \A i \in DOMAIN got[c] \ {1} :
        LET old == got[c][i - 1]
            new == got[c][i]
        IN  \/ new = <<old[1], old[2] + 1>>
            \/ old[2] = Chunks /\ new[2] = 1 /\ new[1] > old[1]

(* While the server runs a thread accepts connections, unless accept() has *)
(* failed for a reason of its own (the loop breaks, is_running stays True) *)
(* or the thread could not be started.                                     *)
AcceptLoopAlive ==
    isRunning /\ ctl.pc = "idle" =>
        errors > 0 \/ \E t \in Thread : acc[t].pc \notin {"none", "done"}

(* Once stop has returned, no chunk is begun to the client it closed, not  *)
(* even when the server has been started again.                            *)
StopEndsTransfer ==
    [][snd.pc = "loop" /\ snd'.pc = "send" => snd'.sock \notin stopped]_vars

(* A gateway that connects to a running server is taken off the backlog,   *)
(* unless the server stops, its accept() fails or its thread cannot start. *)
GatewayServed ==
    \A c \in Conn : isRunning /\ queue[c] # None /\ queue[c] = listener
        ~> queue[c] = None \/ ~isRunning \/ errors > 0

(* "Send firmware package to Gateway": True means that a gateway has the   *)
(* whole package.                                                          *)
WholePackage == snd.pc = "ok" => \E c \in Conn : \A k \in 1 .. Chunks : Has(c, k)
=============================================================================
