--------------------------- MODULE TcpServerProofs ---------------------------
(***************************************************************************)
(* Theorems about TcpServer, for any number of connections, starts, sends, *)
(* errors of accept() and chunks, and all interleavings of the threads.    *)
(***************************************************************************)
EXTENDS TcpServer, SequenceTheorems, TLAPS

LEMMA Bounds ==
    /\ MaxConns \in Nat /\ MaxStarts \in Nat /\ MaxSends \in Nat /\ MaxErrors \in Nat
    /\ Chunks \in Nat /\ Chunks >= 1
BY ServerAssumption

-----------------------------------------------------------------------------
(* The type invariant in parts, one for the fields and the caller's        *)
(* thread, one for the accept threads, one for the network and one for the *)
(* sending thread, whose offset is within the package while it sends.      *)
ControlTypes ==
    /\ isRunning \in BOOLEAN
    /\ listener \in 0 .. MaxStarts + 1 /\ starts \in 0 .. MaxStarts
    /\ client \in 0 .. MaxConns
    /\ ctl \in [pc : {"idle", "start", "stopClient", "dropClient", "stopListener"}, held : 0 .. MaxConns]

AcceptTypes ==
    acc \in [Thread -> [pc : {"none", "loop", "read", "accept", "close", "assign", "done"},
                        sock : 0 .. MaxStarts, conn : 0 .. MaxConns]]

NetworkTypes ==
    /\ conns \in 0 .. MaxConns /\ errors \in 0 .. MaxErrors
    /\ queue \in [Conn -> 0 .. MaxStarts]
    /\ closed \subseteq Conn /\ stopped \subseteq Conn

Stream == Seq((1 .. MaxSends) \X (1 .. Chunks))

SendTypes ==
    /\ snd \in [pc : {"idle", "loop", "send", "ok", "failed"}, call : 0 .. MaxSends,
                next : 1 .. Chunks + 1, sock : 0 .. MaxConns]
    /\ got \in [Conn -> Stream]
    /\ snd.pc \in {"loop", "send"} => snd.call >= 1 /\ snd.next <= Chunks
    /\ snd.pc = "send" => snd.sock # None

Types == ControlTypes /\ AcceptTypes /\ NetworkTypes /\ SendTypes

LEMMA NextControlTypes == Types /\ [Next]_vars => ControlTypes'
<1> USE Bounds DEF ControlTypes
<1>1. SUFFICES ASSUME Types, [Next]_vars PROVE ControlTypes'
  OBVIOUS
<1> USE <1>1
<1>2. ControlTypes
  BY DEF Types
<1>3. CASE StartListen
  BY <1>2, <1>3 DEF StartListen
<1>4. CASE StartThread \/ StartNoThread
  BY <1>2, <1>4 DEF StartThread, StartNoThread
<1>12. CASE StartUnbound
  BY <1>2, <1>12 DEF StartUnbound, Unbound
<1>5. CASE StopRunning
  BY <1>2, <1>5 DEF StopRunning
<1>6. CASE StopClient
  BY <1>2, <1>6 DEF StopClient
<1>7. CASE DropClient
  BY <1>2, <1>7 DEF DropClient, None
<1>8. CASE StopListener
  BY <1>2, <1>8 DEF StopListener, None
<1>9. ASSUME NEW t \in Thread, AssignNew(t) PROVE ControlTypes'
  <2>1. acc[t].conn \in 0 .. MaxConns
    BY DEF Types, AcceptTypes
  <2>2. QED
    BY <1>2, <1>9, <2>1 DEF AssignNew, control
<1>10. CASE UNCHANGED <<isRunning, listener, starts, client, ctl>>
  BY <1>2, <1>10
<1>11. QED
  BY <1>3, <1>4, <1>5, <1>6, <1>7, <1>8, <1>9, <1>10, <1>12
     DEF Next, Control, Starting, Stopping, Accept, AcceptLoop, AcceptCheck, AcceptRead, AcceptConn,
         AcceptError, CloseOld, Send, SendStart, SendRead, SendChunk, Gateways, Connect, Leave,
         control, vars

LEMMA NextAcceptTypes == Types /\ [Next]_vars => AcceptTypes'
<1> USE Bounds DEF AcceptTypes, Thread, Conn, None
<1>1. SUFFICES ASSUME Types, [Next]_vars PROVE AcceptTypes'
  OBVIOUS
<1> USE <1>1
<1>2. AcceptTypes /\ listener \in 0 .. MaxStarts + 1
  BY DEF Types, ControlTypes
<1>3. CASE StartThread
  BY <1>2, <1>3 DEF StartThread
<1>4. ASSUME NEW t \in Thread, AcceptLoop(t) PROVE AcceptTypes'
  <2>1. CASE AcceptCheck(t)
    BY <1>2, <2>1 DEF AcceptCheck
  <2>2. CASE AcceptRead(t)
    <3>1. listener \notin {None, Unbound} => listener \in 0 .. MaxStarts
      BY <1>2 DEF Unbound
    <3>2. acc' = [acc EXCEPT ![t] = [@ EXCEPT !.pc = "done"]]
          \/ (/\ listener \in 0 .. MaxStarts
              /\ acc' = [acc EXCEPT ![t] = [@ EXCEPT !.pc = "accept", !.sock = listener]])
      BY <2>2, <3>1 DEF AcceptRead
    <3>3. CASE acc' = [acc EXCEPT ![t] = [@ EXCEPT !.pc = "done"]]
      BY <1>2, <3>3
    <3>4. CASE listener \in 0 .. MaxStarts
               /\ acc' = [acc EXCEPT ![t] = [@ EXCEPT !.pc = "accept", !.sock = listener]]
      BY <1>2, <3>4
    <3>5. QED
      BY <3>2, <3>3, <3>4
  <2>3. CASE AcceptConn(t)
    <3>1. PICK c \in Conn : acc' = [acc EXCEPT ![t] = [@ EXCEPT !.pc = "close", !.conn = c]]
      BY <2>3 DEF AcceptConn
    <3>2. c \in 0 .. MaxConns
      OBVIOUS
    <3>3. QED
      BY <1>2, <3>1, <3>2
  <2>4. CASE AcceptError(t)
    BY <1>2, <2>4 DEF AcceptError
  <2>5. CASE CloseOld(t)
    BY <1>2, <2>5 DEF CloseOld
  <2>6. CASE AssignNew(t)
    <3>1. 0 \in 0 .. MaxConns
      OBVIOUS
    <3>2. QED
      BY <1>2, <2>6, <3>1 DEF AssignNew
  <2>7. QED
    BY <1>4, <2>1, <2>2, <2>3, <2>4, <2>5, <2>6 DEF AcceptLoop
<1>5. CASE UNCHANGED acc
  BY <1>2, <1>5
<1>6. QED
  BY <1>3, <1>4, <1>5
     DEF Next, Control, Starting, Stopping, StartListen, StartUnbound, StartNoThread, StopRunning,
         StopClient, DropClient, StopListener, Accept, Send, SendStart, SendRead, SendChunk, Gateways,
         Connect, Leave, vars

LEMMA NextNetworkTypes == Types /\ [Next]_vars => NetworkTypes'
<1> USE Bounds DEF NetworkTypes, Thread, Conn, None
<1>1. SUFFICES ASSUME Types, [Next]_vars PROVE NetworkTypes'
  OBVIOUS
<1> USE <1>1
<1>2. /\ NetworkTypes /\ listener \in 0 .. MaxStarts + 1 /\ client \in 0 .. MaxConns
      /\ ctl.held \in 0 .. MaxConns /\ \A t \in Thread : acc[t].sock \in 0 .. MaxStarts
  BY DEF Types, ControlTypes, AcceptTypes
<1>3. CASE StopClient
  BY <1>2, <1>3 DEF StopClient, network
<1>4. CASE StopListener
  <2>1. queue' \in [Conn -> 0 .. MaxStarts]
    BY <1>2, <1>4 DEF StopListener
  <2>2. closed' \subseteq Conn
    BY <1>2, <1>4 DEF StopListener
  <2>3. stopped' \subseteq Conn
    <3>1. {ctl.held} \ {0} \subseteq Conn
      BY <1>2
    <3>2. QED
      BY <1>2, <1>4, <3>1 DEF StopListener
  <2>4. conns' \in 0 .. MaxConns /\ errors' \in 0 .. MaxErrors
    BY <1>2, <1>4 DEF StopListener
  <2>5. QED
    BY <2>1, <2>2, <2>3, <2>4
<1>5. ASSUME NEW t \in Thread, AcceptConn(t) PROVE NetworkTypes'
  BY <1>2, <1>5 DEF AcceptConn, control
<1>6. ASSUME NEW t \in Thread, AcceptError(t) PROVE NetworkTypes'
  <2>1. queue' \in [Conn -> 0 .. MaxStarts]
    BY <1>2, <1>6 DEF AcceptError
  <2>2. closed' \subseteq Conn
    BY <1>2, <1>6 DEF AcceptError
  <2>3. errors' = errors \/ (errors < MaxErrors /\ errors' = errors + 1)
    BY <1>6 DEF AcceptError
  <2>4. errors' \in 0 .. MaxErrors
    BY <1>2, <2>3
  <2>5. QED
    BY <1>2, <1>6, <2>1, <2>2, <2>4 DEF AcceptError, control
<1>7. ASSUME NEW t \in Thread, CloseOld(t) PROVE NetworkTypes'
  BY <1>2, <1>7 DEF CloseOld, control, network
<1>8. CASE Connect
  <2>1. PICK l \in 0 .. MaxStarts : queue' = [queue EXCEPT ![conns'] = l]
    <3>1. PICK l \in ({listener} \ {None, Unbound})
                      \union {acc[t].sock : t \in {u \in Thread : acc[u].pc = "accept"}} :
                   queue' = [queue EXCEPT ![conns'] = l]
      BY <1>8 DEF Connect
    <3>2. CASE l \in {listener} \ {None, Unbound}
      <4>1. l \in 0 .. MaxStarts
        BY <1>2, <3>2 DEF Unbound
      <4>2. QED
        BY <3>1, <4>1
    <3>3. CASE l \in {acc[t].sock : t \in {u \in Thread : acc[u].pc = "accept"}}
      <4>1. l \in 0 .. MaxStarts
        BY <1>2, <3>3
      <4>2. QED
        BY <3>1, <4>1
    <3>4. QED
      BY <3>1, <3>2, <3>3
  <2>2. QED
    BY <1>2, <1>8, <2>1 DEF Connect, control
<1>12. CASE StartNoThread
  <2>1. errors' = errors + 1 /\ errors < MaxErrors /\ UNCHANGED <<conns, queue, closed, stopped>>
    BY <1>12 DEF StartNoThread, network
  <2>2. errors' \in 0 .. MaxErrors
    BY <1>2, <2>1
  <2>3. QED
    BY <1>2, <2>1, <2>2
<1>9. CASE Leave
  BY <1>2, <1>9 DEF Leave, control, network
<1>10. CASE UNCHANGED <<conns, errors, queue, closed, stopped>>
  BY <1>2, <1>10
<1>11. QED
  BY <1>3, <1>4, <1>5, <1>6, <1>7, <1>8, <1>9, <1>10, <1>12
     DEF Next, Control, Starting, Stopping, StartListen, StartUnbound, StartThread, StartNoThread,
         StopRunning, DropClient, Accept, AcceptLoop, AcceptCheck, AcceptRead, AssignNew, Send,
         SendStart, SendRead, SendChunk, Gateways, control, network, vars

LEMMA NextSendTypes == Types /\ [Next]_vars => SendTypes'
<1> USE Bounds DEF SendTypes, None
<1>1. SUFFICES ASSUME Types, [Next]_vars PROVE SendTypes'
  OBVIOUS
<1> USE <1>1
<1>2. SendTypes /\ client \in 0 .. MaxConns
  BY DEF Types, ControlTypes
<1>3. CASE SendStart
  BY <1>2, <1>3 DEF SendStart
<1>4. CASE SendRead
  BY <1>2, <1>4 DEF SendRead
<1>5. CASE SendChunk
  <2>1. snd.sock \in Conn /\ <<snd.call, snd.next>> \in (1 .. MaxSends) \X (1 .. Chunks)
    BY <1>2, <1>5 DEF SendChunk, Conn
  <2>2. Append(got[snd.sock], <<snd.call, snd.next>>) \in Stream
    BY <1>2, <2>1, AppendProperties DEF Stream
  <2>3. got' \in [Conn -> Stream]
    BY <1>2, <1>5, <2>1, <2>2 DEF SendChunk
  <2>4. snd' = [snd EXCEPT !.pc = "failed"]
          \/ snd' = [snd EXCEPT !.pc = IF snd.next = Chunks THEN "ok" ELSE "loop", !.next = @ + 1]
    BY <1>5 DEF SendChunk
  <2>5. snd' \in [pc : {"idle", "loop", "send", "ok", "failed"}, call : 0 .. MaxSends,
                  next : 1 .. Chunks + 1, sock : 0 .. MaxConns]
    <3>1. snd.next \in 1 .. Chunks
      BY <1>2, <1>5 DEF SendChunk
    <3>2. snd.next + 1 \in 1 .. Chunks + 1
      BY <3>1
    <3>3. QED
      BY <1>2, <2>4, <3>2
  <2>6. snd'.pc \in {"loop", "send"} => snd'.call >= 1 /\ snd'.next <= Chunks
    <3>1. snd.next \in 1 .. Chunks /\ snd.call >= 1
      BY <1>2, <1>5 DEF SendChunk
    <3>2. CASE snd' = [snd EXCEPT !.pc = "failed"]
      BY <1>2, <3>2
    <3>3. CASE snd' = [snd EXCEPT !.pc = IF snd.next = Chunks THEN "ok" ELSE "loop", !.next = @ + 1]
      <4>1. /\ snd'.call = snd.call /\ snd'.next = snd.next + 1
            /\ snd'.pc = IF snd.next = Chunks THEN "ok" ELSE "loop"
        BY <1>2, <3>3
      <4>2. QED
        BY <3>1, <4>1
    <3>4. QED
      BY <2>4, <3>2, <3>3
  <2>7. snd'.pc # "send"
    BY <1>2, <2>4
  <2>8. QED
    BY <2>3, <2>5, <2>6, <2>7
<1>6. CASE UNCHANGED <<snd, got>>
  BY <1>2, <1>6
<1>7. QED
  BY <1>3, <1>4, <1>5, <1>6
     DEF Next, Control, Starting, Stopping, StartListen, StartUnbound, StartThread, StartNoThread,
         StopRunning, StopClient, DropClient, StopListener, Accept, AcceptLoop, AcceptCheck,
         AcceptRead, AcceptConn, AcceptError, CloseOld, AssignNew, Send, Gateways, Connect, Leave, vars

LEMMA AlwaysTypes == Spec => []Types
<1>1. Init => Types
  <2>1. SUFFICES ASSUME Init PROVE Types
    OBVIOUS
  <2>2. ControlTypes
    <3>1. ctl = [pc |-> "idle", held |-> 0] /\ 0 \in 0 .. MaxConns /\ 0 \in 0 .. MaxStarts
          /\ 0 \in 0 .. MaxStarts + 1
      BY <2>1, Bounds DEF Init, None
    <3>2. ctl \in [pc : {"idle", "start", "stopClient", "dropClient", "stopListener"}, held : 0 .. MaxConns]
      BY <3>1
    <3>3. QED
      BY <2>1, <3>1, <3>2 DEF Init, ControlTypes, None
  <2>3. AcceptTypes
    BY <2>1, Bounds DEF Init, AcceptTypes, None
  <2>4. NetworkTypes
    BY <2>1, Bounds DEF Init, NetworkTypes, None
  <2>5. SendTypes
    <3>1. <<>> \in Stream
      BY EmptySeq DEF Stream
    <3>2. QED
      BY <2>1, <3>1, Bounds DEF Init, SendTypes, None
  <2>6. QED
    BY <2>2, <2>3, <2>4, <2>5 DEF Types
<1>2. QED
  BY <1>1, NextControlTypes, NextAcceptTypes, NextNetworkTypes, NextSendTypes, PTL DEF Spec, Types

(* The variables keep to their types: the offset of a send never leaves    *)
(* the package (send_firmware_package), and an accept thread is always at  *)
(* a place of its loop (_accept_loop).                                     *)
THEOREM TcpTypes == Spec => []TypeOK
<1>1. Types => TypeOK
  BY DEF Types, ControlTypes, AcceptTypes, NetworkTypes, SendTypes, Stream, TypeOK
<1>2. QED
  BY <1>1, AlwaysTypes, PTL

-----------------------------------------------------------------------------
(* A server that runs has its listening socket; the threads of later       *)
(* starts do not exist, and that of the last start accepts at the server's *)
(* socket once it exists, unless accept() has failed.                      *)
ThreadInv ==
    /\ isRunning => ctl.pc \in {"idle", "start"} /\ listener = starts /\ starts # None
    /\ ctl.pc = "start" => isRunning /\ acc[starts].pc = "none"
    /\ \A t \in Thread : t > starts => acc[t].pc = "none"
    /\ isRunning /\ ctl.pc = "idle" /\ errors = 0 =>
          /\ acc[starts].pc \notin {"none", "done"}
          /\ acc[starts].pc = "accept" => acc[starts].sock = starts

(* The steps of the caller's thread and of the others, as the invariant    *)
(* sees them.                                                              *)
LEMMA NextThreadInv == Types /\ ThreadInv /\ [Next]_vars => ThreadInv'
<1> USE Bounds DEF ThreadInv, Thread, None
<1>1. SUFFICES ASSUME Types, ThreadInv, [Next]_vars PROVE ThreadInv'
  OBVIOUS
<1> USE <1>1
<1>2. /\ ctl \in [pc : {"idle", "start", "stopClient", "dropClient", "stopListener"}, held : 0 .. MaxConns]
      /\ acc \in [Thread -> [pc : {"none", "loop", "read", "accept", "close", "assign", "done"},
                              sock : 0 .. MaxStarts, conn : 0 .. MaxConns]]
      /\ starts \in 0 .. MaxStarts /\ errors \in 0 .. MaxErrors
  BY DEF Types, ControlTypes, AcceptTypes, NetworkTypes
<1>3. CASE StartListen
  <2>1. /\ starts' = starts + 1 /\ listener' = starts + 1 /\ isRunning' /\ ctl'.pc = "start"
        /\ UNCHANGED <<acc, errors>> /\ starts + 1 \in Thread
    BY <1>2, <1>3 DEF StartListen
  <2>2. QED
    BY <1>2, <2>1
<1>4. CASE StartThread
  <2>1. /\ ctl'.pc = "idle" /\ UNCHANGED <<isRunning, listener, starts, errors>>
        /\ isRunning /\ listener = starts /\ starts \in Thread
    BY <1>2, <1>4 DEF StartThread
  <2>2. acc'[starts].pc = "loop" /\ \A t \in Thread : t # starts => acc'[t] = acc[t]
    BY <1>2, <1>4, <2>1 DEF StartThread
  <2>3. QED
    BY <1>2, <2>1, <2>2
<1>9. CASE StartNoThread
  <2>1. /\ ctl'.pc = "idle" /\ errors' > 0
        /\ UNCHANGED <<isRunning, listener, starts, acc>>
    BY <1>2, <1>9 DEF StartNoThread
  <2>2. QED
    BY <1>2, <2>1
<1>10. CASE StartUnbound
  BY <1>2, <1>10 DEF StartUnbound
<1>5. CASE StopRunning \/ StopClient \/ DropClient \/ StopListener
  <2>1. ~isRunning' /\ ctl'.pc # "start" /\ UNCHANGED <<acc, starts>>
    <3>1. CASE StopRunning
      BY <3>1 DEF StopRunning
    <3>2. CASE StopClient
      BY <1>2, <3>2 DEF StopClient
    <3>3. CASE DropClient
      BY <1>2, <3>3 DEF DropClient
    <3>4. CASE StopListener
      BY <1>2, <3>4 DEF StopListener
    <3>5. QED
      BY <1>5, <3>1, <3>2, <3>3, <3>4
  <2>2. QED
    BY <2>1
<1>6. ASSUME NEW t \in Thread, AcceptLoop(t) PROVE ThreadInv'
  <2>1. UNCHANGED <<isRunning, listener, starts, ctl>>
    BY <1>6 DEF AcceptLoop, AcceptCheck, AcceptRead, AcceptConn, AcceptError, CloseOld, AssignNew, control
  <2>2. /\ acc[t].pc \notin {"none", "done"}
        /\ \A u \in Thread \ {t} : acc'[u] = acc[u]
    BY <1>2, <1>6 DEF AcceptLoop, AcceptCheck, AcceptRead, AcceptConn, AcceptError, CloseOld, AssignNew
  <2>3. errors' \in Nat /\ errors' >= errors
    <3>1. errors' = errors \/ errors' = errors + 1
      BY <1>6 DEF AcceptLoop, AcceptCheck, AcceptRead, AcceptConn, AcceptError, CloseOld, AssignNew
    <3>2. QED
      BY <1>2, <3>1
  <2>4. ASSUME isRunning, ctl.pc = "idle", errors' = 0, t = starts
        PROVE  acc'[t].pc \notin {"none", "done"} /\ (acc'[t].pc = "accept" => acc'[t].sock = starts)
    <3>1. errors = 0 /\ listener = starts
      BY <1>2, <2>3, <2>4
    <3>2. CASE AcceptCheck(t)
      BY <1>2, <2>4, <3>2 DEF AcceptCheck
    <3>3. CASE AcceptRead(t)
      <4>1. listener \notin {None, Unbound}
        BY <1>2, <2>4, <3>1 DEF Unbound
      <4>2. acc' = [acc EXCEPT ![t] = [@ EXCEPT !.pc = "accept", !.sock = listener]]
        BY <3>3, <4>1 DEF AcceptRead
      <4>3. QED
        BY <1>2, <2>4, <3>1, <4>2
    <3>4. CASE AcceptConn(t)
      BY <1>2, <3>4 DEF AcceptConn
    <3>5. CASE AcceptError(t)
      BY <1>2, <2>4, <3>1, <3>5 DEF AcceptError
    <3>6. CASE CloseOld(t)
      BY <1>2, <3>6 DEF CloseOld
    <3>7. CASE AssignNew(t)
      BY <1>2, <3>7 DEF AssignNew
    <3>8. QED
      BY <1>6, <3>2, <3>3, <3>4, <3>5, <3>6, <3>7 DEF AcceptLoop
  <2>5. ctl.pc = "start" => starts \in Thread /\ t # starts
    BY <1>2, <2>2
  <2>6. isRunning => starts \in Thread
    BY <1>2
  <2>7. QED
    BY <1>2, <2>1, <2>2, <2>3, <2>4, <2>5, <2>6
<1>7. CASE UNCHANGED <<isRunning, listener, starts, ctl, acc, errors>>
  BY <1>7
<1>8. QED
  BY <1>3, <1>4, <1>5, <1>6, <1>7, <1>9, <1>10
     DEF Next, Control, Starting, Stopping, Accept, Send, SendStart, SendRead, SendChunk, Gateways,
         Connect, Leave, control, vars

LEMMA AlwaysThreadInv == Spec => []ThreadInv
<1>1. Init => ThreadInv
  BY DEF Init, ThreadInv
<1>2. QED
  BY <1>1, NextThreadInv, AlwaysTypes, PTL DEF Spec

(* While the server runs a thread accepts connections, whatever other      *)
(* accept threads, left over by earlier starts, do, unless accept() failed *)
(* for a reason of its own (_accept_loop, start and stop).                 *)
THEOREM AcceptLoopStaysAlive == Spec => []AcceptLoopAlive
<1>1. Types /\ ThreadInv => AcceptLoopAlive
  <2>1. SUFFICES ASSUME Types, ThreadInv, isRunning, ctl.pc = "idle", ~(errors > 0)
                 PROVE  \E t \in Thread : acc[t].pc \notin {"none", "done"}
    BY DEF AcceptLoopAlive
  <2>2. errors = 0
    BY <2>1, Bounds DEF Types, NetworkTypes
  <2>3. starts \in Thread
    BY <2>1, Bounds DEF ThreadInv, Types, ControlTypes, Thread, None
  <2>4. QED
    BY <2>1, <2>2, <2>3 DEF ThreadInv
<1>2. QED
  BY <1>1, AlwaysTypes, AlwaysThreadInv, PTL

-----------------------------------------------------------------------------
(* Connection c has been accepted and handed over: no thread can make it   *)
(* the client any more.                                                    *)
Was(c) ==
    /\ c <= conns /\ queue[c] = None
    /\ \A t \in Thread : acc[t].conn # c

Backlog == \A c \in Conn : queue[c] # None => c <= conns

(* What an accept thread holds is not the client yet, and is its alone.    *)
Accepted ==
    /\ \A t \in Thread :
        /\ acc[t].pc = "accept" => acc[t].sock # None
        /\ acc[t].pc \in {"close", "assign"} <=> acc[t].conn # None
        /\ acc[t].conn # None => acc[t].conn <= conns /\ queue[acc[t].conn] = None
    /\ \A t, u \in Thread : acc[t].conn # None /\ acc[t].conn = acc[u].conn => t = u

(* Whatever was once the client will not be it again.                      *)
Clients ==
    /\ client # None => Was(client)
    /\ snd.pc = "send" => Was(snd.sock)
    /\ ctl.held # None => Was(ctl.held)
    /\ ctl.held # None /\ ctl.pc = "stopListener" => client # ctl.held
    /\ \A c \in stopped : Was(c) /\ client # c
    /\ \A c \in Conn : got[c] # <<>> => Was(c)

ConnInv == Backlog /\ Accepted /\ Clients

(* How the steps change the client, the queue and what threads hold.       *)
LEMMA ConnSteps ==
    ASSUME Types, ThreadInv, Backlog, Accepted, [Next]_vars
    PROVE  /\ Backlog' /\ Accepted'
           /\ \A c \in Conn : Was(c) => Was(c)'
           /\ client' \in {client, None} \/ \E t \in Thread :
                 /\ acc[t].pc = "assign" /\ client' = acc[t].conn /\ acc'[t].conn = None
                 /\ UNCHANGED <<queue, conns>> /\ \A u \in Thread \ {t} : acc'[u] = acc[u]
<1> USE Bounds DEF Backlog, Accepted, Was, Conn, Thread, None
<1>1. /\ acc \in [Thread -> [pc : {"none", "loop", "read", "accept", "close", "assign", "done"},
                              sock : 0 .. MaxStarts, conn : 0 .. MaxConns]]
      /\ queue \in [Conn -> 0 .. MaxStarts] /\ conns \in 0 .. MaxConns
      /\ listener \in 0 .. MaxStarts + 1 /\ starts \in 0 .. MaxStarts
  BY DEF Types, AcceptTypes, NetworkTypes, ControlTypes
<1>2. ASSUME \A u \in Thread : /\ acc'[u].conn = acc[u].conn
                               /\ acc[u].pc \in {"close", "assign"} <=> acc'[u].pc \in {"close", "assign"}
                               /\ acc'[u].pc = "accept" => acc'[u].sock # None,
             \A c \in Conn : queue'[c] \in {queue[c], None},
             conns' = conns
      PROVE  Backlog' /\ Accepted' /\ \A c \in Conn : Was(c) => Was(c)'
  <2>1. Backlog' /\ \A c \in Conn : Was(c) => Was(c)'
    BY <1>2
  <2>2. \A u \in Thread : acc[u].conn # None => acc[u].conn \in Conn
    BY <1>1
  <2>3. \A u \in Thread :
          /\ acc'[u].pc \in {"close", "assign"} <=> acc'[u].conn # None
          /\ acc'[u].conn # None => acc'[u].conn <= conns' /\ queue'[acc'[u].conn] = None
    BY <1>2, <2>2
  <2>4. \A u, v \in Thread : acc'[u].conn # None /\ acc'[u].conn = acc'[v].conn => u = v
    BY <1>2
  <2>5. QED
    BY <1>2, <2>1, <2>3, <2>4
<1>3. CASE StartThread
  <2>1. listener \in Thread /\ acc[listener].pc = "none"
    BY <1>1, <1>3 DEF ThreadInv, StartThread
  <2>2. /\ acc'[listener].pc = "loop" /\ acc'[listener].conn = acc[listener].conn
        /\ \A t \in Thread \ {listener} : acc'[t] = acc[t]
        /\ UNCHANGED <<queue, conns, client>>
    BY <1>1, <1>3, <2>1 DEF StartThread, network
  <2>3. \A u \in Thread : /\ acc'[u].conn = acc[u].conn
                          /\ acc[u].pc \in {"close", "assign"} <=> acc'[u].pc \in {"close", "assign"}
                          /\ acc'[u].pc = "accept" => acc'[u].sock # None
    BY <2>1, <2>2
  <2>4. QED
    BY <1>2, <2>2, <2>3
<1>4. ASSUME NEW t \in Thread, AcceptCheck(t) \/ AcceptRead(t) \/ CloseOld(t)
      PROVE  /\ Backlog' /\ Accepted' /\ client' = client
             /\ \A c \in Conn : Was(c) => Was(c)'
  <2>1. UNCHANGED <<queue, conns, client>> /\ \A u \in Thread \ {t} : acc'[u] = acc[u]
    BY <1>1, <1>4 DEF AcceptCheck, AcceptRead, CloseOld, network
  <2>2. /\ acc'[t].conn = acc[t].conn
        /\ acc'[t].pc = "accept" => acc'[t].sock # None
        /\ acc[t].pc \in {"close", "assign"} <=> acc'[t].pc \in {"close", "assign"}
    <3>1. CASE AcceptCheck(t)
      BY <1>1, <3>1 DEF AcceptCheck
    <3>2. CASE AcceptRead(t)
      BY <1>1, <3>2 DEF AcceptRead
    <3>3. CASE CloseOld(t)
      BY <1>1, <3>3 DEF CloseOld
    <3>4. QED
      BY <1>4, <3>1, <3>2, <3>3
  <2>3. \A u \in Thread : /\ acc'[u].conn = acc[u].conn
                          /\ acc[u].pc \in {"close", "assign"} <=> acc'[u].pc \in {"close", "assign"}
                          /\ acc'[u].pc = "accept" => acc'[u].sock # None
    BY <2>1, <2>2
  <2>4. QED
    BY <1>2, <2>1, <2>3
<1>5. ASSUME NEW t \in Thread, AcceptConn(t)
      PROVE  /\ Backlog' /\ Accepted' /\ client' = client
             /\ \A c \in Conn : Was(c) => Was(c)'
  <2>1. PICK c \in Conn : /\ queue[c] = acc[t].sock /\ queue' = [queue EXCEPT ![c] = None]
                          /\ acc' = [acc EXCEPT ![t] = [@ EXCEPT !.pc = "close", !.conn = c]]
    BY <1>5 DEF AcceptConn
  <2>2. /\ acc'[t].pc = "close" /\ acc'[t].conn = c
        /\ \A u \in Thread \ {t} : acc'[u] = acc[u]
    BY <1>1, <2>1
  <2>3. acc[t].pc = "accept" /\ queue[c] # None /\ UNCHANGED <<client, conns>> /\ c # None
    BY <1>1, <1>5, <2>1 DEF AcceptConn
  <2>4. queue'[c] = None /\ \A d \in Conn \ {c} : queue'[d] = queue[d]
    BY <1>1, <2>1
  <2>5. c <= conns /\ \A u \in Thread : acc[u].conn # c
    BY <2>3
  <2>6. Backlog' /\ \A d \in Conn : Was(d) => Was(d)'
    <3>1. \A d \in Conn : Was(d) => d # c
      BY <2>3
    <3>2. \A d \in Conn : Was(d) => d <= conns' /\ queue'[d] = None /\ \A u \in Thread : acc'[u].conn # d
      BY <2>2, <2>3, <2>4, <3>1
    <3>3. QED
      BY <2>3, <2>4, <3>2
  <2>7. \A u \in Thread \ {t} : acc[u].conn # None => acc[u].conn \in Conn \ {c}
    BY <1>1, <2>5
  <2>8. \A u \in Thread :
          /\ acc'[u].pc = "accept" => acc'[u].sock # None
          /\ acc'[u].pc \in {"close", "assign"} <=> acc'[u].conn # None
          /\ acc'[u].conn # None => acc'[u].conn <= conns' /\ queue'[acc'[u].conn] = None
    BY <2>2, <2>3, <2>4, <2>5, <2>7
  <2>9. \A u, v \in Thread : acc'[u].conn # None /\ acc'[u].conn = acc'[v].conn => u = v
    BY <2>2, <2>5
  <2>10. QED
    BY <2>3, <2>6, <2>8, <2>9
<1>6. CASE StopListener \/ \E t \in Thread : AcceptError(t)
  <2>1. (\A c \in Conn : queue'[c] \in {queue[c], None}) /\ UNCHANGED <<conns, client>>
    BY <1>1, <1>6 DEF StopListener, AcceptError
  <2>2. \A u \in Thread : acc'[u] = acc[u] \/ /\ acc[u].pc = "accept" /\ acc'[u].pc = "done"
                                              /\ acc'[u].conn = acc[u].conn
    <3>1. CASE StopListener
      BY <3>1 DEF StopListener
    <3>2. ASSUME NEW t \in Thread, AcceptError(t)
          PROVE  /\ acc[t].pc = "accept" /\ acc'[t].pc = "done" /\ acc'[t].conn = acc[t].conn
                 /\ \A u \in Thread \ {t} : acc'[u] = acc[u]
      BY <1>1, <3>2 DEF AcceptError
    <3>3. QED
      BY <1>6, <3>1, <3>2
  <2>3. \A u \in Thread : /\ acc'[u].conn = acc[u].conn
                          /\ acc[u].pc \in {"close", "assign"} <=> acc'[u].pc \in {"close", "assign"}
                          /\ acc'[u].pc = "accept" => acc'[u].sock # None
    BY <2>2
  <2>4. QED
    BY <1>2, <2>1, <2>3
<1>7. ASSUME NEW t \in Thread, AssignNew(t)
      PROVE  /\ Backlog' /\ Accepted' /\ \A c \in Conn : Was(c) => Was(c)'
             /\ acc[t].pc = "assign" /\ client' = acc[t].conn /\ acc'[t].conn = None
             /\ UNCHANGED <<queue, conns>> /\ \A u \in Thread \ {t} : acc'[u] = acc[u]
  <2>1. /\ acc[t].pc = "assign" /\ client' = acc[t].conn /\ UNCHANGED <<queue, conns>>
        /\ acc'[t].pc = "loop" /\ acc'[t].conn = None
        /\ \A u \in Thread \ {t} : acc'[u] = acc[u]
    BY <1>1, <1>7 DEF AssignNew, network
  <2>2. Backlog' /\ \A c \in Conn : Was(c) => Was(c)'
    BY <2>1
  <2>3. \A u \in Thread :
          /\ acc'[u].pc = "accept" => acc'[u].sock # None
          /\ acc'[u].pc \in {"close", "assign"} <=> acc'[u].conn # None
          /\ acc'[u].conn # None => acc'[u].conn <= conns' /\ queue'[acc'[u].conn] = None
    BY <2>1
  <2>4. \A u, v \in Thread : acc'[u].conn # None /\ acc'[u].conn = acc'[v].conn => u = v
    BY <2>1
  <2>5. QED
    BY <2>1, <2>2, <2>3, <2>4
<1>8. CASE Connect
  <2>1. UNCHANGED <<acc, client>> /\ conns' = conns + 1 /\ conns' \in Conn
    BY <1>1, <1>8 DEF Connect
  <2>2. PICK l : queue' = [queue EXCEPT ![conns'] = l]
    BY <1>8 DEF Connect
  <2>3. \A c \in Conn : c # conns' => queue'[c] = queue[c]
    BY <1>1, <2>1, <2>2
  <2>4. \A c \in Conn : c <= conns => c # conns' /\ c <= conns'
    BY <1>1, <2>1
  <2>5. \A u \in Thread : acc[u].conn # None => acc[u].conn \in Conn
    BY <1>1
  <2>6. Backlog'
    BY <1>1, <2>1, <2>3, <2>4
  <2>7. Accepted'
    BY <1>1, <2>1, <2>3, <2>4, <2>5
  <2>8. \A c \in Conn : Was(c) => Was(c)'
    BY <1>1, <2>1, <2>3, <2>4
  <2>9. QED
    BY <2>1, <2>6, <2>7, <2>8
<1>9. CASE UNCHANGED <<acc, queue, conns>> /\ client' \in {client, None}
  BY <1>9
<1>10. QED
  BY <1>3, <1>4, <1>5, <1>6, <1>7, <1>8, <1>9
     DEF Next, Control, Starting, Stopping, StartListen, StartUnbound, StartNoThread, StopRunning,
         StopClient, DropClient, Accept, AcceptLoop, Send, SendStart, SendRead, SendChunk, Gateways,
         Leave, network, vars

(* A connection that was the client, and is not, will not be it again.     *)
LEMMA ClientsFresh ==
    ASSUME Types, ThreadInv, ConnInv, [Next]_vars
    PROVE  /\ client' # None => Was(client)'
           /\ \A c \in Conn : Was(c) /\ client # c => client' # c
<1> USE Bounds DEF ConnInv, Clients, Conn, None
<1>1. client \in 0 .. MaxConns /\ \A t \in Thread : acc[t].conn \in 0 .. MaxConns
  BY DEF Types, ControlTypes, AcceptTypes
<1>2. CASE client' \in {client, None}
  BY <1>1, <1>2, ConnSteps
<1>3. ASSUME NEW t \in Thread, acc[t].pc = "assign", client' = acc[t].conn, acc'[t].conn = None,
             UNCHANGED <<queue, conns>>, \A u \in Thread \ {t} : acc'[u] = acc[u]
      PROVE  Was(client)' /\ \A c \in Conn : Was(c) => client' # c
  <2>1. acc[t].conn # None /\ acc[t].conn <= conns /\ queue[acc[t].conn] = None
    BY <1>3 DEF Accepted
  <2>2. \A u \in Thread : acc'[u].conn # acc[t].conn
    BY <1>3, <2>1 DEF Accepted
  <2>3. QED
    BY <1>3, <2>1, <2>2 DEF Was
<1>4. QED
  BY <1>2, <1>3, ConnSteps

LEMMA NextConnInv == Types /\ ThreadInv /\ ConnInv /\ [Next]_vars => ConnInv'
<1>1. SUFFICES ASSUME Types, ThreadInv, ConnInv, [Next]_vars PROVE ConnInv'
  OBVIOUS
<1> USE <1>1
<1>2. /\ client \in 0 .. MaxConns /\ snd.sock \in 0 .. MaxConns /\ stopped \subseteq Conn
      /\ ctl \in [pc : {"idle", "start", "stopClient", "dropClient", "stopListener"}, held : 0 .. MaxConns]
      /\ got \in [Conn -> Stream] /\ Backlog /\ Accepted /\ Clients
      /\ snd.pc = "send" => snd.sock # None
  BY DEF Types, ControlTypes, NetworkTypes, SendTypes, ConnInv
<1>3. Backlog' /\ Accepted' /\ \A c \in Conn : Was(c) => Was(c)'
  BY <1>2, ConnSteps
<1>4. (client' # None => Was(client)') /\ \A c \in Conn : Was(c) /\ client # c => client' # c
  BY ClientsFresh
<1>5. client # None => client \in Conn /\ Was(client)
  BY <1>2, Bounds DEF Clients, Conn, None
<1>6. snd'.pc = "send" => Was(snd.sock)'
  <2>1. snd'.pc = "send" => \/ snd'.sock = client /\ client # None
                            \/ snd.pc = "send" /\ snd'.sock = snd.sock
    <3>1. CASE SendStart
      BY <3>1 DEF SendStart
    <3>2. CASE SendRead
      BY <3>2 DEF SendRead, Types, SendTypes
    <3>3. CASE SendChunk
      BY <3>3 DEF SendChunk, Types, SendTypes
    <3>4. CASE UNCHANGED snd
      BY <3>4
    <3>5. QED
      BY <3>1, <3>2, <3>3, <3>4
         DEF Next, Control, Starting, Stopping, StartListen, StartUnbound, StartThread, StartNoThread,
             StopRunning, StopClient, DropClient, StopListener, Accept, AcceptLoop, AcceptCheck,
             AcceptRead, AcceptConn, AcceptError, CloseOld, AssignNew, Send, Gateways, Connect, Leave,
             vars
  <2>2. snd.pc = "send" => snd.sock \in Conn /\ Was(snd.sock)
    BY <1>2, Bounds DEF Clients, Conn, None
  <2>3. QED
    BY <1>3, <1>5, <2>1, <2>2 DEF Was
<1>7. /\ ctl'.held # None => Was(ctl.held)'
      /\ ctl'.held # None /\ ctl'.pc = "stopListener" => client' # ctl'.held
      /\ \A c \in stopped' : Was(c)' /\ client' # c
  <2>1. ctl.held # None => ctl.held \in Conn /\ Was(ctl.held)
    BY <1>2, Bounds DEF Clients, Conn, None
  <2>2. \A c \in stopped : Was(c)' /\ client' # c
    BY <1>2, <1>3, <1>4 DEF Clients
  <2>3. CASE StopRunning
    <3>1. ctl' = [pc |-> "stopClient", held |-> client] /\ stopped' = stopped
      BY <2>3 DEF StopRunning
    <3>2. QED
      BY <1>3, <1>5, <2>2, <3>1 DEF Was
  <2>4. CASE StopClient
    <3>1. /\ ctl'.held = ctl.held /\ ctl'.pc = (IF client # None THEN "dropClient" ELSE "stopListener")
          /\ UNCHANGED <<stopped, client>>
      BY <1>2, <2>4 DEF StopClient
    <3>2. QED
      BY <1>3, <2>1, <2>2, <3>1 DEF Was
  <2>5. CASE DropClient
    <3>1. ctl'.held = ctl.held /\ client' = None /\ stopped' = stopped
      BY <1>2, <2>5 DEF DropClient
    <3>2. QED
      BY <1>3, <2>1, <2>2, <3>1 DEF Was
  <2>6. CASE StopListener
    <3>1. /\ ctl' = [pc |-> "idle", held |-> None] /\ client' = client /\ ctl.pc = "stopListener"
          /\ stopped' = stopped \union ({ctl.held} \ {None})
      BY <2>6 DEF StopListener
    <3>2. \A c \in {ctl.held} \ {None} : Was(c)' /\ client' # c
      BY <1>2, <1>3, <2>1, <3>1 DEF Clients, Was
    <3>3. QED
      BY <2>2, <3>1, <3>2
  <2>7. CASE Starting \/ UNCHANGED <<ctl, stopped>>
    <3>1. ctl'.held = ctl.held /\ stopped' = stopped /\ (ctl'.pc = "stopListener" => ctl.pc = "stopListener")
      BY <1>2, <2>7 DEF Starting, StartListen, StartUnbound, StartThread, StartNoThread
    <3>2. QED
      BY <1>2, <1>3, <1>4, <2>1, <2>2, <3>1 DEF Clients, Was
  <2>8. QED
    BY <2>3, <2>4, <2>5, <2>6, <2>7
       DEF Next, Control, Stopping, Accept, AcceptLoop, AcceptCheck, AcceptRead, AcceptConn,
           AcceptError, CloseOld, AssignNew, Send, SendStart, SendRead, SendChunk, Gateways, Connect,
           Leave, control, vars
<1>8. \A c \in Conn : got'[c] # <<>> => Was(c)'
  <2>1. \A c \in Conn : got'[c] = got[c] \/ (snd.pc = "send" /\ c = snd.sock)
    <3>1. CASE SendChunk
      BY <1>2, <3>1 DEF SendChunk
    <3>2. CASE UNCHANGED got
      BY <3>2
    <3>3. QED
      BY <3>1, <3>2
         DEF Next, Control, Starting, Stopping, StartListen, StartUnbound, StartThread, StartNoThread,
             StopRunning, StopClient, DropClient, StopListener, Accept, AcceptLoop, AcceptCheck,
             AcceptRead, AcceptConn, AcceptError, CloseOld, AssignNew, Send, SendStart, SendRead,
             Gateways, Connect, Leave, vars
  <2>2. QED
    BY <1>2, <1>3, <2>1 DEF Clients
<1>9. QED
  BY <1>3, <1>4, <1>6, <1>7, <1>8 DEF ConnInv, Clients

LEMMA AlwaysConnInv == Spec => [](Types /\ ThreadInv /\ ConnInv)
<1>1. Init => ConnInv
  BY DEF Init, ConnInv, Backlog, Accepted, Clients, None
<1>2. QED
  BY <1>1, NextConnInv, AlwaysTypes, AlwaysThreadInv, PTL DEF Spec

(* Once stop has returned, send_firmware_package begins no chunk to the    *)
(* client that stop closed, even if a late accept thread sets another      *)
(* client or the server is started again.                                  *)
THEOREM StopEnds == Spec => StopEndsTransfer
<1>1. Types /\ ConnInv /\ [Next]_vars => [snd.pc = "loop" /\ snd'.pc = "send" => snd'.sock \notin stopped]_vars
  <2>1. SUFFICES ASSUME Types, ConnInv, Next, snd.pc = "loop", snd'.pc = "send"
                 PROVE  snd'.sock \notin stopped
    BY DEF vars
  <2>2. SendRead
    BY <2>1
       DEF Next, Control, Starting, Stopping, StartListen, StartUnbound, StartThread, StartNoThread,
           StopRunning, StopClient, DropClient, StopListener, Accept, AcceptLoop, AcceptCheck,
           AcceptRead, AcceptConn, AcceptError, CloseOld, AssignNew, Send, SendStart, SendChunk,
           Gateways, Connect, Leave
  <2>3. snd'.sock = client
    BY <2>1, <2>2 DEF SendRead, Types, SendTypes
  <2>4. QED
    BY <2>1, <2>3 DEF ConnInv, Clients
<1>2. QED
  BY <1>1, AlwaysConnInv, PTL DEF Spec, StopEndsTransfer

-----------------------------------------------------------------------------
(* Connection c can still be sent chunks: it is open, and it is the client *)
(* or the socket that a sendall is about to use.                           *)
Live(c) == c \notin closed /\ (c = client \/ (snd.pc = "send" /\ snd.sock = c))

Last(c) == got[c][Len(got[c])]

(* The next chunk of the sender, when it goes to c, follows the last one   *)
(* c was sent; a client that another one is replacing was sent nothing.    *)
Runs ==
    /\ NoGaps
    /\ snd.pc = "send" /\ snd.sock # client /\ client # None => got[client] = <<>>
    /\ \A c \in Conn : got[c] # <<>> /\ Live(c) =>
          /\ snd.pc \notin {"idle", "failed"}
          /\ snd.pc = "ok" => Last(c)[1] <= snd.call /\ Last(c)[2] = Chunks
          /\ snd.pc \in {"loop", "send"} =>
                IF snd.next = 1 THEN Last(c)[1] < snd.call /\ Last(c)[2] = Chunks
                ELSE Last(c) = <<snd.call, snd.next - 1>>

OnlyOne(k) == \E c \in Conn : Has(c, k) /\ \A d \in Conn \ {c} : ~Has(d, k)

(* The chunks before the next one have been sent once, the others not.     *)
Sent ==
    /\ EveryChunkOnce
    /\ \A c \in Conn : \A i \in DOMAIN got[c] : got[c][i][1] <= snd.call
    /\ snd.pc \in {"loop", "send"} =>
          \A k \in 1 .. Chunks :
              IF k < snd.next THEN OnlyOne(k) ELSE \A c \in Conn : ~Has(c, k)

(* What a sendall adds to a connection.                                    *)
LEMMA ChunkSent ==
    ASSUME Types, SendChunk, snd.sock \notin closed
    PROVE  /\ snd.sock \in Conn
           /\ \A c \in Conn \ {snd.sock} : got'[c] = got[c]
           /\ Len(got[snd.sock]) \in Nat /\ DOMAIN got[snd.sock] = 1 .. Len(got[snd.sock])
           /\ DOMAIN got'[snd.sock] = 1 .. Len(got[snd.sock]) + 1
           /\ Len(got'[snd.sock]) = Len(got[snd.sock]) + 1 /\ got'[snd.sock] # <<>>
           /\ \A i \in 1 .. Len(got[snd.sock]) : got'[snd.sock][i] = got[snd.sock][i]
           /\ got'[snd.sock][Len(got[snd.sock]) + 1] = <<snd.call, snd.next>>
<1> DEFINE chunk == <<snd.call, snd.next>>
           old == got[snd.sock]
<1>1. /\ snd.sock \in Conn /\ got \in [Conn -> Stream]
      /\ chunk \in (1 .. MaxSends) \X (1 .. Chunks)
  BY Bounds DEF SendChunk, Types, SendTypes, Conn, None
<1>2. got' = [got EXCEPT ![snd.sock] = Append(old, chunk)]
  BY DEF SendChunk
<1>3. old \in Seq((1 .. MaxSends) \X (1 .. Chunks))
  BY <1>1 DEF Stream
<1>4. got'[snd.sock] = Append(old, chunk) /\ \A c \in Conn \ {snd.sock} : got'[c] = got[c]
  BY <1>1, <1>2
<1> HIDE DEF chunk, old
<1>5. /\ Append(old, chunk) \in Seq((1 .. MaxSends) \X (1 .. Chunks))
      /\ Len(Append(old, chunk)) = Len(old) + 1 /\ Append(old, chunk) # <<>>
      /\ \A i \in 1 .. Len(old) : Append(old, chunk)[i] = old[i]
      /\ Append(old, chunk)[Len(old) + 1] = chunk
  BY <1>1, <1>3, AppendProperties, LenProperties
<1>6. Len(old) \in Nat /\ DOMAIN old = 1 .. Len(old) /\ DOMAIN Append(old, chunk) = 1 .. Len(old) + 1
  BY <1>3, <1>5, LenProperties
<1>7. QED
  BY <1>1, <1>4, <1>5, <1>6 DEF chunk, old

(* Every step keeps what a connection receives a run.                      *)
LEMMA NextRuns == Types /\ ThreadInv /\ ConnInv /\ Runs /\ [Next]_vars => Runs'
<1>1. SUFFICES ASSUME Types, ThreadInv, ConnInv, Runs, [Next]_vars PROVE Runs'
  OBVIOUS
<1> USE <1>1
<1>2. /\ snd \in [pc : {"idle", "loop", "send", "ok", "failed"}, call : 0 .. MaxSends,
                  next : 1 .. Chunks + 1, sock : 0 .. MaxConns]
      /\ client \in 0 .. MaxConns /\ got \in [Conn -> Stream]
      /\ \A c \in Conn : got[c] # <<>> /\ Live(c) /\ snd.pc = "send" => c = snd.sock
  <2>1. \A c \in Conn : c # None
    BY Bounds DEF Conn, None
  <2>2. QED
    BY <2>1 DEF Types, SendTypes, ControlTypes, Runs, Live
<1>3. CASE UNCHANGED <<snd, got>>
  <2>1. closed \subseteq closed'
    BY <1>3
       DEF Next, Control, Starting, Stopping, StartListen, StartUnbound, StartThread, StartNoThread,
           StopRunning, StopClient, DropClient, StopListener, Accept, AcceptLoop, AcceptCheck,
           AcceptRead, AcceptConn, AcceptError, CloseOld, AssignNew, Send, SendStart, SendRead,
           SendChunk, Gateways, Connect, Leave, vars
  <2>2. \A c \in Conn : c = client' /\ got[c] # <<>> => c = client
    BY ClientsFresh DEF ConnInv, Clients
  <2>3. client' # None => client' \in Conn
    <3>1. client' \in 0 .. MaxConns
      BY NextControlTypes DEF ControlTypes
    <3>2. QED
      BY <3>1, Bounds DEF Conn, None
  <2>4. \A c \in Conn : got'[c] = got[c] /\ Last(c)' = Last(c) /\ (got[c] # <<>> /\ Live(c)' => Live(c))
    BY <1>3, <2>1, <2>2 DEF Live, Last
  <2>5. NoGaps'
    BY <1>3 DEF NoGaps, Runs
  <2>6. snd'.pc = "send" /\ snd'.sock # client' /\ client' # None => got'[client'] = <<>>
    BY <1>3, <2>2, <2>3 DEF Runs
  <2>7. QED
    BY <1>3, <2>4, <2>5, <2>6 DEF Runs
<1>4. CASE SendStart
  <2>1. /\ snd.pc \in {"idle", "ok", "failed"} /\ UNCHANGED <<got, closed, client>>
        /\ snd'.pc = "loop" /\ snd'.call = snd.call + 1 /\ snd'.next = 1
    BY <1>4 DEF SendStart
  <2>2. \A c \in Conn : Last(c)' = Last(c) /\ (Live(c)' => Live(c))
    BY <2>1 DEF Live, Last
  <2>3. \A c \in Conn : got[c] # <<>> => Last(c)[1] \in Nat
    <3>1. TAKE c \in Conn
    <3>2. got[c] \in Seq((1 .. MaxSends) \X (1 .. Chunks))
      BY <1>2 DEF Stream
    <3>3. got[c] # <<>> => Len(got[c]) \in 1 .. Len(got[c])
      BY <3>2, EmptySeq, LenProperties
    <3>4. got[c] # <<>> => Last(c) \in (1 .. MaxSends) \X (1 .. Chunks)
      BY <3>2, <3>3, ElementOfSeq DEF Last
    <3>5. QED
      BY <3>4, Bounds
  <2>4. \A c \in Conn : got[c] # <<>> /\ Live(c)' => Last(c)'[1] < snd'.call /\ Last(c)'[2] = Chunks
    BY <1>2, <2>1, <2>2, <2>3, Bounds DEF Runs
  <2>5. NoGaps'
    BY <2>1 DEF NoGaps, Runs
  <2>6. QED
    BY <2>1, <2>4, <2>5 DEF Runs
<1>5. CASE SendRead
  <2>1. /\ snd.pc = "loop" /\ UNCHANGED <<got, closed, client>>
        /\ snd'.call = snd.call /\ snd'.next = snd.next
        /\ \/ client = None /\ snd'.pc = "failed"
           \/ client # None /\ snd'.pc = "send" /\ snd'.sock = client
    BY <1>2, <1>5 DEF SendRead
  <2>2. \A c \in Conn : Last(c)' = Last(c) /\ (Live(c)' => Live(c) /\ c = client)
    BY <2>1 DEF Live, Last
  <2>3. NoGaps'
    BY <2>1 DEF NoGaps, Runs
  <2>4. \A c \in Conn : c # None
    BY Bounds DEF Conn, None
  <2>5. QED
    BY <2>1, <2>2, <2>3, <2>4 DEF Runs
<1>6. CASE SendChunk /\ snd.sock \in closed
  <2>1. snd.pc = "send" /\ UNCHANGED <<got, closed, client>> /\ snd'.pc = "failed"
    BY <1>2, <1>6 DEF SendChunk
  <2>2. \A c \in Conn : Live(c)' => Live(c)
    BY <2>1 DEF Live
  <2>3. \A c \in Conn : got[c] # <<>> => ~Live(c)
    BY <1>2, <1>6, <2>1 DEF Live
  <2>4. NoGaps'
    BY <2>1 DEF NoGaps, Runs
  <2>5. QED
    BY <2>1, <2>2, <2>3, <2>4 DEF Runs
<1>7. CASE SendChunk /\ snd.sock \notin closed
  <2> PICK sock \in Conn : sock = snd.sock
    BY <1>7, ChunkSent
  <2> PICK n \in Nat : n = Len(got[sock])
    BY <1>7, ChunkSent
  <2>1. /\ snd.pc = "send" /\ UNCHANGED <<closed, client>> /\ snd'.next = snd.next + 1 /\ snd'.call = snd.call
        /\ snd'.pc = (IF snd.next = Chunks THEN "ok" ELSE "loop")
    BY <1>2, <1>7 DEF SendChunk
  <2>2. snd.next \in 1 .. Chunks /\ snd.call \in Nat
    BY <1>2, <2>1, Bounds DEF Types, SendTypes
  <2>3. /\ sock \in Conn /\ n \in Nat /\ DOMAIN got'[sock] = 1 .. n + 1 /\ DOMAIN got[sock] = 1 .. n
        /\ \A c \in Conn \ {sock} : got'[c] = got[c]
        /\ \A i \in 1 .. n : got'[sock][i] = got[sock][i]
        /\ got'[sock][n + 1] = <<snd.call, snd.next>>
        /\ Last(sock)' = <<snd.call, snd.next>>
    BY <1>7, ChunkSent DEF Last
  <2>4. Live(sock)
    BY <1>7, <2>1 DEF Live
  <2>5. n >= 1 => IF snd.next = 1 THEN got[sock][n][1] < snd.call /\ got[sock][n][2] = Chunks
                  ELSE got[sock][n] = <<snd.call, snd.next - 1>>
    <3>1. n >= 1 => got[sock] # <<>>
      BY <2>3
    <3>2. QED
      BY <2>1, <2>3, <2>4, <3>1 DEF Runs, Last
  <2>6. NoGaps'
    <3>1. ASSUME NEW c \in Conn, NEW i \in DOMAIN got'[c] \ {1}
          PROVE  LET old == got'[c][i - 1]
                     new == got'[c][i]
                 IN  \/ new = <<old[1], old[2] + 1>>
                     \/ old[2] = Chunks /\ new[2] = 1 /\ new[1] > old[1]
      <4>1. CASE c # sock
        BY <2>3, <3>1, <4>1 DEF Runs, NoGaps
      <4>2. CASE c = sock /\ i # n + 1
        <5>1. i \in 2 .. n /\ i - 1 \in 1 .. n
          BY <2>3, <3>1, <4>2
        <5>2. /\ i \in DOMAIN got[c] \ {1}
              /\ got'[c][i] = got[c][i] /\ got'[c][i - 1] = got[c][i - 1]
          BY <2>3, <4>2, <5>1
        <5>3. NoGaps
          BY DEF Runs
        <5>4. QED
          BY <5>2, <5>3 DEF NoGaps
      <4>3. CASE c = sock /\ i = n + 1
        <5>1. n >= 1 /\ i - 1 = n /\ n \in 1 .. n
          BY <2>3, <3>1, <4>3
        <5>2. got'[c][i - 1] = got[sock][n] /\ got'[c][i] = <<snd.call, snd.next>>
          BY <2>3, <4>3, <5>1
        <5>3. CASE snd.next = 1
          BY <2>2, <2>5, <5>1, <5>2, <5>3
        <5>4. CASE snd.next # 1
          BY <2>2, <2>5, <5>1, <5>2, <5>4
        <5>5. QED
          BY <5>3, <5>4
      <4>4. QED
        BY <4>1, <4>2, <4>3
    <3>2. QED
      BY <3>1 DEF NoGaps
  <2>7. ASSUME NEW c \in Conn, got'[c] # <<>>, Live(c)'
        PROVE  c = sock
    <3>1. Live(c)
      BY <2>1, <2>7 DEF Live
    <3>2. QED
      BY <1>2, <2>1, <2>3, <2>7, <3>1
  <2>8. /\ snd'.pc = "ok" => Last(sock)'[1] <= snd'.call /\ Last(sock)'[2] = Chunks
        /\ snd'.pc = "loop" => snd'.next # 1 /\ Last(sock)' = <<snd'.call, snd'.next - 1>>
    BY <2>1, <2>2, <2>3
  <2>9. QED
    BY <2>1, <2>6, <2>7, <2>8 DEF Runs
<1>8. QED
  BY <1>3, <1>4, <1>5, <1>6, <1>7
     DEF Next, Control, Starting, Stopping, StartListen, StartUnbound, StartThread, StartNoThread,
         StopRunning, StopClient, DropClient, StopListener, Accept, AcceptLoop, AcceptCheck,
         AcceptRead, AcceptConn, AcceptError, CloseOld, AssignNew, Send, Gateways, Connect, Leave, vars

(* Every step keeps what has been sent of the package under way.           *)
LEMMA NextSent == Types /\ Sent /\ [Next]_vars => Sent'
<1>1. SUFFICES ASSUME Types, Sent, [Next]_vars PROVE Sent'
  OBVIOUS
<1> USE <1>1
<1>2. /\ snd \in [pc : {"idle", "loop", "send", "ok", "failed"}, call : 0 .. MaxSends,
                  next : 1 .. Chunks + 1, sock : 0 .. MaxConns]
      /\ snd.call \in Nat /\ snd.next \in Nat
  BY Bounds DEF Types, SendTypes
<1>3. CASE UNCHANGED <<got, snd>>
  <2>1. \A c \in Conn, k \in 1 .. Chunks : Has(c, k)' = Has(c, k)
    BY <1>3 DEF Has
  <2>2. \A k \in 1 .. Chunks : OnlyOne(k)' = OnlyOne(k)
    BY <2>1 DEF OnlyOne
  <2>3. EveryChunkOnce'
    BY <1>3, <2>1 DEF Sent, EveryChunkOnce
  <2>4. QED
    BY <1>3, <2>1, <2>2, <2>3 DEF Sent
<1>4. CASE SendStart
  <2>1. got' = got /\ snd'.pc = "loop" /\ snd'.call = snd.call + 1 /\ snd'.next = 1
    BY <1>4 DEF SendStart
  <2>2. \A c \in Conn : \A i \in DOMAIN got[c] :
           got[c][i][1] <= snd.call + 1 /\ got[c][i][1] # snd.call + 1
    <3>1. \A c \in Conn : \A i \in DOMAIN got[c] : got[c][i][1] \in Nat
      <4>1. TAKE c \in Conn
      <4>2. got[c] \in Seq((1 .. MaxSends) \X (1 .. Chunks))
        BY DEF Types, SendTypes, Stream
      <4>3. \A i \in DOMAIN got[c] : got[c][i] \in (1 .. MaxSends) \X (1 .. Chunks)
        BY <4>2, ElementOfSeq, LenProperties
      <4>4. QED
        BY <4>3, Bounds
    <3>2. QED
      BY <1>2, <3>1 DEF Sent
  <2>3. \A k \in 1 .. Chunks : \A c \in Conn : ~Has(c, k)'
    BY <1>2, <2>1, <2>2 DEF Has
  <2>4. \A k \in 1 .. Chunks : ~(k < snd'.next)
    BY <2>1, Bounds
  <2>5. \A c \in Conn : \A i \in DOMAIN got'[c] : got'[c][i][1] <= snd'.call
    BY <2>1, <2>2
  <2>6. QED
    BY <2>1, <2>3, <2>4, <2>5 DEF Sent, EveryChunkOnce
<1>5. CASE SendRead \/ (SendChunk /\ snd.sock \in closed)
  <2>1. /\ got' = got /\ snd'.call = snd.call /\ snd'.next = snd.next
        /\ snd.pc \in {"loop", "send"} /\ snd'.pc \in {"send", "failed"}
    BY <1>2, <1>5 DEF SendRead, SendChunk
  <2>2. \A c \in Conn, k \in 1 .. Chunks : Has(c, k)' = Has(c, k)
    BY <2>1 DEF Has
  <2>3. \A k \in 1 .. Chunks : OnlyOne(k)' = OnlyOne(k)
    BY <2>2 DEF OnlyOne
  <2>4. QED
    BY <2>1, <2>2, <2>3 DEF Sent, EveryChunkOnce
<1>6. CASE SendChunk /\ snd.sock \notin closed
  <2>1. /\ snd.pc = "send" /\ snd'.next = snd.next + 1 /\ snd'.call = snd.call
        /\ snd'.pc = (IF snd.next = Chunks THEN "ok" ELSE "loop")
    BY <1>2, <1>6 DEF SendChunk
  <2>2. snd.next \in 1 .. Chunks /\ Chunks \in Nat
    BY <1>2, <2>1, Bounds DEF Types, SendTypes
  <2>3. PICK sock \in Conn : sock = snd.sock
    BY <1>6, ChunkSent
  <2>4. PICK n \in Nat :
          /\ DOMAIN got'[sock] = 1 .. n + 1 /\ DOMAIN got[sock] = 1 .. n
          /\ \A c \in Conn \ {sock} : got'[c] = got[c]
          /\ \A i \in 1 .. n : got'[sock][i] = got[sock][i]
          /\ got'[sock][n + 1] = <<snd.call, snd.next>>
    BY <1>6, <2>3, ChunkSent
  <2>5. \A c \in Conn, k \in 1 .. Chunks : Has(c, k)' <=> Has(c, k) \/ (c = sock /\ k = snd.next)
    <3>1. TAKE c \in Conn, k \in 1 .. Chunks
    <3>2. CASE c # sock
      BY <2>1, <2>4, <3>2 DEF Has
    <3>3. CASE c = sock
      <4>1. Has(c, k)' <=> \E i \in 1 .. n + 1 : got'[sock][i] = <<snd.call, k>>
        BY <2>1, <2>4, <3>3 DEF Has
      <4>2. Has(c, k) <=> \E i \in 1 .. n : got[sock][i] = <<snd.call, k>>
        BY <2>4, <3>3 DEF Has
      <4>3. 1 .. n + 1 = (1 .. n) \union {n + 1}
        OBVIOUS
      <4>4. QED
        BY <2>4, <3>3, <4>1, <4>2, <4>3
    <3>4. QED
      BY <3>2, <3>3
  <2>6. \A c \in Conn : \A i \in DOMAIN got'[c] : got'[c][i][1] <= snd'.call
    <3>1. TAKE c \in Conn
    <3>2. CASE c # sock
      BY <2>1, <2>4, <3>2 DEF Sent
    <3>3. CASE c = sock
      <4>1. \A i \in 1 .. n : got'[c][i][1] <= snd.call
        BY <2>4, <3>3 DEF Sent
      <4>2. got'[c][n + 1][1] <= snd.call
        BY <1>2, <2>4, <3>3
      <4>3. DOMAIN got'[c] = (1 .. n) \union {n + 1}
        BY <2>4, <3>3
      <4>4. QED
        BY <2>1, <4>1, <4>2, <4>3
    <3>4. QED
      BY <3>2, <3>3
  <2>7. \A k \in 1 .. Chunks : IF k < snd'.next THEN OnlyOne(k)' ELSE \A c \in Conn : ~Has(c, k)'
    <3>1. TAKE k \in 1 .. Chunks
    <3>2. IF k < snd.next THEN OnlyOne(k) ELSE \A c \in Conn : ~Has(c, k)
      BY <2>1 DEF Sent
    <3>3. CASE k < snd.next
      <4>1. \A c \in Conn : Has(c, k)' <=> Has(c, k)
        BY <2>5, <3>3
      <4>2. QED
        BY <1>2, <2>1, <3>2, <3>3, <4>1 DEF OnlyOne
    <3>4. CASE k = snd.next
      <4>1. \A c \in Conn : Has(c, k)' <=> c = sock
        BY <1>2, <2>5, <3>2, <3>4
      <4>2. QED
        BY <1>2, <2>1, <3>4, <4>1 DEF OnlyOne
    <3>5. CASE k > snd.next
      <4>1. \A c \in Conn : ~Has(c, k)'
        BY <1>2, <2>5, <3>2, <3>5
      <4>2. QED
        BY <1>2, <2>1, <3>5, <4>1
    <3>6. QED
      BY <1>2, <3>3, <3>4, <3>5
  <2>8. snd'.pc = "ok" => \A k \in 1 .. Chunks : OnlyOne(k)'
    BY <2>1, <2>2, <2>7
  <2>9. QED
    BY <2>6, <2>7, <2>8 DEF Sent, EveryChunkOnce, OnlyOne
<1>7. QED
  BY <1>3, <1>4, <1>5, <1>6
     DEF Next, Control, Starting, Stopping, StartListen, StartUnbound, StartThread, StartNoThread,
         StopRunning, StopClient, DropClient, StopListener, Accept, AcceptLoop, AcceptCheck,
         AcceptRead, AcceptConn, AcceptError, CloseOld, AssignNew, Send, Gateways, Connect, Leave, vars

LEMMA AlwaysSent == Spec => [](Runs /\ Sent)
<1>1. Init => Runs /\ Sent
  BY DEF Init, Runs, NoGaps, Sent, EveryChunkOnce
<1>2. QED
  BY <1>1, NextRuns, NextSent, AlwaysConnInv, PTL DEF Spec

(* What one connection receives is a run of the stream without a gap,      *)
(* although the client may change between any two chunks                   *)
(* (send_firmware_package, _accept_loop and stop).                         *)
THEOREM NoGapsEver == Spec => []NoGaps
<1>1. Runs => NoGaps
  BY DEF Runs
<1>2. QED
  BY <1>1, AlwaysSent, PTL

(* send_firmware_package returns True only when every chunk of the package *)
(* has been sent to one connection and no chunk to two.                    *)
THEOREM EveryChunkSentOnce == Spec => []EveryChunkOnce
<1>1. Sent => EveryChunkOnce
  BY DEF Sent
<1>2. QED
  BY <1>1, AlwaysSent, PTL
=============================================================================
