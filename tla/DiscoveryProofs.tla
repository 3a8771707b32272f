--------------------------- MODULE DiscoveryProofs ---------------------------
(***************************************************************************)
(* Theorems about Discovery, for every interval that is shorter than the   *)
(* two timeouts, every set of foreign messages, and any number of starts,  *)
(* errors, lost and foreign datagrams.                                     *)
(***************************************************************************)
EXTENDS Discovery, SequenceTheorems, TLAPS

(* How long loop t sleeps before it broadcasts.                            *)
Left(t) == IF pc[t] = "sleep" THEN sleepLeft[t] ELSE 0

(* Where a call of stop is, and what it has left of the beacon's fields.   *)
CallAgrees ==
    /\ is_running => user = "idle" /\ udp_socket # 0 /\ broadcast_thread # 0
    /\ user = "idle" /\ ~is_running => ~Started(broadcast_thread)
    /\ user = "join" => broadcast_thread # 0 /\ udp_socket = 0

(* No loop but the beacon's own; the numbers of later ones are free.       *)
OneLoop ==
    /\ \A t \in Threads : Alive(t) => t = broadcast_thread
    /\ \A t \in Threads : t > budget["starts"] => pc[t] = "none"

(* The join lasts longer than the sleep of the loop it waits for.          *)
JoinOutlasts ==
    user = "join" /\ Alive(broadcast_thread) => joinLeft > Left(broadcast_thread)

StopInv == CallAgrees /\ OneLoop /\ JoinOutlasts

(* A wait without an excuse has a beacon in the socket, or a loop that     *)
(* broadcasts before the timeout.                                          *)
BeaconComes ==
    gateway = "recv" /\ ~excused =>
      \/ \E i \in DOMAIN inbox : ParseBeacon(inbox[i])
      \/ \E t \in Threads : Alive(t) /\ recvLeft > Left(t)

-----------------------------------------------------------------------------
(* A beacon is a message that parse_beacon takes for the server's address. *)
LEMMA BeaconParses ==
    ParseBeacon(Beacon) /\ <<Beacon[2], Beacon[3]>> = Server
<1>1. PICK address \in Addresses, port \in Ports : Server = <<address, port>>
  BY MessagesAssumption
<1>2. DEFINE Parts == {"FOTA_BEACON", address, port}
             mark == <<"FOTA_BEACON">>
             server == <<address, port>>
<1>3. mark \in Seq(Parts) /\ server \in Seq(Parts) /\ Len(mark) = 1 /\ Len(server) = 2
  OBVIOUS
<1>4. /\ Len(mark \o server) = Len(mark) + Len(server)
      /\ \A i \in 1 .. Len(mark) + Len(server) :
            (mark \o server)[i] = IF i <= Len(mark) THEN mark[i] ELSE server[i - Len(mark)]
  <2> HIDE DEF Parts, mark, server
  <2> QED
    BY <1>3, ConcatProperties
<1>5. Len(Beacon) = 3 /\ Beacon[1] = "FOTA_BEACON" /\ Beacon[2] = address /\ Beacon[3] = port
  <2>1. Beacon = mark \o server
    BY <1>1 DEF Beacon
  <2>2. mark[1] = "FOTA_BEACON" /\ server[1] = address /\ server[2] = port
    OBVIOUS
  <2> HIDE DEF Parts, mark, server
  <2> QED
    BY <1>3, <1>4, <2>1, <2>2
<1>6. QED
  BY <1>1, <1>5 DEF ParseBeacon

(* What udp_wait_for_beacon takes for a beacon is the manager's.           *)
LEMMA OnlyServerParses ==
    ASSUME NEW message \in ForeignMessages \union {Beacon}, ParseBeacon(message)
    PROVE  <<message[2], message[3]>> = Server
<1>1. CASE message = Beacon
  BY <1>1, BeaconParses
<1>2. CASE message \in ForeignMessages
  <2>1. Len(message) >= 3 /\ message[1] = "FOTA_BEACON" /\ message[2] \in Addresses /\ message[3] \in Ports
    BY DEF ParseBeacon
  <2>2. QED
    BY <1>2, <2>1, MessagesAssumption
<1>3. QED
  BY <1>1, <1>2

-----------------------------------------------------------------------------
(* A start, an error or a datagram that was lost or is foreign is counted, *)
(* up to its bound.                                                        *)
LEMMA SpendTypes ==
    ASSUME TypeOK, NEW event \in Events, Spend(event)
    PROVE  /\ budget' \in [Events -> Nat] /\ \A e \in Events : budget'[e] <= Bound[e]
           /\ budget[event] + 1 \in Nat \ {0} /\ budget[event] + 1 <= Bound[event]
<1>1. budget \in [Events -> Nat] /\ \A e \in Events : budget[e] <= Bound[e]
  BY DEF TypeOK
<1>2. Bound[event] \in Nat
  BY BoundsAssumption DEF Bound, Events
<1>3. budget[event] < Bound[event] /\ budget' = [budget EXCEPT ![event] = budget[event] + 1]
  BY DEF Spend
<1>4. budget[event] + 1 \in Nat \ {0} /\ budget[event] + 1 <= Bound[event]
  BY <1>1, <1>2, <1>3
<1>5. \A e \in Events : budget'[e] = IF e = event THEN budget[event] + 1 ELSE budget[e]
  BY <1>1, <1>3
<1>6. QED
  BY <1>1, <1>3, <1>4, <1>5

(* A start makes a thread of its own.                                      *)
LEMMA StartsThread ==
    ASSUME TypeOK, budget["starts"] < MaxStarts
    PROVE  /\ budget["starts"] \in Nat
           /\ budget["starts"] + 1 \in Threads /\ budget["starts"] + 1 > budget["starts"]
<1>1. budget["starts"] \in Nat /\ MaxStarts \in Nat
  BY BoundsAssumption DEF TypeOK, Events
<1>2. QED
  BY <1>1 DEF Threads

(* A start that fails spends an error as well.                             *)
LEMMA FailedStart ==
    ASSUME TypeOK, StartFails
    PROVE  /\ budget' \in [Events -> Nat] /\ \A e \in Events : budget'[e] <= Bound[e]
           /\ budget'["starts"] = budget["starts"] + 1
<1>1. budget \in [Events -> Nat] /\ \A e \in Events : budget[e] <= Bound[e]
  BY DEF TypeOK
<1>2. budget' = [budget EXCEPT !["starts"] = budget["starts"] + 1, !["errors"] = budget["errors"] + 1]
  BY DEF StartFails
<1>3. "starts" \in Events /\ "errors" \in Events /\ "starts" # "errors"
  BY DEF Events
<1>4. \A e \in Events :
         budget'[e] = IF e \in {"starts", "errors"} THEN budget[e] + 1 ELSE budget[e]
  BY <1>1, <1>2, <1>3
<1>5. Bound["starts"] = MaxStarts /\ Bound["errors"] = MaxErrors
  BY DEF Bound, Events
<1>6. budget["starts"] + 1 <= Bound["starts"] /\ budget["errors"] + 1 <= Bound["errors"]
  <2>1. /\ budget["starts"] \in Nat /\ budget["errors"] \in Nat
        /\ MaxStarts \in Nat /\ MaxErrors \in Nat
    BY <1>1, <1>3, BoundsAssumption
  <2>2. QED
    BY <1>5, <2>1 DEF StartFails
<1>7. budget' \in [Events -> Nat]
  BY <1>1, <1>2, <1>3
<1>8. QED
  BY <1>1, <1>3, <1>4, <1>6, <1>7

(* A loop goes to sleep for the whole interval.                            *)
LEMMA SleepTypes ==
    ASSUME TypeOK, NEW t \in Threads, Sleep(t)
    PROVE  /\ pc' \in [Threads -> {"none", "check", "send", "sleep", "done"}]
           /\ sleepLeft' \in [Threads -> 0 .. Interval]
<1>1. /\ pc \in [Threads -> {"none", "check", "send", "sleep", "done"}]
      /\ sleepLeft \in [Threads -> 0 .. Interval]
  BY DEF TypeOK
<1>2. Interval \in 0 .. Interval
  BY TimersAssumption
<1>3. QED
  BY ONLY <1>1, <1>2, Sleep(t) DEF Sleep

(* A timer that runs keeps to its range.                                   *)
LEMMA LessKeepsRange ==
    ASSUME NEW max \in Nat, NEW n \in 0 .. max
    PROVE  Less(n) \in 0 .. max
  BY DEF Less

(* The variables keep to their types; the address that was found is the    *)
(* manager's, whatever other programs send to the port (udp_wait_for_beacon*)
(* and parse_beacon).                                                      *)
THEOREM DiscoveryTypes == Spec => []TypeOK
<1> USE TimersAssumption, BoundsAssumption DEF TypeOK, Threads, Events, Bound
<1>0. MaxStarts \in Nat
  BY BoundsAssumption
<1>1. Init => TypeOK
  <2>1. SUFFICES ASSUME Init PROVE TypeOK
    OBVIOUS
  <2>2. inbox \in Seq(ForeignMessages \union {Beacon})
    BY <2>1 DEF Init
  <2>3. budget \in [Events -> Nat] /\ \A e \in Events : budget[e] <= Bound[e]
    BY <2>1 DEF Init
  <2>4. pc \in [Threads -> {"none", "check", "send", "sleep", "done"}]
    BY <2>1 DEF Init
  <2>5. {udp_socket, broadcast_thread} \subseteq 0 .. MaxStarts
    BY <1>0, <2>1 DEF Init
  <2>6. sleepLeft \in [Threads -> 0 .. Interval]
    BY <2>1 DEF Init
  <2>7. /\ is_running \in BOOLEAN /\ excused \in BOOLEAN /\ failed \in BOOLEAN
        /\ user \in {"idle", "close", "join"} /\ gateway \in {"idle", "recv"}
        /\ found \in {Server, NotFound}
    BY <2>1 DEF Init
  <2>8. joinLeft \in 0 .. JoinTimeout /\ recvLeft \in 0 .. RecvTimeout
    BY <2>1 DEF Init
  <2>9. QED
    BY <2>2, <2>3, <2>4, <2>5, <2>6, <2>7, <2>8
<1>2. TypeOK /\ [Next]_vars => TypeOK'
  <2>1. SUFFICES ASSUME TypeOK, [Next]_vars PROVE TypeOK'
    OBVIOUS
  <2> USE <2>1
  <2>2. CASE Start
    <3>1. budget["starts"] + 1 \in Threads
      BY <2>1, <2>2, StartsThread DEF Start, Spend
    <3>2. budget' \in [Events -> Nat] /\ \A e \in Events : budget'[e] <= Bound[e]
      BY <2>1, <2>2, SpendTypes DEF Start
    <3>3. pc' \in [Threads -> {"none", "check", "send", "sleep", "done"}]
      BY <2>2, <3>1 DEF Start
    <3>4. {udp_socket', broadcast_thread'} \subseteq 0 .. MaxStarts
      BY <1>0, <2>2, <3>1 DEF Start
    <3>5. QED
      BY <2>2, <3>2, <3>3, <3>4 DEF Start, call, listener
  <2>15. CASE StartFails
    <3>1. budget["starts"] + 1 \in Threads
      BY <2>1, <2>15, StartsThread DEF StartFails
    <3>2. budget' \in [Events -> Nat] /\ \A e \in Events : budget'[e] <= Bound[e]
      BY <2>1, <2>15, FailedStart
    <3>3. /\ udp_socket' \in {udp_socket, budget["starts"] + 1}
          /\ broadcast_thread' \in {broadcast_thread, budget["starts"] + 1}
          /\ is_running' \in {is_running, TRUE} /\ failed' = TRUE
          /\ UNCHANGED <<call, loops, listener, excused>>
      BY <2>15 DEF StartFails
    <3>4. {udp_socket', broadcast_thread'} \subseteq 0 .. MaxStarts
      <4>1. {udp_socket, broadcast_thread} \subseteq 0 .. MaxStarts
        BY <2>1 DEF TypeOK
      <4>2. budget["starts"] + 1 \in 0 .. MaxStarts
        BY ONLY <1>0, <3>1 DEF Threads
      <4>3. QED
        BY ONLY <3>3, <4>1, <4>2
    <3>5. QED
      BY <3>2, <3>3, <3>4 DEF call, loops, listener
  <2>3. CASE Stop
    BY <2>3 DEF Stop, loops, listener, history
  <2>4. CASE StopClose
    BY <2>4 DEF StopClose, loops, listener, history
  <2>5. CASE StopJoin
    BY <2>5 DEF StopJoin, loops, listener, history
  <2>6. ASSUME NEW t \in Threads, Loop(t) PROVE TypeOK'
    <3>1. CASE Check(t)
      BY <3>1 DEF Check, Ends, beacon, call, listener
    <3>2. CASE Send(t)
      <4>1. inbox' \in Seq(ForeignMessages \union {Beacon})
        BY <3>2, AppendProperties DEF Send
      <4>2. /\ pc' \in [Threads -> {"none", "check", "send", "sleep", "done"}]
            /\ sleepLeft' \in [Threads -> 0 .. Interval]
        BY <3>2, SleepTypes DEF Send
      <4>3. UNCHANGED <<beacon, call, gateway, recvLeft, found, budget, history>>
        BY <3>2 DEF Send
      <4>4. QED
        BY <4>1, <4>2, <4>3 DEF beacon, call, history
    <3>3. CASE SendLost(t)
      <4>1. budget' \in [Events -> Nat] /\ \A e \in Events : budget'[e] <= Bound[e]
        BY <2>1, <3>3, SpendTypes DEF SendLost
      <4>2. /\ pc' \in [Threads -> {"none", "check", "send", "sleep", "done"}]
            /\ sleepLeft' \in [Threads -> 0 .. Interval]
        BY <3>3, SleepTypes DEF SendLost
      <4>3. UNCHANGED <<beacon, call, listener, failed>> /\ excused' = TRUE
        BY <3>3 DEF SendLost
      <4>4. QED
        BY <4>1, <4>2, <4>3 DEF beacon, call, listener
    <3>4. CASE SendFails(t)
      <4>1. budget' \in [Events -> Nat] /\ \A e \in Events : budget'[e] <= Bound[e]
        BY <2>1, <3>4, SpendTypes DEF SendFails
      <4>2. QED
        BY <3>4, <4>1 DEF SendFails, Ends, beacon, call, listener
    <3>5. CASE SendNoSocket(t)
      BY <3>5 DEF SendNoSocket, Ends, beacon, call, listener
    <3>6. CASE Wake(t)
      BY <3>6 DEF Wake, beacon, call, listener, history
    <3>7. QED
      BY <2>6, <3>1, <3>2, <3>3, <3>4, <3>5, <3>6 DEF Loop
  <2>7. CASE Listen
    BY <2>7 DEF Listen, beacon, call, loops
  <2>16. CASE ListenFails \/ ReceiveError
    <3>1. budget' \in [Events -> Nat] /\ \A e \in Events : budget'[e] <= Bound[e]
      BY <2>1, <2>16, SpendTypes DEF ListenFails, ReceiveError
    <3>2. /\ gateway' \in {"idle", "recv"} /\ found' = NotFound
          /\ inbox' \in {inbox, <<>>} /\ recvLeft' \in {recvLeft, 0}
      BY <2>16 DEF ListenFails, ReceiveError, Return
    <3>3. UNCHANGED <<beacon, call, loops, failed>> /\ excused' \in {excused, TRUE}
      BY <2>16 DEF ListenFails, ReceiveError, Return, history
    <3>4. /\ inbox' \in Seq(ForeignMessages \union {Beacon})
          /\ recvLeft' \in 0 .. RecvTimeout
      <4>1. <<>> \in Seq(ForeignMessages \union {Beacon})
        OBVIOUS
      <4>2. 0 \in 0 .. RecvTimeout
        OBVIOUS
      <4>3. QED
        BY <3>2, <4>1, <4>2
    <3>5. found' \in {Server, NotFound} /\ gateway' \in {"idle", "recv"}
          /\ excused' \in BOOLEAN /\ failed' \in BOOLEAN
      BY <3>2, <3>3
    <3>6. {udp_socket', broadcast_thread'} \subseteq 0 .. MaxStarts /\ is_running' \in BOOLEAN
      BY <3>3 DEF beacon
    <3>7. QED
      BY <3>1, <3>3, <3>4, <3>5, <3>6 DEF call, loops
  <2>8. CASE ReceiveBeacon
    <3>1. Head(inbox) \in ForeignMessages \union {Beacon}
      BY <2>8, HeadTailProperties DEF ReceiveBeacon
    <3>2. found' = Server
      BY <2>8, <3>1, OnlyServerParses DEF ReceiveBeacon, Return
    <3>3. QED
      BY <2>8, <3>2 DEF ReceiveBeacon, Return, beacon, call, loops, history
  <2>9. CASE ReceiveForeign
    <3>1. inbox' \in Seq(ForeignMessages \union {Beacon})
      BY <2>9, HeadTailProperties DEF ReceiveForeign
    <3>2. QED
      BY <2>9, <3>1 DEF ReceiveForeign, beacon, call, loops, history
  <2>10. CASE ReceiveTimeout
    BY <2>10 DEF ReceiveTimeout, Return, beacon, call, loops, history
  <2>11. CASE Foreign
    <3>1. inbox' \in Seq(ForeignMessages \union {Beacon})
      BY <2>11, AppendProperties DEF Foreign
    <3>2. budget' \in [Events -> Nat] /\ \A e \in Events : budget'[e] <= Bound[e]
      BY <2>1, <2>11, SpendTypes DEF Foreign
    <3>3. QED
      BY <2>11, <3>1, <3>2 DEF Foreign, beacon, call, loops, history
  <2>12. CASE Tick
    <3>1. sleepLeft' \in [Threads -> 0 .. Interval]
      <4>1. sleepLeft' = [t \in Threads |-> Less(sleepLeft[t])]
        BY <2>12 DEF Tick
      <4>2. Interval \in Nat /\ \A t \in Threads : sleepLeft[t] \in 0 .. Interval
        BY DEF TypeOK
      <4>3. \A t \in Threads : Less(sleepLeft[t]) \in 0 .. Interval
        BY ONLY <4>2, LessKeepsRange
      <4>4. QED
        BY ONLY <4>1, <4>3
    <3>2. joinLeft' \in 0 .. JoinTimeout /\ recvLeft' \in 0 .. RecvTimeout
      <4>1. /\ JoinTimeout \in Nat /\ joinLeft \in 0 .. JoinTimeout
            /\ RecvTimeout \in Nat /\ recvLeft \in 0 .. RecvTimeout
        BY DEF TypeOK
      <4>2. joinLeft' = Less(joinLeft) /\ recvLeft' = Less(recvLeft)
        BY <2>12 DEF Tick
      <4>3. QED
        BY ONLY <4>1, <4>2, LessKeepsRange
    <3>3. QED
      BY <2>12, <3>1, <3>2 DEF Tick, beacon, history
  <2>13. CASE UNCHANGED vars
    BY <2>13 DEF vars, beacon, call, loops, listener, history
  <2>14. QED
    BY <2>2, <2>3, <2>4, <2>5, <2>6, <2>7, <2>8, <2>9, <2>10, <2>11, <2>12, <2>13, <2>15, <2>16
       DEF Next, UserStep, LoopStep, GatewayStep
<1>3. QED
  BY <1>1, <1>2, PTL DEF Spec

-----------------------------------------------------------------------------
(* Every step preserves the invariant about stop and the loops.            *)
LEMMA NextStopInv == TypeOK /\ StopInv /\ [Next]_vars => StopInv'
<1> USE TimersAssumption, BoundsAssumption
        DEF TypeOK, StopInv, CallAgrees, OneLoop, JoinOutlasts, Left, Alive, Started, Threads, Events
<1>1. SUFFICES ASSUME TypeOK, StopInv, [Next]_vars PROVE StopInv'
  OBVIOUS
<1> USE <1>1
<1>2. CASE Start
  <2>1. budget["starts"] + 1 \in Threads
    BY <1>1, <1>2, StartsThread DEF Start, Spend, Bound
  <2> DEFINE new == budget["starts"] + 1
  <2>2. /\ is_running' /\ user' = "idle" /\ udp_socket' = new /\ broadcast_thread' = new
        /\ pc' = [pc EXCEPT ![new] = "check"] /\ new # 0 /\ new \in Threads
    BY <1>2, <2>1 DEF Start, call
  <2>3. budget'["starts"] = new
    BY <1>2 DEF Start, Spend
  <2>4. \A t \in Threads : ~Alive(t)
    <3>1. ~Started(broadcast_thread) /\ \A t \in Threads : Alive(t) => t = broadcast_thread
      BY <1>2 DEF Start
    <3>2. \A t \in Threads : t # 0
      OBVIOUS
    <3>3. QED
      BY ONLY <3>1, <3>2 DEF Started, Alive
  <2> HIDE DEF new
  <2>5. CallAgrees' /\ JoinOutlasts'
    BY <2>2
  <2>6. OneLoop'
    <3>1. budget["starts"] \in Nat
      BY DEF TypeOK, Events
    <3>2. new \in Nat /\ \A t \in Threads : t > new => t # new /\ t > budget["starts"]
      BY <3>1 DEF new, Threads
    <3>3. \A t \in Threads : t > new => pc[t] = "none"
      BY <2>1, <3>2
    <3>4. QED
      BY <2>2, <2>3, <2>4, <3>2, <3>3
  <2>7. QED
    BY <2>5, <2>6
<1>14. CASE StartFails
  <2> DEFINE new == budget["starts"] + 1
  <2>1. /\ new \in Threads /\ new > budget["starts"] /\ budget["starts"] \in Nat
        /\ budget'["starts"] = new
    BY <1>1, <1>14, StartsThread, FailedStart DEF StartFails
  <2>2. /\ user = "idle" /\ ~is_running
        /\ user' = user /\ joinLeft' = joinLeft /\ pc' = pc /\ sleepLeft' = sleepLeft
    BY <1>14 DEF StartFails, call, loops
  <2>3. \/ udp_socket' = new /\ broadcast_thread' = new /\ is_running' = TRUE
        \/ broadcast_thread' = broadcast_thread /\ ~is_running'
    BY <1>14, <2>2 DEF StartFails
  <2>4. \A t \in Threads : ~Alive(t)
    <3>1. ~Started(broadcast_thread) /\ \A t \in Threads : Alive(t) => t = broadcast_thread
      BY <2>2
    <3>2. \A t \in Threads : t # 0
      OBVIOUS
    <3>3. QED
      BY ONLY <3>1, <3>2 DEF Started, Alive
  <2> HIDE DEF new
  <2>5. OneLoop'
    <3>1. \A t \in Threads : t > new => t > budget["starts"]
      <4>1. \A t \in Threads : t \in Nat
        OBVIOUS
      <4>2. new \in Nat
        BY ONLY <2>1, <4>1
      <4>3. QED
        BY ONLY <2>1, <4>1, <4>2
    <3>2. QED
      BY <2>1, <2>2, <2>4, <3>1
  <2>6. CallAgrees' /\ JoinOutlasts'
    <3>1. new # 0
      BY <2>1
    <3>2. QED
      BY <2>2, <2>3, <3>1
  <2>7. QED
    BY <2>5, <2>6
<1>3. CASE Stop
  BY <1>3 DEF Stop, loops, listener, history
<1>4. CASE StopClose
  BY <1>4 DEF StopClose, loops, listener, history
<1>5. CASE StopJoin
  BY <1>5 DEF StopJoin, loops, listener, history
<1>6. ASSUME NEW t \in Threads, Loop(t) PROVE StopInv'
  <2>1. CASE Check(t)
    BY <2>1 DEF Check, Ends, beacon, call, listener
  <2>2. CASE Send(t)
    BY <2>2 DEF Send, Sleep, beacon, call, history
  <2>3. CASE SendLost(t)
    BY <2>3 DEF SendLost, Sleep, Spend, beacon, call, listener
  <2>4. CASE SendFails(t)
    BY <2>4 DEF SendFails, Ends, Spend, beacon, call, listener
  <2>5. CASE SendNoSocket(t)
    BY <2>5 DEF SendNoSocket, Ends, beacon, call, listener
  <2>6. CASE Wake(t)
    BY <2>6 DEF Wake, beacon, call, listener, history
  <2>7. QED
    BY <1>6, <2>1, <2>2, <2>3, <2>4, <2>5, <2>6 DEF Loop
<1>7. CASE Listen
  BY <1>7 DEF Listen, beacon, call, loops
<1>8. CASE ReceiveBeacon \/ ReceiveTimeout \/ ListenFails \/ ReceiveError
  <2>1. UNCHANGED <<beacon, call, loops>> /\ budget'["starts"] = budget["starts"]
    BY <1>8 DEF ReceiveBeacon, ReceiveTimeout, ListenFails, ReceiveError, Return, Spend
  <2>2. QED
    BY <2>1 DEF beacon, call, loops
<1>9. CASE ReceiveForeign
  BY <1>9 DEF ReceiveForeign, beacon, call, loops, history
<1>10. CASE Foreign
  BY <1>10 DEF Foreign, Spend, beacon, call, loops, history
<1>11. CASE Tick
  <2>1. UNCHANGED <<beacon, user, pc, budget>>
    BY <1>11 DEF Tick
  <2>2. CallAgrees' /\ OneLoop'
    BY <2>1 DEF beacon
  <2>3. JoinOutlasts'
    <3>1. SUFFICES ASSUME user = "join", Alive(broadcast_thread)
          PROVE  joinLeft' > Left(broadcast_thread)'
      BY <2>1 DEF beacon
    <3>2. broadcast_thread \in Threads
      BY <3>1
    <3>3. joinLeft > 0 /\ pc[broadcast_thread] = "sleep" /\ sleepLeft[broadcast_thread] > 0
      <4>1. ~Busy
        BY <1>11 DEF Tick
      <4>2. /\ joinLeft # 0
            /\ pc[broadcast_thread] \notin {"check", "send"}
            /\ ~(pc[broadcast_thread] = "sleep" /\ sleepLeft[broadcast_thread] = 0)
        BY ONLY <3>1, <3>2, <4>1 DEF Busy
      <4>3. pc[broadcast_thread] = "sleep"
        BY ONLY <3>1, <4>2 DEF Alive
      <4>4. joinLeft \in Nat /\ sleepLeft[broadcast_thread] \in Nat
        BY <3>2
      <4>5. QED
        BY ONLY <4>2, <4>3, <4>4
    <3>4. joinLeft' = joinLeft - 1 /\ Left(broadcast_thread)' = sleepLeft[broadcast_thread] - 1
      BY <1>11, <2>1, <3>2, <3>3 DEF Tick, Less, beacon
    <3>5. joinLeft > sleepLeft[broadcast_thread]
      BY <3>1, <3>3
    <3>6. joinLeft \in Nat /\ sleepLeft[broadcast_thread] \in Nat
      BY <3>2
    <3>7. QED
      BY ONLY <3>4, <3>5, <3>6
  <2>4. QED
    BY <2>2, <2>3
<1>12. CASE UNCHANGED vars
  BY <1>12 DEF vars, beacon, call, loops, listener, history
<1>13. QED
  BY <1>2, <1>3, <1>4, <1>5, <1>6, <1>7, <1>8, <1>9, <1>10, <1>11, <1>12, <1>14
     DEF Next, UserStep, LoopStep, GatewayStep

-----------------------------------------------------------------------------
LEMMA AlwaysStopInv == Spec => [](TypeOK /\ StopInv)
<1>1. Init => StopInv
  <2>1. SUFFICES ASSUME Init PROVE StopInv
    OBVIOUS
  <2>2. \A t \in Threads : pc[t] = "none"
    BY <2>1 DEF Init
  <2>3. ~is_running /\ user = "idle" /\ broadcast_thread = 0
    BY <2>1 DEF Init
  <2>4. QED
    BY <2>2, <2>3 DEF StopInv, CallAgrees, OneLoop, JoinOutlasts, Alive, Started
<1>2. QED
  BY <1>1, NextStopInv, DiscoveryTypes, PTL DEF Spec

(* However the user starts and stops the beacon, no two loops broadcast,   *)
(* and none is left when a stop has returned (stop and _broadcast_loop).   *)
THEOREM OneBroadcasterAlways == Spec => []OneBroadcaster
<1>1. TypeOK /\ StopInv => OneBroadcaster
  <2>1. SUFFICES ASSUME TypeOK, StopInv PROVE OneBroadcaster
    OBVIOUS
  <2>2. \A t \in Threads : Alive(t) => t = broadcast_thread /\ broadcast_thread # 0
    BY <2>1 DEF StopInv, OneLoop, Threads, TypeOK
  <2>3. user = "idle" /\ ~is_running => ~Started(broadcast_thread)
    BY <2>1 DEF StopInv, CallAgrees
  <2>4. \A t \in Threads : Alive(t) => Started(broadcast_thread)
    BY <2>2 DEF Alive, Started
  <2>5. QED
    BY <2>2, <2>3, <2>4 DEF OneBroadcaster
<1>2. QED
  BY <1>1, AlwaysStopInv, PTL

(* A beacon whose is_running is true has a loop that broadcasts, unless    *)
(* its start or a sendto since then has failed (is_active, start and       *)
(* _broadcast_loop).                                                       *)
THEOREM ActiveBroadcastsAlways == Spec => []ActiveBroadcasts
<1> USE DEF ActiveBroadcasts, Alive
<1>1. Init => ActiveBroadcasts
  BY DEF Init
<1>2. TypeOK /\ StopInv /\ ActiveBroadcasts /\ [Next]_vars => ActiveBroadcasts'
  <2>1. SUFFICES ASSUME TypeOK, StopInv, ActiveBroadcasts, [Next]_vars PROVE ActiveBroadcasts'
    OBVIOUS
  <2> USE <2>1
  <2>2. is_running => udp_socket # 0 /\ user = "idle" /\ broadcast_thread \in Threads
    BY BoundsAssumption DEF StopInv, CallAgrees, TypeOK, Threads
  <2>3. pc \in [Threads -> {"none", "check", "send", "sleep", "done"}]
    BY DEF TypeOK
  <2>4. CASE Start
    <3>1. budget["starts"] + 1 \in Threads
      BY <2>4, StartsThread DEF Start, Spend, Bound, Events
    <3>2. QED
      BY <2>3, <2>4, <3>1 DEF Start
  <2>5. CASE StartFails \/ Stop \/ StopClose \/ StopJoin
    BY <2>2, <2>5 DEF StartFails, Stop, StopClose, StopJoin
  <2>6. ASSUME NEW t \in Threads, Loop(t) PROVE ActiveBroadcasts'
    <3>1. UNCHANGED <<is_running, broadcast_thread>> /\ (failed' \/ failed' = failed)
      BY <2>6 DEF Loop, Check, Send, SendLost, SendFails, SendNoSocket, Wake, beacon, history
    <3>2. is_running /\ ~failed' =>
            \E where \in {"check", "send", "sleep"} : pc' = [pc EXCEPT ![t] = where]
      <4>1. CASE Check(t) \/ Send(t) \/ SendLost(t) \/ Wake(t)
        BY <4>1 DEF Check, Send, SendLost, Wake, Sleep
      <4>2. CASE SendFails(t) \/ SendNoSocket(t)
        BY <2>2, <4>2 DEF SendFails, SendNoSocket
      <4>3. QED
        BY <2>6, <4>1, <4>2 DEF Loop
    <3>3. QED
      BY <2>2, <2>3, <3>1, <3>2
  <2>7. CASE GatewayStep \/ Foreign \/ Tick \/ UNCHANGED vars
    <3>1. UNCHANGED <<is_running, broadcast_thread, pc, failed>>
      BY <2>7 DEF GatewayStep, Listen, ListenFails, ReceiveBeacon, ReceiveForeign, ReceiveTimeout,
            ReceiveError, Return, Foreign, Tick, vars, beacon, loops, history
    <3>2. QED
      BY <3>1
  <2>8. QED
    BY <2>4, <2>5, <2>6, <2>7 DEF Next, UserStep, LoopStep
<1>3. QED
  BY <1>1, <1>2, AlwaysStopInv, PTL DEF Spec

-----------------------------------------------------------------------------
(* Every step preserves what a wait for a beacon can count on.             *)
LEMMA NextBeaconComes == TypeOK /\ TypeOK' /\ StopInv /\ BeaconComes /\ [Next]_vars => BeaconComes'
<1> USE TimersAssumption DEF BeaconComes
<1>1. SUFFICES ASSUME TypeOK, TypeOK', StopInv, BeaconComes, [Next]_vars,
                      gateway' = "recv", ~excused'
               PROVE  \/ \E i \in DOMAIN inbox' : ParseBeacon(inbox'[i])
                      \/ \E t \in Threads : Alive(t)' /\ recvLeft' > Left(t)'
  OBVIOUS
<1> USE <1>1
<1>2. inbox \in Seq(ForeignMessages \union {Beacon}) /\ inbox' \in Seq(ForeignMessages \union {Beacon})
  BY DEF TypeOK
<1>3. /\ pc \in [Threads -> {"none", "check", "send", "sleep", "done"}]
      /\ sleepLeft \in [Threads -> 0 .. Interval] /\ recvLeft \in 0 .. RecvTimeout
  BY DEF TypeOK
<1>4. CASE UserStep
  <2>1. UNCHANGED <<gateway, inbox, recvLeft, sleepLeft, excused>>
    BY <1>4 DEF UserStep, Start, StartFails, Stop, StopClose, StopJoin, loops, listener, history
  <2>2. pc' = pc \/ \E t \in Threads : pc[t] = "none" /\ pc' = [pc EXCEPT ![t] = "check"]
    <3>1. CASE Start
      <4>1. budget["starts"] + 1 \in Threads /\ budget["starts"] + 1 > budget["starts"]
        BY <3>1, StartsThread DEF Start, Spend, Bound, Events
      <4>2. QED
        BY <3>1, <4>1 DEF Start, StopInv, OneLoop
    <3>2. CASE StartFails \/ Stop \/ StopClose \/ StopJoin
      BY <3>2 DEF StartFails, Stop, StopClose, StopJoin, loops
    <3>3. QED
      BY <1>4, <3>1, <3>2 DEF UserStep
  <2>3. QED
    BY <1>3, <2>1, <2>2 DEF Alive, Left
<1>5. ASSUME NEW t \in Threads, Loop(t)
      PROVE  \/ \E i \in DOMAIN inbox' : ParseBeacon(inbox'[i])
             \/ \E u \in Threads : Alive(u)' /\ recvLeft' > Left(u)'
  <2>1. UNCHANGED <<gateway, recvLeft>> /\ excused' = excused
    BY <1>5 DEF Loop, Check, Send, SendLost, SendFails, SendNoSocket, Wake, Ends, listener, history
  <2>2. CASE Send(t)
    <3>1. inbox' = Append(inbox, Beacon)
      BY <2>1, <2>2 DEF Send
    <3>2. Len(inbox) + 1 \in DOMAIN inbox' /\ inbox'[Len(inbox) + 1] = Beacon
      BY <1>2, <3>1, AppendProperties
    <3>3. QED
      BY <3>2, BeaconParses
  <2>3. CASE Check(t) \/ Wake(t)
    <3>1. UNCHANGED <<inbox, sleepLeft>> /\ Left(t) = 0
      BY <2>3 DEF Check, Wake, Left, listener
    <3>2. \E where \in {"check", "send"} : pc' = [pc EXCEPT ![t] = where]
      BY <2>3 DEF Check, Wake, Ends
    <3>3. QED
      BY <1>3, <2>1, <3>1, <3>2 DEF Alive, Left
  <2>4. CASE SendLost(t) \/ SendFails(t) \/ SendNoSocket(t)
    BY <2>4 DEF SendLost, SendFails, SendNoSocket, Ends
  <2>5. QED
    BY <1>5, <2>2, <2>3, <2>4 DEF Loop
<1>6. CASE Listen
  <2>1. PICK t \in Threads : Alive(t)
    BY <1>6 DEF Listen
  <2>2. Alive(t)' /\ recvLeft' = RecvTimeout /\ Left(t)' <= Interval
    BY <1>3, <1>6, <2>1 DEF Listen, loops, Alive, Left
  <2>3. Left(t)' \in Nat
    BY <1>3, <1>6 DEF Listen, loops, Left
  <2>4. QED
    BY <2>2, <2>3
<1>7. CASE ReceiveForeign
  <2>1. UNCHANGED <<gateway, pc, sleepLeft, excused>> /\ recvLeft' = RecvTimeout /\ inbox' = Tail(inbox)
    BY <1>7 DEF ReceiveForeign, loops, history
  <2>2. CASE \E i \in DOMAIN inbox : ParseBeacon(inbox[i])
    <3>1. PICK i \in DOMAIN inbox : ParseBeacon(inbox[i])
      BY <2>2
    <3>2. inbox # <<>> /\ ~ParseBeacon(inbox[1])
      BY <1>7, <1>2, HeadTailProperties DEF ReceiveForeign
    <3>3. i \in 2 .. Len(inbox)
      BY <1>2, <3>1, <3>2
    <3>4. i - 1 \in DOMAIN inbox' /\ inbox'[i - 1] = inbox[i]
      BY <1>2, <2>1, <3>2, <3>3, HeadTailProperties
    <3>5. QED
      BY <3>1, <3>4
  <2>3. CASE \E t \in Threads : Alive(t) /\ recvLeft > Left(t)
    BY <1>3, <2>1, <2>3 DEF Alive, Left
  <2>4. QED
    BY <2>1, <2>2, <2>3
<1>8. CASE Foreign
  <2>1. UNCHANGED <<gateway, pc, sleepLeft, recvLeft, excused>>
    BY <1>8 DEF Foreign, loops, history
  <2>2. PICK message \in ForeignMessages : inbox' = Append(inbox, message)
    BY <1>8 DEF Foreign
  <2>3. \A i \in DOMAIN inbox : i \in DOMAIN inbox' /\ inbox'[i] = inbox[i]
    BY <1>2, <2>2, AppendProperties
  <2>4. QED
    BY <2>1, <2>3 DEF Alive, Left
<1>9. CASE Tick
  <2>1. UNCHANGED <<gateway, pc, inbox, excused>> /\ inbox = <<>> /\ recvLeft # 0
    BY <1>9 DEF Tick, Busy, history
  <2>2. PICK t \in Threads : Alive(t) /\ recvLeft > Left(t)
    BY <2>1
  <2>3. pc[t] = "sleep" /\ sleepLeft[t] # 0
    BY <1>9, <2>2 DEF Tick, Busy, Alive
  <2>4. sleepLeft'[t] = sleepLeft[t] - 1 /\ recvLeft' = recvLeft - 1
    BY <1>9, <2>1, <2>3 DEF Tick, Less
  <2>5. QED
    BY <1>3, <2>1, <2>2, <2>3, <2>4 DEF Alive, Left
<1>10. CASE ListenFails \/ ReceiveBeacon \/ ReceiveTimeout \/ ReceiveError
  BY <1>10 DEF ListenFails, ReceiveBeacon, ReceiveTimeout, ReceiveError, Return
<1>11. CASE UNCHANGED vars
  BY <1>11 DEF vars, loops, listener, history, Alive, Left
<1>12. QED
  BY <1>4, <1>5, <1>6, <1>7, <1>8, <1>9, <1>10, <1>11 DEF Next, LoopStep, GatewayStep

LEMMA AlwaysBeaconComes == Spec => []BeaconComes
<1>1. Init => BeaconComes
  BY DEF Init, BeaconComes
<1>2. QED
  BY <1>1, NextBeaconComes, AlwaysStopInv, PTL DEF Spec

(* udp_wait_for_beacon returns false only when a broadcast was lost, there *)
(* was no broadcast loop for a while, or recvfrom failed: the datagrams of *)
(* other programs do not use up its timeout, and the loop broadcasts       *)
(* before it is over.                                                      *)
THEOREM FailsOnlyForReason == Spec => FailsForReason
<1>1. TypeOK /\ BeaconComes /\ [Next]_vars =>
        [gateway = "recv" /\ gateway' = "idle" /\ found' = NotFound => excused']_vars
  <2>1. SUFFICES ASSUME TypeOK, BeaconComes, Next,
                        gateway = "recv", gateway' = "idle", found' = NotFound
                 PROVE  excused'
    BY DEF vars
  <2> USE <2>1
  <2>2. CASE ReceiveBeacon
    <3>1. PICK address, port : address \in Addresses /\ port \in Ports /\ found' = <<address, port>>
      BY <2>2 DEF ReceiveBeacon, ParseBeacon, Return
    <3>2. QED
      BY <3>1, MessagesAssumption
  <2>3. CASE ReceiveTimeout
    <3>1. inbox = <<>> /\ recvLeft = 0
      BY <2>3 DEF ReceiveTimeout
    <3>2. \A t \in Threads : Left(t) \in Nat
      BY DEF Left, TypeOK
    <3>3. QED
      BY <2>3, <3>1, <3>2 DEF BeaconComes, ReceiveTimeout, history
  <2>7. CASE ReceiveError
    BY <2>7 DEF ReceiveError
  <2>4. CASE UserStep \/ Listen \/ ListenFails \/ ReceiveForeign \/ Foreign \/ Tick
    BY <2>4 DEF UserStep, Start, StartFails, Stop, StopClose, StopJoin, Listen, ListenFails,
          ReceiveForeign, Foreign, Tick, listener
  <2>5. CASE LoopStep
    BY <2>5 DEF LoopStep, Loop, Check, Send, SendLost, SendFails, SendNoSocket, Wake, listener
  <2>6. QED
    BY <2>2, <2>3, <2>4, <2>5, <2>7 DEF Next, GatewayStep
<1>2. QED
  BY <1>1, DiscoveryTypes, AlwaysBeaconComes, PTL DEF Spec, FailsForReason
=============================================================================
