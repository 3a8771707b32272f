----------------------------- MODULE Discovery ------------------------------
(***************************************************************************)
(* How a gateway finds the manager: UDPBeacon (network_utils.py), whose    *)
(* thread broadcasts the server's address every interval, and              *)
(* udp_wait_for_beacon (udp_discovery.cpp), which listens for it.          *)
(*                                                                         *)
(* The manager's user starts and stops the beacon, one call at a time; the *)
(* loop runs in a thread of its own and shares the beacon's fields.        *)
(* Datagrams may be lost, sockets and threads may fail, and other programs *)
(* may send to the port.  Time is discrete: it passes (Tick) only when     *)
(* every thread waits, and a timer that has run out is served before it    *)
(* passes again.                                                           *)
(***************************************************************************)
EXTENDS Integers, Sequences, FiniteSets

CONSTANTS
    Interval,        \* seconds between two broadcasts
    JoinTimeout,     \* join(timeout=3) in stop()
    RecvTimeout,     \* timeout_ms of udp_wait_for_beacon
    Server,          \* the beacon's address: the fields after FOTA_BEACON
    Addresses,       \* the texts inet_aton reads
    ForeignMessages, \* what other programs send to the port, split at the bars
    NotFound,        \* udp_wait_for_beacon returned false
    MaxStarts, MaxErrors, MaxLost, MaxForeign  \* bounds on what may happen

Threads == 1 .. MaxStarts

ASSUME TimersAssumption ==
    /\ Interval \in Nat \ {0}
    /\ JoinTimeout \in Nat /\ Interval < JoinTimeout
    /\ RecvTimeout \in Nat /\ Interval < RecvTimeout

(* The beacon's own address is one parse_beacon accepts, and no other      *)
(* program announces a server.                                             *)
Ports == 1 .. 65535

ASSUME MessagesAssumption ==
    /\ \E address \in Addresses, port \in Ports : Server = <<address, port>>
    /\ \A address \in Addresses, port \in Ports : NotFound # <<address, port>>
    /\ \A message \in ForeignMessages :
          Len(message) >= 3 /\ message[1] = "FOTA_BEACON" /\ message[2] \in Addresses =>
              message[3] \notin Ports

ASSUME BoundsAssumption ==
    {MaxStarts, MaxErrors, MaxLost, MaxForeign} \subseteq Nat

VARIABLES
    is_running, udp_socket, broadcast_thread,  \* UDPBeacon's fields, 0 is None
    user,      \* where the user's call is: "idle", "close" or "join"
    joinLeft,  \* what is left of the join's timeout
    pc,        \* where each broadcast loop is
    sleepLeft, \* what is left of its sleep
    gateway,   \* "idle" or "recv"
    inbox,     \* datagrams in the gateway's socket
    recvLeft,  \* what is left of SO_RCVTIMEO
    found,     \* what udp_wait_for_beacon returned last
    budget     \* how often each bounded event has happened

(* For the properties: has the wait under way lost a datagram, been        *)
(* without a loop or failed in recvfrom, and has the last start or a       *)
(* sendto since then failed?                                               *)
VARIABLES excused, failed

beacon == <<is_running, udp_socket, broadcast_thread>>
call == <<user, joinLeft>>
loops == <<pc, sleepLeft>>
listener == <<gateway, inbox, recvLeft, found>>
history == <<excused, failed>>
vars == <<beacon, call, loops, listener, budget, history>>

Events == {"starts", "errors", "lost", "foreign"}
Bound == [starts |-> MaxStarts, errors |-> MaxErrors, lost |-> MaxLost, foreign |-> MaxForeign]

Spend(event) ==
    /\ budget[event] < Bound[event]
    /\ budget' = [budget EXCEPT ![event] = @ + 1]

Alive(t) == pc[t] \in {"check", "send", "sleep"}

(* A Thread object whose start() has been called.                          *)
Started(t) == t # 0 /\ pc[t] # "none"

-----------------------------------------------------------------------------
(* Messages: the parts of the text between the bars.                       *)

Beacon == <<"FOTA_BEACON">> \o Server

(* Mutant: the port is not checked.                                        *)
ParseBeaconAnyPort(message) ==
    /\ Len(message) >= 3
    /\ message[1] = "FOTA_BEACON"
    /\ message[2] \in Addresses

(* parse_beacon returns true.  What follows the port is not looked at.     *)
ParseBeacon(message) ==
    /\ Len(message) >= 3
    /\ message[1] = "FOTA_BEACON"
    /\ message[2] \in Addresses
    /\ message[3] \in Ports

-----------------------------------------------------------------------------
(* The manager: start and stop.                                            *)

Init ==
    /\ is_running = FALSE /\ udp_socket = 0 /\ broadcast_thread = 0
    /\ user = "idle" /\ joinLeft = 0
    /\ pc = [t \in Threads |-> "none"]
    /\ sleepLeft = [t \in Threads |-> 0]
    /\ gateway = "idle" /\ inbox = <<>> /\ recvLeft = 0 /\ found = NotFound
    /\ budget = [e \in Events |-> 0]
    /\ excused = FALSE /\ failed = FALSE

(* A start of a running beacon returns at once.                            *)
Start ==
    /\ user = "idle" /\ ~is_running
    /\ Spend("starts")
    /\ LET t == budget["starts"] + 1
       IN  /\ udp_socket' = t /\ broadcast_thread' = t
           /\ pc' = [pc EXCEPT ![t] = "check"]
    /\ is_running' = TRUE
    /\ failed' = FALSE
    /\ UNCHANGED <<call, sleepLeft, listener, excused>>

(* start() raises.  If it is the Thread's start() that does, is_running    *)
(* stays set, and the beacon has a thread that never runs.                 *)
StartFails ==
    /\ user = "idle" /\ ~is_running
    /\ budget["starts"] < MaxStarts /\ budget["errors"] < MaxErrors
    /\ budget' = [budget EXCEPT !["starts"] = @ + 1, !["errors"] = @ + 1]
    /\ LET t == budget["starts"] + 1
       IN  \/ udp_socket' = t /\ broadcast_thread' = t /\ is_running' = TRUE
           \/ udp_socket' \in {udp_socket, t} /\ UNCHANGED <<is_running, broadcast_thread>>
    /\ failed' = TRUE
    /\ UNCHANGED <<call, loops, listener, excused>>

(* A stop that finds neither is_running nor a socket changes nothing.      *)
Stop ==
    /\ user = "idle" /\ (is_running \/ udp_socket # 0)
    /\ is_running' = FALSE
    /\ user' = "close"
    /\ UNCHANGED <<udp_socket, broadcast_thread, joinLeft, loops, listener, budget, history>>

(* Mutant: stop does not wait for the loop to end.                         *)
StopCloseNoJoin ==
    /\ user = "close"
    /\ udp_socket' = 0 /\ broadcast_thread' = 0
    /\ user' = "idle"
    /\ UNCHANGED <<is_running, joinLeft, loops, listener, budget, history>>

(* The join of a thread that never ran raises, and stop with it.           *)
StopClose ==
    /\ user = "close"
    /\ udp_socket' = 0
    /\ user' = IF Started(broadcast_thread) THEN "join" ELSE "idle"
    /\ joinLeft' = IF Started(broadcast_thread) THEN JoinTimeout ELSE 0
    /\ UNCHANGED <<is_running, broadcast_thread, loops, listener, budget, history>>

StopJoin ==
    /\ user = "join"
    /\ Alive(broadcast_thread) => joinLeft = 0
    /\ broadcast_thread' = 0
    /\ user' = "idle" /\ joinLeft' = 0
    /\ UNCHANGED <<is_running, udp_socket, loops, listener, budget, history>>

-----------------------------------------------------------------------------
(* The broadcast loop of thread t.                                         *)

Ends(t) ==
    /\ pc' = [pc EXCEPT ![t] = "done"]
    /\ excused' = TRUE

Check(t) ==
    /\ pc[t] = "check"
    /\ IF is_running
       THEN pc' = [pc EXCEPT ![t] = "send"] /\ UNCHANGED excused
       ELSE Ends(t)
    /\ UNCHANGED <<beacon, call, sleepLeft, listener, budget, failed>>

Sleep(t) ==
    /\ pc' = [pc EXCEPT ![t] = "sleep"]
    /\ sleepLeft' = [sleepLeft EXCEPT ![t] = Interval]

(* A broadcast reaches the gateway if it listens.                          *)
Send(t) ==
    /\ pc[t] = "send" /\ udp_socket # 0
    /\ Sleep(t)
    /\ inbox' = IF gateway = "recv" THEN Append(inbox, Beacon) ELSE inbox
    /\ UNCHANGED <<beacon, call, gateway, recvLeft, found, budget, history>>

SendLost(t) ==
    /\ pc[t] = "send" /\ udp_socket # 0
    /\ Sleep(t)
    /\ Spend("lost")
    /\ excused' = TRUE
    /\ UNCHANGED <<beacon, call, listener, failed>>

(* sendto raises: the loop ends, and is_running stays as it is.            *)
SendFails(t) ==
    /\ pc[t] = "send" /\ udp_socket # 0
    /\ Spend("errors")
    /\ failed' = TRUE
    /\ Ends(t)
    /\ UNCHANGED <<beacon, call, sleepLeft, listener>>

(* stop has set the socket to None since the loop looked at is_running.    *)
SendNoSocket(t) ==
    /\ pc[t] = "send" /\ udp_socket = 0
    /\ Ends(t)
    /\ UNCHANGED <<beacon, call, sleepLeft, listener, budget, failed>>

(* Mutant: one broadcast only.                                            *)
WakeToEnd(t) ==
    /\ pc[t] = "sleep" /\ sleepLeft[t] = 0
    /\ Ends(t)
    /\ UNCHANGED <<beacon, call, sleepLeft, listener, budget, failed>>

Wake(t) ==
    /\ pc[t] = "sleep" /\ sleepLeft[t] = 0
    /\ pc' = [pc EXCEPT ![t] = "check"]
    /\ UNCHANGED <<beacon, call, sleepLeft, listener, budget, history>>

Loop(t) == Check(t) \/ Send(t) \/ SendLost(t) \/ SendFails(t) \/ SendNoSocket(t) \/ Wake(t)

-----------------------------------------------------------------------------
(* The gateway.                                                            *)

Listen ==
    /\ gateway = "idle"
    /\ gateway' = "recv" /\ inbox' = <<>> /\ recvLeft' = RecvTimeout
    /\ excused' = ~\E t \in Threads : Alive(t)
    /\ UNCHANGED <<beacon, call, loops, found, budget, failed>>

(* socket() or bind() fails.                                               *)
ListenFails ==
    /\ gateway = "idle"
    /\ Spend("errors")
    /\ found' = NotFound
    /\ UNCHANGED <<beacon, call, loops, gateway, inbox, recvLeft, history>>

Return(result) ==
    /\ gateway' = "idle" /\ inbox' = <<>> /\ recvLeft' = 0
    /\ found' = result
    /\ UNCHANGED <<beacon, call, loops>>

ReceiveBeacon ==
    /\ gateway = "recv" /\ inbox # <<>> /\ ParseBeacon(Head(inbox))
    /\ Return(<<Head(inbox)[2], Head(inbox)[3]>>)
    /\ UNCHANGED <<budget, history>>

(* Mutant: a datagram of another program ends the wait.                    *)
ReceiveForeignGivesUp ==
    /\ gateway = "recv" /\ inbox # <<>> /\ ~ParseBeacon(Head(inbox))
    /\ Return(NotFound)
    /\ UNCHANGED <<budget, history>>

(* recvfrom is called again, with its whole timeout.                       *)
ReceiveForeign ==
    /\ gateway = "recv" /\ inbox # <<>> /\ ~ParseBeacon(Head(inbox))
    /\ inbox' = Tail(inbox)
    /\ recvLeft' = RecvTimeout
    /\ UNCHANGED <<beacon, call, loops, gateway, found, budget, history>>

(* Mutant: a timeout is waited out again.                                  *)
ReceiveTimeoutRetries ==
    /\ gateway = "recv" /\ inbox = <<>> /\ recvLeft = 0
    /\ recvLeft' = RecvTimeout
    /\ UNCHANGED <<beacon, call, loops, gateway, inbox, found, budget, history>>

ReceiveTimeout ==
    /\ gateway = "recv" /\ inbox = <<>> /\ recvLeft = 0
    /\ Return(NotFound)
    /\ UNCHANGED <<budget, history>>

(* recvfrom fails for another reason: the wait is over, too.               *)
ReceiveError ==
    /\ gateway = "recv"
    /\ Spend("errors")
    /\ Return(NotFound)
    /\ excused' = TRUE
    /\ UNCHANGED failed

Foreign ==
    /\ gateway = "recv"
    /\ Spend("foreign")
    /\ \E message \in ForeignMessages : inbox' = Append(inbox, message)
    /\ UNCHANGED <<beacon, call, loops, gateway, recvLeft, found, history>>

-----------------------------------------------------------------------------
(* Time.                                                                   *)

(* Somebody can go on without time passing.                                *)
Busy ==
    \/ \E t \in Threads : pc[t] \in {"check", "send"} \/ (pc[t] = "sleep" /\ sleepLeft[t] = 0)
    \/ user = "close"
    \/ user = "join" /\ (joinLeft = 0 \/ ~Alive(broadcast_thread))
    \/ gateway = "recv" /\ (inbox # <<>> \/ recvLeft = 0)

Less(n) == IF n = 0 THEN 0 ELSE n - 1

Tick ==
    /\ ~Busy
    /\ sleepLeft' = [t \in Threads |-> Less(sleepLeft[t])]
    /\ joinLeft' = Less(joinLeft)
    /\ recvLeft' = Less(recvLeft)
    /\ UNCHANGED <<beacon, user, pc, gateway, inbox, found, budget, history>>

UserStep == Start \/ StartFails \/ Stop \/ StopClose \/ StopJoin
LoopStep == \E t \in Threads : Loop(t)
GatewayStep ==
    Listen \/ ListenFails \/ ReceiveBeacon \/ ReceiveForeign \/ ReceiveTimeout \/ ReceiveError

Next == UserStep \/ LoopStep \/ GatewayStep \/ Foreign \/ Tick

(* Threads run and time passes; what the user and the others do is free.   *)
Fairness ==
    /\ \A t \in Threads : WF_vars(Loop(t))
    /\ WF_vars(StopClose) /\ WF_vars(StopJoin)
    /\ WF_vars(ReceiveBeacon) /\ WF_vars(ReceiveForeign) /\ WF_vars(ReceiveTimeout)
    /\ WF_vars(Tick)

Spec == Init /\ [][Next]_vars /\ Fairness

-----------------------------------------------------------------------------
TypeOK ==
    /\ is_running \in BOOLEAN
    /\ {udp_socket, broadcast_thread} \subseteq 0 .. MaxStarts
    /\ user \in {"idle", "close", "join"}
    /\ joinLeft \in 0 .. JoinTimeout
    /\ pc \in [Threads -> {"none", "check", "send", "sleep", "done"}]
    /\ sleepLeft \in [Threads -> 0 .. Interval]
    /\ gateway \in {"idle", "recv"}
    /\ inbox \in Seq(ForeignMessages \cup {Beacon})
    /\ recvLeft \in 0 .. RecvTimeout
    /\ found \in {Server, NotFound}
    /\ budget \in [Events -> Nat] /\ \A e \in Events : budget[e] <= Bound[e]
    /\ excused \in BOOLEAN /\ failed \in BOOLEAN

(* Stopping and starting the beacon never leaves two loops broadcasting,   *)
(* and once stop has returned no loop is left: the join outlasts the sleep *)
(* (stop, line 101, and the test of is_running in _broadcast_loop).        *)
OneBroadcaster ==
    /\ \A t, u \in Threads : Alive(t) /\ Alive(u) => t = u
    /\ user = "idle" /\ ~is_running => \A t \in Threads : ~Alive(t)

(* A beacon that says it is active broadcasts, unless its start or a       *)
(* sendto since then has failed: then there is no loop and is_running is   *)
(* still true (is_active, and the except clauses of start and              *)
(* _broadcast_loop).                                                       *)
ActiveBroadcasts ==
    is_running /\ ~failed => Alive(broadcast_thread)

(* udp_wait_for_beacon fails only for a reason: a lost datagram, a time    *)
(* without a broadcast loop, or an error of recvfrom.  Datagrams of other  *)
(* programs are none.                                                      *)
FailsForReason ==
    [][gateway = "recv" /\ gateway' = "idle" /\ found' = NotFound => excused']_vars

(* Every wait comes to an end.                                             *)
WaitReturns == gateway = "recv" ~> gateway = "idle"
=============================================================================
