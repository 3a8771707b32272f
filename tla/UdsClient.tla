------------------------------ MODULE UdsClient ------------------------------
(***************************************************************************)
(* The gateway's UDS client (uds_client.cpp): uds_download_firmware,       *)
(* uds_read_version and the uds_request under them, with its NRC 0x78      *)
(* retries, called again and again over a CAN receive queue that keeps the *)
(* frames nobody waited for.  isotp_recv is modelled frame by frame: the   *)
(* answers of a download are single frames, a version takes a first frame, *)
(* flow control and consecutive frames.                                    *)
(*                                                                         *)
(* Not in the repository, and modelled from how this code uses them: the   *)
(* caller (main.cpp), the ECU's UDS server (one loop, which answers in     *)
(* order and gives flow control when it is idle), and cantp::send_isotp,   *)
(* which finds the flow control frame for a long request behind everything *)
(* that is in the receive queue, and drops that.                           *)
(*                                                                         *)
(* The field att of a message is the call it belongs to: no code of the    *)
(* client reads it, the properties compare it.                             *)
(***************************************************************************)
EXTENDS Integers, Sequences, SequencesExt

CONSTANTS
    FirmwareLen,   \* firmware_len, in payload units
    CfgPayload,    \* cfg.transfer_block_payload
    EcuPayloads,   \* what resp[2] of the 0x74 answer may be (0: not given)
    SfPayload,     \* the largest payload of a single-frame 0x36 request
    MaxBsn,        \* 0xFF
    MaxPending,    \* max_nrc78_retries
    CanTimeout,    \* cfg.can_timeout_ms, in ticks
    VersionFrames, \* consecutive frames of the answer to 0x22
    EcuPending,    \* bound on the 0x78 answers the ECU gives to one request
    MaxCalls,      \* bound on the calls of uds_download_firmware
    MaxFaults,     \* bound on lost, late, negative and too many 0x78 answers
    MaxForeign,    \* bound on the frames of other senders
    MaxElapsed     \* the clock of a request stops here

ASSUME UdsAssumption ==
    /\ {FirmwareLen, CfgPayload, CanTimeout, MaxPending} \subseteq Nat \ {0}
    /\ {SfPayload, EcuPending, MaxCalls, MaxFaults, MaxForeign, MaxElapsed} \subseteq Nat
    /\ VersionFrames \in 1 .. 15   \* sequence numbers do not wrap
    /\ EcuPayloads \subseteq Nat
    /\ MaxBsn \in Nat \ {0, 1}

VARIABLES
    pc,       \* "idle", "fc" (flow control awaited), "wait" (for an answer),
              \* "cf" (for its consecutive frames), "ok" or "failed" (what the last call returned)
    sid,      \* the service of the request under way
    att,      \* calls so far
    payload, offset, bsn,   \* the transfer loop
    pending,  \* nrc78_count
    frames,   \* out_payload: what each frame of the version says so far
    timer,    \* ticks since the last can_driver_receive began
    elapsed,  \* ticks since the request was sent
    failures, \* how many calls have failed
    toEcu, toGw,            \* requests and answers in flight
    ecu,      \* the ECU: mode, bytes stored, 0x78 given, call it installed,
              \* and whether it owes the consecutive frames of a version
    faults, foreign

transfer == <<payload, offset, bsn>>
clock == <<pending, timer, elapsed>>
client == <<pc, sid, att, transfer, clock, frames, failures>>
vars == <<client, toEcu, toGw, ecu, faults, foreign>>

Sid == {"0x10", "0x22", "0x34", "0x36", "0x37", "flow_control"}
NotStored == -1   \* no download under way
Corrupt == -2     \* a block has been stored out of place

Min2(a, b) == IF a < b THEN a ELSE b
Max2(a, b) == IF a > b THEN a ELSE b

-----------------------------------------------------------------------------
(* Sending.                                                                *)

Request(s, b, o, n) == [sid |-> s, att |-> att', bsn |-> b, off |-> o, len |-> n]

Fresh == pending' = 0 /\ timer' = 0 /\ elapsed' = 0

(* isotp_send of a single frame; uds_request then waits for the answer.    *)
SendSingle(r) ==
    /\ toEcu' = Append(toEcu, r)
    /\ pc' = "wait"
    /\ frames' = <<>>
    /\ Fresh

(* isotp_send of a long request waits for flow control first.              *)
AwaitFlowControl ==
    /\ pc' = "fc"
    /\ Fresh
    /\ UNCHANGED <<frames, toEcu>>

ChunkAt(n, o) == Min2(n, FirmwareLen - o)

(* The transfer loop at offset o, with block number b and payload n.       *)
NextBlock(n, o, b) ==
    IF o >= FirmwareLen
    THEN sid' = "0x37" /\ SendSingle(Request("0x37", 0, 0, 0))
    ELSE /\ sid' = "0x36"
         /\ IF ChunkAt(n, o) <= SfPayload
            THEN SendSingle(Request("0x36", b, o, ChunkAt(n, o)))
            ELSE AwaitFlowControl

(* A call that begins with the single frame request s.                     *)
Call(s) ==
    /\ pc \in {"idle", "ok", "failed"}
    /\ att < MaxCalls
    /\ att' = att + 1
    /\ sid' = s
    /\ SendSingle(Request(s, 0, 0, 0))
    /\ UNCHANGED <<transfer, failures, toGw, ecu, faults, foreign>>

StartDownload == Call("0x10")

StartReadVersion == Call("0x22")

(* Mutant: answers before the flow control frame stay queued.              *)
FlowControlKeepsQueue ==
    /\ pc = "fc" /\ toEcu = <<>>
    /\ UNCHANGED att
    /\ SendSingle(IF sid = "0x34" THEN Request("0x34", 0, 0, 0)
                  ELSE Request("0x36", bsn, offset, ChunkAt(payload, offset)))
    /\ UNCHANGED <<sid, transfer, failures, toGw, ecu, faults, foreign>>

(* The flow control frame comes: what was queued before it is dropped.     *)
FlowControl ==
    /\ pc = "fc" /\ toEcu = <<>>
    /\ UNCHANGED att
    /\ toGw' = <<>>
    /\ SendSingle(IF sid = "0x34" THEN Request("0x34", 0, 0, 0)
                  ELSE Request("0x36", bsn, offset, ChunkAt(payload, offset)))
    /\ UNCHANGED <<sid, transfer, failures, ecu, faults, foreign>>

Fault == faults < MaxFaults /\ faults' = faults + 1

(* A request that fails ends the call.                                     *)
Fail ==
    /\ pc' = "failed"
    /\ failures' = failures + 1
    /\ UNCHANGED <<sid, transfer, clock, frames, toEcu>>

FlowControlTimeout ==
    /\ pc = "fc" /\ Fault /\ Fail
    /\ UNCHANGED <<att, toGw, ecu, foreign>>

-----------------------------------------------------------------------------
(* uds_request waits for the answer.                                       *)

Receive(kind) ==
    /\ pc = "wait" /\ toGw # <<>>
    /\ Head(toGw).kind = kind
    /\ toGw' = Tail(toGw)
    /\ UNCHANGED <<att, ecu, faults, foreign>>

(* 0x7F sid 0x78: wait again, at most max_nrc78_retries times.             *)
ReceivePending ==
    /\ Receive("pending")
    /\ IF pending + 1 > MaxPending THEN Fail
       ELSE /\ pending' = pending + 1
            /\ timer' = 0
            /\ UNCHANGED <<pc, sid, transfer, elapsed, frames, failures, toEcu>>

(* Mutant: 0x37 takes a negative answer for its own.                       *)
ReceiveNegativeIgnoredAtExit ==
    /\ Receive("negative")
    /\ IF sid = "0x37" THEN pc' = "ok" /\ UNCHANGED <<sid, transfer, clock, frames, failures, toEcu>> ELSE Fail

ReceiveNegative == Receive("negative") /\ Fail

(* A positive answer, to another service than the one requested.           *)
ReceiveUnexpected == Receive("positive") /\ Head(toGw).sid # sid /\ Fail

ReceivePositive(s) == Receive("positive") /\ sid = s /\ Head(toGw).sid = s

(* block_payload, from the one byte of maxNumberOfBlockLength it reads.    *)
BlockPayload(max) == Max2(1, Min2(CfgPayload, IF max = 0 THEN CfgPayload ELSE max))

(* Mutant: the block number does not wrap.                                 *)
NextBsnUnwrapped(b) == b + 1

(* bsn is a uint8_t, and skips 0.                                          *)
NextBsn(b) == IF b = MaxBsn THEN 1 ELSE b + 1

(* Session open: the ECU has 250 ms to restart, then 0x34 is sent.         *)
ReceiveSession ==
    /\ ReceivePositive("0x10")
    /\ sid' = "0x34"
    /\ AwaitFlowControl
    /\ UNCHANGED <<transfer, failures>>

(* Mutant: the transfer goes on where the last one stopped.                *)
ReceiveDownloadKeepsOffset ==
    /\ ReceivePositive("0x34")
    /\ payload' = BlockPayload(Head(toGw).max)
    /\ bsn' = 1
    /\ NextBlock(payload', offset, 1)
    /\ UNCHANGED <<offset, failures>>

ReceiveDownload ==
    /\ ReceivePositive("0x34")
    /\ payload' = BlockPayload(Head(toGw).max)
    /\ offset' = 0 /\ bsn' = 1
    /\ NextBlock(payload', 0, 1)
    /\ UNCHANGED failures

ReceiveTransfer ==
    /\ ReceivePositive("0x36")
    /\ IF Head(toGw).bsn # bsn THEN Fail
       ELSE /\ offset' = offset + ChunkAt(payload, offset)
            /\ bsn' = NextBsn(bsn)
            /\ NextBlock(payload, offset', bsn')
            /\ UNCHANGED <<payload, failures>>

ReceiveExit ==
    /\ ReceivePositive("0x37")
    /\ pc' = "ok"
    /\ UNCHANGED <<sid, transfer, clock, frames, failures, toEcu>>

(* Which part of which version a frame carries.                            *)
Part(frame) == <<frame.sn, frame.version>>

(* A first frame, whosever answer it begins: flow control is sent and the  *)
(* consecutive frames are collected.                                       *)
ReceiveFirst ==
    /\ Receive("first")
    /\ frames' = <<Part(Head(toGw))>>
    /\ toEcu' = Append(toEcu, Request("flow_control", 0, 0, 0))
    /\ pc' = "cf"
    /\ timer' = 0
    /\ UNCHANGED <<sid, transfer, pending, elapsed, failures>>

(* A consecutive frame where an answer should begin: not a single or first *)
(* frame, so isotp_recv fails.                                             *)
ReceiveStray == Receive("consecutive") /\ Fail

Collect ==
    /\ pc = "cf" /\ toGw # <<>>
    /\ toGw' = Tail(toGw)
    /\ UNCHANGED <<att, ecu, faults, foreign>>

(* Frames of other kinds are skipped, the start of a new answer included.  *)
CollectOther ==
    /\ Collect /\ Head(toGw).kind # "consecutive"
    /\ timer' = 0
    /\ UNCHANGED <<pc, sid, transfer, pending, elapsed, frames, failures, toEcu>>

(* Mutant: neither the kind nor the number of the frame is looked at.      *)
CollectAny ==
    /\ Collect /\ Head(toGw).kind \in {"first", "consecutive"}
    /\ IF Len(frames) < VersionFrames
       THEN /\ frames' = Append(frames, Part(Head(toGw)))
            /\ timer' = 0
            /\ UNCHANGED <<pc, sid, transfer, pending, elapsed, failures, toEcu>>
       ELSE IF sid # "0x22" THEN Fail
       ELSE /\ frames' = Append(frames, Part(Head(toGw)))
            /\ pc' = "ok"
            /\ UNCHANGED <<sid, transfer, clock, failures, toEcu>>

(* The next consecutive frame has the next sequence number; the last one   *)
(* completes the answer, which is 0x62 and so fits 0x22 only.              *)
CollectConsecutive ==
    /\ Collect /\ Head(toGw).kind = "consecutive"
    /\ IF Head(toGw).sn # Len(frames) THEN Fail
       ELSE IF Len(frames) < VersionFrames
       THEN /\ frames' = Append(frames, Part(Head(toGw)))
            /\ timer' = 0
            /\ UNCHANGED <<pc, sid, transfer, pending, elapsed, failures, toEcu>>
       ELSE IF sid # "0x22" THEN Fail
       ELSE /\ frames' = Append(frames, Part(Head(toGw)))
            /\ pc' = "ok"
            /\ UNCHANGED <<sid, transfer, clock, failures, toEcu>>

(* A frame with another id: can_driver_receive is called again, with the   *)
(* whole timeout.                                                          *)
ReceiveForeign ==
    /\ pc \in {"wait", "cf"} /\ toGw = <<>> /\ foreign < MaxForeign
    /\ foreign' = foreign + 1
    /\ timer' = 0
    /\ UNCHANGED <<pc, sid, att, transfer, pending, elapsed, frames, failures, toEcu, toGw, ecu, faults>>

Tick ==
    /\ pc \in {"wait", "cf"} /\ toGw = <<>> /\ timer < CanTimeout
    /\ timer' = timer + 1
    /\ elapsed' = Min2(elapsed + 1, MaxElapsed)
    /\ UNCHANGED <<pc, sid, att, transfer, pending, frames, failures, toEcu, toGw, ecu, faults, foreign>>

(* Mutant: a timeout is waited out again.                                  *)
ReceiveTimeoutWaitsOn ==
    /\ pc \in {"wait", "cf"} /\ toGw = <<>> /\ timer = CanTimeout
    /\ timer' = 0
    /\ UNCHANGED <<pc, sid, att, transfer, pending, elapsed, frames, failures, toEcu, toGw, ecu, faults, foreign>>

(* can_driver_receive times out.  It counts as a fault of the ECU if the   *)
(* ECU still has a request to answer.                                      *)
ReceiveTimeout ==
    /\ pc \in {"wait", "cf"} /\ toGw = <<>> /\ timer = CanTimeout
    /\ IF toEcu = <<>> THEN UNCHANGED faults ELSE Fault
    /\ Fail
    /\ UNCHANGED <<att, toGw, ecu, foreign>>

-----------------------------------------------------------------------------
(* The ECU, which is not part of the repository: it answers in order.      *)

Answer(kind, r, max) == [kind |-> kind, sid |-> r.sid, att |-> r.att, bsn |-> r.bsn, max |-> max]

(* A new request makes the ECU forget consecutive frames it still owes.    *)
EcuKeepAlive ==
    /\ toEcu # <<>> /\ Head(toEcu).sid # "flow_control" /\ ecu.given < EcuPending
    /\ toGw' = Append(toGw, Answer("pending", Head(toEcu), 0))
    /\ ecu' = [ecu EXCEPT !.given = @ + 1, !.owes = FALSE]
    /\ IF ecu.given < MaxPending THEN UNCHANGED faults ELSE Fault
    /\ UNCHANGED <<client, toEcu, foreign>>

EcuReads(s) == toEcu # <<>> /\ Head(toEcu).sid = s

EcuAnswers(max, e, rest) ==
    /\ toGw' = Append(toGw, Answer("positive", Head(toEcu), max))
    /\ ecu' = [e EXCEPT !.given = 0, !.owes = FALSE]
    /\ toEcu' = rest
    /\ UNCHANGED <<client, faults, foreign>>

(* The application answers 0x50 and resets into the bootloader.            *)
EcuSession ==
    /\ EcuReads("0x10")
    /\ EcuAnswers(0, [ecu EXCEPT !.mode = "boot", !.stored = NotStored],
                  IF ecu.mode = "app" THEN <<>> ELSE Tail(toEcu))

EcuRequestDownload ==
    /\ EcuReads("0x34") /\ ecu.mode = "boot"
    /\ \E max \in EcuPayloads : EcuAnswers(max, [ecu EXCEPT !.stored = 0], Tail(toEcu))

EcuTransferData ==
    /\ EcuReads("0x36") /\ ecu.stored # NotStored
    /\ LET r == Head(toEcu)
       IN  EcuAnswers(0, [ecu EXCEPT !.stored = IF r.off = @ THEN @ + r.len ELSE Corrupt],
                      Tail(toEcu))

(* A whole firmware is installed, and the ECU resets into it.              *)
EcuTransferExit ==
    /\ EcuReads("0x37") /\ ecu.stored = FirmwareLen
    /\ EcuAnswers(0, [ecu EXCEPT !.mode = "app", !.stored = NotStored, !.installed = Head(toEcu).att],
                  <<>>)

(* The version is that of the firmware the ECU has installed.              *)
EcuReadVersion ==
    /\ EcuReads("0x22")
    /\ toGw' = Append(toGw, [kind |-> "first", att |-> Head(toEcu).att, sn |-> 0,
                            version |-> ecu.installed])
    /\ ecu' = [ecu EXCEPT !.given = 0, !.owes = TRUE]
    /\ toEcu' = Tail(toEcu)
    /\ UNCHANGED <<client, faults, foreign>>

EcuFlowControlled ==
    /\ EcuReads("flow_control")
    /\ toGw' = IF ecu.owes
                THEN toGw \o [n \in 1 .. VersionFrames |->
                       [kind |-> "consecutive", att |-> Head(toEcu).att, sn |-> n,
                        version |-> ecu.installed]]
                ELSE toGw
    /\ ecu' = [ecu EXCEPT !.owes = FALSE]
    /\ toEcu' = Tail(toEcu)
    /\ UNCHANGED <<client, faults, foreign>>

(* A request out of sequence is refused, and so may be any other.          *)
EcuRefuse ==
    /\ toEcu # <<>> /\ Head(toEcu).sid # "flow_control"
    /\ LET s == Head(toEcu).sid
       IN  IF \/ s = "0x34" /\ ecu.mode # "boot"
              \/ s = "0x36" /\ ecu.stored = NotStored
              \/ s = "0x37" /\ ecu.stored # FirmwareLen
           THEN UNCHANGED faults ELSE Fault
    /\ toGw' = Append(toGw, Answer("negative", Head(toEcu), 0))
    /\ toEcu' = Tail(toEcu)
    /\ ecu' = [ecu EXCEPT !.given = 0, !.owes = FALSE]
    /\ UNCHANGED <<client, foreign>>

LoseAnswer ==
    /\ Fault
    /\ \E i \in DOMAIN toGw : toGw' = RemoveAt(toGw, i)
    /\ UNCHANGED <<client, toEcu, ecu, foreign>>

LoseRequest ==
    /\ Fault
    /\ \E i \in DOMAIN toEcu : toEcu' = RemoveAt(toEcu, i)
    /\ ecu' = [ecu EXCEPT !.given = 0]
    /\ UNCHANGED <<client, toGw, foreign>>

-----------------------------------------------------------------------------
Init ==
    /\ pc = "idle" /\ sid = "0x10" /\ att = 0
    /\ payload = CfgPayload /\ offset = 0 /\ bsn = 1
    /\ pending = 0 /\ timer = 0 /\ elapsed = 0 /\ frames = <<>>
    /\ failures = 0
    /\ toEcu = <<>> /\ toGw = <<>>
    /\ ecu \in [mode : {"app", "boot"}, stored : {NotStored}, given : {0}, installed : {0},
             owes : {FALSE}]
    /\ faults = 0 /\ foreign = 0

Gateway ==
    \/ FlowControl \/ ReceivePending \/ ReceiveNegative \/ ReceiveUnexpected \/ ReceiveSession
    \/ ReceiveDownload \/ ReceiveTransfer \/ ReceiveExit \/ ReceiveFirst \/ ReceiveStray
    \/ CollectOther \/ CollectConsecutive \/ Tick \/ ReceiveTimeout
Ecu ==
    \/ EcuSession \/ EcuRequestDownload \/ EcuTransferData \/ EcuTransferExit
    \/ EcuReadVersion \/ EcuFlowControlled \/ EcuRefuse
Network ==
    FlowControlTimeout \/ ReceiveForeign \/ EcuKeepAlive \/ LoseAnswer \/ LoseRequest

Next == StartDownload \/ StartReadVersion \/ Gateway \/ Ecu \/ Network
Spec == Init /\ [][Next]_vars

(* The client's task runs while a call is under way, and the ECU works on  *)
(* what it is asked; nobody has to call the client again.                  *)
FairSpec == Spec /\ WF_vars(Gateway) /\ WF_vars(Ecu)

-----------------------------------------------------------------------------
Message == [sid : Sid, att : 1 .. MaxCalls, bsn : 0 .. MaxBsn, off : 0 .. FirmwareLen, len : 0 .. FirmwareLen]

(* The variables of the client and the messages keep to their types: bsn   *)
(* stays in its wrapped range, nrc78_count within its retries.             *)
TypeOK ==
    /\ pc \in {"idle", "fc", "wait", "cf", "ok", "failed"} /\ sid \in Sid
    /\ att \in 0 .. MaxCalls /\ failures \in 0 .. att
    /\ payload \in 1 .. CfgPayload /\ offset \in 0 .. FirmwareLen /\ bsn \in 1 .. MaxBsn
    /\ pending \in 0 .. MaxPending /\ timer \in 0 .. CanTimeout
    /\ frames \in Seq((0 .. VersionFrames) \X (0 .. MaxCalls)) /\ Len(frames) <= VersionFrames + 1
    /\ toEcu \in Seq(Message)
    /\ \A i \in DOMAIN toGw :
          toGw[i].kind \in {"pending", "positive", "negative", "first", "consecutive"}

(* uds_download_firmware returns ESP_OK only for a firmware the ECU took   *)
(* whole, in this call: no answer to an earlier call passes for it.        *)
OkMeansInstalled == pc = "ok" /\ sid = "0x37" => ecu.installed = att

(* uds_read_version returns, complete and unmixed, the version of the      *)
(* firmware that is installed: what is left of earlier reads in the queue, *)
(* lost frames and repeated calls give an error, never an old version or   *)
(* one put together from two answers.                                      *)
VersionCurrent ==
    pc = "ok" /\ sid = "0x22" => frames = [n \in 1 .. VersionFrames + 1 |-> <<n - 1, ecu.installed>>]

(* The ECU never has a block in the wrong place, however late answers and  *)
(* repeated calls overlap.                                                 *)
NothingMisplaced == ecu.stored # Corrupt

(* One late, lost or negative answer makes a bounded number of calls fail  *)
(* (two for downloads alone, more when a late version leaves frames        *)
(* behind): what is left in the queue does not keep the calls and the      *)
(* answers out of step for ever.                                           *)
FailuresBounded == failures <= 2 * (VersionFrames + 1) * faults

(* "Max 10 retries = ~30 seconds total": the wait for one answer is        *)
(* bounded by the timeout of each receive.                                 *)
WaitBounded == elapsed <= (MaxPending + 1) * CanTimeout

(* A call returns, whatever the ECU and the bus do to its answers.         *)
CallsReturn == pc \in {"fc", "wait", "cf"} ~> pc \in {"ok", "failed"}
=============================================================================
