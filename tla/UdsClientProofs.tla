-------------------------- MODULE UdsClientProofs ---------------------------
(***************************************************************************)
(* Theorems about UdsClient, for any length of firmware, block and version *)
(* answer, any number of calls and of lost, late, negative and repeated    *)
(* pending answers, and any frames of other senders.                       *)
(***************************************************************************)
EXTENDS UdsClient, SequenceTheorems, TLAPS

(* What the constants are.                                                 *)
LEMMA Bounds ==
    /\ FirmwareLen \in Nat /\ FirmwareLen >= 1 /\ CfgPayload \in Nat /\ CfgPayload >= 1
    /\ MaxPending \in Nat /\ CanTimeout \in Nat /\ SfPayload \in Nat
    /\ MaxCalls \in Nat /\ VersionFrames \in Nat /\ VersionFrames >= 1
    /\ MaxBsn \in Nat /\ MaxBsn >= 2 /\ EcuPayloads \subseteq Nat
BY UdsAssumption

-----------------------------------------------------------------------------
(* Queues.                                                                 *)

(* t holds, in order, elements of s: none of them has moved back, and only *)
(* the last of t can be the last of s.                                     *)
Fewer(t, s) ==
    /\ Len(t) \in Nat /\ Len(s) \in Nat
    /\ \A i \in 1 .. Len(t) : \E j \in 1 .. Len(s) :
          t[i] = s[j] /\ i <= j /\ (j = Len(s) => i = Len(t))

(* Nothing taken.                                                          *)
LEMMA SameFewer == ASSUME NEW S, NEW s \in Seq(S) PROVE Fewer(s, s)
  BY LenProperties DEF Fewer

(* Everything taken.                                                       *)
LEMMA NoneFewer == ASSUME NEW S, NEW s \in Seq(S) PROVE Fewer(<<>>, s) /\ Len(<<>>) = 0 /\ <<>> \in Seq(S)
<1>1. Len(<<>>) = 0 /\ 1 .. 0 = {} /\ Len(s) \in Nat /\ <<>> \in Seq(S)
  BY LenProperties, EmptySeq
<1>2. QED
  BY <1>1 DEF Fewer

(* The first taken.                                                        *)
LEMMA TailFewer ==
    ASSUME NEW S, NEW s \in Seq(S), s # <<>>
    PROVE  /\ Len(s) \in Nat /\ Len(s) >= 1 /\ Head(s) = s[1] /\ s[1] \in S
           /\ Tail(s) \in Seq(S) /\ Len(Tail(s)) = Len(s) - 1
           /\ \A i \in 1 .. Len(s) - 1 : Tail(s)[i] = s[i + 1]
           /\ Fewer(Tail(s), s)
<1>1. Len(s) \in Nat /\ Len(s) >= 1 /\ 1 \in 1 .. Len(s)
  BY LenProperties, EmptySeq
<1>2. Head(s) = s[1] /\ s[1] \in S
  BY <1>1, ElementOfSeq
<1>3. /\ Tail(s) \in Seq(S) /\ Len(Tail(s)) = Len(s) - 1
      /\ \A i \in 1 .. Len(Tail(s)) : Tail(s)[i] = s[i + 1]
  BY HeadTailProperties
<1>4. \A i \in 1 .. Len(s) - 1 : Tail(s)[i] = s[i + 1]
  BY <1>3
<1>5. Fewer(Tail(s), s)
  <2>1. ASSUME NEW i \in 1 .. Len(s) - 1
        PROVE  /\ i + 1 \in 1 .. Len(s) /\ i <= i + 1 /\ Tail(s)[i] = s[i + 1]
               /\ i + 1 = Len(s) => i = Len(s) - 1
    BY <1>1, <1>4
  <2>2. PICK t : t = Tail(s)
    OBVIOUS
  <2>3. Len(t) = Len(s) - 1 /\ Len(t) \in Nat
    BY <1>1, <1>3, <2>2
  <2>4. \A i \in 1 .. Len(t) : \E j \in 1 .. Len(s) :
          t[i] = s[j] /\ i <= j /\ (j = Len(s) => i = Len(t))
    BY <2>1, <2>2, <2>3
  <2>5. Fewer(t, s)
    BY <1>1, <2>3, <2>4 DEF Fewer
  <2>6. QED
    BY <2>2, <2>5
<1>6. QED
  BY <1>1, <1>2, <1>3, <1>4, <1>5

(* Any one taken.                                                          *)
LEMMA RemoveFewer ==
    ASSUME NEW S, NEW s \in Seq(S), NEW k \in DOMAIN s
    PROVE  RemoveAt(s, k) \in Seq(S) /\ Fewer(RemoveAt(s, k), s)
<1> DEFINE before == SubSeq(s, 1, k - 1)
           after == SubSeq(s, k + 1, Len(s))
<1>1. Len(s) \in Nat /\ k \in 1 .. Len(s) /\ \A i \in 1 .. Len(s) : s[i] \in S
  BY LenProperties, ElementOfSeq
<1>2. /\ before \in Seq(S) /\ Len(before) = k - 1
      /\ \A i \in 1 .. k - 1 : before[i] = s[i]
  BY <1>1, SubSeqProperties
<1>3. /\ after \in Seq(S) /\ Len(after) = Len(s) - k
      /\ \A i \in 1 .. Len(s) - k : after[i] = s[k + i]
  BY <1>1, SubSeqProperties
<1> HIDE DEF before, after
<1>4. /\ before \o after \in Seq(S) /\ Len(before \o after) = Len(before) + Len(after)
      /\ \A i \in 1 .. Len(before) + Len(after) :
            (before \o after)[i] = IF i <= Len(before) THEN before[i] ELSE after[i - Len(before)]
  BY <1>2, <1>3, ConcatProperties
<1>5. Len(before) + Len(after) = Len(s) - 1
  BY <1>1, <1>2, <1>3
<1>6. ASSUME NEW i \in 1 .. Len(s) - 1
      PROVE  \E j \in 1 .. Len(s) :
               (before \o after)[i] = s[j] /\ i <= j /\ (j = Len(s) => i = Len(s) - 1)
  <2>1. CASE i < k
    <3>1. (before \o after)[i] = s[i] /\ i \in 1 .. Len(s) /\ i # Len(s)
      BY <1>1, <1>2, <1>4, <1>5, <2>1
    <3>2. QED
      BY <3>1
  <2>2. CASE i >= k
    <3>1. i - (k - 1) \in 1 .. Len(s) - k /\ k + (i - (k - 1)) = i + 1 /\ i + 1 \in 1 .. Len(s)
      BY <1>1, <2>2
    <3>2. (before \o after)[i] = s[i + 1]
      <4>1. i \in 1 .. Len(before) + Len(after) /\ ~(i <= Len(before)) /\ i - Len(before) = i - (k - 1)
        BY <1>1, <1>2, <1>5, <2>2
      <4>2. (before \o after)[i] = after[i - (k - 1)]
        BY <1>4, <4>1
      <4>3. QED
        BY <1>3, <3>1, <4>2
    <3>3. i <= i + 1 /\ (i + 1 = Len(s) => i = Len(s) - 1)
      BY <1>1
    <3>4. QED
      BY <3>1, <3>2, <3>3
  <2>3. i < k \/ i >= k
    BY <1>1
  <2>4. QED
    BY <2>1, <2>2, <2>3
<1>7. Fewer(before \o after, s)
  <2>1. PICK t : t = before \o after
    OBVIOUS
  <2>2. Len(t) = Len(s) - 1 /\ Len(t) \in Nat
    BY <1>1, <1>4, <1>5, <2>1
  <2>3. \A i \in 1 .. Len(t) : \E j \in 1 .. Len(s) :
          t[i] = s[j] /\ i <= j /\ (j = Len(s) => i = Len(t))
    BY <1>6, <2>1, <2>2
  <2>4. Fewer(t, s)
    BY <1>1, <2>2, <2>3 DEF Fewer
  <2>5. QED
    BY <2>1, <2>4
<1>8. QED
  BY <1>4, <1>7 DEF RemoveAt, before, after

(* One more at the end.                                                    *)
LEMMA AppendMore ==
    ASSUME NEW S, NEW s \in Seq(S), NEW m \in S
    PROVE  /\ Append(s, m) \in Seq(S) /\ Len(s) \in Nat /\ Len(Append(s, m)) = Len(s) + 1
           /\ \A i \in 1 .. Len(s) : Append(s, m)[i] = s[i]
           /\ Append(s, m)[Len(s) + 1] = m
           /\ \A i \in 1 .. Len(s) + 1 : i \in 1 .. Len(s) \/ i = Len(s) + 1
  BY AppendProperties, LenProperties

-----------------------------------------------------------------------------
(* The types, with what each frame carries.  A call under way has not      *)
(* failed yet, and there is room for the frames of the version.            *)
Running == {"fc", "wait", "cf"}

Reply == [kind : {"pending", "positive", "negative"}, sid : Sid, att : 1 .. MaxCalls,
          bsn : 0 .. MaxBsn, max : Nat]
First == [kind : {"first"}, att : 1 .. MaxCalls, sn : {0}, version : 0 .. MaxCalls]
Consecutive == [kind : {"consecutive"}, att : 1 .. MaxCalls, sn : 1 .. VersionFrames,
                version : 0 .. MaxCalls]
Frame == Reply \union First \union Consecutive
VersionPart == (0 .. VersionFrames) \X (0 .. MaxCalls)

CallTypes ==
    /\ pc \in {"idle", "fc", "wait", "cf", "ok", "failed"} /\ sid \in Sid
    /\ att \in 0 .. MaxCalls /\ failures \in 0 .. att
    /\ pc \in Running => failures < att
LoopTypes ==
    /\ payload \in 1 .. CfgPayload /\ offset \in 0 .. FirmwareLen /\ bsn \in 1 .. MaxBsn
ClockTypes == pending \in 0 .. MaxPending /\ timer \in 0 .. CanTimeout
FramesTypes ==
    /\ frames \in Seq(VersionPart) /\ Len(frames) <= VersionFrames + 1
    /\ pc = "cf" => Len(frames) <= VersionFrames
QueueTypes ==
    /\ toEcu \in Seq(Message)
    /\ toGw \in Seq(Frame)
EcuTypes ==
    ecu \in [mode : {"app", "boot"}, stored : Int, given : Nat, installed : 0 .. MaxCalls,
             owes : BOOLEAN]

Types == CallTypes /\ LoopTypes /\ ClockTypes /\ FramesTypes /\ QueueTypes /\ EcuTypes

-----------------------------------------------------------------------------
(* The invariant.  A request of a download is sent on an empty queue: it   *)
(* is the first the ECU reads, until then the ECU sends nothing but        *)
(* "pending", and a block is asked for at the place the ECU is at.         *)
TransferSid == {"0x34", "0x36", "0x37"}
EachPending == \A i \in 1 .. Len(toGw) : toGw[i].kind = "pending"
NoTransferAsked == \A i \in 1 .. Len(toEcu) : toEcu[i].sid \notin TransferSid

Transfers ==
    /\ \A i \in 1 .. Len(toEcu) : toEcu[i].sid \in TransferSid =>
          /\ i = 1 /\ EachPending
          /\ toEcu[i].sid = "0x36" => toEcu[i].off = ecu.stored
    /\ ecu.stored # Corrupt

(* From the answer to 0x10 on, and once flow control has emptied the       *)
(* queues, client and ECU are in step: the one request is the client's,    *)
(* and the one answer says that the ECU has done it.                       *)
InTransfer ==
    \/ sid = "0x34" /\ pc = "wait"
    \/ sid \in {"0x36", "0x37"} /\ pc \in {"wait", "fc"}

Asked(r) ==
    /\ r.sid = sid /\ r.att = att
    /\ sid = "0x36" => r.off = offset /\ r.len = ChunkAt(payload, offset)

Done ==
    /\ sid = "0x34" => ecu.stored = 0
    /\ sid = "0x36" => ecu.stored = offset + ChunkAt(payload, offset)
    /\ sid = "0x37" => ecu.installed = att

InStep ==
    InTransfer =>
      /\ \A i \in 1 .. Len(toEcu) : i = 1 /\ Asked(toEcu[i])
      /\ \A i \in 1 .. Len(toGw) :
            \/ toGw[i].kind = "pending"
            \/ i = Len(toGw) /\ toGw[i].kind = "negative"
            \/ i = Len(toGw) /\ toGw[i].kind = "positive" /\ Done

FlowAwaited ==
    /\ pc = "fc" => sid \in {"0x34", "0x36"}
    /\ pc = "fc" /\ sid = "0x36" => Len(toEcu) = 0 /\ Len(toGw) = 0 /\ ecu.stored = offset

Installed == pc = "ok" /\ sid = "0x37" => Len(toEcu) = 0 /\ ecu.installed = att

(* Every frame of a version that is in flight or collected is one of the   *)
(* firmware that is installed, and while a version is collected no         *)
(* download is asked for that could install another.                       *)
FramesCurrent ==
    \A i \in 1 .. Len(toGw) :
       toGw[i].kind \in {"first", "consecutive"} => toGw[i].version = ecu.installed

Collecting == pc = "cf" \/ (pc = "ok" /\ sid = "0x22")
CollectedCurrent ==
    /\ Collecting => /\ NoTransferAsked
                     /\ \A n \in 1 .. Len(frames) : frames[n] = <<n - 1, ecu.installed>>
    /\ pc = "ok" /\ sid = "0x22" => Len(frames) = VersionFrames + 1

Agreement ==
    Transfers /\ InStep /\ FlowAwaited /\ Installed /\ FramesCurrent /\ CollectedCurrent

ClientInv == Types /\ Agreement

-----------------------------------------------------------------------------
(* Steps by what they do to the queues.                                    *)

(* Answers taken from the queue, while the client stays where it is.       *)
LEMMA AnswersTaken ==
    ASSUME ClientInv, Fewer(toGw', toGw),
           UNCHANGED <<pc, sid, att, payload, offset, frames, toEcu, ecu>>
    PROVE  Agreement'
<1>1. PICK gone : gone = toGw'
  OBVIOUS
<1>2. /\ Len(gone) \in Nat /\ Len(toGw) \in Nat
      /\ \A i \in 1 .. Len(gone) : \E j \in 1 .. Len(toGw) :
            gone[i] = toGw[j] /\ i <= j /\ (j = Len(toGw) => i = Len(gone))
  BY <1>1 DEF Fewer
<1>3. EachPending => EachPending'
  BY <1>1, <1>2 DEF EachPending
<1>4. Transfers'
  BY <1>3 DEF ClientInv, Agreement, Transfers
<1>5. InStep'
  <2>1. SUFFICES ASSUME InTransfer'
                 PROVE  /\ \A i \in 1 .. Len(toEcu) : i = 1 /\ Asked(toEcu[i])
                        /\ \A i \in 1 .. Len(gone) :
                              \/ gone[i].kind = "pending"
                              \/ i = Len(gone) /\ gone[i].kind = "negative"
                              \/ i = Len(gone) /\ gone[i].kind = "positive" /\ Done
    BY <1>1 DEF InStep, Asked, Done
  <2>2. InTransfer
    BY <2>1 DEF InTransfer
  <2>3. QED
    BY <1>2, <2>2 DEF ClientInv, Agreement, InStep
<1>6. FlowAwaited'
  <2>1. Len(toGw) = 0 => Len(gone) = 0
    BY <1>2
  <2>2. QED
    BY <1>1, <2>1 DEF ClientInv, Agreement, FlowAwaited
<1>7. Installed'
  BY DEF ClientInv, Agreement, Installed
<1>8. FramesCurrent'
  BY <1>1, <1>2 DEF ClientInv, Agreement, FramesCurrent
<1>9. CollectedCurrent'
  BY DEF ClientInv, Agreement, CollectedCurrent, Collecting, NoTransferAsked
<1>10. QED
  BY <1>4, <1>5, <1>6, <1>7, <1>8, <1>9 DEF Agreement

(* A call that fails leaves the queues as they are but for an answer read. *)
LEMMA FailAgrees ==
    ASSUME ClientInv, Fewer(toGw', toGw), pc' = "failed", UNCHANGED <<toEcu, ecu>>
    PROVE  Agreement'
<1>1. PICK gone : gone = toGw'
  OBVIOUS
<1>2. /\ Len(gone) \in Nat /\ Len(toGw) \in Nat
      /\ \A i \in 1 .. Len(gone) : \E j \in 1 .. Len(toGw) : gone[i] = toGw[j]
  BY <1>1 DEF Fewer
<1>3. EachPending => EachPending'
  BY <1>1, <1>2 DEF EachPending
<1>4. Transfers'
  BY <1>3 DEF ClientInv, Agreement, Transfers
<1>5. FramesCurrent'
  BY <1>1, <1>2 DEF ClientInv, Agreement, FramesCurrent
<1>6. InStep' /\ FlowAwaited' /\ Installed' /\ CollectedCurrent'
  BY DEF InStep, InTransfer, FlowAwaited, Installed, CollectedCurrent, Collecting
<1>7. QED
  BY <1>4, <1>5, <1>6 DEF Agreement

(* What a request is.                                                      *)
LEMMA RequestTyped ==
    ASSUME NEW s \in Sid, NEW b \in 0 .. MaxBsn, NEW o \in 0 .. FirmwareLen,
           NEW n \in 0 .. FirmwareLen, att' \in 1 .. MaxCalls
    PROVE  /\ Request(s, b, o, n) \in Message
           /\ Request(s, b, o, n).sid = s /\ Request(s, b, o, n).att = att'
           /\ Request(s, b, o, n).off = o /\ Request(s, b, o, n).len = n
  BY DEF Request, Message

(* A request that is not one of a download may be sent at any time.        *)
LEMMA OtherRequested ==
    ASSUME ClientInv, NEW r \in Message, r.sid \notin TransferSid, toEcu' = Append(toEcu, r),
           Fewer(toGw', toGw), ecu' = ecu
    PROVE  Transfers' /\ FramesCurrent' /\ (NoTransferAsked => NoTransferAsked')
<1>1. /\ Len(toEcu) \in Nat /\ Len(toEcu') = Len(toEcu) + 1
      /\ \A i \in 1 .. Len(toEcu) : toEcu'[i] = toEcu[i]
      /\ toEcu'[Len(toEcu) + 1] = r
  BY AppendMore DEF ClientInv, Types, QueueTypes
<1>2. \A i \in 1 .. Len(toEcu') : toEcu'[i].sid \in TransferSid =>
        i \in 1 .. Len(toEcu) /\ toEcu'[i] = toEcu[i]
  BY <1>1
<1>3. PICK gone : gone = toGw'
  OBVIOUS
<1>4. \A i \in 1 .. Len(gone) : \E j \in 1 .. Len(toGw) : gone[i] = toGw[j]
  BY <1>3 DEF Fewer
<1>5. EachPending => EachPending'
  BY <1>3, <1>4 DEF EachPending
<1>6. Transfers'
  BY <1>2, <1>5 DEF ClientInv, Agreement, Transfers
<1>7. FramesCurrent'
  BY <1>3, <1>4 DEF ClientInv, Agreement, FramesCurrent
<1>8. NoTransferAsked => NoTransferAsked'
  BY <1>2 DEF NoTransferAsked
<1>9. QED
  BY <1>6, <1>7, <1>8

(* A new call begins with a request that is not of a download.             *)
LEMMA CallAgrees ==
    ASSUME ClientInv, NEW s \in {"0x10", "0x22"}, Call(s)
    PROVE  Agreement'
<1>1. att \in 0 .. MaxCalls /\ att < MaxCalls /\ att' = att + 1 /\ MaxCalls \in Nat
  BY Bounds DEF ClientInv, Types, CallTypes, Call
<1>2. DEFINE r == Request(s, 0, 0, 0)
<1>3. r \in Message
  <2>1. att' \in 1 .. MaxCalls
    BY <1>1
  <2>2. s \in Sid
    BY DEF Sid
  <2>3. 0 \in 0 .. MaxBsn /\ 0 \in 0 .. FirmwareLen
    BY Bounds
  <2>4. QED
    BY <2>1, <2>2, <2>3, RequestTyped
<1>4. r.sid \notin TransferSid
  BY DEF Request, TransferSid
<1>5. toEcu' = Append(toEcu, r) /\ pc' = "wait" /\ sid' = s /\ toGw' = toGw /\ ecu' = ecu
  BY DEF Call, SendSingle
<1> HIDE DEF r
<1>6. Fewer(toGw', toGw)
  BY <1>5, SameFewer DEF ClientInv, Types, QueueTypes
<1>7. Transfers' /\ FramesCurrent'
  BY <1>3, <1>4, <1>5, <1>6, OtherRequested
<1>8. InStep' /\ FlowAwaited' /\ Installed' /\ CollectedCurrent'
  BY <1>5 DEF InStep, InTransfer, FlowAwaited, Installed, CollectedCurrent, Collecting
<1>9. QED
  BY <1>7, <1>8 DEF Agreement

(* The first frame of a version answers nothing of a download; flow        *)
(* control is sent for it.                                                 *)
LEMMA ReceiveFirstAgrees ==
    ASSUME ClientInv, ReceiveFirst
    PROVE  Agreement'
<1>1. /\ toGw \in Seq(Frame) /\ toGw # <<>> /\ Head(toGw).kind = "first" /\ toGw' = Tail(toGw)
      /\ frames' = <<Part(Head(toGw))>> /\ pc = "wait" /\ pc' = "cf"
      /\ sid' = sid /\ att' = att /\ ecu' = ecu
  BY DEF ClientInv, Types, QueueTypes, ReceiveFirst, Receive
<1>2. /\ Len(toGw) \in Nat /\ Len(toGw) >= 1 /\ Head(toGw) = toGw[1] /\ toGw[1] \in Frame
      /\ Fewer(toGw', toGw)
  BY <1>1, TailFewer
<1>3. toGw[1].kind = "first" /\ 1 \in 1 .. Len(toGw)
  BY <1>1, <1>2
<1>4. NoTransferAsked
  BY <1>3 DEF ClientInv, Agreement, Transfers, NoTransferAsked, EachPending
<1>5. DEFINE r == Request("flow_control", 0, 0, 0)
<1>6. att \in 1 .. MaxCalls
  BY <1>1, Bounds DEF ClientInv, Types, CallTypes, Running
<1>7. r \in Message
  BY <1>1, <1>6, Bounds DEF Request, Message, Sid
<1>8. r.sid \notin TransferSid
  BY DEF Request, TransferSid
<1>9. toEcu' = Append(toEcu, r)
  BY DEF ReceiveFirst
<1> HIDE DEF r
<1>10. Transfers' /\ FramesCurrent' /\ NoTransferAsked'
  BY <1>1, <1>2, <1>4, <1>7, <1>8, <1>9, OtherRequested
<1>11. CollectedCurrent'
  <2>1. toGw[1].version = ecu.installed
    BY <1>3 DEF ClientInv, Agreement, FramesCurrent
  <2>2. toGw[1].sn = 0
    BY <1>2, <1>3 DEF Frame, Reply, First, Consecutive
  <2>3. frames' = <<<<0, ecu.installed>>>>
    BY <1>1, <1>2, <2>1, <2>2 DEF Part
  <2>4. \A n \in 1 .. Len(frames') : frames'[n] = <<n - 1, ecu.installed>>
    BY <2>3
  <2>5. QED
    BY <1>1, <1>10, <2>4 DEF CollectedCurrent
<1>12. InStep' /\ FlowAwaited' /\ Installed'
  BY <1>1 DEF InStep, InTransfer, FlowAwaited, Installed
<1>13. QED
  BY <1>10, <1>11, <1>12 DEF Agreement

(* The answer to 0x10 leaves the client waiting for flow control, whatever *)
(* is still in the queues.                                                 *)
LEMMA ReceiveSessionAgrees ==
    ASSUME ClientInv, ReceiveSession
    PROVE  Agreement'
<1>1. /\ toGw \in Seq(Frame) /\ toGw # <<>> /\ toGw' = Tail(toGw)
      /\ pc' = "fc" /\ sid' = "0x34" /\ ecu' = ecu /\ toEcu' = toEcu
  BY DEF ClientInv, Types, QueueTypes, ReceiveSession, ReceivePositive, Receive, AwaitFlowControl
<1>2. Fewer(toGw', toGw)
  BY <1>1, TailFewer
<1>3. PICK gone : gone = toGw'
  OBVIOUS
<1>4. \A i \in 1 .. Len(gone) : \E j \in 1 .. Len(toGw) : gone[i] = toGw[j]
  BY <1>2, <1>3 DEF Fewer
<1>5. EachPending => EachPending'
  BY <1>3, <1>4 DEF EachPending
<1>6. Transfers'
  BY <1>1, <1>5 DEF ClientInv, Agreement, Transfers
<1>7. FramesCurrent'
  BY <1>1, <1>3, <1>4 DEF ClientInv, Agreement, FramesCurrent
<1>8. InStep' /\ FlowAwaited' /\ Installed' /\ CollectedCurrent'
  BY <1>1 DEF InStep, InTransfer, FlowAwaited, Installed, CollectedCurrent, Collecting
<1>9. QED
  BY <1>6, <1>7, <1>8 DEF Agreement

(* A request of a download on empty queues.                                *)
LEMMA TransferRequested ==
    ASSUME NEW r \in Message, toEcu' = <<r>>, Len(toGw') = 0, pc' = "wait", sid' \in TransferSid,
           r.sid = sid', r.att = att', ecu' = ecu, ecu.stored # Corrupt,
           sid' = "0x36" => /\ r.off = offset' /\ r.len = ChunkAt(payload', offset')
                            /\ offset' = ecu.stored
    PROVE  Agreement'
<1>1. Len(toEcu') = 1 /\ toEcu'[1] = r /\ \A i \in 1 .. Len(toEcu') : i = 1
  OBVIOUS
<1>2. \A i : ~(i \in 1 .. Len(toGw'))
  OBVIOUS
<1>3. Transfers'
  BY <1>1, <1>2 DEF Transfers, EachPending
<1>4. InStep'
  BY <1>1, <1>2 DEF InStep, Asked
<1>5. FlowAwaited' /\ Installed' /\ CollectedCurrent'
  BY DEF FlowAwaited, Installed, CollectedCurrent, Collecting
<1>6. FramesCurrent'
  BY <1>2 DEF FramesCurrent
<1>7. QED
  BY <1>3, <1>4, <1>5, <1>6 DEF Agreement

(* What a block holds is within the firmware.                              *)
LEMMA ChunkInFirmware ==
    ASSUME NEW n \in 1 .. CfgPayload, NEW o \in 0 .. FirmwareLen
    PROVE  ChunkAt(n, o) \in 0 .. FirmwareLen /\ o + ChunkAt(n, o) \in 0 .. FirmwareLen
  BY Bounds DEF ChunkAt, Min2

(* Flow control comes on an empty request queue and empties the other one. *)
LEMMA FlowControlAgrees ==
    ASSUME ClientInv, FlowControl
    PROVE  Agreement'
<1>1. /\ pc = "fc" /\ toEcu = <<>> /\ toGw' = <<>> /\ pc' = "wait" /\ sid' = sid /\ att' = att
      /\ ecu' = ecu /\ offset' = offset /\ payload' = payload
  BY DEF FlowControl, SendSingle, transfer
<1>2. sid \in {"0x34", "0x36"} /\ (sid = "0x36" => ecu.stored = offset)
  BY <1>1 DEF ClientInv, Agreement, FlowAwaited
<1>3. DEFINE r == IF sid = "0x34" THEN Request("0x34", 0, 0, 0)
                  ELSE Request("0x36", bsn, offset, ChunkAt(payload, offset))
<1>4. toEcu' = Append(toEcu, r)
  BY DEF FlowControl, SendSingle
<1>5. att' \in 1 .. MaxCalls
  BY <1>1, Bounds DEF ClientInv, Types, CallTypes, Running
<1>6. /\ payload \in 1 .. CfgPayload /\ offset \in 0 .. FirmwareLen /\ bsn \in 0 .. MaxBsn
      /\ ChunkAt(payload, offset) \in 0 .. FirmwareLen
  BY ChunkInFirmware, Bounds DEF ClientInv, Types, LoopTypes
<1>7. 0 \in 0 .. MaxBsn /\ 0 \in 0 .. FirmwareLen /\ "0x34" \in Sid /\ "0x36" \in Sid
  BY Bounds DEF Sid
<1>8. /\ r \in Message /\ r.sid = sid /\ r.att = att'
      /\ sid = "0x36" => r.off = offset /\ r.len = ChunkAt(payload, offset)
  <2>1. CASE sid = "0x34"
    <3>1. r = Request("0x34", 0, 0, 0)
      BY <2>1
    <3>2. QED
      BY <1>5, <1>7, <2>1, <3>1, RequestTyped
  <2>2. CASE sid = "0x36"
    <3>1. r = Request("0x36", bsn, offset, ChunkAt(payload, offset))
      BY <2>2
    <3>2. QED
      BY <1>5, <1>6, <1>7, <2>2, <3>1, RequestTyped
  <2>3. QED
    BY <1>2, <2>1, <2>2
<1> HIDE DEF r
<1>9. toEcu' = <<r>> /\ Len(toGw') = 0
  BY <1>1, <1>4
<1>10. sid' \in TransferSid /\ ecu.stored # Corrupt
  BY <1>1, <1>2 DEF TransferSid, ClientInv, Agreement, Transfers
<1>11. QED
  BY <1>1, <1>2, <1>8, <1>9, <1>10, TransferRequested

(* A positive answer to a request of a download is the last frame, and     *)
(* says that the ECU has done what it was asked.                           *)
LEMMA TransferAnswered ==
    ASSUME ClientInv, NEW s \in TransferSid, ReceivePositive(s)
    PROVE  /\ Len(toEcu) = 0 /\ Len(toGw') = 0 /\ Done /\ sid = s /\ pc = "wait"
           /\ att' = att /\ ecu' = ecu /\ att \in 1 .. MaxCalls
<1>1. /\ toGw \in Seq(Frame) /\ toGw # <<>> /\ toGw' = Tail(toGw) /\ Head(toGw).kind = "positive"
      /\ pc = "wait" /\ sid = s /\ att' = att /\ ecu' = ecu
  BY DEF ReceivePositive, Receive, ClientInv, Types, QueueTypes
<1>2. /\ Len(toGw) \in Nat /\ Len(toGw) >= 1 /\ Head(toGw) = toGw[1] /\ Len(toGw') = Len(toGw) - 1
  BY <1>1, TailFewer
<1>3. InTransfer
  BY <1>1 DEF InTransfer, TransferSid
<1>4. 1 \in 1 .. Len(toGw) /\ toGw[1].kind = "positive"
  BY <1>1, <1>2
<1>5. Len(toGw) = 1 /\ Done
  BY <1>3, <1>4 DEF ClientInv, Agreement, InStep
<1>6. Len(toEcu) = 0
  <2>1. Len(toEcu) \in Nat
    BY LenProperties DEF ClientInv, Types, QueueTypes
  <2>2. SUFFICES ASSUME 1 \in 1 .. Len(toEcu) PROVE FALSE
    BY <2>1
  <2>3. toEcu[1].sid \in TransferSid
    BY <1>1, <1>3, <2>2 DEF ClientInv, Agreement, InStep, Asked
  <2>4. EachPending
    BY <2>2, <2>3 DEF ClientInv, Agreement, Transfers
  <2>5. QED
    BY <1>4, <2>4 DEF EachPending
<1>7. att \in 1 .. MaxCalls
  BY <1>1, Bounds DEF ClientInv, Types, CallTypes, Running
<1>8. QED
  BY <1>1, <1>2, <1>5, <1>6, <1>7

(* The transfer loop goes on in step with the ECU.                         *)
LEMMA NextBlockAgrees ==
    ASSUME ClientInv, Len(toEcu) = 0, Len(toGw') = 0, ecu' = ecu, att' \in 1 .. MaxCalls,
           NEW n \in 1 .. CfgPayload, NEW o \in 0 .. FirmwareLen, NEW b \in 1 .. MaxBsn,
           payload' = n, offset' = o, ecu.stored = o, NextBlock(n, o, b)
    PROVE  Agreement'
<1>1. toEcu = <<>>
  BY EmptySeq DEF ClientInv, Types, QueueTypes
<1>2. 0 \in 0 .. MaxBsn /\ 0 \in 0 .. FirmwareLen /\ b \in 0 .. MaxBsn /\ "0x36" \in Sid /\ "0x37" \in Sid
  BY Bounds DEF Sid
<1>3. ecu.stored # Corrupt
  BY DEF ClientInv, Agreement, Transfers
<1>4. CASE o >= FirmwareLen
  <2>1. sid' = "0x37" /\ pc' = "wait" /\ toEcu' = Append(toEcu, Request("0x37", 0, 0, 0))
    BY <1>4 DEF NextBlock, SendSingle
  <2>2. PICK r \in Message : r = Request("0x37", 0, 0, 0) /\ r.sid = "0x37" /\ r.att = att'
    BY <1>2, RequestTyped
  <2>3. toEcu' = <<r>> /\ sid' \in TransferSid
    BY <1>1, <2>1, <2>2 DEF TransferSid
  <2>4. QED
    BY <1>3, <2>1, <2>2, <2>3, TransferRequested
<1>5. CASE ~(o >= FirmwareLen) /\ ChunkAt(n, o) <= SfPayload
  <2>1. /\ sid' = "0x36" /\ pc' = "wait"
        /\ toEcu' = Append(toEcu, Request("0x36", b, o, ChunkAt(n, o)))
    BY <1>5 DEF NextBlock, SendSingle
  <2>2. ChunkAt(n, o) \in 0 .. FirmwareLen
    BY ChunkInFirmware
  <2>3. PICK r \in Message : /\ r = Request("0x36", b, o, ChunkAt(n, o)) /\ r.sid = "0x36" /\ r.att = att'
                             /\ r.off = o /\ r.len = ChunkAt(n, o)
    BY <1>2, <2>2, RequestTyped
  <2>4. toEcu' = <<r>> /\ sid' \in TransferSid
    BY <1>1, <2>1, <2>3 DEF TransferSid
  <2>5. r.len = ChunkAt(payload', offset')
    BY <2>3
  <2>6. QED
    BY <1>3, <2>1, <2>3, <2>4, <2>5, TransferRequested
<1>6. CASE ~(o >= FirmwareLen) /\ ~(ChunkAt(n, o) <= SfPayload)
  <2>1. sid' = "0x36" /\ pc' = "fc" /\ toEcu' = toEcu
    BY <1>6 DEF NextBlock, AwaitFlowControl
  <2>2. /\ \A i : ~(i \in 1 .. Len(toEcu')) /\ ~(i \in 1 .. Len(toGw'))
        /\ Len(toEcu') = 0
    BY <2>1
  <2>3. Transfers' /\ InStep' /\ FramesCurrent'
    BY <1>3, <2>2 DEF Transfers, InStep, FramesCurrent
  <2>4. FlowAwaited'
    BY <2>1, <2>2 DEF FlowAwaited
  <2>5. Installed' /\ CollectedCurrent'
    BY <2>1 DEF Installed, CollectedCurrent, Collecting
  <2>6. QED
    BY <2>3, <2>4, <2>5 DEF Agreement
<1>7. QED
  BY <1>4, <1>5, <1>6

(* The block payload is at least one and at most the configured one.       *)
LEMMA BlockPayloadTyped ==
    ASSUME NEW max \in Nat
    PROVE  BlockPayload(max) \in 1 .. CfgPayload
  BY Bounds DEF BlockPayload, Max2, Min2

(* The answer to 0x34: the first block starts where the ECU is, at 0.      *)
LEMMA ReceiveDownloadAgrees ==
    ASSUME ClientInv, ReceiveDownload
    PROVE  Agreement' /\ payload' \in 1 .. CfgPayload
<1>1. ReceivePositive("0x34") /\ "0x34" \in TransferSid
  BY DEF ReceiveDownload, TransferSid
<1>2. /\ Len(toEcu) = 0 /\ Len(toGw') = 0 /\ Done /\ sid = "0x34"
      /\ att' = att /\ ecu' = ecu /\ att \in 1 .. MaxCalls
  BY <1>1, TransferAnswered
<1>3. Head(toGw) \in Frame /\ Head(toGw).kind = "positive"
  BY <1>1, TailFewer DEF ReceivePositive, Receive, ClientInv, Types, QueueTypes
<1>4. Head(toGw).max \in Nat
  BY <1>3 DEF Frame, Reply, First, Consecutive
<1>5. PICK n \in 1 .. CfgPayload : n = BlockPayload(Head(toGw).max)
  BY <1>4, BlockPayloadTyped
<1>6. payload' = n /\ offset' = 0 /\ NextBlock(n, 0, 1)
  BY <1>5 DEF ReceiveDownload
<1>7. ecu.stored = 0 /\ 0 \in 0 .. FirmwareLen /\ 1 \in 1 .. MaxBsn
  BY <1>2, Bounds DEF Done
<1>8. Agreement'
  BY <1>2, <1>6, <1>7, NextBlockAgrees
<1>9. QED
  BY <1>6, <1>8

(* The answer to 0x36: the next block starts where the ECU is.             *)
LEMMA ReceiveTransferAgrees ==
    ASSUME ClientInv, ReceiveTransfer, Head(toGw).bsn = bsn
    PROVE  /\ Agreement'
           /\ payload' = payload /\ offset' \in 0 .. FirmwareLen /\ bsn' \in 1 .. MaxBsn
<1>1. ReceivePositive("0x36") /\ "0x36" \in TransferSid
  BY DEF ReceiveTransfer, TransferSid
<1>2. /\ Len(toEcu) = 0 /\ Len(toGw') = 0 /\ Done /\ sid = "0x36"
      /\ att' = att /\ ecu' = ecu /\ att \in 1 .. MaxCalls
  BY <1>1, TransferAnswered
<1>3. /\ offset' = offset + ChunkAt(payload, offset) /\ bsn' = NextBsn(bsn) /\ payload' = payload
      /\ NextBlock(payload, offset', bsn')
  BY DEF ReceiveTransfer
<1>4. payload \in 1 .. CfgPayload /\ offset \in 0 .. FirmwareLen /\ bsn \in 1 .. MaxBsn
  BY DEF ClientInv, Types, LoopTypes
<1>5. PICK o \in 0 .. FirmwareLen : o = offset + ChunkAt(payload, offset)
  BY <1>4, ChunkInFirmware
<1>6. PICK b \in 1 .. MaxBsn : b = NextBsn(bsn)
  BY <1>4, Bounds DEF NextBsn
<1>7. PICK n \in 1 .. CfgPayload : n = payload
  BY <1>4
<1>8. offset' = o /\ bsn' = b /\ payload' = n /\ NextBlock(n, o, b)
  BY <1>3, <1>5, <1>6, <1>7
<1>9. ecu.stored = o
  BY <1>2, <1>5 DEF Done
<1>10. Agreement'
  BY <1>2, <1>8, <1>9, NextBlockAgrees
<1>11. QED
  BY <1>3, <1>8, <1>10

(* The answer to 0x37 ends the call; the ECU has installed the firmware.   *)
LEMMA ReceiveExitAgrees ==
    ASSUME ClientInv, ReceiveExit
    PROVE  Agreement'
<1>1. ReceivePositive("0x37") /\ "0x37" \in TransferSid
  BY DEF ReceiveExit, TransferSid
<1>2. /\ Len(toEcu) = 0 /\ Len(toGw') = 0 /\ Done /\ sid = "0x37"
      /\ att' = att /\ ecu' = ecu
  BY <1>1, TransferAnswered
<1>3. pc' = "ok" /\ sid' = sid /\ toEcu' = toEcu
  BY DEF ReceiveExit
<1>4. \A i : ~(i \in 1 .. Len(toEcu')) /\ ~(i \in 1 .. Len(toGw'))
  BY <1>2, <1>3
<1>5. ecu.stored # Corrupt
  BY DEF ClientInv, Agreement, Transfers
<1>6. Transfers' /\ FramesCurrent'
  BY <1>2, <1>4, <1>5 DEF Transfers, FramesCurrent
<1>7. Installed'
  BY <1>2, <1>3 DEF Installed, Done
<1>8. InStep' /\ FlowAwaited' /\ CollectedCurrent'
  BY <1>2, <1>3 DEF InStep, InTransfer, FlowAwaited, CollectedCurrent, Collecting
<1>9. QED
  BY <1>6, <1>7, <1>8 DEF Agreement

(* A consecutive frame with the next number adds the next part of the      *)
(* installed version; with the last one, the answer is complete.           *)
LEMMA CollectAgrees ==
    ASSUME ClientInv, Collect, Head(toGw).kind = "consecutive", Head(toGw).sn = Len(frames),
           frames' = Append(frames, Part(Head(toGw))), toEcu' = toEcu,
           \/ pc' = "cf" /\ Len(frames) < VersionFrames
           \/ pc' = "ok" /\ sid' = "0x22" /\ ~(Len(frames) < VersionFrames)
    PROVE  Agreement' /\ FramesTypes' /\ Len(frames') = Len(frames) + 1
<1>1. /\ toGw \in Seq(Frame) /\ toGw # <<>> /\ toGw' = Tail(toGw) /\ pc = "cf" /\ ecu' = ecu
  BY DEF Collect, ClientInv, Types, QueueTypes
<1>2. /\ Len(toGw) \in Nat /\ Len(toGw) >= 1 /\ Head(toGw) = toGw[1] /\ toGw[1] \in Frame
      /\ Fewer(toGw', toGw)
  BY <1>1, TailFewer
<1>3. toGw[1].kind = "consecutive" /\ 1 \in 1 .. Len(toGw)
  BY <1>1, <1>2
<1>4. toGw[1].version = ecu.installed
  BY <1>3 DEF ClientInv, Agreement, FramesCurrent
<1>5. toGw[1].sn \in 1 .. VersionFrames /\ toGw[1].version \in 0 .. MaxCalls
  BY <1>2, <1>3 DEF Frame, Reply, First, Consecutive
<1>6. PICK part \in VersionPart : part = Part(Head(toGw)) /\ part = <<Len(frames), ecu.installed>>
  <2>1. Part(Head(toGw)) = <<toGw[1].sn, toGw[1].version>>
    BY <1>2 DEF Part
  <2>2. toGw[1].sn \in 0 .. VersionFrames
    BY <1>5, Bounds
  <2>3. <<toGw[1].sn, toGw[1].version>> \in VersionPart
    BY <1>5, <2>2 DEF VersionPart
  <2>4. toGw[1].sn = Len(frames)
    BY <1>2
  <2>5. QED
    BY <1>4, <2>1, <2>3, <2>4
<1>7. /\ frames' \in Seq(VersionPart) /\ Len(frames) \in Nat /\ Len(frames') = Len(frames) + 1
      /\ \A n \in 1 .. Len(frames) : frames'[n] = frames[n]
      /\ frames'[Len(frames) + 1] = part
      /\ \A n \in 1 .. Len(frames) + 1 : n \in 1 .. Len(frames) \/ n = Len(frames) + 1
  BY <1>6, AppendMore DEF ClientInv, Types, FramesTypes
<1>8. Len(frames) <= VersionFrames
  BY <1>1 DEF ClientInv, Types, FramesTypes
<1>9. NoTransferAsked /\ \A n \in 1 .. Len(frames) : frames[n] = <<n - 1, ecu.installed>>
  BY <1>1 DEF ClientInv, Agreement, CollectedCurrent, Collecting
<1>10. \A n \in 1 .. Len(frames') : frames'[n] = <<n - 1, ecu.installed>>
  <2>1. TAKE n \in 1 .. Len(frames')
  <2>2. CASE n \in 1 .. Len(frames)
    BY <1>7, <1>9, <2>2
  <2>3. CASE n = Len(frames) + 1
    <3>1. n - 1 = Len(frames) /\ frames'[n] = part
      BY <1>7, <2>3
    <3>2. QED
      BY <1>6, <3>1
  <2>4. QED
    BY <1>7, <2>2, <2>3
<1>11. PICK gone : gone = toGw'
  OBVIOUS
<1>12. \A i \in 1 .. Len(gone) : \E j \in 1 .. Len(toGw) : gone[i] = toGw[j]
  BY <1>2, <1>11 DEF Fewer
<1>13. EachPending => EachPending'
  BY <1>11, <1>12 DEF EachPending
<1>14. Transfers' /\ NoTransferAsked'
  BY <1>1, <1>9, <1>13 DEF ClientInv, Agreement, Transfers, NoTransferAsked
<1>15. FramesCurrent'
  BY <1>1, <1>11, <1>12 DEF ClientInv, Agreement, FramesCurrent
<1>16. CollectedCurrent'
  <2>1. pc' = "ok" => Len(frames') = VersionFrames + 1
    BY <1>7, <1>8, Bounds
  <2>2. QED
    BY <1>1, <1>10, <1>14, <2>1 DEF CollectedCurrent
<1>17. InStep' /\ FlowAwaited' /\ Installed'
  BY DEF InStep, InTransfer, FlowAwaited, Installed
<1>18. FramesTypes'
  <2>1. Len(frames') <= VersionFrames + 1
    BY <1>7, <1>8, Bounds
  <2>2. pc' = "cf" => Len(frames') <= VersionFrames
    BY <1>5, <1>7, <1>8, Bounds
  <2>3. QED
    BY <1>7, <2>1, <2>2 DEF FramesTypes
<1>19. QED
  BY <1>7, <1>14, <1>15, <1>16, <1>17, <1>18 DEF Agreement

(* A request taken by the ECU was the only one of a download, and in a     *)
(* download it was the only request.                                       *)
LEMMA RequestTaken ==
    ASSUME ClientInv, toEcu # <<>>, toEcu' \in {<<>>, Tail(toEcu)}
    PROVE  /\ NoTransferAsked' /\ toEcu' \in Seq(Message)
           /\ Len(toEcu) >= 1 /\ Head(toEcu) = toEcu[1] /\ Head(toEcu) \in Message
           /\ Head(toEcu).sid \in TransferSid => EachPending
           /\ InTransfer => Len(toEcu') = 0 /\ Asked(Head(toEcu)) /\ EachPending
<1>1. /\ toEcu \in Seq(Message) /\ Len(toEcu) \in Nat /\ Len(toEcu) >= 1 /\ 1 \in 1 .. Len(toEcu)
      /\ Head(toEcu) = toEcu[1] /\ toEcu[1] \in Message /\ Tail(toEcu) \in Seq(Message)
      /\ Len(Tail(toEcu)) = Len(toEcu) - 1
      /\ \A i \in 1 .. Len(toEcu) - 1 : Tail(toEcu)[i] = toEcu[i + 1]
  BY TailFewer DEF ClientInv, Types, QueueTypes
<1>2. toEcu' \in Seq(Message)
  <2>1. <<>> \in Seq(Message)
    BY EmptySeq
  <2>2. toEcu' = <<>> \/ toEcu' = Tail(toEcu)
    OBVIOUS
  <2>3. QED
    BY <1>1, <2>1, <2>2
<1>3. NoTransferAsked'
  <2>1. CASE toEcu' = <<>>
    BY <2>1 DEF NoTransferAsked
  <2>2. CASE toEcu' = Tail(toEcu)
    <3>1. ASSUME NEW i \in 1 .. Len(toEcu) - 1 PROVE Tail(toEcu)[i].sid \notin TransferSid
      <4>1. i + 1 \in 1 .. Len(toEcu) /\ i + 1 # 1
        BY <1>1
      <4>2. toEcu[i + 1].sid \notin TransferSid
        BY <4>1 DEF ClientInv, Agreement, Transfers
      <4>3. QED
        BY <1>1, <4>2
    <3>2. QED
      BY <1>1, <2>2, <3>1 DEF NoTransferAsked
  <2>3. QED
    BY <2>1, <2>2
<1>4. toEcu[1].sid \in TransferSid => EachPending
  BY <1>1 DEF ClientInv, Agreement, Transfers
<1>5. InTransfer => Len(toEcu') = 0 /\ Asked(toEcu[1]) /\ EachPending
  <2>1. SUFFICES ASSUME InTransfer PROVE Len(toEcu') = 0 /\ Asked(toEcu[1]) /\ EachPending
    OBVIOUS
  <2>2. Asked(toEcu[1]) /\ \A i \in 1 .. Len(toEcu) : i = 1
    BY <1>1, <2>1 DEF ClientInv, Agreement, InStep
  <2>3. Len(toEcu) = 1
    BY <1>1, <2>2
  <2>4. Len(toEcu') = 0
    BY <1>1, <2>3
  <2>5. toEcu[1].sid \in TransferSid
    BY <2>1, <2>2 DEF Asked, InTransfer, TransferSid
  <2>6. QED
    BY <1>4, <2>2, <2>4, <2>5
<1>6. QED
  BY <1>1, <1>2, <1>3, <1>4, <1>5

(* The ECU takes a request and answers it with one frame.                  *)
LEMMA RequestAnswered ==
    ASSUME ClientInv, toEcu # <<>>, toEcu' \in {<<>>, Tail(toEcu)}, UNCHANGED client,
           NEW m \in Frame, toGw' = Append(toGw, m), EcuTypes', ecu'.stored # Corrupt,
           ecu'.installed = ecu.installed \/ Head(toEcu).sid = "0x37",
           m.kind \in {"first", "consecutive"} =>
             m.version = ecu'.installed /\ Head(toEcu).sid \notin TransferSid,
           InTransfer => m.kind = "negative" \/ (m.kind = "positive" /\ Done')
    PROVE  Agreement' /\ QueueTypes'
<1>1. /\ NoTransferAsked' /\ toEcu' \in Seq(Message)
      /\ Len(toEcu) >= 1 /\ Head(toEcu) = toEcu[1] /\ Head(toEcu) \in Message
      /\ Head(toEcu).sid \in TransferSid => EachPending
      /\ InTransfer => Len(toEcu') = 0 /\ Asked(Head(toEcu)) /\ EachPending
  BY RequestTaken
<1>2. /\ toGw' \in Seq(Frame) /\ Len(toGw) \in Nat /\ Len(toGw') = Len(toGw) + 1
      /\ \A i \in 1 .. Len(toGw) : toGw'[i] = toGw[i]
      /\ toGw'[Len(toGw) + 1] = m
      /\ \A i \in 1 .. Len(toGw) + 1 : i \in 1 .. Len(toGw) \/ i = Len(toGw) + 1
  BY AppendMore DEF ClientInv, Types, QueueTypes
<1>3. UNCHANGED <<pc, sid, att, payload, offset, frames>>
  BY DEF client, transfer
<1>4. QueueTypes'
  BY <1>1, <1>2 DEF QueueTypes
<1>5. Transfers'
  BY <1>1 DEF Transfers, NoTransferAsked
<1>6. InStep'
  <2>1. SUFFICES ASSUME InTransfer'
                 PROVE  /\ \A i \in 1 .. Len(toEcu') : i = 1 /\ Asked(toEcu[i])'
                        /\ \A i \in 1 .. Len(toGw') :
                              \/ toGw'[i].kind = "pending"
                              \/ i = Len(toGw') /\ toGw'[i].kind = "negative"
                              \/ i = Len(toGw') /\ toGw'[i].kind = "positive" /\ Done'
    BY DEF InStep
  <2>2. InTransfer
    BY <1>3, <2>1 DEF InTransfer
  <2>3. \A i : ~(i \in 1 .. Len(toEcu'))
    BY <1>1, <2>2
  <2>4. \A i \in 1 .. Len(toGw) : toGw'[i].kind = "pending"
    BY <1>1, <1>2, <2>2 DEF EachPending
  <2>5. QED
    BY <1>2, <2>2, <2>3, <2>4
<1>7. FlowAwaited' /\ Installed'
  <2>1. ~(pc = "fc" /\ sid = "0x36") /\ ~(pc = "ok" /\ sid = "0x37")
    BY <1>1 DEF ClientInv, Agreement, FlowAwaited, Installed
  <2>2. pc = "fc" => sid \in {"0x34", "0x36"}
    BY DEF ClientInv, Agreement, FlowAwaited
  <2>3. QED
    BY <1>3, <2>1, <2>2 DEF FlowAwaited, Installed
<1>8. Head(toEcu).sid = "0x37" => EachPending
  BY <1>1 DEF TransferSid
<1>9. FramesCurrent'
  <2>1. ASSUME NEW i \in 1 .. Len(toGw), toGw[i].kind \in {"first", "consecutive"}
        PROVE  toGw[i].version = ecu'.installed
    BY <1>8, <2>1 DEF ClientInv, Agreement, FramesCurrent, EachPending
  <2>2. QED
    BY <1>2, <2>1 DEF FramesCurrent
<1>10. CollectedCurrent'
  <2>1. Collecting => Head(toEcu).sid # "0x37"
    <3>1. 1 \in 1 .. Len(toEcu)
      <4>1. Len(toEcu) \in Nat
        BY LenProperties DEF ClientInv, Types, QueueTypes
      <4>2. QED
        BY <1>1, <4>1
    <3>2. QED
      BY <1>1, <3>1 DEF ClientInv, Agreement, CollectedCurrent, NoTransferAsked, TransferSid
  <2>2. Collecting => ecu'.installed = ecu.installed
    BY <2>1
  <2>3. QED
    BY <1>1, <1>3, <2>2 DEF ClientInv, Agreement, CollectedCurrent, Collecting
<1>11. QED
  BY <1>4, <1>5, <1>6, <1>7, <1>9, <1>10 DEF Agreement

(* The first request in the queue has the types of a request.              *)
LEMMA HeadTyped ==
    ASSUME ClientInv, toEcu # <<>>
    PROVE  /\ Head(toEcu) \in Message /\ Head(toEcu).sid \in Sid /\ Head(toEcu).att \in 1 .. MaxCalls
           /\ Head(toEcu).bsn \in 0 .. MaxBsn /\ Head(toEcu).len \in Nat /\ Head(toEcu).off \in Nat
<1>1. Head(toEcu) \in Message
  BY TailFewer DEF ClientInv, Types, QueueTypes
<1>2. QED
  BY <1>1, Bounds DEF Message

(* An answer to the first request.                                         *)
LEMMA AnswerTyped ==
    ASSUME ClientInv, toEcu # <<>>, NEW kind \in {"pending", "positive", "negative"}, NEW max \in Nat
    PROVE  /\ Answer(kind, Head(toEcu), max) \in Frame
           /\ Answer(kind, Head(toEcu), max).kind = kind
  BY HeadTyped DEF Answer, Frame, Reply

(* What a positive answer of the ECU leaves it with.                       *)
LEMMA EcuAnswered ==
    ASSUME ClientInv, toEcu # <<>>, NEW max \in Nat,
           NEW e \in [mode : {"app", "boot"}, stored : Int, given : Nat, installed : 0 .. MaxCalls,
                      owes : BOOLEAN],
           NEW rest \in {<<>>, Tail(toEcu)}, EcuAnswers(max, e, rest),
           e.stored # Corrupt, e.installed = ecu.installed \/ Head(toEcu).sid = "0x37",
           InTransfer => /\ sid = "0x34" => e.stored = 0
                         /\ sid = "0x36" => e.stored = offset + ChunkAt(payload, offset)
                         /\ sid = "0x37" => e.installed = att
    PROVE  Agreement' /\ QueueTypes' /\ EcuTypes'
<1>1. PICK m \in Frame : m = Answer("positive", Head(toEcu), max) /\ m.kind = "positive"
  BY AnswerTyped
<1>2. /\ toGw' = Append(toGw, m) /\ ecu' = [e EXCEPT !.given = 0, !.owes = FALSE]
      /\ toEcu' = rest /\ UNCHANGED client
  BY <1>1 DEF EcuAnswers
<1>3. EcuTypes' /\ ecu'.stored = e.stored /\ ecu'.installed = e.installed
  BY <1>2 DEF EcuTypes
<1>4. toEcu' \in {<<>>, Tail(toEcu)}
  BY <1>2
<1>5. InTransfer => Done'
  <2>1. UNCHANGED <<sid, att, payload, offset>>
    BY <1>2 DEF client, transfer
  <2>2. QED
    BY <1>3, <2>1 DEF Done
<1>6. QED
  BY <1>1, <1>2, <1>3, <1>4, <1>5, RequestAnswered

(* A session, a download, a block, the end of a download: what the answer  *)
(* claims is done.                                                         *)
LEMMA EcuStepAgrees ==
    ASSUME ClientInv, EcuSession \/ EcuRequestDownload \/ EcuTransferData \/ EcuTransferExit
    PROVE  Agreement' /\ QueueTypes' /\ EcuTypes'
<1> DEFINE Ecus == [mode : {"app", "boot"}, stored : Int, given : Nat, installed : 0 .. MaxCalls,
                    owes : BOOLEAN]
<1>1. ecu \in Ecus /\ ecu.stored # Corrupt
  BY DEF ClientInv, Types, EcuTypes, Agreement, Transfers
<1>2. toEcu # <<>>
  BY DEF EcuSession, EcuRequestDownload, EcuTransferData, EcuTransferExit, EcuReads
<1>3. InTransfer => Asked(Head(toEcu))
  BY <1>2, TailFewer DEF ClientInv, Types, QueueTypes, Agreement, InStep
<1>9. NotStored \in Int /\ NotStored # Corrupt
  BY DEF NotStored, Corrupt
<1>4. CASE EcuSession
  <2>1. PICK e : e = [ecu EXCEPT !.mode = "boot", !.stored = NotStored]
    OBVIOUS
  <2>2. e \in Ecus /\ e.stored # Corrupt /\ e.installed = ecu.installed
    BY <1>1, <1>9, <2>1
  <2>3. PICK rest \in {<<>>, Tail(toEcu)} : EcuAnswers(0, e, rest)
    BY <1>4, <2>1 DEF EcuSession
  <2>4. ~InTransfer
    BY <1>3, <1>4 DEF EcuSession, EcuReads, Asked, InTransfer
  <2>5. QED
    BY <1>2, <2>2, <2>3, <2>4, EcuAnswered
<1>5. CASE EcuRequestDownload
  <2>1. PICK e : e = [ecu EXCEPT !.stored = 0]
    OBVIOUS
  <2>2. e \in Ecus /\ e.stored # Corrupt /\ e.installed = ecu.installed /\ e.stored = 0
    BY <1>1, <2>1 DEF Corrupt
  <2>3. PICK max \in EcuPayloads : EcuAnswers(max, e, Tail(toEcu))
    BY <1>5, <2>1 DEF EcuRequestDownload
  <2>4. max \in Nat /\ Tail(toEcu) \in {<<>>, Tail(toEcu)}
    BY Bounds
  <2>5. InTransfer => sid = "0x34"
    BY <1>3, <1>5 DEF EcuRequestDownload, EcuReads, Asked
  <2>6. QED
    BY <1>2, <2>2, <2>3, <2>4, <2>5, EcuAnswered
<1>6. CASE EcuTransferData
  <2>1. Head(toEcu).sid = "0x36" /\ Head(toEcu).len \in Nat /\ Head(toEcu).off \in Nat
    BY <1>2, <1>6, HeadTyped DEF EcuTransferData, EcuReads
  <2>2. Head(toEcu).off = ecu.stored
    <3>1. Head(toEcu) = toEcu[1] /\ 1 \in 1 .. Len(toEcu)
      BY <1>2, TailFewer DEF ClientInv, Types, QueueTypes
    <3>2. QED
      BY <2>1, <3>1 DEF ClientInv, Agreement, Transfers, TransferSid
  <2>3. PICK e : e = [ecu EXCEPT !.stored = ecu.stored + Head(toEcu).len]
    OBVIOUS
  <2>4. /\ e \in Ecus /\ e.installed = ecu.installed /\ e.stored = ecu.stored + Head(toEcu).len
        /\ e.stored # Corrupt
    BY <1>1, <2>1, <2>2, <2>3 DEF Corrupt
  <2>5. EcuAnswers(0, e, Tail(toEcu))
    BY <1>1, <1>6, <2>2, <2>3 DEF EcuTransferData
  <2>6. InTransfer => sid = "0x36" /\ Head(toEcu).off = offset /\ Head(toEcu).len = ChunkAt(payload, offset)
    BY <1>3, <2>1 DEF Asked
  <2>7. InTransfer => sid = "0x36" /\ e.stored = offset + ChunkAt(payload, offset)
    BY <2>2, <2>4, <2>6
  <2>8. QED
    BY <1>2, <2>4, <2>5, <2>7, EcuAnswered
<1>7. CASE EcuTransferExit
  <2>1. Head(toEcu).sid = "0x37" /\ Head(toEcu).att \in 1 .. MaxCalls
    BY <1>2, <1>7, HeadTyped DEF EcuTransferExit, EcuReads
  <2>2. PICK e : e = [ecu EXCEPT !.mode = "app", !.stored = NotStored, !.installed = Head(toEcu).att]
    OBVIOUS
  <2>3. e \in Ecus /\ e.stored # Corrupt /\ e.installed = Head(toEcu).att
    <3>1. Head(toEcu).att \in 0 .. MaxCalls
      BY <2>1, Bounds
    <3>2. QED
      BY <1>1, <1>9, <2>2, <3>1
  <2>4. EcuAnswers(0, e, <<>>)
    BY <1>7, <2>2 DEF EcuTransferExit
  <2>5. InTransfer => sid = "0x37" /\ Head(toEcu).att = att
    BY <1>3, <2>1 DEF Asked
  <2>6. QED
    BY <1>2, <2>1, <2>3, <2>4, <2>5, EcuAnswered
<1>8. QED
  BY <1>4, <1>5, <1>6, <1>7

(* The version that is read is the one installed, and nothing of a         *)
(* download is under way then.  A refusal leaves the ECU where it was.     *)
LEMMA EcuReplyAgrees ==
    ASSUME ClientInv, EcuReadVersion \/ EcuRefuse
    PROVE  Agreement' /\ QueueTypes' /\ EcuTypes'
<1>1. toEcu # <<>> /\ toEcu' = Tail(toEcu) /\ UNCHANGED client
  BY DEF EcuReadVersion, EcuRefuse, EcuReads
<1>2. toEcu' \in {<<>>, Tail(toEcu)}
  BY <1>1
<1>3. InTransfer => Asked(Head(toEcu))
  BY <1>1, TailFewer DEF ClientInv, Types, QueueTypes, Agreement, InStep
<1>4. EcuTypes' /\ ecu'.stored = ecu.stored /\ ecu'.installed = ecu.installed
  <2>1. EcuTypes
    BY DEF ClientInv, Types
  <2>2. PICK owes \in BOOLEAN : ecu' = [ecu EXCEPT !.given = 0, !.owes = owes]
    BY DEF EcuReadVersion, EcuRefuse
  <2>3. QED
    BY <2>1, <2>2 DEF EcuTypes
<1>5. ecu'.stored # Corrupt
  BY <1>4 DEF ClientInv, Agreement, Transfers
<1>6. CASE EcuReadVersion
  <2>1. PICK m : m = [kind |-> "first", att |-> Head(toEcu).att, sn |-> 0, version |-> ecu.installed]
    OBVIOUS
  <2>2. m.kind = "first" /\ m.version = ecu.installed
    BY <2>1
  <2>3. m \in First
    <3>1. Head(toEcu).att \in 1 .. MaxCalls /\ ecu.installed \in 0 .. MaxCalls
      BY <1>1, HeadTyped DEF ClientInv, Types, EcuTypes
    <3>2. QED
      BY <2>1, <3>1 DEF First
  <2>4. m \in Frame
    BY <2>3 DEF Frame
  <2>5. toGw' = Append(toGw, m) /\ Head(toEcu).sid = "0x22"
    BY <1>6, <2>1 DEF EcuReadVersion, EcuReads
  <2>6. ~InTransfer /\ Head(toEcu).sid \notin TransferSid
    BY <1>3, <2>5 DEF Asked, InTransfer, TransferSid
  <2>7. QED
    BY <1>1, <1>2, <1>4, <1>5, <2>2, <2>4, <2>5, <2>6, RequestAnswered
<1>7. CASE EcuRefuse
  <2>1. PICK m \in Frame : m = Answer("negative", Head(toEcu), 0) /\ m.kind = "negative"
    BY <1>1, AnswerTyped
  <2>2. toGw' = Append(toGw, m)
    BY <1>7, <2>1 DEF EcuRefuse
  <2>3. QED
    BY <1>1, <1>2, <1>4, <1>5, <2>1, <2>2, RequestAnswered
<1>8. QED
  BY <1>6, <1>7

(* A "pending" answer is one more that no code of a download mistakes for  *)
(* another.                                                                *)
LEMMA KeepAliveAgrees ==
    ASSUME ClientInv, EcuKeepAlive
    PROVE  Agreement' /\ QueueTypes' /\ EcuTypes'
<1>1. toEcu # <<>> /\ toEcu' = toEcu /\ UNCHANGED client
  BY DEF EcuKeepAlive
<1>2. EcuTypes' /\ ecu'.stored = ecu.stored /\ ecu'.installed = ecu.installed
  <2>1. EcuTypes
    BY DEF ClientInv, Types
  <2>2. PICK given \in Nat : given = ecu.given + 1
    BY <2>1 DEF EcuTypes
  <2>3. ecu' = [ecu EXCEPT !.given = given, !.owes = FALSE]
    BY <2>2 DEF EcuKeepAlive
  <2>4. QED
    BY <2>1, <2>3 DEF EcuTypes
<1>3. PICK m \in Frame : m = Answer("pending", Head(toEcu), 0) /\ m.kind = "pending"
  BY <1>1, AnswerTyped
<1>4. toGw' = Append(toGw, m)
  BY <1>3 DEF EcuKeepAlive
<1>5. /\ toGw' \in Seq(Frame) /\ Len(toGw) \in Nat /\ Len(toGw') = Len(toGw) + 1
      /\ \A i \in 1 .. Len(toGw) : toGw'[i] = toGw[i]
      /\ toGw'[Len(toGw) + 1] = m
      /\ \A i \in 1 .. Len(toGw) + 1 : i \in 1 .. Len(toGw) \/ i = Len(toGw) + 1
  BY <1>4, AppendMore DEF ClientInv, Types, QueueTypes
<1>6. UNCHANGED <<pc, sid, att, payload, offset, frames>>
  BY <1>1 DEF client, transfer
<1>7. QueueTypes'
  BY <1>1, <1>5 DEF ClientInv, Types, QueueTypes
<1>8. EachPending => EachPending'
  BY <1>3, <1>5 DEF EachPending
<1>9. Transfers'
  BY <1>1, <1>2, <1>8 DEF ClientInv, Agreement, Transfers
<1>10. Len(toEcu) >= 1 /\ 1 \in 1 .. Len(toEcu)
  BY <1>1, TailFewer DEF ClientInv, Types, QueueTypes
<1>11. InStep'
  <2>1. SUFFICES ASSUME InTransfer'
                 PROVE  /\ \A i \in 1 .. Len(toEcu) : i = 1 /\ Asked(toEcu[i])
                        /\ \A i \in 1 .. Len(toGw') : toGw'[i].kind = "pending"
    BY <1>1, <1>6 DEF InStep, Asked
  <2>2. InTransfer
    BY <1>6, <2>1 DEF InTransfer
  <2>3. \A i \in 1 .. Len(toEcu) : i = 1 /\ Asked(toEcu[i])
    BY <2>2 DEF ClientInv, Agreement, InStep
  <2>4. toEcu[1].sid \in TransferSid
    BY <1>10, <2>2, <2>3 DEF Asked, InTransfer, TransferSid
  <2>5. EachPending
    BY <1>10, <2>4 DEF ClientInv, Agreement, Transfers
  <2>6. QED
    BY <1>8, <2>3, <2>5 DEF EachPending
<1>12. FlowAwaited' /\ Installed'
  <2>1. ~(pc = "fc" /\ sid = "0x36") /\ ~(pc = "ok" /\ sid = "0x37")
    BY <1>10 DEF ClientInv, Agreement, FlowAwaited, Installed
  <2>2. pc = "fc" => sid \in {"0x34", "0x36"}
    BY DEF ClientInv, Agreement, FlowAwaited
  <2>3. QED
    BY <1>6, <2>1, <2>2 DEF FlowAwaited, Installed
<1>13. FramesCurrent'
  BY <1>2, <1>3, <1>5 DEF ClientInv, Agreement, FramesCurrent
<1>14. CollectedCurrent'
  BY <1>1, <1>2, <1>6 DEF ClientInv, Agreement, CollectedCurrent, Collecting, NoTransferAsked
<1>15. QED
  BY <1>2, <1>7, <1>9, <1>11, <1>12, <1>13, <1>14 DEF Agreement

(* The consecutive frames the ECU owes carry the version it has installed. *)
LEMMA OwedFrames ==
    ASSUME ClientInv, toEcu # <<>>,
           NEW owed, owed = [n \in 1 .. VersionFrames |->
                               [kind |-> "consecutive", att |-> Head(toEcu).att, sn |-> n,
                                version |-> ecu.installed]]
    PROVE  /\ owed \in Seq(Frame) /\ Len(owed) = VersionFrames
           /\ \A n \in 1 .. VersionFrames : owed[n].version = ecu.installed
<1>1. Head(toEcu).att \in 1 .. MaxCalls /\ ecu.installed \in 0 .. MaxCalls
  BY HeadTyped DEF ClientInv, Types, EcuTypes
<1>2. ASSUME NEW n \in 1 .. VersionFrames
      PROVE  [kind |-> "consecutive", att |-> Head(toEcu).att, sn |-> n, version |-> ecu.installed] \in Frame
  BY <1>1 DEF Frame, Consecutive
<1>3. owed \in [1 .. VersionFrames -> Frame]
  BY <1>2
<1>4. VersionFrames \in Nat
  BY Bounds
<1>5. owed \in Seq(Frame) /\ DOMAIN owed = 1 .. VersionFrames
  BY <1>3, <1>4
<1>6. Len(owed) = VersionFrames
  BY <1>4, <1>5, LenProperties
<1>7. \A n \in 1 .. VersionFrames : owed[n].version = ecu.installed
  OBVIOUS
<1>8. QED
  BY <1>5, <1>6, <1>7

(* Flow control brings the frames owed, if any are.                        *)
LEMMA EcuFlowAgrees ==
    ASSUME ClientInv, EcuFlowControlled
    PROVE  Agreement' /\ QueueTypes' /\ EcuTypes'
<1>1. toEcu # <<>> /\ toEcu' = Tail(toEcu) /\ UNCHANGED client /\ Head(toEcu).sid = "flow_control"
  BY DEF EcuFlowControlled, EcuReads
<1>2. toEcu' \in {<<>>, Tail(toEcu)}
  BY <1>1
<1>3. EcuTypes' /\ ecu'.stored = ecu.stored /\ ecu'.installed = ecu.installed
  BY DEF ClientInv, Types, EcuTypes, EcuFlowControlled
<1>4. /\ NoTransferAsked' /\ toEcu' \in Seq(Message) /\ Len(toEcu) >= 1
      /\ InTransfer => Asked(Head(toEcu))
  BY <1>1, <1>2, RequestTaken
<1>5. ~InTransfer
  BY <1>1, <1>4 DEF Asked, InTransfer
<1>6. UNCHANGED <<pc, sid, att, payload, offset, frames>>
  BY <1>1 DEF client, transfer
<1>7. toGw' \in Seq(Frame) /\ FramesCurrent'
  <2>1. CASE ~ecu.owes
    <3>1. toGw' = toGw
      BY <2>1 DEF EcuFlowControlled
    <3>2. QED
      BY <1>3, <3>1 DEF ClientInv, Types, QueueTypes, Agreement, FramesCurrent
  <2>2. CASE ecu.owes
    <3>1. PICK owed : owed = [n \in 1 .. VersionFrames |->
                               [kind |-> "consecutive", att |-> Head(toEcu).att, sn |-> n,
                                version |-> ecu.installed]]
      OBVIOUS
    <3>2. /\ owed \in Seq(Frame) /\ Len(owed) = VersionFrames
          /\ \A n \in 1 .. VersionFrames : owed[n].version = ecu.installed
      BY <1>1, <3>1, OwedFrames
    <3>3. toGw' = toGw \o owed
      BY <2>2, <3>1 DEF EcuFlowControlled
    <3>4. toGw \in Seq(Frame) /\ Len(toGw) \in Nat /\ Len(owed) \in Nat
      BY <3>2, LenProperties DEF ClientInv, Types, QueueTypes
    <3>5. /\ toGw' \in Seq(Frame) /\ Len(toGw') = Len(toGw) + Len(owed)
          /\ \A i \in 1 .. Len(toGw) + Len(owed) :
                toGw'[i] = IF i <= Len(toGw) THEN toGw[i] ELSE owed[i - Len(toGw)]
      BY <3>2, <3>3, <3>4, ConcatProperties
    <3>6. ASSUME NEW i \in 1 .. Len(toGw) + Len(owed), toGw'[i].kind \in {"first", "consecutive"}
          PROVE  toGw'[i].version = ecu.installed
      <4>1. CASE i <= Len(toGw)
        <5>1. i \in 1 .. Len(toGw) /\ toGw'[i] = toGw[i]
          BY <3>4, <3>5, <4>1
        <5>2. QED
          BY <3>6, <5>1 DEF ClientInv, Agreement, FramesCurrent
      <4>2. CASE ~(i <= Len(toGw))
        <5>1. i - Len(toGw) \in 1 .. VersionFrames /\ toGw'[i] = owed[i - Len(toGw)]
          BY <3>2, <3>4, <3>5, <4>2
        <5>2. QED
          BY <3>2, <5>1
      <4>3. QED
        BY <4>1, <4>2
    <3>7. FramesCurrent'
      BY <1>3, <3>5, <3>6 DEF FramesCurrent
    <3>8. QED
      BY <3>5, <3>7
  <2>3. QED
    BY <2>1, <2>2
<1>8. Transfers'
  BY <1>3, <1>4 DEF ClientInv, Agreement, Transfers, NoTransferAsked
<1>9. InStep'
  BY <1>5, <1>6 DEF InStep, InTransfer
<1>10. FlowAwaited' /\ Installed'
  <2>1. ~(pc = "fc" /\ sid = "0x36") /\ ~(pc = "ok" /\ sid = "0x37")
    BY <1>4 DEF ClientInv, Agreement, FlowAwaited, Installed
  <2>2. pc = "fc" => sid \in {"0x34", "0x36"}
    BY DEF ClientInv, Agreement, FlowAwaited
  <2>3. QED
    BY <1>6, <2>1, <2>2 DEF FlowAwaited, Installed
<1>11. CollectedCurrent'
  BY <1>3, <1>4, <1>6 DEF ClientInv, Agreement, CollectedCurrent, Collecting
<1>12. QED
  BY <1>3, <1>4, <1>7, <1>8, <1>9, <1>10, <1>11 DEF Agreement, QueueTypes

(* A lost request leaves those that were sent after it further ahead.      *)
LEMMA RequestLost ==
    ASSUME ClientInv, LoseRequest
    PROVE  Agreement' /\ QueueTypes' /\ EcuTypes'
<1>1. PICK k \in DOMAIN toEcu : toEcu' = RemoveAt(toEcu, k)
  BY DEF LoseRequest
<1>2. toEcu' \in Seq(Message) /\ Fewer(toEcu', toEcu)
  BY <1>1, RemoveFewer DEF ClientInv, Types, QueueTypes
<1>3. PICK left : left = toEcu'
  OBVIOUS
<1>4. /\ Len(left) \in Nat /\ Len(toEcu) \in Nat
      /\ \A i \in 1 .. Len(left) : \E j \in 1 .. Len(toEcu) : left[i] = toEcu[j] /\ i <= j
  BY <1>2, <1>3 DEF Fewer
<1>5. UNCHANGED <<pc, sid, att, payload, offset, frames, toGw>>
  BY DEF LoseRequest, client, transfer
<1>6. EcuTypes' /\ ecu'.stored = ecu.stored /\ ecu'.installed = ecu.installed
  BY DEF ClientInv, Types, EcuTypes, LoseRequest
<1>7. QueueTypes'
  BY <1>2, <1>5 DEF ClientInv, Types, QueueTypes
<1>8. Transfers'
  <2>1. ASSUME NEW i \in 1 .. Len(left), left[i].sid \in TransferSid
        PROVE  i = 1 /\ EachPending /\ (left[i].sid = "0x36" => left[i].off = ecu.stored)
    <3>1. PICK j \in 1 .. Len(toEcu) : left[i] = toEcu[j] /\ i <= j
      BY <1>4
    <3>2. j = 1 /\ EachPending /\ (toEcu[j].sid = "0x36" => toEcu[j].off = ecu.stored)
      BY <2>1, <3>1 DEF ClientInv, Agreement, Transfers
    <3>3. i = 1
      BY <3>1, <3>2
    <3>4. QED
      BY <3>1, <3>2, <3>3
  <2>2. EachPending => EachPending'
    BY <1>5 DEF EachPending
  <2>3. ecu'.stored # Corrupt
    BY <1>6 DEF ClientInv, Agreement, Transfers
  <2>4. QED
    BY <1>3, <1>6, <2>1, <2>2, <2>3 DEF Transfers
<1>9. InStep'
  <2>1. SUFFICES ASSUME InTransfer'
                 PROVE  /\ \A i \in 1 .. Len(left) : i = 1 /\ Asked(left[i])
                        /\ \A i \in 1 .. Len(toGw) :
                              \/ toGw[i].kind = "pending"
                              \/ i = Len(toGw) /\ toGw[i].kind = "negative"
                              \/ i = Len(toGw) /\ toGw[i].kind = "positive" /\ Done
    BY <1>3, <1>5, <1>6 DEF InStep, Asked, Done
  <2>2. InTransfer
    BY <1>5, <2>1 DEF InTransfer
  <2>3. ASSUME NEW i \in 1 .. Len(left) PROVE i = 1 /\ Asked(left[i])
    <3>1. PICK j \in 1 .. Len(toEcu) : left[i] = toEcu[j] /\ i <= j
      BY <1>4
    <3>2. j = 1 /\ Asked(toEcu[j])
      BY <2>2 DEF ClientInv, Agreement, InStep
    <3>3. i = 1
      BY <3>1, <3>2
    <3>4. QED
      BY <3>1, <3>2, <3>3
  <2>4. QED
    BY <2>2, <2>3 DEF ClientInv, Agreement, InStep
<1>10. FlowAwaited' /\ Installed'
  <2>1. Len(toEcu) = 0 => Len(left) = 0
    BY <1>4
  <2>2. QED
    BY <1>3, <1>5, <1>6, <2>1 DEF ClientInv, Agreement, FlowAwaited, Installed
<1>11. FramesCurrent'
  BY <1>5, <1>6 DEF ClientInv, Agreement, FramesCurrent
<1>12. CollectedCurrent'
  <2>1. NoTransferAsked => NoTransferAsked'
    BY <1>3, <1>4 DEF NoTransferAsked
  <2>2. QED
    BY <1>5, <1>6, <2>1 DEF ClientInv, Agreement, CollectedCurrent, Collecting
<1>13. QED
  BY <1>6, <1>7, <1>8, <1>9, <1>10, <1>11, <1>12 DEF Agreement

-----------------------------------------------------------------------------
(* The types, and with them the whole invariant, after each step.          *)

(* Taking the first frame.                                                 *)
LEMMA FrameTaken ==
    ASSUME ClientInv, toGw # <<>>, toGw' = Tail(toGw)
    PROVE  toGw' \in Seq(Frame) /\ Fewer(toGw', toGw)
  BY TailFewer DEF ClientInv, Types, QueueTypes

(* Sending a single frame.                                                 *)
LEMMA SendTyped ==
    ASSUME ClientInv, NEW r \in Message, SendSingle(r)
    PROVE  toEcu' \in Seq(Message) /\ ClockTypes' /\ FramesTypes' /\ pc' = "wait"
<1>1. toEcu' \in Seq(Message)
  BY AppendMore DEF SendSingle, ClientInv, Types, QueueTypes
<1>2. ClockTypes'
  BY Bounds DEF SendSingle, Fresh, ClockTypes
<1>3. FramesTypes'
  <2>1. <<>> \in Seq(VersionPart) /\ Len(<<>>) = 0
    BY EmptySeq
  <2>2. frames' = <<>>
    BY DEF SendSingle
  <2>3. frames' \in Seq(VersionPart) /\ Len(frames') = 0
    BY <2>1, <2>2
  <2>4. QED
    BY <2>3, Bounds DEF FramesTypes
<1>4. QED
  BY <1>1, <1>2, <1>3 DEF SendSingle

(* Waiting for flow control.                                               *)
LEMMA AwaitTyped ==
    ASSUME ClientInv, AwaitFlowControl
    PROVE  toEcu' \in Seq(Message) /\ ClockTypes' /\ FramesTypes' /\ pc' = "fc"
  BY Bounds DEF AwaitFlowControl, Fresh, ClientInv, Types, QueueTypes, ClockTypes, FramesTypes

(* The transfer loop.                                                      *)
LEMMA NextBlockTyped ==
    ASSUME ClientInv, NEW n \in 1 .. CfgPayload, NEW o \in 0 .. FirmwareLen, NEW b \in 1 .. MaxBsn,
           att' \in 1 .. MaxCalls, NextBlock(n, o, b)
    PROVE  /\ toEcu' \in Seq(Message) /\ ClockTypes' /\ FramesTypes'
           /\ pc' \in {"wait", "fc"} /\ sid' \in Sid
<1>1. 0 \in 0 .. MaxBsn /\ 0 \in 0 .. FirmwareLen /\ b \in 0 .. MaxBsn /\ "0x36" \in Sid /\ "0x37" \in Sid
  BY Bounds DEF Sid
<1>2. CASE o >= FirmwareLen
  <2>1. sid' = "0x37" /\ SendSingle(Request("0x37", 0, 0, 0))
    BY <1>2 DEF NextBlock
  <2>2. Request("0x37", 0, 0, 0) \in Message
    BY <1>1, RequestTyped
  <2>3. QED
    BY <1>1, <2>1, <2>2, SendTyped
<1>3. CASE ~(o >= FirmwareLen) /\ ChunkAt(n, o) <= SfPayload
  <2>1. sid' = "0x36" /\ SendSingle(Request("0x36", b, o, ChunkAt(n, o)))
    BY <1>3 DEF NextBlock
  <2>2. Request("0x36", b, o, ChunkAt(n, o)) \in Message
    BY <1>1, ChunkInFirmware, RequestTyped
  <2>3. QED
    BY <1>1, <2>1, <2>2, SendTyped
<1>4. CASE ~(o >= FirmwareLen) /\ ~(ChunkAt(n, o) <= SfPayload)
  BY <1>1, <1>4, AwaitTyped DEF NextBlock
<1>5. QED
  BY <1>2, <1>3, <1>4

(* A step of the ECU or of the bus leaves the client where it is.          *)
LEMMA ClientWaits ==
    ASSUME ClientInv, UNCHANGED client, Agreement', QueueTypes', EcuTypes'
    PROVE  ClientInv'
  BY DEF ClientInv, Types, CallTypes, LoopTypes, ClockTypes, FramesTypes, client, transfer, clock,
         Running

(* A call that fails.                                                      *)
LEMMA FailKeeps ==
    ASSUME ClientInv, Fail, toGw' \in Seq(Frame), Fewer(toGw', toGw), pc \in Running,
           UNCHANGED <<att, ecu>>
    PROVE  ClientInv'
<1>1. Agreement'
  BY FailAgrees DEF Fail
<1>2. CallTypes'
  BY Bounds DEF ClientInv, Types, CallTypes, Fail, Running
<1>3. LoopTypes' /\ ClockTypes'
  BY DEF ClientInv, Types, LoopTypes, ClockTypes, Fail, transfer, clock
<1>4. FramesTypes' /\ QueueTypes' /\ EcuTypes'
  BY DEF ClientInv, Types, FramesTypes, QueueTypes, EcuTypes, Fail
<1>5. QED
  BY <1>1, <1>2, <1>3, <1>4 DEF ClientInv, Types

(* A new call.                                                             *)
LEMMA CallKeeps ==
    ASSUME ClientInv, NEW s \in {"0x10", "0x22"}, Call(s)
    PROVE  ClientInv'
<1>1. Agreement'
  BY CallAgrees
<1>2. /\ SendSingle(Request(s, 0, 0, 0)) /\ att' = att + 1 /\ att < MaxCalls /\ sid' = s
      /\ UNCHANGED <<payload, offset, bsn, failures, toGw, ecu>>
  BY DEF Call, transfer
<1>3. att \in 0 .. MaxCalls /\ failures \in 0 .. att /\ MaxCalls \in Nat
  BY Bounds DEF ClientInv, Types, CallTypes
<1>4. att' \in 1 .. MaxCalls /\ failures' \in 0 .. att' /\ failures' < att'
  BY <1>2, <1>3
<1>5. s \in Sid /\ 0 \in 0 .. MaxBsn /\ 0 \in 0 .. FirmwareLen
  <2>1. s \in Sid
    BY DEF Sid
  <2>2. QED
    BY <2>1, Bounds
<1>6. Request(s, 0, 0, 0) \in Message
  BY <1>4, <1>5, RequestTyped
<1>7. toEcu' \in Seq(Message) /\ ClockTypes' /\ FramesTypes' /\ pc' = "wait"
  BY <1>2, <1>6, SendTyped
<1>8. CallTypes'
  BY <1>2, <1>4, <1>5, <1>7 DEF CallTypes
<1>9. LoopTypes' /\ QueueTypes' /\ EcuTypes'
  BY <1>2, <1>7 DEF ClientInv, Types, LoopTypes, QueueTypes, EcuTypes
<1>10. QED
  BY <1>1, <1>7, <1>8, <1>9 DEF ClientInv, Types

(* Flow control for a long request.                                        *)
LEMMA FlowControlKeeps ==
    ASSUME ClientInv, FlowControl
    PROVE  ClientInv'
<1>1. Agreement'
  BY FlowControlAgrees
<1>2. /\ pc = "fc" /\ toGw' = <<>>
      /\ UNCHANGED <<att, sid, payload, offset, bsn, failures, ecu>>
  BY DEF FlowControl, transfer
<1>3. PICK r : SendSingle(r) /\ r = IF sid = "0x34" THEN Request("0x34", 0, 0, 0)
                  ELSE Request("0x36", bsn, offset, ChunkAt(payload, offset))
  BY DEF FlowControl
<1>4. att' \in 1 .. MaxCalls
  BY <1>2, Bounds DEF ClientInv, Types, CallTypes, Running
<1>5. /\ offset \in 0 .. FirmwareLen /\ bsn \in 0 .. MaxBsn
      /\ ChunkAt(payload, offset) \in 0 .. FirmwareLen
  BY ChunkInFirmware, Bounds DEF ClientInv, Types, LoopTypes
<1>6. 0 \in 0 .. MaxBsn /\ 0 \in 0 .. FirmwareLen /\ "0x34" \in Sid /\ "0x36" \in Sid
  BY Bounds DEF Sid
<1>7. r \in Message
  <2>1. Request("0x34", 0, 0, 0) \in Message
    BY <1>4, <1>6, RequestTyped
  <2>2. Request("0x36", bsn, offset, ChunkAt(payload, offset)) \in Message
    BY <1>4, <1>5, <1>6, RequestTyped
  <2>3. QED
    BY <1>3, <2>1, <2>2
<1>8. toEcu' \in Seq(Message) /\ ClockTypes' /\ FramesTypes' /\ pc' = "wait"
  BY <1>3, <1>7, SendTyped
<1>9. toGw' \in Seq(Frame)
  BY <1>2, EmptySeq
<1>10. CallTypes'
  BY <1>2, <1>8 DEF ClientInv, Types, CallTypes, Running
<1>11. LoopTypes' /\ QueueTypes' /\ EcuTypes'
  BY <1>2, <1>8, <1>9 DEF ClientInv, Types, LoopTypes, QueueTypes, EcuTypes
<1>12. QED
  BY <1>1, <1>8, <1>10, <1>11 DEF ClientInv, Types

(* The answer to 0x78, retried or not.                                     *)
LEMMA PendingKeeps ==
    ASSUME ClientInv, ReceivePending
    PROVE  ClientInv'
<1>1. pc = "wait" /\ toGw # <<>> /\ toGw' = Tail(toGw) /\ UNCHANGED <<att, ecu>>
  BY DEF ReceivePending, Receive
<1>2. toGw' \in Seq(Frame) /\ Fewer(toGw', toGw)
  BY <1>1, FrameTaken
<1>3. CASE pending + 1 > MaxPending
  BY <1>1, <1>2, <1>3, FailKeeps DEF ReceivePending, Running
<1>4. CASE ~(pending + 1 > MaxPending)
  <2>1. /\ pending' = pending + 1 /\ timer' = 0
        /\ UNCHANGED <<pc, sid, payload, offset, bsn, frames, failures, toEcu>>
    BY <1>4 DEF ReceivePending, transfer
  <2>2. Agreement'
    BY <1>1, <1>2, <2>1, AnswersTaken
  <2>3. ClockTypes'
    BY <1>4, <2>1, Bounds DEF ClientInv, Types, ClockTypes
  <2>4. CallTypes' /\ LoopTypes' /\ FramesTypes' /\ QueueTypes' /\ EcuTypes'
    BY <1>1, <1>2, <2>1 DEF ClientInv, Types, CallTypes, LoopTypes, FramesTypes, QueueTypes, EcuTypes, Running
  <2>5. QED
    BY <2>2, <2>3, <2>4 DEF ClientInv, Types
<1>5. QED
  BY <1>3, <1>4

(* Answers that make the call fail.                                        *)
LEMMA WrongAnswerKeeps ==
    ASSUME ClientInv, ReceiveNegative \/ ReceiveUnexpected \/ ReceiveStray
    PROVE  ClientInv'
<1>1. pc = "wait" /\ toGw # <<>> /\ toGw' = Tail(toGw) /\ UNCHANGED <<att, ecu>> /\ Fail
  BY DEF ReceiveNegative, ReceiveUnexpected, ReceiveStray, Receive
<1>2. QED
  BY <1>1, FrameTaken, FailKeeps DEF Running

(* The answer to 0x10.                                                     *)
LEMMA SessionKeeps ==
    ASSUME ClientInv, ReceiveSession
    PROVE  ClientInv'
<1>1. /\ pc = "wait" /\ toGw # <<>> /\ toGw' = Tail(toGw) /\ sid' = "0x34" /\ AwaitFlowControl
      /\ UNCHANGED <<att, ecu, payload, offset, bsn, failures>>
  BY DEF ReceiveSession, ReceivePositive, Receive, transfer
<1>2. Agreement'
  BY ReceiveSessionAgrees
<1>3. toGw' \in Seq(Frame)
  BY <1>1, FrameTaken
<1>4. toEcu' \in Seq(Message) /\ ClockTypes' /\ FramesTypes' /\ pc' = "fc"
  BY <1>1, AwaitTyped
<1>5. "0x34" \in Sid
  BY DEF Sid
<1>6. CallTypes'
  BY <1>1, <1>4, <1>5 DEF ClientInv, Types, CallTypes, Running
<1>7. LoopTypes' /\ QueueTypes' /\ EcuTypes'
  BY <1>1, <1>3, <1>4 DEF ClientInv, Types, LoopTypes, QueueTypes, EcuTypes
<1>8. QED
  BY <1>2, <1>4, <1>6, <1>7 DEF ClientInv, Types

(* The answers that move the transfer loop.                                *)
LEMMA DownloadKeeps ==
    ASSUME ClientInv, ReceiveDownload
    PROVE  ClientInv'
<1>1. /\ pc = "wait" /\ toGw # <<>> /\ toGw' = Tail(toGw) /\ NextBlock(payload', 0, 1)
      /\ offset' = 0 /\ bsn' = 1 /\ UNCHANGED <<att, ecu, failures>>
  BY DEF ReceiveDownload, ReceivePositive, Receive
<1>2. Agreement' /\ payload' \in 1 .. CfgPayload
  BY ReceiveDownloadAgrees
<1>3. toGw' \in Seq(Frame)
  BY <1>1, FrameTaken
<1>4. att' \in 1 .. MaxCalls /\ 0 \in 0 .. FirmwareLen /\ 1 \in 1 .. MaxBsn
  BY <1>1, Bounds DEF ClientInv, Types, CallTypes, Running
<1>5. PICK n \in 1 .. CfgPayload : n = payload'
  BY <1>2
<1>6. /\ toEcu' \in Seq(Message) /\ ClockTypes' /\ FramesTypes'
      /\ pc' \in {"wait", "fc"} /\ sid' \in Sid
  BY <1>1, <1>4, <1>5, NextBlockTyped
<1>7. CallTypes'
  BY <1>1, <1>6 DEF ClientInv, Types, CallTypes, Running
<1>8. LoopTypes' /\ QueueTypes' /\ EcuTypes'
  BY <1>1, <1>2, <1>3, <1>4, <1>6 DEF ClientInv, Types, LoopTypes, QueueTypes, EcuTypes
<1>9. QED
  BY <1>2, <1>6, <1>7, <1>8 DEF ClientInv, Types

LEMMA TransferKeeps ==
    ASSUME ClientInv, ReceiveTransfer
    PROVE  ClientInv'
<1>1. pc = "wait" /\ toGw # <<>> /\ toGw' = Tail(toGw) /\ UNCHANGED <<att, ecu>>
  BY DEF ReceiveTransfer, ReceivePositive, Receive
<1>2. toGw' \in Seq(Frame) /\ Fewer(toGw', toGw)
  BY <1>1, FrameTaken
<1>3. CASE Head(toGw).bsn # bsn
  BY <1>1, <1>2, <1>3, FailKeeps DEF ReceiveTransfer, Running
<1>4. CASE Head(toGw).bsn = bsn
  <2>1. NextBlock(payload, offset', bsn') /\ failures' = failures
    BY <1>4 DEF ReceiveTransfer
  <2>2. /\ Agreement'
        /\ payload' = payload /\ offset' \in 0 .. FirmwareLen /\ bsn' \in 1 .. MaxBsn
    BY <1>4, ReceiveTransferAgrees
  <2>3. att' \in 1 .. MaxCalls /\ payload \in 1 .. CfgPayload
    BY <1>1, Bounds DEF ClientInv, Types, CallTypes, LoopTypes, Running
  <2>4. PICK o \in 0 .. FirmwareLen : o = offset'
    BY <2>2
  <2>5. PICK b \in 1 .. MaxBsn : b = bsn'
    BY <2>2
  <2>6. /\ toEcu' \in Seq(Message) /\ ClockTypes' /\ FramesTypes'
        /\ pc' \in {"wait", "fc"} /\ sid' \in Sid
    BY <2>1, <2>3, <2>4, <2>5, NextBlockTyped
  <2>7. CallTypes'
    BY <1>1, <2>1, <2>6 DEF ClientInv, Types, CallTypes, Running
  <2>8. LoopTypes' /\ QueueTypes' /\ EcuTypes'
    BY <1>1, <1>2, <2>2, <2>6 DEF ClientInv, Types, LoopTypes, QueueTypes, EcuTypes
  <2>9. QED
    BY <2>2, <2>6, <2>7, <2>8 DEF ClientInv, Types
<1>5. QED
  BY <1>3, <1>4

LEMMA ExitKeeps ==
    ASSUME ClientInv, ReceiveExit
    PROVE  ClientInv'
<1>1. /\ pc = "wait" /\ toGw # <<>> /\ toGw' = Tail(toGw) /\ pc' = "ok"
      /\ UNCHANGED <<att, ecu, sid, payload, offset, bsn, pending, timer, frames, failures, toEcu>>
  BY DEF ReceiveExit, ReceivePositive, Receive, transfer, clock
<1>2. toGw' \in Seq(Frame)
  BY <1>1, FrameTaken
<1>3. Types'
  BY <1>1, <1>2 DEF ClientInv, Types, CallTypes, LoopTypes, ClockTypes, FramesTypes, QueueTypes,
                    EcuTypes, Running
<1>4. QED
  BY <1>3, ReceiveExitAgrees DEF ClientInv

(* A first frame.                                                          *)
LEMMA FirstKeeps ==
    ASSUME ClientInv, ReceiveFirst
    PROVE  ClientInv'
<1>1. /\ pc = "wait" /\ toGw # <<>> /\ toGw' = Tail(toGw) /\ pc' = "cf" /\ timer' = 0
      /\ frames' = <<Part(Head(toGw))>> /\ toEcu' = Append(toEcu, Request("flow_control", 0, 0, 0))
      /\ Head(toGw).kind = "first"
      /\ UNCHANGED <<att, ecu, sid, payload, offset, bsn, pending, failures>>
  BY DEF ReceiveFirst, Receive, transfer
<1>2. toGw' \in Seq(Frame) /\ Head(toGw) \in Frame
  BY <1>1, FrameTaken, TailFewer DEF ClientInv, Types, QueueTypes
<1>3. Head(toGw).sn = 0 /\ Head(toGw).version \in 0 .. MaxCalls
  BY <1>1, <1>2 DEF Frame, Reply, First, Consecutive
<1>4. 0 \in 0 .. VersionFrames
  BY Bounds
<1>5. PICK part \in VersionPart : part = Part(Head(toGw))
  BY <1>3, <1>4 DEF Part, VersionPart
<1>6. frames' \in Seq(VersionPart) /\ Len(frames') = 1
  <2>1. frames' = <<part>>
    BY <1>1, <1>5
  <2>2. <<part>> \in Seq(VersionPart) /\ Len(<<part>>) = 1
    OBVIOUS
  <2>3. QED
    BY <2>1, <2>2
<1>7. FramesTypes'
  BY <1>6, Bounds DEF FramesTypes
<1>8. "flow_control" \in Sid /\ 0 \in 0 .. MaxBsn /\ 0 \in 0 .. FirmwareLen
  BY Bounds DEF Sid
<1>9. att' \in 1 .. MaxCalls /\ pending' = pending /\ timer' = 0
  <2>1. pc = "wait" /\ att' = att /\ pending' = pending /\ timer' = 0
    BY <1>1
  <2>2. QED
    BY <2>1, Bounds DEF ClientInv, Types, CallTypes, Running
<1>10. Request("flow_control", 0, 0, 0) \in Message
  BY <1>8, <1>9, RequestTyped
<1>11. toEcu' \in Seq(Message)
  BY <1>1, <1>10, AppendMore DEF ClientInv, Types, QueueTypes
<1>12. CallTypes' /\ LoopTypes'
  BY <1>1 DEF ClientInv, Types, CallTypes, LoopTypes, Running
<1>13. ClockTypes'
  BY <1>9, Bounds DEF ClientInv, Types, ClockTypes
<1>14. QueueTypes' /\ EcuTypes'
  BY <1>1, <1>2, <1>11 DEF ClientInv, Types, QueueTypes, EcuTypes
<1>15. QED
  BY <1>7, <1>12, <1>13, <1>14, ReceiveFirstAgrees DEF ClientInv, Types

(* Collecting.                                                             *)
LEMMA CollectOtherKeeps ==
    ASSUME ClientInv, CollectOther
    PROVE  ClientInv'
<1>1. /\ toGw # <<>> /\ toGw' = Tail(toGw) /\ timer' = 0
      /\ UNCHANGED <<pc, att, ecu, sid, payload, offset, bsn, pending, frames, failures, toEcu>>
  BY DEF CollectOther, Collect, transfer
<1>2. toGw' \in Seq(Frame) /\ Fewer(toGw', toGw)
  BY <1>1, FrameTaken
<1>3. Agreement'
  BY <1>1, <1>2, AnswersTaken
<1>4. ClockTypes'
  BY <1>1, Bounds DEF ClientInv, Types, ClockTypes
<1>5. CallTypes' /\ LoopTypes' /\ FramesTypes' /\ QueueTypes' /\ EcuTypes'
  BY <1>1, <1>2 DEF ClientInv, Types, CallTypes, LoopTypes, FramesTypes, QueueTypes, EcuTypes, Running
<1>6. QED
  BY <1>3, <1>4, <1>5 DEF ClientInv, Types

LEMMA CollectConsecutiveKeeps ==
    ASSUME ClientInv, CollectConsecutive
    PROVE  ClientInv'
<1>1. /\ pc = "cf" /\ toGw # <<>> /\ toGw' = Tail(toGw) /\ Collect
      /\ Head(toGw).kind = "consecutive" /\ UNCHANGED <<att, ecu>>
  BY DEF CollectConsecutive, Collect
<1>2. toGw' \in Seq(Frame) /\ Fewer(toGw', toGw)
  BY <1>1, FrameTaken
<1>3. CASE Fail
  BY <1>1, <1>2, <1>3, FailKeeps DEF Running
<1>4. CASE /\ Head(toGw).sn = Len(frames) /\ frames' = Append(frames, Part(Head(toGw)))
           /\ \/ Len(frames) < VersionFrames /\ pc' = pc /\ timer' = 0
              \/ ~(Len(frames) < VersionFrames) /\ pc' = "ok" /\ sid = "0x22" /\ timer' = timer
           /\ UNCHANGED <<sid, payload, offset, bsn, pending, failures, toEcu>>
  <2>1. \/ pc' = "cf" /\ Len(frames) < VersionFrames
        \/ pc' = "ok" /\ sid' = "0x22" /\ ~(Len(frames) < VersionFrames)
    BY <1>1, <1>4
  <2>2. Agreement' /\ FramesTypes'
    BY <1>1, <1>4, <2>1, CollectAgrees
  <2>3. ClockTypes'
    BY <1>4, Bounds DEF ClientInv, Types, ClockTypes
  <2>4. CallTypes' /\ LoopTypes' /\ QueueTypes' /\ EcuTypes'
    BY <1>1, <1>2, <1>4 DEF ClientInv, Types, CallTypes, LoopTypes, QueueTypes, EcuTypes, Running
  <2>5. QED
    BY <2>2, <2>3, <2>4 DEF ClientInv, Types
<1>5. CASE Head(toGw).sn = Len(frames) /\ Len(frames) < VersionFrames
  BY <1>4, <1>5 DEF CollectConsecutive, Collect, transfer
<1>6. CASE Head(toGw).sn = Len(frames) /\ ~(Len(frames) < VersionFrames) /\ sid = "0x22"
  BY <1>4, <1>6 DEF CollectConsecutive, transfer, clock
<1>7. CASE \/ Head(toGw).sn # Len(frames)
           \/ ~(Len(frames) < VersionFrames) /\ sid # "0x22"
  BY <1>3, <1>7 DEF CollectConsecutive
<1>8. QED
  BY <1>5, <1>6, <1>7

(* Waiting.                                                                *)
LEMMA WaitKeeps ==
    ASSUME ClientInv, ReceiveForeign \/ Tick
    PROVE  ClientInv'
<1>1. UNCHANGED <<pc, att, ecu, sid, payload, offset, bsn, pending, frames, failures, toEcu, toGw>>
  BY DEF ReceiveForeign, Tick, transfer
<1>2. toGw \in Seq(Frame)
  BY DEF ClientInv, Types, QueueTypes
<1>3. Fewer(toGw', toGw)
  BY <1>1, <1>2, SameFewer
<1>4. Agreement'
  BY <1>1, <1>3, AnswersTaken
<1>5. ClockTypes'
  BY <1>1, Bounds DEF ClientInv, Types, ClockTypes, ReceiveForeign, Tick
<1>6. CallTypes' /\ LoopTypes' /\ FramesTypes' /\ QueueTypes' /\ EcuTypes'
  BY <1>1 DEF ClientInv, Types, CallTypes, LoopTypes, FramesTypes, QueueTypes, EcuTypes, Running
<1>7. QED
  BY <1>4, <1>5, <1>6 DEF ClientInv, Types

LEMMA TimeoutKeeps ==
    ASSUME ClientInv, ReceiveTimeout \/ FlowControlTimeout
    PROVE  ClientInv'
<1>1. pc \in Running /\ Fail /\ UNCHANGED <<att, toGw, ecu>>
  BY DEF ReceiveTimeout, FlowControlTimeout, Running
<1>2. toGw \in Seq(Frame)
  BY DEF ClientInv, Types, QueueTypes
<1>3. Fewer(toGw', toGw) /\ toGw' \in Seq(Frame)
  BY <1>1, <1>2, SameFewer
<1>4. QED
  BY <1>1, <1>3, FailKeeps

(* What the bus loses.                                                     *)
LEMMA LossKeeps ==
    ASSUME ClientInv, LoseAnswer \/ LoseRequest
    PROVE  ClientInv'
<1>1. UNCHANGED client
  BY DEF LoseAnswer, LoseRequest
<1>2. CASE LoseAnswer
  <2>1. PICK k \in DOMAIN toGw : toGw' = RemoveAt(toGw, k)
    BY <1>2 DEF LoseAnswer
  <2>2. toGw' \in Seq(Frame) /\ Fewer(toGw', toGw)
    BY <2>1, RemoveFewer DEF ClientInv, Types, QueueTypes
  <2>3. UNCHANGED <<pc, sid, att, payload, offset, frames, toEcu, ecu>>
    BY <1>2 DEF LoseAnswer, client, transfer
  <2>4. Agreement'
    BY <2>2, <2>3, AnswersTaken
  <2>5. QueueTypes' /\ EcuTypes'
    BY <2>2, <2>3 DEF ClientInv, Types, QueueTypes, EcuTypes
  <2>6. QED
    BY <1>1, <2>4, <2>5, ClientWaits
<1>3. CASE LoseRequest
  BY <1>1, <1>3, RequestLost, ClientWaits
<1>4. QED
  BY <1>2, <1>3

(* A step of the ECU.                                                      *)
LEMMA EcuKeeps ==
    ASSUME ClientInv, Ecu \/ EcuKeepAlive
    PROVE  ClientInv'
<1>1. UNCHANGED client
  BY DEF Ecu, EcuKeepAlive, EcuSession, EcuRequestDownload, EcuTransferData, EcuTransferExit,
         EcuAnswers, EcuReadVersion, EcuFlowControlled, EcuRefuse
<1>2. Agreement' /\ QueueTypes' /\ EcuTypes'
  BY EcuStepAgrees, EcuReplyAgrees, EcuFlowAgrees, KeepAliveAgrees DEF Ecu
<1>3. QED
  BY <1>1, <1>2, ClientWaits

-----------------------------------------------------------------------------
LEMMA InitClientInv == Init => ClientInv
<1> SUFFICES ASSUME Init PROVE ClientInv
  OBVIOUS
<1>1. /\ toEcu = <<>> /\ toGw = <<>> /\ frames = <<>> /\ pc = "idle" /\ sid = "0x10" /\ att = 0
      /\ failures = 0 /\ payload = CfgPayload /\ offset = 0 /\ bsn = 1 /\ pending = 0 /\ timer = 0
  BY DEF Init
<1>2. PICK mode \in {"app", "boot"} :
        ecu = [mode |-> mode, stored |-> NotStored, given |-> 0, installed |-> 0, owes |-> FALSE]
  BY DEF Init
<1>3. NotStored \in Int /\ NotStored # Corrupt
  BY DEF NotStored, Corrupt
<1>4. EcuTypes
  <2>1. 0 \in 0 .. MaxCalls /\ FALSE \in BOOLEAN
    BY Bounds
  <2>2. QED
    BY <1>2, <1>3, <2>1 DEF EcuTypes
<1>5. CallTypes /\ LoopTypes /\ ClockTypes
  <2>1. "0x10" \in Sid
    BY DEF Sid
  <2>2. CallTypes
    BY <1>1, <2>1, Bounds DEF CallTypes, Running
  <2>3. LoopTypes /\ ClockTypes
    BY <1>1, Bounds DEF LoopTypes, ClockTypes
  <2>4. QED
    BY <2>2, <2>3
<1>6. FramesTypes /\ QueueTypes
  <2>1. <<>> \in Seq(VersionPart) /\ <<>> \in Seq(Message) /\ <<>> \in Seq(Frame) /\ Len(<<>>) = 0
    BY EmptySeq
  <2>2. frames \in Seq(VersionPart) /\ Len(frames) = 0
    BY <1>1, <2>1
  <2>3. FramesTypes
    BY <1>1, <2>2, Bounds DEF FramesTypes
  <2>4. QED
    BY <1>1, <2>1, <2>3 DEF QueueTypes
<1>7. \A i : ~(i \in 1 .. Len(toEcu)) /\ ~(i \in 1 .. Len(toGw))
  BY <1>1
<1>8. Transfers /\ FramesCurrent
  BY <1>2, <1>3, <1>7 DEF Transfers, FramesCurrent
<1>9. InStep /\ FlowAwaited /\ Installed /\ CollectedCurrent
  BY <1>1 DEF InStep, InTransfer, FlowAwaited, Installed, CollectedCurrent, Collecting
<1>10. QED
  BY <1>4, <1>5, <1>6, <1>8, <1>9 DEF ClientInv, Types, Agreement

LEMMA NextClientInv == ClientInv /\ [Next]_vars => ClientInv'
<1> SUFFICES ASSUME ClientInv, [Next]_vars PROVE ClientInv'
  OBVIOUS
<1>1. CASE StartDownload \/ StartReadVersion
  BY <1>1, CallKeeps DEF StartDownload, StartReadVersion
<1>2. CASE Gateway
  BY <1>2, FlowControlKeeps, PendingKeeps, WrongAnswerKeeps, SessionKeeps, DownloadKeeps,
     TransferKeeps, ExitKeeps, FirstKeeps, CollectOtherKeeps, CollectConsecutiveKeeps, WaitKeeps,
     TimeoutKeeps DEF Gateway
<1>3. CASE Ecu
  BY <1>3, EcuKeeps
<1>4. CASE Network
  BY <1>4, TimeoutKeeps, WaitKeeps, EcuKeeps, LossKeeps DEF Network
<1>5. CASE UNCHANGED vars
  <2>1. UNCHANGED <<client, toEcu, toGw, ecu>>
    BY <1>5 DEF vars
  <2>2. UNCHANGED <<pc, sid, att, payload, offset, frames>>
    BY <2>1 DEF client, transfer
  <2>3. Fewer(toGw', toGw)
    BY <2>1, SameFewer DEF ClientInv, Types, QueueTypes
  <2>4. Agreement'
    BY <2>1, <2>2, <2>3, AnswersTaken
  <2>5. QueueTypes' /\ EcuTypes'
    BY <2>1 DEF ClientInv, Types, QueueTypes, EcuTypes
  <2>6. QED
    BY <2>1, <2>4, <2>5, ClientWaits
<1>6. QED
  BY <1>1, <1>2, <1>3, <1>4, <1>5 DEF Next

(* In every state the call at work, its requests and answers on their way, *)
(* what earlier calls left in the queue and the transfer of the ECU agree, *)
(* as ClientInv says (uds_client.cpp).                                     *)
THEOREM ClientAgrees == Spec => []ClientInv
<1>1. QED
  BY InitClientInv, NextClientInv, PTL DEF Spec

(* The types of the client and of the queues: the block number stays in    *)
(* 1..255, the offset within the firmware, nrc78_count within its retries, *)
(* the frames of a version within its length.                              *)
THEOREM ClientTypes == Spec => []TypeOK
<1>1. ClientInv => TypeOK
  <2>1. SUFFICES ASSUME ClientInv PROVE TypeOK
    OBVIOUS
  <2>2. CallTypes /\ LoopTypes /\ ClockTypes /\ FramesTypes /\ QueueTypes
    BY <2>1 DEF ClientInv, Types
  <2>3. \A i \in DOMAIN toGw : toGw[i] \in Frame
    BY <2>2, ElementOfSeq, LenProperties DEF QueueTypes
  <2>4. \A i \in DOMAIN toGw :
          toGw[i].kind \in {"pending", "positive", "negative", "first", "consecutive"}
    BY <2>3 DEF Frame, Reply, First, Consecutive
  <2>5. frames \in Seq((0 .. VersionFrames) \X (0 .. MaxCalls)) /\ Len(frames) <= VersionFrames + 1
    BY <2>2 DEF FramesTypes, VersionPart
  <2>6. toEcu \in Seq(Message)
    BY <2>2 DEF QueueTypes
  <2>7. QED
    BY <2>2, <2>4, <2>5, <2>6 DEF TypeOK, CallTypes, LoopTypes, ClockTypes
<1>2. QED
  BY <1>1, ClientAgrees, PTL

(* The ECU never has a block out of place: a repeated, late or lost answer *)
(* never makes the transfer loop and the ECU's count of bytes differ for   *)
(* a block that is sent.                                                   *)
THEOREM NothingEverMisplaced == Spec => []NothingMisplaced
<1>1. ClientInv => NothingMisplaced
  BY DEF ClientInv, Agreement, Transfers, NothingMisplaced
<1>2. QED
  BY <1>1, ClientAgrees, PTL

(* uds_download_firmware returns ESP_OK only when this very call has       *)
(* installed the whole firmware.                                           *)
THEOREM OkOnlyWhenInstalled == Spec => []OkMeansInstalled
<1>1. ClientInv => OkMeansInstalled
  BY DEF ClientInv, Agreement, Installed, OkMeansInstalled
<1>2. QED
  BY <1>1, ClientAgrees, PTL

(* uds_read_version returns only the complete version of the firmware that *)
(* is installed.                                                           *)
THEOREM ReadsCurrentVersion == Spec => []VersionCurrent
<1>1. ClientInv => VersionCurrent
  <2>1. SUFFICES ASSUME ClientInv, pc = "ok", sid = "0x22"
                 PROVE  frames = [n \in 1 .. VersionFrames + 1 |-> <<n - 1, ecu.installed>>]
    BY DEF VersionCurrent
  <2>2. Len(frames) = VersionFrames + 1 /\ \A n \in 1 .. Len(frames) : frames[n] = <<n - 1, ecu.installed>>
    BY <2>1 DEF ClientInv, Agreement, CollectedCurrent, Collecting
  <2>3. frames \in Seq(VersionPart)
    BY <2>1 DEF ClientInv, Types, FramesTypes
  <2>4. DOMAIN frames = 1 .. VersionFrames + 1 /\ frames = [n \in DOMAIN frames |-> frames[n]]
    BY <2>2, <2>3, LenProperties
  <2>5. QED
    BY <2>2, <2>4
<1>2. QED
  BY <1>1, ClientAgrees, PTL
=============================================================================
