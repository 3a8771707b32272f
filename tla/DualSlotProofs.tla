--------------------------- MODULE DualSlotProofs ---------------------------
(***************************************************************************)
(* Theorems about DualSlot, for every slot, page and chunk size, every set *)
(* of signed images and every number of power losses.                      *)
(***************************************************************************)
EXTENDS DualSlot, TLAPS

(* The flash operations keep a slot a slot.                                *)
LEMMA FlashTypes ==
    ASSUME NEW slot \in Slot, NEW src \in Slot, NEW range
    PROVE  /\ Programmed(slot, src, range) \in Slot
           /\ Blanked(slot, range) \in Slot
           /\ Torn(slot, range) \subseteq Slot
BY ImagesAssumption DEF Programmed, Blanked, Torn, Slot

(* A torn header is a header, or none.                                     *)
LEMMA TornHeaderTypes ==
    ASSUME NEW h \in Header \cup {NoHeader}
    PROVE  TornHeader(h) \subseteq Header \cup {NoHeader}
BY ImagesAssumption DEF TornHeader, Header

(* The variables keep their types in every reachable state.                *)
THEOREM TypeCorrect == Spec => []TypeOK
<1>1. Init => TypeOK
  BY SizesAssumption, ImagesAssumption, PackagesAssumption
     DEF Init, TypeOK, UpdateState, Place, Slot, Cells, Lapse
<1>2. TypeOK /\ [Next]_vars => TypeOK'
  <2> SUFFICES ASSUME TypeOK, [Next]_vars PROVE TypeOK'
    OBVIOUS
  <2> USE DEF TypeOK, flash, budget, Lapse
  <2>1. CASE Boot
    BY <2>1 DEF Boot, BootResume, BootSlotA, UpdateState, Place, Copying
  <2>2. CASE Reset
    BY <2>2 DEF Reset, Place
  <2>3. CASE StartSession
    BY <2>3 DEF StartSession, Place, Staging
  <2>4. CASE EraseSlotB
    <3>1. CASE EraseMetaB
      BY <3>1, SizesAssumption DEF EraseMetaB, Place, Staging
    <3>2. CASE ErasePageB
      BY <3>2, SizesAssumption, FlashTypes DEF ErasePageB
    <3>3. CASE EraseBDone
      BY <3>3, SizesAssumption DEF EraseBDone, Place, Staging
    <3> QED BY <2>4, <3>1, <3>2, <3>3 DEF EraseSlotB
  <2>5. CASE Download
    <3>0. rx.data \in Slot /\ rx.hdr \in Header
      BY PackagesAssumption
    <3>1. CASE ReceiveBlock
      BY <3>0, <3>1, SizesAssumption, FlashTypes DEF ReceiveBlock
    <3>2. CASE ReceiveDone
      BY <3>2 DEF ReceiveDone, Place, Staging
    <3>3. CASE TransferExit
      BY <3>3 DEF TransferExit, Place, Staging
    <3>4. CASE CommitMetaB
      BY <3>0, <3>4 DEF CommitMetaB, Place, Copying
    <3> QED BY <2>5, <3>1, <3>2, <3>3, <3>4 DEF Download
  <2>6. CASE CopyBtoA
    <3>1. CASE CopyReject
      BY <3>1 DEF CopyReject, Place
    <3>2. CASE CopyPending
      BY <3>2, SizesAssumption DEF CopyPending, ReadHeader, Place, Copying, UpdateState
    <3>3. CASE CopyInProgress
      BY <3>3 DEF CopyInProgress, Place, Copying, UpdateState
    <3>4. CASE EraseMetaA
      BY <3>4, SizesAssumption DEF EraseMetaA, Place, Copying
    <3>5. CASE ErasePageA
      BY <3>5, SizesAssumption, FlashTypes DEF ErasePageA, EraseEnd
    <3>6. CASE EraseADone
      BY <3>6 DEF EraseADone, Place, Copying
    <3>7. CASE WriteMetaA
      BY <3>7, SizesAssumption, TornHeaderTypes DEF WriteMetaA, Place, Copying
    <3>8. CASE CopyChunk
      <4>1. slotA' \in Slot
        BY <3>8, FlashTypes DEF CopyChunk, WriteChunk
      <4>2. faults' \in 0 .. MaxFaults
        BY <3>8, PackagesAssumption DEF CopyChunk, WriteChunk
      <4>3. off' \in 0 .. SlotSize + PageSize - 1 /\ pc' \in Place
        BY <3>8, SizesAssumption DEF CopyChunk, Place
      <4> QED BY <3>8, <4>1, <4>2, <4>3 DEF CopyChunk, CopyFailed
    <3>9. CASE CopyComplete
      BY <3>9 DEF CopyComplete, Place, UpdateState
    <3> QED BY <2>6, <3>1, <3>2, <3>3, <3>4, <3>5, <3>6, <3>7, <3>8, <3>9 DEF CopyBtoA
  <2>7. CASE PowerLoss
    <3>1. slotA' \in Slot /\ slotB' \in Slot
      BY <2>7, FlashTypes DEF PowerLoss
    <3>2. rx.hdr \in Header
      BY PackagesAssumption
    <3>3. metaA' \in Header \cup {NoHeader} /\ metaB' \in Header \cup {NoHeader}
      BY <2>7, <3>2, TornHeaderTypes DEF PowerLoss
    <3>4. dr2' \in UpdateState /\ pc' \in Place /\ crashes' \in 0 .. MaxCrashes
      BY <2>7, PackagesAssumption DEF PowerLoss, UpdateState, Place
    <3>5. off' \in 0 .. SlotSize + PageSize - 1 /\ fw' \in 0 .. MaxFirmwareSize
      BY <2>7, SizesAssumption DEF PowerLoss
    <3> QED BY <2>7, <3>1, <3>3, <3>4, <3>5 DEF PowerLoss
  <2>8. CASE UNCHANGED vars
    BY <2>8 DEF vars
  <2> QED BY <2>1, <2>2, <2>3, <2>4, <2>5, <2>6, <2>7, <2>8 DEF Next
<1> QED BY <1>1, <1>2, PTL DEF Spec

-----------------------------------------------------------------------------
(* What a slot verifies as depends only on the cells the header spans.     *)
LEMMA VerifySameCells ==
    ASSUME NEW slot, NEW other, NEW h,
           ReadHeader(h) => \A c \in 0 .. h.size - 1 : slot[c] = other[c]
    PROVE  VerifySlot(slot, h) <=> VerifySlot(other, h)
<1>1. CASE ReadHeader(h)
  <2>1. FirstCells(slot, h.size) = FirstCells(other, h.size)
    BY <1>1 DEF FirstCells
  <2> QED BY <2>1 DEF VerifySlot
<1>2. CASE ~ReadHeader(h)
  BY <1>2 DEF VerifySlot
<1> QED BY <1>1, <1>2

(* The part of the invariant that survives faults is inductive.            *)
LEMMA CopiedSoFarStep ==
    ASSUME TypeOK, CopiedSoFar, [Next]_vars
    PROVE  CopiedSoFar'
<1> USE DEF CopiedSoFar, Copying, Staging, flash, budget
<1>1. CASE Boot
  BY <1>1 DEF Boot, BootResume, BootSlotA
<1>2. CASE Reset
  BY <1>2 DEF Reset
<1>3. CASE StartSession
  BY <1>3 DEF StartSession
<1>4. CASE EraseSlotB
  BY <1>4 DEF EraseSlotB, EraseMetaB, ErasePageB, EraseBDone
<1>5. CASE Download
  BY <1>5 DEF Download, ReceiveBlock, ReceiveDone, TransferExit, CommitMetaB
<1>6. CASE CopyBtoA
  <2>1. CASE CopyReject \/ CopyPending \/ CopyInProgress
    BY <2>1 DEF CopyReject, CopyPending, CopyInProgress
  <2>2. CASE EraseMetaA \/ ErasePageA \/ EraseADone
    BY <2>2 DEF EraseMetaA, ErasePageA, EraseADone
  <2>3. CASE WriteMetaA
    BY <2>3 DEF WriteMetaA, ReadHeader, Cells
  <2>4. CASE CopyChunk
    <3>1. ASSUME NEW c \in Cells, pc' = "copyChunk", c < off', c < fw
          PROVE  slotA'[c] = slotB[c]
      <4>1. off' = off + ChunkSize /\ \A d \in ChunkAt(off, fw) : slotA'[d] = slotB[d]
        BY <2>4, <3>1 DEF CopyChunk
      <4>2. CASE c \in ChunkAt(off, fw)
        BY <4>1, <4>2
      <4>3. CASE c \notin ChunkAt(off, fw)
        <5>1. c < off
          BY <3>1, <4>1, <4>3, SizesAssumption DEF ChunkAt, Cells, TypeOK
        <5>2. slotA'[c] = slotA[c]
          BY <2>4, <4>3 DEF CopyChunk, WriteChunk, Programmed, Torn
        <5> QED BY <2>4, <3>1, <5>1, <5>2 DEF CopyChunk
      <4> QED BY <4>2, <4>3
    <3> QED BY <2>4, <3>1 DEF CopyChunk
  <2>5. CASE CopyComplete
    BY <2>5 DEF CopyComplete
  <2> QED BY <1>6, <2>1, <2>2, <2>3, <2>4, <2>5 DEF CopyBtoA
<1>7. CASE PowerLoss
  BY <1>7 DEF PowerLoss
<1>8. CASE UNCHANGED vars
  BY <1>8 DEF vars
<1> QED BY <1>1, <1>2, <1>3, <1>4, <1>5, <1>6, <1>7, <1>8 DEF Next

(* A chunk that is written as it should be compares equal to its source.   *)
LEMMA GoodWriteComparesEqual ==
    ASSUME \A c \in ChunkAt(off, fw) : slotA[c] = Erased,
           slotA' = Programmed(slotA, slotB, ChunkAt(off, fw))
    PROVE  \A c \in ChunkAt(off, fw) : slotA'[c] = slotB[c]
BY DEF Programmed, ChunkAt

(* The copy finds its target erased, whatever went wrong before: every     *)
(* copy erases all that it writes.                                         *)
LEMMA TargetErasedStep ==
    ASSUME TypeOK, TargetErased, [Next]_vars
    PROVE  TargetErased'
<1> USE DEF TargetErased, flash, budget
<1>1. CASE Boot \/ Reset \/ StartSession
  BY <1>1 DEF Boot, BootResume, BootSlotA, Reset, StartSession
<1>2. CASE EraseSlotB
  BY <1>2 DEF EraseSlotB, EraseMetaB, ErasePageB, EraseBDone
<1>3. CASE Download
  BY <1>3 DEF Download, ReceiveBlock, ReceiveDone, TransferExit, CommitMetaB
<1>4. CASE CopyBtoA
  <2>1. CASE CopyReject \/ CopyPending \/ CopyInProgress \/ CopyComplete
    BY <2>1 DEF CopyReject, CopyPending, CopyInProgress, CopyComplete
  <2>2. CASE EraseMetaA
    BY <2>2 DEF EraseMetaA, Cells
  <2>3. CASE ErasePageA
    <3>1. \A c \in Cells : c < off' => slotA'[c] = Erased
      BY <2>3 DEF ErasePageA, Blanked, PageAt, Cells, TypeOK
    <3> QED BY <2>3, <3>1 DEF ErasePageA
  <2>4. CASE EraseADone
    <3>1. \A c \in Cells : c < fw => slotA[c] = Erased
      BY <2>4, SizesAssumption DEF EraseADone, EraseEnd, Cells, TypeOK
    <3> QED BY <2>4, <3>1 DEF EraseADone
  <2>5. CASE WriteMetaA
    BY <2>5 DEF WriteMetaA
  <2>6. CASE CopyChunk
    <3>1. \A c \in Cells \ ChunkAt(off, fw) : slotA'[c] = slotA[c]
      BY <2>6 DEF CopyChunk, WriteChunk, Programmed, Torn
    <3>2. pc' = "copyChunk" => \A c \in Cells : off' <= c /\ c < fw => slotA'[c] = Erased
      <4>1. SUFFICES ASSUME pc' = "copyChunk", NEW c \in Cells, off' <= c, c < fw
                     PROVE  slotA'[c] = Erased
        OBVIOUS
      <4>2. off' = off + ChunkSize
        BY <2>6, <4>1 DEF CopyChunk
      <4>3. c \notin ChunkAt(off, fw) /\ off <= c
        BY <4>1, <4>2, SizesAssumption DEF ChunkAt, Cells, TypeOK
      <4> QED BY <2>6, <3>1, <4>1, <4>3 DEF CopyChunk
    <3>3. lapse' = "failed" /\ lapse # "failed" => faults' > 0
      <4>1. SUFFICES ASSUME lapse' = "failed", lapse # "failed" PROVE faults' > 0
        OBVIOUS
      <4>2. ~ \A c \in ChunkAt(off, fw) : slotA'[c] = slotB[c]
        BY <2>6, <4>1 DEF CopyChunk, CopyFailed
      <4>3. \A c \in ChunkAt(off, fw) : slotA[c] = Erased
        BY <2>6 DEF CopyChunk, ChunkAt
      <4>4. slotA' # Programmed(slotA, slotB, ChunkAt(off, fw))
        BY <4>2, <4>3, GoodWriteComparesEqual
      <4>5. faults' = faults + 1
        BY <2>6, <4>4 DEF CopyChunk, WriteChunk
      <4> QED BY <4>5 DEF TypeOK
    <3>4. lapse' = lapse \/ lapse' = "failed"
      BY <2>6 DEF CopyChunk, CopyFailed
    <3>5. faults \in Nat /\ faults' \in Nat /\ faults' >= faults
      BY <2>6, PackagesAssumption DEF CopyChunk, WriteChunk, TypeOK
    <3>6. lapse' \in {"failed", "abandoned"} => faults' > 0
      BY <3>3, <3>4, <3>5
    <3> QED BY <2>6, <3>2, <3>6 DEF CopyChunk
  <2> QED BY <1>4, <2>1, <2>2, <2>3, <2>4, <2>5, <2>6 DEF CopyBtoA
<1>5. CASE PowerLoss
  BY <1>5 DEF PowerLoss
<1>6. CASE UNCHANGED vars
  BY <1>6 DEF vars
<1> QED BY <1>1, <1>2, <1>3, <1>4, <1>5, <1>6 DEF Next

(* An abandoned copy is over with the next one of a verified slot B, or    *)
(* when DR2 forgets it.                                                    *)
LEMMA AbandonedEnds ==
    ASSUME [Next]_vars, lapse = "abandoned", lapse' # "abandoned"
    PROVE  \/ CopyPending /\ VerifySlot(slotB, metaB)
           \/ PowerLoss /\ dr2' = "NONE" /\ lapse' = "drained"
<1> USE DEF vars, flash, budget
<1>1. CASE Boot \/ Reset \/ StartSession
  BY <1>1 DEF Boot, BootResume, BootSlotA, Reset, StartSession
<1>2. CASE EraseSlotB \/ Download
  BY <1>2 DEF EraseSlotB, EraseMetaB, ErasePageB, EraseBDone, Download, ReceiveBlock, ReceiveDone,
              TransferExit, CommitMetaB
<1>3. CASE CopyBtoA
  BY <1>3 DEF CopyBtoA, CopyReject, CopyPending, CopyInProgress, EraseMetaA, ErasePageA, EraseADone,
              WriteMetaA, CopyChunk, CopyFailed, CopyComplete
<1>4. CASE PowerLoss
  BY <1>4 DEF PowerLoss
<1>5. CASE UNCHANGED vars
  BY <1>5
<1> QED BY <1>1, <1>2, <1>3, <1>4, <1>5 DEF Next

(* While nothing disturbs it, a copy has a verified source, and outside a  *)
(* copy slot A verifies. Another session may begin after a failed copy;    *)
(* what follows is sound again from the next copy of a verified slot B on. *)
LEMMA UndisturbedStep ==
    ASSUME TypeOK, UpdateInv, [Next]_vars, Undisturbed'
    PROVE  (StateAgrees /\ SourceVerified /\ TargetVerified)'
<1> USE DEF StateAgrees, SourceVerified, TargetVerified, Unfinished, Copying, Staging, flash, budget
<1>1. CASE ~Undisturbed
  <2>1. lapse = "abandoned" /\ lapse' # "abandoned"
    BY <1>1 DEF Undisturbed
  <2>2. CASE CopyPending /\ VerifySlot(slotB, metaB)
    BY <2>2 DEF CopyPending
  <2>3. CASE PowerLoss /\ dr2' = "NONE" /\ lapse' = "drained"
    BY <2>3 DEF PowerLoss
  <2> QED BY <2>1, <2>2, <2>3, AbandonedEnds
<1>2. CASE Undisturbed
  <2>1. CopiedSoFar /\ StateAgrees /\ SourceVerified /\ TargetVerified
    BY <1>2 DEF UpdateInv
  <2> USE <2>1
  <2>2. CASE Boot
    BY <1>2, <2>2 DEF Boot, BootResume, BootSlotA, TypeOK, UpdateState, Undisturbed,
                      ResumesUnfinished
  <2>3. CASE Reset
    BY <2>3 DEF Reset
  <2>4. CASE StartSession
    <3>1. lapse # "failed"
      BY <2>4 DEF StartSession, Undisturbed
    <3> QED BY <2>4, <3>1 DEF StartSession
  <2>5. CASE EraseSlotB
    BY <2>5 DEF EraseSlotB, EraseMetaB, ErasePageB, EraseBDone
  <2>6. CASE Download
    BY <2>6 DEF Download, ReceiveBlock, ReceiveDone, TransferExit, CommitMetaB
  <2>7. CASE CopyBtoA
    <3>1. CASE CopyReject
      BY <2>7, <3>1 DEF CopyReject, VerifySlot
    <3>2. CASE CopyPending \/ CopyInProgress \/ EraseMetaA \/ ErasePageA \/ EraseADone \/ WriteMetaA
      BY <3>2 DEF CopyPending, CopyInProgress, EraseMetaA, ErasePageA, EraseADone, WriteMetaA
    <3>3. CASE CopyChunk
      <4>1. lapse' # "abandoned" /\ dr2' = dr2 /\ dr2 = "COPY_IN_PROGRESS"
        BY <3>3 DEF CopyChunk, Undisturbed
      <4>0. lapse = "none"
        BY <3>3 DEF CopyChunk
      <4>2. UNCHANGED <<slotB, metaB>> /\ pc' \in {"idle", "copyChunk"}
        BY <3>3 DEF CopyChunk
      <4>3. IF pc' = "idle" THEN lapse' = "failed" ELSE lapse' = "none"
        BY <3>3, <4>0 DEF CopyChunk, CopyFailed
      <4> QED BY <4>1, <4>2, <4>3
    <3>4. CASE CopyComplete
      <4>1. metaA = metaB /\ fw = metaB.size /\ off >= fw
        BY <1>2, <3>4 DEF CopyComplete, CopiedSoFar, Undisturbed
      <4>2. \A c \in Cells : c < metaA.size => slotA[c] = slotB[c]
        BY <3>4, <4>1 DEF CopyComplete, CopiedSoFar, Cells, TypeOK
      <4>3. VerifySlot(slotB, metaA)
        BY <3>4, <4>1 DEF CopyComplete
      <4>4. ReadHeader(metaA) => \A c \in 0 .. metaA.size - 1 : slotA[c] = slotB[c]
        BY <4>2, SizesAssumption DEF ReadHeader, Cells
      <4>5. VerifySlot(slotA, metaA)
        BY <4>3, <4>4, VerifySameCells
      <4> QED BY <3>4, <4>5 DEF CopyComplete
    <3> QED BY <2>7, <3>1, <3>2, <3>3, <3>4 DEF CopyBtoA
  <2>8. CASE PowerLoss
    <3>1. /\ pc' = "boot"
          /\ \/ dr2' = dr2 /\ lapse' = lapse
             \/ dr2' = "NONE" /\ (dr2 \in Unfinished => lapse' = "drained")
          /\ lapse' \in {lapse, "drained"}
      BY <2>8 DEF PowerLoss
    <3>2. ASSUME dr2 \in Unfinished
          PROVE  slotB' = slotB /\ metaB' = metaB
      <4>1. pc \notin Staging
        BY <3>2
      <4>2. slotB' \in Torn(slotB, {}) /\ metaB' = metaB
        BY <2>8, <4>1 DEF PowerLoss
      <4> QED BY <4>2 DEF Torn, Slot, TypeOK
    <3>3. ASSUME dr2 \in {"NONE", "COPY_COMPLETE"}
          PROVE  slotA' = slotA /\ metaA' = metaA
      <4>1. pc \notin {"eraseMetaA", "eraseA", "writeMetaA", "copyChunk"}
        BY <3>3
      <4>2. slotA' \in Torn(slotA, {}) /\ metaA' = metaA
        BY <2>8, <4>1 DEF PowerLoss
      <4> QED BY <4>2 DEF Torn, Slot, TypeOK
    <3>4. CASE dr2 \in Unfinished
      BY <3>1, <3>2, <3>4
    <3>5. CASE dr2 \in {"NONE", "COPY_COMPLETE"}
      BY <3>1, <3>3, <3>5
    <3> QED BY <3>4, <3>5 DEF TypeOK, UpdateState
  <2>9. CASE UNCHANGED vars
    BY <2>9 DEF vars
  <2> QED BY <2>2, <2>3, <2>4, <2>5, <2>6, <2>7, <2>8, <2>9 DEF Next
<1> QED BY <1>1, <1>2

(* The invariant behind the theorems below holds in every reachable state. *)
THEOREM UpdateInvariant == Spec => []UpdateInv
<1>1. Init => UpdateInv
  BY DEF Init, UpdateInv, CopiedSoFar, StateAgrees, SourceVerified, TargetVerified, TargetErased,
         Unfinished, Copying, Staging
<1>2. TypeOK /\ UpdateInv /\ [Next]_vars => UpdateInv'
  BY CopiedSoFarStep, TargetErasedStep, UndisturbedStep DEF UpdateInv
<1> QED BY <1>1, <1>2, TypeCorrect, PTL DEF Spec

(* If the boot restarts every unfinished copy, as the comments of          *)
(* dual_slot_manager.c say, then there is always a whole signed image and  *)
(* DR2 tells the boot where it is: after any number of power losses and    *)
(* bad chunk writes, unless DR2 is lost or a failed copy is abandoned.     *)
THEOREM Recoverable ==
    ASSUME ResumesUnfinished PROVE Spec => []AlwaysRecoverable
<1>1. TypeOK /\ UpdateInv => AlwaysRecoverable
  BY DEF TypeOK, UpdateState, Unfinished, UpdateInv, Undisturbed, SourceVerified,
         TargetVerified, AlwaysRecoverable, ResumesUnfinished
<1> QED BY <1>1, TypeCorrect, UpdateInvariant, PTL

(* With such a boot, and if metadata writes succeed, COPY_COMPLETE means   *)
(* that slot A verifies, after bad chunk writes and without DR2 too; the   *)
(* exception is a session that abandons a failed copy.                     *)
THEOREM SafeToBoot ==
    ASSUME ResumesUnfinished, ~MetaWriteFails PROVE Spec => []CompleteIsSafeToBoot
<1>1. UpdateInv => CompleteIsSafeToBoot
  BY DEF UpdateInv, Undisturbed, TargetVerified, CompleteIsSafeToBoot, SlotStatus, VerifySlot
<1> QED BY <1>1, UpdateInvariant, PTL

(* No bad write is copied over: COPY_COMPLETE is set only when slot A is   *)
(* equal to slot B, whatever chunk writes went wrong before.               *)
THEOREM FullCopy == Spec => CompleteOnlyAfterFullCopy
<1>1. ASSUME TypeOK, UpdateInv, [Next]_vars, dr2' = "COPY_COMPLETE", dr2 # "COPY_COMPLETE"
      PROVE  /\ ~MetaWriteFails => metaA = metaB
             /\ \A c \in Cells : c < metaB.size => slotA[c] = slotB[c]
  <2>1. CopyComplete
    BY <1>1 DEF Next, vars, flash, budget, Boot, BootResume, BootSlotA, Reset, StartSession,
           EraseSlotB, EraseMetaB, ErasePageB, EraseBDone, Download, ReceiveBlock, ReceiveDone,
           TransferExit, CommitMetaB, CopyBtoA, CopyReject, CopyPending, CopyInProgress,
           EraseMetaA, ErasePageA, EraseADone, WriteMetaA, CopyChunk, PowerLoss
  <2> QED BY <1>1, <2>1 DEF CopyComplete, UpdateInv, CopiedSoFar, Copying, Cells, TypeOK
<1>2. TypeOK /\ UpdateInv /\ [Next]_vars =>
        [dr2' = "COPY_COMPLETE" /\ dr2 # "COPY_COMPLETE" =>
           /\ ~MetaWriteFails => metaA = metaB
           /\ \A c \in Cells : c < metaB.size => slotA[c] = slotB[c]]_vars
  BY <1>1
<1> QED BY <1>2, TypeCorrect, UpdateInvariant, PTL DEF Spec, CompleteOnlyAfterFullCopy

-----------------------------------------------------------------------------
(* A slot that verifies holds, from its first cell on, a signed image.     *)
LEMMA VerifiedIsSigned ==
    ASSUME NEW slot \in Slot, NEW h \in Header \cup {NoHeader}, VerifySlot(slot, h)
    PROVE  /\ h.digest \in Images /\ h.digest # NoImage
           /\ \A c \in DOMAIN h.digest : slot[c] = h.digest[c]
<1>1. h \in Header /\ h.size \in 1 .. MaxFirmwareSize /\ h.digest = FirstCells(slot, h.size)
  BY DEF VerifySlot, ReadHeader
<1>2. \A c \in 0 .. h.size - 1 : slot[c] \in Byte
  BY <1>1, SizesAssumption DEF Slot, Cells
<1>3. FirstCells(slot, h.size) \in [0 .. h.size - 1 -> Byte]
  BY <1>2 DEF FirstCells
<1>4. h.digest \in Content
  BY <1>1, <1>3 DEF Content
<1>5. h.digest \in Images
  BY <1>1, <1>4, ImagesAssumption DEF VerifySlot, Header
<1>6. \A c \in DOMAIN h.digest : slot[c] = h.digest[c]
  BY <1>1 DEF FirstCells
<1> QED BY <1>4, <1>5, <1>6, ImagesAssumption

(* Only signed images run, after any power losses and bad writes.          *)
THEOREM SignedRuns == Spec => []OnlySignedRuns
<1> DEFINE AppVerified == pc = "app" => VerifySlot(slotA, metaA)
<1>1. Init => AppVerified
  BY DEF Init
<1>2. AppVerified /\ [Next]_vars => AppVerified'
  BY DEF Next, vars, flash, budget, Boot, BootResume, BootSlotA, IsSlotABootable, Reset,
         StartSession, EraseSlotB, EraseMetaB, ErasePageB, EraseBDone, Download, ReceiveBlock,
         ReceiveDone, TransferExit, CommitMetaB, CopyBtoA, CopyReject, CopyPending, CopyInProgress,
         EraseMetaA, ErasePageA, EraseADone, WriteMetaA, CopyChunk, CopyComplete, PowerLoss
<1>3. TypeOK /\ AppVerified => OnlySignedRuns
  <2> SUFFICES ASSUME TypeOK, VerifySlot(slotA, metaA)
               PROVE  \E i \in Images : \A c \in DOMAIN i : slotA[c] = i[c]
    BY DEF OnlySignedRuns
  <2>1. metaA.digest \in Images /\ \A c \in DOMAIN metaA.digest : slotA[c] = metaA.digest[c]
    BY VerifiedIsSigned DEF TypeOK
  <2> QED BY <2>1
<1> QED BY <1>1, <1>2, <1>3, TypeCorrect, PTL DEF Spec

(* What is waived is good again when a copy of a verified slot B is        *)
(* pending, and not before.                                                *)
LEMMA WaiverEnds ==
    ASSUME TypeOK, [Next]_vars, UpdateInv,
           lapse \in {"drained", "abandoned"}, lapse' \notin {"drained", "abandoned"}
    PROVE  CopyPending /\ VerifySlot(slotB, metaB)
<1> USE DEF vars, flash, budget
<1>1. CASE Boot \/ Reset \/ StartSession
  BY <1>1 DEF Boot, BootResume, BootSlotA, Reset, StartSession
<1>2. CASE EraseSlotB \/ Download
  BY <1>2 DEF EraseSlotB, EraseMetaB, ErasePageB, EraseBDone, Download, ReceiveBlock, ReceiveDone,
              TransferExit, CommitMetaB
<1>3. CASE CopyBtoA
  BY <1>3 DEF CopyBtoA, CopyReject, CopyPending, CopyInProgress, EraseMetaA, ErasePageA, EraseADone,
              WriteMetaA, CopyChunk, CopyFailed, CopyComplete
<1>4. CASE PowerLoss
  BY <1>4 DEF PowerLoss
<1>5. CASE UNCHANGED vars
  BY <1>5
<1> QED BY <1>1, <1>2, <1>3, <1>4, <1>5 DEF Next

(* Every step of the slot manager is a step of the atomic update, or one   *)
(* the vehicle does not notice.                                            *)
LEMMA UpdateStepSimulation ==
    ASSUME ResumesUnfinished, ~MetaWriteFails, TypeOK, UpdateInv, [Next]_vars,
           lapse \notin {"drained", "abandoned"}, lapse' \notin {"drained", "abandoned"}
    PROVE  [Update!Promised]_(Update!vars)
<1> DEFINE runnable == VerifiedImage(slotA, metaA)
           offered == VerifiedImage(slotB, metaB)
<1>1. CopiedSoFar /\ StateAgrees /\ SourceVerified /\ TargetVerified /\ TargetErased
  BY DEF UpdateInv, Undisturbed
<1>0. ~(lapse \in {"drained", "abandoned"}) /\ ~(lapse' \in {"drained", "abandoned"})
  OBVIOUS
<1>2. ~VerifySlot(slotB, NoHeader) /\ ~VerifySlot(slotB', NoHeader) /\ ~VerifySlot(slotA', NoHeader)
  BY DEF VerifySlot, ReadHeader
<1>3. VerifySlot(slotA, metaA) => runnable \in Images /\ runnable # NoImage
  BY VerifiedIsSigned DEF TypeOK, VerifiedImage
<1>4. VerifySlot(slotB, metaB) => offered = metaB.digest /\ offered \in Images /\ offered # NoImage
  BY VerifiedIsSigned DEF TypeOK, VerifiedImage
<1> DEFINE Same == UNCHANGED <<slotA, metaA, slotB, metaB>>
<1> USE DEF flash, budget, Unfinished, Copying, Staging
<1> USE <1>0
<1>5. CASE Same
  BY <1>5 DEF Update!vars, VerifiedImage
<1>6. ASSUME UNCHANGED <<slotB, metaB>>, offered # NoImage, runnable' \in {NoImage, offered}
      PROVE  Update!Promised
  <2>1. offered' = offered
    BY <1>6 DEF VerifiedImage
  <2>2. CASE runnable' = NoImage
    BY <1>6, <2>1, <2>2 DEF Update!Promised, Update!Remove
  <2>3. CASE runnable' = offered
    BY <1>6, <2>1, <2>3 DEF Update!Promised, Update!Install
  <2> QED BY <1>6, <2>2, <2>3
<1>7. ASSUME UNCHANGED <<slotA, metaA>>, metaB = NoHeader, metaB' \in TornHeader(rx.hdr),
             VerifySlot(slotB, rx.hdr), slotB' = slotB
      PROVE  [Update!Promised]_(Update!vars)
  <2>1. runnable' = runnable /\ offered = NoImage
    BY <1>2, <1>7 DEF VerifiedImage
  <2>2. rx.hdr \in Header /\ rx.hdr # NoHeader
    BY PackagesAssumption, ImagesAssumption DEF TypeOK
  <2>3. metaB' \in Header \cup {NoHeader}
    BY <1>7, <2>2, TornHeaderTypes
  <2>4. slotB' \in Slot
    BY <1>7 DEF TypeOK
  <2>5. CASE VerifySlot(slotB', metaB')
    <3>1. offered' \in Images
      BY <2>3, <2>4, <2>5, VerifiedIsSigned DEF VerifiedImage
    <3> QED BY <2>1, <3>1 DEF Update!Promised, Update!Offer
  <2>6. CASE ~VerifySlot(slotB', metaB')
    BY <2>1, <2>6 DEF VerifiedImage, Update!vars
  <2> QED BY <2>5, <2>6
<1>8. ASSUME UNCHANGED <<slotA, metaA, slotB>>, metaB' \in TornHeader(metaB),
             VerifySlot(slotA, metaA)
      PROVE  [Update!Promised]_(Update!vars)
  <2>1. runnable' = runnable /\ runnable # NoImage
    BY <1>3, <1>8 DEF VerifiedImage
  <2>2. offered' \in {NoImage, offered}
    <3>1. CASE metaB' \in {NoHeader, metaB}
      BY <1>2, <1>8, <3>1 DEF VerifiedImage
    <3>2. CASE metaB' \notin {NoHeader, metaB}
      <4>1. metaB \in Header /\ metaB' \in Header /\ metaB'.sig = NoImage
        BY <1>8, <3>2 DEF TornHeader, TypeOK, Header
      <4>2. ~VerifySlot(slotB', metaB')
        <5>1. SUFFICES ASSUME VerifySlot(slotB', metaB') PROVE FALSE
          OBVIOUS
        <5>2. slotB' \in Slot
          BY <1>8 DEF TypeOK
        <5>3. metaB'.digest # NoImage
          BY <4>1, <5>1, <5>2, VerifiedIsSigned
        <5> QED BY <4>1, <5>1, <5>3 DEF VerifySlot
      <4> QED BY <4>2 DEF VerifiedImage
    <3> QED BY <3>1, <3>2
  <2> QED BY <2>1, <2>2 DEF Update!Promised, Update!Discard, Update!vars
<1>9. CASE metaB = NoHeader /\ metaB' = NoHeader /\ UNCHANGED <<slotA, metaA>>
  BY <1>2, <1>9 DEF VerifiedImage, Update!vars
<1>10. CASE Boot \/ Reset \/ StartSession
  BY <1>5, <1>10 DEF Boot, BootResume, BootSlotA, Reset, StartSession
<1>11. CASE EraseSlotB
  <2>1. CASE EraseMetaB
    <3>1. metaB' \in TornHeader(metaB) /\ VerifySlot(slotA, metaA)
      BY <1>1, <2>1 DEF EraseMetaB, TornHeader, StateAgrees, TargetVerified, TypeOK, UpdateState
    <3> QED BY <1>8, <2>1, <3>1 DEF EraseMetaB
  <2>2. CASE ErasePageB
    BY <1>1, <1>9, <2>2 DEF ErasePageB, CopiedSoFar
  <2>3. CASE EraseBDone
    BY <1>5, <2>3 DEF EraseBDone
  <2> QED BY <1>11, <2>1, <2>2, <2>3 DEF EraseSlotB
<1>12. CASE Download
  <2>1. CASE ReceiveBlock
    BY <1>1, <1>9, <2>1 DEF ReceiveBlock, CopiedSoFar
  <2>2. CASE ReceiveDone \/ TransferExit
    BY <1>5, <2>2 DEF ReceiveDone, TransferExit
  <2>3. CASE CommitMetaB
    <3>1. metaB = NoHeader /\ VerifySlot(slotB, rx.hdr) /\ metaB' \in TornHeader(rx.hdr)
      BY <1>1, <2>3 DEF CommitMetaB, CopiedSoFar, SourceVerified, TornHeader
    <3> QED BY <1>7, <2>3, <3>1 DEF CommitMetaB
  <2> QED BY <1>12, <2>1, <2>2, <2>3 DEF Download
<1>13. CASE CopyBtoA
  <2>1. CASE CopyReject \/ CopyPending \/ CopyInProgress \/ EraseADone \/ CopyComplete
    BY <1>5, <2>1 DEF CopyReject, CopyPending, CopyInProgress, EraseADone, CopyComplete
  <2>2. CASE EraseMetaA
    <3>1. offered # NoImage
      BY <1>1, <1>4, <2>2 DEF EraseMetaA, SourceVerified, StateAgrees
    <3>2. runnable' = NoImage
      BY <1>2, <2>2 DEF EraseMetaA, VerifiedImage
    <3> QED BY <1>6, <2>2, <3>1, <3>2 DEF EraseMetaA
  <2>3. CASE ErasePageA
    <3>1. metaA = NoHeader /\ metaA' = NoHeader
      BY <1>1, <2>3 DEF ErasePageA, TargetErased
    <3>2. runnable = NoImage /\ runnable' = NoImage
      BY <3>1 DEF VerifiedImage, VerifySlot, ReadHeader
    <3>3. offered' = offered
      BY <2>3 DEF ErasePageA, VerifiedImage
    <3> QED BY <3>2, <3>3 DEF Update!vars
  <2>4. CASE WriteMetaA \/ CopyChunk
    <3>1. offered # NoImage /\ offered = metaB.digest
      BY <1>1, <1>4, <2>4 DEF WriteMetaA, CopyChunk, SourceVerified, StateAgrees
    <3>2. metaA' = metaB /\ UNCHANGED <<slotB, metaB>>
      BY <1>1, <2>4 DEF WriteMetaA, CopyChunk, CopiedSoFar
    <3>3. runnable' \in {NoImage, offered}
      BY <3>1, <3>2 DEF VerifiedImage
    <3> QED BY <1>6, <3>1, <3>2, <3>3
  <2> QED BY <1>13, <2>1, <2>2, <2>3, <2>4 DEF CopyBtoA
<1>14. CASE PowerLoss
  <2>1. \A s \in Slot : \A t \in Torn(s, {}) : t = s
    BY DEF Torn, Slot
  <2>2. CASE pc \notin {"eraseMetaA", "eraseA", "writeMetaA", "copyChunk",
                       "eraseMetaB", "eraseB", "receive", "commit"}
    BY <1>5, <1>14, <2>1, <2>2 DEF PowerLoss, TypeOK
  <2>3. CASE pc \in {"eraseMetaA", "eraseA", "writeMetaA", "copyChunk"}
    <3>1. UNCHANGED <<slotB, metaB>>
      BY <1>14, <2>1, <2>3 DEF PowerLoss, TypeOK
    <3>2. VerifySlot(slotB, metaB)
      BY <1>1, <2>3 DEF SourceVerified, StateAgrees
    <3>3. CASE pc \in {"writeMetaA", "copyChunk"}
      <4>1. metaA' \in {NoHeader, metaB} \/ metaA'.sig = NoImage
        BY <1>1, <1>14, <3>3 DEF PowerLoss, CopiedSoFar, TornHeader, TypeOK, Header
      <4>2. metaA' \in Header \cup {NoHeader} /\ slotA' \in Slot
        BY <1>14, <3>3, TornHeaderTypes, FlashTypes DEF PowerLoss, TypeOK
      <4>3. VerifySlot(slotA', metaA') => metaA' = metaB
        BY <1>2, <4>1, <4>2, VerifiedIsSigned DEF VerifySlot
      <4> QED BY <1>4, <1>6, <3>1, <3>2, <4>3 DEF VerifiedImage
    <3>4. CASE pc = "eraseA"
      <4>1. metaA = NoHeader /\ metaA' = NoHeader
        BY <1>1, <1>14, <3>4 DEF PowerLoss, TargetErased
      <4> QED BY <1>2, <1>4, <1>6, <3>1, <3>2, <4>1 DEF VerifiedImage
    <3>5. CASE pc = "eraseMetaA"
      <4>1. slotA' = slotA /\ metaA' \in TornHeader(metaA)
        BY <1>14, <2>1, <3>5 DEF PowerLoss, TypeOK
      <4>2. CASE metaA' = metaA
        BY <1>5, <3>1, <4>1, <4>2
      <4>3. CASE metaA' # metaA
        <5>1. metaA' = NoHeader \/ (metaA' \in Header /\ metaA'.sig = NoImage)
          BY <4>1, <4>3 DEF TornHeader, TypeOK, Header
        <5>2. slotA' \in Slot
          BY <4>1 DEF TypeOK
        <5>3. ~VerifySlot(slotA', metaA')
          BY <1>2, <5>1, <5>2, VerifiedIsSigned DEF VerifySlot
        <5> QED BY <1>4, <1>6, <3>1, <3>2, <5>3 DEF VerifiedImage
      <4> QED BY <4>2, <4>3
    <3> QED BY <2>3, <3>3, <3>4, <3>5
  <2>4. CASE pc = "eraseMetaB"
    <3>1. VerifySlot(slotA, metaA)
      BY <1>1, <2>4 DEF TargetVerified, StateAgrees, TypeOK, UpdateState
    <3>2. UNCHANGED <<slotA, metaA, slotB>> /\ metaB' \in TornHeader(metaB)
      BY <1>14, <2>1, <2>4 DEF PowerLoss, TypeOK
    <3> QED BY <1>8, <3>1, <3>2
  <2>5. CASE pc \in {"eraseB", "receive"}
    <3>1. metaB = NoHeader /\ metaB' = NoHeader /\ UNCHANGED <<slotA, metaA>>
      BY <1>1, <1>14, <2>1, <2>5 DEF PowerLoss, TypeOK, CopiedSoFar
    <3> QED BY <1>9, <3>1
  <2>6. CASE pc = "commit"
    <3>1. metaB = NoHeader /\ VerifySlot(slotB, rx.hdr)
      BY <1>1, <2>6 DEF CopiedSoFar, SourceVerified
    <3>2. UNCHANGED <<slotA, metaA, slotB>> /\ metaB' \in TornHeader(rx.hdr)
      BY <1>14, <2>1, <2>6 DEF PowerLoss, TypeOK
    <3> QED BY <1>7, <3>1, <3>2
  <2> QED BY <2>2, <2>3, <2>4, <2>5, <2>6
<1>15. CASE UNCHANGED vars
  BY <1>5, <1>15 DEF vars
<1> QED BY <1>10, <1>11, <1>12, <1>13, <1>14, <1>15 DEF Next

(* With metadata writes that succeed and a boot that restarts every        *)
(* unfinished copy, the slot manager implements the atomic update, at any  *)
(* number of power losses and bad chunk writes.                            *)
THEOREM ImplementsAtomicUpdate ==
    ASSUME ResumesUnfinished, ~MetaWriteFails
    PROVE  Spec => AtomicUpdateSpec
<1>1. Init => Update!Init
  <2> SUFFICES ASSUME Init PROVE Update!Init
    OBVIOUS
  <2>1. PICK p \in Packages : VerifySlot(p.data, p.hdr) /\ slotA = p.data /\ metaA = p.hdr
    BY DEF Init
  <2>2. VerifiedImage(slotA, metaA) \in Images
    BY <2>1, VerifiedIsSigned, PackagesAssumption DEF VerifiedImage
  <2>3. VerifiedImage(slotB, metaB) = NoImage
    BY DEF Init, VerifiedImage, VerifySlot, ReadHeader
  <2>4. (lapse \in {"drained", "abandoned"}) = FALSE
    BY DEF Init
  <2> QED BY <2>2, <2>3, <2>4 DEF Update!Init
<1>2. ASSUME TypeOK, UpdateInv, [Next]_vars PROVE [Update!Next]_(Update!vars)
  <2>1. CASE lapse' \in {"drained", "abandoned"}
    BY <2>1 DEF Update!Next, Update!Waive
  <2>2. CASE lapse' \notin {"drained", "abandoned"} /\ lapse \in {"drained", "abandoned"}
    <3>1. CopyPending /\ VerifySlot(slotB, metaB)
      BY <1>2, <2>2, WaiverEnds
    <3>2. VerifiedImage(slotB, metaB) # NoImage
      BY <1>2, <3>1, VerifiedIsSigned DEF TypeOK, VerifiedImage
    <3>3. VerifiedImage(slotB, metaB)' # NoImage
      BY <3>1, <3>2 DEF CopyPending, flash, VerifiedImage
    <3>4. (lapse \in {"drained", "abandoned"})' = FALSE
      BY <2>2
    <3> QED BY <2>2, <3>3, <3>4 DEF Update!Next, Update!Renew
  <2>3. CASE lapse' \notin {"drained", "abandoned"} /\ lapse \notin {"drained", "abandoned"}
    <3>1. [Update!Promised]_(Update!vars)
      BY <1>2, <2>3, UpdateStepSimulation
    <3> QED BY <3>1 DEF Update!Next
  <2> QED BY <2>1, <2>2, <2>3
<1> QED BY <1>1, <1>2, TypeCorrect, UpdateInvariant, PTL DEF Spec, AtomicUpdateSpec, Update!Spec

=============================================================================
