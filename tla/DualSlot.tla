------------------------------ MODULE DualSlot ------------------------------
(***************************************************************************)
(* The A/B slot manager of the ECU bootloader (dual_slot_manager.c): the   *)
(* two flash slots with their metadata pages, the update state kept in     *)
(* backup register BKP->DR2, and every function of the file, interrupted   *)
(* by power loss at every flash operation.                                 *)
(*                                                                         *)
(* main.c and uds_server.c, which call these functions, are not part of    *)
(* the repository, nor are Flash_Erase and Flash_Write: the actions Boot*, *)
(* StartSession, ReceiveBlock, TransferExit and CommitMetaB model them     *)
(* after the comments of dual_slot_manager.c and DIAGRAM_GUIDE.txt, steps  *)
(* 12-31. These two disagree about the boot (see BootResumes).             *)
(*                                                                         *)
(* A SHA-256 digest is modelled by the bytes it is the digest of (no two   *)
(* contents collide), a signature by the digest the release key signed.    *)
(***************************************************************************)
EXTENDS Integers, FiniteSets

CONSTANTS
    Byte,             \* contents of a flash cell
    Erased,           \* the one an erase leaves behind
    SlotSize,         \* SLOT_A_SIZE = SLOT_B_SIZE, in cells
    PageSize,         \* FLASH_PAGE_SIZE
    ChunkSize,        \* COPY_CHUNK_SIZE
    MaxFirmwareSize,  \* MAX_FIRMWARE_SIZE
    Images,           \* the firmware images the release key has signed
    VectorCells,      \* first cells whose vector table passes the boot check
    Packages,         \* what a download may bring: a header and slot contents
    NoHeader,         \* a metadata page whose magic is not FOTA_MAGIC
    NoImage,          \* a digest or signature of no image (partly written)
    BootResumes,      \* the states of DR2 from which the boot starts the copy
    MetaWriteFails,   \* may a metadata write end short with the power on?
    MaxCrashes,       \* bound on the number of power losses
    MaxFaults         \* bound on the number of chunk writes that go wrong

Cells == 0 .. SlotSize - 1
Slot == [Cells -> Byte]

(* What a digest can be computed over: the first n cells of a slot.        *)
Content == UNION {[0 .. n - 1 -> Byte] : n \in 1 .. MaxFirmwareSize}

(* fota_header_t, by the fields the bootloader decides on.                 *)
Header == [size : Nat, digest : Content \cup {NoImage}, sig : Images \cup {NoImage}]

UpdateState == {"NONE", "COPY_PENDING", "COPY_IN_PROGRESS", "COPY_COMPLETE"}
Unfinished == {"COPY_PENDING", "COPY_IN_PROGRESS"}

(* The boot as the comments of dual_slot_manager.c have it: "boot will     *)
(* detect this state and restart copy" (120-135), in both states. The boot *)
(* of DIAGRAM_GUIDE.txt (602, 862) resumes from COPY_PENDING only.         *)
ResumesUnfinished == BootResumes = Unfinished

ASSUME SizesAssumption ==
    /\ SlotSize \in Nat \ {0}
    /\ PageSize \in Nat \ {0}
    /\ ChunkSize \in 1 .. PageSize
    /\ MaxFirmwareSize \in 1 .. SlotSize

ASSUME ImagesAssumption ==
    /\ Erased \in Byte
    /\ Images \subseteq Content
    /\ NoImage \notin Content
    /\ NoHeader \notin Header

ASSUME PackagesAssumption ==
    /\ Packages \subseteq [hdr : Header, data : Slot]
    /\ BootResumes \in {Unfinished, {"COPY_PENDING"}}
    /\ MetaWriteFails \in BOOLEAN
    /\ MaxCrashes \in Nat
    /\ MaxFaults \in Nat

VARIABLES
    slotA, metaA,  \* application slot and its metadata page
    slotB, metaB,  \* download slot and its metadata page
    dr2,           \* BKP->DR2, the update state
    pc,            \* where the bootloader (or the application) is
    off,           \* offset of the erase, download or copy loop
    fw,            \* DualSlot_CopyBtoA's local fw_size
    rx,            \* the package of the download in progress
    crashes,       \* power losses so far
    faults,        \* wrong chunk writes so far
    lapse          \* history: what keeps an unfinished copy from being finished

flash == <<slotA, metaA, slotB, metaB>>
budget == <<crashes, faults>>
vars == <<flash, dr2, pc, off, fw, rx, budget, lapse>>

(* "failed": the copy stopped at its read-back and DR2 still says          *)
(* COPY_IN_PROGRESS. "abandoned": a session began after that, and erased   *)
(* slot B. "drained": DR2 was lost with the power. Each lasts until a copy *)
(* of a verified slot B is pending.                                        *)
Lapse == {"none", "failed", "abandoned", "drained"}

Copying == {"copy", "pending", "eraseMetaA", "eraseA", "writeMetaA", "copyChunk"}
Staging == {"eraseMetaB", "eraseB", "receive", "exit", "commit"}
Place == {"boot", "idle", "app"} \cup Copying \cup Staging

-----------------------------------------------------------------------------
(* Flash.                                                                  *)

PageAt(o) == {c \in Cells : o <= c /\ c < o + PageSize}
ChunkAt(o, n) == {c \in Cells : o <= c /\ c < o + ChunkSize /\ c < n}

(* An STM32F1 cell programs only when it is erased.                        *)
Programmed(slot, src, range) ==
    [c \in Cells |-> IF c \in range /\ slot[c] = Erased THEN src[c] ELSE slot[c]]

Blanked(slot, range) ==
    [c \in Cells |-> IF c \in range THEN Erased ELSE slot[c]]

(* An interrupted operation leaves anything in the cells it was changing.  *)
Torn(slot, range) ==
    {s \in Slot : \A c \in Cells \ range : s[c] = slot[c]}

(* A header is written front to back: magic and size, digest, signature.   *)
TornHeader(h) ==
    IF h = NoHeader THEN {NoHeader}
    ELSE {NoHeader, h, [h EXCEPT !.digest = NoImage, !.sig = NoImage], [h EXCEPT !.sig = NoImage]}

-----------------------------------------------------------------------------
(* The checks.                                                             *)

(* DualSlot_ReadHeader does not return NULL.                               *)
ReadHeader(h) == h # NoHeader /\ h.size \in 1 .. MaxFirmwareSize

FirstCells(slot, n) == [c \in 0 .. n - 1 |-> slot[c]]

(* Mutant: the digest is not compared, only the signature is checked.      *)
VerifySlotNoHash(slot, h) == ReadHeader(h) /\ h.sig = h.digest /\ slot \in Slot

VerifySlot(slot, h) ==
    /\ ReadHeader(h)
    /\ h.digest = FirstCells(slot, h.size)
    /\ h.sig = h.digest

(* DualSlot_GetInfo's status.                                              *)
SlotStatus(slot, h) ==
    IF ~ReadHeader(h) THEN "SLOT_INVALID"
    ELSE IF VerifySlot(slot, h) THEN "SLOT_VALID" ELSE "SLOT_PENDING"

IsSlotABootable ==
    /\ slotA[0] \in VectorCells
    /\ VerifySlot(slotA, metaA)

-----------------------------------------------------------------------------
(* The factory image is in slot A and nothing is staged.                   *)
Init ==
    /\ \E p \in Packages :
          /\ VerifySlot(p.data, p.hdr) /\ p.data[0] \in VectorCells
          /\ slotA = p.data /\ metaA = p.hdr
          /\ rx = p
    /\ slotB = [c \in Cells |-> Erased] /\ metaB = NoHeader
    /\ dr2 = "NONE"
    /\ pc = "boot"
    /\ off = 0 /\ fw = 0
    /\ crashes = 0 /\ faults = 0
    /\ lapse = "none"

(* Boot: an unfinished copy is restarted, from the start, if this boot     *)
(* does so; a finished one is cleared ("Boot process will clear this       *)
(* state", 187); then slot A is verified.                                  *)
BootResume ==
    /\ pc = "boot"
    /\ dr2 \in BootResumes
    /\ pc' = "copy"
    /\ UNCHANGED <<flash, dr2, off, fw, rx, budget, lapse>>

BootSlotA ==
    /\ pc = "boot"
    /\ dr2 \notin BootResumes
    /\ dr2' = IF dr2 = "COPY_COMPLETE" THEN "NONE" ELSE dr2
    /\ pc' = IF IsSlotABootable THEN "app" ELSE "idle"
    /\ UNCHANGED <<flash, off, fw, rx, budget, lapse>>

(* A reset of the ECU that waits in the bootloader.                        *)
Reset ==
    /\ pc = "idle"
    /\ pc' = "boot"
    /\ UNCHANGED <<flash, dr2, off, fw, rx, budget, lapse>>

(* A programming session: RequestDownload calls DualSlot_EraseSlotB.       *)
StartSession ==
    /\ pc \in {"idle", "app"}
    /\ rx' \in Packages
    /\ pc' = "eraseMetaB"
    /\ lapse' = IF lapse = "failed" THEN "abandoned" ELSE lapse
    /\ UNCHANGED <<flash, dr2, off, fw, budget>>

EraseMetaB ==
    /\ pc = "eraseMetaB"
    /\ metaB' = NoHeader
    /\ off' = 0
    /\ pc' = "eraseB"
    /\ UNCHANGED <<slotA, metaA, slotB, dr2, fw, rx, budget, lapse>>

(* Mutant: the erase loop runs one page too far.                           *)
ErasePageBOneMore ==
    /\ pc = "eraseB" /\ off <= SlotSize
    /\ slotB' = Blanked(slotB, PageAt(off))
    /\ off' = off + PageSize
    /\ UNCHANGED <<slotA, metaA, metaB, dr2, pc, fw, rx, budget, lapse>>

ErasePageB ==
    /\ pc = "eraseB" /\ off < SlotSize
    /\ slotB' = Blanked(slotB, PageAt(off))
    /\ off' = off + PageSize
    /\ UNCHANGED <<slotA, metaA, metaB, dr2, pc, fw, rx, budget, lapse>>

EraseBDone ==
    /\ pc = "eraseB" /\ off >= SlotSize
    /\ off' = 0
    /\ pc' = "receive"
    /\ UNCHANGED <<flash, dr2, fw, rx, budget, lapse>>

ReceiveBlock ==
    /\ pc = "receive" /\ off < rx.hdr.size /\ off < SlotSize
    /\ slotB' = Programmed(slotB, rx.data, ChunkAt(off, rx.hdr.size))
    /\ off' = off + ChunkSize
    /\ UNCHANGED <<slotA, metaA, metaB, dr2, pc, fw, rx, budget, lapse>>

ReceiveDone ==
    /\ pc = "receive" /\ (off >= rx.hdr.size \/ off >= SlotSize)
    /\ pc' = "exit"
    /\ UNCHANGED <<flash, dr2, off, fw, rx, budget, lapse>>

(* TransferExit verifies the download before anything else happens.        *)
TransferExit ==
    /\ pc = "exit"
    /\ pc' = IF VerifySlot(slotB, rx.hdr) THEN "commit" ELSE "idle"
    /\ UNCHANGED <<flash, dr2, off, fw, rx, budget, lapse>>

CommitMetaB ==
    /\ pc = "commit"
    /\ metaB' = rx.hdr
    /\ pc' = "copy"
    /\ UNCHANGED <<slotA, metaA, slotB, dr2, off, fw, rx, budget, lapse>>

-----------------------------------------------------------------------------
(* DualSlot_CopyBtoA, one action per change of flash or DR2.               *)

CopyReject ==
    /\ pc = "copy" /\ ~ReadHeader(metaB)
    /\ pc' = "idle"
    /\ UNCHANGED <<flash, dr2, off, fw, rx, budget, lapse>>

CopyPending ==
    /\ pc = "copy" /\ ReadHeader(metaB)
    /\ fw' = metaB.size
    /\ dr2' = "COPY_PENDING"
    /\ pc' = "pending"
    /\ lapse' = IF VerifySlot(slotB, metaB) THEN "none" ELSE lapse
    /\ UNCHANGED <<flash, off, rx, budget>>

CopyInProgress ==
    /\ pc = "pending"
    /\ dr2' = "COPY_IN_PROGRESS"
    /\ pc' = "eraseMetaA"
    /\ UNCHANGED <<flash, off, fw, rx, budget, lapse>>

(* Mutant: the wrong metadata page is erased.                              *)
EraseMetaAWrongPage ==
    /\ pc = "eraseMetaA"
    /\ metaB' = NoHeader
    /\ off' = 0
    /\ pc' = "eraseA"
    /\ UNCHANGED <<slotA, slotB, metaA, dr2, fw, rx, budget, lapse>>

EraseMetaA ==
    /\ pc = "eraseMetaA"
    /\ metaA' = NoHeader
    /\ off' = 0
    /\ pc' = "eraseA"
    /\ UNCHANGED <<slotA, slotB, metaB, dr2, fw, rx, budget, lapse>>

(* Mutant: the start of the last page is taken for the end.                *)
EraseEndLastPage == ((fw - 1) \div PageSize) * PageSize

(* slot_a_end, which never passes the end of slot A.                       *)
EraseEnd == IF fw > SlotSize THEN SlotSize ELSE fw

ErasePageA ==
    /\ pc = "eraseA" /\ off < EraseEnd
    /\ slotA' = Blanked(slotA, PageAt(off))
    /\ off' = off + PageSize
    /\ UNCHANGED <<metaA, slotB, metaB, dr2, pc, fw, rx, budget, lapse>>

EraseADone ==
    /\ pc = "eraseA" /\ off >= EraseEnd
    /\ pc' = "writeMetaA"
    /\ UNCHANGED <<flash, dr2, off, fw, rx, budget, lapse>>

(* Mutant: the copy loop does not start at offset 0.                       *)
WriteMetaANoReset ==
    /\ pc = "writeMetaA"
    /\ metaA' \in IF MetaWriteFails THEN TornHeader(metaB) ELSE {metaB}
    /\ pc' = "copyChunk"
    /\ UNCHANGED <<slotA, slotB, metaB, dr2, off, fw, rx, budget, lapse>>

(* Metadata A is written before the contents, and is not read back.        *)
WriteMetaA ==
    /\ pc = "writeMetaA"
    /\ metaA' \in IF MetaWriteFails THEN TornHeader(metaB) ELSE {metaB}
    /\ off' = 0
    /\ pc' = "copyChunk"
    /\ UNCHANGED <<slotA, slotB, metaB, dr2, fw, rx, budget, lapse>>

(* One chunk, written as it should be or (a fault) in any other way.       *)
WriteChunk ==
    \/ /\ slotA' = Programmed(slotA, slotB, ChunkAt(off, fw))
       /\ UNCHANGED faults
    \/ /\ faults < MaxFaults
       /\ slotA' \in Torn(slotA, ChunkAt(off, fw))
       /\ faults' = faults + 1

CopyFailed == IF lapse = "none" THEN "failed" ELSE lapse

(* Mutant: no read-back.                                                   *)
CopyChunkUnchecked ==
    /\ pc = "copyChunk" /\ off < fw
    /\ WriteChunk
    /\ off' = off + ChunkSize
    /\ UNCHANGED <<metaA, slotB, metaB, dr2, pc, fw, rx, crashes, lapse>>

(* Mutant: a copy that fails clears DR2.                                   *)
CopyChunkFailsClean ==
    /\ pc = "copyChunk" /\ off < fw
    /\ WriteChunk
    /\ IF \A c \in ChunkAt(off, fw) : slotA'[c] = slotB[c]
       THEN off' = off + ChunkSize /\ UNCHANGED <<pc, dr2, lapse>>
       ELSE pc' = "idle" /\ lapse' = CopyFailed /\ dr2' = "NONE" /\ UNCHANGED off
    /\ UNCHANGED <<metaA, slotB, metaB, fw, rx, crashes>>

(* Every chunk is read back: the copy goes on only if it compares equal.   *)
(* If it does not, DR2 is left as it is.                                   *)
CopyChunk ==
    /\ pc = "copyChunk" /\ off < fw
    /\ WriteChunk
    /\ IF \A c \in ChunkAt(off, fw) : slotA'[c] = slotB[c]
       THEN off' = off + ChunkSize /\ UNCHANGED <<pc, lapse>>
       ELSE pc' = "idle" /\ lapse' = CopyFailed /\ UNCHANGED off
    /\ UNCHANGED <<metaA, slotB, metaB, dr2, fw, rx, crashes>>

(* Mutant: the last chunk, when it is a partial one, is left out.          *)
CopyCompleteEarly ==
    /\ pc = "copyChunk" /\ off + ChunkSize > fw
    /\ dr2' = "COPY_COMPLETE"
    /\ pc' = "idle"
    /\ UNCHANGED <<flash, off, fw, rx, budget, lapse>>

CopyComplete ==
    /\ pc = "copyChunk" /\ off >= fw
    /\ dr2' = "COPY_COMPLETE"
    /\ pc' = "idle"
    /\ UNCHANGED <<flash, off, fw, rx, budget, lapse>>

-----------------------------------------------------------------------------
(* Power is lost, and comes back.  What was being changed is torn, and DR2 *)
(* is lost too if nothing feeds VBAT.                                      *)
PowerLoss ==
    /\ crashes < MaxCrashes
    /\ slotA' \in Torn(slotA, IF pc = "eraseA" THEN PageAt(off)
                              ELSE IF pc = "copyChunk" THEN ChunkAt(off, fw) ELSE {})
    /\ slotB' \in Torn(slotB, IF pc = "eraseB" THEN PageAt(off)
                              ELSE IF pc = "receive" THEN ChunkAt(off, rx.hdr.size) ELSE {})
    /\ metaA' \in IF pc = "eraseMetaA" THEN TornHeader(metaA)
                  ELSE IF pc = "writeMetaA" THEN TornHeader(metaB) ELSE {metaA}
    /\ metaB' \in IF pc = "eraseMetaB" THEN TornHeader(metaB)
                  ELSE IF pc = "commit" THEN TornHeader(rx.hdr) ELSE {metaB}
    /\ dr2' \in {dr2, "NONE"}
    /\ lapse' = IF dr2 \in Unfinished /\ dr2' = "NONE" THEN "drained" ELSE lapse
    /\ pc' = "boot"
    /\ off' = 0 /\ fw' = 0
    /\ crashes' = crashes + 1
    /\ UNCHANGED <<rx, faults>>

(* Everything the bootloader does of itself, once it runs.                 *)
EraseSlotB == EraseMetaB \/ ErasePageB \/ EraseBDone
CopyBtoA ==
    \/ CopyReject \/ CopyPending \/ CopyInProgress \/ EraseMetaA \/ ErasePageA
    \/ EraseADone \/ WriteMetaA \/ CopyChunk \/ CopyComplete
Boot == BootResume \/ BootSlotA
Download == ReceiveBlock \/ ReceiveDone \/ TransferExit \/ CommitMetaB

Next == Boot \/ Reset \/ StartSession \/ EraseSlotB \/ Download \/ CopyBtoA \/ PowerLoss

Spec == Init /\ [][Next]_vars

(* The bootloader is a single sequential program: while the power is on    *)
(* its next step is taken.                                                 *)
Fairness == WF_vars(Boot) /\ WF_vars(CopyBtoA) /\ WF_vars(EraseSlotB)
FairSpec == Spec /\ Fairness

-----------------------------------------------------------------------------
(* The variables keep to their types.                                      *)
TypeOK ==
    /\ slotA \in Slot /\ slotB \in Slot
    /\ metaA \in Header \cup {NoHeader} /\ metaB \in Header \cup {NoHeader}
    /\ dr2 \in UpdateState
    /\ pc \in Place
    /\ off \in 0 .. SlotSize + PageSize - 1
    /\ fw \in 0 .. MaxFirmwareSize
    /\ rx \in Packages
    /\ crashes \in 0 .. MaxCrashes /\ faults \in 0 .. MaxFaults
    /\ lapse \in Lapse

(* What runs is a signed image, whole, whatever power losses and bad       *)
(* writes preceded the boot: DualSlot_IsSlotABootable verifies the         *)
(* signature every time (DIAGRAM_GUIDE.txt 628 would skip it).             *)
OnlySignedRuns ==
    pc = "app" => \E i \in Images : \A c \in DOMAIN i : slotA[c] = i[c]

(* DualSlot_CopyBtoA reports success only when slot A and its metadata are *)
(* a copy of slot B and its metadata: no bad chunk write goes unnoticed.   *)
CompleteOnlyAfterFullCopy ==
    [][dr2' = "COPY_COMPLETE" /\ dr2 # "COPY_COMPLETE" =>
         /\ ~MetaWriteFails => metaA = metaB
         /\ \A c \in Cells : c < metaB.size => slotA[c] = slotB[c]]_vars

(* "COPY_COMPLETE: copy finished, safe to boot" (100): slot A verifies,    *)
(* after power losses and bad chunk writes too. The exception: after a     *)
(* failed read-back (176) the ECU is given a new session instead of a      *)
(* reset. It erases slot B while DR2 says COPY_IN_PROGRESS; if power is    *)
(* lost while metadata B is written, the boot copies what is there.        *)
CompleteIsSafeToBoot ==
    lapse # "abandoned" /\ dr2 = "COPY_COMPLETE" => SlotStatus(slotA, metaA) = "SLOT_VALID"

(* At every instant one of the slots holds a signed image, whole, and if   *)
(* it is only slot B then DR2 tells the next boot to copy it: the boot of  *)
(* the code's comments, not that of DIAGRAM_GUIDE.txt. Lost are a DR2      *)
(* without VBAT and the session of CompleteIsSafeToBoot.                   *)
AlwaysRecoverable ==
    ~MetaWriteFails /\ lapse \notin {"drained", "abandoned"} =>
        \/ VerifySlot(slotA, metaA)
        \/ VerifySlot(slotB, metaB) /\ dr2 \in BootResumes

(* "boot will detect this state and restart copy from Slot B" (133): an    *)
(* update that has reached DR2 is finished, with the image it started      *)
(* with, however often the power goes in between, unless DR2 is lost or a  *)
(* bad write stops the copy. True with the boot of the comments. With that *)
(* of DIAGRAM_GUIDE.txt ("Power-loss recovery: Resume", 584) it is not.    *)
UpdateFinishes ==
    \A i \in Images :
        (dr2 \in Unfinished /\ metaB # NoHeader /\ metaB.digest = i)
            ~> \/ dr2 = "COPY_COMPLETE" /\ VerifySlot(slotA, metaA) /\ metaA.digest = i
               \/ lapse # "none" /\ (lapse = "failed" => faults > 0)

-----------------------------------------------------------------------------
(* The inductive invariant behind these properties, in parts.              *)

(* What holds whatever goes wrong.  A copy works on the size it read; the  *)
(* chunks behind it are equal to their source; nothing is offered while a  *)
(* download is under way.                                                  *)
CopiedSoFar ==
    /\ pc \in Copying \ {"copy"} => ReadHeader(metaB) /\ fw = metaB.size
    /\ pc = "copyChunk" =>
          /\ ~MetaWriteFails => metaA = metaB
          /\ \A c \in Cells : c < off /\ c < fw => slotA[c] = slotB[c]
    /\ pc \in Staging \ {"eraseMetaB"} => metaB = NoHeader

(* The copy finds slot A erased, so only a bad write fails its read-back.  *)
TargetErased ==
    /\ pc \in {"eraseA", "writeMetaA"} => metaA = NoHeader
    /\ pc = "eraseA" => \A c \in Cells : c < off => slotA[c] = Erased
    /\ pc = "writeMetaA" => \A c \in Cells : c < fw => slotA[c] = Erased
    /\ pc = "copyChunk" => \A c \in Cells : off <= c /\ c < fw => slotA[c] = Erased
    /\ lapse \in {"failed", "abandoned"} => faults > 0

(* DR2 and the place in the code agree.                                    *)
StateAgrees ==
    /\ pc = "pending" => dr2 = "COPY_PENDING"
    /\ pc \in Copying \ {"copy", "pending"} => dr2 = "COPY_IN_PROGRESS"
    /\ pc = "idle" /\ lapse # "failed" => dr2 \notin Unfinished
    /\ pc \in Staging \cup {"app"} => dr2 \notin Unfinished
    /\ pc \in Staging => lapse # "failed"
    /\ pc \in Copying \ {"copy"} => lapse = "none"

(* What is being copied, or is to be, is a verified image.                 *)
SourceVerified ==
    /\ dr2 \in Unfinished \/ pc = "copy" => VerifySlot(slotB, metaB)
    /\ pc = "commit" => VerifySlot(slotB, rx.hdr)

(* Outside a copy slot A verifies.                                         *)
TargetVerified ==
    dr2 = "COPY_COMPLETE" \/ (lapse # "drained" /\ dr2 = "NONE") => VerifySlot(slotA, metaA)

(* Metadata writes succeed, an unfinished copy is restarted by the boot,   *)
(* and no session has come in between.                                     *)
Undisturbed == ~MetaWriteFails /\ ResumesUnfinished /\ lapse # "abandoned"

UpdateInv ==
    /\ CopiedSoFar
    /\ TargetErased
    /\ Undisturbed => StateAgrees /\ SourceVerified /\ TargetVerified

-----------------------------------------------------------------------------
(* What the vehicle sees: an update is atomic.                             *)
VerifiedImage(slot, h) == IF VerifySlot(slot, h) THEN h.digest ELSE NoImage

Update == INSTANCE AtomicUpdate WITH
    runnable <- VerifiedImage(slotA, metaA),
    offered <- VerifiedImage(slotB, metaB),
    waived <- lapse \in {"drained", "abandoned"}

(* With metadata writes that succeed and the boot of the code's comments   *)
(* the slot manager implements it.                                         *)
AtomicUpdateSpec == Update!Spec
=============================================================================
