------------------------------ MODULE Release -------------------------------
(***************************************************************************)
(* A release from the manager's keys to the ECU's slot: the pipeline of    *)
(* README.md and fota_protocol.h (hash and sign the plaintext, encrypt,    *)
(* hash and sign the ciphertext, create_packet) over the keys of KeyStore; *)
(* a way that delivers any part of the stream of packets, or a packet with *)
(* a damaged cell; and the ECU's Verify-then-Decrypt with                  *)
(* fota_security.c and aes_decrypt.c.                                      *)
(*                                                                         *)
(* The programs that call these functions (the manager's window, the       *)
(* bootloader's main.c) are not part of the repository: Prepare, BuildEcu  *)
(* and Install call them in the order the two documents give.              *)
(*                                                                         *)
(* Hashes do not collide, and a signature is what a key and a hash give.   *)
(* AES-128-CBC: decrypting with the right key and predecessor gives the    *)
(* block, with another one any other block.                                *)
(***************************************************************************)
EXTENDS KeyStore, Packet, SequencesExt

CONSTANTS
    BlockSize,    \* bytes of an AES block
    Bytes,        \* values of a byte of firmware or padding
    Builds,       \* the firmware to release: its bytes, its version, and
                  \* whether original_sha256 is passed to create_packet
    MaxReleases   \* bound on the number of releases

ASSUME ReleaseAssumption ==
    /\ BlockSize \in Nat \ {0}
    /\ 1 .. BlockSize \subseteq Bytes
    /\ \A b \in Builds : b.image \in Seq(Bytes) \ {<<>>} /\ b.hashed \in BOOLEAN
    /\ MaxReleases \in Nat

VARIABLES
    releases,  \* what the releases so far were made of
    stream,    \* the cells of their packets, one packet after the other
    ecu,       \* the keys compiled into the bootloader, or None
    slot       \* the firmware last installed with its metadata, or None

vars == <<keyVars, releases, stream, ecu, slot>>

Byte(b) == <<"byte", b>>
Cells(bytes) == [i \in 1 .. Len(bytes) |-> Byte(bytes[i])]
Block(data, i) == SubSeq(data, (i - 1) * BlockSize + 1, i * BlockSize)

-----------------------------------------------------------------------------
(* The manager.                                                            *)

(* Mutant: a file that fills its last block gets no padding.               *)
PaddedIfNeeded(data) ==
    LET n == (BlockSize - (Len(data) % BlockSize)) % BlockSize
    IN  data \o [i \in 1 .. n |-> Byte(n)]

(* PKCS7: the padding is never empty and says its own length.              *)
Padded(data) ==
    LET n == BlockSize - (Len(data) % BlockSize)
    IN  data \o [i \in 1 .. n |-> Byte(n)]

(* CBC: a block of ciphertext is what the key, the block before it (the IV *)
(* for the first) and the block of plaintext give.                         *)
CipherBlocks(padded, key, iv) ==
    LET blocks[b \in 0 .. Len(padded) \div BlockSize] ==
          IF b = 0 THEN iv ELSE <<"block", key, blocks[b - 1], Block(padded, b)>>
    IN  blocks

EncryptFirmware(data, key, iv) ==
    LET padded == Padded(data)
        blocks == CipherBlocks(padded, key, iv)
    IN  [i \in 1 .. Len(padded) |->
            <<"cipher", blocks[(i - 1) \div BlockSize + 1], (i - 1) % BlockSize>>]

Encrypted(r, iv) == EncryptFirmware(Cells(r.build.image), r.aes, iv)

(* The arguments of create_packet; original_sha256 may be left out.        *)
Fields(r, iv) ==
    LET plaintext == Cells(r.build.image)
        encrypted == Encrypted(r, iv)
    IN  [version |-> r.build.version,
         sha256_hash |-> Hash(encrypted),
         ecdsa_signature |-> SignData(encrypted, r.private),
         aes_iv |-> iv,
         original_sha256 |-> IF r.build.hashed THEN Hash(plaintext) ELSE Zeros,
         plaintext_signature |-> SignData(plaintext, r.private)]

(* The packet of release i, whose IV is drawn anew.                        *)
PacketOf(i) ==
    LET r == releases[i]
        iv == <<"iv", i>>
    IN  CreatePacket(Fields(r, iv), Encrypted(r, iv))

Prepare ==
    /\ writing = <<>> /\ Len(releases) < MaxReleases
    /\ private_key # None /\ aes_key \in AesKeys
    /\ \E build \in Builds :
          releases' = Append(releases,
                        [build |-> build, private |-> private_key, aes |-> aes_key])
    /\ stream' = stream \o PacketOf(Len(releases))'
    /\ UNCHANGED <<keyVars, ecu, slot>>

-----------------------------------------------------------------------------
(* The ECU.                                                                *)

(* public_key.h and aes_key.h are compiled into the bootloader once.       *)
BuildEcu ==
    /\ writing = <<>> /\ ecu = None
    /\ {files[PublicHeader], files[AesHeader]} \cap {None, Torn} = {}
    /\ ecu' = [public |-> files[PublicHeader], aes |-> files[AesHeader]]
    /\ UNCHANGED <<keyVars, releases, stream, slot>>

(* Mutant: a signature only has to be there.                               *)
VerifyEcdsaNotZero(hash, signature) == {hash, signature} \cap {Zeros} = {}

(* fota_verify_ecdsa returns 0.                                            *)
VerifyEcdsa(hash, signature) ==
    /\ signature # Zeros
    /\ signature = <<"signature", ecu.public, hash>>

(* fota_verify_firmware returns 0: the secure boot's check, too.           *)
VerifyFirmware(hdr, firmware) ==
    /\ firmware # <<>>
    /\ hdr.magic = Magic
    /\ Hash(firmware) = hdr.sha256_hash
    /\ VerifyEcdsa(Hash(firmware), hdr.ecdsa_signature)

(* The part of fota_verify_encrypted_firmware about the container.         *)
VerifyContainer(hdr, encrypted) ==
    /\ encrypted # <<>>
    /\ hdr.magic = Magic
    /\ Hash(encrypted) = hdr.sha256_hash
    /\ VerifyEcdsa(Hash(encrypted), hdr.ecdsa_signature)

(* fota_verify_encrypted_firmware returns 0, given the plaintext.          *)
VerifyEncryptedFirmware(hdr, encrypted, plaintext) ==
    /\ VerifyContainer(hdr, encrypted)
    /\ plaintext # <<>> /\ hdr.original_sha256 # Zeros =>
          Hash(plaintext) = hdr.original_sha256

(* What decrypting a block may give: the block itself, if the key and the  *)
(* block before it are the ones it was encrypted with.                     *)
DecryptedBlock(block, key, before) ==
    IF block[2] = key /\ block[3] = before THEN {block[4]}
    ELSE {Cells(bytes) : bytes \in [1 .. BlockSize -> Bytes]} \ {block[4]}

(* What aes_decrypt_firmware may leave in the output buffer, given whole   *)
(* blocks of ciphertext that the container's hash and signature vouch for. *)
DecryptFirmware(encrypted, key, iv) ==
    LET n == Len(encrypted) \div BlockSize
        block(b) == encrypted[b * BlockSize][2]
        choices == [b \in 1 .. n |->
                      DecryptedBlock(block(b), key, IF b = 1 THEN iv ELSE block(b - 1))]
    IN  IF n = 0 \/ Len(encrypted) % BlockSize # 0 THEN {}
        ELSE {FlattenSeq(blocks) : blocks \in
                {s \in [1 .. n -> UNION Range(choices)] : \A b \in 1 .. n : s[b] \in choices[b]}}

(* Empty where aes_remove_pkcs7_padding returns 0.                         *)
RemovePadding(data) ==
    LET padding == data[Len(data)][2]
    IN  IF /\ padding \in 1 .. BlockSize /\ padding <= Len(data)
           /\ \A i \in Len(data) - padding + 1 .. Len(data) : data[i] = Byte(padding)
        THEN SubSeq(data, 1, Len(data) - padding)
        ELSE <<>>

(* The metadata kept with decrypted firmware: what the secure boot checks. *)
Metadata(hdr, firmware) ==
    [hdr EXCEPT !.file_size = SizeCell(Len(firmware)),
                !.sha256_hash = Hash(firmware),
                !.ecdsa_signature = hdr.plaintext_signature]

(* The firmware_size cells after the header, as far as they have come.     *)
Received(cells, n) ==
    [i \in 1 .. n |-> IF HeaderSize + i <= Len(cells) THEN cells[HeaderSize + i] ELSE <<"erased">>]

(* What the ECU may install of the cells it was sent.  Nothing, if a check *)
(* fails; a damaged size is some other number of cells.                    *)
Installable(cells) ==
    LET hdr == ParseHeader(Header(cells))
        encrypted == Received(cells, hdr.file_size[2])
        plaintexts == {RemovePadding(data) :
                         data \in DecryptFirmware(encrypted, ecu.aes, hdr.aes_iv)}
    IN  IF \/ Len(cells) < HeaderSize
           \/ ~HeaderOk(Header(cells))
           \/ hdr.file_size = Damaged
           \/ ~VerifyContainer(hdr, encrypted)
        THEN {}
        ELSE {[hdr |-> Metadata(hdr, p), firmware |-> p] : p \in
                {p \in plaintexts : /\ p # <<>>
                                    /\ VerifyEncryptedFirmware(hdr, encrypted, p)
                                    /\ VerifyFirmware(Metadata(hdr, p), p)}}

Deliveries ==
    PartsOf(stream) \cup UNION {DamagedCopies(PacketOf(i)) : i \in DOMAIN releases}

Install ==
    /\ ecu # None
    /\ \E cells \in Deliveries : slot' \in Installable(cells)
    /\ UNCHANGED <<keyVars, releases, stream, ecu>>

-----------------------------------------------------------------------------
Init ==
    /\ KeyInit
    /\ releases = <<>> /\ stream = <<>>
    /\ ecu = None
    /\ slot = None

KeyStep == KeyNext /\ UNCHANGED <<releases, stream, ecu, slot>>

Next == KeyStep \/ Prepare \/ BuildEcu \/ Install

Spec == Init /\ [][Next]_vars

-----------------------------------------------------------------------------
TypeOK ==
    /\ KeyTypeOK
    /\ releases \in Seq([build : Builds, private : Pairs, aes : AesKeys])
    /\ Len(releases) <= MaxReleases
    /\ ecu \in [public : Pairs, aes : AesKeys \cup {Short}] \cup {None}
    /\ slot # None => slot.firmware \in Seq({Byte(b) : b \in Bytes})

(* Whatever part of the stream arrives, with whatever cell damaged and     *)
(* whatever keys the ECU was built with, the ECU installs the whole image  *)
(* of one release, encrypted with its AES key and signed with the private  *)
(* key of its public one (fota_verify_encrypted_firmware and the checks    *)
(* around it).                                                             *)
OnlyReleases ==
    slot # None =>
      \E i \in DOMAIN releases :
         /\ slot.firmware = Cells(releases[i].build.image)
         /\ releases[i].private = ecu.public /\ releases[i].aes = ecu.aes

(* No release is refused for nothing: one that arrives whole, made with    *)
(* the keys the ECU was built from, is installed, and nothing but its      *)
(* image is: whatever its length and the bytes it ends with.               *)
AcceptsWhole ==
    ecu # None =>
      \A i \in DOMAIN releases :
         releases[i].private = ecu.public /\ releases[i].aes = ecu.aes =>
           {s.firmware : s \in Installable(PacketOf(i))} = {Cells(releases[i].build.image)}

(* Of all the parts of the stream, parse_packet accepts the packets that   *)
(* create_packet made and no other, and returns what they were made of.    *)
WholePackets ==
    \A part \in PartsOf(stream) :
       PacketOk(part) =>
         \E i \in DOMAIN releases :
            LET f == Fields(releases[i], <<"iv", i>>)
                parsed == ParseHeader(Header(part))
            IN  /\ part = PacketOf(i)
                /\ \A name \in DOMAIN f \ {"version"} : parsed[name] = f[name]
                /\ parsed.version = VersionCell(f.version)
=============================================================================
