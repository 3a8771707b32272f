------------------------------- MODULE Packet -------------------------------
(***************************************************************************)
(* The FOTA packet of protocol.py: a header of fixed size, then the        *)
(* encrypted firmware.  The packet travels over TCP, HTTP and CAN as a     *)
(* string of cells with no frame around it, so what a reader is handed may *)
(* be any part of the stream.                                              *)
(*                                                                         *)
(* A cell is a tuple whose first element is its kind.  Each field of       *)
(* HEADER_FORMAT is one cell; a payload byte is one cell.                  *)
(***************************************************************************)
EXTENDS Integers, Sequences

CONSTANT VersionLength  \* characters of a version the header has room for

ASSUME VersionLengthAssumption == VersionLength \in Nat \ {0}

Magic == <<"magic">>
Zeros == <<"zeros">>      \* a field of zero bytes: an argument that was None
Damaged == <<"damaged">>  \* a cell the way has changed

HeaderFields == <<"magic", "version", "file_size", "sha256_hash", "ecdsa_signature",
                  "aes_iv", "original_sha256", "plaintext_signature">>
HeaderSize == Len(HeaderFields)

(* Only the characters that fit are kept: version.encode()[:11].           *)
VersionCell(v) ==
    <<"version", SubSeq(v, 1, IF Len(v) < VersionLength THEN Len(v) ELSE VersionLength)>>
SizeCell(n) == <<"size", n>>

(* f gives the fields but the magic and the size.                          *)
CreateHeader(f, n) ==
    <<Magic, VersionCell(f.version), SizeCell(n), f.sha256_hash, f.ecdsa_signature,
      f.aes_iv, f.original_sha256, f.plaintext_signature>>

CreatePacket(f, firmware) == CreateHeader(f, Len(firmware)) \o firmware

Header(packet) == SubSeq(packet, 1, HeaderSize)
Payload(packet) == SubSeq(packet, HeaderSize + 1, Len(packet))

(* The fields of a header by their names, as parse_header returns them.    *)
ParseHeader(header) ==
    [name \in {HeaderFields[i] : i \in 1 .. HeaderSize} |->
        header[CHOOSE i \in 1 .. HeaderSize : HeaderFields[i] = name]]

(* parse_header does not raise.                                            *)
HeaderOk(header) == Len(header) = HeaderSize /\ header[1] = Magic

(* Mutant: the size in the header is not compared with what follows it.    *)
PacketOkAnySize(packet) ==
    /\ Len(packet) >= HeaderSize
    /\ HeaderOk(Header(packet))

(* parse_packet does not raise.                                            *)
PacketOk(packet) ==
    /\ Len(packet) >= HeaderSize
    /\ HeaderOk(Header(packet))
    /\ ParseHeader(Header(packet)).file_size = SizeCell(Len(Payload(packet)))

(* Every part of a stream of cells that a reader may be handed.            *)
PartsOf(stream) ==
    UNION {{SubSeq(stream, i, j) : j \in i .. Len(stream)} : i \in 1 .. Len(stream)}

(* A packet in which one cell has changed on the way.                      *)
DamagedCopies(packet) == {[packet EXCEPT ![i] = Damaged] : i \in 1 .. Len(packet)}
=============================================================================
