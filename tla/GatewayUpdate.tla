---------------------------- MODULE GatewayUpdate ----------------------------
(***************************************************************************)
(* A cloud update as the gateway sees it (version_checker.cpp,             *)
(* fota_security.cpp): the local version over UDS, the index, metadata and *)
(* firmware files over HTTPS, the two checks, and the transfer.  The three *)
(* files are fetched one after the other while a publisher replaces them   *)
(* one by one, and any request may fail or end short.                      *)
(*                                                                         *)
(* main.cpp, which calls these functions in this order (Gateway README,    *)
(* "Security Firewall") and again after a failure, and which waits for the *)
(* user between the comparison and the download ("User confirms update"),  *)
(* is not in the repository, nor are the publisher and the ECU.            *)
(*                                                                         *)
(* A digest is modelled by the payload it is of, a signature by the digest *)
(* that was signed with it.  A version is a text; what two conversions of  *)
(* the code make of a text is given by the functions Numbers and Kept.     *)
(***************************************************************************)
EXTENDS Integers, Sequences

CONSTANTS
    Release,         \* releases, each with its own URLs
    Version,         \* version texts
    Numbers,         \* the numbers compare_versions reads in a text
    Kept,            \* the part of a text that fits in Header.version
    VersionOf,       \* the version the index gives a release
    Payload,         \* firmware files, and what is left of one cut short
    Signed,          \* the payloads the release key has signed
    Cut,             \* a payload of which the end is missing
    Factory,         \* what the ECU may run at first
    Builds,          \* what the publisher uploads: a payload and its metadata
    Indexes,         \* the index files it may upload
    Missing,         \* no file (HTTP status 404), field or payload
    EmptyVersion,    \* the empty text
    DefaultVersion,  \* "1.0.0"
    MaxUploads,      \* bound on uploads
    MaxFaults        \* bound on failing and short requests

(* Metadata fields: a text that is not hex is "bad"; a signature is 64     *)
(* bytes ("raw"), DER that can be read ("der"), or neither ("bad").        *)
ShaField == Payload \union {Missing, "bad"}
SigField == [form : {"raw", "der"}, of : Payload] \union [form : {"bad", "absent"}, of : {Missing}]
Metadata == [version : Version, sha : ShaField, sig : SigField]
Index == [latest : Release, direct : BOOLEAN, listed : SUBSET Release]

ASSUME GatewayAssumption ==
    /\ Numbers \in [Version -> Seq(Nat)] /\ Kept \in [Version -> Version]
    /\ VersionOf \in [Release -> Version]
    /\ {EmptyVersion, DefaultVersion} \subseteq Version
    /\ Signed \subseteq Payload /\ Cut \in Payload \ Signed
    /\ Factory \subseteq [version : Version, payload : Payload]
    /\ Missing \notin Payload
    /\ Builds \subseteq [release : Release, payload : Payload, metadata : Metadata]
    /\ Indexes \subseteq Index
    /\ {MaxUploads, MaxFaults} \subseteq Nat

VARIABLES
    index, files, metas,  \* the files of the publisher, by release
    pc,                   \* the function the gateway calls next
    local,                \* local version
    remote,               \* the release the index named
    header,               \* Header, by the fields that are checked
    payload,              \* the download
    ecu,                  \* what the ECU runs, under the version in METADATA_A
    uploads, faults

web == <<index, files, metas>>
gateway == <<pc, local, remote, header, payload>>
vars == <<web, gateway, ecu, uploads, faults>>

NoHeader == [version |-> EmptyVersion, sha |-> Missing, sig |-> Missing]

-----------------------------------------------------------------------------
(* compare_versions: three numbers, padded with zeros; what follows is not *)
(* compared.                                                               *)
Part(v, i) == IF i <= Len(Numbers[v]) THEN Numbers[v][i] ELSE 0

(* Mutant: an equal version is an update too.                              *)
NewerOrSameVersion(v, w) ==
    \A i \in 1 .. 3 : Part(v, i) >= Part(w, i) \/ \E j \in 1 .. i - 1 : Part(v, j) > Part(w, j)

(* version1 is the newer one: compare_versions returns 1.                  *)
NewerVersion(v, w) ==
    \E i \in 1 .. 3 : Part(v, i) > Part(w, i) /\ \A j \in 1 .. i - 1 : Part(v, j) = Part(w, j)

(* get_local_version: an empty version string stands for the default one.  *)
LocalVersion == IF ecu.version = EmptyVersion THEN DefaultVersion ELSE ecu.version

(* Mutant: the entries of "versions" are not searched.                     *)
FirmwareFoundDirectly(i) == i.direct

(* get_remote_version finds the firmware at the top level of the index, or *)
(* in the entry of "versions" that has the latest version.                 *)
FirmwareFound(i) == i.direct \/ i.latest \in i.listed

(* Mutant: what hex_to_bytes returns is ignored.                           *)
HashAlwaysReadable(m) == TRUE

(* hex_to_bytes, with the length get_header_from_metadata asks for.        *)
HashReadable(m) == m.sha # "bad"

(* A signature of 64 bytes is taken as it is, any other read as DER.       *)
SignatureReadable(m) == m.sig.form # "bad"

(* A field that is absent leaves zeros in the header, and copy_version_str *)
(* keeps the first 11 characters of the version.                           *)
HeaderOf(m) == [version |-> Kept[m.version], sha |-> m.sha, sig |-> m.sig.of]

IsAllZero(s) == s = Missing

VerifyEcdsa(digest, sig) == ~IsAllZero(sig) /\ sig = digest /\ digest \in Signed

(* Mutant: the signature is checked over the digest the header gives.      *)
VerifyFirmwareSignatureOnly(h, p) == VerifyEcdsa(h.sha, h.sig)

VerifyFirmware(h, p) == h.sha = p /\ VerifyEcdsa(p, h.sig)

-----------------------------------------------------------------------------
(* The publisher.                                                          *)

Upload ==
    /\ uploads < MaxUploads
    /\ uploads' = uploads + 1
    /\ \/ \E b \in Builds : files' = [files EXCEPT ![b.release] = b.payload] /\ UNCHANGED <<index, metas>>
       \/ \E b \in Builds : metas' = [metas EXCEPT ![b.release] = b.metadata] /\ UNCHANGED <<index, files>>
       \/ index' \in Indexes /\ UNCHANGED <<files, metas>>
    /\ UNCHANGED <<gateway, ecu, faults>>

-----------------------------------------------------------------------------
(* The gateway.  A function that does not return ESP_OK ends the attempt,  *)
(* and what it had fetched is dropped.                                     *)

GiveUp ==
    /\ pc' = "local"
    /\ local' = EmptyVersion /\ remote' = Missing /\ header' = NoHeader /\ payload' = Missing

GetLocalVersion ==
    /\ pc = "local"
    /\ local' = LocalVersion
    /\ pc' = "remote"
    /\ UNCHANGED <<web, remote, header, payload, ecu, uploads, faults>>

GetRemoteVersion ==
    /\ pc = "remote"
    /\ IF index # Missing /\ FirmwareFound(index) /\ NewerVersion(VersionOf[index.latest], local)
       THEN remote' = index.latest /\ pc' = "confirm" /\ UNCHANGED <<local, header, payload>>
       ELSE GiveUp
    /\ UNCHANGED <<web, ecu, uploads, faults>>

(* The user touches the LCD, if ever: the publisher may replace every file *)
(* before that.                                                            *)
UserConfirms ==
    /\ pc = "confirm"
    /\ pc' = "header"
    /\ UNCHANGED <<web, local, remote, header, payload, ecu, uploads, faults>>

GetHeaderFromMetadata ==
    /\ pc = "header"
    /\ IF metas[remote] # Missing /\ HashReadable(metas[remote]) /\ SignatureReadable(metas[remote])
       THEN header' = HeaderOf(metas[remote]) /\ pc' = "download" /\ UNCHANGED <<local, remote, payload>>
       ELSE GiveUp
    /\ UNCHANGED <<web, ecu, uploads, faults>>

DownloadFirmware ==
    /\ pc = "download"
    /\ IF files[remote] # Missing
       THEN payload' = files[remote] /\ pc' = "verify" /\ UNCHANGED <<local, remote, header>>
       ELSE GiveUp
    /\ UNCHANGED <<web, ecu, uploads, faults>>

(* A body that ends short is refused if its length was announced only.     *)
DownloadShort ==
    /\ pc = "download" /\ files[remote] # Missing
    /\ faults < MaxFaults /\ faults' = faults + 1
    /\ \E announced \in BOOLEAN :
        IF announced THEN GiveUp
        ELSE payload' = Cut /\ pc' = "verify" /\ UNCHANGED <<local, remote, header>>
    /\ UNCHANGED <<web, ecu, uploads>>

Verify ==
    /\ pc = "verify"
    /\ IF VerifyFirmware(header, payload)
       THEN pc' = "forward" /\ UNCHANGED <<local, remote, header, payload>>
       ELSE GiveUp
    /\ UNCHANGED <<web, ecu, uploads, faults>>

(* uds_download_firmware succeeds, and the ECU restarts into the payload.  *)
Forward ==
    /\ pc = "forward"
    /\ ecu' = [version |-> header.version, payload |-> payload]
    /\ GiveUp
    /\ UNCHANGED <<web, uploads, faults>>

(* A request over HTTPS or UDS fails.                                      *)
RequestFails ==
    /\ pc \notin {"confirm", "verify"}
    /\ faults < MaxFaults /\ faults' = faults + 1
    /\ GiveUp
    /\ UNCHANGED <<web, ecu, uploads>>

-----------------------------------------------------------------------------
Init ==
    /\ index = Missing
    /\ files = [r \in Release |-> Missing] /\ metas = [r \in Release |-> Missing]
    /\ pc = "local" /\ local = EmptyVersion /\ remote = Missing /\ header = NoHeader /\ payload = Missing
    /\ ecu \in Factory
    /\ uploads = 0 /\ faults = 0

Attempt ==
    GetLocalVersion \/ GetRemoteVersion \/ GetHeaderFromMetadata \/ DownloadFirmware \/ Verify \/ Forward

Next == Upload \/ Attempt \/ UserConfirms \/ DownloadShort \/ RequestFails
Spec == Init /\ [][Next]_vars

(* The gateway goes on looking for updates; nobody has to publish any, and *)
(* nobody has to confirm one.                                              *)
FairSpec == Spec /\ WF_vars(Attempt)

-----------------------------------------------------------------------------
(* The variables keep to their types: a header in use has been read from   *)
(* metadata whose hash and signature could be read.                        *)
TypeOK ==
    /\ index \in Indexes \union {Missing}
    /\ files \in [Release -> Payload \union {Missing}]
    /\ metas \in [Release -> Metadata \union {Missing}]
    /\ pc \in {"local", "remote", "confirm", "header", "download", "verify", "forward"}
    /\ local \in Version /\ remote \in Release \union {Missing}
    /\ header \in [version : Version, sha : Payload \union {Missing}, sig : Payload \union {Missing}]
    /\ payload \in Payload \union {Missing} /\ ecu \in [version : Version, payload : Payload]
    /\ uploads \in 0 .. MaxUploads /\ faults \in 0 .. MaxFaults

(* Nothing goes to the CAN bus but a payload the release key has signed,   *)
(* under a header that is its own, whatever the publisher replaces between *)
(* two requests and wherever a download ends (Gateway README, "Prevent     *)
(* corrupted/malicious firmware from reaching CAN bus").                   *)
OnlySignedForwarded ==
    pc = "forward" => payload \in Signed /\ header.sha = payload /\ header.sig = payload

(* The order of versions: the first of the three numbers that differs      *)
(* decides.                                                                *)
Later(v, w) ==
    LET differ == {i \in 1 .. 3 : Part(v, i) # Part(w, i)}
    IN  \E i \in differ : (\A j \in differ : i <= j) /\ Part(v, i) > Part(w, i)

(* The ECU is only ever given a newer version than it reports: no update   *)
(* is installed twice and none is undone, however old the index that was   *)
(* read.  It needs metadata with the version of its release, and versions  *)
(* that still compare equal when they are cut for the header.              *)
NeverDowngrades ==
    [][Forward => Later(LocalVersion', LocalVersion)]_vars

(* A release that is published whole: index, metadata and firmware fit.    *)
Published(r) ==
    /\ index # Missing /\ index.latest = r /\ (index.direct \/ r \in index.listed)
    /\ files[r] \in Signed
    /\ metas[r] \in Metadata
    /\ metas[r].version = VersionOf[r] /\ metas[r].sha = files[r] /\ metas[r].sig.of = files[r]

(* A release that stays published reaches the ECU, unless it has a newer   *)
(* one: no sequence of earlier failures keeps the gateway from it.  The    *)
(* user must answer: a gateway left waiting for the touch waits for good,  *)
(* and so does the update (Gateway README, "User confirms update").        *)
UpdateArrives ==
    \A r \in Release :
        <>[]Published(r) /\ []<>(pc # "confirm") => <>[](~Later(VersionOf[r], LocalVersion))
=============================================================================
