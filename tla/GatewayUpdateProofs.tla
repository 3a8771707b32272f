------------------------- MODULE GatewayUpdateProofs -------------------------
(***************************************************************************)
(* Theorems about GatewayUpdate, for every set of releases, versions and   *)
(* payloads, and whatever is uploaded, in any order and any number.        *)
(***************************************************************************)
EXTENDS GatewayVersions, TLAPS

(* An index that is found names a release.                                 *)
LEMMA IndexTypes ==
    ASSUME NEW i \in Indexes
    PROVE  i.latest \in Release
BY GatewayAssumption DEF Index

(* What is uploaded has the types of the publisher's files.                *)
LEMMA BuildTypes ==
    ASSUME NEW b \in Builds
    PROVE  b.release \in Release /\ b.payload \in Payload /\ b.metadata \in Metadata
BY GatewayAssumption

(* The header of metadata that could be read is well typed.                *)
LEMMA HeaderTypes ==
    ASSUME NEW m \in Metadata, HashReadable(m), SignatureReadable(m)
    PROVE  HeaderOf(m) \in [version : Version, sha : Payload \union {Missing},
                            sig : Payload \union {Missing}]
<1>1. m.version \in Version /\ Kept[m.version] \in Version
  BY GatewayAssumption DEF Metadata
<1>2. m.sha \in Payload \union {Missing}
  BY DEF Metadata, ShaField, HashReadable
<1>3. m.sig.of \in Payload \union {Missing}
  <2>1. m.sig \in SigField
    BY DEF Metadata
  <2> QED BY <2>1 DEF SigField
<1> QED BY <1>1, <1>2, <1>3 DEF HeaderOf

(* An attempt that is given up leaves well-typed variables behind.         *)
LEMMA GiveUpTypes ==
    ASSUME GiveUp
    PROVE  /\ pc' = "local" /\ local' \in Version /\ remote' = Missing /\ payload' = Missing
           /\ header' \in [version : Version, sha : Payload \union {Missing},
                           sig : Payload \union {Missing}]
BY GatewayAssumption DEF GiveUp, NoHeader

(* A failing request is counted within its bound.                          *)
LEMMA FaultTypes ==
    ASSUME faults \in 0 .. MaxFaults, faults < MaxFaults, faults' = faults + 1
    PROVE  faults' \in 0 .. MaxFaults
BY GatewayAssumption

(* From the time the index is read an attempt is about a release, and from *)
(* the time the firmware is downloaded there is a payload.                 *)
Chosen ==
    /\ pc \in {"confirm", "header", "download", "verify", "forward"} => remote \in Release
    /\ pc \in {"verify", "forward"} => payload \in Payload

TypeInv == TypeOK /\ Chosen

LEMMA TypeInvHolds == Spec => []TypeInv
<1>1. Init => TypeInv
  BY GatewayAssumption DEF Init, TypeInv, TypeOK, Chosen, NoHeader
<1>2. TypeInv /\ [Next]_vars => TypeInv'
  <2> SUFFICES ASSUME TypeInv, [Next]_vars PROVE TypeInv'
    OBVIOUS
  <2> USE DEF TypeInv, TypeOK, Chosen, web, gateway
  <2>1. CASE Upload
    <3>1. uploads' \in 0 .. MaxUploads
      BY <2>1, GatewayAssumption DEF Upload
    <3>2. CASE UNCHANGED <<index, metas>>
      <4>1. files' \in [Release -> Payload \union {Missing}]
        BY <2>1, BuildTypes DEF Upload
      <4> QED BY <2>1, <3>1, <3>2, <4>1 DEF Upload
    <3>3. CASE UNCHANGED <<index, files>>
      <4>1. metas' \in [Release -> Metadata \union {Missing}]
        BY <2>1, BuildTypes DEF Upload
      <4> QED BY <2>1, <3>1, <3>3, <4>1 DEF Upload
    <3>4. CASE index' \in Indexes /\ UNCHANGED <<files, metas>>
      BY <2>1, <3>1, <3>4 DEF Upload
    <3> QED BY <2>1, <3>2, <3>3, <3>4 DEF Upload
  <2>2. CASE GetLocalVersion
    BY <2>2, GatewayAssumption DEF GetLocalVersion, LocalVersion
  <2>3. CASE GetRemoteVersion
    BY <2>3, GiveUpTypes, IndexTypes DEF GetRemoteVersion
  <2>4. CASE GetHeaderFromMetadata
    <3>1. CASE GiveUp
      BY <2>4, <3>1, GiveUpTypes DEF GetHeaderFromMetadata
    <3>2. CASE ~GiveUp
      <4>1. metas[remote] \in Metadata
        BY <2>4, <3>2 DEF GetHeaderFromMetadata
      <4>2. HeaderOf(metas[remote]) \in [version : Version, sha : Payload \union {Missing},
                                         sig : Payload \union {Missing}]
        BY <2>4, <3>2, <4>1, HeaderTypes DEF GetHeaderFromMetadata
      <4> QED BY <2>4, <3>2, <4>2 DEF GetHeaderFromMetadata
    <3> QED BY <3>1, <3>2
  <2>5. CASE DownloadFirmware
    BY <2>5, GiveUpTypes DEF DownloadFirmware
  <2>6. CASE DownloadShort
    <3>1. faults' \in 0 .. MaxFaults
      BY <2>6, FaultTypes DEF DownloadShort
    <3>2. Cut \in Payload
      BY GatewayAssumption
    <3> QED BY <2>6, <3>1, <3>2, GiveUpTypes DEF DownloadShort
  <2>7. CASE Verify
    BY <2>7, GiveUpTypes DEF Verify
  <2>8. CASE Forward
    BY <2>8, GiveUpTypes DEF Forward
  <2>9. CASE RequestFails
    <3>1. faults' \in 0 .. MaxFaults
      BY <2>9, FaultTypes DEF RequestFails
    <3> QED BY <2>9, <3>1, GiveUpTypes DEF RequestFails
  <2>10. CASE UserConfirms
    BY <2>10 DEF UserConfirms
  <2>11. CASE UNCHANGED vars
    BY <2>11 DEF vars
  <2> QED BY <2>1, <2>2, <2>3, <2>4, <2>5, <2>6, <2>7, <2>8, <2>9, <2>10, <2>11 DEF Next, Attempt
<1> QED BY <1>1, <1>2, PTL DEF Spec

(* The variables keep their types in every reachable state.                *)
THEOREM GatewayTypes == Spec => []TypeOK
BY TypeInvHolds, PTL DEF TypeInv

-----------------------------------------------------------------------------
(* Nothing but a signed payload under its own header is forwarded: of the  *)
(* gateway's steps only Verify leads to the transfer, and no upload        *)
(* changes what has been verified (verify_firmware).                       *)
THEOREM SignedForwarded == Spec => []OnlySignedForwarded
<1>1. Init => OnlySignedForwarded
  BY DEF Init, OnlySignedForwarded
<1>2. OnlySignedForwarded /\ [Next]_vars => OnlySignedForwarded'
  <2> SUFFICES ASSUME OnlySignedForwarded, [Next]_vars, pc' = "forward"
               PROVE  payload' \in Signed /\ header'.sha = payload' /\ header'.sig = payload'
    BY DEF OnlySignedForwarded
  <2>1. CASE Verify
    BY <2>1 DEF Verify, GiveUp, VerifyFirmware, VerifyEcdsa
  <2>2. CASE UNCHANGED gateway
    BY <2>2 DEF gateway, OnlySignedForwarded
  <2>3. CASE GetLocalVersion \/ GetRemoteVersion \/ UserConfirms \/ GetHeaderFromMetadata
    BY <2>3 DEF GetLocalVersion, GetRemoteVersion, UserConfirms, GetHeaderFromMetadata, GiveUp
  <2>4. CASE DownloadFirmware \/ DownloadShort \/ Forward \/ RequestFails
    BY <2>4 DEF DownloadFirmware, DownloadShort, Forward, RequestFails, GiveUp
  <2> QED BY <2>1, <2>2, <2>3, <2>4 DEF Next, Attempt, Upload, vars
<1> QED BY <1>1, <1>2, PTL DEF Spec

-----------------------------------------------------------------------------
(* What NeverDowngrades needs of the publisher: metadata carries a version *)
(* that still has the numbers of its release when it is cut.               *)
Fits(r, v) == v # EmptyVersion /\ Numbers[v] = Numbers[VersionOf[r]]

HonestMetadata == \A b \in Builds : Fits(b.release, Kept[b.metadata.version])

(* The local version stays that of the ECU during an attempt, the release  *)
(* is newer, and the header has the version of the release.                *)
Compared ==
    /\ \A r \in Release : metas[r] # Missing => Fits(r, Kept[metas[r].version])
    /\ pc # "local" => local = LocalVersion
    /\ pc \in {"confirm", "header", "download", "verify", "forward"} =>
           NewerVersion(VersionOf[remote], local)
    /\ pc \in {"download", "verify", "forward"} => Fits(remote, header.version)

(* The parts of a version are numbers.                                     *)
LEMMA PartTypes ==
    ASSUME NEW v \in Version, NEW i \in 1 .. 3
    PROVE  Part(v, i) \in Nat
BY GatewayAssumption DEF Part

(* compare_versions, loop by loop, decides the order of versions.          *)
LEMMA NewerIsLater ==
    ASSUME NEW v \in Version, NEW w \in Version, NewerVersion(v, w)
    PROVE  Later(v, w)
<1>1. PICK i \in 1 .. 3 : Part(v, i) > Part(w, i) /\ \A j \in 1 .. i - 1 : Part(v, j) = Part(w, j)
  BY DEF NewerVersion
<1>2. Part(v, i) # Part(w, i)
  BY <1>1, PartTypes
<1>3. \A j \in 1 .. 3 : Part(v, j) # Part(w, j) => i <= j
  BY <1>1
<1> QED BY <1>1, <1>2, <1>3 DEF Later

(* Only the numbers of a version are compared.                             *)
LEMMA SameNumbers ==
    ASSUME NEW u, NEW v, NEW w, Numbers[u] = Numbers[v], NewerVersion(v, w)
    PROVE  NewerVersion(u, w)
BY DEF NewerVersion, Part

LEMMA ComparedHolds == ASSUME HonestMetadata PROVE Spec => []Compared
<1>1. Init => Compared
  BY DEF Init, Compared
<1>2. TypeInv /\ Compared /\ [Next]_vars => Compared'
  <2> SUFFICES ASSUME TypeInv, Compared, [Next]_vars PROVE Compared'
    OBVIOUS
  <2> USE DEF Compared, web, gateway
  <2>1. CASE Upload
    <3>1. \A r \in Release : metas'[r] # Missing => Fits(r, Kept[metas'[r].version])
      <4>1. CASE UNCHANGED metas
        BY <4>1
      <4>2. ASSUME NEW b \in Builds, metas' = [metas EXCEPT ![b.release] = b.metadata]
            PROVE  \A r \in Release : metas'[r] # Missing => Fits(r, Kept[metas'[r].version])
        BY <4>2, HonestMetadata DEF TypeInv, TypeOK, HonestMetadata
      <4> QED BY <2>1, <4>1, <4>2 DEF Upload
    <3> QED BY <2>1, <3>1 DEF Upload, LocalVersion
  <2>2. CASE GetLocalVersion
    BY <2>2 DEF GetLocalVersion, LocalVersion
  <2>3. CASE GetRemoteVersion
    BY <2>3 DEF GetRemoteVersion, GiveUp, LocalVersion
  <2>4. CASE GetHeaderFromMetadata
    BY <2>4 DEF GetHeaderFromMetadata, GiveUp, LocalVersion, HeaderOf, TypeInv, Chosen
  <2>5. CASE DownloadFirmware \/ DownloadShort \/ Verify
    BY <2>5 DEF DownloadFirmware, DownloadShort, Verify, GiveUp, LocalVersion
  <2>6. CASE Forward \/ RequestFails
    BY <2>6 DEF Forward, RequestFails, GiveUp
  <2>7. CASE UserConfirms
    BY <2>7 DEF UserConfirms, LocalVersion
  <2>8. CASE UNCHANGED vars
    BY <2>8 DEF vars, LocalVersion
  <2> QED BY <2>1, <2>2, <2>3, <2>4, <2>5, <2>6, <2>7, <2>8 DEF Next, Attempt
<1> QED BY <1>1, <1>2, TypeInvHolds, PTL DEF Spec

(* No update is installed twice or undone, whatever is published while the *)
(* gateway works, if metadata carries the version of its release.          *)
THEOREM Upgrades == ASSUME HonestMetadata PROVE Spec => NeverDowngrades
<1>1. TypeInv /\ Compared /\ [Next]_vars => [Forward => Later(LocalVersion', LocalVersion)]_vars
  <2> SUFFICES ASSUME TypeInv, Compared, Forward PROVE Later(LocalVersion', LocalVersion)
    OBVIOUS
  <2>1. Fits(remote, header.version) /\ NewerVersion(VersionOf[remote], LocalVersion)
    BY DEF Forward, Compared
  <2>2. LocalVersion' = header.version
    BY <2>1 DEF Forward, LocalVersion, Fits
  <2>3. NewerVersion(header.version, LocalVersion)
    BY <2>1, SameNumbers DEF Fits
  <2>4. header.version \in Version /\ LocalVersion \in Version
    BY GatewayAssumption DEF TypeInv, TypeOK, LocalVersion
  <2> QED BY <2>2, <2>3, <2>4, NewerIsLater
<1> QED BY <1>1, TypeInvHolds, ComparedHolds, PTL DEF Spec, NeverDowngrades

-----------------------------------------------------------------------------
(* The manager's compare_versions finds the order of versions, too: texts  *)
(* that both programs read as the same numbers are ordered the same.       *)
LEMMA LaterForManager ==
    ASSUME NEW v \in Version, NEW w \in Version, SameForBoth(v), SameForBoth(w), Later(v, w)
    PROVE  ManagerCompare(v, w) = 1
<1> DEFINE vs == ManagerNumbers(v)
           ws == ManagerNumbers(w)
           At(numbers, i) == IF i \in DOMAIN numbers THEN numbers[i] ELSE 0
           differ == {i \in DOMAIN vs \union DOMAIN ws : At(vs, i) # At(ws, i)}
           first == CHOOSE i \in differ : \A j \in differ : i <= j
<1>1. vs = Numbers[v] /\ ws = Numbers[w] /\ vs \in Seq(Nat) /\ ws \in Seq(Nat)
  BY GatewayAssumption, NumbersAssumption DEF SameForBoth
<1>2. ManagerCompare(v, w) = IF differ = {} THEN 0 ELSE IF At(vs, first) < At(ws, first) THEN -1 ELSE 1
  BY DEF ManagerCompare
<1>3. /\ DOMAIN vs = 1 .. Len(vs) /\ Len(vs) \in Nat /\ \A i \in 1 .. Len(vs) : vs[i] \in Nat
      /\ DOMAIN ws = 1 .. Len(ws) /\ Len(ws) \in Nat /\ \A i \in 1 .. Len(ws) : ws[i] \in Nat
  BY <1>1
<1>4. \A i \in 1 .. 3 : At(vs, i) = Part(v, i) /\ At(ws, i) = Part(w, i)
  BY <1>1, <1>3 DEF Part
<1> HIDE DEF vs, ws
<1>5. PICK i \in 1 .. 3 : /\ Part(v, i) # Part(w, i) /\ Part(v, i) > Part(w, i)
                          /\ \A j \in 1 .. 3 : Part(v, j) # Part(w, j) => i <= j
  BY DEF Later
<1>6. i \in differ
  <2>1. At(vs, i) # At(ws, i)
    BY <1>4, <1>5
  <2>2. QED
    BY <2>1
<1>7. ASSUME NEW j \in differ PROVE i <= j
  <2>1. j \in Nat /\ j >= 1 /\ At(vs, j) # At(ws, j)
    BY <1>3
  <2>2. CASE j <= 3
    BY <1>4, <1>5, <2>1, <2>2
  <2>3. CASE ~(j <= 3)
    BY <2>1, <2>3
  <2>4. QED
    BY <2>2, <2>3
<1>8. first = i
  <2>1. first \in differ /\ \A j \in differ : first <= j
    BY <1>6, <1>7
  <2>2. first <= i /\ i <= first /\ first \in Int
    BY <1>3, <1>6, <1>7, <2>1
  <2>3. QED
    BY <2>2
<1>9. At(vs, first) > At(ws, first) /\ At(vs, first) \in Nat /\ At(ws, first) \in Nat
  BY <1>3, <1>4, <1>5, <1>8
<1> HIDE DEF At, differ, first
<1>10. differ # {}
  BY <1>6
<1>11. QED
  BY <1>2, <1>9, <1>10

(* What the gateway gives the ECU as an update is one for the manager,     *)
(* too, whenever both read the two texts as the same numbers.              *)
THEOREM ManagerAgrees == ASSUME HonestMetadata PROVE Spec => NewerForManager
<1>1. TypeInv /\ [Next]_vars /\ [Forward => Later(LocalVersion', LocalVersion)]_vars
        => [Forward /\ SameForBoth(LocalVersion') /\ SameForBoth(LocalVersion) =>
              ManagerCompare(LocalVersion', LocalVersion) = 1]_vars
  <2> SUFFICES ASSUME TypeInv, Forward, SameForBoth(LocalVersion'), SameForBoth(LocalVersion),
                      Later(LocalVersion', LocalVersion)
               PROVE  ManagerCompare(LocalVersion', LocalVersion) = 1
    OBVIOUS
  <2>1. header.version \in Version /\ ecu.version \in Version /\ DefaultVersion \in Version
    BY GatewayAssumption DEF TypeInv, TypeOK
  <2>2. PICK w \in Version : w = LocalVersion
    BY <2>1 DEF LocalVersion
  <2>3. ecu'.version = header.version
    BY DEF Forward
  <2>4. PICK v \in Version : v = LocalVersion'
    BY <2>1, <2>3 DEF LocalVersion
  <2>5. SameForBoth(v) /\ SameForBoth(w) /\ Later(v, w)
    BY <2>2, <2>4
  <2>6. ManagerCompare(v, w) = 1
    BY <2>5, LaterForManager
  <2>7. QED
    BY <2>2, <2>4, <2>6
<1>2. QED
  BY <1>1, TypeInvHolds, Upgrades, PTL DEF Spec, NeverDowngrades, NewerForManager
=============================================================================
