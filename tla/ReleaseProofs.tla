---------------------------- MODULE ReleaseProofs ----------------------------
(***************************************************************************)
(* Theorems about Release and Packet.  First the keys: a manager accepts   *)
(* what it signs, however often keys are generated, saved and loaded, and  *)
(* wherever writes and processes end.  Then the packets: what parse_packet *)
(* and the ECU accept of a stream of packets, for every set of keys,       *)
(* images and versions, any block size and any number of releases, and     *)
(* that the ECU accepts all that is made with its keys.                    *)
(***************************************************************************)
EXTENDS Release, SequenceTheorems, WellFoundedInduction, TLAPS

(* What the operation under way has still to write.                        *)
NoWrite == writing = <<>>
BothKeys == \E k, l \in Pairs :
    /\ writing = <<Write(PrivatePath, k), Write(PublicPath, l)>>
    /\ ~cut => k = l
PublicKeyOnly == \E k \in Pairs :
    /\ writing = <<Write(PublicPath, k)>>
    /\ ~cut => files[PrivatePath] = k
OtherFile == \E w :
    writing = <<w>> /\ w.path \in {AesPath, AesHeader, PublicHeader}

Writes == NoWrite \/ BothKeys \/ PublicKeyOnly \/ OtherFile

(* Keys in memory and in the two files are those of pairs, if any.         *)
KeysOfPairs ==
    /\ private_key \in Pairs \union {None} /\ public_key \in Pairs \union {None}
    /\ DOMAIN files = Paths
    /\ files[PrivatePath] \in Pairs \union {None, Torn}
    /\ files[PublicPath] \in Pairs \union {None, Torn}

(* Unless a save_keys ended between its files, the keys in memory are of   *)
(* one pair, the public file is whole, and the private file is of the same *)
(* pair or torn, except while the public key is being written.             *)
Agreement ==
    ~cut =>
      /\ private_key = public_key
      /\ files[PublicPath] # Torn
      /\ PublicKeyOnly \/ files[PrivatePath] \in {files[PublicPath], Torn}

KeyInv == Writes /\ KeysOfPairs /\ Agreement

USE DEF PrivatePath, PublicPath, AesPath, AesHeader, PublicHeader, Paths

(* A program that starts has no keys and nothing to write.                 *)
LEMMA InitKeyInv == Init => KeyInv
<1>1. SUFFICES ASSUME Init PROVE KeyInv
  OBVIOUS
<1>2. KeyInit
  BY <1>1 DEF Init
<1>3. Writes
  BY <1>2 DEF KeyInit, Writes, NoWrite
<1>4. KeysOfPairs
  BY <1>2 DEF KeyInit, KeysOfPairs
<1>5. Agreement
  <2>1. private_key = public_key
    BY <1>2 DEF KeyInit
  <2>2. files[PublicPath] = None /\ files[PrivatePath] = None
    BY <1>2 DEF KeyInit
  <2>3. None # Torn
    BY KeysAssumption
  <2>4. QED
    BY <2>1, <2>2, <2>3 DEF Agreement
<1>6. QED
  BY <1>3, <1>4, <1>5 DEF KeyInv

(* An operation on the keys in memory (generating, loading, the end of the *)
(* program) preserves the invariant if they stay those of one pair.        *)
LEMMA MemoryOnly ==
  ASSUME KeyInv, NoWrite', files' = files, cut' = cut, ~PublicKeyOnly,
         private_key' \in Pairs \union {None}, public_key' \in Pairs \union {None},
         ~cut => private_key' = public_key'
  PROVE  KeyInv'
<1>1. Writes'
  BY DEF Writes
<1>2. KeysOfPairs'
  BY DEF KeyInv, KeysOfPairs
<1>3. Agreement'
  BY DEF KeyInv, Agreement
<1>4. QED
  BY <1>1, <1>2, <1>3 DEF KeyInv

(* Between two operations the public key is not being written.             *)
LEMMA NothingPending == NoWrite => ~PublicKeyOnly
  BY DEF NoWrite, PublicKeyOnly, Write

(* generate_keypair sets both keys.                                        *)
LEMMA GenerateKeypairKeyInv == KeyInv /\ GenerateKeypair => KeyInv'
<1>1. SUFFICES ASSUME KeyInv, GenerateKeypair PROVE KeyInv'
  OBVIOUS
<1>2. NoWrite /\ NoWrite' /\ files' = files /\ cut' = cut
  BY <1>1 DEF GenerateKeypair, NoWrite
<1>3. \E k \in Pairs : private_key' = k /\ public_key' = k
  BY <1>1 DEF GenerateKeypair
<1>4. QED
  BY <1>1, <1>2, <1>3, NothingPending, MemoryOnly

(* load_keys finds two files of one pair, unless a save_keys was cut.      *)
LEMMA LoadKeysKeyInv == KeyInv /\ LoadKeys => KeyInv'
<1>1. SUFFICES ASSUME KeyInv, LoadKeys PROVE KeyInv'
  OBVIOUS
<1>2. NoWrite /\ NoWrite' /\ files' = files /\ cut' = cut
  BY <1>1 DEF LoadKeys, NoWrite
<1>3. private_key' \in Pairs \union {None} /\ public_key' \in Pairs \union {None}
  BY <1>1 DEF LoadKeys, KeyInv, KeysOfPairs
<1>4. ~PublicKeyOnly
  BY <1>2, NothingPending
<1>5. ~cut => private_key' = public_key'
  BY <1>1, <1>4 DEF LoadKeys, KeyInv, Agreement
<1>6. QED
  BY <1>1, <1>2, <1>3, <1>4, <1>5, MemoryOnly

(* The AES key is another matter.                                          *)
LEMMA AesKeyInv == KeyInv /\ (GenerateAesKey \/ LoadAesKey) => KeyInv'
<1>1. SUFFICES ASSUME KeyInv, GenerateAesKey \/ LoadAesKey PROVE KeyInv'
  OBVIOUS
<1>2. /\ NoWrite /\ NoWrite' /\ files' = files /\ cut' = cut
      /\ private_key' = private_key /\ public_key' = public_key
  BY <1>1 DEF GenerateAesKey, LoadAesKey, NoWrite
<1>3. /\ private_key \in Pairs \union {None} /\ public_key \in Pairs \union {None}
      /\ ~cut => private_key = public_key
  BY <1>1 DEF KeyInv, KeysOfPairs, Agreement
<1>4. QED
  BY <1>1, <1>2, <1>3, NothingPending, MemoryOnly

(* An operation that only writes files changes nothing before its writes.  *)
LEMMA BeginKeyInv ==
  ASSUME KeyInv, NEW writes, Begin(writes), Writes'
  PROVE  KeyInv'
<1>1. /\ NoWrite /\ files' = files /\ cut' = cut
      /\ private_key' = private_key /\ public_key' = public_key
  BY DEF Begin, NoWrite, memory
<1>2. KeysOfPairs'
  BY <1>1 DEF KeyInv, KeysOfPairs
<1>3. ~PublicKeyOnly
  BY <1>1, NothingPending
<1>4. Agreement'
  BY <1>1, <1>3 DEF KeyInv, Agreement
<1>5. QED
  BY <1>2, <1>4 DEF KeyInv

(* save_keys writes the two keys in memory, which are of one pair.         *)
LEMMA SaveKeysKeyInv == KeyInv /\ SaveKeys => KeyInv'
<1>1. SUFFICES ASSUME KeyInv, SaveKeys PROVE KeyInv'
  OBVIOUS
<1>2. Begin(<<Write(PrivatePath, private_key), Write(PublicPath, public_key)>>)
  BY <1>1 DEF SaveKeys
<1>3. private_key \in Pairs /\ public_key \in Pairs
  BY <1>1 DEF SaveKeys, KeyInv, KeysOfPairs
<1>4. writing' = <<Write(PrivatePath, private_key), Write(PublicPath, public_key)>> /\ cut' = cut
  BY <1>2 DEF Begin
<1>5. ~cut' => private_key = public_key
  BY <1>1, <1>4 DEF KeyInv, Agreement
<1>6. BothKeys'
  BY <1>3, <1>4, <1>5 DEF BothKeys, Write
<1>7. Writes'
  BY <1>6 DEF Writes
<1>8. QED
  BY <1>1, <1>2, <1>7, BeginKeyInv

(* save_aes_key and the exports write one file of another name.            *)
LEMMA OtherFileKeyInv == KeyInv /\ (SaveAesKey \/ ExportAesKey \/ ExportPublicKey) => KeyInv'
<1>1. SUFFICES ASSUME KeyInv, SaveAesKey \/ ExportAesKey \/ ExportPublicKey PROVE KeyInv'
  OBVIOUS
<1>2. PICK path \in {AesPath, AesHeader, PublicHeader}, key \in {aes_key, public_key} :
        Begin(<<Write(path, key)>>)
  BY <1>1 DEF SaveAesKey, ExportAesKey, ExportPublicKey
<1>3. writing' = <<Write(path, key)>>
  BY <1>2 DEF Begin
<1>4. OtherFile'
  BY <1>3 DEF OtherFile, Write
<1>5. Writes'
  BY <1>4 DEF Writes
<1>6. QED
  BY <1>1, <1>2, <1>5, BeginKeyInv

(* Writing the second file of save_keys makes the two files agree again.   *)
LEMMA WriteFileKeyInv == KeyInv /\ WriteFile => KeyInv'
<1>1. SUFFICES ASSUME KeyInv, WriteFile PROVE KeyInv'
  OBVIOUS
<1>2. /\ writing # <<>>
      /\ files' = [files EXCEPT ![Head(writing).path] = Head(writing).key]
      /\ writing' = Tail(writing)
      /\ private_key' = private_key /\ public_key' = public_key /\ cut' = cut
  BY <1>1 DEF WriteFile, memory
<1>3. CASE BothKeys
  <2>1. PICK k \in Pairs, l \in Pairs :
          /\ writing = <<Write(PrivatePath, k), Write(PublicPath, l)>>
          /\ ~cut => k = l
    BY <1>3 DEF BothKeys
  <2>2. Head(writing).path = PrivatePath /\ Head(writing).key = k /\ Tail(writing) = <<Write(PublicPath, l)>>
    BY <2>1 DEF Write
  <2>3. files' = [files EXCEPT ![PrivatePath] = k] /\ writing' = <<Write(PublicPath, l)>>
    BY <1>2, <2>2
  <2>4. PublicKeyOnly'
    BY <1>1, <1>2, <2>1, <2>3 DEF PublicKeyOnly, KeyInv, KeysOfPairs, Write
  <2>5. QED
    BY <1>1, <1>2, <2>3, <2>4 DEF KeyInv, Writes, KeysOfPairs, Agreement
<1>4. CASE PublicKeyOnly
  <2>1. PICK k \in Pairs : writing = <<Write(PublicPath, k)>> /\ (~cut => files[PrivatePath] = k)
    BY <1>4 DEF PublicKeyOnly
  <2>2. Head(writing).path = PublicPath /\ Head(writing).key = k /\ Tail(writing) = <<>>
    BY <2>1 DEF Write
  <2>3. files' = [files EXCEPT ![PublicPath] = k] /\ writing' = <<>>
    BY <1>2, <2>2
  <2>4. k # Torn
    BY KeysAssumption
  <2>5. QED
    BY <1>1, <1>2, <2>1, <2>3, <2>4 DEF KeyInv, Writes, NoWrite, KeysOfPairs, Agreement
<1>5. CASE OtherFile
  <2>1. PICK w : writing = <<w>> /\ w.path \in {AesPath, AesHeader, PublicHeader}
    BY <1>5 DEF OtherFile
  <2>2. Head(writing) = w /\ Tail(writing) = <<>>
    BY <2>1
  <2>3. files' = [files EXCEPT ![w.path] = w.key] /\ writing' = <<>>
    BY <1>2, <2>2
  <2>4. ~PublicKeyOnly
    BY <2>1 DEF PublicKeyOnly, Write
  <2>5. QED
    BY <1>1, <1>2, <2>1, <2>3, <2>4 DEF KeyInv, Writes, NoWrite, KeysOfPairs, Agreement
<1>6. QED
  BY <1>1, <1>2, <1>3, <1>4, <1>5 DEF KeyInv, Writes, NoWrite

(* A cut write tears at most the file under way; the end of save_keys      *)
(* between its two files is what cut records.                              *)
LEMMA CutWriteKeyInv ==
  ASSUME KeyInv, ~NoWrite, CutWrite,
         private_key' = public_key' \/ (private_key' = private_key /\ public_key' = public_key),
         private_key' \in Pairs \union {None}, public_key' \in Pairs \union {None}
  PROVE  KeyInv'
<1>1. NoWrite' /\ Writes'
  BY DEF CutWrite, NoWrite, Writes
<1>2. /\ files' \in {files, [files EXCEPT ![Head(writing).path] = Torn]}
      /\ cut' = (cut \/ Head(writing).path = PublicPath)
  BY DEF CutWrite
<1>3. ~cut => private_key' = public_key'
  BY DEF KeyInv, Agreement
<1>4. CASE BothKeys
  <2>1. Head(writing).path = PrivatePath /\ ~PublicKeyOnly
    BY <1>4 DEF BothKeys, PublicKeyOnly, Write
  <2>2. QED
    BY <1>1, <1>2, <1>3, <2>1 DEF KeyInv, KeysOfPairs, Agreement
<1>5. CASE PublicKeyOnly
  <2>1. Head(writing).path = PublicPath
    BY <1>5 DEF PublicKeyOnly, Write
  <2>2. cut'
    BY <1>2, <2>1
  <2>3. QED
    BY <1>1, <1>2, <2>1, <2>2 DEF KeyInv, KeysOfPairs, Agreement
<1>6. CASE OtherFile
  <2>1. PICK w : writing = <<w>> /\ w.path \in {AesPath, AesHeader, PublicHeader}
    BY <1>6 DEF OtherFile
  <2>2. Head(writing).path = w.path
    BY <2>1
  <2>3. ~PublicKeyOnly
    BY <2>1 DEF PublicKeyOnly, Write
  <2>4. QED
    BY <1>1, <1>2, <1>3, <2>2, <2>3 DEF KeyInv, KeysOfPairs, Agreement
<1>7. QED
  BY <1>4, <1>5, <1>6 DEF KeyInv, Writes

(* An exception of open() or write() leaves the keys in memory.            *)
LEMMA WriteFailsKeyInv == KeyInv /\ WriteFails => KeyInv'
<1>1. SUFFICES ASSUME KeyInv, WriteFails PROVE KeyInv'
  OBVIOUS
<1>2. ~NoWrite /\ CutWrite /\ private_key' = private_key /\ public_key' = public_key
  BY <1>1 DEF WriteFails, NoWrite, memory
<1>3. private_key \in Pairs \union {None} /\ public_key \in Pairs \union {None}
  BY <1>1 DEF KeyInv, KeysOfPairs
<1>4. QED
  BY <1>1, <1>2, <1>3, CutWriteKeyInv

(* A program run again has no keys until it loads or generates some.       *)
LEMMA RestartKeyInv == KeyInv /\ Restart => KeyInv'
<1>1. SUFFICES ASSUME KeyInv, Restart PROVE KeyInv'
  OBVIOUS
<1>2. private_key' = None /\ public_key' = None
  BY <1>1 DEF Restart
<1>3. CASE NoWrite
  <2>1. NoWrite' /\ files' = files /\ cut' = cut
    BY <1>1, <1>3 DEF Restart, NoWrite
  <2>2. QED
    BY <1>1, <1>2, <1>3, <2>1, NothingPending, MemoryOnly
<1>4. CASE ~NoWrite
  <2>1. CutWrite
    BY <1>1, <1>4 DEF Restart, NoWrite
  <2>2. QED
    BY <1>1, <1>2, <1>4, <2>1, CutWriteKeyInv
<1>5. QED
  BY <1>3, <1>4

(* Releases, the ECU and its slot do not touch the manager's keys.         *)
LEMMA OthersKeyInv == KeyInv /\ UNCHANGED keyVars => KeyInv'
<1>1. SUFFICES ASSUME KeyInv, UNCHANGED keyVars PROVE KeyInv'
  OBVIOUS
<1>2. /\ private_key' = private_key /\ public_key' = public_key
      /\ files' = files /\ writing' = writing /\ cut' = cut
  BY <1>1 DEF keyVars, memory
<1>3. Writes'
  BY <1>1, <1>2 DEF KeyInv, Writes, NoWrite, BothKeys, PublicKeyOnly, OtherFile
<1>4. KeysOfPairs'
  BY <1>1, <1>2 DEF KeyInv, KeysOfPairs
<1>5. Agreement'
  BY <1>1, <1>2 DEF KeyInv, Agreement, PublicKeyOnly
<1>6. QED
  BY <1>3, <1>4, <1>5 DEF KeyInv

(* Every step preserves the invariant.                                     *)
LEMMA NextKeyInv == KeyInv /\ [Next]_vars => KeyInv'
<1>1. SUFFICES ASSUME KeyInv, [Next]_vars PROVE KeyInv'
  OBVIOUS
<1>2. CASE KeyNext
  <2>1. CASE GenerateKeypair
    BY <1>1, <2>1, GenerateKeypairKeyInv
  <2>2. CASE SaveKeys
    BY <1>1, <2>2, SaveKeysKeyInv
  <2>3. CASE LoadKeys
    BY <1>1, <2>3, LoadKeysKeyInv
  <2>4. CASE GenerateAesKey \/ LoadAesKey
    BY <1>1, <2>4, AesKeyInv
  <2>5. CASE SaveAesKey \/ ExportAesKey \/ ExportPublicKey
    BY <1>1, <2>5, OtherFileKeyInv
  <2>6. CASE WriteFile
    BY <1>1, <2>6, WriteFileKeyInv
  <2>7. CASE WriteFails
    BY <1>1, <2>7, WriteFailsKeyInv
  <2>8. CASE Restart
    BY <1>1, <2>8, RestartKeyInv
  <2>9. QED
    BY <1>2, <2>1, <2>2, <2>3, <2>4, <2>5, <2>6, <2>7, <2>8 DEF KeyNext
<1>3. CASE UNCHANGED keyVars
  BY <1>1, <1>3, OthersKeyInv
<1>4. KeyNext \/ UNCHANGED keyVars
  BY <1>1 DEF Next, KeyStep, Prepare, BuildEcu, Install, vars
<1>5. QED
  BY <1>2, <1>3, <1>4

(* In a run of the manager, the two keys in memory and the two key files   *)
(* are of one pair, or one of them is missing or torn, as long as no       *)
(* save_keys has ended between its two files.                              *)
THEOREM KeysAgree == Spec => []KeyInv
<1>1. Init => KeyInv
  BY InitKeyInv
<1>2. KeyInv /\ [Next]_vars => KeyInv'
  BY NextKeyInv
<1>3. QED
  BY <1>1, <1>2, PTL DEF Spec

(* A signature of the manager verifies with its own keys, those in memory  *)
(* and those of the files.                                                 *)
THEOREM ManagerVerifiesItself == Spec => []SelfVerifies
<1>1. KeyInv => SelfVerifies
  <2>1. ASSUME NEW k PROVE Agree(k, k)
    BY DEF Agree, VerifySignature, SignData
  <2>2. SUFFICES ASSUME KeyInv, ~cut PROVE
          /\ {private_key, public_key} \subseteq Pairs => Agree(private_key, public_key)
          /\ writing = <<>> /\ {files[PrivatePath], files[PublicPath]} \subseteq Pairs =>
               Agree(files[PrivatePath], files[PublicPath])
    BY DEF SelfVerifies
  <2>3. private_key = public_key
    BY <2>2 DEF KeyInv, Agreement
  <2>4. writing = <<>> => ~PublicKeyOnly
    BY NothingPending DEF NoWrite
  <2>5. writing = <<>> /\ files[PrivatePath] # Torn => files[PrivatePath] = files[PublicPath]
    BY <2>2, <2>4 DEF KeyInv, Agreement
  <2>6. Torn \notin Pairs
    BY KeysAssumption
  <2>7. QED
    BY <2>1, <2>3, <2>5, <2>6
<1>2. QED
  BY <1>1, KeysAgree, PTL

-----------------------------------------------------------------------------
(* Types of everything but the slot: what a file of each name may hold.    *)
Keys(path) ==
    CASE path \in {PrivatePath, PublicPath, PublicHeader} -> Pairs
      [] path = AesPath -> AesKeys
      [] path = AesHeader -> AesKeys \union {Short}

AnyKey == Pairs \union AesKeys \union {Short}
TypedWrites == {w \in [path : Paths, key : AnyKey] : w.key \in Keys(w.path)}

MemoryTyped ==
    /\ private_key \in Pairs \union {None}
    /\ public_key \in Pairs \union {None}
    /\ aes_key \in AesKeys \union {None, Short}
FilesTyped ==
    /\ files \in [Paths -> AnyKey \union {None, Torn}]
    /\ \A p \in Paths : files[p] \in Keys(p) \union {None, Torn}
WritesTyped == writing \in Seq(TypedWrites) /\ Len(writing) <= 2
CountersTyped ==
    /\ used \subseteq Pairs \union AesKeys
    /\ failures \in 0 .. MaxFailures
    /\ cut \in BOOLEAN
KeysTyped == MemoryTyped /\ FilesTyped /\ WritesTyped /\ CountersTyped

ReleaseRecords == [build : Builds, private : Pairs, aes : AesKeys]
ReleasesTyped == releases \in Seq(ReleaseRecords) /\ Len(releases) <= MaxReleases
EcuTyped == ecu \in [public : Pairs, aes : AesKeys \union {Short}] \union {None}

Typed == KeysTyped /\ ReleasesTyped /\ EcuTyped

(* The paths are five different names.                                     *)
LEMMA KeysOfPath ==
    /\ Keys(PrivatePath) = Pairs /\ Keys(PublicPath) = Pairs /\ Keys(PublicHeader) = Pairs
    /\ Keys(AesPath) = AesKeys /\ Keys(AesHeader) = AesKeys \union {Short}
    /\ \A p \in Paths : Keys(p) \subseteq AnyKey
  BY DEF Keys, AnyKey

(* A key of the path's kind makes a write of the right type.               *)
LEMMA WriteTyped ==
    ASSUME NEW path \in Paths, NEW key \in Keys(path)
    PROVE  Write(path, key) \in TypedWrites
<1>1. key \in AnyKey
  BY KeysOfPath
<1>2. QED
  BY <1>1 DEF Write, TypedWrites

(* An operation on the keys in memory keeps the types.                     *)
LEMMA MemoryKeysTyped ==
    ASSUME KeysTyped, GenerateKeypair \/ GenerateAesKey \/ LoadKeys \/ LoadAesKey
    PROVE  KeysTyped'
<1>1. UNCHANGED <<files, writing, failures, cut>>
  BY DEF GenerateKeypair, GenerateAesKey, LoadKeys, LoadAesKey
<1>2. used' \subseteq Pairs \union AesKeys
  BY DEF GenerateKeypair, GenerateAesKey, LoadKeys, LoadAesKey, KeysTyped, CountersTyped
<1>3. FilesTyped' /\ WritesTyped' /\ CountersTyped'
  BY <1>1, <1>2 DEF KeysTyped, FilesTyped, WritesTyped, CountersTyped
<1>4. MemoryTyped'
  <2>1. /\ files[PrivatePath] \in Pairs \union {None, Torn}
        /\ files[PublicPath] \in Pairs \union {None, Torn}
        /\ files[AesPath] \in AesKeys \union {None, Torn}
    BY KeysOfPath DEF KeysTyped, FilesTyped
  <2>2. QED
    BY <2>1 DEF GenerateKeypair, GenerateAesKey, LoadKeys, LoadAesKey, KeysTyped, MemoryTyped
<1>5. QED
  BY <1>3, <1>4 DEF KeysTyped

(* Starting to write files keeps the types, if the keys fit the paths.     *)
LEMMA BeginKeysTyped ==
    ASSUME KeysTyped, NEW writes \in Seq(TypedWrites), Len(writes) <= 2, Begin(writes)
    PROVE  KeysTyped'
<1>1. writing' = writes /\ UNCHANGED <<private_key, public_key, aes_key, files, used, failures, cut>>
  BY DEF Begin, memory
<1>2. MemoryTyped' /\ FilesTyped' /\ WritesTyped' /\ CountersTyped'
  BY <1>1 DEF KeysTyped, MemoryTyped, FilesTyped, WritesTyped, CountersTyped
<1>3. QED
  BY <1>2 DEF KeysTyped

(* Saving and exporting write the keys of memory to files of their kind.   *)
LEMMA SaveKeysTyped ==
    ASSUME KeysTyped, SaveKeys \/ SaveAesKey \/ ExportAesKey \/ ExportPublicKey
    PROVE  KeysTyped'
<1>1. MemoryTyped
  BY DEF KeysTyped
<1>2. CASE SaveKeys
  <2>1. private_key \in Pairs /\ public_key \in Pairs
    BY <1>1, <1>2 DEF MemoryTyped, SaveKeys
  <2>2. Write(PrivatePath, private_key) \in TypedWrites /\ Write(PublicPath, public_key) \in TypedWrites
    BY <2>1, WriteTyped, KeysOfPath
  <2>3. DEFINE writes == <<Write(PrivatePath, private_key), Write(PublicPath, public_key)>>
  <2>4. writes \in Seq(TypedWrites) /\ Len(writes) <= 2 /\ Begin(writes)
    BY <1>2, <2>2 DEF SaveKeys
  <2>5. QED
    BY <2>4, BeginKeysTyped
<1>3. ASSUME NEW path \in Paths, NEW key \in Keys(path), Begin(<<Write(path, key)>>)
      PROVE  KeysTyped'
  <2>1. <<Write(path, key)>> \in Seq(TypedWrites) /\ Len(<<Write(path, key)>>) <= 2
    BY WriteTyped
  <2>2. QED
    BY <1>3, <2>1, BeginKeysTyped
<1>4. CASE SaveAesKey
  <2>1. aes_key \in Keys(AesPath) /\ Begin(<<Write(AesPath, aes_key)>>)
    BY <1>4, KeysOfPath DEF SaveAesKey
  <2>2. QED
    BY <1>3, <2>1
<1>5. CASE ExportAesKey
  <2>1. aes_key \in Keys(AesHeader) /\ Begin(<<Write(AesHeader, aes_key)>>)
    BY <1>1, <1>5, KeysOfPath DEF ExportAesKey, MemoryTyped
  <2>2. QED
    BY <1>3, <2>1
<1>6. CASE ExportPublicKey
  <2>1. public_key \in Keys(PublicHeader) /\ Begin(<<Write(PublicHeader, public_key)>>)
    BY <1>1, <1>6, KeysOfPath DEF ExportPublicKey, MemoryTyped
  <2>2. QED
    BY <1>3, <2>1
<1>7. QED
  BY <1>2, <1>4, <1>5, <1>6

(* A file under way gets its key or is torn; the rest is still to write.   *)
LEMMA WritingKeysTyped ==
    ASSUME KeysTyped, writing # <<>>,
           \/ WriteFile
           \/ CutWrite /\ used' = used /\ failures' = failures + 1 /\ failures < MaxFailures
    PROVE  FilesTyped' /\ WritesTyped' /\ CountersTyped'
<1>1. /\ writing \in Seq(TypedWrites) /\ Len(writing) <= 2
      /\ files \in [Paths -> AnyKey \union {None, Torn}]
      /\ \A p \in Paths : files[p] \in Keys(p) \union {None, Torn}
  BY DEF KeysTyped, FilesTyped, WritesTyped
<1>2. /\ Head(writing) \in TypedWrites /\ Tail(writing) \in Seq(TypedWrites)
      /\ Len(Tail(writing)) = Len(writing) - 1 /\ Len(writing) \in Nat
  BY <1>1, HeadTailProperties, LenProperties
<1>3. DEFINE path == Head(writing).path
             key == Head(writing).key
<1>4. path \in Paths /\ key \in Keys(path) /\ key \in AnyKey
  BY <1>2 DEF TypedWrites
<1> HIDE DEF path, key
<1>5. ASSUME NEW new \in Keys(path) \union {Torn}, new \in AnyKey \union {Torn},
             files' = [files EXCEPT ![path] = new]
      PROVE  FilesTyped'
  BY <1>1, <1>4, <1>5 DEF FilesTyped
<1>6. FilesTyped'
  <2>1. CASE WriteFile
    <3>1. files' = [files EXCEPT ![path] = key]
      BY <2>1 DEF WriteFile, path, key
    <3>2. QED
      BY <1>4, <1>5, <3>1
  <2>2. CASE CutWrite
    <3>1. files' = files \/ files' = [files EXCEPT ![path] = Torn]
      BY <2>2 DEF CutWrite, path
    <3>2. QED
      BY <1>1, <1>5, <3>1 DEF FilesTyped
  <2>3. QED
    BY <2>1, <2>2
<1>7. WritesTyped'
  <2>1. CASE WriteFile
    <3>1. writing' = Tail(writing)
      BY <2>1 DEF WriteFile
    <3>2. QED
      BY <1>1, <1>2, <3>1 DEF WritesTyped
  <2>2. CASE CutWrite
    <3>1. writing' = <<>>
      BY <2>2 DEF CutWrite
    <3>2. QED
      BY <3>1 DEF WritesTyped
  <2>3. QED
    BY <2>1, <2>2
<1>8. CountersTyped'
  <2>1. CountersTyped /\ MaxFailures \in Nat
    BY KeysAssumption DEF KeysTyped
  <2>2. cut' \in BOOLEAN
    BY <2>1 DEF WriteFile, CutWrite, CountersTyped
  <2>3. used' = used /\ (failures' = failures \/ (failures' = failures + 1 /\ failures < MaxFailures))
    BY DEF WriteFile
  <2>4. QED
    BY <2>1, <2>2, <2>3 DEF CountersTyped
<1>9. QED
  BY <1>6, <1>7, <1>8

(* A write that ends, one that fails and a program that is run again.      *)
LEMMA RunningKeysTyped ==
    ASSUME KeysTyped, WriteFile \/ WriteFails \/ Restart
    PROVE  KeysTyped'
<1>1. MemoryTyped'
  <2>1. \/ private_key' = private_key /\ public_key' = public_key /\ aes_key' = aes_key
        \/ private_key' = None /\ public_key' = None /\ aes_key' = None
    BY DEF WriteFile, WriteFails, Restart, memory
  <2>2. QED
    BY <2>1 DEF KeysTyped, MemoryTyped
<1>2. CASE writing # <<>>
  <2>1. \/ WriteFile
        \/ CutWrite /\ used' = used /\ failures' = failures + 1 /\ failures < MaxFailures
    BY <1>2 DEF WriteFails, Restart
  <2>2. QED
    BY <1>1, <1>2, <2>1, WritingKeysTyped DEF KeysTyped
<1>3. CASE writing = <<>>
  <2>1. /\ files' = files /\ writing' = writing /\ cut' = cut /\ used' = used
        /\ failures' = failures + 1 /\ failures < MaxFailures
    BY <1>3 DEF WriteFile, WriteFails, Restart
  <2>2. MaxFailures \in Nat
    BY KeysAssumption
  <2>3. FilesTyped' /\ WritesTyped'
    BY <2>1 DEF KeysTyped, FilesTyped, WritesTyped
  <2>4. CountersTyped'
    BY <2>1, <2>2 DEF KeysTyped, CountersTyped
  <2>5. QED
    BY <1>1, <2>3, <2>4 DEF KeysTyped
<1>4. QED
  BY <1>2, <1>3

(* Every step keeps the types of the keys, the releases and the ECU.       *)
LEMMA NextTyped == Typed /\ [Next]_vars => Typed'
<1>1. SUFFICES ASSUME Typed, [Next]_vars PROVE Typed'
  OBVIOUS
<1>2. KeysTyped'
  <2>1. CASE KeyNext
    BY <1>1, <2>1, MemoryKeysTyped, SaveKeysTyped, RunningKeysTyped DEF KeyNext, Typed
  <2>2. CASE UNCHANGED keyVars
    <3>1. UNCHANGED <<private_key, public_key, aes_key, files, writing, used, failures, cut>>
      BY <2>2 DEF keyVars, memory
    <3>2. MemoryTyped' /\ FilesTyped' /\ WritesTyped' /\ CountersTyped'
      BY <1>1, <3>1 DEF Typed, KeysTyped, MemoryTyped, FilesTyped, WritesTyped, CountersTyped
    <3>3. QED
      BY <3>2 DEF KeysTyped
  <2>3. KeyNext \/ UNCHANGED keyVars
    BY <1>1 DEF Next, KeyStep, Prepare, BuildEcu, Install, vars
  <2>4. QED
    BY <2>1, <2>2, <2>3
<1>3. ReleasesTyped'
  <2>1. CASE Prepare
    <3>1. PICK build \in Builds :
            releases' = Append(releases, [build |-> build, private |-> private_key, aes |-> aes_key])
      BY <2>1 DEF Prepare
    <3>2. private_key \in Pairs /\ aes_key \in AesKeys /\ Len(releases) < MaxReleases
      BY <1>1, <2>1 DEF Prepare, Typed, KeysTyped, MemoryTyped
    <3>3. [build |-> build, private |-> private_key, aes |-> aes_key] \in ReleaseRecords
      BY <3>2 DEF ReleaseRecords
    <3>4. releases \in Seq(ReleaseRecords) /\ Len(releases) \in Nat /\ MaxReleases \in Nat
      BY <1>1, LenProperties, ReleaseAssumption DEF Typed, ReleasesTyped
    <3>5. releases' \in Seq(ReleaseRecords) /\ Len(releases') = Len(releases) + 1
      BY <3>1, <3>3, <3>4, AppendProperties
    <3>6. QED
      BY <3>2, <3>4, <3>5 DEF ReleasesTyped
  <2>2. CASE releases' = releases
    BY <1>1, <2>2 DEF Typed, ReleasesTyped
  <2>3. QED
    BY <1>1, <2>1, <2>2 DEF Next, KeyStep, BuildEcu, Install, vars
<1>4. EcuTyped'
  <2>1. CASE BuildEcu
    <3>1. files[PublicHeader] \in Pairs /\ files[AesHeader] \in AesKeys \union {Short}
      BY <1>1, <2>1, KeysOfPath DEF BuildEcu, Typed, KeysTyped, FilesTyped
    <3>2. QED
      BY <2>1, <3>1 DEF BuildEcu, EcuTyped
  <2>2. CASE ecu' = ecu
    BY <1>1, <2>2 DEF Typed, EcuTyped
  <2>3. QED
    BY <1>1, <2>1, <2>2 DEF Next, KeyStep, Prepare, Install, vars
<1>5. QED
  BY <1>2, <1>3, <1>4 DEF Typed

(* Whatever is generated, saved, torn, loaded, released and compiled in,   *)
(* each file holds keys of its kind and releases are made of real keys.    *)
THEOREM KeysKeepTypes == Spec => []Typed
<1>1. Init => Typed
  <2>1. SUFFICES ASSUME Init PROVE Typed
    OBVIOUS
  <2>2. MemoryTyped /\ FilesTyped /\ CountersTyped
    <3>1. KeyInit
      BY <2>1 DEF Init
    <3>2. MemoryTyped
      BY <3>1 DEF KeyInit, MemoryTyped
    <3>3. FilesTyped
      BY <3>1 DEF KeyInit, FilesTyped
    <3>4. MaxFailures \in Nat
      BY KeysAssumption
    <3>5. CountersTyped
      <4>1. used \subseteq Pairs \union AesKeys
        BY <3>1 DEF KeyInit
      <4>2. failures \in 0 .. MaxFailures
        BY <3>1, <3>4 DEF KeyInit
      <4>3. cut \in BOOLEAN
        BY <3>1 DEF KeyInit
      <4>4. QED
        BY <4>1, <4>2, <4>3 DEF CountersTyped
    <3>6. QED
      BY <3>2, <3>3, <3>5
  <2>3. WritesTyped
    BY <2>1 DEF Init, KeyInit, WritesTyped
  <2>4. ReleasesTyped /\ EcuTyped
    BY <2>1, ReleaseAssumption DEF Init, ReleasesTyped, EcuTyped
  <2>5. QED
    BY <2>2, <2>3, <2>4 DEF Typed, KeysTyped
<1>2. Typed /\ [Next]_vars => Typed'
  BY NextTyped
<1>3. QED
  BY <1>1, <1>2, PTL DEF Spec

-----------------------------------------------------------------------------
(* Sequences of cells of any kind.                                         *)
IsSeq(s) == s \in Seq(ToSet(s))

(* A sequence over any set is one over its own elements.                   *)
LEMMA SeqIsSeq ==
    ASSUME NEW S, NEW s \in Seq(S)
    PROVE  IsSeq(s)
<1>1. s \in [1 .. Len(s) -> S] /\ Len(s) \in Nat /\ DOMAIN s = 1 .. Len(s)
  BY LenProperties
<1>2. s \in [1 .. Len(s) -> ToSet(s)]
  BY <1>1 DEF ToSet
<1>3. s \in UNION {[1 .. n -> ToSet(s)] : n \in Nat}
  BY <1>1, <1>2
<1>4. QED
  BY <1>3, SeqDef DEF IsSeq

(* What one sequence after the other consists of.                          *)
LEMMA ConcatSeq ==
    ASSUME NEW s, NEW t, IsSeq(s), IsSeq(t)
    PROVE  /\ IsSeq(s \o t) /\ Len(s) \in Nat /\ Len(t) \in Nat
           /\ Len(s \o t) = Len(s) + Len(t)
           /\ \A i \in 1 .. Len(s) : (s \o t)[i] = s[i]
           /\ \A i \in 1 .. Len(t) : (s \o t)[Len(s) + i] = t[i]
<1> DEFINE S == ToSet(s) \union ToSet(t)
<1>1. s \in Seq(S) /\ t \in Seq(S)
  BY SeqMonotonic DEF IsSeq
<1> HIDE DEF S
<1>2. /\ s \o t \in Seq(S) /\ Len(s \o t) = Len(s) + Len(t)
      /\ \A i \in 1 .. Len(s) + Len(t) : (s \o t)[i] = IF i <= Len(s) THEN s[i] ELSE t[i - Len(s)]
  BY <1>1, ConcatProperties
<1>3. Len(s) \in Nat /\ Len(t) \in Nat
  BY <1>1, LenProperties
<1>4. IsSeq(s \o t)
  <2>1. s \o t \in Seq(S)
    BY <1>2
  <2>2. QED
    BY <2>1, SeqIsSeq
<1>5. \A i \in 1 .. Len(s) : (s \o t)[i] = s[i]
  BY <1>2, <1>3
<1>6. \A i \in 1 .. Len(t) : (s \o t)[Len(s) + i] = t[i]
  <2>1. TAKE i \in 1 .. Len(t)
  <2>2. /\ Len(s) + i \in 1 .. Len(s) + Len(t) /\ ~(Len(s) + i <= Len(s))
        /\ (Len(s) + i) - Len(s) = i
    BY <1>3
  <2>3. QED
    BY <1>2, <2>2
<1>7. QED
  BY <1>2, <1>3, <1>4, <1>5, <1>6

(* What a part of a sequence consists of.                                  *)
LEMMA PartOfSeq ==
    ASSUME NEW s, IsSeq(s), NEW i \in 1 .. Len(s), NEW j \in i .. Len(s)
    PROVE  /\ IsSeq(SubSeq(s, i, j)) /\ Len(SubSeq(s, i, j)) = j - i + 1
           /\ \A n \in 1 .. j - i + 1 : SubSeq(s, i, j)[n] = s[i + n - 1]
<1>1. Len(s) \in Nat /\ \A n \in 1 .. Len(s) : s[n] \in ToSet(s)
  BY LenProperties, ElementOfSeq DEF IsSeq
<1>2. \A n \in i .. j : s[n] \in ToSet(s)
  BY <1>1
<1>3. /\ SubSeq(s, i, j) \in Seq(ToSet(s))
      /\ Len(SubSeq(s, i, j)) = IF i <= j THEN j - i + 1 ELSE 0
      /\ \A n \in 1 .. j - i + 1 : SubSeq(s, i, j)[n] = s[i + n - 1]
  <2>1. i \in Int /\ j \in Int
    BY <1>1
  <2>2. QED
    BY <1>2, <2>1, SubSeqProperties
<1>4. IsSeq(SubSeq(s, i, j))
  BY <1>3, SeqIsSeq
<1>5. i <= j
  BY <1>1
<1>6. QED
  BY <1>3, <1>4, <1>5

(* Two sequences of the same cells are the same.                           *)
LEMMA SameSeq ==
    ASSUME NEW s, NEW t, IsSeq(s), IsSeq(t), Len(s) = Len(t),
           \A n \in 1 .. Len(s) : s[n] = t[n]
    PROVE  s = t
<1>1. s \in Seq(ToSet(s) \union ToSet(t)) /\ t \in Seq(ToSet(s) \union ToSet(t))
  BY SeqMonotonic DEF IsSeq
<1>2. QED
  BY <1>1, SeqEqual

-----------------------------------------------------------------------------
(* The fields of a header by their places (HEADER_FORMAT).                 *)
LEMMA FieldPlaces ==
    ASSUME NEW header
    PROVE  LET parsed == ParseHeader(header)
           IN  /\ HeaderSize = 8
               /\ parsed.magic = header[1] /\ parsed.version = header[2]
               /\ parsed.file_size = header[3] /\ parsed.sha256_hash = header[4]
               /\ parsed.ecdsa_signature = header[5] /\ parsed.aes_iv = header[6]
               /\ parsed.original_sha256 = header[7] /\ parsed.plaintext_signature = header[8]
<1>1. HeaderSize = 8
  BY DEF HeaderSize, HeaderFields
<1>2. /\ HeaderFields[1] = "magic" /\ HeaderFields[2] = "version" /\ HeaderFields[3] = "file_size"
      /\ HeaderFields[4] = "sha256_hash" /\ HeaderFields[5] = "ecdsa_signature"
      /\ HeaderFields[6] = "aes_iv" /\ HeaderFields[7] = "original_sha256"
      /\ HeaderFields[8] = "plaintext_signature"
  BY DEF HeaderFields
<1>3. \A i, j \in 1 .. 8 : HeaderFields[i] = HeaderFields[j] => i = j
  <2>1. \A i \in 1 .. 8 : i \in {1, 2, 3, 4, 5, 6, 7, 8}
    OBVIOUS
  <2>2. QED
    BY <1>2, <2>1
<1>4. \A n \in 1 .. 8 : ParseHeader(header)[HeaderFields[n]] = header[n]
  <2>1. TAKE n \in 1 .. 8
  <2>2. (CHOOSE i \in 1 .. 8 : HeaderFields[i] = HeaderFields[n]) = n
    BY <1>3
  <2>3. QED
    BY <1>1, <2>2 DEF ParseHeader
<1>5. QED
  BY <1>1, <1>2, <1>4

(* The cells of a packet: only the first is the magic, the size is that of *)
(* the firmware, which follows the header, and the header is the fields'.  *)
IsPacket(packet, f, firmware) ==
    /\ IsSeq(packet) /\ Len(packet) = Len(firmware) + 8 /\ Len(firmware) \in Nat
    /\ packet[1] = Magic /\ packet[2] = VersionCell(f.version)
    /\ packet[3] = SizeCell(Len(firmware)) /\ packet[4] = f.sha256_hash
    /\ packet[5] = f.ecdsa_signature /\ packet[6] = f.aes_iv
    /\ packet[7] = f.original_sha256 /\ packet[8] = f.plaintext_signature
    /\ \A n \in 1 .. Len(firmware) : packet[8 + n] = firmware[n]
    /\ \A n \in 1 .. Len(packet) : packet[n] = Magic => n = 1

(* create_packet gives such a packet.                                      *)
LEMMA PacketCells ==
    ASSUME NEW f, NEW firmware, IsSeq(firmware), \A n \in 1 .. Len(firmware) : firmware[n] # Magic,
           Magic \notin {f.sha256_hash, f.ecdsa_signature, f.aes_iv, f.original_sha256,
                         f.plaintext_signature}
    PROVE  IsPacket(CreatePacket(f, firmware), f, firmware)
<1> DEFINE header == CreateHeader(f, Len(firmware))
<1>1. /\ header[1] = Magic /\ header[2] = VersionCell(f.version)
      /\ header[3] = SizeCell(Len(firmware)) /\ header[4] = f.sha256_hash
      /\ header[5] = f.ecdsa_signature /\ header[6] = f.aes_iv
      /\ header[7] = f.original_sha256 /\ header[8] = f.plaintext_signature
  BY DEF CreateHeader
<1>2. Len(header) = 8 /\ IsSeq(header)
  <2>1. header \in Seq({Magic, VersionCell(f.version), SizeCell(Len(firmware)), f.sha256_hash,
                        f.ecdsa_signature, f.aes_iv, f.original_sha256, f.plaintext_signature})
    BY DEF CreateHeader
  <2>2. Len(header) = 8
    BY DEF CreateHeader
  <2>3. QED
    BY <2>1, <2>2, SeqIsSeq
<1>3. VersionCell(f.version) # Magic /\ SizeCell(Len(firmware)) # Magic
  <2>1. Magic[1] = "magic" /\ VersionCell(f.version)[1] = "version" /\ SizeCell(Len(firmware))[1] = "size"
    BY DEF Magic, VersionCell, SizeCell
  <2>2. QED
    BY <2>1
<1>4. \A n \in 2 .. 8 : header[n] # Magic
  <2>1. \A n \in 2 .. 8 : n \in {2, 3, 4, 5, 6, 7, 8}
    OBVIOUS
  <2>2. QED
    BY <1>1, <1>3, <2>1
<1> HIDE DEF header
<1>5. /\ IsSeq(header \o firmware) /\ Len(firmware) \in Nat /\ Len(header \o firmware) = 8 + Len(firmware)
      /\ \A n \in 1 .. 8 : (header \o firmware)[n] = header[n]
      /\ \A n \in 1 .. Len(firmware) : (header \o firmware)[8 + n] = firmware[n]
  <2>1. /\ IsSeq(header \o firmware) /\ Len(header) \in Nat /\ Len(firmware) \in Nat
        /\ Len(header \o firmware) = Len(header) + Len(firmware)
        /\ \A n \in 1 .. Len(header) : (header \o firmware)[n] = header[n]
        /\ \A n \in 1 .. Len(firmware) : (header \o firmware)[Len(header) + n] = firmware[n]
    <3>1. IsSeq(header) /\ IsSeq(firmware)
      BY <1>2
    <3>2. QED
      BY ONLY <3>1, ConcatSeq
  <2>2. QED
    BY <1>2, <2>1
<1>6. \A n \in 1 .. 8 + Len(firmware) : (header \o firmware)[n] = Magic => n = 1
  <2>1. TAKE n \in 1 .. 8 + Len(firmware)
  <2>2. CASE n <= 8
    <3>1. n \in 1 .. 8 /\ (n # 1 => n \in 2 .. 8)
      BY <2>2
    <3>2. QED
      BY <1>4, <1>5, <3>1
  <2>3. CASE n > 8
    <3>1. n - 8 \in 1 .. Len(firmware) /\ 8 + (n - 8) = n
      BY <1>5, <2>3
    <3>2. QED
      BY <1>5, <3>1
  <2>4. QED
    BY <1>5, <2>2, <2>3
<1>7. PICK packet : packet = CreatePacket(f, firmware) /\ packet = header \o firmware
  BY DEF CreatePacket, header
<1>8. /\ IsSeq(packet) /\ Len(packet) = 8 + Len(firmware)
      /\ \A n \in 1 .. 8 : packet[n] = header[n]
      /\ \A n \in 1 .. Len(firmware) : packet[8 + n] = firmware[n]
  BY <1>5, <1>7
<1>9. \A n \in 1 .. Len(packet) : packet[n] = Magic => n = 1
  BY <1>6, <1>7, <1>8
<1>10. /\ packet[1] = header[1] /\ packet[2] = header[2] /\ packet[3] = header[3] /\ packet[4] = header[4]
       /\ packet[5] = header[5] /\ packet[6] = header[6] /\ packet[7] = header[7] /\ packet[8] = header[8]
  BY <1>8
<1>11. IsPacket(packet, f, firmware)
  BY <1>1, <1>8, <1>9, <1>10 DEF IsPacket
<1>12. QED
  BY <1>7, <1>11

-----------------------------------------------------------------------------
(* What encrypt_firmware and the fields of create_packet are made of.      *)

(* A function on 1 .. n is a sequence of n elements.                       *)
LEMMA FunctionSeq ==
    ASSUME NEW n \in Nat, NEW S, NEW g \in [1 .. n -> S]
    PROVE  IsSeq(g) /\ Len(g) = n /\ DOMAIN g = 1 .. n
<1>1. g \in UNION {[1 .. m -> S] : m \in Nat}
  OBVIOUS
<1>2. g \in Seq(S)
  BY <1>1, SeqDef
<1>3. DOMAIN g = 1 .. Len(g) /\ DOMAIN g = 1 .. n /\ Len(g) \in Nat
  BY <1>2, LenProperties
<1>4. Len(g) = n
  BY <1>3
<1>5. QED
  BY <1>2, <1>3, <1>4, SeqIsSeq

(* The cells of an image, one for each byte.                               *)
LEMMA ImageCells ==
    ASSUME NEW image \in Seq(Bytes)
    PROVE  /\ IsSeq(Cells(image)) /\ Len(Cells(image)) = Len(image) /\ Len(image) \in Nat
           /\ Cells(image) \in Seq({Byte(b) : b \in Bytes})
<1>1. Len(image) \in Nat /\ \A i \in 1 .. Len(image) : image[i] \in Bytes
  BY LenProperties, ElementOfSeq
<1>2. Cells(image) \in [1 .. Len(image) -> {Byte(b) : b \in Bytes}]
  BY <1>1 DEF Cells
<1>3. Cells(image) \in UNION {[1 .. n -> {Byte(b) : b \in Bytes}] : n \in Nat}
  BY <1>1, <1>2
<1>4. Cells(image) \in Seq({Byte(b) : b \in Bytes})
  BY <1>3, SeqDef
<1>5. QED
  BY <1>1, <1>2, <1>4, FunctionSeq

(* PKCS7 padding fills the last block, or adds one.                        *)
LEMMA PaddedLength ==
    ASSUME NEW data, IsSeq(data)
    PROVE  /\ Len(data) \in Nat
           /\ Len(Padded(data)) = Len(data) + BlockSize - (Len(data) % BlockSize)
           /\ Len(data) % BlockSize \in 0 .. BlockSize - 1
<1>1. Len(data) \in Nat
  BY LenProperties DEF IsSeq
<1>2. Len(data) % BlockSize \in 0 .. BlockSize - 1
  BY <1>1, ReleaseAssumption
<1> DEFINE n == BlockSize - (Len(data) % BlockSize)
           padding == [i \in 1 .. n |-> Byte(n)]
<1>3. n \in Nat
  BY <1>2, ReleaseAssumption
<1>4. padding \in [1 .. n -> {Byte(n)}]
  OBVIOUS
<1> HIDE DEF n
<1>5. IsSeq(padding) /\ Len(padding) = n
  BY <1>3, <1>4, FunctionSeq
<1>6. Padded(data) = data \o padding
  BY DEF Padded, n
<1> HIDE DEF padding
<1>7. Len(data \o padding) = Len(data) + Len(padding)
  BY ONLY IsSeq(data), <1>5, ConcatSeq
<1>8. QED
  BY <1>1, <1>2, <1>5, <1>6, <1>7, ReleaseAssumption DEF n

(* Ciphertext is a sequence of bytes that are not taken for a magic.       *)
LEMMA EncryptedCells ==
    ASSUME NEW data, IsSeq(data), NEW key, NEW iv
    PROVE  LET encrypted == EncryptFirmware(data, key, iv)
           IN  /\ IsSeq(encrypted) /\ Len(encrypted) = Len(Padded(data))
               /\ \A n \in 1 .. Len(encrypted) : encrypted[n] # Magic
<1> DEFINE padded == Padded(data)
           blocks == CipherBlocks(padded, key, iv)
           encrypted == EncryptFirmware(data, key, iv)
<1>1. Len(padded) \in Nat
  BY PaddedLength, ReleaseAssumption
<1>2. encrypted = [i \in 1 .. Len(padded) |->
                     <<"cipher", blocks[(i - 1) \div BlockSize + 1], (i - 1) % BlockSize>>]
  BY DEF EncryptFirmware
<1> HIDE DEF padded, blocks, encrypted
<1>3. \A x, y : <<"cipher", x, y>> # Magic
  <2>1. TAKE x, y
  <2>2. <<"cipher", x, y>>[1] = "cipher" /\ Magic[1] = "magic"
    BY DEF Magic
  <2>3. QED
    BY <2>2
<1>4. encrypted \in [1 .. Len(padded) -> {encrypted[i] : i \in 1 .. Len(padded)}]
  BY <1>2
<1>5. IsSeq(encrypted) /\ Len(encrypted) = Len(padded)
  BY <1>1, <1>4, FunctionSeq
<1>6. \A n \in 1 .. Len(encrypted) : encrypted[n] # Magic
  BY <1>2, <1>3, <1>5
<1>7. QED
  BY <1>5, <1>6 DEF padded, encrypted

(* Hashes, signatures and zeros are not taken for a magic.                 *)
LEMMA FieldCells ==
    ASSUME NEW r, NEW iv, iv # Magic
    PROVE  LET f == Fields(r, iv)
           IN  Magic \notin {f.sha256_hash, f.ecdsa_signature, f.aes_iv, f.original_sha256,
                             f.plaintext_signature}
<1>1. \A x : Hash(x) # Magic
  <2>1. TAKE x
  <2>2. Hash(x)[1] = "hash" /\ Magic[1] = "magic"
    BY DEF Hash, Magic
  <2>3. QED
    BY <2>2
<1>2. \A x, k : SignData(x, k) # Magic
  <2>1. TAKE x, k
  <2>2. SignData(x, k)[1] = "signature" /\ Magic[1] = "magic"
    BY DEF SignData, Magic
  <2>3. QED
    BY <2>2
<1>3. Zeros # Magic
  <2>1. Zeros[1] = "zeros" /\ Magic[1] = "magic"
    BY DEF Zeros, Magic
  <2>2. QED
    BY <2>1
<1>4. QED
  BY <1>1, <1>2, <1>3 DEF Fields

-----------------------------------------------------------------------------
(* The stream: a magic is the beginning of a packet, and the whole packet  *)
(* follows it.  (A part of the stream that begins with a magic therefore   *)
(* begins like a packet.)                                                  *)
FieldsOf(i) == Fields(releases[i], <<"iv", i>>)
FirmwareOf(i) == Encrypted(releases[i], <<"iv", i>>)

PacketAt(j, i) ==
    /\ j + Len(PacketOf(i)) - 1 <= Len(stream)
    /\ \A n \in 1 .. Len(PacketOf(i)) : stream[j + n - 1] = PacketOf(i)[n]

StreamInv ==
    /\ IsSeq(stream)
    /\ \A j \in 1 .. Len(stream) : stream[j] = Magic => \E i \in DOMAIN releases : PacketAt(j, i)

(* Each release has a packet.                                              *)
LEMMA ReleasePacket ==
    ASSUME NEW r \in ReleaseRecords, NEW i
    PROVE  LET f == Fields(r, <<"iv", i>>)
               firmware == Encrypted(r, <<"iv", i>>)
           IN  IsPacket(CreatePacket(f, firmware), f, firmware)
<1> DEFINE f == Fields(r, <<"iv", i>>)
           firmware == Encrypted(r, <<"iv", i>>)
<1>1. r.build.image \in Seq(Bytes)
  BY ReleaseAssumption DEF ReleaseRecords
<1>2. IsSeq(Cells(r.build.image))
  BY <1>1, ImageCells
<1>3. <<"iv", i>> # Magic
  <2>1. <<"iv", i>>[1] = "iv" /\ Magic[1] = "magic"
    BY DEF Magic
  <2>2. QED
    BY <2>1
<1>4. IsSeq(firmware) /\ \A n \in 1 .. Len(firmware) : firmware[n] # Magic
  BY <1>2, EncryptedCells DEF Encrypted
<1>5. Magic \notin {f.sha256_hash, f.ecdsa_signature, f.aes_iv, f.original_sha256,
                    f.plaintext_signature}
  BY <1>3, FieldCells
<1> HIDE DEF f, firmware
<1>6. IsPacket(CreatePacket(f, firmware), f, firmware)
  BY <1>4, <1>5, PacketCells
<1>7. QED
  BY <1>6 DEF f, firmware

(* The packets of the releases so far.                                     *)
LEMMA PacketOfRelease ==
    ASSUME releases \in Seq(ReleaseRecords), NEW i \in DOMAIN releases
    PROVE  IsPacket(PacketOf(i), FieldsOf(i), FirmwareOf(i))
<1>1. releases[i] \in ReleaseRecords
  BY LenProperties, ElementOfSeq
<1>2. QED
  BY <1>1, ReleasePacket DEF PacketOf, FieldsOf, FirmwareOf

(* What Prepare adds: a release, and its packet to the stream.             *)
LEMMA PrepareAdds ==
    ASSUME Typed, Prepare
    PROVE  \E r \in ReleaseRecords, i \in Nat :
             /\ Len(releases) = i - 1
             /\ DOMAIN releases = 1 .. i - 1 /\ DOMAIN releases' = 1 .. i
             /\ releases'[i] = r /\ \A n \in 1 .. i - 1 : releases'[n] = releases[n]
             /\ stream' = stream \o PacketOf(i)'
<1>1. releases \in Seq(ReleaseRecords) /\ Len(releases) \in Nat /\ DOMAIN releases = 1 .. Len(releases)
  BY LenProperties DEF Typed, ReleasesTyped
<1>2. PICK build \in Builds :
        releases' = Append(releases, [build |-> build, private |-> private_key, aes |-> aes_key])
  BY DEF Prepare
<1>3. PICK r \in ReleaseRecords : releases' = Append(releases, r)
  <2>1. [build |-> build, private |-> private_key, aes |-> aes_key] \in ReleaseRecords
    BY DEF Prepare, Typed, KeysTyped, MemoryTyped, ReleaseRecords
  <2>2. QED
    BY <1>2, <2>1
<1>4. PICK i \in Nat : i = Len(releases) + 1
  BY <1>1
<1>5. /\ releases' \in Seq(ReleaseRecords) /\ Len(releases') = i
      /\ releases'[i] = r /\ \A n \in 1 .. Len(releases) : releases'[n] = releases[n]
  BY <1>1, <1>3, <1>4, AppendProperties
<1>6. DOMAIN releases' = 1 .. i
  BY <1>5, LenProperties
<1>7. stream' = stream \o PacketOf(i)'
  <2>1. PacketOf(Len(releases))' = PacketOf(i)'
    BY <1>5 DEF PacketOf
  <2>2. QED
    BY <2>1 DEF Prepare
<1>8. Len(releases) = i - 1
  BY <1>1, <1>4
<1>9. QED
  BY <1>1, <1>5, <1>6, <1>7, <1>8

(* The stream after one more packet.                                       *)
LEMMA StreamGrows ==
    ASSUME Typed, StreamInv, Prepare
    PROVE  StreamInv'
<1>1. PICK r \in ReleaseRecords, last \in Nat :
        /\ Len(releases) = last - 1
        /\ DOMAIN releases = 1 .. last - 1 /\ DOMAIN releases' = 1 .. last
        /\ releases'[last] = r /\ \A n \in 1 .. last - 1 : releases'[n] = releases[n]
        /\ stream' = stream \o PacketOf(last)'
  BY PrepareAdds
<1>2. PICK packet : packet = PacketOf(last)'
  OBVIOUS
<1>3. \A i \in DOMAIN releases : i \in DOMAIN releases' /\ PacketOf(i)' = PacketOf(i)
  BY <1>1 DEF PacketOf
<1>4. last \in DOMAIN releases'
  <2>1. Len(releases) \in Nat
    BY LenProperties DEF Typed, ReleasesTyped
  <2>2. QED
    BY <1>1, <2>1
<1>5. IsSeq(packet) /\ \A n \in 1 .. Len(packet) : packet[n] = Magic => n = 1
  <2>1. packet = CreatePacket(Fields(r, <<"iv", last>>), Encrypted(r, <<"iv", last>>))
    BY <1>1, <1>2 DEF PacketOf
  <2>2. QED
    BY <2>1, ReleasePacket DEF IsPacket
<1>6. stream' = stream \o packet
  BY <1>1, <1>2
<1>7. /\ IsSeq(stream') /\ Len(stream) \in Nat /\ Len(packet) \in Nat
      /\ Len(stream') = Len(stream) + Len(packet)
      /\ \A j \in 1 .. Len(stream) : stream'[j] = stream[j]
      /\ \A n \in 1 .. Len(packet) : stream'[Len(stream) + n] = packet[n]
  <2>1. IsSeq(stream)
    BY DEF StreamInv
  <2>2. /\ IsSeq(stream \o packet) /\ Len(stream) \in Nat /\ Len(packet) \in Nat
        /\ Len(stream \o packet) = Len(stream) + Len(packet)
        /\ \A j \in 1 .. Len(stream) : (stream \o packet)[j] = stream[j]
        /\ \A n \in 1 .. Len(packet) : (stream \o packet)[Len(stream) + n] = packet[n]
    BY ONLY <1>5, <2>1, ConcatSeq
  <2>3. QED
    BY <1>6, <2>2
<1>8. ASSUME NEW j \in 1 .. Len(stream), stream'[j] = Magic
      PROVE  \E i \in DOMAIN releases' : PacketAt(j, i)'
  <2>1. PICK i \in DOMAIN releases : PacketAt(j, i)
    BY <1>7, <1>8 DEF StreamInv
  <2>2. PICK old : old = PacketOf(i) /\ old = PacketOf(i)' /\ Len(old) \in Nat
    <3>1. IsSeq(PacketOf(i))
      BY PacketOfRelease DEF Typed, ReleasesTyped, IsPacket
    <3>2. Len(PacketOf(i)) \in Nat
      BY <3>1, LenProperties DEF IsSeq
    <3>3. QED
      BY <1>3, <3>2
  <2>3. j + Len(old) - 1 <= Len(stream) /\ \A n \in 1 .. Len(old) : stream[j + n - 1] = old[n]
    BY <2>1, <2>2 DEF PacketAt
  <2>4. \A n \in 1 .. Len(old) : j + n - 1 \in 1 .. Len(stream)
    BY <1>7, <2>2, <2>3
  <2>5. j + Len(old) - 1 <= Len(stream')
    BY <1>7, <2>2, <2>3
  <2>6. \A n \in 1 .. Len(old) : stream'[j + n - 1] = old[n]
    BY <1>7, <2>3, <2>4
  <2>7. PacketAt(j, i)'
    BY <2>2, <2>5, <2>6 DEF PacketAt
  <2>8. QED
    BY <1>3, <2>7
<1>9. ASSUME NEW j \in Len(stream) + 1 .. Len(stream'), stream'[j] = Magic
      PROVE  \E i \in DOMAIN releases' : PacketAt(j, i)'
  <2>1. j - Len(stream) \in 1 .. Len(packet) /\ Len(stream) + (j - Len(stream)) = j
    BY <1>7
  <2>2. packet[j - Len(stream)] = Magic
    BY <1>7, <1>9, <2>1
  <2>3. j = Len(stream) + 1
    BY <1>5, <1>7, <2>1, <2>2
  <2>4. \A n \in 1 .. Len(packet) : j + n - 1 = Len(stream) + n
    BY <1>7, <2>3
  <2>5. \A n \in 1 .. Len(packet) : stream'[j + n - 1] = packet[n]
    BY <1>7, <2>4
  <2>6. j + Len(packet) - 1 <= Len(stream')
    BY <1>7, <2>3
  <2>7. PacketAt(j, last)'
    BY <1>2, <2>5, <2>6 DEF PacketAt
  <2>8. QED
    BY <1>4, <2>7
<1>10. \A j \in 1 .. Len(stream') : stream'[j] = Magic => \E i \in DOMAIN releases' : PacketAt(j, i)'
  <2>1. TAKE j \in 1 .. Len(stream')
  <2>2. j \in 1 .. Len(stream) \/ j \in Len(stream) + 1 .. Len(stream')
    BY <1>7
  <2>3. QED
    BY <1>8, <1>9, <2>2
<1>11. QED
  BY <1>7, <1>10 DEF StreamInv

(* In every state the stream is packets from end to end.                   *)
LEMMA AlwaysStreamInv == Spec => [](Typed /\ StreamInv)
<1>1. Init => StreamInv
  <2>1. SUFFICES ASSUME Init PROVE StreamInv
    OBVIOUS
  <2>2. stream = <<>>
    BY <2>1 DEF Init
  <2>3. IsSeq(stream) /\ 1 .. Len(stream) = {}
    BY <2>2 DEF IsSeq
  <2>4. QED
    BY <2>3 DEF StreamInv
<1>2. Typed /\ StreamInv /\ [Next]_vars => StreamInv'
  <2>1. SUFFICES ASSUME Typed, StreamInv, [Next]_vars PROVE StreamInv'
    OBVIOUS
  <2>2. CASE Prepare
    BY <2>1, <2>2, StreamGrows
  <2>3. CASE UNCHANGED <<releases, stream>>
    BY <2>1, <2>3 DEF StreamInv, PacketAt, PacketOf
  <2>4. QED
    BY <2>1, <2>2, <2>3 DEF Next, KeyStep, BuildEcu, Install, vars
<1>3. QED
  BY <1>1, <1>2, KeysKeepTypes, PTL DEF Spec

-----------------------------------------------------------------------------
(* What the readers accept.                                                *)

(* A part of the stream that begins with a magic begins like a packet.     *)
LEMMA PartBeginsLikePacket ==
    ASSUME Typed, StreamInv, NEW part \in PartsOf(stream), part[1] = Magic
    PROVE  /\ IsSeq(part)
           /\ \E i \in DOMAIN releases :
                \A n \in 1 .. Len(part) : n <= Len(PacketOf(i)) => part[n] = PacketOf(i)[n]
<1>1. IsSeq(stream) /\ Len(stream) \in Nat
  BY LenProperties DEF StreamInv, IsSeq
<1>2. PICK j \in 1 .. Len(stream) : \E k \in j .. Len(stream) : part = SubSeq(stream, j, k)
  BY DEF PartsOf
<1> PICK k \in j .. Len(stream) : part = SubSeq(stream, j, k)
  BY <1>2
<1>3. /\ IsSeq(part) /\ Len(part) = k - j + 1
      /\ \A n \in 1 .. k - j + 1 : part[n] = stream[j + n - 1]
  BY <1>1, <1>2, PartOfSeq
<1>4. stream[j] = Magic
  <2>1. 1 \in 1 .. k - j + 1 /\ j + 1 - 1 = j
    BY <1>1
  <2>2. QED
    BY <1>3, <2>1
<1>5. PICK i \in DOMAIN releases : PacketAt(j, i)
  BY <1>4 DEF StreamInv
<1>6. Len(PacketOf(i)) \in Nat
  <2>1. IsSeq(PacketOf(i))
    BY PacketOfRelease DEF Typed, ReleasesTyped, IsPacket
  <2>2. QED
    BY <2>1, LenProperties DEF IsSeq
<1>7. \A n \in 1 .. Len(part) : n <= Len(PacketOf(i)) => part[n] = PacketOf(i)[n]
  <2>1. TAKE n \in 1 .. Len(part)
  <2>2. SUFFICES ASSUME n <= Len(PacketOf(i)) PROVE part[n] = PacketOf(i)[n]
    OBVIOUS
  <2>3. n \in 1 .. Len(PacketOf(i)) /\ n \in 1 .. k - j + 1
    BY <1>1, <1>3, <1>6, <2>2
  <2>4. QED
    BY <1>3, <1>5, <2>3 DEF PacketAt
<1>8. QED
  BY <1>3, <1>7

(* The header of at least eight cells.                                     *)
LEMMA HeaderCells ==
    ASSUME NEW cells, IsSeq(cells), Len(cells) >= 8
    PROVE  /\ Len(Header(cells)) = 8 /\ \A n \in 1 .. 8 : Header(cells)[n] = cells[n]
           /\ Len(Payload(cells)) = Len(cells) - 8
<1>1. Len(cells) \in Nat /\ \A n \in 1 .. Len(cells) : cells[n] \in ToSet(cells)
  BY LenProperties, ElementOfSeq DEF IsSeq
<1>2. HeaderSize = 8
  BY FieldPlaces
<1>3. Header(cells) = SubSeq(cells, 1, 8) /\ Payload(cells) = SubSeq(cells, 9, Len(cells))
  BY <1>2 DEF Header, Payload
<1>4. Len(SubSeq(cells, 1, 8)) = 8 /\ \A n \in 1 .. 8 : SubSeq(cells, 1, 8)[n] = cells[n]
  <2>1. 1 \in 1 .. Len(cells) /\ 8 \in 1 .. Len(cells)
    BY <1>1
  <2>2. /\ Len(SubSeq(cells, 1, 8)) = 8 - 1 + 1
        /\ \A n \in 1 .. 8 - 1 + 1 : SubSeq(cells, 1, 8)[n] = cells[1 + n - 1]
    BY <2>1, PartOfSeq
  <2>3. \A n \in 1 .. 8 : n \in 1 .. 8 - 1 + 1 /\ 1 + n - 1 = n
    OBVIOUS
  <2>4. QED
    BY <2>2, <2>3
<1>5. Len(SubSeq(cells, 9, Len(cells))) = Len(cells) - 8
  <2>1. \A n \in 9 .. Len(cells) : cells[n] \in ToSet(cells)
    BY <1>1
  <2>2. 9 \in Int /\ Len(cells) \in Int
    BY <1>1
  <2>3. Len(SubSeq(cells, 9, Len(cells))) = IF 9 <= Len(cells) THEN Len(cells) - 9 + 1 ELSE 0
    BY <2>1, <2>2, SubSeqProperties
  <2>4. PICK n \in Nat : n = Len(cells)
    BY <1>1
  <2>5. n >= 8
    BY <2>4
  <2>6. (IF 9 <= n THEN n - 9 + 1 ELSE 0) = n - 8
    BY <2>5
  <2>7. QED
    BY <2>3, <2>4, <2>6
<1>6. QED
  BY <1>3, <1>4, <1>5

(* Of all the parts of the stream, parse_packet accepts exactly whole      *)
(* packets of create_packet, and returns their fields.                     *)
THEOREM OnlyWholePackets == Spec => []WholePackets
<1>1. Typed /\ StreamInv => WholePackets
  <2>1. SUFFICES ASSUME Typed, StreamInv, NEW part \in PartsOf(stream), PacketOk(part)
                 PROVE  \E i \in DOMAIN releases :
                          /\ part = PacketOf(i)
                          /\ \A name \in DOMAIN FieldsOf(i) \ {"version"} :
                               ParseHeader(Header(part))[name] = FieldsOf(i)[name]
                          /\ ParseHeader(Header(part)).version = VersionCell(FieldsOf(i).version)
    BY DEF WholePackets, FieldsOf
  <2>2. IsSeq(stream) /\ Len(stream) \in Nat
    BY <2>1, LenProperties DEF StreamInv, IsSeq
  <2>3. \E j \in 1 .. Len(stream) : \E k \in j .. Len(stream) : part = SubSeq(stream, j, k)
    BY <2>1 DEF PartsOf
  <2>4. IsSeq(part)
    BY <2>2, <2>3, PartOfSeq
  <2>5. /\ Len(part) >= 8 /\ Header(part)[1] = Magic
        /\ ParseHeader(Header(part)).file_size = SizeCell(Len(Payload(part)))
    BY <2>1, FieldPlaces DEF PacketOk, HeaderOk
  <2>6. /\ \A n \in 1 .. 8 : Header(part)[n] = part[n]
        /\ Len(Payload(part)) = Len(part) - 8
    BY <2>4, <2>5, HeaderCells
  <2>7. Len(part) \in Nat
    BY <2>4, LenProperties DEF IsSeq
  <2>8. part[1] = Magic /\ part[3] = SizeCell(Len(part) - 8)
    BY <2>5, <2>6, FieldPlaces
  <2>9. PICK i \in DOMAIN releases :
          \A n \in 1 .. Len(part) : n <= Len(PacketOf(i)) => part[n] = PacketOf(i)[n]
    BY <2>1, <2>8, PartBeginsLikePacket
  <2>10. IsPacket(PacketOf(i), FieldsOf(i), FirmwareOf(i))
    BY <2>1, PacketOfRelease DEF Typed, ReleasesTyped
  <2>11. Len(PacketOf(i)) = Len(FirmwareOf(i)) + 8 /\ Len(FirmwareOf(i)) \in Nat
    BY <2>10 DEF IsPacket
  <2>12. \A n \in 1 .. 8 : part[n] = PacketOf(i)[n]
    BY <2>5, <2>7, <2>9, <2>11
  <2>13. Len(part) = Len(PacketOf(i))
    <3>1. SizeCell(Len(part) - 8) = SizeCell(Len(FirmwareOf(i)))
      BY <2>8, <2>10, <2>12 DEF IsPacket
    <3>2. SizeCell(Len(part) - 8)[2] = Len(part) - 8 /\ SizeCell(Len(FirmwareOf(i)))[2] = Len(FirmwareOf(i))
      BY DEF SizeCell
    <3>3. QED
      BY <2>7, <2>11, <3>1, <3>2
  <2>14. part = PacketOf(i)
    <3>1. \A n \in 1 .. Len(part) : part[n] = PacketOf(i)[n]
      BY <2>7, <2>9, <2>13
    <3>2. IsSeq(PacketOf(i))
      BY <2>10 DEF IsPacket
    <3>3. QED
      BY <2>4, <2>13, <3>1, <3>2, SameSeq
  <2>15. \A n \in 1 .. 8 : Header(part)[n] = PacketOf(i)[n]
    BY <2>6, <2>12
  <2> DEFINE parsed == ParseHeader(Header(part))
  <2>16. /\ parsed.version = PacketOf(i)[2] /\ parsed.sha256_hash = PacketOf(i)[4]
         /\ parsed.ecdsa_signature = PacketOf(i)[5] /\ parsed.aes_iv = PacketOf(i)[6]
         /\ parsed.original_sha256 = PacketOf(i)[7] /\ parsed.plaintext_signature = PacketOf(i)[8]
    BY <2>15, FieldPlaces
  <2> HIDE DEF parsed
  <2>17. /\ parsed.version = VersionCell(FieldsOf(i).version)
         /\ parsed.sha256_hash = FieldsOf(i).sha256_hash
         /\ parsed.ecdsa_signature = FieldsOf(i).ecdsa_signature
         /\ parsed.aes_iv = FieldsOf(i).aes_iv
         /\ parsed.original_sha256 = FieldsOf(i).original_sha256
         /\ parsed.plaintext_signature = FieldsOf(i).plaintext_signature
    BY <2>10, <2>16 DEF IsPacket
  <2>18. DOMAIN FieldsOf(i) = {"version", "sha256_hash", "ecdsa_signature", "aes_iv",
                               "original_sha256", "plaintext_signature"}
    BY DEF FieldsOf, Fields
  <2>19. \A name \in DOMAIN FieldsOf(i) \ {"version"} : parsed[name] = FieldsOf(i)[name]
    BY <2>17, <2>18
  <2>20. QED
    BY <2>14, <2>17, <2>19 DEF parsed
<1>2. QED
  BY <1>1, AlwaysStreamInv, PTL

-----------------------------------------------------------------------------
(* Induction: the prover knows no predicates, so it goes by the set of the *)
(* numbers for which something holds.                                      *)

(* A set of numbers has a least one.                                       *)
LEMMA LeastNumber ==
    ASSUME NEW T, T \subseteq Nat, T # {}
    PROVE  \E x \in T : \A y \in T : x <= y
<1> DEFINE R == OpToRel(<, Nat)
<1>1. IsWellFoundedOn(R, Nat)
  BY NatLessThanWellFounded
<1> HIDE DEF R
<1>2. PICK x \in T : \A y \in T : <<y, x>> \notin R
  BY <1>1, WFMin
<1>3. \A y \in T : ~(y < x)
  BY <1>2 DEF R, OpToRel
<1>4. QED
  BY <1>3

(* A set that has zero, and n + 1 with every n, has all the numbers.       *)
LEMMA AllNumbers ==
    ASSUME NEW T, 0 \in T, \A n \in Nat : n \in T => n + 1 \in T
    PROVE  Nat \subseteq T
<1>1. SUFFICES ASSUME Nat \ T # {} PROVE FALSE
  OBVIOUS
<1>2. PICK m \in Nat \ T : \A k \in Nat \ T : m <= k
  BY <1>1, LeastNumber
<1>3. m # 0
  BY <1>2
<1>4. m - 1 \in Nat /\ ~(m <= m - 1) /\ (m - 1) + 1 = m
  BY <1>2, <1>3
<1>5. m - 1 \in T
  BY <1>2, <1>4
<1>6. QED
  BY <1>2, <1>4, <1>5

-----------------------------------------------------------------------------
(* Recursive functions: the chain of CBC and the flattening of blocks are   *)
(* defined for any number of blocks.                                       *)

(* The blocks of ciphertext, each made from the one before (CipherBlocks). *)
Chained(f, m, data, key, iv) ==
    f = [b \in 0 .. m |-> IF b = 0 THEN iv ELSE <<"block", key, f[b - 1], Block(data, b)>>]

(* There is such a function, for any number of blocks.                     *)
LEMMA ChainExists ==
    ASSUME NEW iv, NEW key, NEW data, NEW n \in Nat
    PROVE  \E f : Chained(f, n, data, key, iv)
<1> DEFINE T == {m \in Nat : \E f : Chained(f, m, data, key, iv)}
<1>1. 0 \in T
  <2>1. Chained([b \in 0 .. 0 |-> iv], 0, data, key, iv)
    BY DEF Chained
  <2>2. QED
    BY <2>1
<1>2. ASSUME NEW m \in Nat, m \in T PROVE m + 1 \in T
  <2>1. PICK f : Chained(f, m, data, key, iv)
    BY <1>2
  <2>2. PICK last : last = <<"block", key, f[m], Block(data, m + 1)>>
    OBVIOUS
  <2> DEFINE g == [b \in 0 .. m + 1 |-> IF b = m + 1 THEN last ELSE f[b]]
  <2>3. \A b \in 0 .. m : f[b] = IF b = 0 THEN iv ELSE <<"block", key, f[b - 1], Block(data, b)>>
    BY <2>1 DEF Chained
  <2>4. ASSUME NEW b \in 0 .. m + 1
        PROVE  g[b] = IF b = 0 THEN iv ELSE <<"block", key, g[b - 1], Block(data, b)>>
    <3>1. CASE b = 0
      <4>1. 0 \in 0 .. m /\ 0 # m + 1
        BY <1>2
      <4>2. QED
        BY <2>3, <3>1, <4>1
    <3>2. CASE b = m + 1
      <4>1. m \in 0 .. m + 1 /\ m # m + 1 /\ b - 1 = m /\ b # 0
        BY <1>2, <3>2
      <4>2. QED
        BY <2>2, <3>2, <4>1
    <3>3. CASE b # 0 /\ b # m + 1
      <4>1. b \in 0 .. m /\ b - 1 \in 0 .. m + 1 /\ b - 1 # m + 1
        BY <1>2, <3>3
      <4>2. QED
        BY <2>3, <3>3, <4>1
    <3>4. QED
      BY <3>1, <3>2, <3>3
  <2>5. Chained(g, m + 1, data, key, iv)
    <3>1. g = [b \in 0 .. m + 1 |-> g[b]]
      OBVIOUS
    <3> HIDE DEF g
    <3>2. QED
      BY <2>4, <3>1 DEF Chained
  <2>6. QED
    BY <1>2, <2>5
<1> HIDE DEF T
<1>3. n \in T
  BY <1>1, <1>2, AllNumbers
<1>4. QED
  BY <1>3 DEF T

(* CBC, block by block.                                                    *)
LEMMA CipherChain ==
    ASSUME NEW iv, NEW key, NEW data, NEW n \in Nat, n = Len(data) \div BlockSize
    PROVE  LET blocks == CipherBlocks(data, key, iv)
           IN  /\ blocks[0] = iv
               /\ \A b \in 1 .. n : blocks[b] = <<"block", key, blocks[b - 1], Block(data, b)>>
<1>1. PICK f : Chained(f, n, data, key, iv)
  BY ChainExists
<1>2. PICK blocks : blocks = CipherBlocks(data, key, iv)
  OBVIOUS
<1>3. Chained(blocks, n, data, key, iv)
  BY <1>1, <1>2 DEF CipherBlocks, Chained
<1>4. /\ blocks[0] = iv
      /\ \A b \in 1 .. n : blocks[b] = <<"block", key, blocks[b - 1], Block(data, b)>>
  <2>1. \A b \in 0 .. n :
          blocks[b] = IF b = 0 THEN iv ELSE <<"block", key, blocks[b - 1], Block(data, b)>>
    BY <1>3 DEF Chained
  <2>2. 0 \in 0 .. n /\ \A b \in 1 .. n : b \in 0 .. n /\ b # 0
    OBVIOUS
  <2>3. QED
    BY <2>1, <2>2
<1>5. QED
  BY <1>2, <1>4

(* The sequences put one after the other so far (FlattenSeq).              *)
Flattened(f, m, seqs) ==
    f = [b \in 1 .. m |-> IF b = 1 THEN seqs[b] ELSE f[b - 1] \o seqs[b]]

(* There is such a function, for any number of sequences.                  *)
LEMMA FlattenExists ==
    ASSUME NEW seqs, NEW n \in Nat
    PROVE  \E f : Flattened(f, n, seqs)
<1> DEFINE T == {m \in Nat : \E f : Flattened(f, m, seqs)}
<1>1. 0 \in T
  <2>1. Flattened([b \in 1 .. 0 |-> seqs], 0, seqs)
    BY DEF Flattened
  <2>2. QED
    BY <2>1
<1>2. ASSUME NEW m \in Nat, m \in T PROVE m + 1 \in T
  <2>1. PICK f : Flattened(f, m, seqs)
    BY <1>2
  <2>2. PICK last : last = IF m + 1 = 1 THEN seqs[m + 1] ELSE f[m] \o seqs[m + 1]
    OBVIOUS
  <2> DEFINE g == [b \in 1 .. m + 1 |-> IF b = m + 1 THEN last ELSE f[b]]
  <2>3. \A b \in 1 .. m : f[b] = IF b = 1 THEN seqs[b] ELSE f[b - 1] \o seqs[b]
    BY <2>1 DEF Flattened
  <2>4. ASSUME NEW b \in 1 .. m + 1
        PROVE  g[b] = IF b = 1 THEN seqs[b] ELSE g[b - 1] \o seqs[b]
    <3>1. CASE b = m + 1
      <4>1. CASE b = 1
        BY <2>2, <3>1, <4>1
      <4>2. CASE b # 1
        <5>1. m \in 1 .. m + 1 /\ m # m + 1 /\ b - 1 = m
          BY <1>2, <3>1, <4>2
        <5>2. QED
          BY <2>2, <3>1, <4>2, <5>1
      <4>3. QED
        BY <4>1, <4>2
    <3>2. CASE b # m + 1
      <4>1. b \in 1 .. m /\ (b # 1 => b - 1 \in 1 .. m + 1 /\ b - 1 # m + 1)
        BY <1>2, <3>2
      <4>2. QED
        BY <2>3, <3>2, <4>1
    <3>3. QED
      BY <3>1, <3>2
  <2>5. Flattened(g, m + 1, seqs)
    <3>1. g = [b \in 1 .. m + 1 |-> g[b]]
      OBVIOUS
    <3> HIDE DEF g
    <3>2. QED
      BY <2>4, <3>1 DEF Flattened
  <2>6. QED
    BY <1>2, <2>5
<1> HIDE DEF T
<1>3. n \in T
  BY <1>1, <1>2, AllNumbers
<1>4. QED
  BY <1>3 DEF T

(* Division finds the block a byte is in.                                  *)
LEMMA BlockArithmetic ==
    ASSUME NEW q \in Nat, NEW r \in 0 .. BlockSize - 1
    PROVE  (q * BlockSize + r) \div BlockSize = q /\ (q * BlockSize + r) % BlockSize = r
<1>1. PICK B \in Nat \ {0} : B = BlockSize
  BY ReleaseAssumption
<1>2. PICK a \in Nat : a = q * B + r
  BY <1>1
<1>3. PICK d \in Int : d = a \div B
  BY <1>1, <1>2
<1>4. PICK m \in 0 .. B - 1 : m = a % B
  BY <1>1, <1>2
<1>5. a = B * d + m
  BY <1>1, <1>2, <1>3, <1>4
<1>6. ~(d >= q + 1)
  <2>1. SUFFICES ASSUME d >= q + 1 PROVE FALSE
    OBVIOUS
  <2>2. B * d >= B * (q + 1)
    BY <2>1
  <2>3. B * (q + 1) = q * B + B
    OBVIOUS
  <2>4. QED
    BY <1>1, <1>2, <1>5, <2>2, <2>3
<1>7. ~(d <= q - 1)
  <2>1. SUFFICES ASSUME d <= q - 1 PROVE FALSE
    OBVIOUS
  <2>2. B * d <= B * (q - 1)
    BY <2>1
  <2>3. B * (q - 1) = q * B - B
    OBVIOUS
  <2>4. QED
    BY <1>1, <1>2, <1>5, <2>2, <2>3
<1>8. d = q
  BY <1>6, <1>7
<1>9. m = r
  BY <1>1, <1>2, <1>5, <1>8
<1>10. QED
  BY <1>1, <1>2, <1>3, <1>4, <1>8, <1>9

(* Two adjoining parts of a sequence are one part.                         *)
LEMMA TwoParts ==
    ASSUME NEW s, IsSeq(s), NEW k \in Nat \ {0}, NEW d \in Nat \ {0}, k + d <= Len(s)
    PROVE  SubSeq(s, 1, k) \o SubSeq(s, k + 1, k + d) = SubSeq(s, 1, k + d)
<1>1. Len(s) \in Nat
  BY LenProperties DEF IsSeq
<1>2. PICK a, b, c : a = SubSeq(s, 1, k) /\ b = SubSeq(s, k + 1, k + d) /\ c = SubSeq(s, 1, k + d)
  OBVIOUS
<1>3. IsSeq(a) /\ Len(a) = k /\ \A n \in 1 .. k : a[n] = s[n]
  <2>1. 1 \in 1 .. Len(s) /\ k \in 1 .. Len(s) /\ k - 1 + 1 = k /\ \A n \in 1 .. k : 1 + n - 1 = n
    BY <1>1
  <2>2. QED
    BY <1>2, <2>1, PartOfSeq
<1>4. IsSeq(b) /\ Len(b) = d /\ \A n \in 1 .. d : b[n] = s[k + n]
  <2>1. /\ k + 1 \in 1 .. Len(s) /\ k + d \in k + 1 .. Len(s) /\ (k + d) - (k + 1) + 1 = d
        /\ \A n \in 1 .. d : (k + 1) + n - 1 = k + n
    BY <1>1
  <2>2. QED
    BY <1>2, <2>1, PartOfSeq
<1>5. IsSeq(c) /\ Len(c) = k + d /\ \A n \in 1 .. k + d : c[n] = s[n]
  <2>1. /\ 1 \in 1 .. Len(s) /\ k + d \in 1 .. Len(s) /\ (k + d) - 1 + 1 = k + d
        /\ \A n \in 1 .. k + d : 1 + n - 1 = n
    BY <1>1
  <2>2. QED
    BY <1>2, <2>1, PartOfSeq
<1>6. /\ IsSeq(a \o b) /\ Len(a \o b) = Len(a) + Len(b)
      /\ \A n \in 1 .. Len(a) : (a \o b)[n] = a[n]
      /\ \A n \in 1 .. Len(b) : (a \o b)[Len(a) + n] = b[n]
  BY ONLY <1>3, <1>4, ConcatSeq
<1>7. \A n \in 1 .. k + d : (a \o b)[n] = c[n]
  <2>1. TAKE n \in 1 .. k + d
  <2>2. CASE n <= k
    BY <1>3, <1>5, <1>6, <2>2
  <2>3. CASE n > k
    <3>1. n - k \in 1 .. d /\ k + (n - k) = n
      BY <2>3
    <3>2. (a \o b)[k + (n - k)] = b[n - k] /\ b[n - k] = s[k + (n - k)]
      BY <1>3, <1>4, <1>6, <3>1
    <3>3. QED
      BY <1>5, <3>1, <3>2
  <2>4. n <= k \/ n > k
    OBVIOUS
  <2>5. QED
    BY <2>2, <2>3, <2>4
<1>8. a \o b = c
  <2>1. PICK e : e = a \o b
    OBVIOUS
  <2>2. IsSeq(e) /\ Len(e) = Len(c) /\ \A n \in 1 .. Len(e) : e[n] = c[n]
    BY <1>3, <1>4, <1>5, <1>6, <1>7, <2>1
  <2>3. QED
    BY <1>5, <2>1, <2>2, SameSeq
<1>9. QED
  BY <1>2, <1>8

(* The part from the first to the last is the sequence.                    *)
LEMMA WholeSeq ==
    ASSUME NEW s, IsSeq(s)
    PROVE  SubSeq(s, 1, Len(s)) = s
<1>1. Len(s) \in Nat
  BY LenProperties DEF IsSeq
<1>2. \A n \in 1 .. Len(s) : s[n] \in ToSet(s)
  BY ElementOfSeq DEF IsSeq
<1>3. /\ SubSeq(s, 1, Len(s)) \in Seq(ToSet(s))
      /\ Len(SubSeq(s, 1, Len(s))) = IF 1 <= Len(s) THEN Len(s) - 1 + 1 ELSE 0
      /\ \A n \in 1 .. Len(s) - 1 + 1 : SubSeq(s, 1, Len(s))[n] = s[1 + n - 1]
  <2>1. 1 \in Int /\ Len(s) \in Int
    BY <1>1
  <2>2. QED
    BY <1>2, <2>1, SubSeqProperties
<1>4. PICK t : t = SubSeq(s, 1, Len(s))
  OBVIOUS
<1>5. IsSeq(t) /\ Len(t) = Len(s) /\ \A n \in 1 .. Len(t) : t[n] = s[n]
  <2>1. IsSeq(t)
    BY <1>3, <1>4, SeqIsSeq
  <2>2. Len(t) = Len(s)
    BY <1>1, <1>3, <1>4
  <2>3. \A n \in 1 .. Len(s) : n \in 1 .. Len(s) - 1 + 1 /\ 1 + n - 1 = n
    BY <1>1
  <2>4. QED
    BY <1>3, <1>4, <2>1, <2>2, <2>3
<1>6. t = s
  BY <1>5, SameSeq
<1>7. QED
  BY <1>4, <1>6

(* The blocks of a sequence put together again.                            *)
LEMMA FlattenBlocks ==
    ASSUME NEW s, IsSeq(s), NEW n \in Nat \ {0}, Len(s) = n * BlockSize,
           NEW seqs, seqs = [b \in 1 .. n |-> Block(s, b)]
    PROVE  FlattenSeq(seqs) = s
<1>1. PICK B \in Nat \ {0} : B = BlockSize
  BY ReleaseAssumption
<1>2. Len(seqs) = n
  <2>1. seqs \in [1 .. n -> {seqs[b] : b \in 1 .. n}]
    OBVIOUS
  <2>2. QED
    BY <2>1, FunctionSeq
<1>3. PICK f : Flattened(f, n, seqs)
  BY FlattenExists
<1>4. PICK flat : flat = CHOOSE x : Flattened(x, n, seqs)
  OBVIOUS
<1>5. Flattened(flat, n, seqs)
  BY <1>3, <1>4
<1>6. FlattenSeq(seqs) = flat[n]
  <2>1. Len(seqs) # 0
    BY <1>2
  <2>2. QED
    BY <1>2, <1>4, <2>1 DEF FlattenSeq, Flattened
<1>7. \A b \in 1 .. n : flat[b] = IF b = 1 THEN seqs[b] ELSE flat[b - 1] \o seqs[b]
  BY <1>5 DEF Flattened
<1>8. \A b \in 1 .. n : seqs[b] = SubSeq(s, (b - 1) * B + 1, b * B)
  BY <1>1 DEF Block
<1>9. \A b \in 1 .. n : 1 <= b * B /\ b * B <= Len(s) /\ (b - 1) * B + 1 <= b * B /\ (b - 1) * B >= 0
                       /\ b * B = (b - 1) * B + B /\ b * B \in Nat /\ (b - 1) * B \in Nat
  <2>1. TAKE b \in 1 .. n
  <2>2. b * B <= n * B
    OBVIOUS
  <2>3. b * B = (b - 1) * B + B
    OBVIOUS
  <2>4. (b - 1) * B >= 0 /\ (b - 1) * B \in Nat
    OBVIOUS
  <2>5. QED
    BY <1>1, <2>2, <2>3, <2>4
<1> DEFINE T == {m \in Nat : m \in 1 .. n => flat[m] = SubSeq(s, 1, m * B)}
<1>10. 0 \in T
  OBVIOUS
<1>11. ASSUME NEW m \in Nat, m \in T PROVE m + 1 \in T
  <2>1. SUFFICES ASSUME m + 1 \in 1 .. n PROVE flat[m + 1] = SubSeq(s, 1, (m + 1) * B)
    OBVIOUS
  <2>2. CASE m = 0
    <3>1. flat[1] = seqs[1] /\ seqs[1] = SubSeq(s, (1 - 1) * B + 1, 1 * B)
      BY <1>7, <1>8
    <3>2. (1 - 1) * B + 1 = 1 /\ 1 * B = B /\ m + 1 = 1 /\ (m + 1) * B = B
      BY <2>2
    <3>3. QED
      BY <3>1, <3>2
  <2>3. CASE m # 0
    <3>1. PICK k \in Nat : k = m * B
      OBVIOUS
    <3>2. (m + 1) * B = k + B
      BY <3>1
    <3>3. 1 <= k /\ k + B <= Len(s) /\ Len(s) \in Nat
      <4>1. m \in 1 .. n /\ m + 1 \in 1 .. n
        BY <2>1, <2>3
      <4>2. Len(s) \in Nat
        BY LenProperties DEF IsSeq
      <4>3. QED
        BY <1>9, <3>1, <3>2, <4>1, <4>2
    <3>4. flat[m + 1] = SubSeq(s, 1, k) \o SubSeq(s, k + 1, k + B)
      <4>1. m \in 1 .. n /\ (m + 1) - 1 = m /\ m + 1 # 1
        BY <2>1, <2>3
      <4>2. flat[m] = SubSeq(s, 1, k)
        BY <1>11, <3>1, <4>1
      <4>3. seqs[m + 1] = SubSeq(s, k + 1, k + B)
        BY <1>8, <2>1, <3>1, <3>2, <4>1
      <4>4. flat[m + 1] = flat[(m + 1) - 1] \o seqs[m + 1]
        BY <1>7, <2>1, <4>1
      <4>5. QED
        BY <4>1, <4>2, <4>3, <4>4
    <3>5. SubSeq(s, 1, k) \o SubSeq(s, k + 1, k + B) = SubSeq(s, 1, k + B)
      BY <1>1, <3>3, TwoParts
    <3>6. QED
      BY <3>2, <3>4, <3>5
  <2>4. QED
    BY <2>2, <2>3
<1> HIDE DEF T
<1>12. n \in T
  BY <1>10, <1>11, AllNumbers
<1>13. flat[n] = SubSeq(s, 1, n * B)
  BY <1>12 DEF T
<1>14. SubSeq(s, 1, Len(s)) = s
  BY WholeSeq
<1>15. QED
  BY <1>1, <1>6, <1>13, <1>14

-----------------------------------------------------------------------------
(* What a release is encrypted to, the ECU decrypts.                       *)

(* PKCS7 padding says its own length and fills whole blocks.               *)
LEMMA PaddedCells ==
    ASSUME NEW data, IsSeq(data)
    PROVE  /\ IsSeq(Padded(data)) /\ Len(data) \in Nat
           /\ \E n \in 1 .. BlockSize :
                /\ Len(Padded(data)) = Len(data) + n
                /\ \A i \in 1 .. Len(data) : Padded(data)[i] = data[i]
                /\ \A i \in 1 .. n : Padded(data)[Len(data) + i] = Byte(n)
           /\ \E k \in Nat \ {0} : Len(Padded(data)) = k * BlockSize
<1>1. PICK B \in Nat \ {0} : B = BlockSize
  BY ReleaseAssumption
<1>2. PICK l \in Nat : l = Len(data)
  BY LenProperties DEF IsSeq
<1>3. PICK r \in 0 .. B - 1 : r = l % B
  BY <1>1, <1>2
<1>4. PICK n \in 1 .. B : n = B - r
  BY <1>1, <1>3
<1>5. PICK padding : padding = [i \in 1 .. n |-> Byte(n)]
  OBVIOUS
<1>6. IsSeq(padding) /\ Len(padding) = n
  <2>1. padding \in [1 .. n -> {Byte(n)}] /\ n \in Nat
    BY <1>1, <1>5
  <2>2. QED
    BY <2>1, FunctionSeq
<1>7. Padded(data) = data \o padding
  BY <1>1, <1>2, <1>3, <1>4, <1>5 DEF Padded
<1>8. /\ IsSeq(data \o padding) /\ Len(data \o padding) = Len(data) + Len(padding)
      /\ \A i \in 1 .. Len(data) : (data \o padding)[i] = data[i]
      /\ \A i \in 1 .. Len(padding) : (data \o padding)[Len(data) + i] = padding[i]
  BY ONLY IsSeq(data), <1>6, ConcatSeq
<1>9. \E k \in Nat \ {0} : l + n = k * B
  <2>1. PICK q \in Nat : q = l \div B
    BY <1>1, <1>2
  <2>2. l = q * B + r
    BY <1>1, <1>2, <1>3, <2>1
  <2>3. l + n = (q + 1) * B /\ q + 1 \in Nat \ {0}
    BY <1>1, <1>4, <2>2
  <2>4. QED
    BY <2>3
<1>10. \A i \in 1 .. n : (data \o padding)[Len(data) + i] = Byte(n)
  BY <1>5, <1>6, <1>8
<1>11. QED
  BY <1>1, <1>2, <1>6, <1>7, <1>8, <1>9, <1>10

(* Removing it gives the data back, whatever they end with.                *)
LEMMA RemovesPadding ==
    ASSUME NEW data, IsSeq(data), Len(data) # 0
    PROVE  RemovePadding(Padded(data)) = data
<1>1. PICK padded : padded = Padded(data)
  OBVIOUS
<1>2. PICK l \in Nat : l = Len(data)
  BY LenProperties DEF IsSeq
<1>3. PICK n \in 1 .. BlockSize :
        /\ Len(padded) = l + n
        /\ \A i \in 1 .. l : padded[i] = data[i]
        /\ \A i \in 1 .. n : padded[l + i] = Byte(n)
  BY <1>1, <1>2, PaddedCells
<1>4. n \in Nat
  BY ReleaseAssumption
<1>5. \A i \in l + 1 .. l + n : padded[i] = Byte(n)
  <2>1. TAKE i \in l + 1 .. l + n
  <2>2. i - l \in 1 .. n /\ l + (i - l) = i
    BY <1>4
  <2>3. padded[l + (i - l)] = Byte(n)
    BY <1>3, <2>2
  <2>4. QED
    BY <2>2, <2>3
<1>6. padded[l + n][2] = n
  <2>1. l + n \in l + 1 .. l + n
    BY <1>4
  <2>2. QED
    BY <1>5, <2>1 DEF Byte
<1>7. RemovePadding(padded) = SubSeq(padded, 1, l)
  <2>1. (l + n) - n + 1 = l + 1 /\ (l + n) - n = l /\ n <= l + n
    BY <1>4
  <2>2. QED
    BY <1>3, <1>5, <1>6, <2>1 DEF RemovePadding
<1>8. PICK part : part = SubSeq(padded, 1, l)
  OBVIOUS
<1>9. IsSeq(part) /\ Len(part) = l /\ \A i \in 1 .. l : part[i] = padded[i]
  <2>1. IsSeq(padded)
    BY <1>1, PaddedCells
  <2>2. 1 \in 1 .. Len(padded) /\ l \in 1 .. Len(padded) /\ l - 1 + 1 = l /\ \A i \in 1 .. l : 1 + i - 1 = i
    BY <1>2, <1>3, <1>4
  <2>3. QED
    BY <1>8, <2>1, <2>2, PartOfSeq
<1>10. part = data
  BY <1>2, <1>3, <1>9, SameSeq
<1>11. QED
  BY <1>1, <1>7, <1>8, <1>10

(* The ciphertext of a block holds the key, the block before and the       *)
(* block itself.                                                           *)
LEMMA CipherCells ==
    ASSUME NEW data, NEW key, NEW iv, NEW k \in Nat \ {0}, Len(Padded(data)) = k * BlockSize
    PROVE  LET encrypted == EncryptFirmware(data, key, iv)
               blocks == CipherBlocks(Padded(data), key, iv)
           IN  /\ Len(Padded(data)) \div BlockSize = k
               /\ \A b \in 1 .. k : /\ b * BlockSize \in 1 .. k * BlockSize
                                   /\ encrypted[b * BlockSize][2] = blocks[b]
<1>1. PICK B \in Nat \ {0} : B = BlockSize
  BY ReleaseAssumption
<1>2. PICK padded : padded = Padded(data)
  OBVIOUS
<1>3. PICK blocks : blocks = CipherBlocks(padded, key, iv)
  OBVIOUS
<1>4. PICK encrypted : encrypted = EncryptFirmware(data, key, iv)
  OBVIOUS
<1>5. encrypted = [i \in 1 .. k * B |-> <<"cipher", blocks[(i - 1) \div B + 1], (i - 1) % B>>]
  BY <1>1, <1>2, <1>3, <1>4 DEF EncryptFirmware
<1>6. (k * B) \div B = k
  <2>1. 0 \in 0 .. B - 1 /\ k \in Nat
    BY <1>1
  <2>2. (k * B + 0) \div B = k
    BY <1>1, <2>1, BlockArithmetic
  <2>3. k * B + 0 = k * B
    OBVIOUS
  <2>4. QED
    BY <2>2, <2>3
<1>7. ASSUME NEW b \in 1 .. k
      PROVE  b * B \in 1 .. k * B /\ encrypted[b * B][2] = blocks[b]
  <2>1. PICK q \in Nat : q = b - 1
    OBVIOUS
  <2>2. b * B = q * B + B /\ b * B <= k * B /\ q * B \in Nat /\ b * B \in Nat
    BY <2>1
  <2>3. (q * B + (B - 1)) \div B = q
    <3>1. B - 1 \in 0 .. B - 1
      BY <1>1
    <3>2. QED
      BY <1>1, <3>1, BlockArithmetic
  <2>4. b * B - 1 = q * B + (B - 1) /\ b * B \in 1 .. k * B
    BY <1>1, <2>2
  <2>5. encrypted[b * B] = <<"cipher", blocks[(b * B - 1) \div B + 1], (b * B - 1) % B>>
    BY <1>5, <2>4
  <2>6. (b * B - 1) \div B + 1 = b
    BY <2>1, <2>3, <2>4
  <2>7. QED
    BY <2>4, <2>5, <2>6
<1>8. QED
  BY <1>1, <1>2, <1>3, <1>4, <1>6, <1>7

(* Decrypting with the key and IV of the release gives the padded image    *)
(* and nothing else.                                                       *)
LEMMA DecryptsWhole ==
    ASSUME NEW data, IsSeq(data), NEW key, NEW iv
    PROVE  DecryptFirmware(EncryptFirmware(data, key, iv), key, iv) = {Padded(data)}
<1>1. PICK B \in Nat \ {0} : B = BlockSize
  BY ReleaseAssumption
<1>2. PICK padded : padded = Padded(data)
  OBVIOUS
<1>3. PICK k \in Nat \ {0} : IsSeq(padded) /\ Len(padded) = k * B
  BY <1>1, <1>2, PaddedCells
<1>4. PICK encrypted : encrypted = EncryptFirmware(data, key, iv)
  OBVIOUS
<1>5. PICK blocks : blocks = CipherBlocks(padded, key, iv)
  OBVIOUS
<1>6. /\ Len(encrypted) = k * B /\ (k * B) \div B = k /\ (k * B) % B = 0
      /\ \A b \in 1 .. k : encrypted[b * B][2] = blocks[b]
  <2>1. Len(encrypted) = k * B
    BY <1>2, <1>3, <1>4, EncryptedCells
  <2>2. (k * B) \div B = k /\ \A b \in 1 .. k : encrypted[b * B][2] = blocks[b]
    <3>1. Len(Padded(data)) = k * BlockSize
      BY <1>1, <1>2, <1>3
    <3>2. /\ Len(Padded(data)) \div BlockSize = k
          /\ \A b \in 1 .. k :
               EncryptFirmware(data, key, iv)[b * BlockSize][2] = CipherBlocks(Padded(data), key, iv)[b]
      BY <3>1, CipherCells
    <3>3. QED
      BY <1>1, <1>2, <1>3, <1>4, <1>5, <3>2
  <2>3. (k * B) % B = 0
    <3>1. 0 \in 0 .. B - 1 /\ k \in Nat /\ k * B + 0 = k * B
      BY <1>1
    <3>2. (k * B + 0) % B = 0
      BY <1>1, <3>1, BlockArithmetic
    <3>3. QED
      BY <3>1, <3>2
  <2>4. QED
    BY <2>1, <2>2, <2>3
<1>7. /\ blocks[0] = iv
      /\ \A b \in 1 .. k : blocks[b] = <<"block", key, blocks[b - 1], Block(padded, b)>>
  <2>1. k \in Nat /\ k = Len(padded) \div BlockSize
    BY <1>1, <1>3, <1>6
  <2>2. QED
    BY <1>5, <2>1, CipherChain
<1> DEFINE n == Len(encrypted) \div BlockSize
           block(b) == encrypted[b * BlockSize][2]
           choices == [b \in 1 .. n |-> DecryptedBlock(block(b), key, IF b = 1 THEN iv ELSE block(b - 1))]
           seqs == [b \in 1 .. k |-> Block(padded, b)]
<1>8. n = k /\ \A b \in 1 .. k : block(b) = blocks[b]
  BY <1>1, <1>6
<1>9. DecryptFirmware(encrypted, key, iv) =
        IF n = 0 \/ Len(encrypted) % BlockSize # 0 THEN {}
        ELSE {FlattenSeq(t) : t \in {s \in [1 .. n -> UNION Range(choices)] :
                                       \A b \in 1 .. n : s[b] \in choices[b]}}
  BY DEF DecryptFirmware
<1>10. DOMAIN choices = 1 .. n /\ \A b \in 1 .. k : choices[b] = {Block(padded, b)}
  <2>1. ASSUME NEW b \in 1 .. k
        PROVE  DecryptedBlock(block(b), key, IF b = 1 THEN iv ELSE block(b - 1)) = {Block(padded, b)}
    <3>1. (IF b = 1 THEN iv ELSE block(b - 1)) = blocks[b - 1]
      <4>1. CASE b = 1
        BY <1>7, <4>1
      <4>2. CASE b # 1
        <5>1. b - 1 \in 1 .. k
          BY <4>2
        <5>2. QED
          BY <1>8, <4>2, <5>1
      <4>3. QED
        BY <4>1, <4>2
    <3>2. block(b) = <<"block", key, blocks[b - 1], Block(padded, b)>>
      BY <1>7, <1>8
    <3> HIDE DEF block
    <3>3. QED
      BY <3>1, <3>2 DEF DecryptedBlock
  <2>2. \A b \in 1 .. n : choices[b] = DecryptedBlock(block(b), key, IF b = 1 THEN iv ELSE block(b - 1))
    OBVIOUS
  <2>3. DOMAIN choices = 1 .. n
    OBVIOUS
  <2> HIDE DEF choices, n, block
  <2>4. QED
    BY <1>8, <2>1, <2>2, <2>3
<1> HIDE DEF choices, n, block
<1>11. {s \in [1 .. n -> UNION Range(choices)] : \A b \in 1 .. n : s[b] \in choices[b]} = {seqs}
  <2>1. seqs \in [1 .. n -> UNION Range(choices)]
    <3>1. \A b \in 1 .. k : Block(padded, b) \in UNION Range(choices)
      BY <1>8, <1>10 DEF Range
    <3>2. QED
      BY <1>8, <3>1
  <2>2. \A b \in 1 .. n : seqs[b] \in choices[b]
    BY <1>8, <1>10
  <2>3. ASSUME NEW s \in [1 .. n -> UNION Range(choices)], \A b \in 1 .. n : s[b] \in choices[b]
        PROVE  s = seqs
    BY <1>8, <1>10, <2>3
  <2>4. QED
    BY <2>1, <2>2, <2>3
<1>12. FlattenSeq(seqs) = padded
  BY <1>1, <1>3, FlattenBlocks
<1>13. DecryptFirmware(encrypted, key, iv) = {padded}
  <2>1. ~(n = 0 \/ Len(encrypted) % BlockSize # 0)
    BY <1>1, <1>6, <1>8
  <2>2. DecryptFirmware(encrypted, key, iv) = {FlattenSeq(t) : t \in {seqs}}
    BY <1>9, <1>11, <2>1
  <2>3. QED
    BY <1>12, <2>2
<1>14. QED
  BY <1>2, <1>4, <1>13

(* Of a whole packet the ECU receives the firmware.                        *)
LEMMA ReceivesWhole ==
    ASSUME NEW packet, NEW f, NEW data, IsSeq(data), NEW key, NEW iv,
           NEW firmware, firmware = EncryptFirmware(data, key, iv), IsPacket(packet, f, firmware)
    PROVE  Received(packet, Len(firmware)) = firmware
<1>1. PICK n \in Nat : n = Len(firmware) /\ Len(packet) = n + 8
  BY DEF IsPacket
<1>2. \A i \in 1 .. n : HeaderSize + i <= Len(packet) /\ packet[HeaderSize + i] = firmware[i]
  <2>1. HeaderSize = 8
    BY FieldPlaces
  <2>2. \A i \in 1 .. n : packet[8 + i] = firmware[i] /\ 8 + i <= n + 8
    BY <1>1 DEF IsPacket
  <2>3. QED
    BY <1>1, <2>1, <2>2
<1>3. Received(packet, n) = [i \in 1 .. n |-> firmware[i]]
  BY <1>2 DEF Received
<1>4. firmware = [i \in 1 .. n |-> firmware[i]]
  <2>1. IsSeq(firmware)
    BY EncryptedCells
  <2>2. DOMAIN firmware = 1 .. n /\ firmware = [i \in DOMAIN firmware |-> firmware[i]]
    BY <1>1, <2>1, LenProperties DEF IsSeq
  <2>3. QED
    BY <2>2
<1>5. QED
  BY <1>1, <1>3, <1>4

(* The checks the ECU makes of a packet and of the image in it.            *)
LEMMA ChecksPass ==
    ASSUME NEW r \in ReleaseRecords, NEW iv, r.private = ecu.public,
           NEW hdr, "file_size" \in DOMAIN hdr, "sha256_hash" \in DOMAIN hdr,
           "ecdsa_signature" \in DOMAIN hdr, "magic" \in DOMAIN hdr,
           NEW f, f = Fields(r, iv), hdr.magic = Magic, hdr.sha256_hash = f.sha256_hash,
           hdr.ecdsa_signature = f.ecdsa_signature, hdr.original_sha256 = f.original_sha256,
           hdr.plaintext_signature = f.plaintext_signature,
           NEW data, data = Cells(r.build.image), data # <<>>,
           NEW firmware, firmware = Encrypted(r, iv), firmware # <<>>
    PROVE  /\ VerifyContainer(hdr, firmware) /\ VerifyEncryptedFirmware(hdr, firmware, data)
           /\ VerifyFirmware(Metadata(hdr, data), data)
<1>1. \A k, x : SignData(x, k) = <<"signature", k, Hash(x)>> /\ SignData(x, k) # Zeros
  <2>1. TAKE k, x
  <2>2. SignData(x, k) = <<"signature", k, Hash(x)>>
    BY DEF SignData
  <2>3. SignData(x, k)[1] = "signature" /\ Zeros[1] = "zeros"
    BY <2>2 DEF Zeros
  <2>4. QED
    BY <2>2, <2>3
<1>2. /\ f.sha256_hash = Hash(firmware) /\ f.ecdsa_signature = SignData(firmware, ecu.public)
      /\ f.plaintext_signature = SignData(data, ecu.public)
      /\ f.original_sha256 \in {Hash(data), Zeros}
  BY DEF Fields
<1>3. VerifyContainer(hdr, firmware)
  BY <1>1, <1>2 DEF VerifyContainer, VerifyEcdsa
<1>4. VerifyEncryptedFirmware(hdr, firmware, data)
  BY <1>2, <1>3 DEF VerifyEncryptedFirmware
<1>5. /\ Metadata(hdr, data).magic = Magic /\ Metadata(hdr, data).sha256_hash = Hash(data)
      /\ Metadata(hdr, data).ecdsa_signature = f.plaintext_signature
  BY DEF Metadata
<1>6. VerifyFirmware(Metadata(hdr, data), data)
  BY <1>1, <1>2, <1>5 DEF VerifyFirmware, VerifyEcdsa
<1>7. QED
  BY <1>3, <1>4, <1>6

(* A whole packet, made with the keys of the ECU, is installed.            *)
LEMMA InstallsWhole ==
    ASSUME Typed, NEW i \in DOMAIN releases,
           releases[i].private = ecu.public, releases[i].aes = ecu.aes
    PROVE  {s.firmware : s \in Installable(PacketOf(i))} = {Cells(releases[i].build.image)}
<1>1. PICK r \in ReleaseRecords : r = releases[i]
  BY LenProperties, ElementOfSeq DEF Typed, ReleasesTyped
<1>2. PICK packet : packet = PacketOf(i)
  OBVIOUS
<1>3. PICK iv : iv = <<"iv", i>>
  OBVIOUS
<1>4. PICK f : f = Fields(r, iv)
  OBVIOUS
<1>5. PICK data : data = Cells(r.build.image)
  OBVIOUS
<1>6. PICK firmware : firmware = Encrypted(r, iv) /\ firmware = EncryptFirmware(data, ecu.aes, iv)
  BY <1>1, <1>5 DEF Encrypted
<1>7. IsPacket(packet, f, firmware)
  BY <1>1, <1>2, <1>3, <1>4, <1>6, PacketOfRelease DEF Typed, ReleasesTyped, FieldsOf, FirmwareOf
<1>8. IsSeq(data) /\ Len(data) # 0 /\ data # <<>>
  <2>1. r.build.image \in Seq(Bytes) /\ r.build.image # <<>>
    BY ReleaseAssumption DEF ReleaseRecords
  <2>2. Len(r.build.image) # 0
    BY <2>1, EmptySeq
  <2>3. IsSeq(data) /\ Len(data) # 0
    BY <1>5, <2>1, <2>2, ImageCells
  <2>4. QED
    BY <2>3
<1>9. firmware # <<>>
  <2>1. Len(firmware) = Len(Padded(data))
    BY <1>6, <1>8, EncryptedCells
  <2>2. \E k \in Nat \ {0} : Len(Padded(data)) = k * BlockSize
    BY <1>8, PaddedCells
  <2>3. Len(firmware) # 0
    BY <2>1, <2>2, ReleaseAssumption
  <2>4. QED
    BY <2>3
<1>10. PICK hdr : hdr = ParseHeader(Header(packet))
  OBVIOUS
<1>11. /\ ~(Len(packet) < HeaderSize) /\ HeaderOk(Header(packet))
       /\ hdr.magic = Magic /\ hdr.file_size = SizeCell(Len(firmware))
       /\ hdr.sha256_hash = f.sha256_hash /\ hdr.ecdsa_signature = f.ecdsa_signature
       /\ hdr.aes_iv = f.aes_iv /\ hdr.original_sha256 = f.original_sha256
       /\ hdr.plaintext_signature = f.plaintext_signature
  <2>1. IsSeq(packet) /\ Len(packet) >= 8 /\ ~(Len(packet) < 8)
    BY <1>7 DEF IsPacket
  <2>2. Len(Header(packet)) = 8 /\ \A n \in 1 .. 8 : Header(packet)[n] = packet[n]
    BY <2>1, HeaderCells
  <2>3. HeaderOk(Header(packet)) /\ ~(Len(packet) < HeaderSize)
    BY <1>7, <2>1, <2>2, FieldPlaces DEF HeaderOk, IsPacket
  <2>4. QED
    BY <1>7, <1>10, <2>2, <2>3, FieldPlaces DEF IsPacket
<1>12. hdr.file_size # Damaged /\ hdr.file_size[2] = Len(firmware)
  <2>1. /\ SizeCell(Len(firmware))[1] = "size" /\ SizeCell(Len(firmware))[2] = Len(firmware)
        /\ Damaged[1] = "damaged"
    BY DEF SizeCell, Damaged
  <2>2. QED
    BY <1>11, <2>1
<1>13. Received(packet, hdr.file_size[2]) = firmware
  BY <1>6, <1>7, <1>8, <1>12, ReceivesWhole
<1>14. {RemovePadding(p) : p \in DecryptFirmware(firmware, ecu.aes, hdr.aes_iv)} = {data}
  <2>1. hdr.aes_iv = iv
    BY <1>4, <1>11 DEF Fields
  <2>2. DecryptFirmware(firmware, ecu.aes, hdr.aes_iv) = {Padded(data)}
    BY <1>6, <1>8, <2>1, DecryptsWhole
  <2>3. RemovePadding(Padded(data)) = data
    BY <1>8, RemovesPadding
  <2>4. QED
    BY <2>2, <2>3
<1>15. /\ VerifyContainer(hdr, firmware) /\ VerifyEncryptedFirmware(hdr, firmware, data)
       /\ VerifyFirmware(Metadata(hdr, data), data)
  <2>1. /\ "magic" \in DOMAIN hdr /\ "file_size" \in DOMAIN hdr /\ "sha256_hash" \in DOMAIN hdr
        /\ "ecdsa_signature" \in DOMAIN hdr
    <3>1. /\ HeaderFields[1] = "magic" /\ HeaderFields[3] = "file_size" /\ HeaderFields[4] = "sha256_hash"
          /\ HeaderFields[5] = "ecdsa_signature"
          /\ 1 \in 1 .. HeaderSize /\ 3 \in 1 .. HeaderSize /\ 4 \in 1 .. HeaderSize /\ 5 \in 1 .. HeaderSize
      BY FieldPlaces DEF HeaderFields
    <3>2. DOMAIN hdr = {HeaderFields[n] : n \in 1 .. HeaderSize}
      BY <1>10 DEF ParseHeader
    <3>3. QED
      BY <3>1, <3>2
  <2>2. r.private = ecu.public
    BY <1>1
  <2>3. QED
    BY <1>4, <1>5, <1>6, <1>8, <1>9, <1>11, <2>1, <2>2, ChecksPass
<1>16. Installable(packet) = {[hdr |-> Metadata(hdr, data), firmware |-> data]}
  <2>1. Installable(packet) =
          {[hdr |-> Metadata(hdr, p), firmware |-> p] : p \in
             {p \in {data} : /\ p # <<>> /\ VerifyEncryptedFirmware(hdr, firmware, p)
                             /\ VerifyFirmware(Metadata(hdr, p), p)}}
    BY <1>10, <1>11, <1>12, <1>13, <1>14, <1>15 DEF Installable
  <2>2. QED
    BY <1>8, <1>15, <2>1
<1>17. QED
  BY <1>1, <1>2, <1>5, <1>16

(* No release is refused for nothing: whatever its length and whatever     *)
(* bytes it ends with, a whole packet made with the keys the bootloader    *)
(* was built with gives its image and nothing else                         *)
(* (fota_verify_encrypted_firmware, aes_decrypt_firmware and               *)
(* aes_remove_pkcs7_padding).                                              *)
THEOREM AcceptsWholeAlways == Spec => []AcceptsWhole
<1>1. Typed => AcceptsWhole
  BY InstallsWhole DEF AcceptsWhole
<1>2. QED
  BY <1>1, KeysKeepTypes, PTL

-----------------------------------------------------------------------------
(* What the ECU decrypts with another key is not what was encrypted.       *)

(* Sequences as long as a block, put together, end with the last of them.  *)
LEMMA FlattenedBlocks ==
    ASSUME NEW k \in Nat \ {0}, NEW S, NEW s \in [1 .. k -> S],
           \A b \in 1 .. k : IsSeq(s[b]) /\ Len(s[b]) = BlockSize
    PROVE  /\ IsSeq(FlattenSeq(s)) /\ Len(FlattenSeq(s)) = k * BlockSize
           /\ Block(FlattenSeq(s), k) = s[k]
<1>1. PICK B \in Nat \ {0} : B = BlockSize
  BY ReleaseAssumption
<1>2. Len(s) = k
  BY FunctionSeq
<1>3. PICK f : Flattened(f, k, s)
  BY FlattenExists
<1>4. PICK flat : flat = CHOOSE x : Flattened(x, k, s)
  OBVIOUS
<1>5. Flattened(flat, k, s)
  BY <1>3, <1>4
<1>6. FlattenSeq(s) = flat[k]
  <2>1. Len(s) # 0
    BY <1>2
  <2>2. QED
    BY <1>2, <1>4, <2>1 DEF FlattenSeq, Flattened
<1>7. \A b \in 1 .. k : flat[b] = IF b = 1 THEN s[b] ELSE flat[b - 1] \o s[b]
  BY <1>5 DEF Flattened
<1> DEFINE T == {m \in Nat : m \in 1 .. k => IsSeq(flat[m]) /\ Len(flat[m]) = m * B}
<1>8. 0 \in T
  OBVIOUS
<1>9. ASSUME NEW m \in Nat, m \in T PROVE m + 1 \in T
  <2>1. SUFFICES ASSUME m + 1 \in 1 .. k
                 PROVE  IsSeq(flat[m + 1]) /\ Len(flat[m + 1]) = (m + 1) * B
    OBVIOUS
  <2>2. CASE m = 0
    <3>1. flat[1] = s[1] /\ IsSeq(s[1]) /\ Len(s[1]) = B
      BY <1>1, <1>7
    <3>2. m + 1 = 1 /\ (m + 1) * B = B
      BY <2>2
    <3>3. QED
      BY <3>1, <3>2
  <2>3. CASE m # 0
    <3>1. m \in 1 .. k /\ (m + 1) - 1 = m /\ m + 1 # 1
      BY <2>1, <2>3
    <3>2. flat[m + 1] = flat[m] \o s[m + 1]
      BY <1>7, <2>1, <3>1
    <3>3. IsSeq(flat[m]) /\ Len(flat[m]) = m * B
      BY <1>9, <3>1
    <3>4. IsSeq(s[m + 1]) /\ Len(s[m + 1]) = B
      BY <1>1, <2>1
    <3>5. IsSeq(flat[m] \o s[m + 1]) /\ Len(flat[m] \o s[m + 1]) = m * B + B
      <4>1. PICK front, last : front = flat[m] /\ last = s[m + 1]
        OBVIOUS
      <4>2. IsSeq(front \o last) /\ Len(front \o last) = Len(front) + Len(last)
        BY ONLY <3>3, <3>4, <4>1, ConcatSeq
      <4>3. QED
        BY <3>3, <3>4, <4>1, <4>2
    <3>6. m * B + B = (m + 1) * B
      OBVIOUS
    <3>7. QED
      BY <3>2, <3>5, <3>6
  <2>4. QED
    BY <2>2, <2>3
<1> HIDE DEF T
<1>10. \A m \in 1 .. k : IsSeq(flat[m]) /\ Len(flat[m]) = m * B
  <2>1. TAKE m \in 1 .. k
  <2>2. m \in T
    BY <1>8, <1>9, AllNumbers
  <2>3. QED
    BY <2>2 DEF T
<1>11. Block(flat[k], k) = s[k]
  <2>0. PICK d \in Nat, q \in Nat : d = k * B /\ q = (k - 1) * B /\ d = q + B
    <3>1. k * B = (k - 1) * B + B /\ k * B \in Nat /\ (k - 1) * B \in Nat
      OBVIOUS
    <3>2. QED
      BY <3>1
  <2>1. PICK whole, last : whole = flat[k] /\ last = s[k]
    OBVIOUS
  <2>2. IsSeq(whole) /\ Len(whole) = d /\ IsSeq(last) /\ Len(last) = B
    BY <1>1, <1>10, <2>0, <2>1
  <2>3. \A n \in 1 .. B : whole[q + n] = last[n]
    <3>1. CASE k = 1
      BY <1>7, <2>0, <2>1, <3>1
    <3>2. CASE k # 1
      <4>1. k - 1 \in 1 .. k
        BY <3>2
      <4>2. PICK front : front = flat[k - 1]
        OBVIOUS
      <4>3. whole = front \o last /\ IsSeq(front) /\ Len(front) = q
        <5>0. k \in 1 .. k /\ ~(k = 1)
          BY <3>2
        <5>1. flat[k] = flat[k - 1] \o s[k]
          BY <1>7, <5>0
        <5>2. IsSeq(flat[k - 1]) /\ Len(flat[k - 1]) = (k - 1) * B
          BY <1>10, <4>1
        <5>3. QED
          BY <2>0, <2>1, <4>2, <5>1, <5>2
      <4>4. \A n \in 1 .. Len(last) : (front \o last)[Len(front) + n] = last[n]
        BY ONLY <2>2, <4>3, ConcatSeq
      <4>5. QED
        BY <2>2, <4>3, <4>4
    <3>3. QED
      BY <3>1, <3>2
  <2>4. PICK part : part = SubSeq(whole, q + 1, d)
    OBVIOUS
  <2>5. IsSeq(part) /\ Len(part) = B /\ \A n \in 1 .. B : part[n] = whole[q + n]
    <3>1. /\ q + 1 \in 1 .. Len(whole) /\ d \in q + 1 .. Len(whole) /\ d - (q + 1) + 1 = B
          /\ \A n \in 1 .. B : (q + 1) + n - 1 = q + n
      BY <2>0, <2>2
    <3>2. PICK x, y : x = q + 1 /\ y = d /\ x \in 1 .. Len(whole) /\ y \in x .. Len(whole)
      BY <3>1
    <3>3. /\ IsSeq(SubSeq(whole, x, y)) /\ Len(SubSeq(whole, x, y)) = y - x + 1
          /\ \A n \in 1 .. y - x + 1 : SubSeq(whole, x, y)[n] = whole[x + n - 1]
      BY ONLY <2>2, <3>2, PartOfSeq
    <3>4. QED
      BY <2>4, <3>1, <3>2, <3>3
  <2>6. part = last
    BY <2>2, <2>3, <2>5, SameSeq
  <2>7. QED
    BY <1>1, <2>0, <2>1, <2>4, <2>6 DEF Block
<1>12. QED
  BY <1>1, <1>6, <1>10, <1>11

(* Data that lose their padding are the padded data, if they are as long.  *)
LEMMA PaddingRemoved ==
    ASSUME NEW data, IsSeq(data), Len(data) # 0,
           NEW d, IsSeq(d), Len(d) = Len(Padded(data)), RemovePadding(d) = data
    PROVE  d = Padded(data)
<1>1. PICK padded : padded = Padded(data)
  OBVIOUS
<1>2. PICK l \in Nat : l = Len(data)
  BY LenProperties DEF IsSeq
<1>3. PICK n \in 1 .. BlockSize :
        /\ Len(padded) = l + n
        /\ \A i \in 1 .. l : padded[i] = data[i]
        /\ \A i \in 1 .. n : padded[l + i] = Byte(n)
  BY <1>1, <1>2, PaddedCells
<1>4. IsSeq(padded) /\ Len(d) = l + n /\ n \in Nat
  BY <1>1, <1>3, PaddedCells, ReleaseAssumption
<1>5. PICK m : m = d[Len(d)][2]
  OBVIOUS
<1>6. /\ m \in 1 .. BlockSize /\ m <= Len(d)
      /\ \A i \in Len(d) - m + 1 .. Len(d) : d[i] = Byte(m)
      /\ data = SubSeq(d, 1, Len(d) - m)
  <2>1. data # <<>>
    OBVIOUS
  <2>2. QED
    BY <1>5, <2>1 DEF RemovePadding
<1>7. m \in Nat
  BY <1>6, ReleaseAssumption
<1>8. PICK k \in Nat : k = Len(d) - m
  BY <1>4, <1>6, <1>7
<1>9. k # 0
  <2>1. SUFFICES ASSUME k = 0 PROVE FALSE
    OBVIOUS
  <2>2. /\ 1 \in Int /\ 0 \in Int /\ \A i \in 1 .. 0 : d[i] \in ToSet(d)
    OBVIOUS
  <2>3. Len(SubSeq(d, 1, 0)) = IF 1 <= 0 THEN 0 - 1 + 1 ELSE 0
    BY <2>2, SubSeqProperties
  <2>4. QED
    BY <1>6, <1>8, <2>1, <2>3
<1>10. k = l /\ \A i \in 1 .. l : data[i] = d[i]
  <2>1. /\ 1 \in 1 .. Len(d) /\ k \in 1 .. Len(d) /\ k - 1 + 1 = k
        /\ \A i \in 1 .. k : 1 + i - 1 = i
    BY <1>4, <1>7, <1>8, <1>9
  <2>2. Len(SubSeq(d, 1, k)) = k /\ \A i \in 1 .. k : SubSeq(d, 1, k)[i] = d[i]
    BY <2>1, PartOfSeq
  <2>3. QED
    BY <1>2, <1>6, <1>8, <2>2
<1>11. m = n
  BY <1>4, <1>7, <1>8, <1>10
<1>12. \A i \in 1 .. Len(d) : d[i] = padded[i]
  <2>1. TAKE i \in 1 .. Len(d)
  <2>2. CASE i <= l
    BY <1>3, <1>10, <2>2
  <2>3. CASE i > l
    <3>1. i - l \in 1 .. n /\ l + (i - l) = i /\ i \in Len(d) - m + 1 .. Len(d)
      BY <1>4, <1>11, <2>3
    <3>2. padded[l + (i - l)] = Byte(n) /\ d[i] = Byte(m)
      BY <1>3, <1>6, <3>1
    <3>3. QED
      BY <1>11, <3>1, <3>2
  <2>4. i <= l \/ i > l
    BY <1>4
  <2>5. QED
    BY <2>2, <2>3, <2>4
<1>13. QED
  BY <1>1, <1>3, <1>4, <1>12, SameSeq

(* What decrypts to an image has been encrypted with the key it is         *)
(* decrypted with: with another key, the last block is another one.        *)
LEMMA DecryptsWithItsKey ==
    ASSUME NEW data, IsSeq(data), Len(data) # 0, NEW key, NEW iv, NEW other, NEW before,
           NEW d \in DecryptFirmware(EncryptFirmware(data, key, iv), other, before),
           RemovePadding(d) = data
    PROVE  key = other
<1>0. SUFFICES ASSUME key # other PROVE FALSE
  OBVIOUS
<1>1. PICK B \in Nat \ {0} : B = BlockSize
  BY ReleaseAssumption
<1>2. PICK padded : padded = Padded(data)
  OBVIOUS
<1>3. PICK k \in Nat \ {0} : IsSeq(padded) /\ Len(padded) = k * B
  BY <1>1, <1>2, PaddedCells
<1>4. PICK encrypted : encrypted = EncryptFirmware(data, key, iv)
  OBVIOUS
<1>5. PICK blocks : blocks = CipherBlocks(padded, key, iv)
  OBVIOUS
<1>6. /\ Len(encrypted) = k * B /\ (k * B) \div B = k
      /\ \A b \in 1 .. k : encrypted[b * B][2] = blocks[b]
  <2>1. Len(encrypted) = k * B
    BY <1>2, <1>3, <1>4, EncryptedCells
  <2>2. Len(Padded(data)) = k * BlockSize
    BY <1>1, <1>2, <1>3
  <2>3. /\ Len(Padded(data)) \div BlockSize = k
        /\ \A b \in 1 .. k :
             EncryptFirmware(data, key, iv)[b * BlockSize][2] = CipherBlocks(Padded(data), key, iv)[b]
    BY <2>2, CipherCells
  <2>4. QED
    BY <1>1, <1>2, <1>3, <1>4, <1>5, <2>1, <2>3
<1>7. \A b \in 1 .. k : blocks[b] = <<"block", key, blocks[b - 1], Block(padded, b)>>
  <2>1. k \in Nat /\ k = Len(padded) \div BlockSize
    BY <1>1, <1>3, <1>6
  <2>2. QED
    BY <1>5, <2>1, CipherChain
<1> DEFINE n == Len(encrypted) \div BlockSize
           block(b) == encrypted[b * BlockSize][2]
           choices == [b \in 1 .. n |-> DecryptedBlock(block(b), other, IF b = 1 THEN before ELSE block(b - 1))]
<1>8. n = k /\ \A b \in 1 .. k : block(b) = blocks[b]
  BY <1>1, <1>6
<1>9. DecryptFirmware(encrypted, other, before) =
        IF n = 0 \/ Len(encrypted) % BlockSize # 0 THEN {}
        ELSE {FlattenSeq(t) : t \in {s \in [1 .. n -> UNION Range(choices)] :
                                       \A b \in 1 .. n : s[b] \in choices[b]}}
  BY DEF DecryptFirmware
<1>10. \A b \in 1 .. k :
         choices[b] = {Cells(bytes) : bytes \in [1 .. BlockSize -> Bytes]} \ {Block(padded, b)}
  <2>1. ASSUME NEW b \in 1 .. k, NEW cell
        PROVE  DecryptedBlock(block(b), other, cell) =
                 {Cells(bytes) : bytes \in [1 .. BlockSize -> Bytes]} \ {Block(padded, b)}
    <3>1. block(b) = <<"block", key, blocks[b - 1], Block(padded, b)>>
      BY <1>7, <1>8
    <3> HIDE DEF block
    <3>2. block(b)[2] = key /\ block(b)[4] = Block(padded, b)
      BY <3>1
    <3>3. QED
      BY <1>0, <3>2 DEF DecryptedBlock
  <2>2. \A b \in 1 .. n : choices[b] = DecryptedBlock(block(b), other, IF b = 1 THEN before ELSE block(b - 1))
    OBVIOUS
  <2> HIDE DEF choices, n, block
  <2>3. QED
    BY <1>8, <2>1, <2>2
<1> HIDE DEF choices, n, block
<1>11. PICK s \in [1 .. n -> UNION Range(choices)] :
         (\A b \in 1 .. n : s[b] \in choices[b]) /\ d = FlattenSeq(s)
  <2>1. d \in {FlattenSeq(t) : t \in {s \in [1 .. n -> UNION Range(choices)] :
                                       \A b \in 1 .. n : s[b] \in choices[b]}}
    BY <1>4, <1>9
  <2>2. QED
    BY <2>1
<1>12. \A b \in 1 .. k : IsSeq(s[b]) /\ Len(s[b]) = BlockSize /\ s[b] # Block(padded, b)
  <2>1. TAKE b \in 1 .. k
  <2>2. s[b] \in {Cells(bytes) : bytes \in [1 .. BlockSize -> Bytes]} /\ s[b] # Block(padded, b)
    BY <1>8, <1>10, <1>11
  <2>3. PICK bytes \in [1 .. BlockSize -> Bytes] : s[b] = Cells(bytes)
    BY <2>2
  <2>4. bytes \in Seq(Bytes)
    <3>1. bytes \in UNION {[1 .. m -> Bytes] : m \in Nat}
      BY ReleaseAssumption
    <3>2. QED
      BY <3>1, SeqDef
  <2>5. Len(bytes) = BlockSize
    BY FunctionSeq, ReleaseAssumption
  <2>6. QED
    BY <2>2, <2>3, <2>4, <2>5, ImageCells
<1>13. IsSeq(d) /\ Len(d) = k * BlockSize /\ Block(d, k) = s[k]
  <2>1. PICK S : S = UNION Range(choices)
    OBVIOUS
  <2>2. s \in [1 .. k -> S]
    BY <1>8, <2>1
  <2>3. QED
    BY <1>11, <1>12, <2>2, FlattenedBlocks
<1>14. d = padded
  BY <1>1, <1>2, <1>3, <1>13, PaddingRemoved
<1>15. QED
  BY <1>12, <1>13, <1>14

-----------------------------------------------------------------------------
(* What the ECU installs.                                                  *)

(* A packet with a damaged cell is as long as the packet.                  *)
LEMMA DamagedCells ==
    ASSUME NEW packet, IsSeq(packet), NEW k \in 1 .. Len(packet)
    PROVE  LET damaged == [packet EXCEPT ![k] = Damaged]
           IN  /\ IsSeq(damaged) /\ Len(damaged) = Len(packet)
               /\ \A n \in 1 .. Len(packet) : damaged[n] = IF n = k THEN Damaged ELSE packet[n]
<1> DEFINE S == ToSet(packet) \union {Damaged}
<1>1. packet \in Seq(S) /\ Damaged \in S
  BY SeqMonotonic DEF IsSeq
<1> HIDE DEF S
<1>2. /\ [packet EXCEPT ![k] = Damaged] \in Seq(S)
      /\ Len([packet EXCEPT ![k] = Damaged]) = Len(packet)
      /\ \A n \in 1 .. Len(packet) :
           [packet EXCEPT ![k] = Damaged][n] = IF n = k THEN Damaged ELSE packet[n]
  BY <1>1, ExceptSeq
<1>3. IsSeq([packet EXCEPT ![k] = Damaged])
  <2>1. [packet EXCEPT ![k] = Damaged] \in Seq(S)
    BY <1>2
  <2>2. QED
    BY <2>1, SeqIsSeq
<1>4. QED
  BY <1>2, <1>3

(* The signature that the metadata of the slot is checked with is the one  *)
(* over the plaintext in the packet's header.                              *)
LEMMA SlotSignature ==
    ASSUME NEW header, NEW p, VerifyFirmware(Metadata(ParseHeader(header), p), p)
    PROVE  VerifySignature(p, header[8], ecu.public)
<1> DEFINE hdr == ParseHeader(header)
<1>1. "ecdsa_signature" \in DOMAIN hdr
  <2>1. HeaderFields[5] = "ecdsa_signature" /\ 5 \in 1 .. HeaderSize
    BY FieldPlaces DEF HeaderFields
  <2>2. QED
    BY <2>1 DEF ParseHeader
<1>2. hdr.plaintext_signature = header[8]
  BY FieldPlaces
<1> HIDE DEF hdr
<1>3. Metadata(hdr, p).ecdsa_signature = hdr.plaintext_signature
  BY <1>1 DEF Metadata
<1>4. Metadata(hdr, p).ecdsa_signature = <<"signature", ecu.public, Hash(p)>>
  BY DEF VerifyFirmware, VerifyEcdsa, hdr
<1>5. QED
  BY <1>2, <1>3, <1>4 DEF VerifySignature

(* Whatever is delivered is a sequence of cells.                           *)
LEMMA SentCells ==
    ASSUME Typed, StreamInv, NEW cells \in Deliveries
    PROVE  IsSeq(cells)
<1>1. CASE cells \in PartsOf(stream)
  <2>1. IsSeq(stream)
    BY DEF StreamInv
  <2>2. \E j \in 1 .. Len(stream) : \E k \in j .. Len(stream) : cells = SubSeq(stream, j, k)
    BY <1>1 DEF PartsOf
  <2>3. QED
    BY <2>1, <2>2, PartOfSeq
<1>2. CASE \E i \in DOMAIN releases : cells \in DamagedCopies(PacketOf(i))
  <2>1. PICK i \in DOMAIN releases : cells \in DamagedCopies(PacketOf(i))
    BY <1>2
  <2>2. PICK packet : packet = PacketOf(i)
    OBVIOUS
  <2>3. IsSeq(packet)
    BY <2>2, PacketOfRelease DEF Typed, ReleasesTyped, IsPacket
  <2>4. PICK k \in 1 .. Len(packet) : cells = [packet EXCEPT ![k] = Damaged]
    BY <2>1, <2>2 DEF DamagedCopies
  <2>5. IsSeq([packet EXCEPT ![k] = Damaged])
    BY <2>3, DamagedCells
  <2>6. QED
    BY <2>4, <2>5
<1>3. QED
  BY <1>1, <1>2 DEF Deliveries

(* The two signatures in what was sent are those of one release, unless    *)
(* they are damaged.                                                       *)
LEMMA SentSignatures ==
    ASSUME Typed, StreamInv, NEW cells \in Deliveries, Len(cells) >= 8, Header(cells)[1] = Magic
    PROVE  \E i \in DOMAIN releases :
             /\ Header(cells)[5] \in {FieldsOf(i).ecdsa_signature, Damaged}
             /\ Header(cells)[8] \in {FieldsOf(i).plaintext_signature, Damaged}
<1>1. \A i \in DOMAIN releases :
        /\ IsSeq(PacketOf(i)) /\ Len(PacketOf(i)) \in Nat /\ 8 <= Len(PacketOf(i))
        /\ PacketOf(i)[5] = FieldsOf(i).ecdsa_signature
        /\ PacketOf(i)[8] = FieldsOf(i).plaintext_signature
  <2>1. TAKE i \in DOMAIN releases
  <2>2. IsPacket(PacketOf(i), FieldsOf(i), FirmwareOf(i))
    BY PacketOfRelease DEF Typed, ReleasesTyped
  <2>3. QED
    BY <2>2 DEF IsPacket
<1>2. CASE cells \in PartsOf(stream)
  <2>1. IsSeq(cells)
    BY SentCells
  <2>2. Len(cells) \in Nat
    BY <2>1, LenProperties DEF IsSeq
  <2>3. \A n \in 1 .. 8 : Header(cells)[n] = cells[n]
    BY <2>1, HeaderCells
  <2>4. cells[1] = Magic
    BY <2>3
  <2>5. PICK i \in DOMAIN releases :
          \A n \in 1 .. Len(cells) : n <= Len(PacketOf(i)) => cells[n] = PacketOf(i)[n]
    BY <1>2, <2>4, PartBeginsLikePacket
  <2>6. cells[5] = PacketOf(i)[5] /\ cells[8] = PacketOf(i)[8]
    BY <1>1, <2>2, <2>5
  <2>7. QED
    BY <1>1, <2>3, <2>6
<1>3. CASE \E i \in DOMAIN releases : cells \in DamagedCopies(PacketOf(i))
  <2>1. PICK i \in DOMAIN releases : cells \in DamagedCopies(PacketOf(i))
    BY <1>3
  <2>2. PICK packet : packet = PacketOf(i)
    OBVIOUS
  <2>3. IsSeq(packet) /\ Len(packet) \in Nat /\ 8 <= Len(packet)
    BY <1>1, <2>2
  <2>4. PICK k \in 1 .. Len(packet) : cells = [packet EXCEPT ![k] = Damaged]
    BY <2>1, <2>2 DEF DamagedCopies
  <2>5. /\ IsSeq(cells)
        /\ \A n \in 1 .. Len(packet) : cells[n] = IF n = k THEN Damaged ELSE packet[n]
    <3>1. /\ IsSeq([packet EXCEPT ![k] = Damaged])
          /\ \A n \in 1 .. Len(packet) :
               [packet EXCEPT ![k] = Damaged][n] = IF n = k THEN Damaged ELSE packet[n]
      BY <2>3, DamagedCells
    <3>2. QED
      BY <2>4, <3>1
  <2>6. cells[5] \in {packet[5], Damaged} /\ cells[8] \in {packet[8], Damaged}
    BY <2>3, <2>5
  <2>7. Header(cells)[5] = cells[5] /\ Header(cells)[8] = cells[8]
    BY <2>5, HeaderCells
  <2>8. QED
    BY <1>1, <2>2, <2>6, <2>7
<1>4. QED
  BY <1>2, <1>3 DEF Deliveries

(* The container is signed over the ciphertext.                            *)
LEMMA ContainerSignature ==
    ASSUME NEW header, NEW encrypted, VerifyContainer(ParseHeader(header), encrypted)
    PROVE  VerifySignature(encrypted, header[5], ecu.public)
<1>1. PICK hdr : hdr = ParseHeader(header) /\ hdr.ecdsa_signature = header[5]
  BY FieldPlaces
<1>2. VerifyContainer(hdr, encrypted)
  BY <1>1
<1>3. hdr.ecdsa_signature = <<"signature", ecu.public, Hash(encrypted)>>
  BY <1>2 DEF VerifyContainer, VerifyEcdsa
<1>4. QED
  BY <1>1, <1>3 DEF VerifySignature

(* What a signature says: the key and the data it was made with.           *)
LEMMA SignatureSays ==
    ASSUME NEW data, NEW key, NEW p, NEW public, NEW signature \in {SignData(data, key), Damaged},
           VerifySignature(p, signature, public)
    PROVE  p = data /\ key = public
<1>0. signature = <<"signature", public, Hash(p)>>
  BY DEF VerifySignature
<1>1. <<"signature", public, Hash(p)>> # Damaged
  <2>1. <<"signature", public, Hash(p)>>[1] = "signature" /\ Damaged[1] = "damaged"
    BY DEF Damaged
  <2>2. QED
    BY <2>1
<1>2. <<"signature", public, Hash(p)>> = <<"signature", key, Hash(data)>>
  BY <1>0, <1>1 DEF SignData
<1>3. public = key /\ Hash(p) = Hash(data)
  BY <1>2
<1>4. QED
  BY <1>3 DEF Hash

(* What the ECU installs was signed and encrypted in one release, with its *)
(* keys.                                                                   *)
LEMMA InstallsRelease ==
    ASSUME Typed, StreamInv, NEW cells \in Deliveries, NEW s \in Installable(cells)
    PROVE  \E i \in DOMAIN releases : /\ s.firmware = Cells(releases[i].build.image)
                                     /\ releases[i].private = ecu.public
                                     /\ releases[i].aes = ecu.aes
<1> DEFINE header == Header(cells)
           hdr == ParseHeader(header)
           encrypted == Received(cells, hdr.file_size[2])
<1>1. PICK p : /\ s.firmware = p /\ ~(Len(cells) < HeaderSize) /\ HeaderOk(header)
               /\ VerifyContainer(hdr, encrypted)
               /\ \E d \in DecryptFirmware(encrypted, ecu.aes, hdr.aes_iv) : p = RemovePadding(d)
               /\ VerifyFirmware(Metadata(hdr, p), p)
  BY DEF Installable
<1> HIDE DEF encrypted
<1>2. VerifySignature(p, header[8], ecu.public) /\ VerifySignature(encrypted, header[5], ecu.public)
  <2>1. VerifyFirmware(Metadata(ParseHeader(header), p), p) /\ VerifyContainer(ParseHeader(header), encrypted)
    BY <1>1
  <2> HIDE DEF header, hdr
  <2>2. QED
    BY <2>1, SlotSignature, ContainerSignature
<1> HIDE DEF header, hdr
<1>3. Len(cells) >= 8 /\ header[1] = Magic
  <2>1. PICK n : n = Len(cells)
    OBVIOUS
  <2>2. n \in Nat
    <3>1. IsSeq(cells)
      BY SentCells
    <3>2. QED
      BY <2>1, <3>1, LenProperties DEF IsSeq
  <2>3. ~(n < 8)
    BY <1>1, <2>1, FieldPlaces
  <2>4. n >= 8
    BY <2>2, <2>3
  <2>5. QED
    BY <1>1, <2>1, <2>4 DEF HeaderOk
<1>4. PICK i \in DOMAIN releases : /\ header[5] \in {FieldsOf(i).ecdsa_signature, Damaged}
                                   /\ header[8] \in {FieldsOf(i).plaintext_signature, Damaged}
  BY <1>3, SentSignatures DEF header
<1>5. PICK data, key, private, iv, public :
        /\ data = Cells(releases[i].build.image) /\ key = releases[i].aes
        /\ private = releases[i].private /\ iv = <<"iv", i>> /\ public = ecu.public
  OBVIOUS
<1>6. p = data /\ public = private
  <2>1. FieldsOf(i).plaintext_signature = SignData(data, private)
    BY <1>5 DEF FieldsOf, Fields
  <2>2. PICK signature : signature = header[8]
    OBVIOUS
  <2>3. signature \in {SignData(data, private), Damaged} /\ VerifySignature(p, signature, public)
    BY <1>2, <1>4, <1>5, <2>1, <2>2
  <2>4. QED
    BY ONLY <2>3, SignatureSays
<1>7. encrypted = EncryptFirmware(data, key, iv)
  <2>1. PICK firmware, received : firmware = FirmwareOf(i) /\ received = encrypted
    OBVIOUS
  <2>2. FieldsOf(i).ecdsa_signature = SignData(firmware, private)
    BY <1>5, <2>1 DEF FieldsOf, FirmwareOf, Fields
  <2>3. PICK signature : signature = header[5]
    OBVIOUS
  <2>4. signature \in {SignData(firmware, private), Damaged} /\ VerifySignature(received, signature, public)
    BY <1>2, <1>4, <1>5, <2>1, <2>2, <2>3
  <2>5. received = firmware
    BY ONLY <2>4, SignatureSays
  <2>6. firmware = EncryptFirmware(data, key, iv)
    BY <1>5, <2>1 DEF FirmwareOf, Encrypted
  <2>7. QED
    BY <2>1, <2>5, <2>6
<1>8. IsSeq(data) /\ Len(data) # 0
  <2>1. PICK r \in ReleaseRecords : r = releases[i]
    BY LenProperties, ElementOfSeq DEF Typed, ReleasesTyped
  <2>2. r.build.image \in Seq(Bytes) /\ r.build.image # <<>>
    BY ReleaseAssumption DEF ReleaseRecords
  <2>3. Len(r.build.image) # 0
    BY <2>2, EmptySeq
  <2>4. QED
    BY <1>5, <2>1, <2>2, <2>3, ImageCells
<1>9. key = ecu.aes
  <2>1. PICK d : d \in DecryptFirmware(encrypted, ecu.aes, hdr.aes_iv) /\ p = RemovePadding(d)
    BY <1>1
  <2>2. PICK other, before : other = ecu.aes /\ before = hdr.aes_iv
    OBVIOUS
  <2>3. d \in DecryptFirmware(EncryptFirmware(data, key, iv), other, before) /\ RemovePadding(d) = data
    BY <1>6, <1>7, <2>1, <2>2
  <2>4. key = other
    BY ONLY <1>8, <2>3, DecryptsWithItsKey
  <2>5. QED
    BY <2>2, <2>4
<1>10. QED
  BY <1>1, <1>5, <1>6, <1>9

(* Nothing is installed before the bootloader is built, and what is stays  *)
(* the image of one release.                                               *)
SlotInv ==
    slot # None =>
      /\ ecu # None
      /\ \E i \in DOMAIN releases : /\ slot.firmware = Cells(releases[i].build.image)
                                    /\ releases[i].private = ecu.public
                                    /\ releases[i].aes = ecu.aes

(* Every step preserves it: releases are only added, keys compiled once.   *)
LEMMA NextSlotInv == Typed /\ StreamInv /\ SlotInv /\ [Next]_vars => SlotInv'
<1>1. SUFFICES ASSUME Typed, StreamInv, SlotInv, [Next]_vars PROVE SlotInv'
  OBVIOUS
<1>2. CASE Install
  <2>1. PICK cells \in Deliveries : slot' \in Installable(cells)
    BY <1>2 DEF Install
  <2>2. ecu # None /\ ecu' = ecu /\ releases' = releases
    BY <1>2 DEF Install
  <2>3. \E i \in DOMAIN releases : /\ slot'.firmware = Cells(releases[i].build.image)
                                  /\ releases[i].private = ecu.public
                                  /\ releases[i].aes = ecu.aes
    BY <1>1, <2>1, InstallsRelease
  <2>4. QED
    BY <2>2, <2>3 DEF SlotInv
<1>3. CASE Prepare
  <2>1. slot' = slot /\ ecu' = ecu
    BY <1>3 DEF Prepare
  <2>2. \A i \in DOMAIN releases : i \in DOMAIN releases' /\ releases'[i] = releases[i]
    <3>1. PICK r \in ReleaseRecords, last \in Nat :
            /\ Len(releases) = last - 1
            /\ DOMAIN releases = 1 .. last - 1 /\ DOMAIN releases' = 1 .. last
            /\ releases'[last] = r /\ \A n \in 1 .. last - 1 : releases'[n] = releases[n]
      BY <1>1, <1>3, PrepareAdds
    <3>2. QED
      BY <3>1
  <2>3. QED
    BY <1>1, <2>1, <2>2 DEF SlotInv
<1>4. CASE BuildEcu
  <2>1. slot = None
    BY <1>1, <1>4 DEF BuildEcu, SlotInv
  <2>2. slot' = None
    BY <1>4, <2>1 DEF BuildEcu
  <2>3. QED
    BY <2>2 DEF SlotInv
<1>5. CASE UNCHANGED <<releases, ecu, slot>>
  BY <1>1, <1>5 DEF SlotInv
<1>6. QED
  BY <1>1, <1>2, <1>3, <1>4, <1>5 DEF Next, KeyStep, vars

(* The three invariants together.                                          *)
LEMMA AlwaysSlotInv == Spec => [](Typed /\ SlotInv)
<1>1. Init => SlotInv
  BY DEF Init, SlotInv
<1>2. QED
  BY <1>1, NextSlotInv, AlwaysStreamInv, PTL DEF Spec

(* Whatever part of the stream reaches the ECU, with whatever cell damaged *)
(* and whatever keys the ECU was built with, it installs only the image of *)
(* a release, whole, encrypted with its AES key and signed with the        *)
(* private key of its public one.                                          *)
THEOREM OnlyReleasesInstalled == Spec => []OnlyReleases
<1>1. SlotInv => OnlyReleases
  BY DEF SlotInv, OnlyReleases
<1>2. QED
  BY <1>1, AlwaysSlotInv, PTL

(* Keys, files, releases, the ECU and the firmware in the slot keep their  *)
(* types: the slot holds bytes, and only those of some image.              *)
THEOREM ReleaseTypes == Spec => []TypeOK
<1>1. Typed /\ SlotInv => TypeOK
  <2>1. SUFFICES ASSUME Typed, SlotInv PROVE TypeOK
    OBVIOUS
  <2>2. KeyTypeOK
    <3>1. MemoryTyped /\ CountersTyped
      BY <2>1 DEF Typed, KeysTyped
    <3>2. files \in [Paths -> Pairs \union AesKeys \union {None, Torn, Short}]
      <4>1. AnyKey \union {None, Torn} = Pairs \union AesKeys \union {None, Torn, Short}
        BY DEF AnyKey
      <4>2. QED
        BY <2>1, <4>1 DEF Typed, KeysTyped, FilesTyped
    <3>3. writing \in Seq([path : Paths, key : Pairs \union AesKeys \union {Short}]) /\ Len(writing) <= 2
      <4>1. TypedWrites \subseteq [path : Paths, key : Pairs \union AesKeys \union {Short}]
        BY DEF TypedWrites, AnyKey
      <4>2. writing \in Seq(TypedWrites) /\ Len(writing) <= 2
        BY <2>1 DEF Typed, KeysTyped, WritesTyped
      <4>3. QED
        BY <4>1, <4>2, SeqMonotonic
    <3>4. QED
      BY <3>1, <3>2, <3>3 DEF KeyTypeOK, MemoryTyped, CountersTyped
  <2>3. releases \in Seq([build : Builds, private : Pairs, aes : AesKeys]) /\ Len(releases) <= MaxReleases
    BY <2>1 DEF Typed, ReleasesTyped, ReleaseRecords
  <2>4. ecu \in [public : Pairs, aes : AesKeys \union {Short}] \union {None}
    BY <2>1 DEF Typed, EcuTyped
  <2>5. slot # None => slot.firmware \in Seq({Byte(b) : b \in Bytes})
    <3>1. SUFFICES ASSUME slot # None PROVE slot.firmware \in Seq({Byte(b) : b \in Bytes})
      OBVIOUS
    <3>2. PICK i \in DOMAIN releases : slot.firmware = Cells(releases[i].build.image)
      BY <2>1, <3>1 DEF SlotInv
    <3>3. releases[i] \in [build : Builds, private : Pairs, aes : AesKeys]
      BY <2>3, LenProperties, ElementOfSeq
    <3>4. releases[i].build.image \in Seq(Bytes)
      BY <3>3, ReleaseAssumption
    <3>5. QED
      BY <3>2, <3>4, ImageCells
  <2>6. QED
    BY <2>2, <2>3, <2>4, <2>5 DEF TypeOK
<1>2. QED
  BY <1>1, AlwaysSlotInv, PTL
=============================================================================
