------------------------- MODULE FirmwareStoreProofs -------------------------
(***************************************************************************)
(* Theorems about FirmwareStore, for every set of versions and hashes, and *)
(* any number of history entries, restarts and failing writes.             *)
(***************************************************************************)
EXTENDS FirmwareStore, SequenceTheorems, TLAPS

VersionEntry ==
    [version : Version, hash : Hash \union {NoHash}, signature : Hash \union {NoHash},
     status : {"pending", "signed"}, build : Nat]

HistoryEntry == [number : Nat, version : Version, status : {"success", "failed"}]

(* A list of firmware: no version twice, and signed means signed.          *)
ListOK(list) ==
    /\ list \in Seq(VersionEntry)
    /\ \A i \in 1 .. Len(list) :
          list[i].status = (IF list[i].signature = NoHash THEN "pending" ELSE "signed")
    /\ \A i, j \in 1 .. Len(list) : list[i].version = list[j].version => i = j

(* A history: no number twice, and none that is yet to come.               *)
HistoryOK(h) ==
    /\ h \in Seq(HistoryEntry)
    /\ \A i \in 1 .. Len(h) : h[i].number \in 1 .. entries
    /\ \A i, j \in 1 .. Len(h) : h[i].number = h[j].number => i = j

(* Memory and file are both well formed.                                   *)
MetadataOK ==
    /\ ListOK(versions) /\ current \in Version \union {NoVersion} /\ HistoryOK(history)
    /\ ListOK(disk[1]) /\ disk[2] \in Version \union {NoVersion} /\ HistoryOK(disk[3])

PlaceOK ==
    /\ pc \in {"idle", "open", "write"} /\ file \in {"absent", "torn", "whole"}
    /\ pc = "write" => file = "torn"
    /\ file # "whole" => disk = Default
    /\ entries \in Nat

(* What was saved is in memory and, between two saves, in the file.        *)
NothingLost ==
    /\ kept \subseteq 1 .. entries
    /\ ~lost => kept \subseteq Numbers(history)
    /\ ~lost /\ file # "torn" => kept \subseteq Numbers(disk[3])

StoreInv == MetadataOK /\ PlaceOK /\ FileFollowsMemory /\ NothingLost

-----------------------------------------------------------------------------
(* What a reversed list holds.                                             *)
LEMMA ReverseProperties ==
    ASSUME NEW S, NEW s \in Seq(S)
    PROVE  /\ Reverse(s) \in Seq(S) /\ Len(Reverse(s)) = Len(s)
           /\ \A i \in 1 .. Len(s) : Reverse(s)[i] = s[Len(s) - i + 1]
           /\ ToSet(Reverse(s)) = ToSet(s)
<1>1. Len(s) \in Nat /\ \A i \in 1 .. Len(s) : s[i] \in S /\ Len(s) - i + 1 \in 1 .. Len(s)
  BY ElementOfSeq, LenProperties
<1>2. Reverse(s) \in Seq(S) /\ Len(Reverse(s)) = Len(s)
  BY <1>1, IsASeq, LenProperties DEF Reverse
<1>3. \A i \in 1 .. Len(s) : Reverse(s)[i] = s[Len(s) - i + 1]
  BY DEF Reverse
<1>4. \A i \in 1 .. Len(s) : s[i] = Reverse(s)[Len(s) - i + 1]
  BY <1>1, <1>3
<1>5. DOMAIN s = 1 .. Len(s) /\ DOMAIN Reverse(s) = 1 .. Len(s)
  BY <1>2, LenProperties
<1>6. ToSet(Reverse(s)) = {Reverse(s)[i] : i \in 1 .. Len(s)} /\ ToSet(s) = {s[i] : i \in 1 .. Len(s)}
  BY <1>5 DEF ToSet
<1>7. {Reverse(s)[i] : i \in 1 .. Len(s)} = {s[i] : i \in 1 .. Len(s)}
  <2>1. {Reverse(s)[i] : i \in 1 .. Len(s)} \subseteq {s[i] : i \in 1 .. Len(s)}
    BY <1>1, <1>3
  <2>2. {s[i] : i \in 1 .. Len(s)} \subseteq {Reverse(s)[i] : i \in 1 .. Len(s)}
    BY <1>1, <1>4
  <2>3. QED
    BY <2>1, <2>2
<1>8. QED
  BY <1>2, <1>3, <1>6, <1>7

(* What a list holds from which the element at i was taken.                *)
LEMMA RemoveAtProperties ==
    ASSUME NEW S, NEW s \in Seq(S), NEW i \in 1 .. Len(s)
    PROVE  /\ RemoveAt(s, i) \in Seq(S) /\ Len(RemoveAt(s, i)) = Len(s) - 1
           /\ \A j \in 1 .. Len(s) - 1 : RemoveAt(s, i)[j] = IF j < i THEN s[j] ELSE s[j + 1]
<1> DEFINE before == SubSeq(s, 1, i - 1)
           after == SubSeq(s, i + 1, Len(s))
<1>1. Len(s) \in Nat
  BY LenProperties
<1>2. /\ before \in Seq(S) /\ Len(before) = i - 1
      /\ \A j \in 1 .. i - 1 : before[j] = s[j]
  BY <1>1, SubSeqProperties
<1>3. /\ after \in Seq(S) /\ Len(after) = Len(s) - i
      /\ \A j \in 1 .. Len(s) - i : after[j] = s[i + j]
  BY <1>1, SubSeqProperties
<1> HIDE DEF before, after
<1>4. /\ before \o after \in Seq(S) /\ Len(before \o after) = Len(s) - 1
      /\ \A j \in 1 .. Len(s) - 1 :
            (before \o after)[j] = IF j <= i - 1 THEN before[j] ELSE after[j - (i - 1)]
  <2>1. /\ before \o after \in Seq(S) /\ Len(before \o after) = Len(before) + Len(after)
        /\ \A j \in 1 .. Len(before) + Len(after) :
              (before \o after)[j] = IF j <= Len(before) THEN before[j] ELSE after[j - Len(before)]
    BY <1>2, <1>3, ConcatProperties
  <2>2. Len(before) + Len(after) = Len(s) - 1
    BY <1>1, <1>2, <1>3
  <2>3. QED
    BY <1>2, <2>1, <2>2
<1>5. \A j \in 1 .. Len(s) - 1 : (before \o after)[j] = IF j < i THEN s[j] ELSE s[j + 1]
  <2>1. TAKE j \in 1 .. Len(s) - 1
  <2>2. CASE j < i
    BY <1>1, <1>2, <1>4, <2>2
  <2>3. CASE ~(j < i)
    <3>1. j - (i - 1) \in 1 .. Len(s) - i /\ i + (j - (i - 1)) = j + 1
      BY <1>1, <2>3
    <3>2. QED
      BY <1>1, <1>3, <1>4, <2>3, <3>1
  <2>4. QED
    BY <2>2, <2>3
<1>6. QED
  BY <1>4, <1>5 DEF RemoveAt, before, after

-----------------------------------------------------------------------------
(* Appending to, and removing from, a list of firmware keeps it well       *)
(* formed; so does a change that leaves every entry its version.           *)
LEMMA AppendListOK ==
    ASSUME NEW list, ListOK(list), NEW entry \in VersionEntry,
           entry.status = "pending", entry.signature = NoHash,
           \A i \in 1 .. Len(list) : list[i].version # entry.version
    PROVE  ListOK(Append(list, entry))
<1>1. /\ Append(list, entry) \in Seq(VersionEntry) /\ Len(Append(list, entry)) = Len(list) + 1
      /\ \A i \in 1 .. Len(list) + 1 :
            Append(list, entry)[i] = IF i <= Len(list) THEN list[i] ELSE entry
  BY AppendProperties DEF ListOK
<1>2. Len(list) \in Nat
  BY LenProperties DEF ListOK
<1>3. QED
  BY <1>1, <1>2 DEF ListOK

LEMMA RemoveListOK ==
    ASSUME NEW list, ListOK(list), NEW i \in 1 .. Len(list)
    PROVE  ListOK(RemoveAt(list, i))
<1>1. /\ RemoveAt(list, i) \in Seq(VersionEntry) /\ Len(RemoveAt(list, i)) = Len(list) - 1
      /\ \A j \in 1 .. Len(list) - 1 : RemoveAt(list, i)[j] = IF j < i THEN list[j] ELSE list[j + 1]
  BY RemoveAtProperties DEF ListOK
<1>2. Len(list) \in Nat
  BY LenProperties DEF ListOK
<1> DEFINE from(j) == IF j < i THEN j ELSE j + 1
           shorter == RemoveAt(list, i)
<1>3. /\ \A j \in 1 .. Len(list) - 1 : from(j) \in 1 .. Len(list)
      /\ \A j, k \in 1 .. Len(list) - 1 : from(j) = from(k) => j = k
  BY <1>2
<1>4. \A j \in 1 .. Len(list) - 1 : shorter[j] = list[from(j)]
  BY <1>1
<1>5. shorter \in Seq(VersionEntry) /\ Len(shorter) = Len(list) - 1
  BY <1>1
<1> HIDE DEF from, shorter
<1>6. ASSUME NEW j \in 1 .. Len(shorter), NEW k \in 1 .. Len(shorter),
             shorter[j].version = shorter[k].version
      PROVE  j = k
  <2>1. shorter[j] = list[from(j)] /\ shorter[k] = list[from(k)]
    BY <1>4, <1>5
  <2>2. from(j) \in 1 .. Len(list) /\ from(k) \in 1 .. Len(list)
    BY <1>3, <1>5
  <2>3. list[from(j)].version = list[from(k)].version
    BY <1>6, <2>1
  <2>4. from(j) = from(k)
    BY <2>2, <2>3 DEF ListOK
  <2>5. QED
    BY <1>3, <1>5, <2>4
<1>7. ASSUME NEW j \in 1 .. Len(shorter)
      PROVE  shorter[j].status = (IF shorter[j].signature = NoHash THEN "pending" ELSE "signed")
  <2>1. shorter[j] = list[from(j)] /\ from(j) \in 1 .. Len(list)
    BY <1>3, <1>4, <1>5
  <2>2. list[from(j)].status = (IF list[from(j)].signature = NoHash THEN "pending" ELSE "signed")
    BY <2>1 DEF ListOK
  <2>3. QED
    BY <2>1, <2>2
<1>8. ListOK(shorter)
  BY <1>5, <1>6, <1>7 DEF ListOK
<1>9. QED
  BY <1>8 DEF shorter

LEMMA UpdateListOK ==
    ASSUME NEW list, ListOK(list), NEW i \in 1 .. Len(list), NEW entry \in VersionEntry,
           entry.version = list[i].version,
           entry.status = (IF entry.signature = NoHash THEN "pending" ELSE "signed")
    PROVE  ListOK([list EXCEPT ![i] = entry])
<1>1. /\ [list EXCEPT ![i] = entry] \in Seq(VersionEntry) /\ Len([list EXCEPT ![i] = entry]) = Len(list)
      /\ \A j \in 1 .. Len(list) : [list EXCEPT ![i] = entry][j] = IF j = i THEN entry ELSE list[j]
  BY ExceptSeq DEF ListOK
<1>2. PICK changed : changed = [list EXCEPT ![i] = entry]
  OBVIOUS
<1>3. \A j \in 1 .. Len(list) : changed[j].version = list[j].version
  BY <1>1, <1>2
<1>4. \A j, k \in 1 .. Len(list) : changed[j].version = changed[k].version => j = k
  BY <1>3 DEF ListOK
<1>5. \A j \in 1 .. Len(list) :
        changed[j].status = (IF changed[j].signature = NoHash THEN "pending" ELSE "signed")
  BY <1>1, <1>2 DEF ListOK
<1>6. QED
  BY <1>1, <1>2, <1>4, <1>5 DEF ListOK

(* get_update_history keeps a history well formed.                         *)
LEMMA ReverseHistoryOK ==
    ASSUME NEW h, HistoryOK(h), entries \in Nat
    PROVE  HistoryOK(Reverse(h)) /\ ToSet(Reverse(h)) = ToSet(h) /\ Numbers(Reverse(h)) = Numbers(h)
<1>1. /\ Reverse(h) \in Seq(HistoryEntry) /\ Len(Reverse(h)) = Len(h) /\ ToSet(Reverse(h)) = ToSet(h)
      /\ \A i \in 1 .. Len(h) : Reverse(h)[i] = h[Len(h) - i + 1]
  BY ReverseProperties DEF HistoryOK
<1>2. /\ Len(h) \in Nat /\ \A i \in 1 .. Len(h) : Len(h) - i + 1 \in 1 .. Len(h)
      /\ \A i, j \in 1 .. Len(h) : Len(h) - i + 1 = Len(h) - j + 1 => i = j
  BY LenProperties DEF HistoryOK
<1>3. HistoryOK(Reverse(h))
  <2>1. \A i \in 1 .. Len(h) : Reverse(h)[i].number \in 1 .. entries
    BY <1>1, <1>2 DEF HistoryOK
  <2>2. ASSUME NEW i \in 1 .. Len(h), NEW j \in 1 .. Len(h), Reverse(h)[i].number = Reverse(h)[j].number
        PROVE  i = j
    <3>1. h[Len(h) - i + 1].number = h[Len(h) - j + 1].number
      BY <1>1, <2>2
    <3>2. Len(h) - i + 1 = Len(h) - j + 1
      BY <1>2, <3>1 DEF HistoryOK
    <3>3. QED
      BY <1>2, <3>2
  <2>3. QED
    BY <1>1, <2>1, <2>2 DEF HistoryOK
<1>4. \A g : Numbers(g) = {x.number : x \in ToSet(g)}
  BY DEF Numbers, ToSet
<1>5. QED
  BY <1>1, <1>3, <1>4

(* The metadata of a manager that was never used.                          *)
LEMMA DefaultOK ==
    /\ ListOK(Default[1]) /\ Default[2] = NoVersion /\ HistoryOK(Default[3])
    /\ Default[1] = <<>> /\ Default[3] = <<>> /\ Numbers(Default[3]) = {}
<1>1. Default[1] = <<>> /\ Default[2] = NoVersion /\ Default[3] = <<>>
  BY DEF Default
<1>2. ListOK(<<>>) /\ HistoryOK(<<>>) /\ Numbers(<<>>) = {}
  BY EmptySeq DEF ListOK, HistoryOK, Numbers
<1>3. QED
  BY <1>1, <1>2

-----------------------------------------------------------------------------
(* Every step preserves the invariant.                                     *)
LEMMA NextStoreInv == StoreInv /\ [Next]_vars => StoreInv'
<1>1. SUFFICES ASSUME StoreInv, [Next]_vars PROVE StoreInv'
  OBVIOUS
<1> USE <1>1
<1>2. /\ MetadataOK /\ PlaceOK /\ FileFollowsMemory /\ NothingLost
      /\ ListOK(versions) /\ HistoryOK(history) /\ entries \in Nat
      /\ versions \in Seq(VersionEntry) /\ history \in Seq(HistoryEntry)
      /\ DOMAIN versions = 1 .. Len(versions) /\ DOMAIN history = 1 .. Len(history)
  BY LenProperties DEF StoreInv, MetadataOK, PlaceOK, ListOK, HistoryOK
<1>3. ASSUME Changed, UNCHANGED <<history, entries>>, ListOK(versions'),
             current' \in Version \union {NoVersion}
      PROVE  StoreInv'
  <2>1. pc' = "open" /\ pc = "idle" /\ UNCHANGED <<file, disk, returned, kept, lost, unsaved, crashes>>
    BY <1>3 DEF Changed
  <2>2. MetadataOK'
    BY <1>2, <1>3, <2>1 DEF MetadataOK, ListOK, HistoryOK
  <2>3. PlaceOK'
    BY <1>2, <1>3, <2>1 DEF PlaceOK, Default
  <2>4. FileFollowsMemory'
    BY <2>1 DEF FileFollowsMemory
  <2>5. NothingLost'
    BY <1>2, <1>3, <2>1 DEF NothingLost, Numbers
  <2>6. QED
    BY <2>2, <2>3, <2>4, <2>5 DEF StoreInv
<1>4. ASSUME NEW v \in Version, AddFirmware(v) PROVE StoreInv'
  <2> DEFINE entry == [version |-> v, hash |-> NoHash, signature |-> NoHash,
                       status |-> "pending", build |-> Len(versions) + 1]
  <2>1. /\ entry \in VersionEntry /\ entry.version = v
        /\ entry.status = "pending" /\ entry.signature = NoHash
    BY <1>2, LenProperties DEF VersionEntry
  <2>2. versions' = Append(versions, entry) /\ current' = v /\ Changed /\ UNCHANGED <<history, entries>>
    BY <1>4 DEF AddFirmware
  <2>3. \A i \in 1 .. Len(versions) : versions[i].version # v
    BY <1>2, <1>4 DEF AddFirmware, Index
  <2> HIDE DEF entry
  <2>4. ListOK(versions')
    BY <1>2, <2>1, <2>2, <2>3, AppendListOK
  <2>5. QED
    BY <1>3, <2>2, <2>4
<1>5. ASSUME NEW v \in Version, DeleteFirmware(v) PROVE StoreInv'
  <2>1. PICK i \in 1 .. Len(versions) : versions' = RemoveAt(versions, i)
    BY <1>2, <1>5 DEF DeleteFirmware, Index
  <2>2. ListOK(versions')
    BY <1>2, <2>1, RemoveListOK
  <2>3. QED
    BY <1>2, <1>3, <1>5, <2>2 DEF DeleteFirmware, MetadataOK
<1>6. ASSUME NEW v \in Version, NEW h \in Hash, UpdateHash(v, h) \/ UpdateSignature(v, h)
      PROVE  StoreInv'
  <2>1. Changed /\ UNCHANGED <<current, history, entries>>
    BY <1>6 DEF UpdateHash, UpdateSignature
  <2>2. ListOK(versions')
    <3>1. CASE UpdateHash(v, h)
      <4>1. PICK i \in 1 .. Len(versions) : versions' = [versions EXCEPT ![i].hash = h]
        BY <1>2, <3>1 DEF UpdateHash, Index
      <4>2. versions[i] \in VersionEntry
        BY <1>2, ElementOfSeq
      <4> DEFINE entry == [versions[i] EXCEPT !.hash = h]
      <4>3. /\ entry \in VersionEntry /\ entry.version = versions[i].version
            /\ entry.status = versions[i].status /\ entry.signature = versions[i].signature
        BY <4>2 DEF VersionEntry
      <4>4. versions' = [versions EXCEPT ![i] = entry]
        BY <4>1
      <4> HIDE DEF entry
      <4>5. entry.status = (IF entry.signature = NoHash THEN "pending" ELSE "signed")
        BY <1>2, <4>3 DEF ListOK
      <4>6. QED
        BY <1>2, <4>3, <4>4, <4>5, UpdateListOK
    <3>2. CASE UpdateSignature(v, h)
      <4>1. PICK i \in 1 .. Len(versions) :
               versions' = [versions EXCEPT ![i].signature = h, ![i].status = "signed"]
        BY <1>2, <3>2 DEF UpdateSignature, Index
      <4>2. versions[i] \in VersionEntry
        BY <1>2, ElementOfSeq
      <4> DEFINE entry == [versions[i] EXCEPT !.signature = h, !.status = "signed"]
      <4>3. /\ entry \in VersionEntry /\ entry.version = versions[i].version
            /\ entry.status = "signed" /\ entry.signature = h
        BY <4>2 DEF VersionEntry
      <4>4. versions' = [versions EXCEPT ![i] = entry]
        BY <1>2, <4>1
      <4> HIDE DEF entry
      <4>5. h # NoHash
        BY StoreAssumption
      <4>6. QED
        BY <1>2, <4>3, <4>4, <4>5, UpdateListOK
    <3>3. QED
      BY <1>6, <3>1, <3>2
  <2>3. QED
    BY <1>2, <1>3, <2>1, <2>2 DEF MetadataOK
<1>7. ASSUME NEW v \in Version, NEW status \in {"success", "failed"}, AddHistory(v, status)
      PROVE  StoreInv'
  <2> DEFINE entry == [number |-> entries + 1, version |-> v, status |-> status]
  <2>1. entry \in HistoryEntry /\ entry.number = entries + 1
    BY <1>2 DEF HistoryEntry
  <2>2. /\ entries' = entries + 1 /\ history' = Append(history, entry)
        /\ UNCHANGED <<versions, current, file, disk, kept, lost, unsaved>> /\ pc' = "open" /\ pc = "idle"
    BY <1>7 DEF AddHistory, Changed
  <2> HIDE DEF entry
  <2>3. /\ history' \in Seq(HistoryEntry) /\ Len(history') = Len(history) + 1
        /\ \A i \in 1 .. Len(history) + 1 : history'[i] = IF i <= Len(history) THEN history[i] ELSE entry
        /\ DOMAIN history' = 1 .. Len(history) + 1 /\ Len(history) \in Nat
    BY <1>2, <2>1, <2>2, AppendProperties, LenProperties
  <2>4. HistoryOK(history)'
    <3>1. \A i \in 1 .. Len(history') : history'[i].number \in 1 .. entries'
      BY <1>2, <2>1, <2>2, <2>3 DEF HistoryOK
    <3>2. \A i, j \in 1 .. Len(history') : history'[i].number = history'[j].number => i = j
      BY <1>2, <2>1, <2>3 DEF HistoryOK
    <3>3. QED
      BY <2>3, <3>1, <3>2 DEF HistoryOK
  <2>5. HistoryOK(disk[3])'
    <3>1. \A i \in 1 .. Len(disk[3]) : disk[3][i].number \in 1 .. entries'
      BY <1>2, <2>2 DEF MetadataOK, HistoryOK
    <3>2. QED
      BY <1>2, <2>2, <3>1 DEF MetadataOK, HistoryOK
  <2>6. MetadataOK'
    BY <1>2, <2>2, <2>4, <2>5 DEF MetadataOK, ListOK
  <2>7. PlaceOK' /\ FileFollowsMemory'
    BY <1>2, <2>2 DEF PlaceOK, FileFollowsMemory, Default
  <2>8. Numbers(history) \subseteq Numbers(history')
    BY <1>2, <2>3 DEF Numbers
  <2>9. NothingLost'
    <3>1. kept \subseteq 1 .. entries'
      BY <1>2, <2>2 DEF NothingLost
    <3>2. QED
      BY <1>2, <2>2, <2>8, <3>1 DEF NothingLost, Numbers
  <2>10. QED
    BY <2>6, <2>7, <2>9 DEF StoreInv
<1>8. ASSUME NEW limit \in 0 .. MaxHistory, GetHistory(limit) PROVE StoreInv'
  <2>1. /\ history' = Reverse(history)
        /\ UNCHANGED <<versions, current, file, disk, pc, entries, kept, lost, unsaved>>
    BY <1>8 DEF GetHistory
  <2>2. HistoryOK(Reverse(history)) /\ ToSet(history') = ToSet(history) /\ Numbers(history') = Numbers(history)
    BY <1>2, <2>1, ReverseHistoryOK
  <2>3. MetadataOK'
    BY <1>2, <2>1, <2>2 DEF MetadataOK, ListOK, HistoryOK
  <2>4. PlaceOK' /\ FileFollowsMemory'
    BY <1>2, <2>1, <2>2 DEF PlaceOK, FileFollowsMemory, Default
  <2>5. NothingLost'
    <3>1. Numbers(disk[3])' = Numbers(disk[3])
      BY <2>1 DEF Numbers
    <3>2. QED
      BY <1>2, <2>1, <2>2, <3>1 DEF NothingLost
  <2>6. QED
    BY <2>3, <2>4, <2>5 DEF StoreInv
<1>9. CASE SaveOpen
  <2>1. /\ pc' = "write" /\ file' = "torn" /\ disk' = Default
        /\ UNCHANGED <<versions, current, history, entries, kept, lost>>
    BY <1>9 DEF SaveOpen, metadata
  <2>2. MetadataOK'
    <3>1. ListOK(disk[1])' /\ HistoryOK(disk[3])' /\ disk'[2] = NoVersion
      BY <2>1, DefaultOK DEF ListOK, HistoryOK
    <3>2. QED
      BY <1>2, <2>1, <3>1 DEF MetadataOK, ListOK, HistoryOK
  <2>3. PlaceOK' /\ FileFollowsMemory'
    BY <1>2, <2>1 DEF PlaceOK, FileFollowsMemory, Default
  <2>4. NothingLost'
    BY <1>2, <2>1 DEF NothingLost, Numbers
  <2>5. QED
    BY <2>2, <2>3, <2>4 DEF StoreInv
<1>10. CASE SaveWrite
  <2>1. /\ pc' = "idle" /\ file' = "whole" /\ kept' = kept \union Numbers(history)
        /\ disk'[1] = versions /\ disk'[2] = current /\ disk'[3] = history
        /\ UNCHANGED <<versions, current, history, entries, lost>>
    BY <1>10 DEF SaveWrite, metadata
  <2>2. MetadataOK'
    BY <1>2, <2>1 DEF MetadataOK, ListOK, HistoryOK
  <2>3. PlaceOK' /\ FileFollowsMemory'
    BY <1>2, <2>1 DEF PlaceOK, FileFollowsMemory
  <2>4. NothingLost'
    <3>1. Numbers(history) \subseteq 1 .. entries
      BY <1>2 DEF Numbers, HistoryOK
    <3>2. Numbers(history)' = Numbers(history) /\ Numbers(disk[3])' = Numbers(history)
      BY <2>1 DEF Numbers
    <3>3. QED
      BY <1>2, <2>1, <3>1, <3>2 DEF NothingLost
  <2>5. QED
    BY <2>2, <2>3, <2>4 DEF StoreInv
<1>11. CASE SaveFails \/ SaveOpenFails
  <2>1. unsaved' /\ pc' = "idle"
    BY <1>11 DEF SaveFails, SaveOpenFails
  <2>2. UNCHANGED <<versions, current, history, file, disk, entries, kept, lost>>
    BY <1>11 DEF SaveFails, SaveOpenFails, metadata
  <2>3. MetadataOK'
    BY <1>2, <2>2 DEF MetadataOK, ListOK, HistoryOK
  <2>4. PlaceOK' /\ FileFollowsMemory'
    BY <1>2, <2>1, <2>2 DEF PlaceOK, FileFollowsMemory, Default
  <2>5. NothingLost'
    BY <1>2, <2>2 DEF NothingLost, Numbers
  <2>6. QED
    BY <2>3, <2>4, <2>5 DEF StoreInv
<1>12. CASE Restart
  <2>1. disk = IF file = "whole" THEN disk ELSE Default
    BY <1>2 DEF PlaceOK
  <2>2. /\ versions' = disk[1] /\ current' = disk[2] /\ history' = disk[3] /\ pc' = "idle"
        /\ lost' = (lost \/ file = "torn") /\ UNCHANGED <<file, disk, entries, kept>>
    BY <1>12, <2>1 DEF Restart
  <2>3. MetadataOK'
    BY <1>2, <2>2 DEF MetadataOK, ListOK, HistoryOK
  <2>4. PlaceOK' /\ FileFollowsMemory'
    BY <1>2, <2>2 DEF PlaceOK, FileFollowsMemory, Default
  <2>5. NothingLost'
    <3>1. Numbers(history)' = Numbers(disk[3]) /\ Numbers(disk[3])' = Numbers(disk[3])
      BY <2>2 DEF Numbers
    <3>2. QED
      BY <1>2, <2>2, <3>1 DEF NothingLost
  <2>6. QED
    BY <2>3, <2>4, <2>5 DEF StoreInv
<1>13. CASE UNCHANGED vars
  <2>1. UNCHANGED <<versions, current, history, file, disk, pc, entries, kept, lost, unsaved>>
    BY <1>13 DEF vars, metadata
  <2>2. QED
    BY <1>2, <2>1 DEF StoreInv, MetadataOK, PlaceOK, FileFollowsMemory, NothingLost, ListOK,
          HistoryOK, Numbers, Default
<1>14. QED
  BY <1>4, <1>5, <1>6, <1>7, <1>8, <1>9, <1>10, <1>11, <1>12, <1>13 DEF Next, Operation

(* The invariant of the store, over any number of calls, restarts and      *)
(* failing writes: what memory and file hold, and how they stand to each   *)
(* other (FirmwareManager).                                                *)
THEOREM StoreInvariant == Spec => []StoreInv
<1>1. Init => StoreInv
  <2>1. SUFFICES ASSUME Init PROVE StoreInv
    OBVIOUS
  <2>2. /\ versions = Default[1] /\ current = NoVersion /\ history = Default[3]
        /\ disk = Default /\ file = "absent" /\ pc = "idle" /\ entries = 0 /\ kept = {} /\ ~lost
    BY <2>1, DefaultOK DEF Init
  <2>3. MetadataOK /\ FileFollowsMemory
    BY <2>2, DefaultOK DEF MetadataOK, FileFollowsMemory
  <2>4. PlaceOK /\ NothingLost
    BY <2>2 DEF PlaceOK, NothingLost
  <2>5. QED
    BY <2>3, <2>4 DEF StoreInv
<1>2. QED
  BY <1>1, NextStoreInv, PTL DEF Spec

(* The list and the history keep their shape, and an entry is signed when  *)
(* it has a signature and then only (add_firmware,                         *)
(* update_firmware_hash, update_firmware_signature, add_update_history).   *)
THEOREM StoreTypes == Spec => []TypeOK
<1>1. StoreInv => TypeOK
  <2>1. SUFFICES ASSUME StoreInv PROVE TypeOK
    OBVIOUS
  <2>2. /\ ListOK(versions) /\ HistoryOK(history) /\ PlaceOK /\ kept \subseteq 1 .. entries
        /\ current \in Version \union {NoVersion}
    BY <2>1 DEF StoreInv, MetadataOK, NothingLost
  <2>3. /\ DOMAIN versions = 1 .. Len(versions) /\ DOMAIN history = 1 .. Len(history)
        /\ \A i \in 1 .. Len(versions) : versions[i] \in VersionEntry
    BY <2>2, LenProperties, ElementOfSeq DEF ListOK, HistoryOK
  <2>4. Numbers(history) \subseteq 1 .. entries
    BY <2>2, <2>3 DEF Numbers, HistoryOK
  <2>5. \A i \in DOMAIN versions :
            /\ versions[i].version \in Version
            /\ {versions[i].hash, versions[i].signature} \subseteq Hash \union {NoHash}
            /\ versions[i].status = (IF versions[i].signature = NoHash THEN "pending" ELSE "signed")
    BY <2>2, <2>3 DEF ListOK, VersionEntry
  <2>6. QED
    BY <2>2, <2>4, <2>5 DEF TypeOK, PlaceOK
<1>2. QED
  BY <1>1, StoreInvariant, PTL

(* The list of firmware never holds a version twice, so that               *)
(* get_firmware_by_version finds the one there is.                         *)
THEOREM VersionsStayUnique == Spec => []VersionsUnique
<1>1. StoreInv => VersionsUnique
  BY LenProperties DEF StoreInv, MetadataOK, ListOK, VersionsUnique
<1>2. QED
  BY <1>1, StoreInvariant, PTL

(* Between two calls a start would read what memory holds, but for the     *)
(* order of the history, unless the last save raised an exception          *)
(* (save_metadata).                                                        *)
THEOREM FileFollows == Spec => []FileFollowsMemory
<1>1. StoreInv => FileFollowsMemory
  BY DEF StoreInv
<1>2. QED
  BY <1>1, StoreInvariant, PTL

(* What was once saved is in the history exactly once, whatever is added,  *)
(* read and reversed, and over restarts, until one finds a torn file       *)
(* (get_update_history, _load_metadata).                                   *)
THEOREM HistoryStaysComplete == Spec => []HistoryComplete
<1>1. StoreInv => HistoryComplete
  <2>1. SUFFICES ASSUME StoreInv, ~lost, NEW n \in kept
                 PROVE  \E i \in DOMAIN history :
                            history[i].number = n /\ \A j \in DOMAIN history \ {i} : history[j].number # n
    BY DEF HistoryComplete
  <2>2. DOMAIN history = 1 .. Len(history)
    BY <2>1, LenProperties DEF StoreInv, MetadataOK, HistoryOK
  <2>3. PICK i \in DOMAIN history : history[i].number = n
    BY <2>1 DEF StoreInv, NothingLost, Numbers
  <2>4. QED
    BY <2>1, <2>2, <2>3 DEF StoreInv, MetadataOK, HistoryOK
<1>2. QED
  BY <1>1, StoreInvariant, PTL
=============================================================================
