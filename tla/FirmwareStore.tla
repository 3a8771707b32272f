---------------------------- MODULE FirmwareStore ----------------------------
(***************************************************************************)
(* The manager's firmware list and update history (FirmwareManager of      *)
(* firmware_manager.py): the metadata in memory, and the JSON file that    *)
(* every change but one rewrites from its beginning.  The process may end  *)
(* at any point, and the opening or the write of the file may fail.        *)
(*                                                                         *)
(* Dates, paths, sizes and notes are left out.  A history entry has a      *)
(* number, in the order of add_update_history, for its timestamp.          *)
(***************************************************************************)
EXTENDS Naturals, Sequences, SequencesExt

CONSTANTS
    Version,      \* version strings
    Hash,         \* values of sha256_hash and of ecdsa_signature
    NoHash,       \* ""
    NoVersion,    \* ""
    MaxHistory,   \* bound on the calls of add_update_history
    MaxCrashes    \* bound on restarts and failing saves

ASSUME StoreAssumption ==
    /\ NoHash \notin Hash /\ NoVersion \notin Version
    /\ {MaxHistory, MaxCrashes} \subseteq Nat

VARIABLES
    versions, current, history,   \* self.metadata
    file,      \* the file is "absent", "torn" (not JSON) or "whole"
    disk,      \* the metadata in a whole file, otherwise Default
    pc,        \* "idle", or in save_metadata: "open" or "write"
    entries,   \* history entries made so far
    returned,  \* the list get_update_history returned last
    kept,      \* the numbers of the history entries that have been saved
    lost,      \* whether a start has found a torn file
    unsaved,   \* whether the last save raised an exception
    crashes

metadata == <<versions, current, history>>
vars == <<metadata, file, disk, pc, entries, returned, kept, lost, unsaved, crashes>>

Default == <<<<>>, NoVersion, <<>>>>
Index(v) == {i \in DOMAIN versions : versions[i].version = v}
Numbers(h) == {h[i].number : i \in DOMAIN h}

(* A change in memory, which save_metadata follows.                        *)
Changed ==
    /\ pc = "idle" /\ pc' = "open"
    /\ UNCHANGED <<file, disk, returned, kept, lost, unsaved, crashes>>

-----------------------------------------------------------------------------
(* Mutant: a version that exists is not refused.                           *)
AddFirmwareAgain(v) ==
    /\ versions' = Append(versions, [version |-> v, hash |-> NoHash, signature |-> NoHash,
                                     status |-> "pending", build |-> Len(versions) + 1])
    /\ Len(versions) < 3
    /\ current' = v
    /\ Changed /\ UNCHANGED <<history, entries>>

AddFirmware(v) ==
    /\ Index(v) = {}
    /\ versions' = Append(versions, [version |-> v, hash |-> NoHash, signature |-> NoHash,
                                     status |-> "pending", build |-> Len(versions) + 1])
    /\ current' = v
    /\ Changed /\ UNCHANGED <<history, entries>>

(* Mutant: the metadata is not saved.                                      *)
UpdateHashUnsaved(v, h) ==
    /\ pc = "idle"
    /\ \E i \in Index(v) : versions' = [versions EXCEPT ![i].hash = h]
    /\ UNCHANGED <<current, history, entries, pc, file, disk, returned, kept, lost, unsaved, crashes>>

UpdateHash(v, h) ==
    /\ \E i \in Index(v) : versions' = [versions EXCEPT ![i].hash = h]
    /\ Changed /\ UNCHANGED <<current, history, entries>>

(* Mutant: security_status stays "pending".                                *)
UpdateSignatureOnly(v, h) ==
    /\ \E i \in Index(v) : versions' = [versions EXCEPT ![i].signature = h]
    /\ Changed /\ UNCHANGED <<current, history, entries>>

UpdateSignature(v, h) ==
    /\ \E i \in Index(v) :
        versions' = [versions EXCEPT ![i].signature = h, ![i].status = "signed"]
    /\ Changed /\ UNCHANGED <<current, history, entries>>

(* current_version keeps the version that is deleted.                      *)
DeleteFirmware(v) ==
    /\ \E i \in Index(v) : versions' = RemoveAt(versions, i)
    /\ Changed /\ UNCHANGED <<current, history, entries>>

AddHistory(v, status) ==
    /\ entries < MaxHistory
    /\ entries' = entries + 1
    /\ history' = Append(history, [number |-> entries', version |-> v, status |-> status])
    /\ Changed /\ UNCHANGED <<versions, current>>

(* Mutant: the limit is applied in place too.                              *)
GetHistoryCuts(limit) ==
    /\ pc = "idle"
    /\ history' = IF limit = 0 THEN Reverse(history)
                  ELSE SubSeq(Reverse(history), 1, IF limit < Len(history) THEN limit ELSE Len(history))
    /\ returned' = history'
    /\ UNCHANGED <<versions, current, file, disk, pc, entries, kept, lost, unsaved, crashes>>

(* The list is reversed in place, and not saved; 0 is no limit.            *)
GetHistory(limit) ==
    /\ pc = "idle"
    /\ history' = Reverse(history)
    /\ returned' = IF limit = 0 \/ limit > Len(history) THEN history' ELSE SubSeq(history', 1, limit)
    /\ UNCHANGED <<versions, current, file, disk, pc, entries, kept, lost, unsaved, crashes>>

-----------------------------------------------------------------------------
(* open(..., 'w') empties the file.                                        *)
SaveOpen ==
    /\ pc = "open" /\ pc' = "write"
    /\ file' = "torn" /\ disk' = Default
    /\ UNCHANGED <<metadata, entries, returned, kept, lost, unsaved, crashes>>

(* It raises before that: the file stays, and the change stays in memory.  *)
SaveOpenFails ==
    /\ pc = "open" /\ pc' = "idle"
    /\ crashes < MaxCrashes /\ crashes' = crashes + 1
    /\ unsaved' = TRUE
    /\ UNCHANGED <<metadata, file, disk, entries, returned, kept, lost>>

SaveWrite ==
    /\ pc = "write" /\ pc' = "idle"
    /\ file' = "whole" /\ disk' = metadata
    /\ kept' = kept \union Numbers(history)
    /\ unsaved' = FALSE
    /\ UNCHANGED <<metadata, entries, returned, lost, crashes>>

(* The write fails: the file is torn, and the change stays in memory.      *)
SaveFails ==
    /\ pc = "write" /\ pc' = "idle"
    /\ crashes < MaxCrashes /\ crashes' = crashes + 1
    /\ unsaved' = TRUE
    /\ UNCHANGED <<metadata, file, disk, entries, returned, kept, lost>>

(* The process ends, and __init__ runs _load_metadata.                     *)
Restart ==
    /\ crashes < MaxCrashes /\ crashes' = crashes + 1
    /\ LET loaded == IF file = "whole" THEN disk ELSE Default
       IN  versions' = loaded[1] /\ current' = loaded[2] /\ history' = loaded[3]
    /\ lost' = (lost \/ file = "torn")
    /\ pc' = "idle" /\ returned' = <<>> /\ unsaved' = FALSE
    /\ UNCHANGED <<file, disk, entries, kept>>

-----------------------------------------------------------------------------
Init ==
    /\ versions = <<>> /\ current = NoVersion /\ history = <<>>
    /\ file = "absent" /\ disk = Default /\ pc = "idle"
    /\ entries = 0 /\ returned = <<>> /\ kept = {}
    /\ lost = FALSE /\ unsaved = FALSE /\ crashes = 0

Operation ==
    \/ \E v \in Version :
        \/ AddFirmware(v) \/ DeleteFirmware(v)
        \/ \E h \in Hash : UpdateHash(v, h) \/ UpdateSignature(v, h)
        \/ \E status \in {"success", "failed"} : AddHistory(v, status)
    \/ \E limit \in 0 .. MaxHistory : GetHistory(limit)

Next == Operation \/ SaveOpen \/ SaveOpenFails \/ SaveWrite \/ SaveFails \/ Restart
Spec == Init /\ [][Next]_vars

-----------------------------------------------------------------------------
(* The metadata keeps its shape; an entry is "signed" when it has a        *)
(* signature, and then only.                                               *)
TypeOK ==
    /\ \A i \in DOMAIN versions :
        /\ versions[i].version \in Version
        /\ {versions[i].hash, versions[i].signature} \subseteq Hash \union {NoHash}
        /\ versions[i].status = (IF versions[i].signature = NoHash THEN "pending" ELSE "signed")
    /\ current \in Version \union {NoVersion}
    /\ Numbers(history) \subseteq 1 .. entries /\ kept \subseteq 1 .. entries
    /\ pc \in {"idle", "open", "write"}
    /\ file \in {"absent", "torn", "whole"}

(* The list never holds a version twice, so that get_firmware_by_version   *)
(* is unambiguous, across deletions, failing writes and restarts.          *)
VersionsUnique ==
    \A i, j \in DOMAIN versions : versions[i].version = versions[j].version => i = j

(* Between two calls a start would read what memory holds, but for the     *)
(* order of the history, unless the last save raised an exception: its     *)
(* change is then in memory only, over an old file or a torn one, until    *)
(* the next save (open at line 65, json.dump at 66).                       *)
FileFollowsMemory ==
    pc = "idle" /\ ~unsaved =>
        disk[1] = versions /\ disk[2] = current /\ ToSet(disk[3]) = ToSet(history)

(* Every update that was saved is in the history, once, however often the  *)
(* list was read and reversed, until a start finds a torn file.            *)
HistoryComplete ==
    ~lost => \A n \in kept : \E i \in DOMAIN history :
        history[i].number = n /\ \A j \in DOMAIN history \ {i} : history[j].number # n

(* "List of history entries (newest first)".                               *)
NewestFirst ==
    \A i, j \in DOMAIN returned : i < j => returned[i].number > returned[j].number
=============================================================================
