------------------------------ MODULE KeyStore ------------------------------
(***************************************************************************)
(* The key side of crypto_utils.CryptoManager: an ECDSA key pair and an    *)
(* AES key in memory, their files in keys_dir, and the C headers exported  *)
(* for the ECU.  A file is written with open(path, 'wb') and write(): a    *)
(* write that fails, or the end of the process, leaves the old contents or *)
(* a torn file.  save_keys writes two files, one after the other.          *)
(*                                                                         *)
(* A private and a public key are modelled by the pair they belong to.     *)
(***************************************************************************)
EXTENDS Integers, Sequences, FiniteSets

CONSTANTS
    Pairs,      \* the key pairs generate_keypair may return
    AesKeys,    \* the keys generate_aes_key may return
    None,       \* no key in memory, no such file
    Torn,       \* the contents of a file whose write was cut
    Short,      \* what a torn AES key file holds: not 16 bytes
    MaxFailures \* bound on failed writes and restarts together

ASSUME KeysAssumption ==
    /\ Pairs \cap {None, Torn, Short} = {}
    /\ AesKeys \cap {None, Torn, Short} = {}
    /\ None # Torn /\ Torn # Short /\ Short # None
    /\ MaxFailures \in Nat

VARIABLES
    private_key, public_key, aes_key,  \* CryptoManager's fields
    files,     \* contents of the files of keys_dir
    writing,   \* the writes the current operation has still to do
    used,      \* keys generated so far: a new one is always fresh
    failures,  \* failed writes and restarts so far
    cut        \* has a save_keys ended with only one of its files new?

memory == <<private_key, public_key, aes_key>>
keyVars == <<memory, files, writing, used, failures, cut>>

PrivatePath == "private_key.pem"
PublicPath == "public_key.pem"
AesPath == "aes_key.bin"
AesHeader == "aes_key.h"
PublicHeader == "public_key.h"
Paths == {PrivatePath, PublicPath, AesPath, AesHeader, PublicHeader}

(* One file to write and the key that goes into it.                        *)
Write(path, key) == [path |-> path, key |-> key]

KeyTypeOK ==
    /\ private_key \in Pairs \cup {None}
    /\ public_key \in Pairs \cup {None}
    /\ aes_key \in AesKeys \cup {None, Short}
    /\ files \in [Paths -> Pairs \cup AesKeys \cup {None, Torn, Short}]
    /\ writing \in Seq([path : Paths, key : Pairs \cup AesKeys \cup {Short}])
    /\ Len(writing) <= 2
    /\ used \subseteq Pairs \cup AesKeys
    /\ failures \in 0 .. MaxFailures
    /\ cut \in BOOLEAN

(* A new process over an empty directory.                                  *)
KeyInit ==
    /\ private_key = None /\ public_key = None /\ aes_key = None
    /\ files = [p \in Paths |-> None]
    /\ writing = <<>>
    /\ used = {}
    /\ failures = 0
    /\ cut = FALSE

-----------------------------------------------------------------------------
(* The operations.  Each runs to its end before the next is called.        *)

GenerateKeypair ==
    /\ writing = <<>>
    /\ \E k \in Pairs \ used :
          /\ private_key' = k /\ public_key' = k
          /\ used' = used \cup {k}
    /\ UNCHANGED <<aes_key, files, writing, failures, cut>>

GenerateAesKey ==
    /\ writing = <<>>
    /\ \E k \in AesKeys \ used :
          /\ aes_key' = k
          /\ used' = used \cup {k}
    /\ UNCHANGED <<private_key, public_key, files, writing, failures, cut>>

(* An operation that only writes files.                                    *)
Begin(writes) ==
    /\ writing = <<>>
    /\ writing' = writes
    /\ UNCHANGED <<memory, files, used, failures, cut>>

(* Mutant: keys that were never generated are saved, too.                  *)
SaveKeysUnchecked ==
    Begin(<<Write(PrivatePath, private_key), Write(PublicPath, public_key)>>)

SaveKeys ==
    /\ private_key # None /\ public_key # None
    /\ Begin(<<Write(PrivatePath, private_key), Write(PublicPath, public_key)>>)

SaveAesKey ==
    /\ aes_key \in AesKeys
    /\ Begin(<<Write(AesPath, aes_key)>>)

(* The length of the key is not looked at: a short one is exported too.    *)
ExportAesKey ==
    /\ aes_key # None
    /\ Begin(<<Write(AesHeader, aes_key)>>)

ExportPublicKey ==
    /\ public_key # None
    /\ Begin(<<Write(PublicHeader, public_key)>>)

(* Mutant: the public key in memory is kept.                               *)
LoadKeysPrivateOnly ==
    /\ writing = <<>>
    /\ files[PrivatePath] \notin {None, Torn} /\ files[PublicPath] # None
    /\ private_key' = files[PrivatePath]
    /\ UNCHANGED <<public_key, aes_key, files, writing, used, failures, cut>>

(* The private key is assigned before the public file is read: when that   *)
(* one is torn, the exception leaves a new private and an old public key.  *)
LoadKeys ==
    /\ writing = <<>>
    /\ files[PrivatePath] \notin {None, Torn} /\ files[PublicPath] # None
    /\ private_key' = files[PrivatePath]
    /\ public_key' = IF files[PublicPath] = Torn THEN public_key ELSE files[PublicPath]
    /\ UNCHANGED <<aes_key, files, writing, used, failures, cut>>

(* The key is assigned before its length is checked and stays assigned.    *)
LoadAesKey ==
    /\ writing = <<>>
    /\ files[AesPath] # None
    /\ aes_key' = IF files[AesPath] = Torn THEN Short ELSE files[AesPath]
    /\ UNCHANGED <<private_key, public_key, files, writing, used, failures, cut>>

-----------------------------------------------------------------------------
(* Writing a file.                                                         *)

WriteFile ==
    /\ writing # <<>>
    /\ files' = [files EXCEPT ![Head(writing).path] = Head(writing).key]
    /\ writing' = Tail(writing)
    /\ UNCHANGED <<memory, used, failures, cut>>

(* The write under way stops: before open() truncated the file, or after.  *)
CutWrite ==
    /\ writing' = <<>>
    /\ files' \in {files, [files EXCEPT ![Head(writing).path] = Torn]}
    /\ cut' = (cut \/ Head(writing).path = PublicPath)

(* open() or write() raises, and the operation with it.                    *)
WriteFails ==
    /\ writing # <<>> /\ failures < MaxFailures
    /\ CutWrite
    /\ failures' = failures + 1
    /\ UNCHANGED <<memory, used>>

(* The program ends, in the middle of a write or not, and is run again.    *)
Restart ==
    /\ failures < MaxFailures
    /\ IF writing = <<>> THEN UNCHANGED <<files, writing, cut>> ELSE CutWrite
    /\ private_key' = None /\ public_key' = None /\ aes_key' = None
    /\ failures' = failures + 1
    /\ UNCHANGED used

KeyNext ==
    \/ GenerateKeypair \/ SaveKeys \/ LoadKeys
    \/ GenerateAesKey \/ SaveAesKey \/ LoadAesKey
    \/ ExportAesKey \/ ExportPublicKey
    \/ WriteFile \/ WriteFails \/ Restart

-----------------------------------------------------------------------------
(* Signing and verifying.                                                  *)

Hash(data) == <<"hash", data>>
SignData(data, key) == <<"signature", key, Hash(data)>>
VerifySignature(data, signature, key) == signature = <<"signature", key, Hash(data)>>

(* Does a signature by the private key verify with the public one?         *)
Agree(private, public) == VerifySignature(<<>>, SignData(<<>>, private), public)

(* The manager accepts what it signs, with the keys in memory (sign_data,  *)
(* verify_signature) and with those of the files (sign_firmware,           *)
(* verify_firmware), unless a save_keys ended between its two files.       *)
SelfVerifies ==
    ~cut =>
      /\ {private_key, public_key} \subseteq Pairs => Agree(private_key, public_key)
      /\ writing = <<>> /\ {files[PrivatePath], files[PublicPath]} \subseteq Pairs =>
           Agree(files[PrivatePath], files[PublicPath])
=============================================================================
