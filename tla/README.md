# Secure FOTA over UDS and CAN: a TLA+ verification project

The repository is a firmware update system for vehicle ECUs in four programs: a
manager in Python, a gateway on an ESP32, and on an STM32 a bootloader and an
application. It is published in part: the main programs, the UDS server of the
ECU, the ISO-TP sender and the CAN driver are not in it. What is there holds the
parts that are hard to get right: the dual-slot copy that must survive a power
loss, the UDS client that must not confuse late answers, the threads of the TCP server
and the beacon, the keys and the packet that a release is made with, the checks a
firmware passes on its way, the files the manager rewrites.

## Inventory

| Component | State | Operations | Talks to |
|---|---|---|---|
| Bootloader, dual-slot manager (`dual_slot_manager.c`) | flash slots A and B, their metadata pages, `BKP->DR2` | `DualSlot_ReadHeader`, `VerifySlot`, `CopyBtoA`, `EraseSlotB`, `GetInfo`, `IsSlotABootable` | called by boot code and UDS server (not in the repository); flash driver |
| Bootloader, security (`fota_security.c`, `aes_decrypt.c`) | cached public key | hash, ECDSA, AES-CBC, PKCS7 | called by the slot manager and the UDS server |
| Application (`firmware_header.h`, `can.c`) | none | reports the version in metadata A | gateway, over UDS 0x22 |
| Gateway, UDS client (`uds_client.cpp`) | the CAN receive queue; block number, offset and retries of a call | `uds_download_firmware`, `uds_request`, `uds_read_version` | ECU over ISO-TP; called by `main.cpp` (not in the repository) |
| Gateway, version checker (`version_checker.cpp`) | what an attempt has fetched | local and remote version, metadata, download, comparison | HTTPS server, ECU |
| Gateway, security (`fota_security.cpp`) | none | `verify_firmware` | between download and transfer |
| Gateway, discovery (`udp_discovery.cpp`) | one socket | `udp_wait_for_beacon` | the manager's beacon |
| Manager, TCP server (`network_utils.py`) | `is_running`, `server_socket`, `client_socket`, `accept_thread`, shared by three threads | `start`, `stop`, accept loop, `send_firmware_package` | gateways over TCP |
| Manager, beacon (`network_utils.py`) | `is_running`, `udp_socket`, `broadcast_thread`, shared by two threads | `start`, `stop`, broadcast loop | gateways over UDP |
| Manager, firmware list (`firmware_manager.py`) | metadata in memory and in a JSON file | add, hash, sign, delete, history, save, load | the manager's user interface (not in the repository) |
| Manager, packet (`protocol.py`) | none | `create_header`, `create_packet`, `parse_header`, `parse_packet` | called before a transfer |
| Manager, keys (`crypto_utils.py`) | key pair and AES key in memory, five files in `keys_dir` | generate, save, load and export keys; hash, sign, verify, encrypt | called before a release; the exported headers are compiled into the bootloader |

What makes each one correct, and what is hard about it:

* **Dual-slot manager.** At every instant an image survives that the next boot
  can reach; only a signed image runs; `COPY_COMPLETE` means what it says. Hard
  because power may go inside any flash operation, including inside the repeated
  copy, and because writes may go wrong.
* **UDS client.** `ESP_OK` means that the ECU installed this firmware in this
  call, and a version that it read is the installed one. Hard because a timed-out
  request may still be answered, and the answer waits in a queue nobody empties,
  whole or in frames; because 0x78 stretches the wait; because the next call finds
  the ECU in the middle of the last one.
* **Version checker and check.** What goes to the CAN bus is signed and belongs
  to its header, and never replaces a newer version. Hard because three files
  come in three requests while somebody publishes.
* **TCP server.** No chunk is lost or sent twice, a stream has no gap, stop
  stops, a gateway is served. Hard because three threads share four attributes
  without a lock, and stop does not wait for the accept thread.
* **Beacon and discovery.** A gateway that waits finds a server that broadcasts; a
  beacon never has two loops. Hard because stop closes the socket under a thread it
  waits for only 3 s, because an error ends the loop silently, and because anybody
  may send to the port.
* **Keys and packet.** What a manager signs, it and the ECUs built with its keys
  accept, and these accept nothing else. Hard because a pair is two files, written
  and loaded one after the other; because keys in files, in memory and in a
  bootloader get out of step; because a packet is a string of bytes without a
  frame, and no signature covers its IV, its version or `original_sha256`.
* **Firmware list.** Versions are unique, the file says what memory says, saved
  history survives. Hard because the file is emptied before it is written and a
  getter changes what it gets.

## Modules

| Module | Models | |
|---|---|---|
| `DualSlot` | all of `dual_slot_manager.c` | state machine |
| `AtomicUpdate` | what the vehicle is promised: an update is offered, then installed or dropped, never half | abstract specification |
| `MCDualSlot` | two releases on slots of eight cells | instance for TLC |
| `DualSlotProofs` | theorems about `DualSlot` | proofs |
| `UdsClient` | all of `uds_client.cpp` | state machine |
| `UdsClientProofs` | theorems about `UdsClient`: what it answers for and what the ECU holds | proofs |
| `UdsFailuresProofs` | theorem about `UdsClient`: how many calls a fault makes fail | proofs |
| `GatewayUpdate` | `version_checker.cpp`, `fota_security.cpp` | state machine |
| `Versions` | how gateway and manager read and compare version texts | operators |
| `GatewayVersions` | `GatewayUpdate` with version texts that `Versions` reads | composition |
| `MCGatewayUpdate` | two releases and their version texts | instance for TLC |
| `GatewayUpdateProofs` | theorems about `GatewayUpdate` and `GatewayVersions` | proofs |
| `TcpServer` | `TCPServer` of `network_utils.py` | state machine |
| `TcpServerProofs` | theorems about `TcpServer` | proofs |
| `Discovery`, `MCDiscovery` | `UDPBeacon` of `network_utils.py` with `udp_discovery.cpp` | state machine with time, instance |
| `DiscoveryProofs` | theorems about `Discovery` | proofs |
| `FirmwareStore` | `FirmwareManager` of `firmware_manager.py` | state machine |
| `FirmwareStoreProofs` | theorems about `FirmwareStore` | proofs |
| `KeyStore` | `CryptoManager` of `crypto_utils.py`: keys, files, signatures | state machine |
| `Packet` | `protocol.py` | operators |
| `Release`, `MCRelease` | `KeyStore` and `Packet` composed with encryption, `fota_security.c` and `aes_decrypt.c` | state machine, instance |
| `ReleaseProofs` | theorems about `Release`: its keys, its packets, their stream and what the ECU installs | proofs |

An operator whose comment begins with "Mutant:" is not part of a specification.
It is a deliberate mistake, one a programmer could make in the definition that
follows it; `PROJECT.json` names the property that finds it. It is there to show
that the property can fail.

### DualSlot

`slotA`, `slotB` are functions from cells to contents, `metaA`, `metaB` a header
or `NoHeader`, `dr2` the backup register, `pc` the place in the program, `off`
the loop variable, `fw` the local `fw_size`. `DualSlot_CopyBtoA` becomes one
action per change of flash or register, in the order of the code: `CopyPending`,
`CopyInProgress`, `EraseMetaA`, `ErasePageA` (one per page), `EraseADone`,
`WriteMetaA`, `CopyChunk` (one per 256-byte chunk, with its read-back),
`CopyComplete`; `CopyReject` is its early return. `DualSlot_EraseSlotB` is
`EraseMetaB`, `ErasePageB`, `EraseBDone`. The checks are operators with the
names of the functions.

`PowerLoss` is possible in every state. It leaves anything in the cells of the
page or chunk that was being changed, and any prefix of a header. A program
operation only changes erased cells, as on this flash, so a page that is not
erased before the copy shows. DR2 may be lost with the power (it survives on VBAT
only, and nothing in the code says whether that is fed). `MaxFaults` bounds chunk
writes that go wrong with the power on; `MetaWriteFails` lets the metadata write do so.

The boot and the download that surround these functions are not in the
repository. They are modelled from what the comments in the file say of them
and from `DIAGRAM_GUIDE.txt`, and marked external. The download verifies slot B
before it commits the metadata; the encrypted container and its decryption are left
out, so a slot's digest and signature are those of its contents.

Comments and guide disagree about the boot, and `main.c` could not be consulted:

* The comments (`dual_slot_manager.c:120-135`) say of both `COPY_PENDING` and
  `COPY_IN_PROGRESS` that the boot detects the state and restarts the copy. The guide
  (602, 862, 911) tests for `COPY_PENDING` alone. `BootResumes` is the set of states
  from which the boot copies. `AlwaysRecoverable`, `UpdateFinishes`, the refinement
  and all theorems but three (`TypeCorrect`, `FullCopy`, `SignedRuns`) need the boot of
  the comments (`ResumesUnfinished`; `UpdateInvariant` has it in its formula); the run
  `dualslot_guideboot` shows what happens with the other.
* The guide resumes "from checkpoint" (584, 603). No checkpoint is stored: the copy
  starts again from the beginning, as the comments say.
* The guide (623-628) skips ECDSA for an image that came encrypted. The code
  (`DualSlot_VerifySlot`) always verifies it, and `OnlySignedRuns` is about the code.

`lapse` is history, for the properties: why an unfinished copy may never be finished.
A copy that stops at its read-back leaves DR2 at `COPY_IN_PROGRESS` and the ECU
waiting (`"failed"`); a reset repairs that. If a new session comes instead, it
erases slot B while DR2 still names it as the source (`"abandoned"`). Should the
power go while metadata B is being written, the boot copies what is there without
verifying it and sets `COPY_COMPLETE`. Nothing in the code prevents this, and whether
`uds_server.c` does cannot be seen; the properties state it as their exception.
`"drained"` is a DR2 that was lost during an update. Each lasts until a copy of a
verified slot B is pending.

A digest is the contents it is computed over and a signature is the digest that
was signed, which is to say that SHA-256 and ECDSA are assumed to be sound.

### AtomicUpdate and the refinement

`AtomicUpdate` has three variables: the image the vehicle can run and the image on
offer, both `NoImage` when there is none, and `waived`, whether what the promise
rests on has been lost. `DualSlot` implements it under the mapping
`runnable <- VerifiedImage(slotA, metaA)`, `offered <- VerifiedImage(slotB, metaB)`,
`waived <- lapse \in {"drained", "abandoned"}`: an interrupted copy, or one that
failed, may take away the runnable image only while the same image stays on offer
until it is installed. A waived promise is good again with the next image on offer.

### UdsClient

`pc`, `sid`, the transfer variables `payload`, `offset`, `bsn` and the counters
of `uds_request` are the client; `toEcu` and `toGw` are requests on their way
and the CAN receive queue. `toGw` is never emptied by a failing call, as in the
code. `att` in a message is the call it belongs to; the client does not look at
it. One action per branch of `uds_request` (0x78, other negative answer, answer
to another service, positive answer), one per step of the download, and one each
for a timeout, a foreign frame and a tick of the receive timeout.

`isotp_recv` works frame by frame. The answers of a download are single frames.
The answer to `uds_read_version` (0x22) takes several: `ReceiveFirst` sends flow
control and goes to `"cf"`, where `CollectConsecutive` takes a frame with the
next sequence number, `CollectOther` skips frames of other kinds, and a wrong
number fails the call; `frames` holds what has been collected. `ReceiveFirst`
happens whatever was requested, since a late version may be at the head of the
queue; `ReceiveStray` is a consecutive frame where an answer should begin. The
sequence number does not wrap (`VersionFrames` is at most 15, that is 111 bytes;
a version has at most 11 characters).

The ECU is external. It answers in order, refuses what is out of sequence, may
give 0x78 at any time, resets into its application when a whole firmware is in,
and forgets consecutive frames it still owes when another request comes. Two
assumptions about code outside the repository matter. `cantp::send_isotp` drops
what is queued before the flow control frame it waits for; the configuration it
is given (`accept_fc_from_any_id = false`, `log_rx_while_waiting = false`) and
the wait of 3 s suggest as much. And the ECU, a single loop, gives flow control
only when it has answered what came before. Without the first, `FailuresBounded`
fails (this is its mutant); without the second, so does `NothingMisplaced`.

### GatewayUpdate

An attempt is the chain `GetLocalVersion`, `GetRemoteVersion`,
`GetHeaderFromMetadata`, `DownloadFirmware`, `Verify`, `Forward`; every function
that does not return `ESP_OK` ends it (`GiveUp`). The order is that of the
gateway's README ("Security Firewall" and "OTA Update (Cloud Mode)"), since
`main.cpp` is not in the repository. Between any two steps `Upload` may replace
the index, one metadata file or one firmware file. A body may end short
(`DownloadShort`): it is refused only if the length was announced, as in the
code. Versions are texts; `Numbers` gives the numbers `compare_versions` reads in
one, `Kept` the part that fits in the header. The ECU reports the version of the
header it was sent, which is what the application does.

Between the comparison and the download the user confirms (the README's Cloud Mode,
step 3: "User confirms update (touch LCD)"): the attempt waits at `"confirm"` until
`UserConfirms`, which may never happen, while the publisher goes on replacing files.

### Versions

`GatewayNumbers` and `CopyVersionStr` are the gateway's reading of a version text,
`ValidateVersionFormat`, `ManagerNumbers` and `ManagerCompare` the manager's. The
two differ: the gateway takes the digits of a suffix for digits of the last number
(`1.2.3-rc1` is 1.2.31), the manager drops the suffix. `GatewayVersions` puts
`GatewayUpdate` and `Versions` together (`NumbersAssumption`: the constant
`Numbers` is what the gateway reads) and states `NewerForManager`. `MCGatewayUpdate`
gives `Numbers` and `Kept` the values these operators compute, so that
`NeverDowngrades` and `NewerForManager` are checked on real texts: with `v`, with
two parts, with a suffix, and cut at 11 characters.
`NewerForManager` is limited by `SameForBoth` to texts the manager accepts and
both read as the same numbers, which leaves out suffixes with digits; for those
the two programs do disagree.

### TcpServer

The three threads interleave at every read and write of a shared attribute.
`start` is `StartListen` (up to `is_running`) and `StartThread`, or `StartUnbound`
(`bind` or `listen` raises: the socket stays in `server_socket`) or `StartNoThread`
(the thread's `start` raises, and `is_running` stays set); `stop` is
`StopRunning`, `StopClient`, `DropClient`, `StopListener`; the accept loop is
`AcceptCheck` (reads `is_running`), `AcceptRead` (reads `server_socket`),
`AcceptConn` or `AcceptError`, `CloseOld`, `AssignNew`; a transfer is `SendStart`
and, for each chunk, `SendRead` (reads `client_socket`) and `SendChunk`. There is
one accept thread for every start, since stop does not join it. A closed
listening socket either wakes its thread or takes one more connection; platforms
differ, and the model allows both. `client_address`, `get_client_info` and
`send_data` are left out.

### Discovery

The manager's user calls `Start` or `StartFails` (it raises: in a socket call, or
in the thread's `start`, which leaves `is_running` set without a loop) and `Stop`
(`StopClose`, `StopJoin`: join waits for the thread, at most `JoinTimeout`);
thread `t` runs `Check` (reads `is_running`), `Send` or one of its failures (reads
`udp_socket`), `Wake` after the sleep. Sockets and threads are numbered by the
start that made them. The gateway's call is `Listen` or `ListenFails` (`socket`,
`bind`), then `ReceiveBeacon`, `ReceiveForeign`, `ReceiveTimeout`, or
`ReceiveError` (any other error of `recvfrom`); `ParseBeacon` reads a message as
its parts between the bars.

Time is discrete. `Tick` lowers every timer by one second, and is possible only
when nobody is `Busy`, that is when every thread waits for time or for somebody
else: code takes no time in comparison with the timers. `TimersAssumption` is
`Interval < JoinTimeout` and `Interval < RecvTimeout`. The defaults satisfy the
first (2 s and 3 s), and nothing in the code enforces it: `interval` is a
parameter, and with 3 s or more the loop may outlive the join and a second one
be started beside it. The second is up to the gateway's caller.
`MessagesAssumption` says that the beacon's own address is one `parse_beacon`
accepts, and that no other program on the network announces a server: a beacon is
not authenticated, and `FailsForReason` would be about somebody else's server.

`excused` and `failed` are history: whether the wait under way has lost a
datagram, been without a loop or failed in `recvfrom`, and whether the last start,
or a `sendto` since then, failed. The properties use them to say when a failure has a reason.

### FirmwareStore

`versions`, `current` and `history` are the metadata in memory. `file` says whether
the file is absent, torn or whole, `disk` what a start would read: the metadata of a
whole file, otherwise the default.
Every operation that changes memory is followed by `SaveOpen`, which empties the
file, and `SaveWrite`; `SaveOpenFails` is an `open` that raises and leaves the old
file, `SaveFails` an exception after that, which leaves it torn. Either leaves the
change in memory (`unsaved`), as no caller in the file catches it. `Restart` may
come at any point and loads the file, or the default when it is missing or torn.
Files, dates, sizes and notes are left out; history entries are numbered in the
order they were added.

### KeyStore, Packet, Release

`KeyStore` is the key side of `CryptoManager`: `private_key`, `public_key` and
`aes_key` in memory, `files` on disk, and `writing`, the files the operation
under way has still to write. `SaveKeys` begins two writes, the other operations
one; `WriteFile` does one of them; `WriteFails` (an exception) and `Restart` (the
end of the process) stop it, with the old contents or a `Torn` file. `LoadKeys`
and `LoadAesKey` assign before they check, as the code does: a torn public file
leaves a new private and an old public key, a torn AES file a `Short` key, which
`ExportAesKey` then writes into the header. `cut` remembers that a `save_keys`
ended with only one of its files new: from then on keys need not agree, and
nothing in the code could tell.

`Packet` is the header's fields and the payload as a string of cells, one cell
for a field and for a byte, with `parse_header` and `parse_packet` on any string.
A version is cut to the header's length.

`Release` composes them. `Prepare` makes a release with the keys in memory, in
the order that `fota_protocol.h` (lines 27-41) and the manager's README give:
hash and sign the image, pad and encrypt it under a fresh IV, hash and sign the
ciphertext, `create_packet`. Its packet is appended to `stream`, the cells of all
packets one after the other. `BuildEcu` compiles the two exported headers into a
bootloader, once. `Install` hands the ECU any contiguous part of the stream of
all packets, or one packet with a damaged cell, and does what the same comment
says of the ECU: verify the container, decrypt, remove the padding, check
`original_sha256` and the plaintext signature. These three are external, since the
programs that call the functions are not in the repository; what they call is not.

Hash and signature are symbolic: equal only for equal arguments. AES-CBC is what
its chaining makes of it: a block decrypts to itself under its key and after its
predecessor, and to any other block otherwise, so that a damaged IV or a wrong
key gives garbage that might look like anything. A damaged cell is never zeros.

## Runs

| Run | Result | What it shows | Bounds |
|---|---|---|---|
| `dualslot` | passes, 605k states | `OnlySignedRuns`, `CompleteIsSafeToBoot`, `CompleteOnlyAfterFullCopy`, `AlwaysRecoverable`, `UpdateFinishes`, the refinement of `AtomicUpdate` and the invariant `UpdateInv` hold under power loss, lost registers and a bad chunk write, with the boot of the comments and the exceptions that `lapse` names | 2 power losses, 1 bad write, 2 pages of 2 chunks of 2 cells |
| `dualslot_guideboot` | violated | with the boot of the guide an interrupted copy is never finished | 1 power loss, no bad write |
| `dualslot_metawrite` | violated | a metadata write that ends short is not noticed | no power loss needed |
| `uds_client` | passes, 768k states | `OkMeansInstalled`, `VersionCurrent`, `NothingMisplaced`, `FailuresBounded`, `CallsReturn` for downloads and version reads in any order | 5 calls, 2 faults, 2 or 3 blocks, versions of 2 frames |
| `uds_wait` | violated | the wait for an answer is not bounded | 3 foreign frames |
| `tcp_server` | passes, 1.05M states | `EveryChunkOnce`, `NoGaps`, `AcceptLoopAlive`, `StopEndsTransfer`, `GatewayServed` | 2 gateways, 2 starts, 2 sends of 2 chunks, 1 error |
| `tcp_swap` | violated | a second gateway takes over a transfer and the send reports success | the same |
| `firmware_store` | passes, 2.1M states | `VersionsUnique`, `FileFollowsMemory`, `HistoryComplete` | 2 versions, 2 history entries, 2 failed saves or restarts |
| `history_order` | violated | the second reading of the history is oldest first | the same |
| `gateway_update` | passes, 91k states | `OnlySignedForwarded`, `NeverDowngrades`, `NewerForManager`, `UpdateArrives` | 2 releases, 6 version texts, 6 uploads, 2 faults |
| `release` | passes, 79k states | `SelfVerifies`, `OnlyReleases`, `AcceptsWhole`, `WholePackets` | 2 key pairs, 1 AES key, 2 releases of 1 and 2 bytes, 1 failure |
| `discovery` | passes, 169k states | `OneBroadcaster`, `ActiveBroadcasts`, `FailsForReason`, `WaitReturns` | 3 starts, 1 error, 1 lost and 2 foreign datagrams |

The bounds are chosen for the cases that matter. Two power losses allow one in
the copy that repeats an interrupted copy; one image ends inside a chunk and
inside a page, the other fills the slot; images have erased cells among their
contents, so that a cell may be right by accident. Two faults and five calls
allow two overlapping failures and the calls they cost: a late answer of a
download costs one call more, the frames of a late version one each, which is why
`FailuresBounded` allows `2 * (VersionFrames + 1)` failures for a fault: four, which
the five calls of the run can exceed, for one fault. The eight of two faults they
cannot reach; that is left to the theorem.
`MaxBsn = 2` makes the block number wrap in a download of three blocks. Two
starts of the server give two accept threads, which suffice for an old thread to
meet a new socket; three starts of the beacon let a loop that outlived its stop
meet the next two. Six uploads publish one release whole and spoil or replace it.

In `release` the block has two bytes; one image ends inside a block, the other
fills it and ends with a byte that looks like padding; one is sent without
`original_sha256`. Two pairs are enough for a key of the wrong pair, and they are
symmetric: no definition tells one from the other. One failure gives a half saved
pair, a torn file or a short key. Two releases give a stream with parts that span
both, made with one pair or with two. The action constraint `KeysMatter` leaves
the keys alone once the ECU is built and the last release made, since nothing
reads them any more. In `discovery` the interval and the join timeout are the
defaults in seconds; the foreign messages fail one each of the checks of
`parse_beacon`.

Deadlock is checked where the system always has something to do; the UDS, TCP and
release models stop when their bounds are used up.

### Fairness

* `DualSlot`: the bootloader is one sequential program, so while the power is on
  its next step is taken: weak fairness of booting, copying and erasing. A power
  loss is never owed, and their number is bounded, which is what makes
  `UpdateFinishes` true. A reset of an ECU that waits after a failed read-back is not
  owed either: `UpdateFinishes` excepts that state.
* `UdsClient`: the client's task runs while a call is under way, and the ECU
  works on the request it has. Calls, losses and 0x78 answers are not owed.
* `TcpServer`: the threads that can run do run, and `accept()` returns when a
  connection waits. Errors, `stop` and sends are not owed.
* `Discovery`: threads that can run do run, and time passes when all wait. What
  the user starts and stops, when a gateway listens, errors and foreign datagrams
  are not owed; foreign datagrams are bounded, without which `WaitReturns` would
  fail (each of them restarts the receive timeout).
* `GatewayUpdate`: the gateway goes on making attempts (its README: "auto-checks
  Firebase (every 60s)"). Uploads, faults and the user's confirmation are not owed;
  `UpdateArrives` speaks of a release that stays published to a user who does not
  leave an attempt unconfirmed for ever (`[]<>(pc # "confirm")`).

## Proofs

`DualSlotProofs` proves for every slot, page and chunk size, every set of images
and packages, and any number of power losses and bad writes:

| Theorem | States |
|---|---|
| `TypeCorrect` | `Spec => []TypeOK` |
| `UpdateInvariant` | `Spec => []UpdateInv` |
| `Recoverable` | `Spec => []AlwaysRecoverable`, if `ResumesUnfinished` |
| `SafeToBoot` | `Spec => []CompleteIsSafeToBoot`, if `ResumesUnfinished` and metadata writes do not fail |
| `FullCopy` | `Spec => CompleteOnlyAfterFullCopy` |
| `SignedRuns` | `Spec => []OnlySignedRuns` |
| `ImplementsAtomicUpdate` | `Spec => AtomicUpdateSpec`, under the same two assumptions |

They rest on the named assumptions of `DualSlot`: sizes are positive, a chunk is
not longer than a page, `MAX_FIRMWARE_SIZE` does not exceed a slot, images are
contents. The page size need not divide the slot size.

None of the properties is inductive. That slot A verifies when `COPY_COMPLETE` is
set needs to know that the chunks before `off` are equal to slot B and that the
cells from `off` on are erased; that in turn needs to know that the erase loop
covered the image, and that slot B has been verified and does not change while
the copy runs, which is known because of DR2. `UpdateInv` says this in five parts:

* `CopiedSoFar`: a copy works on the size it read; chunks behind `off` are equal
  to slot B; while a download is under way metadata B is blank. `FullCopy` follows
  from it alone.
* `TargetErased`: the copy finds slot A erased, so it stops only after a bad write.
* `StateAgrees`: DR2 and the place in the program agree.
* `SourceVerified`: what is being copied, or is to be, is a verified image.
* `TargetVerified`: outside a copy slot A verifies.

The first two hold whatever goes wrong and whatever the boot does. The others hold
while metadata writes succeed, the boot restarts an unfinished copy and no session
has followed a failed one (`Undisturbed`); bad chunk writes and lost registers do
not touch them. The proof that `Next` preserves them has one step per action; the
arguments about slots (a torn cell that was erased, a programmed chunk, the digest
of the first cells) are lemmas. `SignedRuns` follows from the guard of the only
action that enters the application and from the fact that nothing changes slot A
there.

`GatewayUpdateProofs` proves for every set of releases, versions, builds and
indexes, and any number of uploads and faults:

| Theorem | States |
|---|---|
| `GatewayTypes` | `Spec => []TypeOK` |
| `SignedForwarded` | `Spec => []OnlySignedForwarded` |
| `Upgrades` | `Spec => NeverDowngrades`, if `HonestMetadata` |
| `ManagerAgrees` | `Spec => NewerForManager`, if `HonestMetadata` |

`OnlySignedForwarded` is inductive: only `Verify` leads to the transfer, and no
upload reaches what the gateway has fetched. `TypeOK` needs `Chosen`, which says
from which step on an attempt has a release and a payload. `NeverDowngrades`
needs `Compared`: what was read of the ECU still holds, the release was found
newer than it, and the header has the numbers of the release. The publisher must
provide the last part, so `HonestMetadata` assumes it: every upload's metadata has
a version which, cut to the header's 11 characters, is not empty and has the
numbers the index gives the release. The instance TLC checks satisfies it, with a
version that is cut. `NewerIsLater` is the lemma that the loop of
`compare_versions` finds the order of versions that the property is stated in.
`ManagerAgrees` is about `GatewayVersions`, where `Numbers` is the gateway's reading
of a text (`NumbersAssumption`): the manager pads the shorter version with zeros
and compares part by part, and finds the same order on texts both read alike.

`UdsClientProofs` proves for every size of firmware and blocks, any number of
calls, lost, late and foreign frames and resets of the ECU:

| Theorem | States |
|---|---|
| `ClientAgrees` | `Spec => []ClientInv` |
| `ClientTypes` | `Spec => []TypeOK` |
| `NothingEverMisplaced` | `Spec => []NothingMisplaced` |
| `OkOnlyWhenInstalled` | `Spec => []OkMeansInstalled` |
| `ReadsCurrentVersion` | `Spec => []VersionCurrent` |

`UdsAssumption` asks for positive sizes and for versions whose sequence numbers do
not wrap. An answer does not say which request it answers, so what the client takes
for the answer to a block could be a late one. `ClientInv` says why it is not:

* `Transfers`: a request of a download is the first the ECU reads, and asks for
  the place the ECU is at; until it is read nothing but "pending" comes back.
* `InStep`: once flow control has emptied the queue, the only request under way is
  the client's, and a positive answer means that the ECU has done it.
* `FlowAwaited`, `Installed`: the same while flow control is awaited, and at the end.
* `FramesCurrent`, `CollectedCurrent`: frames of a version, in the queue or
  collected, belong to the firmware that is installed, since no download that
  could replace it is asked for while they are.

`UdsFailuresProofs` proves, under the same assumption:

| Theorem | States |
|---|---|
| `FaultsPayForFailures` | `Spec => []FailuresInv` |
| `FailuresStayBounded` | `Spec => []FailuresBounded` |

The bound of `FailuresBounded` is not inductive: a call that fails may leave frames
behind that the next call reads as its own, and fails by, and leaves frames behind.
`FailuresInv` therefore bounds a debt, the failures so far and those that the two
queues may still cause:

* Three machines read the queues and add up a price, two for a failed call and the
  answer it leaves. `Runs` counts "pending" answers that follow each other, one too many for
  `MAX_RETRIES` being a failure. `Groups` follows the consecutive frames of a
  version: `Place` is the number the client expects next, and a frame that does not
  fit ends the call and leaves the rest of its group. `Owed` reads the requests and
  says what the ECU's answers to them will be worth, which is where `Groups` ends
  (`GroupEnd`). `Psi` is the sum, less what is the running call's own.
* A recursive sum over a queue is not something the prover can do induction on;
  `AllNumbers` and `AllSequences` do it over a set instead. A machine comes with a
  distance between its states (`GroupFar`, `RunFar`, `OwedFar`) that reading a frame
  does not widen. So what a frame costs that is lost, taken, appended or out of place depends on
  the states before and after it alone (`TotalMore` and the lemmas that follow it).
* A step that is no fault does not raise failures and `Psi` together (`QuietSteps`); a
  fault raises them by `Group + 2` at most, where `Group` is two for each consecutive
  frame (`FaultySteps`).
* `Clean` says that the queues hold only what the running call asked for and still
  waits for. Then the debt is what has failed; else it is one more and `Psi`. A fault in
  a clean state pays for that one (`CleanPays`), and a call that fails only because of
  what is left over takes it back when it leaves a clean state.

`Supplement` is what these arguments need to know of the queues beyond `ClientInv`:
no positive answer in a transfer is a stale one, "pending" is counted for a
request that is still there, frames are collected for a session or a version only.

`TcpServerProofs` proves for any number of gateways, starts, sends, errors and
chunks (`ServerAssumption`: a package has a chunk):

| Theorem | States |
|---|---|
| `TcpTypes` | `Spec => []TypeOK` |
| `AcceptLoopStaysAlive` | `Spec => []AcceptLoopAlive` |
| `StopEnds` | `Spec => StopEndsTransfer` |
| `NoGapsEver` | `Spec => []NoGaps` |
| `EveryChunkSentOnce` | `Spec => []EveryChunkOnce` |

`ThreadInv` says that the thread of the last start is alive and accepts at the
server's own socket, whatever the older threads do. `ConnInv` says that a connection
is in the backlog, in the hands of one accept thread, or the client, in that order
and only once: so what `stop` has closed is never the client again, and a
connection that takes over in mid-transfer was sent nothing before. `Runs` (what a
connection got has no gap, and the next chunk follows) and `Sent` (chunks before
the next one went to exactly one connection) are invariant on top of that.

`FirmwareStoreProofs` proves for every set of versions and hashes, any number of
history entries, crashes and failing writes:

| Theorem | States |
|---|---|
| `StoreInvariant` | `Spec => []StoreInv` |
| `StoreTypes` | `Spec => []TypeOK` |
| `VersionsStayUnique` | `Spec => []VersionsUnique` |
| `FileFollows` | `Spec => []FileFollowsMemory` |
| `HistoryStaysComplete` | `Spec => []HistoryComplete` |

A restart puts the file's contents into memory, so `MetadataOK` says of both that
versions are unique, that what is signed says so and that history numbers are. An
entry may be missing in memory only once a start has found a torn file
(`NothingLost`): between two saves every entry that was saved is in memory and in
the file, also after a save that could not open it. Both lists are sequences that
the code filters, appends to, changes in place and reverses; the lemmas say what
each of these keeps.

`DiscoveryProofs` proves for any interval and timeouts that satisfy
`TimersAssumption`, any number of starts, errors, lost and foreign datagrams:

| Theorem | States |
|---|---|
| `DiscoveryTypes` | `Spec => []TypeOK` |
| `OneBroadcasterAlways` | `Spec => []OneBroadcaster` |
| `ActiveBroadcastsAlways` | `Spec => []ActiveBroadcasts` |
| `FailsOnlyForReason` | `Spec => FailsForReason` |

`StopInv` is the argument for the first two: a loop that is alive is the beacon's own
(`OneLoop`), and a join lasts longer than the sleep of the loop it waits for
(`JoinOutlasts`), which needs `Interval < JoinTimeout` and is why the beacon's
fields are cleared only when no loop is left (`CallAgrees`). `BeaconComes` is the
argument for the third: a wait without an excuse has a beacon in its socket, or a
loop that will send one before the timeout. A start that raises leaves no loop and
is counted in `failed`, an error of `recvfrom` in `excused`.

`ReleaseProofs` proves for every set of keys and any number of releases, failed
writes and restarts:

| Theorem | States |
|---|---|
| `KeysAgree` | `Spec => []KeyInv` |
| `ManagerVerifiesItself` | `Spec => []SelfVerifies` |
| `KeysKeepTypes` | `Spec => []Typed` |

They rest on `KeysAssumption`: keys are none of the values that stand for no key, a
torn file or a short key. `SelfVerifies` is not inductive: what the files hold after
a save depends on what the save had still to write, and what is in memory after a
load depends on the files. `KeyInv` says what `writing` can be (nothing; both keys;
the public key, with the private file already of its pair; one file of another
name) and how memory and files agree meanwhile.

It proves of the packets, for every block size, version length, set of images and
number of releases, with any damage to one cell of a packet:

| Theorem | States |
|---|---|
| `ReleaseTypes` | `Spec => []TypeOK` |
| `OnlyWholePackets` | `Spec => []WholePackets` |
| `OnlyReleasesInstalled` | `Spec => []OnlyReleases` |
| `AcceptsWholeAlways` | `Spec => []AcceptsWhole` |

`ReleaseAssumption` asks that a block has a byte, that the padding's values are
bytes and that an image has at least one; `VersionLengthAssumption` that a version
has a character. `StreamInv` says that wherever the stream has a magic number a
packet of a release begins. A part of the stream that passes the checks of
`parse_packet` begins there and has the length its header announces, hence is that
packet (`OnlyWholePackets`). What the ECU installs has the hash the signature was
made over, and the key compiled in tells whose signature it is, hence it is the
image of a release made with that key (`SlotInv`). That the release was encrypted
with the AES key compiled in takes the ciphertext: a container is installed with the
blocks of a release (`ContainerSignature`, `SentSignatures`), and blocks that decrypt
to a signed image were encrypted under the key that decrypts them
(`DecryptsWithItsKey`, `OnlyReleasesInstalled`).

`AcceptsWholeAlways` is the converse: a whole packet, made with the keys the ECU has,
is decrypted to the padded image, loses its padding and passes every check. It needs
what CBC and the splitting into blocks compute, which are recursive functions. The
induction theorems of the library take an operator as a parameter and cannot be used;
`AllNumbers` does induction over a set of numbers instead, and follows from
the least element of a set of numbers, that is from the well-foundedness of `<`. From it `ChainExists` and
`FlattenExists` show that the functions the definitions choose exist, and
`CipherChain` and `FlattenBlocks` what they return. `BlockArithmetic` is the
arithmetic of the padding.

### What is only model-checked

* Liveness (`UpdateFinishes`, `CallsReturn`, `GatewayServed`, `UpdateArrives`,
  `WaitReturns`): fairness and `ENABLED` are out of the proof system's reach.
* The five disagreements below, which are counterexamples.

## Disagreements found

1. `dual_slot_manager.c:159`: metadata A is not read back, so `COPY_COMPLETE`
   ("Copy finished, safe to boot", line 100) may be set with a slot A that does
   not verify (`dualslot_metawrite`).
2. `dual_slot_manager.c:136`: the copy runs under `COPY_IN_PROGRESS`, from which
   the boot of `DIAGRAM_GUIDE.txt` (602, 862, 911) does not resume, against the comment
   above that line: a power loss in the copy is then final (`dualslot_guideboot`).
3. `uds_client.cpp:64`: a frame with another id restarts the whole timeout, so
   "Max 10 retries = ~30 seconds total" (line 183) is not a bound (`uds_wait`).
4. `network_utils.py:287`: a gateway that connects during a transfer gets the
   rest of it; nobody has the whole package, and the call returns True
   (`tcp_swap`).
5. `firmware_manager.py:183`: the history is reversed in place, so "newest first"
   (line 180) holds for every other call (`history_order`).

More were met that no run shows, because they concern wording, code outside the
repository, or values the models abstract from:

* `crypto_utils.py:535`: `export_public_key_to_c_header` joins rows with a
  backslash and an `n`, where the comment at 490 says "actual newlines"; the header
  would not compile (and the backslash inside the f-string is a syntax error before
  Python 3.12). `Release` takes the header as what it is meant to be.
* `protocol.py`: `create_fota_packet` passes its arguments one place off to
  `create_packet`; `get_header_info_string` asks for keys `parse_header` does not
  return; the script at the end passes `create_packet` a `compressed` it does not take.
* `crypto_utils.py`: a docstring names `SECP256K1`, the code uses `SECP256R1`.
* `network_utils.py`: `is_active` stays true when the broadcast loop has ended,
  `get_client_info` may say connected after `stop`.
* No signature covers the version field of a packet's header.
* `dual_slot_manager.c`: a new download may erase slot B while DR2 still says
  `COPY_IN_PROGRESS` after a failed copy (176, 250), and a power loss then ends in
  `COPY_COMPLETE` over a slot A that does not verify ("DualSlot" above); DR2 survives
  only on VBAT (136); the stack pointer mask and the upper bound of the reset vector
  (274, 286) let values outside pass. The first depends on a caller outside the
  repository, the last on the contents of an image whose signature is good.
* `DIAGRAM_GUIDE.txt`: steps 25 and 29 (a checkpoint, a skipped ECDSA) are not what the
  code does ("DualSlot" above).
* The gateway's README, LAN Mode (237-241): the gateway broadcasts "FOTA_DISCOVER" to
  port 5001 and the manager replies "FOTA_SERVER:...". In the code the manager
  broadcasts `FOTA_BEACON|address|port` and the gateway listens.
* `firmware_manager.py`: deleting a version leaves `current_version` (197), and a
  hash set after signing leaves the old signature (139).
* `version_checker.cpp`: chunked HTTP answers look empty (348); a version cut
  inside a number is another version (716); no retry after 0x78 in this file's own
  copy of the UDS request (461).

## Not modelled, and why

* The skip-header variants of hash and signature and `decrypt_firmware_aes` in
  `crypto_utils.py`, and `aes_decrypt_firmware_blocks` in `aes_decrypt.c`: nothing
  in the repository calls them, and they keep no state. `create_fota_packet` and
  `get_header_info_string` cannot succeed (above).
* `send_data`, `client_address`, `get_client_info` of `TCPServer`: one `sendall`
  of a socket that is modelled, and reports.
* The ciphers themselves, JSON, DER, HTTP and the layout of the exported headers:
  reduced to what decides. A version number that overflows an `int`.
* ISO-TP reception in `version_checker.cpp`: the code of `uds_client.cpp` again.
* `can.c`, build files, diagrams: generated, or not code.

## Plan

1. A composition of `UdsClient` and `DualSlot`: a download over the bus, verified,
   committed and copied, with power losses on the ECU while the client waits.
2. `aes_decrypt_firmware_blocks`, the same decryption in pieces, as a refinement of
   `DecryptFirmware`.
