# Warthog, specified in TLA+

Warthog is the firmware of an ESP32-S3 board with a Morse Micro HaLow (802.11ah) radio. It is a
USB network adapter for a host and a node of a mesh: it peers with its neighbours, finds paths
with HWMP or runs a batman-adv engine, and relays frames between the host, a Wi-Fi access point
and the radio. These modules state what its concurrent and distributed parts promise, check them
with TLC on small instances, and prove most of the core with TLAPS for every size.

`PROJECT.json` lists every definition with the source lines it translates, every run, every
mutant, every hazard and every theorem. `umac/` below is
`src/components/halow/components/mm-iot-sdk/framework/morselib/src/umac/`, `main/` is `src/main/`.

## The system

Tasks: lwIP's thread (`tiT`), the umac **event loop** (all mesh protocol work), the chip driver's
tasks, the **TinyUSB** task, the batman task, `main` (one tick a second), the AT task. They share
tables and queues, guarded by short critical sections or by nothing.

| Part | Source | State | Operations | What makes it correct |
|---|---|---|---|---|
| Peer records | `umac/datapath/umac_datapath_mesh.c` | slot table, retired records, two reader counts | `add_peer`, `del_peer`, `set_peer_key`, `read_begin`/`read_end`, lookups | no reader meets a freed record; every record freed once; the event loop never waits for a reader |
| Mesh transmit | same, `umac_datapath.c`, `umac_core`/`umac_evtq.c` | a queue per peer, the packet pool, round robin, the loop's wakeup | `tx_frame`, replication, `enqueue`, `process_tx`, TX status | no frame on a dead queue, none leaked, a group frame once to each peer, no peer starved |
| USB transmit | `main/usbnet_core.c`, `main/usb_net.c` | ring of copies, `kick_pending`, `tx_busy` | `usbnet_tx`, kick, pump, completion, detach | one kick at most, nothing stuck, order kept, each copy freed once |
| Open-mesh peering (MPM) | `umac/mesh/umac_mesh.c`, `umac_mesh_plink_tbl.c` | a link per neighbour, holdoffs, the station table | Open, Confirm, Close, first sighting, expiry | both ends settle on the same link ids and fall silent; a link has a station exactly while established |
| HWMP | `umac/mesh/umac_mesh_hwmp.c`, `_hwmp_relay.c`, `_pathtbl.c`, `_fwd_glue.c` | path table, own sequence number, discovery ids, frames put off to the loop | PREQ, PREP, PERR, originate, keep-alive, lose neighbour, expire | no loops, discoveries answered, lost links made known |
| Boot guard | `main/boot_guard.c`, `main/main.c` | a record in `.noinit`, the watchdog | start, USB up or failed, tick, download mode | safe mode exactly after crashes in a row |
| Forwarding, duplicate cache, held frames | `umac/mesh/umac_mesh_fwd*.c`, `_rmc.c` | proxy table, seen frames, frames waiting for a path, gate and ladder of discoveries | relay, hold, flush, ask | delivered once, in order, asked for until given up |
| Keys and chip restart | `umac/keys/`, `umac_datapath_mesh.c` | group and pairwise keys, packet numbers, what a restarted chip still lacks | install, re-install, rekey, restore | no packet number twice under a key; replay counters never go back; everything restored in the end |
| batman-adv | `main/bat/`, `main/bat_port.c` | originators, translation tables, broadcast windows, fragments | OGM, TT request and response, broadcast copies | tables converge on the owner's; broadcasts once |
| Hang guard | `main/hang_guard*.c` | five probes: answer count, age, limit | tick, answers, abort | a stuck task resets the board, a live one never does |
| Console | `main/cdc_out.c` | the port's mutex, `stalled` | write, write without waiting | lines whole, no writer held for ever |
| The rest | `main/*.c`, `umac/*`, SDK | | | listed in `PROJECT.json`, with the reason each is left out |

How they meet: the event loop changes the peer table (MPM or hostap through `add_peer`/`del_peer`),
every sending task reads it; `del_peer` drains the peer's queue and calls
`umac_mesh_fwd_glue_peer_lost`, which takes the paths through it down and announces them; a frame
without a path asks HWMP and waits; a frame for the host goes to `usbnet_tx` from lwIP's thread
while the TinyUSB task pumps; the tick of `main` drives both guards.

## Modules

| Module | Models | Checked by | Proved in |
|---|---|---|---|
| `PeerReclaim` | abstract: a record is published, held, unlinked, freed once when nobody holds it | | |
| `MeshPeers` | the peer table and its grace period, step by step | `peers` | `MeshPeersProofs` |
| `MeshTx` | frames over `PeerReclaim`'s records: tasks, queues, the loop's turn | `tx` | `MeshTxProofs` |
| `GroupPn` | packet numbers of our own group key across installs, epochs and chip restarts | `keys` | `NumberProofs` |
| `PeerGtk` | a peer's group key in the chip, fences, taints, restoration | `keys`, `peer_gtk_taint` | `NumberProofs` |
| `FrameQueue` | abstract: a bounded queue that keeps order and in which nothing waits for ever | | |
| `UsbNet` | the USB transmit ring | `usb` | `UsbNetProofs` |
| `Mpm` | peering at every node of a small open mesh | `mpm_pair`, `tables`, `mpm_refused` | `TableProofs` |
| `Hwmp` | path selection at every node of a small mesh | `hwmp_row`, `hwmp_line` | `HwmpProofs` |
| `HeldFrames` | frames that wait for a path, the ladder and the gate of discoveries | `forward` | `ForwardProofs` |
| `SeenFrames` | one bucket of the duplicate cache on a wrapping clock | `forward` | `ForwardProofs` |
| `BatBcast` | batman broadcasts: numbers across boots, spaced copies, the listener's window | `keys` | `NumberProofs` |
| `BatTT` | batman translation tables: announcer, listener, requests | `tables` | `TableProofs` |
| `BootGuard` | boots, crashes, resets | `boot` | `GuardProofs` |
| `HangGuard` | probes of five tasks on a wrapping clock | `boot` | `GuardProofs` |
| `MC*` | the instances TLC runs | | |

`MCKeys`, `MCForward`, `MCGuards` and `MCTables` put two or three modules that share no state side
by side in one run: a variable `part` says which of them moves, the others keep their initial state,
so the run's states are the sum, not the product, of the parts' states.

`MeshTx` is composed on `PeerReclaim`, not on `MeshPeers`: `MeshPeers` is shown to implement
`PeerReclaim`, so the transmit path may rely on the promise alone, and TLC need not carry the
reader counts under it.

### MeshPeers

`peers`, `dying`, `old`, `readers`, `cur` are `s_peers`, `s_dying`, `s_dying_old`, `s_readers`,
`s_readers_cur`. A critical section is one step; so are a load of one slot and one `mmosal_free`;
everything between them interleaves. Blocks are reused after a free, so a stale pointer can meet a
new record. `Reclaim` is `mesh_reclaim_locked_` in closed form, and `ReclaimIsTheLoop` checks in
every state that it computes what the code's loop computes.

### MeshTx

A task inside its read section looks a peer up (a leaf that knows no way takes its first established
peer), copies a group frame for one peer after another, and queues under a critical section that
compares the slot with the record (`QueueOne`). The event loop turns: `ProcessTx` starts a burst,
`Dequeue` picks round robin, `ProcessNone` ends it; `wake` and `more` decide whether it comes back.

### GroupPn

The chip draws packet numbers itself and cannot be asked how far it got. The host counts what it
hands over (`MaxFrames` in a run) and, on every event that could make it lose count - a redelivered
key, a restart of the chip, a new epoch - installs the key again above everything that can have been
drawn. `sent` is history: the numbers on the air under each key. The bound `Loose <= Epoch` is the
code's own: frames handed over and not yet accounted for are fewer than the numbers of one epoch.

### PeerGtk

One peer's AID in the chip: what the host tracks, what the chip holds, what a refused
`DISABLE_KEY` left there (taint), the fence that keeps frames opened before a re-install from being
judged by the new counter, and what a restart still owes. Every command may be refused; frames the
chip opened wait in a queue between. hostap always uses key id 1; the keychain is never full; a
frame is taken within the minute after which a fence retires; the 32-bit wrap of the read order
and an INSTALL_KEY whose answer is lost are not modelled.

### UsbNet

`TxStart` to `TxKick` is `usbnet_tx` by any sender, with the lock released between its two full
checks; `Peek` to `FreePopped` is the pump in the TinyUSB task; the bus is on, suspended, gone or
off. The class holds `ClassRoom` frames; a suspended host reads nothing. A transfer of the class's
data endpoint completes with the endpoint armed again while the class still holds frames
(`XferDone`), as `usbnet_core.h` says of the call. The notification endpoint is one of its own:
`Attached`, where `usb_net.c` raises the link, only arms it, and it completes later (`NotifyDone`),
perhaps after frames were pumped. `usbnet_xfer_done` sets `tx_busy` from either endpoint, so
`tx_busy` can read idle for a while although the class holds a frame. What is claimed of it is the
other direction (`BusyEnds`): it is never set with neither a frame in the class nor a notification
on its way, so `AT+STATUS?` shows no `tx_busy_ms` that nothing would end.

### Mpm

A FIFO per ordered pair of nodes, from which frames may be lost or repeated (`MaxFaults`). A
handler is one action with its sends. A reboot empties the table; a silence expires the link; the
data path may refuse a station. Link ids are fresh, as the code draws them at random. `Hear`, a
beacon of a neighbour, needs the node's own frames to have landed and lets only the peer's first
Open cross: answers take milliseconds, beacons come every second. `Lapse(n, n)` is the end of
`refused_over`, the holdoff that stands for every neighbour the table could not note.

### Hwmp

A broadcast is one frame per node in range, and each arrives on its own. `Learn` (the path table's
update), `Room`, `HandlePreq`, `HandlePrep`, `HandlePerr`, `PeerLost`, `Ask`, `AskOffLoop` and the
outbox (a discovery that a task not the event loop starts is put off to it and gets its number again
when it goes), the keep-alive, and the lapse of a path. Sequence numbers wrap at `SnMod`. A path may
lapse only when no older word about its destination is still in the air: frames take milliseconds,
paths live five seconds or more.

`HwmpInv` is the types, `LoopFree`, and two statements of what is needed for the protocol to mean
anything. `Recent`: no number is in use half the number space after it was drawn. `Reach`, while no
frame is lost: numbers are recent also when neighbours come and go (an announced one may be the next
to be drawn); no more paths run through one neighbour than one burst of PERRs has frames; and no
PERR is at its last hop where it breaks a path that another node uses or is about to hear of.

### HeldFrames and SeenFrames

`HeldFrames` has our own frames, pushed by the netif task and asked for by every flush, and relayed
ones, which climb a ladder of requests; both pass one gate (a minimum gap per target and one for
all). The gate's table forgets no target: one it evicts could be asked for again only after its gap
anyway, by a static assertion in the code. Times are ages and the tasks serve what is due before
time goes on. Frames leave outside the lock, one by one. `SeenFrames` is a bucket of the duplicate
cache: entries age on a clock that wraps; two copies of the same millisecond count as "beside". An
entry left for half a wrap after it expired (24.8 days without a new frame) reads as live again;
`SeenInv` is stated outside that case.

### BatBcast and BatTT

`BatBcast`: an originator numbers its broadcasts, keeps the number across a boot if it can and draws
a new one if not; sends `Copies` of each (3 in the firmware for group frames), spaced, out of a few
slots; a listener's window takes each number once and gives way to a restarted originator once per
30 s. A tick is tens of seconds and needs the air and the slots empty. A burst of 64 or more refused
broadcasts may make copies still waiting pass for a new start, so a broadcast is promised to be
taken once only short of that; after numbers are drawn anew the listener hears at once only when
stale bits have left the window.

`BatTT`: an originator's client table, its numbered changes, repeats of the last commit; a
listener's copy, a request after a gap and its full answer. A table is a set, the XOR of CRCs is
equality of sets (the order of entries does not matter to either). After a route is lost the copy
may be known with wrong rows until one full answer comes. The branches for a tail that does not fit
512 bytes are unreachable at the code's limits (136 bytes). The firmware announces its own address
only, added once by `bat_tt_init`; `bat_tt_local_add` and `bat_tt_local_del` after that are the engine's
test hooks, and in the model they stand for originators with clients, Linux ones.

### BootGuard and HangGuard

`BootGuard`: the `.noinit` record is the set of the `s_boot` words that hold the magic, and the
counts. `Boot` follows `app_main`; HaLow start may hang, USB start returns. `crashes` is history:
the boots in a row that ended in a crash.

`HangGuard`: five probes, each an answer count and an age; counts are abstracted to "changed since
the last tick". `stood` is history: how long a task has really stood still. Queues of the tasks may
be full; ticks come up to `MaxLate` late; a task answers within `Lag` while it runs. A tick that
names a task ends the model, as the board resets. `main`'s own hang is the task watchdog's matter.
The `.noinit` record of a hang and its text are left out.

## Runs

| Run | Question | Bounds | Why they are enough |
|---|---|---|---|
| `peers` | no use after free, one owner, slots not reused, `del_peer` returns, slots come back, refinement of `PeerReclaim` | 2 slots, 2 blocks, 2 readers, 2 neighbours, SAE | two readers taking turns are the steady stream; a block is reused while another is retired; the theorems lift the bounds of the safety half |
| `keys` | numbers fresh, RSC right, what the chip holds is tracked or tainted, nothing taken twice, owed things stay owed; broadcasts heard once and soon | epochs of 2 numbers (up to 6), 2 keys, 3 frames; 2 keys and 2 indexes at the AID, 1 queued frame; 4 broadcasts of 2 copies in 2 slots, numbers modulo 16 from the last but one on, one boot of each kind | frames run past an epoch; a frame of the first key comes late under the second; numbers wrap and a drawn number can collide with the window |
| `peer_gtk_taint` | a finding, below | as in `keys` | |
| `tx` | queues, counts, pool, replication, starvation | 1 task, 2 slots, a pool of 2, bursts of 2, all frame kinds, a leaf with SAE | one task against the loop already meets every order of table change and step; with two peers and two frames to a burst one can be starved; contention of several tasks is `MeshTxProofs`' |
| `usb` | one kick, nothing stuck, order, refinement of `FrameQueue` | 2 senders, ring of 2, 3 blocks, class room 2 | a full ring and one more copy: both senders can pass the first full check of a ring with one place; two frames tell order |
| `mpm_pair` | agreement and an end to the exchange | 2 nodes, 2 faults, 2 Opens (8 in the code), 6 frames in a direction | two faults cover a reboot and a lost answer to it |
| `mpm_refused` | a finding, below | as `mpm_pair` | |
| `tables` | room making never cuts a settled link; a table with the announced number is the announced table; one exchange mends any copy | 3 nodes, 1 link each, 1 fault, 1 Open, 4 frames in the air; 2 originators that share a client, 2 rows, numbers modulo 3, 2 events | the third node is the one that asks for room, and two refusals overflow a holdoff table of one; three announced addresses do not fit two rows, and a table can lap its number |
| `boot` | safe mode, settling; a stuck task named, a live one never | 5 panics, commands and clean resets, limit 3, count to 4 (255 in the code); hang limit 5 ticks, a clock modulo 8, ticks up to 2 late | the count saturates above the limit either way; the clock wraps many times within a hang's life |
| `forward` | held frames' order and time, none beside its path, the ladder; duplicates | 2 targets, 2 slots of each kind, 3 frames, a ladder of 2 requests (`Retries` 1, 4 in the code); 5 frames for a bucket of 3, a clock modulo 10 | two targets contend for the gate and the slots; a fourth frame evicts |
| `hwmp_row` | loops and dead ends while links come and go, or with a loss and a lapse | row of 3 and an absent target, a table of 1, 3 asks, 1 lapse; `OneFault`: 1 lost frame, or up to 4 lost links with 5 asks, lost links and lapses in all | both links of the middle node can go and come; with 6 in all the run is over three times as large and passes too |
| `hwmp_line` | numbers rise, discoveries answered | line of 4, 2 targets, outbox of 1 | two relays between ends; a discovery put off while another goes |

Numbers wrap in the HWMP runs (`SnMod` 8, first number 6). Symmetry is used only in runs without
liveness. Deadlock is checked except where the system rightly stops: peered nodes are silent, and
a mesh nobody asks in is idle.

What the runs show beyond a pass:

- With links breaking and nothing lost, a ring of paths can close for a moment, while a PERR and
  an older PREQ pass each other; `QuietLoopFree` is therefore stated of a mesh with no frame in
  the air. Without broken links no ring closes in any state, with losses and lapses (`HwmpInv`).
- With losses *and* breaks a ring can stay until its paths lapse; frames in it die by their TTL.
  No property claims otherwise: `QuietLoopFree` and `NoDeadEnd` are of runs without losses, and the
  hazard is listed (`umac_mesh_hwmp_relay.c`). A PERR names at
  most eight destinations of up to 32 (`umac_mesh_fwd_glue.c`); the rest die unannounced, listed too.
- `NoDeadEnd` is false once a path lapses, with no link broken: a lapse is not announced, and who
  routed through the node goes on sending there, and the node queues the data and asks for a path
  itself but sends no PERR (`umac_mesh_fwd.c`). It is stated of runs without a lapse.
- On a triangle a stale PREQ and the PERR that follows it can go round until the PERR's TTL ends,
  and then the ring the PREQ closed stands. That is why the theorems below need the last part of
  `Reach`; on the row of the run, and on any tree shallower than the TTL, a PERR gets everywhere.
- Three nodes that ask one another for a single place each may go on refusing; that some pair
  peers is not claimed.
- Held frames: a frame the netif sends directly may overtake held ones between the install of a path
  and their release. Order is promised among the held only.

### Fairness

Every fairness is of a task that the scheduler runs or of a timer that fires: steps of a task
inside a call, the event loop's next step, the TinyUSB task's next step. Strong fairness is used
where events of a FIFO queue or a fixed part of each turn of the loop cannot be kept away by
others (`Sending`, `Kicked`, `XferDone`, `Detached`). None is assumed for the host, but that it
reads what it is offered while the bus is on and resumes or unplugs a bus it suspended. A reader that
never leaves its section is allowed: `DelPeerReturns` holds without it, and the properties that
need it say so in their hypothesis (`ReadersLeave`). In `Mpm`, frames that are not lost arrive and
neighbours go on being heard; in `boot` the fairness is `BootGuard`'s alone, and a start of HaLow may
hang for ever.

### Findings

`mpm_refused`: `umac_mesh.c` says that a peer that answered an Open with Close(MESH_MAX_PEERS) "is
not opened toward again for this long". The Confirm branch of `umac_mesh_handle_mpm` creates a
link without asking `mpm_table_refused`, and a first sighting asks it only of a neighbour without
a link. A Confirm still on its way when the Close is handled re-creates the link, and the next
beacon sends an Open inside the holdoff. The exchange still ends in a peering.

`peer_gtk_taint`: `wiki/OpenMANET-Interop.md` says that group frames the chip opens at an AID whose
`DISABLE_KEY` it refused are dropped until one succeeds. The code asks the taint when it takes a
frame, not when the chip opened it: a frame opened under the left-over key, still queued while a put
of the current key clears the taint, is taken and judged by the current key's counter.


## Proofs

TLC checks one size; the theorems hold for every value of the constants that the named
assumptions of the modules allow. TLC evaluates these assumptions on every run. Each invariant
theorem has the same three parts: the first states have the strengthening, each step keeps it (one
step per action, below it one per conjunct the action can disturb), and it implies what is promised.
The strengthenings were checked with TLC before they were proved.

### MeshPeersProofs

From `ConstantsAssumption` (the constants differ from one another; finitely many readers):

- `TypeCorrect` is not inductive alone: `readers` is a count that is decremented, and stays a
  natural number only because it is exactly the number of tasks inside (`Counted`).
- `Invariance` proves `IInv`, the conjunction of `TypeOK`, `Counted`, `Owned` (where each record
  is, and that it is in one place), `HeldKept` (a held record is linked, being torn down, or
  retired; if old, its reader is on the side being drained), `NothingLost` and `NoneStranded`.
  `HeldKept` is the heart: it says why switching sides is a grace period. `Reclaim` has lemmas of
  its own for what it detaches, keeps and makes old.
- `NoUseAfterFree`, `SlotsNotReused`, `GracePeriod`, `OneOwnerEach` follow from `IInv`.
- `ReclaimEnds` proves `ReclaimIsTheLoop`: the loop, which the actions replace by its outcome, has
  ended after two turns (`Turn`) whatever it was called on, and the outcome is the closed form's.
- `Refinement`: every step of the table is a step of `PeerReclaim` or a stutter.

### MeshTxProofs

`TxIInv` says what the event loop and the tasks may rely on: a record in the table is linked and in
its own slot (`Placed`), a held one is not freed (`HeldLive`, what `PeerReclaim` promises), a frame
lies only on the queue of a record in the table (`QueuesLive`), and what each task has in hand
matches where it stands (`TasksOK`: which peers it has been past, which it has a copy for).

- `GroupFrameOnce`: a replicated group frame reaches each peer that stays established throughout
  exactly once. `TasksOK` is needed because the loop may unlink and link peers between two copies.
- `NoneOnTheRetired`, `SameNeighbour`: no frame on the queue of a record that left the table, and a
  frame goes to the neighbour its lookup found, though the slot may have changed hands since.
- `PoolAccounted` proves `TxInv`: the pool's blocks are free, queued on one peer or in one task's
  hands, and `s_num_pkts_queued` is the number queued. The sums are cardinalities of sets of
  pieces (a frame's place in a queue, a task's place in a copy), so no sum over a set has to be
  defined by recursion. Each step of a task moves one piece between the pool, a hand and one
  queue (`FrameStep`); tearing a peer down and sending shrink one queue (`QueueShrinks`).

### NumberProofs

- `GroupPn`, from `Loose <= Epoch` (frames handed over while a redelivered key waits for its
  first install are no more than the numbers of an epoch; without it TLC finds a repeated number).
  `PnInvariant` proves `PnInv`: what the chip may have drawn is below what the host accounts for,
  what the host accounts for is below the next install. `NumbersFresh` (no number twice under a
  key), `RscNeverAhead` and `RscAboveThePast` follow.
- `TakenOnceInTurn` proves `BcastInv` from `BcastAssumption`: within the bounds on broadcasts and
  boots, the numbers a listener can miss make no jump of its window, and twice the broadcasts and
  a window fit the modulus. `BcastInv` alone is not inductive. The strengthening says of the
  sender that waiting copies are in order of arrival on a counter that wraps (`SenderOK`,
  `Numbered`); of a number in the air, whether it is of the run of numbers the listener follows
  or of an older one (fresh or stale, `Trail`, `Current`); of the listener, that the bits of its
  window are exactly those taken and none lies ahead of the originator's own number (`Follow`,
  unless a drawn number strayed into the window), and that a first copy not yet taken is one the
  window has not passed (`Turn`, `Untried`).
- `PeerGtk`: `KeyInv` extends the types by `CallKept` (a put that is under way has a key and a link),
  `Held` (what the chip holds at the AID is tracked or tainted), `Owed` (what a restart took is owed
  until put back), `Fenced` (a frame in the queue is behind its own key's counter or before a fence)
  and `Covered` (a counter is at or above every number taken under its key). From it `TrackedOrTainted`
  (`GtkInv`: the types, what the chip holds is tracked or tainted, and a link whose MTK a restart
  left out is owed it), `OwnCounter`, `OnlyLeftoversTwice` and `OwedStays`, the last three for steps.
  `OwnCounter` and `OnlyLeftoversTwice` except a frame read under a key that a refused `DISABLE_KEY`
  left there and taken after the taint was cleared; the finding above shows that the exception is
  met. `NoneTwiceUnrefused` has no exception: as long as no index is tainted, no frame is read under
  such a key (`NoLeftover`), and a frame taken is judged by its own key's counter and is above every
  number taken under that key.

### HwmpProofs

From `HwmpAssumption` (finitely many nodes, in range both ways, numbers at least twice as many as
nodes), for every mesh, table size, TTL, outbox and set of flows, on the hypothesis `[]Recent`, and
for paths while neighbours come and go also `[]Reach`. A sequence number compared by wrapping
difference means nothing without the first; in the firmware half the space is 2^31 draws, and a
path lives seconds. An announcement that is cut off or dies on its way leaves who should have heard
it as he was; that is the second. Both are conjuncts of `HwmpInv`, so TLC checks in `hwmp_row` that
all states of the run meet them, with numbers modulo 8.

- `NothingGoesRound` proves `TypeOK` and `LoopFree`, so `HwmpInv` where `Reach` holds too:
  `LoopFree` is no ring of paths in any state while no neighbour has been lost, with losses, lapses,
  refusals and a full table. `LoopFree` says nothing of how a path came about; `RouteInv` does.
  `Rises`: what a node says of itself is in order on each channel, and the discoveries it has queued
  have numbers of their own (`Rising`, `Distinct`, `Unsaid`). `Calmly`, while no neighbour is lost:
  `Downhill`, the next hop of a live path has a path with a newer number, or the same number and a
  smaller metric, or has none and will only hear of newer numbers; `Vouched`, who passed a word on
  that is still on its way has a path as good as the word; `Plain`, nothing is announced lost;
  `Unsent`, nobody has heard a number drawn for a discovery that is still queued. `LearnKeeps` is
  the heart: a node that takes a word stays above the one who said it, and those above the node stay
  above it. `LapseKeeps` uses the guard of `Lapse`, that nothing older is still on its way. A ring
  would have to fall all the way round; `NoneRound` takes the node of the ring with the newest
  number and the least metric (`WFMin`).
- `QuietMeshLoopFree` and `QuietMeshNoDeadEnd` prove `QuietLoopFree` and `NoDeadEnd`. When links
  break, a ring may close for a moment, so `Downhill` is lost. `ReachInv` adds to `RouteInv` what is
  left of it while no frame is lost, `Assured`: for each destination, `Footed`, the next hop of a
  live path is the destination, or knows better (`Leans`), or a PERR that will break this path is on
  its way from it (`Warned`), or, once a path has lapsed, it has none and will only hear newer
  words; and `Backed`, behind every word still on its way is a path as good as the word, or a PERR
  that undoes it follows on the same channel. It needs `Unvoiced` (while a queued discovery carries
  the last number its node drew, nobody has heard that number, so that what the loop sends is new)
  and `Joined` (a live path leads to a current peer). `LearnSure` is the heart once more: a word
  taken by a node leaves those who lean on it leaning. `KillKeeps` has the other half, for both ways
  a path is broken: whoever leaned on it is warned by what is sent then, and `Reach` is used there,
  for the burst and for the last hop. Once nothing is on its way nobody is warned, every live path
  leans on better knowledge again (`QuietLeans`), and `NoneRound` applies as before.
- `OwnWordsRise` proves `NumbersRise`, also while neighbours come and go: a queued discovery gets
  its number again when the loop sends it.

### ForwardProofs

- `NoneHeldBesideItsPath`: once the loop is done with a flush or a timer, no held frame waits for a
  path that is there. A push may come between the two looks at the path table; the second look
  (`Targeted`, `NoneBeside`) is what closes the gap.
- `HeldFramesKept` proves `HeldInv` (types, `InOrder`, `NoneOverdue`, `Honest`) from
  `HeldAssumption`. No conjunct is inductive alone. `KeptInv` adds: numbers of held frames rise with
  their ages within a flow and none is younger than what is leaving (`Ordered`, `Leaving`), because
  a slot is reused without regard to order; a frame's age is bounded by what is left of the tick or
  the timer that will look at it (`InTime`), and a loop that is busy lets no time pass; the requests
  a frame has counted are as old as its steps, so none is counted twice (`AllPaid`, over `Spent`).
  `Sorted` and the ladder `AskAt` are recursive functions; they are handled as those of `BatTT`,
  below. The proof gave the bound of a relayed frame's life: `GiveUp` and one `GlobalMin`, as
  `relay_arm_` sets the timer anew by `UMAC_MESH_PREQ_GLOBAL_MIN_MS` when a frame is due that the
  gate holds back.
- `DiscoveriesOnTime` proves `OnTime` from `HeldAssumption` and `GateAssumption`: every target has
  its `GlobalMin` within `MinInterval`. In the code that is 50 ms and 400 ms, hence eight targets
  asked for at a time, the entries of the gate's table (`UMAC_MESH_PREQ_TARGETS`); with more, a
  target that was let pass may pass again before one that waits, and nothing bounds the wait:
  without the assumption TLC finds `OnTime` violated by three targets, `MinInterval` 2 and
  `GlobalMin` 1. `OnTime` says nothing of how a frame comes to be late. `Timely` says how late each
  may be by who stands before it: a frame behind by `j` times `GlobalMin` has at least `j` other
  targets that the gate let pass since and that cannot pass again before it (`Outrun`, `Ahead`), and
  one more while the gate is shut for all (`Waits`); once its target has passed, the frame is late
  by at most one round of all targets until the loop counts the request (`QueuedInTime`,
  `WentInTime`). It needs that the gate remembers only what went out or is queued (`GateKeeps`) and
  that the timer is set for the next step of every frame (`Armed`). `AheadIs` bounds the count by
  the number of targets.
- `SeenAreKnown` proves `SeenInv`. An entry holds only the time it expires; the strengthening says
  that this is the time since it was passed on (`Dated`), that a frame has one entry (`Single`), and
  that one without an entry was displaced by as many others as the bucket holds or is older than the
  cache time (`Displaced`). This needs that the cache was not idle for half a turn of the clock:
  after it an expired entry reads as live, the case `SeenInv` leaves out.

### UsbNetProofs

- `OneKickAtMost`, `NoFrameStuck`: a sender that finds the ring empty posts a kick unless one is
  posted; `NoFrameStuck` holds because the task looks only at a frame that is there (`HeadThere`)
  and a flag that is set has somebody bound to clear it.
- `CopiesAccounted` proves `UsbInv`: a copy's owner is its sender, the ring or the pop under way. The
  pump uses the head outside the lock, so the proof needs that nobody else moves it (`HeadStays`)
  and that ring, pop and senders hold distinct blocks (`HasCopy`, `Placed`). `BusyEnds` is not
  inductive: the pop that sets `tx_busy` does so for a frame the class has just taken, and nobody but
  the pumping task itself completes transfers or resets the class meanwhile (`Busy`).
- `RingIsQueue`: every step of the ring is a step of `FrameQueue` or a stutter; the queue is the
  ring read from its tail.

### TableProofs

The peerings of an open mesh:

- `StationsMatchLinks`: a node has a station for a neighbour exactly when its link with it is up. A
  handler that changes one table and the stations of its node together keeps this (`OneTable`).
- `TablesBounded` proves `MpmInv`, that no table holds more neighbours than it has slots: whoever
  makes a link takes a free slot or makes room first.
- `OnlyFaultsUnsettle`: two neighbours up on each other's ids with nothing in the air between them
  stay so in every step but a fault. A step touches one pair's frames only (`Apart`); a full table
  asked for room never gives up an established link.

The copies of batman-adv's tables, from `TTAssumption` (finitely many addresses; a number has at
least two values; there is room for one event and one temporary row):

- `TablesHold` proves `TTInv`. The queue of events is exact because it says what the states of the
  addresses say (`Owner`: the additions queued are the addresses that are `new`, the removals those
  that are `del`), which an event and its opposite that cancel leave true; a row added, displaced or
  removed keeps the rows apart and within their limits (`RowsOK`).
- `CopiesExact` proves `Exact`, by `Thread`: a tail on its way is of the announced table, its
  changes make that table of every copy one number behind, at the node or in an answer still on its
  way, and one with the announced number is that table. `Exact` alone is not inductive: it says
  nothing of a copy that is behind and that the next tail will make current. The number's wrap comes
  in once: two numbers never have the same next one, and none is its own.
- `OneExchangeMends` proves `OneExchange`, with a bound on the rows that is met (`RoomFor`): an add
  fails only when the announced rows alone fill the table.
- `Toggled`, `Without` and `Apply` are recursive functions over a sequence. No induction rule is
  needed: the set of prefixes whose steps some function takes has no least missing member
  (`LeastOf`), so it is all of them (`AllOf`); hence the function is there (`RunExists`), and
  what holds of its first value and is kept by each step holds of its last.

### GuardProofs

- `SafeMode` proves `BootInv` for any limit and maximum count: a boot is in safe mode exactly when
  the board crashed that often in a row. The strengthening ties the history to the stored count
  (`Counted`), for the marks a reset finds (`Marked`).
- `OnlyTheHung` and `EveryHung` prove `NamesTheHung` and `HangInv` for any limit, slack, interval
  and clock, from `HangAssumption`: a task that runs answers soon enough for two late ticks to fit
  the limit, and the clock's period is longer than any wait. In the firmware: 180 s, health checks
  of 60 s, ticks at most 60 s late (the task watchdog, `WARTHOG_HANG_TWDT_S`, ends a later one), 2^32
  ticks. The heart is
  what a probe's age means: the time since its answer count last changed, as seen by ticks that may
  come late, bounds the silence of the task from both sides (`Waits`); who was silent that long
  stood still (`Blamed`), because a task that runs has the question in its queue (`Queues`,
  `Prompted`) or is woken by the radio (`Radio`).

### What stays with TLC

- Everything under fairness: the liveness half of both refinements, `Peered`, `Answered`,
  `NoStarvation`, `Settles`, `DelPeerReturns`, `SlotComesBack`.
- `Recent` and `Reach`, the hypotheses of `HwmpProofs`. That old numbers die out in time is a matter
  of lifetimes in seconds, which `Hwmp` does not count; that a PERR has hops left depends on the
  shape of the mesh, and more than eight paths through one neighbour do break the promise.
- Paths when frames are lost and links break in the same run: no property holds of them but the
  lifetime of a path.

## Left out

- MeshPeers, MeshTx: radio state pushed with a peer, the pause of the data path, relayed and held
  frames, fragments, block acknowledgement. The run of `MeshTx` has one task; that several contend
  is proved, not run.
- UsbNet: the receive side, statistics, the netif.
- Mpm: SAE meshes (hostap peers there), the RSSI floor, re-announcement by a full table.
- Hwmp: the proxy table, rate limits on discovery, the protection latch, reboots. A PERR burst is at
  most eight frames for up to 32 paths (the code's comment says the rest die unannounced); the runs
  never reach it.
- HeldFrames: neighbours without a path, a path to a target no frame is for, a mesh restart, the drop
  of all when the pool pauses, the cap per hop and failed sends, the relay decision, proxies, the
  protection latch. `OnTime` is stated until a request is refused: a radio that
  refuses for ever delays for ever.
- BatBcast, BatTT: roaming, VLANs, unicast TT versions and data, route selection, fragments,
  relaying, suppression.
- Console: `cdc_out.c` keeps a mutex and one flag; a model of it would restate its few lines.
- Memory order: the critical sections are full barriers on this chip, loads of a pointer are whole.
- Vendored code (hostap, lwIP, mbedTLS, FreeRTOS, the chip driver), codecs, text, tools, client
  mode, commands, configuration, regions: `PROJECT.json` gives the reason for each.

## Plan

1. Fragments of batman frames, in a module of its own.
