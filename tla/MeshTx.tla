------------------------------- MODULE MeshTx -------------------------------
(***************************************************************************)
(* The transmit path of a mesh interface: what a task does between         *)
(* read_begin and read_end to hand its frame to a peer's queue             *)
(* (umac_datapath_tx_frame), del_peer taking a queue away under it, and    *)
(* the event loop passing queued frames to the driver peer by peer.        *)
(*                                                                         *)
(* Peer records live as PeerReclaim says, which MeshPeers implements; this *)
(* module puts the slots of the table back and adds the frames.  Frames    *)
(* are counted, not named.  A frame the driver took, or one that waits for *)
(* its path (umac_mesh_fwd_glue_tx_pending), counts as released.  The      *)
(* global pause of the data path and relayed frames are left out.          *)
(*                                                                         *)
(* s_peer_estab[i] is read with s_peers[i]: the slot stays the record's    *)
(* until the reader leaves (SlotNotReused of MeshPeers).                   *)
(***************************************************************************)
EXTENDS PeerReclaim, Naturals, FiniteSets

CONSTANTS MaxPeers,   \* MESH_MAX_PEERS
          Addrs,      \* MAC addresses of neighbours
          None,       \* NULL
          Sae,        \* a peer is established by its key
          Leaf,       \* neither AT+MESHFWD nor AT+MESHBRIDGE is on
          PoolSize,   \* blocks of the transmit pool
          MaxBurst,   \* MAX_TX_PROCESS_PER_LOOP
          Kinds       \* the kinds of frame the tasks send, see TxBegin

ASSUME TxAssumption ==
  /\ MaxPeers \in Nat \ {0} /\ MaxBurst \in Nat \ {0} /\ PoolSize \in Nat
  /\ None \notin Records \cup Addrs
  /\ Leaf \in BOOLEAN /\ Sae \in BOOLEAN
  /\ Kinds \subseteq {"uni", "ra", "group", "std"}

Slots == 0 .. MaxPeers - 1

VARIABLES
  peers,     \* s_peers
  estab,     \* s_peer_estab
  peer,      \* of every record: its peer's address and its slot (its AID - 1)
  queue,     \* of every record: the length of its txq
  queued,    \* s_num_pkts_queued
  pool,      \* free blocks of the pool
  tx,        \* of every task: where it is with its frame
  rr,        \* the slot mesh_dequeue_tx_frame looks at first
  blocked,   \* slots whose queue waits (umac_datapath_mesh_frag_wait)
  wake,      \* the event loop's binary semaphore
  burst,     \* frames process_tx may still take in this turn, 0 outside it
  more,      \* what the last process_tx returned
  stable,    \* of every task: the peers established since its group frame began
  copies     \* of every task: how often each record got its frame

records == <<status, holds>>
table   == <<peers, estab, peer>>
frames  == <<queue, queued, pool>>
sender  == <<rr, blocked, wake, burst, more>>
ghosts  == <<stable, copies>>
txvars  == <<records, table, frames, tx, sender, ghosts>>

NoPeer  == [addr |-> None, slot |-> 0]
NoFrame == [pc |-> "idle", kind |-> "uni", addr |-> None, tries |-> 0, slot |-> 0,
            stad |-> None, copy |-> None, meant |-> None]
NoCopies == [p \in Records |-> 0]

TxInit ==
  /\ Init
  /\ peers   = [i \in Slots |-> None]
  /\ estab   = [i \in Slots |-> FALSE]
  /\ peer    = [p \in Records |-> NoPeer]
  /\ queue   = [p \in Records |-> 0]
  /\ queued  = 0
  /\ pool    = PoolSize
  /\ tx      = [r \in Readers |-> NoFrame]
  /\ rr      = 0
  /\ blocked = {}
  /\ wake    = FALSE
  /\ burst   = 0
  /\ more    = FALSE
  /\ stable  = [r \in Readers |-> {}]
  /\ copies  = [r \in Readers |-> NoCopies]

InTable(p)     == \E i \in Slots : peers[i] = p
Established(p) == \E i \in Slots : peers[i] = p /\ estab[i]
At(r, pc)      == tx[r].pc = pc
Goto(r, f)     == tx' = [tx EXCEPT ![r] = f]
IsFirst(i, S)  == i \in S /\ \A j \in S : i <= j

(***************************************************************************)
(* One task sending one frame.                                             *)
(***************************************************************************)
\* "uni": to a destination; "ra": to a given neighbour (batman); "group": replicated to
\* every peer (AT+MESHGRP=0); "std": one group frame (AT+MESHGRP=1).
TxBegin(r, kind, a) ==
  /\ At(r, "idle") /\ pool > 0
  /\ pool' = pool - 1
  /\ Goto(r, [NoFrame EXCEPT !.pc = IF kind \in {"uni", "ra"} THEN "find" ELSE "first",
                             !.kind = kind,
                             !.addr = IF kind \in {"uni", "ra"} THEN a ELSE None,
                             !.tries = IF kind = "uni" THEN 1 ELSE 0])
  /\ stable' = [stable EXCEPT ![r] =
                  IF kind = "group" THEN {p \in Records : Established(p)} ELSE {}]
  /\ UNCHANGED <<records, table, queue, queued, sender, copies>>

\* A load of the slot the lookup is at, NULL or not.
Here(r)   == peers[tx[r].slot]
LoadAt(r) == IF Here(r) # None THEN Hold(r, Here(r)) ELSE UNCHANGED records

\* A task keeps no more of its frame than it still reads.
Found(p) == [NoFrame EXCEPT !.stad = p, !.meant = peer[p].addr]

Drop(r) == /\ Goto(r, [NoFrame EXCEPT !.pc = "end"])
           /\ pool' = pool + 1
           /\ UNCHANGED <<queue, queued>>

\* mesh_find_peer_: the slots in order.
Find(r) ==
  /\ At(r, "find") /\ tx[r].slot \in Slots
  /\ LoadAt(r)
  /\ LET p == Here(r) IN
     IF p # None /\ peer[p].addr = tx[r].addr
     THEN Goto(r, IF tx[r].kind = "ra" THEN [Found(p) EXCEPT !.pc = "keyed", !.addr = tx[r].addr]
                  ELSE [Found(p) EXCEPT !.pc = "last"])
     ELSE Goto(r, [tx[r] EXCEPT !.slot = @ + 1])
  /\ UNCHANGED <<table, frames, sender, ghosts>>

\* Not a neighbour: the path's next hop, or the peer a leaf learned the host through.
FindOther(r, a) ==
  /\ At(r, "find") /\ tx[r].slot \notin Slots
  /\ tx[r].tries = 1
  /\ Goto(r, [tx[r] EXCEPT !.addr = a, !.tries = 0, !.slot = 0])
  /\ UNCHANGED <<records, table, frames, sender, ghosts>>

\* Nothing found: a leaf sends to the first established peer, the others drop the frame.
FindNone(r) ==
  /\ At(r, "find") /\ tx[r].slot \notin Slots
  /\ IF tx[r].kind = "uni" /\ Leaf
     THEN Goto(r, [NoFrame EXCEPT !.pc = "first"]) /\ UNCHANGED frames
     ELSE Drop(r)
  /\ UNCHANGED <<records, table, sender, ghosts>>

\* The frame for a given neighbour looks it up again (umac_datapath_mesh_peer_estab).
Keyed(r) ==
  /\ At(r, "keyed")
  /\ IF \E i \in Slots : peers[i] # None /\ peer[peers[i]].addr = tx[r].addr /\ estab[i]
     THEN Goto(r, [tx[r] EXCEPT !.pc = "last", !.addr = None]) /\ UNCHANGED frames
     ELSE Drop(r)
  /\ UNCHANGED <<records, table, sender, ghosts>>

\* The first established peer, for a group frame or a leaf's unknown host.
FirstPeer(r) ==
  /\ At(r, "first") /\ tx[r].slot \in Slots
  /\ LoadAt(r)
  /\ LET p == Here(r) IN
     IF p # None /\ estab[tx[r].slot]
     THEN Goto(r, [Found(p) EXCEPT !.pc = IF tx[r].kind = "group" THEN "walk" ELSE "last"])
     ELSE Goto(r, [tx[r] EXCEPT !.slot = @ + 1])
  /\ UNCHANGED <<table, frames, sender, ghosts>>

NoPeerYet(r) ==
  /\ At(r, "first") /\ tx[r].slot \notin Slots
  /\ Drop(r)
  /\ UNCHANGED <<records, table, sender, ghosts>>

\* mesh_enqueue_tx_frame copies a group frame to the other established peers, each copy
\* from the pool; a failed copy loses that peer's only.  Mutant: the first peer gets a copy
\* and the original.
WantsAll(r) == Here(r) # None /\ estab[tx[r].slot]
Wants(r) == Here(r) # None /\ estab[tx[r].slot] /\ Here(r) # tx[r].stad
WalkCopy(r) ==
  /\ At(r, "walk") /\ tx[r].slot \in Slots
  /\ Wants(r) /\ pool > 0
  /\ LoadAt(r)
  /\ Goto(r, [tx[r] EXCEPT !.pc = "copy", !.copy = Here(r)])
  /\ pool' = pool - 1
  /\ UNCHANGED <<table, queue, queued, sender, ghosts>>

WalkSkip(r) ==
  /\ At(r, "walk") /\ tx[r].slot \in Slots
  /\ Wants(r) => pool = 0
  /\ LoadAt(r)
  /\ stable' = [stable EXCEPT ![r] = IF Wants(r) THEN @ \ {Here(r)} ELSE @]
  /\ Goto(r, [tx[r] EXCEPT !.slot = @ + 1])
  /\ UNCHANGED <<table, frames, sender, copies>>

\* mesh_queue_one_: the critical section queues only on a record still in the table.
\* Mutant: it does not look.
QueueOneBlind(r, p) ==
  /\ queue'  = [queue EXCEPT ![p] = @ + 1]
  /\ queued' = queued + 1
  /\ copies' = [copies EXCEPT ![r][p] = @ + 1]
  /\ UNCHANGED pool

QueueOne(r, p) ==
  IF InTable(p)
  THEN /\ queue'  = [queue EXCEPT ![p] = @ + 1]
       /\ queued' = queued + 1
       /\ copies' = [copies EXCEPT ![r][p] = @ + 1]
       /\ UNCHANGED pool
  ELSE /\ pool' = pool + 1
       /\ UNCHANGED <<queue, queued, copies>>

QueueCopy(r) ==
  /\ At(r, "copy")
  /\ QueueOne(r, tx[r].copy)
  /\ Goto(r, [tx[r] EXCEPT !.pc = "walk", !.slot = @ + 1, !.copy = None])
  /\ UNCHANGED <<records, table, sender, stable>>

QueueLast(r) ==
  /\ \/ At(r, "last")
     \/ At(r, "walk") /\ tx[r].slot \notin Slots
  /\ QueueOne(r, tx[r].stad)
  /\ Goto(r, [NoFrame EXCEPT !.pc = "wake"])
  /\ UNCHANGED <<records, table, sender, stable>>

\* The history of a frame ends with it.
Forget(r) == /\ stable' = [stable EXCEPT ![r] = {}]
             /\ copies' = [copies EXCEPT ![r] = NoCopies]

\* umac_core_evt_wake
TxWake(r) ==
  /\ At(r, "wake")
  /\ wake' = TRUE
  /\ Goto(r, [NoFrame EXCEPT !.pc = "end"])
  /\ Forget(r)
  /\ UNCHANGED <<records, table, frames, rr, blocked, burst, more>>

TxEnd(r) ==
  /\ At(r, "end")
  /\ Leave(r)
  /\ Goto(r, NoFrame)
  /\ Forget(r)
  /\ UNCHANGED <<table, frames, sender>>

(***************************************************************************)
(* The event loop: its calls into the table.                               *)
(***************************************************************************)
LoopIdle == burst = 0 /\ \A p \in Records : status[p] # "new"

\* A slot is free once its old record is back in the heap.
FreeSlots == {i \in Slots : /\ peers[i] = None
                            /\ \A p \in Records : status[p] = "retired" => peer[p].slot # i}

TxAlloc(a, p) ==
  /\ LoopIdle
  /\ \A i \in Slots : peers[i] # None => peer[peers[i]].addr # a
  /\ Alloc(p)
  /\ \E i \in Slots : /\ IsFirst(i, FreeSlots)
                      /\ peer' = [peer EXCEPT ![p] = [addr |-> a, slot |-> i]]
  /\ UNCHANGED <<peers, estab, frames, tx, sender, ghosts>>

\* The record visible, the slot's fragment runs and block-ack wait reset.
TxPublish(p) ==
  /\ Publish(p)
  /\ LET i == peer[p].slot IN
     /\ peers'   = [peers EXCEPT ![i] = p]
     /\ estab'   = [estab EXCEPT ![i] = ~Sae]
     /\ blocked' = blocked \ {i}
  /\ UNCHANGED <<peer, frames, tx, rr, wake, burst, more, ghosts>>

TxKey(i) ==
  /\ LoopIdle /\ Sae /\ peers[i] # None
  /\ estab' = [estab EXCEPT ![i] = TRUE]
  /\ UNCHANGED <<records, peers, peer, frames, tx, sender, ghosts>>

\* del_peer takes the queue in the critical section that unlinks the record.
TxUnlink(i) ==
  /\ LoopIdle /\ peers[i] # None
  /\ Unlink(peers[i])
  /\ peers'   = [peers EXCEPT ![i] = None]
  /\ queue'   = [queue EXCEPT ![peers[i]] = 0]
  /\ queued'  = queued - queue[peers[i]]
  /\ pool'    = pool + queue[peers[i]]
  /\ blocked' = blocked \ {i}
  /\ stable'  = [r \in Readers |-> stable[r] \ {peers[i]}]
  /\ UNCHANGED <<estab, peer, tx, rr, wake, burst, more, copies>>

\* A retired record goes back to the heap.
TxFree(p) ==
  /\ Free(p)
  /\ peer' = [peer EXCEPT ![p] = NoPeer]
  /\ UNCHANGED <<peers, estab, frames, tx, sender, ghosts>>

(***************************************************************************)
(* The event loop: its turns of umac_datapath_process_tx.                  *)
(***************************************************************************)
\* The loop neither sleeps nor takes the semaphore while it has more.
ProcessTx ==
  /\ LoopIdle /\ (wake \/ more)
  /\ wake'  = (more /\ wake)
  /\ burst' = MaxBurst
  /\ UNCHANGED <<records, table, frames, tx, rr, blocked, more, ghosts>>

Ready(i)  == peers[i] # None /\ i \notin blocked /\ queue[peers[i]] > 0
InTurn(i) == (i + MaxPeers - rr) % MaxPeers
NextUp(i) == Ready(i) /\ \A j \in Slots : Ready(j) => InTurn(i) <= InTurn(j)

\* mesh_dequeue_tx_frame, and the frame to the driver: a run of host fragments or a DELBA
\* blocks the slot.  Mutant: the round robin stays where it is.
DequeueStays(i) ==
  /\ burst > 0 /\ NextUp(i)
  /\ queue'  = [queue EXCEPT ![peers[i]] = @ - 1]
  /\ queued' = queued - 1
  /\ pool'   = pool + 1
  /\ burst'  = burst - 1
  /\ more'   = (burst = 1 /\ queued - 1 # 0)
  /\ blocked' \in {blocked, blocked \cup {i}}
  /\ UNCHANGED <<records, table, tx, rr, wake, ghosts>>


Dequeue(i) ==
  /\ burst > 0 /\ NextUp(i)
  /\ queue'  = [queue EXCEPT ![peers[i]] = @ - 1]
  /\ queued' = queued - 1
  /\ pool'   = pool + 1
  /\ rr'     = (i + 1) % MaxPeers
  /\ burst'  = burst - 1
  /\ more'   = (burst = 1 /\ queued - 1 # 0)
  /\ blocked' \in {blocked, blocked \cup {i}}
  /\ UNCHANGED <<records, table, tx, wake, ghosts>>

ProcessNone ==
  /\ burst > 0 /\ \A i \in Slots : ~Ready(i)
  /\ burst' = 0
  /\ more'  = FALSE
  /\ UNCHANGED <<records, table, frames, tx, rr, blocked, wake, ghosts>>

\* The TX status that ends a slot's wait, read at the start of the loop's next turn.
TxStatus(i) ==
  /\ LoopIdle /\ i \in blocked
  /\ blocked' = blocked \ {i}
  /\ wake' = TRUE
  /\ UNCHANGED <<records, table, frames, tx, rr, burst, more, ghosts>>

TxStep(r) == \/ Find(r) \/ (\E a \in Addrs : FindOther(r, a)) \/ FindNone(r) \/ Keyed(r)
             \/ FirstPeer(r) \/ NoPeerYet(r) \/ WalkCopy(r) \/ WalkSkip(r)
             \/ QueueCopy(r) \/ QueueLast(r) \/ TxWake(r) \/ TxEnd(r)
TxStart(r) == \E kind \in Kinds, a \in Addrs : TxBegin(r, kind, a)
Calls   == \/ \E p \in Records : TxPublish(p) \/ TxFree(p) \/ \E a \in Addrs : TxAlloc(a, p)
           \/ \E i \in Slots : TxKey(i) \/ TxUnlink(i)
Sending == ProcessTx \/ (\E i \in Slots : Dequeue(i)) \/ ProcessNone

TxNext == \/ \E r \in Readers : TxStart(r) \/ TxStep(r)
          \/ Calls \/ Sending \/ \E i \in Slots : TxStatus(i)

TxSpec == TxInit /\ [][TxNext]_txvars

\* A task goes on with its frame and the event loop with add_peer.  Every turn of the loop
\* begins with process_tx, so calls into the table cannot keep it away (SF); a slot that
\* waits for TX statuses gets them (or the 16 s of MESH_FRAG_STALE_MS pass).
TxFairness ==
  /\ \A r \in Readers : WF_txvars(TxStep(r))
  /\ \A p \in Records : WF_txvars(TxPublish(p)) /\ WF_txvars(TxFree(p))
  /\ SF_txvars(Sending)
  /\ \A i \in Slots : SF_txvars(TxStatus(i))
TxFairSpec == TxSpec /\ TxFairness

-----------------------------------------------------------------------------
(* The types. *)
Place == [addr : Addrs \cup {None}, slot : Slots]
Task  == [pc : {"idle", "find", "keyed", "first", "walk", "copy", "last", "wake", "end"},
          kind : {"uni", "ra", "group", "std"}, addr : Addrs \cup {None}, tries : 0 .. 1,
          slot : 0 .. MaxPeers, stad : Records \cup {None}, copy : Records \cup {None},
          meant : Addrs \cup {None}]
TxTypeOK ==
  /\ status \in [Records -> {"free", "new", "linked", "retired"}]
  /\ holds \in [Readers -> SUBSET Records]
  /\ peers \in [Slots -> Records \cup {None}] /\ estab \in [Slots -> BOOLEAN]
  /\ peer \in [Records -> Place]
  /\ queue \in [Records -> Nat] /\ queued \in Nat /\ pool \in 0 .. PoolSize
  /\ tx \in [Readers -> Task]
  /\ rr \in Slots /\ blocked \subseteq Slots
  /\ wake \in BOOLEAN /\ more \in BOOLEAN /\ burst \in 0 .. MaxBurst
  /\ stable \in [Readers -> SUBSET Records] /\ copies \in [Readers -> [Records -> Nat]]

\* "nothing lands in the queue once it is taken": only a record in the table has frames
\* queued, so no frame is lost with a record that is torn down or freed.
QueuesLive == \A p \in Records : queue[p] > 0 => InTable(p)

\* s_num_pkts_queued, which says whether process_tx is called again, is what is queued.
Pieces(f)    == UNION {{x} \X (1 .. f[x]) : x \in DOMAIN f}
QueuedFrames == Pieces(queue)
QueuedExact  == queued = Cardinality(QueuedFrames)

\* Every block of the pool is free, queued, or in one task's hands.
InHand(r) == CASE At(r, "copy") -> 2
               [] tx[r].pc \in {"idle", "wake", "end"} -> 0
               [] OTHER -> 1
TaskFrames == Pieces([r \in Readers |-> InHand(r)])
PoolConserved == pool + Cardinality(QueuedFrames) + Cardinality(TaskFrames) = PoolSize

\* "Before read_end it is not freed, so no new record can have its address": the record a
\* frame is queued to by pointer is the peer the lookup found, not a later one in its block.
SamePeer ==
  \A r \in Readers : (At(r, "last") \/ At(r, "walk")) /\ InTable(tx[r].stad) =>
    peer[tx[r].stad].addr = tx[r].meant

\* What holds of the queues, the pool and the tasks' pointers throughout.
TxInv == TxTypeOK /\ QueuedExact /\ PoolConserved /\ SamePeer /\ QueuesLive

\* A replicated group frame reaches every peer that was established from its first to its
\* last step exactly once, whatever peers come and go meanwhile, and no peer twice.
ReplicatedOnce ==
  \A r \in Readers :
    /\ \A p \in Records : copies[r][p] <= 1
    /\ tx[r].pc \in {"wake", "end"} => \A p \in stable[r] : copies[r][p] = 1

\* "so one busy link cannot starve another", and no wakeup is lost: a peer that has a frame
\* to send and no wait of its own is served again and again, whatever the others send.
NoStarvation ==
  \A i \in Slots : <>[]Ready(i) => []<><<Dequeue(i)>>_txvars
=============================================================================
