---------------------------- MODULE MeshTxProofs ----------------------------
(***************************************************************************)
(* The transmit path for any number of tasks, slots, records and kinds of  *)
(* frame: no frame lands on a record that left the table, none goes to     *)
(* another peer than the lookup found, and a replicated group frame goes   *)
(* to every lasting peer once.  And no block of the transmit pool is lost: *)
(* free, queued and in hand, they are the pool's throughout.               *)
(***************************************************************************)
EXTENDS MeshTx, FiniteSetTheorems, TLAPS

Shapes ==
  /\ status \in [Records -> {"free", "new", "linked", "retired"}]
  /\ holds \in [Readers -> SUBSET Records]
  /\ peers \in [Slots -> Records \cup {None}] /\ estab \in [Slots -> BOOLEAN]
  /\ peer = [p \in Records |-> peer[p]] /\ \A p \in Records : peer[p].slot \in Slots
  /\ tx = [r \in Readers |-> tx[r]]
  /\ queue \in [Records -> Nat]
  /\ stable \in [Readers -> SUBSET Records] /\ copies \in [Readers -> [Records -> Nat]]

\* A record in the table is linked and in its own slot; a new one has a slot kept for it.
Placed ==
  /\ \A i \in Slots : peers[i] # None => status[peers[i]] = "linked" /\ peer[peers[i]].slot = i
  /\ \A p \in Records : status[p] = "new" =>
       peers[peer[p].slot] = None /\ \A q \in Records : status[q] = "new" => q = p
HeldLive == \A r \in Readers : \A p \in holds[r] : status[p] \in {"linked", "retired"}

InPlace(p) == peers[peer[p].slot] = p /\ estab[peer[p].slot]

\* A task with frame t, the records h it has pointers to, the peers st established since its
\* frame began, and how often, cp, each record got the frame.
TaskOK(t, h, st, cp) ==
  /\ t.slot \in 0 .. MaxPeers
  /\ t.pc \in {"keyed", "walk", "copy", "last"} => t.stad \in h /\ peer[t.stad].addr = t.meant
  /\ t.pc = "copy" =>
       /\ t.copy \in h /\ t.copy # t.stad /\ t.slot \in Slots /\ peer[t.copy].slot = t.slot
       /\ \A p \in st : peer[p].slot = t.slot => p = t.copy
  /\ t.pc \in {"idle", "find", "keyed", "last", "end"} => st = {}
  /\ t.pc = "first" => \A p \in st : t.kind = "group" /\ peer[p].slot >= t.slot
  /\ t.pc \notin {"walk", "copy", "wake"} => \A p \in Records : cp[p] = 0
  /\ t.pc \in {"walk", "copy"} => \A p \in Records :
       /\ cp[p] \in {0, 1}
       /\ cp[p] = 1 => p \in h /\ p # t.stad /\ peer[p].slot < t.slot
       /\ p \in st /\ p # t.stad /\ peer[p].slot < t.slot => cp[p] = 1
  /\ t.pc = "wake" => \A p \in Records : cp[p] \in {0, 1} /\ (p \in st => cp[p] = 1)
  /\ \A p \in st : InPlace(p)
TasksOK == \A r \in Readers : TaskOK(tx[r], holds[r], stable[r], copies[r])

TxIInv == Shapes /\ Placed /\ HeldLive /\ QueuesLive /\ TasksOK

(***************************************************************************)
(* A task's step.                                                          *)
(***************************************************************************)
\* Whatever one task does with its own frame leaves the others' alone.
LEMMA OneTask ==
  ASSUME TxIInv, NEW r \in Readers, NEW f, NEW h \in SUBSET Records, NEW st \in SUBSET Records,
         NEW cp \in [Records -> Nat],
         UNCHANGED <<status, peers, estab, peer>>,
         tx' = [tx EXCEPT ![r] = f], holds' = [holds EXCEPT ![r] = h],
         stable' = [stable EXCEPT ![r] = st], copies' = [copies EXCEPT ![r] = cp],
         \A p \in h : status[p] \in {"linked", "retired"},
         queue' \in [Records -> Nat], \A p \in Records : queue'[p] > 0 => InTable(p),
         TaskOK(f, h, st, cp)
  PROVE  TxIInv'
<1>1. Shapes'
  BY DEF TxIInv, Shapes
<1>2. Placed'
  BY DEF TxIInv, Placed
<1>3. \A k \in Readers : holds'[k] = IF k = r THEN h ELSE holds[k]
  BY DEF TxIInv, Shapes
<1>4. HeldLive'
  BY <1>3 DEF TxIInv, HeldLive
<1>5. QueuesLive'
  BY DEF QueuesLive, InTable
<1>6. ASSUME NEW k \in Readers  PROVE TaskOK(tx[k], holds[k], stable[k], copies[k])'
  <2>1. CASE k = r
    <3>1. tx'[r] = f /\ holds'[r] = h /\ stable'[r] = st /\ copies'[r] = cp
      BY DEF TxIInv, Shapes
    <3>2. TaskOK(tx'[r], holds'[r], stable'[r], copies'[r])
      BY <3>1
    <3> QED  BY <2>1, <3>2 DEF TaskOK, InPlace
  <2>2. CASE k # r
    <3>1. tx'[k] = tx[k] /\ holds'[k] = holds[k] /\ stable'[k] = stable[k] /\ copies'[k] = copies[k]
      BY <2>2 DEF TxIInv, Shapes
    <3>2. TaskOK(tx'[k], holds'[k], stable'[k], copies'[k])
      BY <3>1 DEF TxIInv, TasksOK
    <3> QED  BY <3>2 DEF TaskOK, InPlace
  <2> QED  BY <2>1, <2>2
<1>7. TasksOK'
  BY <1>6 DEF TasksOK
<1> QED  BY <1>1, <1>2, <1>4, <1>5, <1>7 DEF TxIInv

\* What a task leaves as it is.
LEMMA AsBefore ==
  ASSUME TxIInv, NEW r \in Readers
  PROVE  /\ holds = [holds EXCEPT ![r] = holds[r]] /\ holds[r] \in SUBSET Records
         /\ stable = [stable EXCEPT ![r] = stable[r]] /\ stable[r] \in SUBSET Records
         /\ copies = [copies EXCEPT ![r] = copies[r]] /\ copies[r] \in [Records -> Nat]
         /\ queue \in [Records -> Nat] /\ \A p \in Records : queue[p] > 0 => InTable(p)
         /\ \A p \in holds[r] : status[p] \in {"linked", "retired"}
         /\ TaskOK(tx[r], holds[r], stable[r], copies[r])
BY DEF TxIInv, Shapes, QueuesLive, HeldLive, TasksOK

\* A step that only moves the frame along.
LEMMA FrameMoves ==
  ASSUME TxIInv, NEW r \in Readers, NEW f,
         UNCHANGED <<status, holds, peers, estab, peer, queue, stable, copies>>,
         tx' = [tx EXCEPT ![r] = f],
         TaskOK(f, holds[r], stable[r], copies[r])
  PROVE  TxIInv'
<1>1. /\ holds' = [holds EXCEPT ![r] = holds[r]] /\ stable' = [stable EXCEPT ![r] = stable[r]]
      /\ copies' = [copies EXCEPT ![r] = copies[r]]
  BY AsBefore
<1>2. queue' \in [Records -> Nat] /\ \A p \in Records : queue'[p] > 0 => InTable(p)
  BY AsBefore
<1> QED  BY <1>1, <1>2, AsBefore, OneTask

\* A record found in a slot is linked, and in the slot that is its own.
LEMMA FoundHere ==
  ASSUME TxIInv, NEW r \in Readers, tx[r].slot \in Slots, Here(r) # None
  PROVE  Here(r) \in Records /\ status[Here(r)] = "linked" /\ peer[Here(r)].slot = tx[r].slot
<1>1. Here(r) \in Records
  BY DEF Here, TxIInv, Shapes
<1>2. \A i \in Slots : peers[i] # None => status[peers[i]] = "linked" /\ peer[peers[i]].slot = i
  BY DEF TxIInv, Placed
<1>3. status[peers[tx[r].slot]] = "linked" /\ peer[peers[tx[r].slot]].slot = tx[r].slot
  BY <1>2 DEF Here
<1> QED  BY <1>1, <1>3 DEF Here

\* A load of a slot: the record there is held from now on.
LEMMA Loaded ==
  ASSUME TxIInv, NEW r \in Readers, tx[r].slot \in Slots, LoadAt(r)
  PROVE  /\ UNCHANGED status
         /\ \E h \in SUBSET Records :
              /\ holds' = [holds EXCEPT ![r] = h] /\ holds[r] \subseteq h
              /\ Here(r) # None => Here(r) \in h
              /\ \A p \in h : status[p] \in {"linked", "retired"}
<1>1. CASE Here(r) # None
  <2>1. Here(r) \in Records /\ status[Here(r)] = "linked"
    BY <1>1, FoundHere
  <2>2. holds' = [holds EXCEPT ![r] = holds[r] \cup {Here(r)}] /\ UNCHANGED status
    BY <1>1 DEF LoadAt, Hold
  <2>3. holds[r] \cup {Here(r)} \in SUBSET Records
    BY <2>1, AsBefore
  <2>4. \A p \in holds[r] \cup {Here(r)} : status[p] \in {"linked", "retired"}
    BY <2>1, AsBefore
  <2> DEFINE h == holds[r] \cup {Here(r)}
  <2>5. holds' = [holds EXCEPT ![r] = h] /\ holds[r] \subseteq h /\ (Here(r) # None => Here(r) \in h)
    BY <2>2
  <2> HIDE DEF h
  <2> QED  BY <2>2, <2>3, <2>4, <2>5 DEF h
<1>2. CASE Here(r) = None
  <2>1. UNCHANGED records
    BY <1>2 DEF LoadAt
  <2> QED  BY <1>2, <2>1, AsBefore DEF records
<1> QED  BY <1>1, <1>2

\* A load, and the frame moved along.
LEMMA LoadMoves ==
  ASSUME TxIInv, NEW r \in Readers, tx[r].slot \in Slots, LoadAt(r), NEW f, NEW st \in SUBSET Records,
         UNCHANGED <<peers, estab, peer, queue, copies>>,
         tx' = [tx EXCEPT ![r] = f], stable' = [stable EXCEPT ![r] = st],
         \A h \in SUBSET Records :
           holds[r] \subseteq h /\ (Here(r) # None => Here(r) \in h) => TaskOK(f, h, st, copies[r])
  PROVE  TxIInv'
<1>1. PICK h \in SUBSET Records :
        /\ holds' = [holds EXCEPT ![r] = h] /\ holds[r] \subseteq h
        /\ Here(r) # None => Here(r) \in h
        /\ \A p \in h : status[p] \in {"linked", "retired"}
  BY Loaded
<1>2. UNCHANGED status
  BY Loaded
<1>3. copies' = [copies EXCEPT ![r] = copies[r]] /\ copies[r] \in [Records -> Nat]
  BY AsBefore
<1>4. queue' \in [Records -> Nat] /\ \A p \in Records : queue'[p] > 0 => InTable(p)
  BY AsBefore
<1>5. TaskOK(f, h, st, copies[r])
  BY <1>1
<1>6. UNCHANGED <<status, peers, estab, peer>>
  BY <1>2
<1> QED  BY <1>1, <1>3, <1>4, <1>5, <1>6, OneTask

(***************************************************************************)
(* The steps of a task.                                                    *)
(***************************************************************************)
\* The frame of r, and what is known of it.
LEMMA Mine ==
  ASSUME TxIInv, NEW r \in Readers
  PROVE  /\ TaskOK(tx[r], holds[r], stable[r], copies[r])
         /\ stable[r] \in SUBSET Records /\ \A p \in stable[r] : peer[p].slot \in Slots
         /\ MaxPeers \in Nat \ {0} /\ Slots = 0 .. MaxPeers - 1
BY AsBefore, TxAssumption DEF TxIInv, Shapes, Slots

\* The order of the slots.
LEMMA SlotOrder ==
  \A i, j \in Slots : /\ i \in Nat /\ i + 1 \in 0 .. MaxPeers /\ j < MaxPeers /\ ~(j < 0)
                      /\ j >= i /\ j # i => j >= i + 1
                      /\ j < i + 1 /\ j # i => j < i
                      /\ j < i => j < i + 1
                      /\ i < i + 1
BY TxAssumption DEF Slots

\* Every record's slot is one of the table.
LEMMA RecordsSlot == ASSUME TxIInv, NEW p \in Records  PROVE peer[p].slot \in Slots
BY DEF TxIInv, Shapes

LEMMA BeginOK == ASSUME TxIInv, NEW r \in Readers, NEW kind, NEW a, TxBegin(r, kind, a)
                 PROVE  TxIInv'
<1> DEFINE f == [NoFrame EXCEPT !.pc = IF kind \in {"uni", "ra"} THEN "find" ELSE "first",
                                !.kind = kind,
                                !.addr = IF kind \in {"uni", "ra"} THEN a ELSE None,
                                !.tries = IF kind = "uni" THEN 1 ELSE 0]
           st == IF kind = "group" THEN {p \in Records : Established(p)} ELSE {}
<1>1. /\ tx' = [tx EXCEPT ![r] = f] /\ stable' = [stable EXCEPT ![r] = st]
      /\ UNCHANGED <<records, table, queue, queued, sender, copies>>
      /\ tx[r].pc = "idle"
  BY DEF TxBegin, Goto, At
<1>2. /\ f.pc = IF kind \in {"uni", "ra"} THEN "find" ELSE "first"
      /\ f.kind = kind /\ f.slot = 0
  BY DEF NoFrame
<1>3. \A p \in Records : copies[r][p] = 0
  BY <1>1, Mine DEF TaskOK
<1>4. \A p \in st : InPlace(p) /\ kind = "group" /\ peer[p].slot >= 0 /\ p \in Records
  <2>1. \A i \in Slots : peers[i] # None => peer[peers[i]].slot = i
    BY DEF TxIInv, Placed
  <2>2. \A p \in Records : p # None
    BY TxAssumption
  <2>3. \A p \in Records : Established(p) => InPlace(p)
    BY <2>1, <2>2 DEF Established, InPlace
  <2>4. \A p \in Records : peer[p].slot \in Slots
    BY DEF TxIInv, Shapes
  <2>5. \A i \in Slots : i >= 0
    BY TxAssumption DEF Slots
  <2> QED  BY <2>3, <2>4, <2>5
<1>5. kind # "group" => st = {}
  OBVIOUS
<1> HIDE DEF f, st
<1>6. TaskOK(f, holds[r], st, copies[r])
  BY <1>2, <1>3, <1>4, <1>5, Mine DEF TaskOK
<1>7. st \in SUBSET Records
  BY <1>4
<1>8. UNCHANGED <<status, peers, estab, peer>> /\ holds' = holds /\ copies' = copies /\ queue' = queue
  BY <1>1 DEF records, table
<1>9. holds' = [holds EXCEPT ![r] = holds[r]] /\ copies' = [copies EXCEPT ![r] = copies[r]]
  BY <1>8, AsBefore
<1>10. queue' \in [Records -> Nat] /\ \A p \in Records : queue'[p] > 0 => InTable(p)
  BY <1>8, AsBefore
<1> QED  BY <1>1, <1>6, <1>7, <1>8, <1>9, <1>10, AsBefore, OneTask

\* A lookup by address, which goes on at the next slot or ends at the record it found.
LEMMA FindOK == ASSUME TxIInv, NEW r \in Readers, Find(r)  PROVE TxIInv'
<1> DEFINE p == Here(r)
           f == IF p # None /\ peer[p].addr = tx[r].addr
                THEN (IF tx[r].kind = "ra" THEN [Found(p) EXCEPT !.pc = "keyed", !.addr = tx[r].addr]
                      ELSE [Found(p) EXCEPT !.pc = "last"])
                ELSE [tx[r] EXCEPT !.slot = @ + 1]
<1>1. tx[r].pc = "find" /\ tx[r].slot \in Slots /\ LoadAt(r)
  BY DEF Find, At
<1>2. tx' = [tx EXCEPT ![r] = f]
  BY DEF Find, Goto
<1>3. UNCHANGED <<peers, estab, peer, queue, copies, stable>>
  BY DEF Find, table, frames, ghosts
<1>4. stable[r] = {} /\ (\A q \in Records : copies[r][q] = 0)
  BY <1>1, Mine DEF TaskOK
<1>5. ASSUME NEW h \in SUBSET Records, p # None => p \in h
      PROVE  TaskOK(f, h, stable[r], copies[r])
  <2>1. CASE p # None /\ peer[p].addr = tx[r].addr
    <3>1. /\ f.pc \in {"keyed", "last"} /\ f.slot = 0 /\ f.stad = p /\ f.meant = peer[p].addr
      BY <2>1 DEF Found, NoFrame
    <3> HIDE DEF f, p
    <3> QED  BY <1>4, <1>5, <2>1, <3>1, Mine DEF TaskOK
  <2>2. CASE ~(p # None /\ peer[p].addr = tx[r].addr)
    <3>1. f.pc = "find" /\ f.slot = tx[r].slot + 1
      BY <1>1, <2>2
    <3> HIDE DEF f, p
    <3> QED  BY <1>1, <1>4, <3>1, Mine DEF TaskOK
  <2> QED  BY <2>1, <2>2
<1> HIDE DEF f
<1>6. stable' = [stable EXCEPT ![r] = stable[r]] /\ stable[r] \in SUBSET Records
  BY <1>3, AsBefore
<1> QED  BY <1>1, <1>2, <1>3, <1>5, <1>6, LoadMoves

\* The block of a dropped frame goes back; the task comes out with nothing to read.
LEMMA DropOK ==
  ASSUME TxIInv, NEW r \in Readers, Drop(r), UNCHANGED <<records, table, stable, copies>>,
         stable[r] = {}, \A p \in Records : copies[r][p] = 0
  PROVE  TxIInv'
<1> DEFINE f == [NoFrame EXCEPT !.pc = "end"]
<1>1. tx' = [tx EXCEPT ![r] = f] /\ queue' = queue
  BY DEF Drop, Goto
<1>2. f.pc = "end" /\ f.slot = 0
  BY DEF NoFrame
<1> HIDE DEF f
<1>3. TaskOK(f, holds[r], stable[r], copies[r])
  BY <1>2, Mine DEF TaskOK
<1>4. UNCHANGED <<status, holds, peers, estab, peer, queue, stable, copies>>
  BY <1>1 DEF records, table
<1> QED  BY <1>1, <1>3, <1>4, FrameMoves

LEMMA FindOtherOK == ASSUME TxIInv, NEW r \in Readers, NEW a, FindOther(r, a)  PROVE TxIInv'
<1> DEFINE f == [tx[r] EXCEPT !.addr = a, !.tries = 0, !.slot = 0]
<1>1. tx[r].pc = "find" /\ tx' = [tx EXCEPT ![r] = f]
  BY DEF FindOther, At, Goto
<1>2. f.pc = "find" /\ f.slot = 0
  BY <1>1, Mine DEF TaskOK
<1> HIDE DEF f
<1>3. TaskOK(f, holds[r], stable[r], copies[r])
  BY <1>1, <1>2, Mine DEF TaskOK
<1>4. UNCHANGED <<status, holds, peers, estab, peer, queue, stable, copies>>
  BY DEF FindOther, records, table, frames, ghosts
<1> QED  BY <1>1, <1>3, <1>4, FrameMoves

LEMMA FindNoneOK == ASSUME TxIInv, NEW r \in Readers, FindNone(r)  PROVE TxIInv'
<1>1. tx[r].pc = "find" /\ UNCHANGED <<records, table, stable, copies>>
  BY DEF FindNone, At, ghosts
<1>2. stable[r] = {} /\ \A p \in Records : copies[r][p] = 0
  BY <1>1, Mine DEF TaskOK
<1>3. CASE tx[r].kind = "uni" /\ Leaf
  <2> DEFINE f == [NoFrame EXCEPT !.pc = "first"]
  <2>1. tx' = [tx EXCEPT ![r] = f] /\ queue' = queue
    BY <1>3 DEF FindNone, Goto, frames
  <2>2. f.pc = "first" /\ f.slot = 0
    BY DEF NoFrame
  <2> HIDE DEF f
  <2>3. TaskOK(f, holds[r], stable[r], copies[r])
    BY <1>2, <2>2, Mine DEF TaskOK
  <2>4. UNCHANGED <<status, holds, peers, estab, peer, queue, stable, copies>>
    BY <1>1, <2>1 DEF records, table
  <2> QED  BY <2>1, <2>3, <2>4, FrameMoves
<1>4. CASE ~(tx[r].kind = "uni" /\ Leaf)
  <2>1. Drop(r)
    BY <1>4 DEF FindNone
  <2> QED  BY <1>1, <1>2, <2>1, DropOK
<1> QED  BY <1>3, <1>4

LEMMA KeyedOK == ASSUME TxIInv, NEW r \in Readers, Keyed(r)  PROVE TxIInv'
<1> DEFINE f == [tx[r] EXCEPT !.pc = "last", !.addr = None]
<1>1. tx[r].pc = "keyed" /\ UNCHANGED <<records, table, stable, copies>>
  BY DEF Keyed, At, ghosts
<1>2. stable[r] = {} /\ \A p \in Records : copies[r][p] = 0
  BY <1>1, Mine DEF TaskOK
<1>3. Drop(r) \/ (Goto(r, f) /\ UNCHANGED frames)
  BY DEF Keyed
<1>4. CASE Goto(r, f) /\ UNCHANGED frames
  <2>1. tx' = [tx EXCEPT ![r] = f] /\ queue' = queue
    BY <1>4 DEF Goto, frames
  <2>2. f.pc = "last" /\ f.slot = tx[r].slot /\ f.stad = tx[r].stad /\ f.meant = tx[r].meant
    BY <1>1, Mine DEF TaskOK
  <2> HIDE DEF f
  <2>3. TaskOK(f, holds[r], stable[r], copies[r])
    BY <1>1, <1>2, <2>2, Mine DEF TaskOK
  <2>4. UNCHANGED <<status, holds, peers, estab, peer, queue, stable, copies>>
    BY <1>1, <2>1 DEF records, table
  <2> QED  BY <2>1, <2>3, <2>4, FrameMoves
<1>5. CASE Drop(r)
  BY <1>1, <1>2, <1>5, DropOK
<1> QED  BY <1>3, <1>4, <1>5

\* A record established since the frame began is in its slot when the task looks there.
LEMMA StableHere ==
  ASSUME TxIInv, NEW r \in Readers, tx[r].slot \in Slots,
         NEW p \in stable[r], peer[p].slot = tx[r].slot
  PROVE  Here(r) = p /\ Here(r) # None /\ estab[tx[r].slot]
<1>1. InPlace(p) /\ p \in Records
  BY Mine DEF TaskOK
<1>2. p # None
  BY <1>1, TxAssumption
<1> QED  BY <1>1, <1>2 DEF InPlace, Here

LEMMA FirstPeerOK == ASSUME TxIInv, NEW r \in Readers, FirstPeer(r)  PROVE TxIInv'
<1> DEFINE p == Here(r)
           f == IF p # None /\ estab[tx[r].slot]
                THEN [Found(p) EXCEPT !.pc = IF tx[r].kind = "group" THEN "walk" ELSE "last"]
                ELSE [tx[r] EXCEPT !.slot = @ + 1]
<1>1. tx[r].pc = "first" /\ tx[r].slot \in Slots /\ LoadAt(r)
  BY DEF FirstPeer, At
<1>2. tx' = [tx EXCEPT ![r] = f]
  BY DEF FirstPeer, Goto
<1>3. UNCHANGED <<peers, estab, peer, queue, copies, stable>>
  BY DEF FirstPeer, table, frames, ghosts
<1>4. /\ \A q \in stable[r] : tx[r].kind = "group" /\ peer[q].slot >= tx[r].slot /\ InPlace(q)
      /\ \A q \in Records : copies[r][q] = 0
  BY <1>1, Mine DEF TaskOK
<1>5. ASSUME NEW h \in SUBSET Records, p # None => p \in h
      PROVE  TaskOK(f, h, stable[r], copies[r])
  <2>1. CASE p # None /\ estab[tx[r].slot]
    <3>1. /\ f.pc = IF tx[r].kind = "group" THEN "walk" ELSE "last"
          /\ f.slot = 0 /\ f.stad = p /\ f.meant = peer[p].addr
      BY <2>1 DEF Found, NoFrame
    <3>2. tx[r].kind # "group" => stable[r] = {}
      BY <1>4
    <3>3. \A q \in stable[r] : ~(peer[q].slot < 0) /\ q \in Records
      BY Mine, TxAssumption
    <3> HIDE DEF f, p
    <3>4. CASE tx[r].kind = "group"
      BY <1>4, <1>5, <2>1, <3>1, <3>3, <3>4, Mine DEF TaskOK
    <3>5. CASE tx[r].kind # "group"
      BY <1>4, <1>5, <2>1, <3>1, <3>2, <3>5, Mine DEF TaskOK
    <3> QED  BY <3>4, <3>5
  <2>2. CASE ~(p # None /\ estab[tx[r].slot])
    <3>1. f.pc = "first" /\ f.slot = tx[r].slot + 1 /\ f.kind = tx[r].kind
      BY <1>1, <2>2
    <3>2. \A q \in stable[r] : peer[q].slot # tx[r].slot
      BY <1>1, <2>2, StableHere
    <3>3. \A q \in stable[r] : peer[q].slot >= tx[r].slot + 1
      BY <1>1, <1>4, <3>2, Mine, SlotOrder
    <3> HIDE DEF f, p
    <3> QED  BY <1>1, <1>4, <3>1, <3>3, Mine DEF TaskOK
  <2> QED  BY <2>1, <2>2
<1> HIDE DEF f
<1>6. stable' = [stable EXCEPT ![r] = stable[r]] /\ stable[r] \in SUBSET Records
  BY <1>3, AsBefore
<1> QED  BY <1>1, <1>2, <1>3, <1>5, <1>6, LoadMoves

LEMMA NoPeerYetOK == ASSUME TxIInv, NEW r \in Readers, NoPeerYet(r)  PROVE TxIInv'
<1>1. tx[r].pc = "first" /\ tx[r].slot \notin Slots /\ Drop(r) /\ UNCHANGED <<records, table, stable, copies>>
  BY DEF NoPeerYet, At, ghosts
<1>2. /\ \A q \in stable[r] : peer[q].slot >= tx[r].slot
      /\ \A q \in Records : copies[r][q] = 0
  BY <1>1, Mine DEF TaskOK
<1>3. tx[r].slot = MaxPeers
  BY <1>1, Mine DEF TaskOK
<1>4. stable[r] = {}
  BY <1>2, <1>3, Mine
<1> QED  BY <1>1, <1>2, <1>4, DropOK

LEMMA WalkCopyOK == ASSUME TxIInv, NEW r \in Readers, WalkCopy(r)  PROVE TxIInv'
<1> DEFINE p == Here(r)
           f == [tx[r] EXCEPT !.pc = "copy", !.copy = Here(r)]
<1>1. tx[r].pc = "walk" /\ tx[r].slot \in Slots /\ LoadAt(r) /\ p # None /\ p # tx[r].stad
  BY DEF WalkCopy, At, Wants
<1>2. tx' = [tx EXCEPT ![r] = f]
  BY DEF WalkCopy, Goto
<1>3. UNCHANGED <<peers, estab, peer, queue, copies, stable>>
  BY DEF WalkCopy, table, frames, ghosts
<1>4. p \in Records /\ peer[p].slot = tx[r].slot
  BY <1>1, FoundHere
<1>5. \A q \in stable[r] : peer[q].slot = tx[r].slot => q = p
  BY <1>1, StableHere
<1>6. /\ f.pc = "copy" /\ f.copy = p /\ f.slot = tx[r].slot /\ f.stad = tx[r].stad
      /\ f.meant = tx[r].meant
  BY <1>1, Mine DEF TaskOK
<1>7. ASSUME NEW h \in SUBSET Records, holds[r] \subseteq h, p # None => p \in h
      PROVE  TaskOK(f, h, stable[r], copies[r])
  <2> HIDE DEF f, p
  <2> QED  BY <1>1, <1>4, <1>5, <1>6, <1>7, Mine DEF TaskOK
<1> HIDE DEF f
<1>8. stable' = [stable EXCEPT ![r] = stable[r]] /\ stable[r] \in SUBSET Records
  BY <1>3, AsBefore
<1> QED  BY <1>1, <1>2, <1>3, <1>7, <1>8, LoadMoves

LEMMA WalkSkipOK == ASSUME TxIInv, NEW r \in Readers, WalkSkip(r)  PROVE TxIInv'
<1> DEFINE p == Here(r)
           f == [tx[r] EXCEPT !.slot = @ + 1]
           st == IF Wants(r) THEN stable[r] \ {p} ELSE stable[r]
<1>1. tx[r].pc = "walk" /\ tx[r].slot \in Slots /\ LoadAt(r)
  BY DEF WalkSkip, At
<1>2. tx' = [tx EXCEPT ![r] = f] /\ stable' = [stable EXCEPT ![r] = st]
  BY DEF WalkSkip, Goto
<1>3. UNCHANGED <<peers, estab, peer, queue, copies>>
  BY DEF WalkSkip, table, frames, ghosts
<1>4. /\ f.pc = "walk" /\ f.slot = tx[r].slot + 1 /\ f.stad = tx[r].stad
      /\ f.meant = tx[r].meant
  BY <1>1, Mine DEF TaskOK
<1>5. st \subseteq stable[r]
  OBVIOUS
<1>6. \A q \in st : q # tx[r].stad => peer[q].slot # tx[r].slot
  <2>1. SUFFICES ASSUME NEW q \in st, q # tx[r].stad, peer[q].slot = tx[r].slot  PROVE FALSE
    OBVIOUS
  <2>2. p = q /\ p # None /\ estab[tx[r].slot]
    BY <1>1, <1>5, <2>1, StableHere
  <2>3. Wants(r)
    BY <2>1, <2>2 DEF Wants
  <2> QED  BY <2>1, <2>2, <2>3
<1> HIDE DEF f, st, p
<1>7. ASSUME NEW h \in SUBSET Records, holds[r] \subseteq h
      PROVE  TaskOK(f, h, st, copies[r])
  <2>1. f.slot \in 0 .. MaxPeers
    BY <1>1, <1>4, Mine DEF TaskOK
  <2>2. \A q \in Records :
          /\ copies[r][q] \in {0, 1}
          /\ copies[r][q] = 1 => q \in h /\ q # tx[r].stad /\ peer[q].slot < tx[r].slot + 1
          /\ q \in st /\ q # tx[r].stad /\ peer[q].slot < tx[r].slot + 1 => copies[r][q] = 1
    <3>1. ASSUME NEW q \in Records
          PROVE  /\ copies[r][q] \in {0, 1}
                 /\ copies[r][q] = 1 => q \in h /\ q # tx[r].stad /\ peer[q].slot < tx[r].slot
                 /\ q \in stable[r] /\ q # tx[r].stad /\ peer[q].slot < tx[r].slot => copies[r][q] = 1
      BY <1>1, <1>7, Mine DEF TaskOK
    <3>2. ASSUME NEW q \in Records
          PROVE  /\ peer[q].slot < tx[r].slot => peer[q].slot < tx[r].slot + 1
                 /\ peer[q].slot < tx[r].slot + 1 /\ peer[q].slot # tx[r].slot => peer[q].slot < tx[r].slot
      BY <1>1, RecordsSlot, SlotOrder
    <3> QED  BY <1>5, <1>6, <3>1, <3>2
  <2>3. tx[r].stad \in h /\ peer[tx[r].stad].addr = tx[r].meant
    BY <1>1, <1>7, Mine DEF TaskOK
  <2>4. \A q \in st : InPlace(q)
    BY <1>5, Mine DEF TaskOK
  <2> QED  BY <1>4, <2>1, <2>2, <2>3, <2>4 DEF TaskOK
<1>8. st \in SUBSET Records
  BY <1>5, Mine
<1> QED  BY <1>1, <1>2, <1>3, <1>7, <1>8, LoadMoves

\* A frame queued to a record in the table is one more for it; nothing else is queued.
LEMMA Queued ==
  ASSUME TxIInv, NEW r \in Readers, NEW p \in Records, QueueOne(r, p)
  PROVE  /\ queue' \in [Records -> Nat]
         /\ \A q \in Records : queue'[q] > 0 => InTable(q)
         /\ \E cp \in [Records -> Nat] :
              /\ copies' = [copies EXCEPT ![r] = cp]
              /\ \A q \in Records : q # p => cp[q] = copies[r][q]
              /\ cp[p] = IF InTable(p) THEN copies[r][p] + 1 ELSE copies[r][p]
<1>1. CASE InTable(p)
  <2> DEFINE cp == [copies[r] EXCEPT ![p] = @ + 1]
  <2>1. queue' = [queue EXCEPT ![p] = @ + 1] /\ copies' = [copies EXCEPT ![r] = cp]
    BY <1>1 DEF QueueOne
  <2>2. cp \in [Records -> Nat] /\ (\A q \in Records : q # p => cp[q] = copies[r][q])
        /\ cp[p] = copies[r][p] + 1
    BY AsBefore
  <2> HIDE DEF cp
  <2>3. \E c \in [Records -> Nat] :
          /\ copies' = [copies EXCEPT ![r] = c]
          /\ \A q \in Records : q # p => c[q] = copies[r][q]
          /\ c[p] = IF InTable(p) THEN copies[r][p] + 1 ELSE copies[r][p]
    BY <1>1, <2>1, <2>2
  <2>4. queue' \in [Records -> Nat] /\ \A q \in Records : q # p => queue'[q] = queue[q]
    BY <2>1, AsBefore
  <2>5. \A q \in Records : queue'[q] > 0 => InTable(q)
    BY <1>1, <2>4, AsBefore
  <2> QED  BY <2>3, <2>4, <2>5
<1>2. CASE ~InTable(p)
  <2>1. UNCHANGED <<queue, copies>>
    BY <1>2 DEF QueueOne
  <2> QED  BY <1>2, <2>1, AsBefore
<1> QED  BY <1>1, <1>2

LEMMA QueueCopyOK == ASSUME TxIInv, NEW r \in Readers, QueueCopy(r)  PROVE TxIInv'
<1> DEFINE f == [tx[r] EXCEPT !.pc = "walk", !.slot = @ + 1, !.copy = None]
           p == tx[r].copy
<1>1. tx[r].pc = "copy" /\ tx' = [tx EXCEPT ![r] = f] /\ QueueOne(r, p)
  BY DEF QueueCopy, At, Goto
<1>2. UNCHANGED <<status, holds, peers, estab, peer, stable>>
  BY DEF QueueCopy, records, table
<1>3. /\ p \in holds[r] /\ p # tx[r].stad /\ tx[r].slot \in Slots /\ peer[p].slot = tx[r].slot
      /\ \A q \in stable[r] : peer[q].slot = tx[r].slot => q = p
      /\ tx[r].stad \in holds[r] /\ peer[tx[r].stad].addr = tx[r].meant
      /\ \A q \in stable[r] : InPlace(q)
  BY <1>1, Mine DEF TaskOK
<1>4. /\ f.pc = "walk" /\ f.slot = tx[r].slot + 1 /\ f.stad = tx[r].stad
      /\ f.meant = tx[r].meant
  BY <1>1, Mine DEF TaskOK
<1>5. p \in Records
  BY <1>3, AsBefore
<1> HIDE DEF f, p
<1>6. PICK cp \in [Records -> Nat] :
        /\ copies' = [copies EXCEPT ![r] = cp]
        /\ \A q \in Records : q # p => cp[q] = copies[r][q]
        /\ cp[p] = IF InTable(p) THEN copies[r][p] + 1 ELSE copies[r][p]
  BY <1>1, <1>5, Queued
<1>7. ASSUME NEW q \in Records
      PROVE  /\ copies[r][q] \in {0, 1}
             /\ copies[r][q] = 1 => q \in holds[r] /\ q # tx[r].stad /\ peer[q].slot < tx[r].slot
             /\ q \in stable[r] /\ q # tx[r].stad /\ peer[q].slot < tx[r].slot => copies[r][q] = 1
  BY <1>1, Mine DEF TaskOK
<1>8. copies[r][p] = 0
  BY <1>3, <1>5, <1>7, SlotOrder
<1>9. p \in stable[r] => InTable(p)
  BY <1>3 DEF InPlace, InTable
<1>10. ASSUME NEW q \in Records
       PROVE  /\ cp[q] \in {0, 1}
              /\ cp[q] = 1 => q \in holds[r] /\ q # tx[r].stad /\ peer[q].slot < tx[r].slot + 1
              /\ q \in stable[r] /\ q # tx[r].stad /\ peer[q].slot < tx[r].slot + 1 => cp[q] = 1
  <2>1. CASE q = p
    BY <1>3, <1>6, <1>8, <1>9, <2>1, SlotOrder
  <2>2. CASE q # p
    <3>1. cp[q] = copies[r][q]
      BY <1>6, <2>2
    <3>2. /\ peer[q].slot < tx[r].slot => peer[q].slot < tx[r].slot + 1
          /\ peer[q].slot < tx[r].slot + 1 /\ peer[q].slot # tx[r].slot => peer[q].slot < tx[r].slot
      BY <1>3, RecordsSlot, SlotOrder
    <3> QED  BY <1>3, <1>7, <2>2, <3>1, <3>2
  <2> QED  BY <2>1, <2>2
<1>11. f.slot \in 0 .. MaxPeers
  BY <1>3, <1>4, SlotOrder
<1>12. TaskOK(f, holds[r], stable[r], cp)
  BY <1>3, <1>4, <1>10, <1>11 DEF TaskOK
<1>13. queue' \in [Records -> Nat] /\ \A q \in Records : queue'[q] > 0 => InTable(q)
  BY <1>1, <1>5, Queued
<1>14. holds' = [holds EXCEPT ![r] = holds[r]] /\ stable' = [stable EXCEPT ![r] = stable[r]]
  BY <1>2, AsBefore
<1>15. UNCHANGED <<status, peers, estab, peer>>
  BY <1>2
<1> QED  BY <1>1, <1>6, <1>12, <1>13, <1>14, <1>15, AsBefore, OneTask

LEMMA QueueLastOK == ASSUME TxIInv, NEW r \in Readers, QueueLast(r)  PROVE TxIInv'
<1> DEFINE f == [NoFrame EXCEPT !.pc = "wake"]
           p == tx[r].stad
<1>1. /\ tx[r].pc = "last" \/ (tx[r].pc = "walk" /\ tx[r].slot \notin Slots)
      /\ tx' = [tx EXCEPT ![r] = f] /\ QueueOne(r, p)
  BY DEF QueueLast, At, Goto
<1>2. UNCHANGED <<status, holds, peers, estab, peer, stable>>
  BY DEF QueueLast, records, table
<1>3. p \in holds[r] /\ \A q \in stable[r] : InPlace(q)
  BY <1>1, Mine DEF TaskOK
<1>4. f.pc = "wake" /\ f.slot = 0
  BY DEF NoFrame
<1>5. p \in Records
  BY <1>3, AsBefore
<1> HIDE DEF f, p
<1>6. PICK cp \in [Records -> Nat] :
        /\ copies' = [copies EXCEPT ![r] = cp]
        /\ \A q \in Records : q # p => cp[q] = copies[r][q]
        /\ cp[p] = IF InTable(p) THEN copies[r][p] + 1 ELSE copies[r][p]
  BY <1>1, <1>5, Queued
<1>7. p \in stable[r] => InTable(p)
  BY <1>3, <1>5, RecordsSlot DEF InPlace, InTable
<1>8. ASSUME NEW q \in Records  PROVE cp[q] \in {0, 1} /\ (q \in stable[r] => cp[q] = 1)
  <2>1. CASE tx[r].pc = "last"
    <3>1. stable[r] = {} /\ copies[r][q] = 0 /\ copies[r][p] = 0
      BY <1>5, <2>1, Mine DEF TaskOK
    <3> QED  BY <1>6, <3>1
  <2>2. CASE tx[r].pc = "walk" /\ tx[r].slot \notin Slots
    <3>1. tx[r].slot = MaxPeers
      BY <2>2, Mine DEF TaskOK
    <3>2. peer[q].slot < tx[r].slot
      BY <3>1, RecordsSlot, SlotOrder
    <3>3. /\ copies[r][q] \in {0, 1} /\ copies[r][p] \in {0, 1} /\ copies[r][p] # 1
          /\ q \in stable[r] /\ q # p => copies[r][q] = 1
      BY <1>5, <2>2, <3>2, Mine DEF TaskOK, p
    <3> QED  BY <1>6, <1>7, <3>3
  <2> QED  BY <1>1, <2>1, <2>2
<1>9. TaskOK(f, holds[r], stable[r], cp)
  BY <1>3, <1>4, <1>8, Mine DEF TaskOK
<1>10. queue' \in [Records -> Nat] /\ \A q \in Records : queue'[q] > 0 => InTable(q)
  BY <1>1, <1>5, Queued
<1>11. holds' = [holds EXCEPT ![r] = holds[r]] /\ stable' = [stable EXCEPT ![r] = stable[r]]
  BY <1>2, AsBefore
<1>12. UNCHANGED <<status, peers, estab, peer>>
  BY <1>2
<1> QED  BY <1>1, <1>6, <1>9, <1>10, <1>11, <1>12, AsBefore, OneTask

\* A frame that is done with leaves nothing behind.
LEMMA FrameEnds ==
  ASSUME TxIInv, NEW r \in Readers, NEW f, NEW h \in SUBSET Records, h \subseteq holds[r],
         f.pc = "idle" \/ f.pc = "end", f.slot = 0,
         UNCHANGED <<status, peers, estab, peer, queue>>,
         tx' = [tx EXCEPT ![r] = f], holds' = [holds EXCEPT ![r] = h],
         stable' = [stable EXCEPT ![r] = {}], copies' = [copies EXCEPT ![r] = NoCopies]
  PROVE  TxIInv'
<1>1. \A p \in Records : NoCopies[p] = 0
  BY DEF NoCopies
<1>2. NoCopies \in [Records -> Nat]
  BY DEF NoCopies
<1>3. {} \in SUBSET Records
  OBVIOUS
<1>4. TaskOK(f, h, {}, NoCopies)
  BY <1>1, Mine DEF TaskOK
<1>5. queue' \in [Records -> Nat] /\ \A p \in Records : queue'[p] > 0 => InTable(p)
  BY AsBefore
<1>6. \A p \in h : status[p] \in {"linked", "retired"}
  BY AsBefore
<1> QED  BY <1>2, <1>3, <1>4, <1>5, <1>6, OneTask

LEMMA TxWakeOK == ASSUME TxIInv, NEW r \in Readers, TxWake(r)  PROVE TxIInv'
<1> DEFINE f == [NoFrame EXCEPT !.pc = "end"]
<1>1. /\ tx' = [tx EXCEPT ![r] = f] /\ UNCHANGED <<status, holds, peers, estab, peer, queue>>
      /\ stable' = [stable EXCEPT ![r] = {}] /\ copies' = [copies EXCEPT ![r] = NoCopies]
  BY DEF TxWake, Goto, Forget, records, table, frames
<1>2. f.pc = "end" /\ f.slot = 0
  BY DEF NoFrame
<1> HIDE DEF f
<1>3. holds' = [holds EXCEPT ![r] = holds[r]] /\ holds[r] \in SUBSET Records
  BY <1>1, AsBefore
<1>4. UNCHANGED <<status, peers, estab, peer, queue>> /\ (f.pc = "idle" \/ f.pc = "end")
  BY <1>1, <1>2
<1> QED  BY <1>1, <1>2, <1>3, <1>4, FrameEnds

LEMMA TxEndOK == ASSUME TxIInv, NEW r \in Readers, TxEnd(r)  PROVE TxIInv'
<1>1. /\ tx' = [tx EXCEPT ![r] = NoFrame] /\ holds' = [holds EXCEPT ![r] = {}]
      /\ stable' = [stable EXCEPT ![r] = {}] /\ copies' = [copies EXCEPT ![r] = NoCopies]
      /\ UNCHANGED <<status, peers, estab, peer, queue>>
  BY DEF TxEnd, Goto, Leave, Forget, table, frames
<1>2. (NoFrame.pc = "idle" \/ NoFrame.pc = "end") /\ NoFrame.slot = 0
  BY DEF NoFrame
<1>3. {} \in SUBSET Records /\ {} \subseteq holds[r]
  OBVIOUS
<1>4. UNCHANGED <<status, peers, estab, peer, queue>>
  BY <1>1
<1> QED  BY <1>1, <1>2, <1>3, <1>4, FrameEnds

(***************************************************************************)
(* The event loop's steps.                                                 *)
(***************************************************************************)
\* The table changes under the tasks, but not the records they hold.
LEMMA TasksKept ==
  ASSUME TxIInv, UNCHANGED <<tx, holds, copies>>, stable' \in [Readers -> SUBSET Records],
         \A r \in Readers : \A p \in holds[r] : peer'[p] = peer[p],
         \A r \in Readers : \A p \in stable'[r] :
           p \in stable[r] /\ peer'[p] = peer[p] /\ peers'[peer[p].slot] = p /\ estab'[peer[p].slot]
  PROVE  TasksOK'
<1>1. ASSUME NEW r \in Readers  PROVE TaskOK(tx[r], holds[r], stable[r], copies[r])'
  <2>1. TaskOK(tx[r], holds[r], stable[r], copies[r])
    BY Mine
  <2>2. \A p \in holds[r] : peer'[p] = peer[p]
    OBVIOUS
  <2>3. \A p \in stable'[r] : p \in stable[r] /\ peer'[p] = peer[p] /\ peers'[peer'[p].slot] = p
                              /\ estab'[peer'[p].slot]
    OBVIOUS
  <2>4. tx'[r] = tx[r] /\ holds'[r] = holds[r] /\ copies'[r] = copies[r]
    OBVIOUS
  <2> DEFINE t == tx[r]
             h == holds[r]
             st == stable'[r]
             cp == copies[r]
  <2>5. /\ t.slot \in 0 .. MaxPeers
        /\ t.pc \in {"keyed", "walk", "copy", "last"} => t.stad \in h /\ peer'[t.stad].addr = t.meant
        /\ t.pc = "copy" =>
             /\ t.copy \in h /\ t.copy # t.stad /\ t.slot \in Slots /\ peer'[t.copy].slot = t.slot
             /\ \A p \in st : peer'[p].slot = t.slot => p = t.copy
    BY <2>1, <2>2, <2>3 DEF TaskOK
  <2>6. /\ t.pc \in {"idle", "find", "keyed", "last", "end"} => st = {}
        /\ t.pc = "first" => \A p \in st : t.kind = "group" /\ peer'[p].slot >= t.slot
    BY <2>1, <2>3 DEF TaskOK
  <2>7. /\ t.pc \notin {"walk", "copy", "wake"} => \A p \in Records : cp[p] = 0
        /\ t.pc = "wake" => \A p \in Records : cp[p] \in {0, 1} /\ (p \in st => cp[p] = 1)
    BY <2>1, <2>3 DEF TaskOK
  <2>8. t.pc \in {"walk", "copy"} => \A p \in Records :
          /\ cp[p] \in {0, 1}
          /\ cp[p] = 1 => p \in h /\ p # t.stad /\ peer'[p].slot < t.slot
          /\ p \in st /\ p # t.stad /\ peer'[p].slot < t.slot => cp[p] = 1
    BY <2>1, <2>2, <2>3 DEF TaskOK
  <2> QED  BY <2>3, <2>4, <2>5, <2>6, <2>7, <2>8 DEF TaskOK, InPlace
<1> QED  BY <1>1 DEF TasksOK

\* What is stable is in its place and in the table; what is held is not free.
LEMMA StableInPlace ==
  ASSUME TxIInv, NEW r \in Readers, NEW p \in stable[r]
  PROVE  /\ p \in Records /\ p # None /\ peer[p].slot \in Slots
         /\ peers[peer[p].slot] = p /\ estab[peer[p].slot] /\ status[p] = "linked"
<1>1. p \in Records /\ InPlace(p) /\ peer[p].slot \in Slots
  BY Mine DEF TaskOK
<1>2. p # None
  BY <1>1, TxAssumption
<1>3. \A i \in Slots : peers[i] # None => status[peers[i]] = "linked"
  BY DEF TxIInv, Placed
<1> QED  BY <1>1, <1>2, <1>3 DEF InPlace

\* A step that leaves tasks and table alone may take frames out of queues.
LEMMA TableKept ==
  ASSUME TxIInv, UNCHANGED <<status, holds, peers, estab, peer, tx, stable, copies>>,
         queue' \in [Records -> Nat], \A p \in Records : queue'[p] > 0 => InTable(p)
  PROVE  TxIInv'
<1>1. Shapes'
  BY DEF TxIInv, Shapes
<1>2. Placed'
  BY DEF TxIInv, Placed
<1>3. HeldLive'
  BY DEF TxIInv, HeldLive
<1>4. QueuesLive'
  BY DEF QueuesLive, InTable
<1>5. TasksOK'
  BY DEF TxIInv, TasksOK, TaskOK, InPlace
<1> QED  BY <1>1, <1>2, <1>3, <1>4, <1>5 DEF TxIInv

LEMMA AllocOK == ASSUME TxIInv, NEW a, NEW p \in Records, TxAlloc(a, p)  PROVE TxIInv'
<1>1. PICK i \in Slots : i \in FreeSlots /\ peer' = [peer EXCEPT ![p] = [addr |-> a, slot |-> i]]
  BY DEF TxAlloc, IsFirst
<1>2. /\ UNCHANGED <<peers, estab, queue, tx, stable, copies, holds>>
      /\ status[p] = "free" /\ status' = [status EXCEPT ![p] = "new"]
      /\ \A q \in Records : status[q] # "new"
  BY DEF TxAlloc, LoopIdle, Alloc, Move, frames, ghosts
<1>3. peers[i] = None
  BY <1>1 DEF FreeSlots
<1>4. /\ peer = [q \in Records |-> peer[q]] /\ \A q \in Records : peer[q].slot \in Slots
      /\ status \in [Records -> {"free", "new", "linked", "retired"}]
      /\ peers \in [Slots -> Records \cup {None}]
  BY DEF TxIInv, Shapes
<1>5. /\ \A q \in Records : q # p => peer'[q] = peer[q] /\ status'[q] = status[q]
      /\ peer'[p].slot = i /\ status'[p] = "new"
  BY <1>1, <1>2, <1>4
<1>6. Shapes'
  <2>1. peer' = [q \in Records |-> peer'[q]] /\ \A q \in Records : peer'[q].slot \in Slots
    BY <1>1, <1>4, <1>5
  <2>2. status' \in [Records -> {"free", "new", "linked", "retired"}]
    BY <1>2, <1>4
  <2> QED  BY <1>2, <2>1, <2>2 DEF TxIInv, Shapes
<1>7. Placed'
  <2>1. \A j \in Slots : peers[j] # None => status[peers[j]] = "linked" /\ peer[peers[j]].slot = j
    BY DEF TxIInv, Placed
  <2>2. \A j \in Slots : peers[j] # None =>
          status'[peers[j]] = "linked" /\ peer'[peers[j]].slot = j
    <3>1. ASSUME NEW j \in Slots, peers[j] # None
          PROVE  status'[peers[j]] = "linked" /\ peer'[peers[j]].slot = j
      <4>1. peers[j] \in Records
        BY <1>4, <3>1
      <4>2. status[peers[j]] = "linked" /\ peer[peers[j]].slot = j
        BY <2>1, <3>1
      <4>3. peers[j] # p
        BY <1>2, <4>2
      <4> QED  BY <1>5, <4>1, <4>2, <4>3
    <3> QED  BY <3>1
  <2>3. \A q \in Records : status'[q] = "new" => q = p
    BY <1>2, <1>5
  <2> QED  BY <1>2, <1>3, <1>5, <2>2, <2>3 DEF Placed
<1>8. HeldLive'
  BY <1>2, <1>5 DEF TxIInv, Shapes, HeldLive
<1>9. QueuesLive'
  BY <1>2 DEF TxIInv, QueuesLive, InTable
<1>10. TasksOK'
  <2>1. \A r \in Readers : \A q \in holds[r] : peer'[q] = peer[q]
    BY <1>2, <1>5, AsBefore
  <2>2. \A r \in Readers : \A q \in stable'[r] :
          q \in stable[r] /\ peer'[q] = peer[q] /\ peers'[peer[q].slot] = q /\ estab'[peer[q].slot]
    BY <1>2, <1>5, StableInPlace
  <2>3. stable' \in [Readers -> SUBSET Records]
    BY <1>2 DEF TxIInv, Shapes
  <2> QED  BY <1>2, <2>1, <2>2, <2>3, TasksKept
<1> QED  BY <1>6, <1>7, <1>8, <1>9, <1>10 DEF TxIInv

LEMMA PublishOK == ASSUME TxIInv, NEW p \in Records, TxPublish(p)  PROVE TxIInv'
<1> DEFINE i == peer[p].slot
<1>1. /\ UNCHANGED <<peer, queue, tx, stable, copies, holds>>
      /\ status[p] = "new" /\ status' = [status EXCEPT ![p] = "linked"]
      /\ peers' = [peers EXCEPT ![i] = p] /\ estab' = [estab EXCEPT ![i] = ~Sae]
  BY DEF TxPublish, Publish, Move, frames, ghosts
<1>2. /\ i \in Slots /\ p # None
      /\ status \in [Records -> {"free", "new", "linked", "retired"}]
      /\ peers \in [Slots -> Records \cup {None}] /\ estab \in [Slots -> BOOLEAN]
  BY TxAssumption DEF TxIInv, Shapes
<1>3. peers[i] = None /\ \A q \in Records : status[q] = "new" => q = p
  BY <1>1 DEF TxIInv, Placed
<1>4. \A j \in Slots : peers[j] # None => status[peers[j]] = "linked" /\ peer[peers[j]].slot = j
  BY DEF TxIInv, Placed
<1> HIDE DEF i
<1>5. /\ \A q \in Records : q # p => status'[q] = status[q]
      /\ status'[p] = "linked" /\ peers'[i] = p
      /\ \A j \in Slots : j # i => peers'[j] = peers[j] /\ estab'[j] = estab[j]
  BY <1>1, <1>2
<1>6. Shapes'
  <2>1. Sae \in BOOLEAN
    BY TxAssumption
  <2>2. peers' \in [Slots -> Records \cup {None}] /\ status' \in [Records -> {"free", "new", "linked", "retired"}]
    BY <1>1, <1>2
  <2>3. estab' \in [Slots -> BOOLEAN]
    BY <1>1, <1>2, <2>1
  <2> QED  BY <1>1, <2>2, <2>3 DEF TxIInv, Shapes
<1>7. Placed'
  <2>1. \A j \in Slots : peers'[j] # None =>
          status'[peers'[j]] = "linked" /\ peer[peers'[j]].slot = j
    <3>1. peer[p].slot = i
      BY DEF i
    <3> QED  BY <1>1, <1>2, <1>4, <1>5, <3>1
  <2>2. \A q \in Records : status'[q] # "new"
    BY <1>3, <1>5
  <2> QED  BY <1>1, <2>1, <2>2 DEF Placed
<1>8. HeldLive'
  BY <1>1, <1>5 DEF TxIInv, Shapes, HeldLive
<1>9. QueuesLive'
  <2>1. ASSUME NEW q \in Records, queue[q] > 0  PROVE \E j \in Slots : peers'[j] = q
    <3>1. PICK j \in Slots : peers[j] = q
      BY <2>1 DEF TxIInv, QueuesLive, InTable
    <3>2. q # None
      BY TxAssumption
    <3> QED  BY <1>3, <1>5, <3>1, <3>2
  <2> QED  BY <1>1, <2>1 DEF QueuesLive, InTable
<1>10. TasksOK'
  <2>1. \A r \in Readers : \A q \in stable'[r] :
          q \in stable[r] /\ peer'[q] = peer[q] /\ peers'[peer[q].slot] = q /\ estab'[peer[q].slot]
    BY <1>1, <1>3, <1>5, StableInPlace
  <2>2. stable' \in [Readers -> SUBSET Records]
    BY <1>1 DEF TxIInv, Shapes
  <2>3. \A r \in Readers : \A q \in holds[r] : peer'[q] = peer[q]
    BY <1>1
  <2>4. UNCHANGED <<tx, holds, copies>>
    BY <1>1
  <2> QED  BY <2>1, <2>2, <2>3, <2>4, TasksKept
<1> QED  BY <1>6, <1>7, <1>8, <1>9, <1>10 DEF TxIInv

LEMMA KeyOK == ASSUME TxIInv, NEW i \in Slots, TxKey(i)  PROVE TxIInv'
<1>1. /\ UNCHANGED <<status, holds, peers, peer, queue, tx, stable, copies>>
      /\ estab' = [estab EXCEPT ![i] = TRUE]
  BY DEF TxKey, records, frames, ghosts
<1>2. estab \in [Slots -> BOOLEAN]
  BY DEF TxIInv, Shapes
<1>3. estab' \in [Slots -> BOOLEAN] /\ \A j \in Slots : estab[j] => estab'[j]
  BY <1>1, <1>2
<1>4. Shapes'
  BY <1>1, <1>3 DEF TxIInv, Shapes
<1>5. Placed' /\ HeldLive'
  BY <1>1 DEF TxIInv, Placed, HeldLive
<1>6. QueuesLive'
  BY <1>1 DEF TxIInv, QueuesLive, InTable
<1>7. TasksOK'
  <2>1. \A r \in Readers : \A q \in stable'[r] :
          q \in stable[r] /\ peer'[q] = peer[q] /\ peers'[peer[q].slot] = q /\ estab'[peer[q].slot]
    BY <1>1, <1>3, StableInPlace
  <2>2. stable' \in [Readers -> SUBSET Records]
    BY <1>1 DEF TxIInv, Shapes
  <2>3. \A r \in Readers : \A q \in holds[r] : peer'[q] = peer[q]
    BY <1>1
  <2>4. UNCHANGED <<tx, holds, copies>>
    BY <1>1
  <2> QED  BY <2>1, <2>2, <2>3, <2>4, TasksKept
<1> QED  BY <1>4, <1>5, <1>6, <1>7 DEF TxIInv

LEMMA UnlinkOK == ASSUME TxIInv, NEW i \in Slots, TxUnlink(i)  PROVE TxIInv'
<1> DEFINE p == peers[i]
<1>1. /\ UNCHANGED <<estab, peer, tx, copies, holds>>
      /\ p # None /\ status' = [status EXCEPT ![p] = "retired"]
      /\ peers' = [peers EXCEPT ![i] = None] /\ queue' = [queue EXCEPT ![p] = 0]
      /\ stable' = [r \in Readers |-> stable[r] \ {p}]
  BY DEF TxUnlink, Unlink, Move
<1>2. /\ p \in Records /\ None \notin Records
      /\ status \in [Records -> {"free", "new", "linked", "retired"}]
      /\ peers \in [Slots -> Records \cup {None}] /\ queue \in [Records -> Nat]
      /\ stable \in [Readers -> SUBSET Records]
  BY <1>1, TxAssumption DEF TxIInv, Shapes
<1>3. \A j \in Slots : peers[j] # None => status[peers[j]] = "linked" /\ peer[peers[j]].slot = j
  BY DEF TxIInv, Placed
<1>4. \A j \in Slots : peers[j] = p => j = i
  BY <1>1, <1>3
<1> HIDE DEF p
<1>5. /\ \A q \in Records : q # p => status'[q] = status[q] /\ queue'[q] = queue[q]
      /\ status'[p] = "retired" /\ queue'[p] = 0 /\ peers'[i] = None
      /\ \A j \in Slots : j # i => peers'[j] = peers[j]
  BY <1>1, <1>2
<1>6. peers[i] = p
  BY DEF p
<1>7. Shapes'
  <2>1. /\ peers' \in [Slots -> Records \cup {None}] /\ queue' \in [Records -> Nat]
        /\ status' \in [Records -> {"free", "new", "linked", "retired"}]
    BY <1>1, <1>2
  <2>2. stable' \in [Readers -> SUBSET Records]
    BY <1>1, <1>2
  <2> QED  BY <1>1, <2>1, <2>2 DEF TxIInv, Shapes
<1>8. Placed'
  <2>1. \A j \in Slots : peers'[j] # None =>
          status'[peers'[j]] = "linked" /\ peer[peers'[j]].slot = j
    BY <1>2, <1>3, <1>4, <1>5
  <2>2. ASSUME NEW q \in Records, status'[q] = "new"
        PROVE  peers'[peer[q].slot] = None /\ \A o \in Records : status'[o] = "new" => o = q
    <3>1. status[q] = "new" /\ \A o \in Records : status'[o] = "new" => status[o] = "new"
      BY <1>5, <2>2
    <3>2. peers[peer[q].slot] = None /\ \A o \in Records : status[o] = "new" => o = q
      BY <3>1 DEF TxIInv, Placed
    <3> QED  BY <1>5, <3>1, <3>2, RecordsSlot
  <2> QED  BY <1>1, <2>1, <2>2 DEF Placed
<1>9. HeldLive'
  BY <1>1, <1>5 DEF TxIInv, Shapes, HeldLive
<1>10. QueuesLive'
  <2>1. ASSUME NEW q \in Records, queue'[q] > 0  PROVE \E j \in Slots : peers'[j] = q
    <3>1. q # p /\ queue[q] > 0
      BY <1>5, <2>1
    <3>2. PICK j \in Slots : peers[j] = q
      BY <3>1 DEF TxIInv, QueuesLive, InTable
    <3> QED  BY <1>5, <1>6, <3>1, <3>2
  <2> QED  BY <2>1 DEF QueuesLive, InTable
<1>11. TasksOK'
  <2>1. \A r \in Readers : \A q \in stable'[r] :
          q \in stable[r] /\ peer'[q] = peer[q] /\ peers'[peer[q].slot] = q /\ estab'[peer[q].slot]
    <3>1. SUFFICES ASSUME NEW r \in Readers, NEW q \in stable'[r]
                   PROVE  q \in stable[r] /\ peers'[peer[q].slot] = q /\ estab[peer[q].slot]
      BY <1>1
    <3>2. q \in stable[r] /\ q # p
      BY <1>1, <1>2
    <3> QED  BY <1>5, <1>6, <3>2, StableInPlace
  <2>2. stable' \in [Readers -> SUBSET Records]
    BY <1>1, <1>2
  <2>3. \A r \in Readers : \A q \in holds[r] : peer'[q] = peer[q]
    BY <1>1
  <2>4. UNCHANGED <<tx, holds, copies>>
    BY <1>1
  <2> QED  BY <2>1, <2>2, <2>3, <2>4, TasksKept
<1> QED  BY <1>7, <1>8, <1>9, <1>10, <1>11 DEF TxIInv

LEMMA FreeOK == ASSUME TxIInv, NEW p \in Records, TxFree(p)  PROVE TxIInv'
<1>1. /\ UNCHANGED <<peers, estab, queue, tx, stable, copies, holds>>
      /\ status[p] = "retired" /\ status' = [status EXCEPT ![p] = "free"]
      /\ peer' = [peer EXCEPT ![p] = NoPeer] /\ ~Held(p)
  BY DEF TxFree, Free, Move, frames, ghosts
<1>2. /\ peer = [q \in Records |-> peer[q]] /\ \A q \in Records : peer[q].slot \in Slots
      /\ status \in [Records -> {"free", "new", "linked", "retired"}]
      /\ peers \in [Slots -> Records \cup {None}]
  BY DEF TxIInv, Shapes
<1>3. NoPeer.slot = 0 /\ 0 \in Slots
  BY TxAssumption DEF NoPeer, Slots
<1>4. /\ \A q \in Records : q # p => peer'[q] = peer[q] /\ status'[q] = status[q]
      /\ peer'[p].slot = 0 /\ status'[p] = "free"
  BY <1>1, <1>2, <1>3
<1>5. \A r \in Readers : p \notin holds[r]
  BY <1>1 DEF Held
<1>6. Shapes'
  <2>1. peer' = [q \in Records |-> peer'[q]] /\ \A q \in Records : peer'[q].slot \in Slots
    BY <1>1, <1>2, <1>3, <1>4
  <2>2. status' \in [Records -> {"free", "new", "linked", "retired"}]
    BY <1>1, <1>2
  <2> QED  BY <1>1, <2>1, <2>2 DEF TxIInv, Shapes
<1>7. Placed'
  <2>1. \A j \in Slots : peers[j] # None => status[peers[j]] = "linked" /\ peer[peers[j]].slot = j
    BY DEF TxIInv, Placed
  <2>2. \A j \in Slots : peers[j] # None =>
          status'[peers[j]] = "linked" /\ peer'[peers[j]].slot = j
    BY <1>1, <1>2, <1>4, <2>1
  <2>3. ASSUME NEW q \in Records, status'[q] = "new"
        PROVE  peers[peer'[q].slot] = None /\ \A o \in Records : status'[o] = "new" => o = q
    <3>1. status[q] = "new" /\ peer'[q] = peer[q] /\ \A o \in Records : status'[o] = "new" => status[o] = "new"
      BY <1>4, <2>3
    <3>2. peers[peer[q].slot] = None /\ \A o \in Records : status[o] = "new" => o = q
      BY <3>1 DEF TxIInv, Placed
    <3> QED  BY <3>1, <3>2
  <2> QED  BY <1>1, <2>2, <2>3 DEF Placed
<1>8. HeldLive'
  BY <1>1, <1>4, <1>5 DEF TxIInv, Shapes, HeldLive
<1>9. QueuesLive'
  BY <1>1 DEF TxIInv, QueuesLive, InTable
<1>10. TasksOK'
  <2>1. \A r \in Readers : \A q \in holds[r] : peer'[q] = peer[q]
    BY <1>4, <1>5, AsBefore
  <2>2. \A r \in Readers : \A q \in stable'[r] :
          q \in stable[r] /\ peer'[q] = peer[q] /\ peers'[peer[q].slot] = q /\ estab'[peer[q].slot]
    BY <1>1, <1>4, StableInPlace
  <2>3. stable' \in [Readers -> SUBSET Records]
    BY <1>1 DEF TxIInv, Shapes
  <2>4. UNCHANGED <<tx, holds, copies>>
    BY <1>1
  <2> QED  BY <2>1, <2>2, <2>3, <2>4, TasksKept
<1> QED  BY <1>6, <1>7, <1>8, <1>9, <1>10 DEF TxIInv

LEMMA SendingOK == ASSUME TxIInv, Sending \/ \E i \in Slots : TxStatus(i)  PROVE TxIInv'
<1>1. CASE ProcessTx \/ ProcessNone \/ \E i \in Slots : TxStatus(i)
  <2>1. UNCHANGED <<records, table, frames, tx, ghosts>>
    BY <1>1 DEF ProcessTx, ProcessNone, TxStatus
  <2>2. UNCHANGED <<status, holds, peers, estab, peer, tx, stable, copies>> /\ queue' = queue
    BY <2>1 DEF records, table, frames, ghosts
  <2>3. queue' \in [Records -> Nat] /\ \A p \in Records : queue'[p] > 0 => InTable(p)
    BY <2>2 DEF TxIInv, Shapes, QueuesLive
  <2>4. UNCHANGED <<status, holds, peers, estab, peer, tx, stable, copies>>
    BY <2>2
  <2> QED  BY <2>3, <2>4, TableKept
<1>2. ASSUME NEW i \in Slots, Dequeue(i)  PROVE TxIInv'
  <2>1. /\ UNCHANGED <<status, holds, peers, estab, peer, tx, stable, copies>>
        /\ queue' = [queue EXCEPT ![peers[i]] = @ - 1]
        /\ peers[i] # None /\ queue[peers[i]] > 0
    BY <1>2 DEF Dequeue, NextUp, Ready, records, table, ghosts
  <2>2. peers[i] \in Records /\ queue \in [Records -> Nat]
    BY <2>1 DEF TxIInv, Shapes
  <2>3. queue' \in [Records -> Nat] /\ \A p \in Records : queue'[p] > 0 => queue[p] > 0
    BY <2>1, <2>2
  <2>4. \A p \in Records : queue'[p] > 0 => InTable(p)
    BY <2>3 DEF TxIInv, QueuesLive
  <2>5. UNCHANGED <<status, holds, peers, estab, peer, tx, stable, copies>>
    BY <2>1
  <2> QED  BY <2>3, <2>4, <2>5, TableKept
<1> QED  BY <1>1, <1>2 DEF Sending

(***************************************************************************)
(* The invariant, and what it says.                                        *)
(***************************************************************************)
LEMMA StartsRight == ASSUME TxInit  PROVE TxIInv
<1>1. /\ status = [p \in Records |-> "free"] /\ holds = [r \in Readers |-> {}]
      /\ peers = [i \in Slots |-> None] /\ estab = [i \in Slots |-> FALSE]
      /\ peer = [p \in Records |-> NoPeer] /\ queue = [p \in Records |-> 0]
      /\ tx = [r \in Readers |-> NoFrame] /\ stable = [r \in Readers |-> {}]
      /\ copies = [r \in Readers |-> NoCopies]
  BY DEF TxInit, Init
<1>2. NoPeer.slot \in Slots /\ NoFrame.pc = "idle" /\ NoFrame.slot = 0 /\ 0 \in 0 .. MaxPeers
  BY TxAssumption DEF NoPeer, NoFrame, Slots
<1>3. NoCopies \in [Records -> Nat] /\ \A p \in Records : NoCopies[p] = 0
  BY DEF NoCopies
<1>4. Shapes
  BY <1>1, <1>2, <1>3 DEF Shapes
<1>5. Placed /\ HeldLive /\ QueuesLive
  BY <1>1 DEF Placed, HeldLive, QueuesLive
<1>6. \A r \in Readers : TaskOK(NoFrame, {}, {}, NoCopies)
  BY <1>2, <1>3 DEF TaskOK
<1>7. TasksOK
  BY <1>1, <1>6 DEF TasksOK
<1> QED  BY <1>4, <1>5, <1>7 DEF TxIInv

LEMMA StepKeeps == ASSUME TxIInv, [TxNext]_txvars  PROVE TxIInv'
<1>1. ASSUME NEW r \in Readers, TxStart(r) \/ TxStep(r)  PROVE TxIInv'
  BY <1>1, BeginOK, FindOK, FindOtherOK, FindNoneOK, KeyedOK, FirstPeerOK, NoPeerYetOK,
     WalkCopyOK, WalkSkipOK, QueueCopyOK, QueueLastOK, TxWakeOK, TxEndOK DEF TxStart, TxStep
<1>2. ASSUME Calls  PROVE TxIInv'
  BY <1>2, AllocOK, PublishOK, FreeOK, KeyOK, UnlinkOK DEF Calls
<1>3. ASSUME UNCHANGED txvars  PROVE TxIInv'
  <2>1. UNCHANGED <<status, holds, peers, estab, peer, tx, stable, copies>> /\ queue' = queue
    BY <1>3 DEF txvars, records, table, frames, ghosts
  <2>2. queue' \in [Records -> Nat] /\ \A p \in Records : queue'[p] > 0 => InTable(p)
    BY <2>1 DEF TxIInv, Shapes, QueuesLive
  <2>3. UNCHANGED <<status, holds, peers, estab, peer, tx, stable, copies>>
    BY <2>1
  <2> QED  BY <2>2, <2>3, TableKept
<1> QED  BY <1>1, <1>2, <1>3, SendingOK DEF TxNext

LEMMA TxInvariant == TxSpec => []TxIInv
<1> QED  BY StartsRight, StepKeeps, PTL DEF TxSpec

\* A group frame replicated to the peers (AT+MESHGRP=0) reaches each one that was
\* established from its first to its last step exactly once, whatever peers are added and
\* deleted meanwhile and however many tasks send.
THEOREM GroupFrameOnce == TxSpec => []ReplicatedOnce
<1>1. ASSUME TxIInv  PROVE ReplicatedOnce
  <2>1. SUFFICES ASSUME NEW r \in Readers
                 PROVE  /\ \A p \in Records : copies[r][p] <= 1
                        /\ tx[r].pc \in {"wake", "end"} => \A p \in stable[r] : copies[r][p] = 1
    BY DEF ReplicatedOnce
  <2>2. TaskOK(tx[r], holds[r], stable[r], copies[r]) /\ stable[r] \in SUBSET Records
    BY <1>1, Mine
  <2>3. \A p \in Records : copies[r][p] \in {0, 1}
    BY <2>2 DEF TaskOK
  <2>4. tx[r].pc \in {"wake", "end"} => \A p \in stable[r] : copies[r][p] = 1
    BY <2>2 DEF TaskOK
  <2> QED  BY <2>3, <2>4
<1> QED  BY <1>1, TxInvariant, PTL

\* No frame lies on the queue of a record that left the table: what del_peer does not take
\* with the record is not queued on it either (mesh_queue_one_ looks again).
THEOREM NoneOnTheRetired == TxSpec => []QueuesLive
<1>1. TxIInv => QueuesLive
  BY DEF TxIInv
<1> QED  BY <1>1, TxInvariant, PTL

\* A task that queues its frame by pointer queues it for the neighbour the lookup found,
\* though the table has changed since: the record is not freed while the task may read it.
THEOREM SameNeighbour == TxSpec => []SamePeer
<1>1. ASSUME TxIInv  PROVE SamePeer
  BY <1>1, Mine DEF SamePeer, TaskOK, At
<1> QED  BY <1>1, TxInvariant, PTL

(***************************************************************************)
(* The pool.  What is queued and what is in hand are sums over the records *)
(* and the tasks, counted as sets of pieces, one column for each.          *)
(***************************************************************************)
\* A column of n pieces.
LEMMA ColumnSize ==
  ASSUME NEW x, NEW n \in Nat
  PROVE  IsFiniteSet({x} \X (1 .. n)) /\ Cardinality({x} \X (1 .. n)) = n
<1>1. IsFiniteSet({x}) /\ Cardinality({x}) = 1
  BY FS_Singleton
<1>2. IsFiniteSet(1 .. n) /\ Cardinality(1 .. n) = n
  BY FS_Interval
<1>3. /\ IsFiniteSet({x} \X (1 .. n))
      /\ Cardinality({x} \X (1 .. n)) = Cardinality({x}) * Cardinality(1 .. n)
  BY <1>1, <1>2, FS_Product
<1>4. 1 * n = n
  OBVIOUS
<1> QED  BY <1>1, <1>2, <1>3, <1>4

\* What is counted changes by what one of its columns does.
LEMMA PiecesChange ==
  ASSUME NEW S, NEW f \in [S -> Nat], IsFiniteSet(Pieces(f)), NEW x \in S, NEW n \in Nat
  PROVE  LET g == [f EXCEPT ![x] = n]
         IN /\ IsFiniteSet(Pieces(g)) /\ Cardinality(Pieces(f)) \in Nat /\ Cardinality(Pieces(f)) >= f[x]
            /\ Cardinality(Pieces(g)) = Cardinality(Pieces(f)) - f[x] + n
<1> DEFINE g == [f EXCEPT ![x] = n]
           Rest == UNION {{y} \X (1 .. f[y]) : y \in S \ {x}}
           Col(m) == {x} \X (1 .. m)
<1>1. f[x] \in Nat /\ DOMAIN f = S /\ DOMAIN g = S /\ g[x] = n /\ \A y \in S \ {x} : g[y] = f[y]
  OBVIOUS
<1>2. Pieces(f) = Rest \cup Col(f[x])
  BY <1>1 DEF Pieces
<1>3. Pieces(g) = Rest \cup Col(n)
  <2>1. Pieces(g) = UNION {{y} \X (1 .. g[y]) : y \in S}
    BY <1>1 DEF Pieces
  <2> HIDE DEF g
  <2>2. \A z : z \in Pieces(g) <=> \E y \in S : z \in {y} \X (1 .. g[y])
    BY <2>1, Zenon
  <2>3. \A z : z \in Rest <=> \E y \in S \ {x} : z \in {y} \X (1 .. f[y])
    BY Zenon
  <2> HIDE DEF Rest
  <2> QED  BY <1>1, <2>2, <2>3
<1>4. \A m : Rest \cap Col(m) = {}
  OBVIOUS
<1>5. \A m \in Nat : IsFiniteSet(Col(m)) /\ Cardinality(Col(m)) = m
  BY ColumnSize
<1>6. IsFiniteSet(Rest)
  BY <1>2, FS_Subset
<1> HIDE DEF g, Rest, Col
<1>7. \A m \in Nat : IsFiniteSet(Rest \cup Col(m)) /\ Cardinality(Rest \cup Col(m)) = Cardinality(Rest) + m
  <2> SUFFICES ASSUME NEW m \in Nat
               PROVE IsFiniteSet(Rest \cup Col(m)) /\ Cardinality(Rest \cup Col(m)) = Cardinality(Rest) + m
    OBVIOUS
  <2>1. IsFiniteSet(Col(m)) /\ Cardinality(Col(m)) = m /\ Rest \cap Col(m) = {}
    BY <1>4, <1>5
  <2>2. Cardinality({}) = 0 /\ Cardinality(Rest) \in Nat
    BY <1>6, FS_EmptySet, FS_CardinalityType
  <2>3. /\ IsFiniteSet(Rest \cup Col(m))
        /\ Cardinality(Rest \cup Col(m)) = Cardinality(Rest) + Cardinality(Col(m)) - Cardinality(Rest \cap Col(m))
    BY <1>6, <2>1, FS_Union
  <2>4. Cardinality(Rest \cap Col(m)) = 0
    BY <2>1, <2>2
  <2> QED  BY <2>1, <2>2, <2>3, <2>4
<1>8. Cardinality(Rest) \in Nat
  BY <1>6, FS_CardinalityType
<1>9. Cardinality(Pieces(f)) = Cardinality(Rest) + f[x] /\ Cardinality(Pieces(g)) = Cardinality(Rest) + n /\ IsFiniteSet(Pieces(g))
  BY <1>1, <1>2, <1>3, <1>7
<1> QED  BY <1>1, <1>8, <1>9 DEF g

\* The blocks a task has in hand where it is with its frame.
HandOf(pc) == CASE pc = "copy" -> 2 [] pc \in {"idle", "wake", "end"} -> 0 [] OTHER -> 1
Counts == /\ pool \in Nat /\ queued \in Nat
          /\ IsFiniteSet(QueuedFrames) /\ IsFiniteSet(TaskFrames)
          /\ QueuedExact /\ PoolConserved
Typed == /\ tx \in [Readers -> Task] /\ peer \in [Records -> Place]
         /\ rr \in Slots /\ blocked \subseteq Slots
         /\ wake \in BOOLEAN /\ more \in BOOLEAN /\ burst \in 0 .. MaxBurst

\* What a step of task r does with its frame, which becomes f: a block of the pool goes to the
\* frame or back, or a frame in hand goes to a queue.
FrameStep(r, f) ==
  /\ tx' = [tx EXCEPT ![r] = f]
  /\ \/ /\ UNCHANGED <<queue, queued>>
        /\ pool' \in Nat /\ pool' + HandOf(f.pc) = pool + HandOf(tx[r].pc)
     \/ \E p \in Records : /\ queue' = [queue EXCEPT ![p] = @ + 1] /\ queued' = queued + 1 /\ pool' = pool
                            /\ HandOf(tx[r].pc) = HandOf(f.pc) + 1

LEMMA Hands == /\ HandOf("copy") = 2 /\ HandOf("idle") = 0 /\ HandOf("wake") = 0 /\ HandOf("end") = 0
               /\ \A pc : HandOf(pc) \in 0 .. 2
               /\ HandOf("find") = 1 /\ HandOf("keyed") = 1 /\ HandOf("first") = 1 /\ HandOf("walk") = 1 /\ HandOf("last") = 1
BY DEF HandOf

Pcs == {"idle", "find", "keyed", "first", "walk", "copy", "last", "wake", "end"}

\* The frames the steps make are frames, and where they say.
LEMMA NumbersIn == MaxPeers \in Nat /\ 0 \in 0 .. MaxPeers /\ 0 \in 0 .. 1 /\ 1 \in 0 .. 1
BY TxAssumption DEF TxAssumption

LEMMA NoFrameIs == NoFrame \in Task /\ NoFrame.pc = "idle"
BY NumbersIn DEF NoFrame, Task

LEMMA OnlyPc ==
  ASSUME NEW pc \in Pcs
  PROVE  [NoFrame EXCEPT !.pc = pc] \in Task /\ [NoFrame EXCEPT !.pc = pc].pc = pc
BY NumbersIn DEF NoFrame, Task, Pcs

LEMMA FoundIs ==
  ASSUME NEW p \in Records, peer[p].addr \in Addrs \cup {None}, NEW pc \in Pcs
  PROVE  [Found(p) EXCEPT !.pc = pc] \in Task /\ [Found(p) EXCEPT !.pc = pc].pc = pc
BY NumbersIn DEF Found, NoFrame, Task, Pcs

LEMMA FoundRa ==
  ASSUME NEW p \in Records, peer[p].addr \in Addrs \cup {None}, NEW pc \in Pcs, NEW a \in Addrs \cup {None}
  PROVE  [Found(p) EXCEPT !.pc = pc, !.addr = a] \in Task /\ [Found(p) EXCEPT !.pc = pc, !.addr = a].pc = pc
BY NumbersIn DEF Found, NoFrame, Task, Pcs

LEMMA SlotMoves ==
  ASSUME NEW t \in Task, t.slot + 1 \in 0 .. MaxPeers
  PROVE  [t EXCEPT !.slot = @ + 1] \in Task /\ [t EXCEPT !.slot = @ + 1].pc = t.pc
BY DEF Task

LEMMA TaskAddr ==
  ASSUME NEW t \in Task
  PROVE  t.addr \in Addrs \cup {None}
BY DEF Task

LEMMA HopIs ==
  ASSUME NEW t \in Task, NEW a \in Addrs
  PROVE  /\ [t EXCEPT !.addr = a, !.tries = 0, !.slot = 0] \in Task
         /\ [t EXCEPT !.addr = a, !.tries = 0, !.slot = 0].pc = t.pc
BY NumbersIn DEF Task

LEMMA BeginStep ==
  ASSUME pool \in Nat, NEW r \in Readers, NEW kind \in Kinds, NEW a \in Addrs, TxBegin(r, kind, a)
  PROVE  \E f \in Task : FrameStep(r, f)
<1> DEFINE pc == IF kind \in {"uni", "ra"} THEN "find" ELSE "first"
           to == IF kind \in {"uni", "ra"} THEN a ELSE None
           n  == IF kind = "uni" THEN 1 ELSE 0
           f == [NoFrame EXCEPT !.pc = pc, !.kind = kind, !.addr = to, !.tries = n]
<1>1. /\ tx' = [tx EXCEPT ![r] = f] /\ tx[r].pc = "idle" /\ pool > 0 /\ pool' = pool - 1
      /\ queue' = queue /\ queued' = queued
  BY DEF TxBegin, Goto, At
<1>2. kind \in {"uni", "ra", "group", "std"}
  BY TxAssumption DEF TxAssumption
<1>3. pc \in Pcs /\ to \in Addrs \cup {None} /\ n \in 0 .. 1
  BY NumbersIn DEF Pcs
<1>4. HandOf(pc) = 1 /\ HandOf("idle") = 0
  BY Hands
<1> HIDE DEF pc, to, n
<1>5. f \in Task /\ f.pc = pc
  BY <1>2, <1>3, NumbersIn DEF NoFrame, Task, Pcs
<1> HIDE DEF f
<1>6. FrameStep(r, f)
  BY <1>1, <1>4, <1>5 DEF FrameStep
<1> QED  BY <1>5, <1>6

LEMMA DropStep ==
  ASSUME pool \in Nat, NEW r \in Readers, HandOf(tx[r].pc) = 1, Drop(r)
  PROVE  \E f \in Task : FrameStep(r, f)
<1> DEFINE f == [NoFrame EXCEPT !.pc = "end"]
<1>1. f \in Task /\ f.pc = "end" /\ HandOf("end") = 0
  BY OnlyPc, Hands DEF Pcs
<1>2. tx' = [tx EXCEPT ![r] = f] /\ pool' = pool + 1 /\ queue' = queue /\ queued' = queued
  BY DEF Drop, Goto
<1> HIDE DEF f
<1>3. FrameStep(r, f)
  BY <1>1, <1>2 DEF FrameStep
<1> QED  BY <1>1, <1>3

\* A step that changes the frame only.
LEMMA OnlyFrame ==
  ASSUME pool \in Nat, NEW r \in Readers, NEW f \in Task, tx' = [tx EXCEPT ![r] = f],
         queue' = queue, queued' = queued, pool' = pool, HandOf(f.pc) = HandOf(tx[r].pc)
  PROVE  FrameStep(r, f)
BY DEF FrameStep

\* Queueing a frame, or giving it back where its peer is gone.
LEMMA QueueStep ==
  ASSUME pool \in Nat, NEW r \in Readers, NEW f \in Task, NEW p \in Records, tx' = [tx EXCEPT ![r] = f],
         QueueOne(r, p), HandOf(tx[r].pc) = HandOf(f.pc) + 1
  PROVE  FrameStep(r, f)
<1>1. CASE InTable(p)
  BY <1>1 DEF FrameStep, QueueOne
<1>2. CASE ~InTable(p)
  <2>1. HandOf(f.pc) \in Nat
    BY Hands
  <2> QED  BY <1>2, <2>1 DEF FrameStep, QueueOne
<1> QED  BY <1>1, <1>2

LEMMA HeldRecord ==
  ASSUME TxIInv, NEW r \in Readers, tx[r].pc \in {"keyed", "walk", "copy", "last"}
  PROVE  tx[r].stad \in Records /\ (tx[r].pc = "copy" => tx[r].copy \in Records)
<1>1. TaskOK(tx[r], holds[r], stable[r], copies[r]) /\ holds[r] \in SUBSET Records
  BY DEF TxIInv, TasksOK, Shapes
<1> QED  BY <1>1 DEF TaskOK

\* A record's peer has an address.
LEMMA MeantIs ==
  ASSUME TxIInv, Typed, NEW r \in Readers, tx[r].slot \in Slots, Here(r) # None
  PROVE  Here(r) \in Records /\ peer[Here(r)].addr \in Addrs \cup {None}
<1>1. Here(r) \in Records
  BY FoundHere
<1> QED  BY <1>1 DEF Typed, Place

LEMMA TaskIs ==
  ASSUME Typed, NEW r \in Readers
  PROVE  /\ tx[r] \in Task /\ (tx[r].slot \in Slots => tx[r].slot + 1 \in 0 .. MaxPeers)
         /\ MaxPeers \in Nat
<1>1. tx[r] \in Task
  BY DEF Typed
<1> QED  BY <1>1, TxAssumption DEF TxAssumption, Slots, Task

LEMMA FrameSteps ==
  ASSUME TxIInv, Typed, pool \in Nat, NEW r \in Readers, TxStart(r) \/ TxStep(r)
  PROVE  \E f \in Task : FrameStep(r, f)
<1> DEFINE t == tx[r]
<1>1. /\ t \in Task /\ (t.slot \in Slots => t.slot + 1 \in 0 .. MaxPeers)
  BY TaskIs
<1> HIDE DEF t
<1>2. CASE TxStart(r)
  BY <1>2, BeginStep DEF TxStart
<1>3. CASE Find(r)
  <2> DEFINE p == Here(r)
  <2>1. /\ t.pc = "find" /\ t.slot \in Slots /\ queue' = queue /\ queued' = queued /\ pool' = pool
        /\ HandOf(tx[r].pc) = 1
    BY <1>3, Hands DEF Find, At, frames, t
  <2>2. CASE p # None /\ peer[p].addr = t.addr
    <3>1. p \in Records /\ peer[p].addr \in Addrs \cup {None}
      BY <2>1, <2>2, MeantIs DEF t
    <3>2. CASE t.kind = "ra"
      <4> DEFINE f == [Found(p) EXCEPT !.pc = "keyed", !.addr = t.addr]
      <4>1. tx' = [tx EXCEPT ![r] = f]
        BY <1>3, <2>2, <3>2 DEF Find, Goto, t
      <4>2. f \in Task /\ f.pc = "keyed"
        BY <1>1, <3>1, TaskAddr, FoundRa DEF Pcs
      <4> HIDE DEF f
      <4>3. FrameStep(r, f)
        BY <2>1, <4>1, <4>2, Hands, OnlyFrame
      <4> QED  BY <4>2, <4>3
    <3>3. CASE ~(t.kind = "ra")
      <4> DEFINE f == [Found(p) EXCEPT !.pc = "last"]
      <4>1. tx' = [tx EXCEPT ![r] = f]
        BY <1>3, <2>2, <3>3 DEF Find, Goto, t
      <4>2. f \in Task /\ f.pc = "last"
        BY <1>1, <3>1, FoundIs DEF Pcs
      <4> HIDE DEF f
      <4>3. FrameStep(r, f)
        BY <2>1, <4>1, <4>2, Hands, OnlyFrame
      <4> QED  BY <4>2, <4>3
    <3> QED  BY <3>2, <3>3
  <2>3. CASE ~(p # None /\ peer[p].addr = t.addr)
    <3> DEFINE f == [t EXCEPT !.slot = @ + 1]
    <3>1. tx' = [tx EXCEPT ![r] = f]
      BY <1>3, <2>3 DEF Find, Goto, t
    <3>2. f \in Task /\ f.pc = "find"
      BY <1>1, <2>1, SlotMoves
    <3> HIDE DEF f
    <3>3. FrameStep(r, f)
      BY <2>1, <3>1, <3>2, Hands, OnlyFrame
    <3> QED  BY <3>2, <3>3
  <2> QED  BY <2>2, <2>3
<1>4. ASSUME NEW a \in Addrs, FindOther(r, a)  PROVE \E f \in Task : FrameStep(r, f)
  <2> DEFINE f == [t EXCEPT !.addr = a, !.tries = 0, !.slot = 0]
  <2>1. tx' = [tx EXCEPT ![r] = f] /\ queue' = queue /\ queued' = queued /\ pool' = pool /\ t.pc = "find"
    BY <1>4 DEF FindOther, Goto, At, frames, t
  <2>2. f \in Task /\ f.pc = "find"
    BY <1>1, <2>1, HopIs
  <2> HIDE DEF f
  <2>3. HandOf(f.pc) = 1 /\ HandOf(tx[r].pc) = 1
    BY <2>1, <2>2, Hands DEF t
  <2> QED  BY <2>1, <2>2, <2>3, OnlyFrame
<1>5. CASE FindNone(r)
  <2>1. t.pc = "find" /\ HandOf(tx[r].pc) = 1
    BY <1>5, Hands DEF FindNone, At, t
  <2>2. CASE t.kind = "uni" /\ Leaf
    <3> DEFINE f == [NoFrame EXCEPT !.pc = "first"]
    <3>1. tx' = [tx EXCEPT ![r] = f] /\ queue' = queue /\ queued' = queued /\ pool' = pool
      BY <1>5, <2>2 DEF FindNone, Goto, frames, t
    <3>2. f \in Task /\ f.pc = "first"
      BY OnlyPc DEF Pcs
    <3> HIDE DEF f
    <3>3. HandOf(f.pc) = 1
      BY <3>2, Hands
    <3> QED  BY <2>1, <3>1, <3>2, <3>3, OnlyFrame
  <2>3. CASE ~(t.kind = "uni" /\ Leaf)
    BY <1>5, <2>1, <2>3, DropStep DEF FindNone, t
  <2> QED  BY <2>2, <2>3
<1>6. CASE Keyed(r)
  <2>1. t.pc = "keyed" /\ HandOf(tx[r].pc) = 1
    BY <1>6, Hands DEF Keyed, At, t
  <2> DEFINE f == [t EXCEPT !.pc = "last", !.addr = None]
  <2>2. \/ tx' = [tx EXCEPT ![r] = f] /\ queue' = queue /\ queued' = queued /\ pool' = pool
        \/ Drop(r)
    BY <1>6 DEF Keyed, Goto, frames, t
  <2>3. f \in Task /\ f.pc = "last"
    BY <1>1 DEF Task
  <2> HIDE DEF f
  <2>4. HandOf(f.pc) = 1
    BY <2>3, Hands
  <2> QED  BY <2>1, <2>2, <2>3, <2>4, OnlyFrame, DropStep
<1>7. CASE FirstPeer(r)
  <2> DEFINE p == Here(r)
  <2>1. /\ t.pc = "first" /\ t.slot \in Slots /\ queue' = queue /\ queued' = queued /\ pool' = pool
        /\ HandOf(tx[r].pc) = 1
    BY <1>7, Hands DEF FirstPeer, At, frames, t
  <2>2. CASE p # None /\ estab[t.slot]
    <3>1. p \in Records /\ peer[p].addr \in Addrs \cup {None}
      BY <2>1, <2>2, MeantIs DEF t
    <3>2. CASE t.kind = "group"
      <4> DEFINE f == [Found(p) EXCEPT !.pc = "walk"]
      <4>1. tx' = [tx EXCEPT ![r] = f]
        BY <1>7, <2>2, <3>2 DEF FirstPeer, Goto, t
      <4>2. f \in Task /\ f.pc = "walk"
        BY <1>1, <3>1, FoundIs DEF Pcs
      <4> HIDE DEF f
      <4>3. FrameStep(r, f)
        BY <2>1, <4>1, <4>2, Hands, OnlyFrame
      <4> QED  BY <4>2, <4>3
    <3>3. CASE ~(t.kind = "group")
      <4> DEFINE f == [Found(p) EXCEPT !.pc = "last"]
      <4>1. tx' = [tx EXCEPT ![r] = f]
        BY <1>7, <2>2, <3>3 DEF FirstPeer, Goto, t
      <4>2. f \in Task /\ f.pc = "last"
        BY <1>1, <3>1, FoundIs DEF Pcs
      <4> HIDE DEF f
      <4>3. FrameStep(r, f)
        BY <2>1, <4>1, <4>2, Hands, OnlyFrame
      <4> QED  BY <4>2, <4>3
    <3> QED  BY <3>2, <3>3
  <2>3. CASE ~(p # None /\ estab[t.slot])
    <3> DEFINE f == [t EXCEPT !.slot = @ + 1]
    <3>1. tx' = [tx EXCEPT ![r] = f]
      BY <1>7, <2>3 DEF FirstPeer, Goto, t
    <3>2. f \in Task /\ f.pc = "first"
      BY <1>1, <2>1, SlotMoves
    <3> HIDE DEF f
    <3>3. FrameStep(r, f)
      BY <2>1, <3>1, <3>2, Hands, OnlyFrame
    <3> QED  BY <3>2, <3>3
  <2> QED  BY <2>2, <2>3
<1>8. CASE NoPeerYet(r)
  <2>1. HandOf(tx[r].pc) = 1
    BY <1>8, Hands DEF NoPeerYet, At
  <2> QED  BY <1>8, <2>1, DropStep DEF NoPeerYet
<1>9. CASE WalkCopy(r)
  <2> DEFINE f == [t EXCEPT !.pc = "copy", !.copy = Here(r)]
  <2>1. /\ tx' = [tx EXCEPT ![r] = f] /\ UNCHANGED <<queue, queued>> /\ pool' = pool - 1 /\ pool > 0
        /\ t.pc = "walk" /\ t.slot \in Slots /\ Here(r) # None
    BY <1>9 DEF WalkCopy, Wants, Goto, At, t
  <2>2. f \in Task /\ f.pc = "copy"
    <3>1. Here(r) \in Records
      BY <2>1, MeantIs DEF t
    <3> QED  BY <1>1, <3>1 DEF Task
  <2> HIDE DEF f
  <2>3. HandOf(f.pc) = 2 /\ HandOf(tx[r].pc) = 1
    BY <2>1, <2>2, Hands DEF t
  <2>4. FrameStep(r, f)
    BY <2>1, <2>3 DEF FrameStep
  <2> QED  BY <2>2, <2>4
<1>10. CASE WalkSkip(r)
  <2> DEFINE f == [t EXCEPT !.slot = @ + 1]
  <2>1. tx' = [tx EXCEPT ![r] = f] /\ queue' = queue /\ queued' = queued /\ pool' = pool /\ t.pc = "walk" /\ t.slot \in Slots
    BY <1>10 DEF WalkSkip, Goto, At, frames, t
  <2>2. f \in Task /\ f.pc = "walk"
    BY <1>1, <2>1 DEF Task
  <2> HIDE DEF f
  <2>3. HandOf(f.pc) = 1 /\ HandOf(tx[r].pc) = 1
    BY <2>1, <2>2, Hands DEF t
  <2> QED  BY <2>1, <2>2, <2>3, OnlyFrame
<1>11. CASE QueueCopy(r)
  <2> DEFINE f == [t EXCEPT !.pc = "walk", !.slot = @ + 1, !.copy = None]
  <2>1. tx' = [tx EXCEPT ![r] = f] /\ t.pc = "copy" /\ QueueOne(r, tx[r].copy)
    BY <1>11 DEF QueueCopy, Goto, At, t
  <2>2. TaskOK(tx[r], holds[r], stable[r], copies[r])
    BY DEF TxIInv, TasksOK
  <2>3. tx[r].copy \in Records /\ t.slot \in Slots
    BY <2>1, <2>2, HeldRecord DEF t, TaskOK
  <2>4. f \in Task /\ f.pc = "walk"
    BY <1>1, <2>3 DEF Task
  <2> HIDE DEF f
  <2>5. HandOf(tx[r].pc) = HandOf(f.pc) + 1
    BY <2>1, <2>4, Hands DEF t
  <2> PICK p \in Records : p = tx[r].copy
    BY <2>3
  <2>6. QueueOne(r, p)
    BY <2>1 DEF QueueOne, InTable
  <2>7. FrameStep(r, f)
    BY <2>1, <2>4, <2>5, <2>6, QueueStep
  <2> QED  BY <2>4, <2>7
<1>12. CASE QueueLast(r)
  <2> DEFINE f == [NoFrame EXCEPT !.pc = "wake"]
  <2>1. tx' = [tx EXCEPT ![r] = f] /\ tx[r].pc \in {"last", "walk"} /\ QueueOne(r, tx[r].stad)
    BY <1>12 DEF QueueLast, Goto, At
  <2>2. tx[r].stad \in Records
    BY <2>1, HeldRecord
  <2>3. f \in Task /\ f.pc = "wake"
    BY OnlyPc DEF Pcs
  <2> HIDE DEF f
  <2>4. HandOf(tx[r].pc) = HandOf(f.pc) + 1
    BY <2>1, <2>3, Hands
  <2> PICK p \in Records : p = tx[r].stad
    BY <2>2
  <2>5. QueueOne(r, p)
    BY <2>1 DEF QueueOne, InTable
  <2>6. FrameStep(r, f)
    BY <2>1, <2>3, <2>4, <2>5, QueueStep
  <2> QED  BY <2>3, <2>6
<1>13. CASE TxWake(r)
  <2> DEFINE f == [NoFrame EXCEPT !.pc = "end"]
  <2>1. tx' = [tx EXCEPT ![r] = f] /\ queue' = queue /\ queued' = queued /\ pool' = pool /\ tx[r].pc = "wake"
    BY <1>13 DEF TxWake, Goto, At, frames
  <2>2. f \in Task /\ f.pc = "end"
    BY OnlyPc DEF Pcs
  <2> HIDE DEF f
  <2>3. HandOf(f.pc) = 0 /\ HandOf(tx[r].pc) = 0
    BY <2>1, <2>2, Hands
  <2> QED  BY <2>1, <2>2, <2>3, OnlyFrame
<1>14. CASE TxEnd(r)
  <2>1. tx' = [tx EXCEPT ![r] = NoFrame] /\ queue' = queue /\ queued' = queued /\ pool' = pool /\ tx[r].pc = "end"
    BY <1>14 DEF TxEnd, Goto, At, frames
  <2>2. NoFrame \in Task /\ NoFrame.pc = "idle"
    BY NoFrameIs DEF NoFrame
  <2>3. HandOf(NoFrame.pc) = 0 /\ HandOf(tx[r].pc) = 0
    BY <2>1, <2>2, Hands
  <2> QED  BY <2>1, <2>2, <2>3, OnlyFrame
<1> QED  BY <1>2, <1>3, <1>4, <1>5, <1>6, <1>7, <1>8, <1>9, <1>10, <1>11, <1>12, <1>13, <1>14 DEF TxStep

Hand == [r \in Readers |-> HandOf(tx[r].pc)]

LEMMA HandIs == TaskFrames = Pieces(Hand)
BY DEF TaskFrames, Hand, InHand, At, HandOf

LEMMA HandType == Hand \in [Readers -> Nat] /\ \A r \in Readers : Hand[r] = HandOf(tx[r].pc)
<1>1. \A r \in Readers : HandOf(tx[r].pc) \in Nat
  BY Hands
<1> QED  BY <1>1 DEF Hand

\* With q blocks queued, p of the pool and t in hand become p1 and t1 as a task goes from n to m.
Balanced(p, p1, q, t, t1, m, n) ==
  /\ p \in Nat /\ p1 \in Nat /\ q \in Nat /\ t \in Nat /\ m \in Nat /\ n \in Nat
  /\ p1 + m = p + n /\ t1 = t - n + m /\ p + q + t = PoolSize
LEMMA Balance ==
  ASSUME NEW p, NEW p1, NEW q, NEW t, NEW t1, NEW m, NEW n, Balanced(p, p1, q, t, t1, m, n)
  PROVE  p1 + q + t1 = PoolSize
BY DEF Balanced

\* The tasks' steps keep the counts.
LEMMA FrameStepCounts ==
  ASSUME TxIInv, Typed, Counts, NEW r \in Readers, NEW f \in Task, FrameStep(r, f)
  PROVE  Counts' /\ tx' \in [Readers -> Task]
<1>1. tx' = [tx EXCEPT ![r] = f] /\ tx \in [Readers -> Task]
  BY DEF FrameStep, Typed
<1>2. tx' \in [Readers -> Task]
  BY <1>1
<1> DEFINE m == HandOf(f.pc)
           n == HandOf(tx[r].pc)
<1>3. m \in Nat /\ n \in Nat
  BY Hands
<1>4. Hand' = [Hand EXCEPT ![r] = m]
  BY <1>1 DEF Hand
<1> HIDE DEF m, n
<1>5. /\ IsFiniteSet(Pieces(Hand)) /\ Hand \in [Readers -> Nat] /\ Hand[r] = n
      /\ IsFiniteSet(Pieces(queue)) /\ queue \in [Records -> Nat]
  BY HandIs, HandType DEF Counts, QueuedFrames, TxIInv, Shapes, n
<1> DEFINE tf == Cardinality(Pieces(Hand))
           qf == Cardinality(Pieces(queue))
           tn == Cardinality(Pieces([Hand EXCEPT ![r] = m]))
<1>6. /\ IsFiniteSet(Pieces([Hand EXCEPT ![r] = m])) /\ tf \in Nat /\ tf >= n
      /\ tn = tf - n + m
  BY <1>3, <1>5, PiecesChange
<1>7. TaskFrames' = Pieces([Hand EXCEPT ![r] = m])
  <2>1. TaskFrames' = Pieces(Hand')
    BY HandIs DEF TaskFrames, Hand, InHand, At, HandOf, Pieces
  <2> QED  BY <2>1, <1>4
<1>8. qf \in Nat /\ queued = qf /\ pool + qf + tf = PoolSize /\ pool \in Nat
  BY <1>5, FS_CardinalityType, HandIs DEF Counts, QueuedExact, PoolConserved, QueuedFrames
<1>9. CASE UNCHANGED <<queue, queued>> /\ pool' \in Nat /\ pool' + m = pool + n
  <2>1. QueuedFrames' = Pieces(queue)
    BY <1>9 DEF QueuedFrames, Pieces
  <2> HIDE DEF qf, tf, tn
  <2>2. Balanced(pool, pool', qf, tf, tn, m, n)
    BY <1>3, <1>6, <1>8, <1>9 DEF Balanced
  <2>3. pool' + qf + tn = PoolSize
    BY <2>2, Balance
  <2>4. Cardinality(QueuedFrames') = qf /\ Cardinality(TaskFrames') = tn
    BY <1>7, <2>1 DEF qf, tn
  <2>5. Counts'
    BY <1>5, <1>6, <1>7, <1>8, <1>9, <2>1, <2>3, <2>4 DEF Counts, QueuedExact, PoolConserved
  <2> QED  BY <1>2, <2>5
<1>10. ASSUME NEW p \in Records, queue' = [queue EXCEPT ![p] = @ + 1], queued' = queued + 1, pool' = pool, n = m + 1
       PROVE  Counts'
  <2> DEFINE k == queue[p] + 1
             qn == Cardinality(Pieces([queue EXCEPT ![p] = k]))
  <2>1. queue[p] \in Nat /\ k \in Nat
    BY <1>5
  <2>2. IsFiniteSet(Pieces([queue EXCEPT ![p] = k])) /\ qn = qf - queue[p] + k
    BY <1>5, <2>1, PiecesChange
  <2>3. QueuedFrames' = Pieces([queue EXCEPT ![p] = k])
    BY <1>10 DEF QueuedFrames, Pieces
  <2>4. qn = qf + 1
    BY <2>1, <2>2, <1>8
  <2>5. pool + qn + tn = PoolSize /\ queued + 1 = qn /\ qn \in Nat
    BY <1>3, <1>6, <1>8, <1>10, <2>4
  <2> HIDE DEF qf, tf, tn, qn, k
  <2>6. Cardinality(QueuedFrames') = qn /\ Cardinality(TaskFrames') = tn
    BY <1>7, <2>3 DEF qn, tn
  <2>7. pool' = pool /\ queued' = queued + 1
    BY <1>10
  <2>8. IsFiniteSet(QueuedFrames') /\ IsFiniteSet(TaskFrames')
    BY <2>2, <2>3, <1>6, <1>7
  <2> QED  BY <1>8, <2>5, <2>6, <2>7, <2>8 DEF Counts, QueuedExact, PoolConserved
<1>11. \/ UNCHANGED <<queue, queued>> /\ pool' \in Nat /\ pool' + m = pool + n
       \/ \E p \in Records : queue' = [queue EXCEPT ![p] = @ + 1] /\ queued' = queued + 1 /\ pool' = pool /\ n = m + 1
  BY DEF FrameStep, m, n
<1> QED  BY <1>2, <1>9, <1>10, <1>11

LEMMA TaskCounts ==
  ASSUME TxIInv, Typed, Counts, NEW r \in Readers, TxStart(r) \/ TxStep(r)
  PROVE  Counts' /\ Typed'
<1>1. PICK f \in Task : FrameStep(r, f)
  BY FrameSteps DEF Counts
<1>2. Counts' /\ tx' \in [Readers -> Task]
  BY <1>1, FrameStepCounts
<1>3. /\ peer' = peer /\ rr' = rr /\ blocked' = blocked /\ more' = more /\ burst' = burst
      /\ wake' = wake \/ wake' = TRUE
  <2>1. CASE TxStart(r)
    BY <2>1 DEF TxStart, TxBegin, table, sender
  <2>2. CASE Find(r) \/ (\E a \in Addrs : FindOther(r, a)) \/ FindNone(r) \/ Keyed(r)
    BY <2>2 DEF Find, FindOther, FindNone, Keyed, table, sender
  <2>3. CASE FirstPeer(r) \/ NoPeerYet(r) \/ WalkCopy(r) \/ WalkSkip(r)
    BY <2>3 DEF FirstPeer, NoPeerYet, WalkCopy, WalkSkip, table, sender
  <2>4. CASE QueueCopy(r) \/ QueueLast(r) \/ TxEnd(r)
    BY <2>4 DEF QueueCopy, QueueLast, TxEnd, table, sender
  <2>5. CASE TxWake(r)
    BY <2>5 DEF TxWake, table
  <2> QED  BY <2>1, <2>2, <2>3, <2>4, <2>5 DEF TxStep
<1>4. wake' \in BOOLEAN
  BY <1>3, Zenon DEF Typed
<1> QED  BY <1>2, <1>3, <1>4 DEF Typed

(***************************************************************************)
(* The event loop's steps.                                                 *)
(***************************************************************************)
LEMMA CountsStay ==
  ASSUME Counts, queue' = queue, queued' = queued, pool' = pool, tx' = tx
  PROVE  Counts'
<1>1. QueuedFrames' = QueuedFrames /\ TaskFrames' = TaskFrames
  BY DEF QueuedFrames, TaskFrames, Pieces, InHand, At
<1> QED  BY <1>1 DEF Counts, QueuedExact, PoolConserved

\* With q blocks queued and p in the pool, d of the queued go back to it.
Released(p, p1, q, q1, t, c, n) ==
  /\ p \in Nat /\ q \in Nat /\ t \in Nat /\ c \in Nat /\ n \in Nat /\ c >= n
  /\ q >= c /\ q1 = q - c + n /\ p1 = p + (c - n) /\ p + q + t = PoolSize
LEMMA Release ==
  ASSUME NEW p, NEW p1, NEW q, NEW q1, NEW t, NEW c, NEW n, Released(p, p1, q, q1, t, c, n)
  PROVE  p1 + q1 + t = PoolSize /\ p1 \in Nat /\ q1 \in Nat /\ q - (c - n) = q1
BY DEF Released

\* Blocks of one record's queue go back to the pool.
LEMMA QueueShrinks ==
  ASSUME TxIInv, Counts, NEW p \in Records, NEW n \in Nat, n <= queue[p],
         queue' = [queue EXCEPT ![p] = n], queued' = queued - (queue[p] - n),
         pool' = pool + (queue[p] - n), tx' = tx
  PROVE  Counts'
<1> DEFINE c  == queue[p]
           qf == Cardinality(Pieces(queue))
           tf == Cardinality(TaskFrames)
           qn == Cardinality(Pieces([queue EXCEPT ![p] = n]))
<1>1. /\ IsFiniteSet(Pieces(queue)) /\ queue \in [Records -> Nat] /\ c \in Nat /\ IsFiniteSet(TaskFrames)
      /\ queued = qf /\ pool + qf + tf = PoolSize /\ pool \in Nat
  BY DEF Counts, QueuedFrames, TxIInv, Shapes, QueuedExact, PoolConserved
<1>2. IsFiniteSet(Pieces([queue EXCEPT ![p] = n])) /\ qf \in Nat /\ qf >= c /\ qn = qf - c + n
  BY <1>1, PiecesChange
<1>3. tf \in Nat
  BY <1>1, FS_CardinalityType
<1>4. QueuedFrames' = Pieces([queue EXCEPT ![p] = n]) /\ TaskFrames' = TaskFrames
  BY DEF QueuedFrames, TaskFrames, Pieces, InHand, At
<1>5. pool' = pool + (c - n) /\ queued' = queued - (c - n) /\ n <= c
  OBVIOUS
<1> HIDE DEF c, qf, tf, qn
<1>6. Released(pool, pool', qf, qn, tf, c, n)
  BY <1>1, <1>2, <1>3, <1>5 DEF Released
<1>7. pool' + qn + tf = PoolSize /\ pool' \in Nat /\ qn \in Nat /\ qf - (c - n) = qn
  BY <1>6, Release
<1>8. queued' = qn
  BY <1>1, <1>5, <1>7
<1>9. Cardinality(QueuedFrames') = qn /\ Cardinality(TaskFrames') = tf
  BY <1>4 DEF qn, tf
<1> QED  BY <1>1, <1>2, <1>4, <1>7, <1>8, <1>9 DEF Counts, QueuedExact, PoolConserved

\* What the loop's steps change of the queues, the pool and the frames.
LEMMA LoopCounts ==
  ASSUME TxIInv, Typed, Counts, Calls \/ Sending \/ \E i \in Slots : TxStatus(i)
  PROVE  Counts'
<1>1. ASSUME NEW i \in Slots, TxUnlink(i)  PROVE Counts'
  <2>1. peers[i] \in Records
    BY <1>1 DEF TxUnlink, TxIInv, Shapes
  <2> PICK p \in Records : p = peers[i]
    BY <2>1
  <2>2. queue[p] \in Nat /\ 0 <= queue[p] /\ queue[p] - 0 = queue[p]
    BY DEF TxIInv, Shapes
  <2>3. /\ queue' = [queue EXCEPT ![p] = 0] /\ queued' = queued - queue[p] /\ pool' = pool + queue[p]
        /\ tx' = tx
    BY <1>1 DEF TxUnlink
  <2>4. queued' = queued - (queue[p] - 0) /\ pool' = pool + (queue[p] - 0)
    BY <2>2, <2>3
  <2> QED  BY <2>2, <2>3, <2>4, QueueShrinks
<1>2. ASSUME NEW i \in Slots, Dequeue(i)  PROVE Counts'
  <2>1. peers[i] \in Records /\ queue[peers[i]] > 0
    BY <1>2 DEF Dequeue, NextUp, Ready, TxIInv, Shapes
  <2> PICK p \in Records : p = peers[i]
    BY <2>1
  <2> DEFINE n == queue[p] - 1
  <2>2. queue[p] \in Nat /\ n \in Nat /\ n <= queue[p] /\ queue[p] - n = 1
    BY <2>1 DEF TxIInv, Shapes
  <2>3. /\ queue' = [queue EXCEPT ![p] = n] /\ queued' = queued - 1 /\ pool' = pool + 1 /\ tx' = tx
    BY <1>2 DEF Dequeue
  <2> HIDE DEF n
  <2>4. queued' = queued - (queue[p] - n) /\ pool' = pool + (queue[p] - n)
    BY <2>2, <2>3
  <2> QED  BY <2>2, <2>3, <2>4, QueueShrinks
<1>3. ASSUME NEW i \in Slots, TxStatus(i) \/ TxKey(i)  PROVE Counts'
  BY <1>3, CountsStay DEF TxStatus, TxKey, frames
<1>4. ASSUME NEW p \in Records, NEW a \in Addrs, TxPublish(p) \/ TxFree(p) \/ TxAlloc(a, p)  PROVE Counts'
  BY <1>4, CountsStay DEF TxPublish, TxFree, TxAlloc, frames
<1>5. ASSUME NEW p \in Records, TxPublish(p) \/ TxFree(p)  PROVE Counts'
  BY <1>5, CountsStay DEF TxPublish, TxFree, frames
<1>6. CASE ProcessTx \/ ProcessNone
  BY <1>6, CountsStay DEF ProcessTx, ProcessNone, frames
<1> QED  BY <1>1, <1>2, <1>3, <1>4, <1>5, <1>6 DEF Calls, Sending

LEMMA LoopTyped ==
  ASSUME TxIInv, Typed, Calls \/ Sending \/ \E i \in Slots : TxStatus(i)
  PROVE  Typed'
<1> USE DEF Typed
<1>1. 0 \in Slots /\ MaxPeers \in Nat \ {0} /\ MaxBurst \in Nat \ {0}
  BY TxAssumption DEF TxAssumption, Slots
<1>2. ASSUME NEW i \in Slots, TxUnlink(i)  PROVE Typed'
  BY <1>2 DEF TxUnlink
<1>3. ASSUME NEW i \in Slots, TxKey(i)  PROVE Typed'
  BY <1>3 DEF TxKey, sender
<1>4. ASSUME NEW i \in Slots, TxStatus(i)  PROVE Typed'
  BY <1>4 DEF TxStatus, table
<1>5. ASSUME NEW p \in Records, TxPublish(p)  PROVE Typed'
  BY <1>5 DEF TxPublish
<1>6. ASSUME NEW p \in Records, TxFree(p)  PROVE Typed'
  <2>1. NoPeer \in Place
    BY <1>1 DEF NoPeer, Place
  <2> QED  BY <1>6, <2>1 DEF TxFree, sender
<1>7. ASSUME NEW p \in Records, NEW a \in Addrs, TxAlloc(a, p)  PROVE Typed'
  <2>1. PICK i \in Slots : peer' = [peer EXCEPT ![p] = [addr |-> a, slot |-> i]]
    BY <1>7 DEF TxAlloc, IsFirst, FreeSlots
  <2>2. [addr |-> a, slot |-> i] \in Place
    BY DEF Place
  <2> QED  BY <1>7, <2>1, <2>2 DEF TxAlloc, sender
<1>8. CASE ProcessTx
  <2>1. wake' \in BOOLEAN
    BY <1>8, Zenon DEF ProcessTx
  <2>2. burst' \in 0 .. MaxBurst
    BY <1>8, <1>1 DEF ProcessTx
  <2> QED  BY <1>8, <2>1, <2>2 DEF ProcessTx, table
<1>9. ASSUME NEW i \in Slots, Dequeue(i)  PROVE Typed'
  <2>1. more' \in BOOLEAN
    BY <1>9, Zenon DEF Dequeue
  <2>2. burst' \in 0 .. MaxBurst
    BY <1>9, <1>1 DEF Dequeue
  <2>3. rr' \in Slots
    BY <1>9, <1>1 DEF Dequeue, Slots
  <2> QED  BY <1>9, <2>1, <2>2, <2>3 DEF Dequeue, table
<1>10. CASE ProcessNone
  <2>1. burst' \in 0 .. MaxBurst
    BY <1>10, <1>1 DEF ProcessNone
  <2>2. more' \in BOOLEAN
    BY <1>10, Zenon DEF ProcessNone
  <2> QED  BY <1>10, <2>1, <2>2 DEF ProcessNone, table
<1> QED  BY <1>2, <1>3, <1>4, <1>5, <1>6, <1>7, <1>8, <1>9, <1>10 DEF Calls, Sending

LEMMA CountsAtFirst == ASSUME TxInit  PROVE Counts /\ Typed
<1>1. QueuedFrames = {} /\ TaskFrames = {}
  <2>1. \A p \in Records : queue[p] = 0 /\ DOMAIN queue = Records
    BY DEF TxInit
  <2>2. \A r \in Readers : InHand(r) = 0
    BY DEF TxInit, InHand, At, NoFrame
  <2>3. QueuedFrames = {}
    BY <2>1 DEF QueuedFrames, Pieces, TxInit
  <2> DEFINE hand == [r \in Readers |-> InHand(r)]
  <2>4. \A r \in Readers : hand[r] = 0
    BY <2>2
  <2>5. TaskFrames = UNION {{r} \X (1 .. hand[r]) : r \in Readers}
    BY DEF TaskFrames, Pieces
  <2> HIDE DEF hand
  <2>6. TaskFrames = {}
    BY <2>4, <2>5
  <2> QED  BY <2>3, <2>6
<1>2. IsFiniteSet({}) /\ Cardinality({}) = 0
  BY FS_EmptySet
<1>3. Counts
  BY <1>1, <1>2, TxAssumption DEF TxInit, Counts, QueuedExact, PoolConserved, TxAssumption
<1>4. tx \in [Readers -> Task] /\ peer \in [Records -> Place] /\ rr \in Slots
  <2>1. NoPeer \in Place /\ 0 \in Slots
    BY TxAssumption DEF NoPeer, Place, Slots, TxAssumption
  <2> QED  BY <2>1, NoFrameIs DEF TxInit
<1>5. burst \in 0 .. MaxBurst
  BY TxAssumption DEF TxInit, TxAssumption
<1> QED  BY <1>3, <1>4, <1>5 DEF TxInit, Typed

LEMMA CountsStep == ASSUME TxIInv, Typed, Counts, [TxNext]_txvars  PROVE Counts' /\ Typed'
<1>1. CASE UNCHANGED txvars
  <2>1. Counts'
    BY <1>1, CountsStay DEF txvars, frames
  <2>2. Typed'
    BY <1>1 DEF Typed, txvars, frames, table, sender
  <2> QED  BY <2>1, <2>2
<1>2. CASE TxNext
  <2>1. ASSUME NEW r \in Readers, TxStart(r) \/ TxStep(r)  PROVE Counts' /\ Typed'
    BY <2>1, TaskCounts
  <2>2. CASE Calls \/ Sending \/ \E i \in Slots : TxStatus(i)
    BY <2>2, LoopCounts, LoopTyped
  <2> QED  BY <1>2, <2>1, <2>2 DEF TxNext
<1> QED  BY <1>1, <1>2

\* Every block of the transmit pool is free, on one peer's queue or in one task's hands, and
\* s_num_pkts_queued is what is queued, so no frame is lost or freed twice however the tasks'
\* sends, del_peer's taking of a queue and process_tx interleave, and no block is left for
\* process_tx to forget.
THEOREM PoolAccounted == TxSpec => []TxInv
<1>1. TxInit => Counts /\ Typed
  BY CountsAtFirst
<1>2. TxIInv /\ Counts /\ Typed /\ [TxNext]_txvars => Counts' /\ Typed'
  BY CountsStep
<1>3. TxIInv /\ Counts /\ Typed => TxInv
  <2> SUFFICES ASSUME TxIInv, Counts, Typed  PROVE TxInv
    OBVIOUS
  <2> DEFINE q == Cardinality(QueuedFrames)
             t == Cardinality(TaskFrames)
  <2>1. q \in Nat /\ t \in Nat /\ pool \in Nat /\ queued \in Nat /\ pool + q + t = PoolSize
    BY FS_CardinalityType DEF Counts, PoolConserved
  <2> HIDE DEF q, t
  <2>2. pool \in 0 .. PoolSize
    BY <2>1
  <2>3. TxTypeOK
    BY <2>1, <2>2 DEF TxTypeOK, Typed, TxIInv, Shapes
  <2>4. SamePeer
    BY Mine DEF SamePeer, TaskOK, At
  <2> QED  BY <2>3, <2>4 DEF TxInv, TxIInv, Counts
<1> QED  BY <1>1, <1>2, <1>3, TxInvariant, PTL DEF TxSpec
=============================================================================
