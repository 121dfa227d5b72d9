---------------------------- MODULE UsbNetProofs ----------------------------
(***************************************************************************)
(* The USB transmit ring, for any depth and any finite number of senders:  *)
(* at most one kick is on its way, no frame waits for nothing, every copy  *)
(* has one owner, and the ring is a queue.                                 *)
(***************************************************************************)
EXTENDS UsbNet, FiniteSetTheorems, SequenceTheorems, TLAPS

\* The types that the kicks rest on.
KickTypes ==
  /\ n \in Nat /\ kicks \in Nat /\ held \in Nat
  /\ kickPending \in BOOLEAN
  /\ snd \in [Senders -> [pc : {"idle", "check", "alloc", "queue", "free", "kick"},
                          copy : Blocks \cup {None}]]

\* The task looks at a frame, and only the task takes one.
HeadThere == usb.pc \in {"ready", "room", "xmit", "sent", "drop", "flush"} => n > 0

KickInv == KickTypes /\ HeadThere /\ OneKick /\ NoneStuck

\* What a step does to the kicks on their way: none, one more sender with a kick to post, one
\* posted, one handled.
LEMMA KickersSame ==
  ASSUME kicks' = kicks, kickPending' = kickPending, Kickers' = Kickers, OneKick
  PROVE  OneKick'
BY DEF OneKick

LEMMA KickersFinite == IsFiniteSet(Kickers) /\ Cardinality(Kickers) \in Nat
<1>1. Kickers \subseteq Senders
  BY DEF Kickers
<1>2. IsFiniteSet(Kickers)
  BY <1>1, UsbAssumption, FS_Subset DEF UsbAssumption
<1> QED  BY <1>2, FS_CardinalityType

\* The steps of a sender that neither take up nor lay down a kick.
LEMMA SenderMoves ==
  ASSUME KickInv, NEW s \in Senders, NEW r \in [pc : {"idle", "check", "alloc", "queue", "free"},
                                                copy : Blocks \cup {None}],
         ~At(s, "kick"), snd' = [snd EXCEPT ![s] = r],
         UNCHANGED <<n, kicks, kickPending, held, bus, usb>>
  PROVE  KickInv'
<1>1. Kickers' = Kickers
  BY DEF Kickers, At, KickInv, KickTypes
<1>2. KickTypes'
  BY DEF KickInv, KickTypes
<1>3. HeadThere' /\ NoneStuck'
  BY DEF KickInv, HeadThere, NoneStuck, UsbAt
<1> QED  BY <1>1, <1>2, <1>3, KickersSame DEF KickInv

\* The steps of the TinyUSB task and of the bus that leave the senders and the kicks alone.
LEMMA TaskMoves ==
  ASSUME KickInv, held' \in Nat, n' \in Nat, UNCHANGED <<snd, kicks, kickPending>>, NoneStuck', HeadThere'
  PROVE  KickInv'
<1>1. Kickers' = Kickers
  BY DEF Kickers, At
<1>2. KickTypes'
  BY DEF KickInv, KickTypes
<1> QED  BY <1>1, <1>2, KickersSame DEF KickInv

LEMMA QueueKicks ==
  ASSUME KickInv, NEW s \in Senders, TxQueue(s)  PROVE KickInv'
<1> DEFINE here == IF kickPending THEN "idle" ELSE "kick"
<1>1. /\ At(s, "queue") /\ n' = n + 1 /\ kickPending' = TRUE
      /\ snd' = [snd EXCEPT ![s] = [pc |-> here, copy |-> None]]
      /\ UNCHANGED <<kicks, held, usb>>
  BY DEF TxQueue, outside
<1>2. KickTypes'
  BY <1>1 DEF KickInv, KickTypes
<1>3. HeadThere' /\ NoneStuck'
  BY <1>1 DEF HeadThere, NoneStuck, KickInv, KickTypes
<1>4. OneKick'
  <2>1. CASE kickPending
    <3>1. Kickers' = Kickers
      BY <1>1, <2>1 DEF Kickers, At, KickInv, KickTypes
    <3> QED  BY <1>1, <2>1, <3>1 DEF KickInv, OneKick
  <2>2. CASE ~kickPending
    <3>1. Kickers' = Kickers \cup {s} /\ s \notin Kickers
      BY <1>1, <2>2 DEF Kickers, At, KickInv, KickTypes
    <3>2. Cardinality(Kickers') = Cardinality(Kickers) + 1
      BY <3>1, KickersFinite, FS_AddElement
    <3>3. kicks + Cardinality(Kickers) = 0
      BY <2>2 DEF KickInv, OneKick
    <3>4. kicks' + Cardinality(Kickers') = 1
      BY <1>1, <3>2, <3>3, KickersFinite DEF KickInv, KickTypes
    <3> QED  BY <1>1, <3>4 DEF OneKick
  <2> QED  BY <2>1, <2>2
<1> QED  BY <1>2, <1>3, <1>4 DEF KickInv

LEMMA PostsKick ==
  ASSUME KickInv, NEW s \in Senders, TxKick(s)  PROVE KickInv'
<1>1. /\ At(s, "kick") /\ kicks' = kicks + 1
      /\ snd' = [snd EXCEPT ![s] = [pc |-> "idle", copy |-> snd[s].copy]]
      /\ UNCHANGED <<n, kickPending, held, bus, usb>>
  <2>1. snd' = [snd EXCEPT ![s] = [snd[s] EXCEPT !.pc = "idle"]]
    BY DEF TxKick, Go
  <2>2. snd[s] \in [pc : {"idle", "check", "alloc", "queue", "free", "kick"}, copy : Blocks \cup {None}]
    BY DEF KickInv, KickTypes
  <2>3. [snd[s] EXCEPT !.pc = "idle"] = [pc |-> "idle", copy |-> snd[s].copy]
    BY <2>2
  <2> QED  BY <2>1, <2>3 DEF TxKick, ringvars, flags, outside
<1>2. KickTypes'
  BY <1>1 DEF KickInv, KickTypes
<1>3. HeadThere' /\ NoneStuck'
  BY <1>1 DEF KickInv, HeadThere, NoneStuck, UsbAt
<1>4. Kickers' = Kickers \ {s} /\ s \in Kickers
  BY <1>1 DEF Kickers, At, KickInv, KickTypes
<1>5. Cardinality(Kickers') = Cardinality(Kickers) - 1
  BY <1>4, KickersFinite, FS_RemoveElement
<1>6. kicks' + Cardinality(Kickers') = kicks + Cardinality(Kickers)
  BY <1>1, <1>5, KickersFinite DEF KickInv, KickTypes
<1>7. OneKick'
  BY <1>1, <1>6 DEF KickInv, OneKick
<1> QED  BY <1>2, <1>3, <1>7 DEF KickInv

LEMMA KickHandled == KickInv /\ Kicked => KickInv'
<1> SUFFICES ASSUME KickInv, Kicked PROVE KickInv'
  OBVIOUS
<1>1. /\ kicks > 0 /\ kicks' = kicks - 1 /\ kickPending' = FALSE /\ usb'.pc = "peek"
      /\ UNCHANGED <<n, snd, held>>
  BY DEF Kicked, UsbGo, ringvars, outside
<1>2. KickTypes'
  <2>1. kicks' \in Nat
    BY <1>1 DEF KickInv, KickTypes
  <2> QED  BY <1>1, <2>1 DEF KickInv, KickTypes
<1>3. HeadThere' /\ NoneStuck'
  BY <1>1 DEF HeadThere, NoneStuck, UsbAt
<1>4. Kickers' = Kickers
  BY <1>1 DEF Kickers, At
<1>5. kicks + Cardinality(Kickers) = 1
  <2>1. CASE kickPending
    BY <2>1 DEF KickInv, OneKick
  <2>2. CASE ~kickPending
    BY <2>2, <1>1, KickersFinite DEF KickInv, KickTypes, OneKick
  <2> QED  BY <2>1, <2>2
<1>6. kicks' + Cardinality(Kickers') = 0
  BY <1>1, <1>4, <1>5, KickersFinite DEF KickInv, KickTypes
<1>7. OneKick'
  BY <1>1, <1>6 DEF OneKick
<1> QED  BY <1>2, <1>3, <1>7 DEF KickInv

\* A step of usbnet_tx that posts no kick.
LEMMA SenderKeeps ==
  ASSUME KickInv, NEW s \in Senders,
         TxStart(s) \/ TxCheckFull(s) \/ (\E b \in Blocks : TxAlloc(s, b)) \/ TxNoMem(s)
           \/ TxQueueFull(s) \/ TxFree(s)
  PROVE  KickInv'
<1> DEFINE Quick == [pc : {"idle", "check", "alloc", "queue", "free"}, copy : Blocks \cup {None}]
<1>1. snd[s] \in [pc : {"idle", "check", "alloc", "queue", "free", "kick"}, copy : Blocks \cup {None}]
  BY DEF KickInv, KickTypes
<1>2. ASSUME NEW p \in {"idle", "check", "alloc", "queue", "free"}
      PROVE  [snd[s] EXCEPT !.pc = p] \in Quick
  BY <1>1
<1>3. CASE TxStart(s)
  BY <1>2, <1>3, SenderMoves DEF TxStart, Go, At, ringvars, flags, outside
<1>4. CASE TxCheckFull(s)
  <2>1. CASE n = Depth
    BY <1>2, <1>4, <2>1, SenderMoves DEF TxCheckFull, Go, At, ringvars, flags, outside
  <2>2. CASE n # Depth
    BY <1>2, <1>4, <2>2, SenderMoves DEF TxCheckFull, Go, At, ringvars, flags, outside
  <2> QED  BY <2>1, <2>2
<1>5. ASSUME NEW b \in Blocks, TxAlloc(s, b)  PROVE KickInv'
  BY <1>5, SenderMoves DEF TxAlloc, At, ringvars, flags, outside
<1>6. CASE TxNoMem(s)
  BY <1>2, <1>6, SenderMoves DEF TxNoMem, Go, At, ringvars, flags, outside
<1>7. CASE TxQueueFull(s)
  BY <1>2, <1>7, SenderMoves DEF TxQueueFull, Go, At, ringvars, flags, outside
<1>8. CASE TxFree(s)
  BY <1>8, SenderMoves DEF TxFree, At, ringvars, flags, outside
<1> QED  BY <1>3, <1>4, <1>5, <1>6, <1>7, <1>8

\* A step of the TinyUSB task other than the handling of a kick, or of the bus.
LEMMA TaskKeeps ==
  ASSUME KickInv,
         Working \/ XferDone \/ NotifyDone \/ XferOut \/ Detached \/ Attached \/ Suspend \/ Resume \/ Unplug
  PROVE  KickInv'
<1> USE DEF KickInv, KickTypes, HeadThere, NoneStuck, UsbAt, UsbGo, ringvars, flags, outside
<1>1. CASE Peek
  BY <1>1, TaskMoves DEF Peek
<1>2. CASE AskReady
  BY <1>2, TaskMoves DEF AskReady, TudReady
<1>3. CASE CanXmit
  BY <1>3, TaskMoves, UsbAssumption DEF CanXmit, UsbAssumption
<1>4. CASE Xmit
  BY <1>4, TaskMoves DEF Xmit
<1>5. CASE Pop
  BY <1>5, TaskMoves DEF Pop
<1>6. CASE FreePopped
  BY <1>6, TaskMoves DEF FreePopped
<1>7. CASE FlushPeek
  BY <1>7, TaskMoves DEF FlushPeek
<1>8. CASE XferDone
  BY <1>8, TaskMoves DEF XferDone
<1>9. CASE XferOut
  BY <1>9, TaskMoves DEF XferOut
<1>10. CASE Detached
  BY <1>10, TaskMoves DEF Detached
<1>11. CASE Attached
  BY <1>11, TaskMoves DEF Attached
<1>12. CASE Suspend \/ Resume \/ Unplug
  BY <1>12, TaskMoves DEF Suspend, Resume, Unplug, Bus
<1>13. CASE NotifyDone
  BY <1>13, TaskMoves DEF NotifyDone
<1> QED  BY <1>1, <1>2, <1>3, <1>4, <1>5, <1>6, <1>7, <1>8, <1>9, <1>10, <1>11, <1>12, <1>13 DEF Working

LEMMA InitKickInv == Init => KickInv
<1> SUFFICES ASSUME Init PROVE KickInv
  OBVIOUS
<1>1. KickTypes /\ HeadThere /\ NoneStuck
  BY DEF Init, KickTypes, HeadThere, NoneStuck
<1>2. Kickers = {}
  BY DEF Init, Kickers, At
<1>3. OneKick
  BY <1>2, FS_EmptySet DEF Init, OneKick
<1> QED  BY <1>1, <1>3 DEF KickInv

LEMMA NextKickInv == KickInv /\ [Next]_vars => KickInv'
<1> SUFFICES ASSUME KickInv, [Next]_vars PROVE KickInv'
  OBVIOUS
<1>1. ASSUME NEW s \in Senders, TxStart(s) \/ TxStep(s)  PROVE KickInv'
  BY <1>1, SenderKeeps, QueueKicks, PostsKick DEF TxStep
<1>2. CASE Working \/ Waking \/ Suspend \/ Resume \/ Unplug
  BY <1>2, TaskKeeps, KickHandled DEF Waking
<1>3. CASE UNCHANGED vars
  <2>1. UNCHANGED <<snd, kicks, kickPending, n, held, bus, usb>>
    BY <1>3 DEF vars, ringvars, flags, outside
  <2>2. NoneStuck' /\ HeadThere' /\ held' \in Nat /\ n' \in Nat
    BY <2>1 DEF KickInv, KickTypes, NoneStuck, HeadThere, UsbAt
  <2> QED  BY <2>1, <2>2, TaskMoves
<1> QED  BY <1>1, <1>2, <1>3 DEF Next

\* usbnet_tx posts a kick only when none is queued, and the TinyUSB task clears the flag when
\* it starts one: however many tasks send, at most one kick is on its way, the flag is set
\* exactly while one is, and its event queue cannot fill.
THEOREM OneKickAtMost == Spec => []OneKick
<1>1. KickInv => OneKick
  BY DEF KickInv
<1> QED  BY <1>1, InitKickInv, NextKickInv, PTL DEF Spec

\* A frame in the ring always has a kick, a completion or an unplug coming, or the task on its
\* way: a sender that posts no kick, and a pump that stops at a full class, leave it to one.
THEOREM NoFrameStuck == Spec => []NoneStuck
<1>1. KickInv => NoneStuck
  BY DEF KickInv
<1> QED  BY <1>1, InitKickInv, NextKickInv, PTL DEF Spec

-----------------------------------------------------------------------------
(***************************************************************************)
(* The copies: each in the ring, with a sender or being freed, and in one  *)
(* of those only.  The ring is seen as the queue it stands for (Fifo).     *)
(***************************************************************************)
Waiting == {Fifo[i] : i \in 1 .. n}

\* Each copy is in one place.
Placed ==
  /\ \A i \in 1 .. n : Fifo[i] \in Blocks
  /\ \A i, j \in 1 .. n : Fifo[i] = Fifo[j] => i = j
  /\ \A s, t \in Senders : snd[s].copy = snd[t].copy => s = t \/ snd[s].copy = None
  /\ Popped \subseteq Blocks
  /\ Popped \cap Waiting = {} /\ Popped \cap Copies = {} /\ Copies \cap Waiting = {}
  /\ heap = Waiting \cup Popped \cup Copies
HasCopy == \A s \in Senders : snd[s].copy # None <=> snd[s].pc \in {"queue", "free"}

\* A flag that is set has a transfer still to complete, also the one pop_ is about to set;
\* what the task hands over fits.
Busy ==
  /\ BusyEnds
  /\ UsbAt("sent") => held > 0
  /\ UsbAt("xmit") => held < ClassRoom

RingInv == TypeOK /\ HeadThere /\ HeadStays /\ Busy /\ HasCopy /\ Placed

\* Where the positions of a ring of Depth lie.
LEMMA PosWraps ==
  ASSUME NEW h \in 0 .. Depth - 1, NEW i \in 0 .. Depth
  PROVE  (h + i) % Depth = IF h + i < Depth THEN h + i ELSE h + i - Depth
<1>1. \A d \in Nat, a \in Nat : d > 0 /\ a < d => a % d = a
  OBVIOUS
<1>2. \A d \in Nat, a \in Nat : d > 0 /\ a < d => (a + d) % d = a
  OBVIOUS
<1>3. Depth \in Nat /\ Depth > 0
  BY UsbAssumption DEF UsbAssumption
<1>4. CASE h + i < Depth
  BY <1>1, <1>3, <1>4
<1>5. CASE h + i >= Depth
  <2> DEFINE a == h + i - Depth
  <2>1. a \in Nat /\ a < Depth /\ a + Depth = h + i
    BY <1>3, <1>5
  <2>2. (a + Depth) % Depth = a
    BY <1>2, <1>3, <2>1
  <2> QED  BY <1>3, <1>5, <2>1, <2>2
<1> QED  BY <1>3, <1>4, <1>5

LEMMA PosApart ==
  ASSUME NEW h \in 0 .. Depth - 1, NEW i \in 0 .. Depth - 1, NEW j \in 0 .. Depth - 1
  PROVE  /\ (h + i) % Depth \in 0 .. Depth - 1
         /\ (h + i) % Depth = (h + j) % Depth => i = j
<1>1. Depth \in Nat /\ Depth > 0
  BY UsbAssumption DEF UsbAssumption
<1>2. /\ (h + i) % Depth = IF h + i < Depth THEN h + i ELSE h + i - Depth
      /\ (h + j) % Depth = IF h + j < Depth THEN h + j ELSE h + j - Depth
  BY <1>1, PosWraps
<1> QED  BY <1>1, <1>2

LEMMA PosMoves ==
  ASSUME NEW h \in 0 .. Depth - 1, NEW i \in 0 .. Depth - 1
  PROVE  /\ (h + 1) % Depth \in 0 .. Depth - 1
         /\ (((h + 1) % Depth) + i) % Depth = (h + (i + 1)) % Depth
<1>1. Depth \in Nat /\ Depth > 0
  BY UsbAssumption DEF UsbAssumption
<1> DEFINE g == (h + 1) % Depth
<1>2. g = IF h + 1 < Depth THEN h + 1 ELSE 0
  BY <1>1, PosWraps
<1>3. g \in 0 .. Depth - 1
  BY <1>1, <1>2
<1>4. (g + i) % Depth = IF g + i < Depth THEN g + i ELSE g + i - Depth
  BY <1>1, <1>3, PosWraps
<1>5. (h + (i + 1)) % Depth = IF h + (i + 1) < Depth THEN h + (i + 1) ELSE h + (i + 1) - Depth
  BY <1>1, PosWraps
<1> HIDE DEF g
<1>6. (g + i) % Depth = (h + (i + 1)) % Depth
  BY <1>1, <1>2, <1>4, <1>5
<1> QED  BY <1>3, <1>6 DEF g

\* What the ring's steps do to the queue.
LEMMA FifoItems ==
  ASSUME TypeOK
  PROVE  /\ Fifo = [i \in 1 .. n |-> Fifo[i]]
         /\ n > 0 => Fifo[1] = ring[head]
<1>1. Depth \in Nat /\ Depth > 0 /\ head \in 0 .. Depth - 1 /\ n \in 0 .. Depth
  BY UsbAssumption DEF UsbAssumption, TypeOK
<1>2. (head + (1 - 1)) % Depth = head
  BY <1>1, PosWraps
<1> QED  BY <1>1, <1>2 DEF Fifo, Pos

LEMMA FifoPushed ==
  ASSUME TypeOK, n < Depth, NEW b, ring' = [ring EXCEPT ![Pos(n)] = b], n' = n + 1, head' = head
  PROVE  Fifo' = [i \in 1 .. n + 1 |-> IF i = n + 1 THEN b ELSE Fifo[i]]
<1>1. Depth \in Nat /\ Depth > 0 /\ head \in 0 .. Depth - 1 /\ n \in 0 .. Depth - 1
      /\ ring \in [0 .. Depth - 1 -> Blocks \cup {None}]
  BY UsbAssumption DEF UsbAssumption, TypeOK
<1>2. \A i \in 0 .. n : /\ (head + i) % Depth \in 0 .. Depth - 1
                        /\ (head + i) % Depth = (head + n) % Depth => i = n
  BY <1>1, PosApart
<1>3. \A i \in 0 .. n :
        ring'[(head + i) % Depth] = IF i = n THEN b ELSE ring[(head + i) % Depth]
  BY <1>1, <1>2 DEF Pos
<1>4. Fifo' = [i \in 1 .. n + 1 |-> ring'[(head + (i - 1)) % Depth]]
  BY DEF Fifo, Pos
<1>5. Fifo = [i \in 1 .. n |-> ring[(head + (i - 1)) % Depth]]
  BY DEF Fifo, Pos
<1>6. ASSUME NEW i \in 1 .. n + 1
      PROVE  ring'[(head + (i - 1)) % Depth] = IF i = n + 1 THEN b ELSE Fifo[i]
  <2>1. i - 1 \in 0 .. n /\ (i - 1 = n <=> i = n + 1) /\ (i # n + 1 => i \in 1 .. n)
    BY <1>1
  <2>2. ring'[(head + (i - 1)) % Depth] = IF i - 1 = n THEN b ELSE ring[(head + (i - 1)) % Depth]
    BY <1>3, <2>1
  <2> QED  BY <1>5, <2>1, <2>2
<1> QED  BY <1>4, <1>6

LEMMA FifoPopped ==
  ASSUME TypeOK, n > 0, ring' = ring, n' = n - 1, head' = (head + 1) % Depth
  PROVE  Fifo' = [i \in 1 .. n - 1 |-> Fifo[i + 1]]
<1>1. Depth \in Nat /\ Depth > 0 /\ head \in 0 .. Depth - 1 /\ n \in 1 .. Depth
  BY UsbAssumption DEF UsbAssumption, TypeOK
<1>2. \A i \in 0 .. Depth - 1 : (((head + 1) % Depth) + i) % Depth = (head + (i + 1)) % Depth
  BY <1>1, PosMoves
<1>3. Fifo' = [i \in 1 .. n - 1 |-> ring[(((head + 1) % Depth) + (i - 1)) % Depth]]
  BY DEF Fifo, Pos
<1>4. Fifo = [i \in 1 .. n |-> ring[(head + (i - 1)) % Depth]]
  BY DEF Fifo, Pos
<1>5. ASSUME NEW i \in 1 .. n - 1
      PROVE  ring[(((head + 1) % Depth) + (i - 1)) % Depth] = Fifo[i + 1]
  <2>1. i - 1 \in 0 .. Depth - 1 /\ i + 1 \in 1 .. n /\ (i - 1) + 1 = (i + 1) - 1
    BY <1>1
  <2>2. (((head + 1) % Depth) + (i - 1)) % Depth = (head + ((i - 1) + 1)) % Depth
    BY <1>2, <2>1
  <2> QED  BY <1>4, <2>1, <2>2
<1> QED  BY <1>3, <1>5

\* A step that leaves the ring and the copies where they are.
LEMMA PlacesStay ==
  ASSUME Placed, UNCHANGED <<ring, head, n, heap>>, Popped' = Popped,
         \A s \in Senders : snd'[s].copy = snd[s].copy
  PROVE  Placed'
<1>1. Fifo' = Fifo /\ n' = n
  BY DEF Fifo, Pos
<1>2. Waiting' = Waiting
  BY <1>1 DEF Waiting
<1>3. Copies' = Copies
  BY DEF Copies
<1> QED  BY <1>1, <1>2, <1>3 DEF Placed

\* A copy allocated by a sender that has none, and one freed.
LEMMA PlacedAlloc ==
  ASSUME TypeOK, HasCopy, Placed, NEW s \in Senders, NEW b \in Blocks, TxAlloc(s, b)
  PROVE  Placed'
<1>1. /\ b \notin heap /\ heap' = heap \cup {b} /\ UNCHANGED <<ring, head, n, usb>>
      /\ snd' = [snd EXCEPT ![s] = [pc |-> "queue", copy |-> b]]
      /\ snd[s].copy = None
  BY DEF TxAlloc, At, ringvars, HasCopy
<1>2. Fifo' = Fifo /\ Waiting' = Waiting /\ Popped' = Popped
  BY <1>1 DEF Fifo, Pos, Waiting, Popped
<1>3. \A t \in Senders : snd'[t].copy = IF t = s THEN b ELSE snd[t].copy
  BY <1>1 DEF TypeOK
<1>4. b # None /\ \A t \in Senders : snd[t].copy # b
  BY <1>1, UsbAssumption DEF UsbAssumption, Placed, Copies
<1>5. Copies' = Copies \cup {b}
  BY <1>1, <1>3, <1>4 DEF Copies
<1>6. \A t, u \in Senders : snd'[t].copy = snd'[u].copy => t = u \/ snd'[t].copy = None
  BY <1>3, <1>4 DEF Placed
<1> QED  BY <1>1, <1>2, <1>5, <1>6 DEF Placed

LEMMA PlacedFree ==
  ASSUME TypeOK, HasCopy, Placed, NEW s \in Senders, TxFree(s)
  PROVE  Placed'
<1> DEFINE b == snd[s].copy
<1>1. /\ heap' = heap \ {b} /\ UNCHANGED <<ring, head, n, usb>> /\ b # None
      /\ snd' = [snd EXCEPT ![s] = [pc |-> "idle", copy |-> None]]
  BY DEF TxFree, At, ringvars, HasCopy
<1>2. Fifo' = Fifo /\ Waiting' = Waiting /\ Popped' = Popped
  BY <1>1 DEF Fifo, Pos, Waiting, Popped
<1>3. \A t \in Senders : snd'[t].copy = IF t = s THEN None ELSE snd[t].copy
  BY <1>1 DEF TypeOK
<1>4. b \in Copies /\ \A t \in Senders : snd[t].copy = b => t = s
  BY <1>1 DEF Placed, Copies
<1>5. Copies' = Copies \ {b}
  BY <1>3, <1>4 DEF Copies
<1>6. \A t, u \in Senders : snd'[t].copy = snd'[u].copy => t = u \/ snd'[t].copy = None
  BY <1>3 DEF Placed
<1>7. heap' = Waiting \cup Popped \cup (Copies \ {b})
  BY <1>1, <1>4 DEF Placed
<1> QED  BY <1>1, <1>2, <1>4, <1>5, <1>6, <1>7 DEF Placed

\* A copy moves from its sender to the end of the ring.
LEMMA PlacedQueue ==
  ASSUME TypeOK, HasCopy, Placed, NEW s \in Senders, TxQueue(s)
  PROVE  Placed'
<1> DEFINE b == snd[s].copy
<1>1. /\ n < Depth /\ n \in Nat /\ n' = n + 1 /\ head' = head /\ heap' = heap /\ UNCHANGED usb
      /\ ring' = [ring EXCEPT ![Pos(n)] = b]
      /\ \A t \in Senders : snd'[t].copy = IF t = s THEN None ELSE snd[t].copy
  BY DEF TxQueue, TypeOK
<1>2. b # None /\ b \in Copies /\ b \in Blocks
  BY DEF TxQueue, At, HasCopy, Copies, TypeOK
<1>3. Fifo' = [i \in 1 .. n + 1 |-> IF i = n + 1 THEN b ELSE Fifo[i]]
  BY <1>1, FifoPushed
<1>4. Waiting' = Waiting \cup {b}
  BY <1>1, <1>3 DEF Waiting
<1>5. Copies' = Copies \ {b}
  BY <1>1, <1>2 DEF Copies, Placed
<1>6. Popped' = Popped
  BY <1>1 DEF Popped
<1>7. b \notin Waiting /\ b \notin Popped
  BY <1>2 DEF Placed
<1>8. \A i \in 1 .. n : Fifo[i] # b
  BY <1>7 DEF Waiting
<1>9. \A i, j \in 1 .. n' : Fifo'[i] = Fifo'[j] => i = j
  BY <1>1, <1>3, <1>8 DEF Placed
<1>10. \A i \in 1 .. n' : Fifo'[i] \in Blocks
  BY <1>1, <1>2, <1>3 DEF Placed
<1>11. \A t, u \in Senders : snd'[t].copy = snd'[u].copy => t = u \/ snd'[t].copy = None
  BY <1>1 DEF Placed
<1>12. heap' = Waiting' \cup Popped' \cup Copies'
  BY <1>1, <1>2, <1>4, <1>5, <1>6 DEF Placed
<1> QED  BY <1>2, <1>4, <1>5, <1>6, <1>7, <1>9, <1>10, <1>11, <1>12 DEF Placed

\* The head leaves the ring for the task, which frees it.
LEMMA PlacedPop ==
  ASSUME TypeOK, HeadThere, Placed, Pop
  PROVE  Placed'
<1> DEFINE b == ring[head]
<1>1. /\ n \in Nat /\ n > 0 /\ n' = n - 1 /\ head' = (head + 1) % Depth /\ ring' = ring
      /\ heap' = heap /\ snd' = snd
  BY DEF Pop, HeadThere, TypeOK
<1>2. Fifo' = [i \in 1 .. n - 1 |-> Fifo[i + 1]]
  BY <1>1, FifoPopped
<1>3. Fifo[1] = b /\ 1 \in 1 .. n
  BY <1>1, FifoItems
<1>4. Popped = {} /\ Popped' = {b}
  BY DEF Pop, Popped, UsbGo, UsbAt
<1>5. Copies' = Copies
  BY <1>1 DEF Copies
<1>6. \A i \in 1 .. n : Fifo[i] = b => i = 1
  BY <1>3 DEF Placed
<1>7. Waiting' = Waiting \ {b}
  <2>1. ASSUME NEW x \in Waiting'  PROVE x \in Waiting \ {b}
    <3>1. PICK i \in 1 .. n - 1 : x = Fifo[i + 1]
      BY <1>1, <1>2 DEF Waiting
    <3>2. i + 1 \in 1 .. n /\ i + 1 # 1
      BY <1>1
    <3> QED  BY <1>6, <3>1, <3>2 DEF Waiting
  <2>2. ASSUME NEW x \in Waiting \ {b}  PROVE x \in Waiting'
    <3>1. PICK i \in 1 .. n : x = Fifo[i]
      BY DEF Waiting
    <3>2. i # 1
      BY <1>3, <3>1
    <3>3. i - 1 \in 1 .. n - 1 /\ (i - 1) + 1 = i
      BY <1>1, <3>2
    <3>4. Fifo'[i - 1] = x /\ i - 1 \in 1 .. n'
      BY <1>1, <1>2, <3>1, <3>3
    <3> QED  BY <3>4 DEF Waiting
  <2> QED  BY <2>1, <2>2
<1>8. b \in Waiting /\ b \in Blocks
  BY <1>3 DEF Waiting, Placed
<1>9. ASSUME NEW i \in 1 .. n', NEW j \in 1 .. n'
      PROVE  Fifo'[i] \in Blocks /\ (Fifo'[i] = Fifo'[j] => i = j)
  <2>1. i + 1 \in 1 .. n /\ j + 1 \in 1 .. n /\ Fifo'[i] = Fifo[i + 1] /\ Fifo'[j] = Fifo[j + 1]
    BY <1>1, <1>2
  <2>2. Fifo[i + 1] \in Blocks /\ (Fifo[i + 1] = Fifo[j + 1] => i + 1 = j + 1)
    BY <2>1 DEF Placed
  <2> QED  BY <2>1, <2>2
<1>10. heap' = Waiting' \cup Popped' \cup Copies'
  BY <1>1, <1>4, <1>5, <1>7, <1>8 DEF Placed
<1>11. b \notin Copies
  BY <1>8 DEF Placed
<1> QED  BY <1>1, <1>4, <1>5, <1>7, <1>8, <1>9, <1>10, <1>11 DEF Placed

LEMMA PlacedFreed ==
  ASSUME Placed, FreePopped
  PROVE  Placed'
<1>1. UNCHANGED <<ring, head, n, snd>> /\ heap' = heap \ {usb.f}
      /\ Popped = {usb.f} /\ Popped' = {}
  BY DEF FreePopped, ringvars, Popped, UsbGo, UsbAt
<1>2. Fifo' = Fifo /\ Waiting' = Waiting /\ Copies' = Copies
  BY <1>1 DEF Fifo, Pos, Waiting, Copies
<1>3. heap' = Waiting \cup Copies
  BY <1>1 DEF Placed
<1> QED  BY <1>1, <1>2, <1>3 DEF Placed

SenderType == [pc : {"idle", "check", "alloc", "queue", "free", "kick"}, copy : Blocks \cup {None}]

\* A step of a sender that touches neither the ring nor the heap.
LEMMA RingSenderMoves ==
  ASSUME RingInv, NEW s \in Senders, NEW p \in {"idle", "check", "alloc", "free"},
         Go(s, p), p = "free" <=> snd[s].pc = "queue", snd[s].pc # "free",
         kicks' \in Nat, UNCHANGED <<ring, head, n, flags, heap, usb, outside>>
  PROVE  RingInv'
<1>1. snd[s] \in SenderType /\ snd' = [snd EXCEPT ![s] = [snd[s] EXCEPT !.pc = p]]
  BY DEF RingInv, TypeOK, SenderType, Go
<1>2. [snd[s] EXCEPT !.pc = p] \in SenderType
      /\ [snd[s] EXCEPT !.pc = p].copy = snd[s].copy /\ [snd[s] EXCEPT !.pc = p].pc = p
  BY <1>1 DEF SenderType
<1>3. /\ \A t \in Senders : snd'[t].copy = snd[t].copy
      /\ \A t \in Senders : snd'[t].pc = IF t = s THEN p ELSE snd[t].pc
      /\ snd' \in [Senders -> SenderType]
  BY <1>1, <1>2 DEF RingInv, TypeOK, SenderType
<1>4. UNCHANGED <<kickPending, txBusy, held, notify, bus>>
  BY DEF flags, outside
<1>5. TypeOK'
  BY <1>3, <1>4 DEF RingInv, TypeOK, SenderType
<1>6. HeadThere' /\ HeadStays' /\ Busy'
  BY <1>4 DEF RingInv, HeadThere, HeadStays, Busy, BusyEnds, UsbAt
<1>7. HasCopy'
  BY <1>3 DEF RingInv, HasCopy
<1>8. Popped' = Popped
  BY DEF Popped
<1>9. Placed'
  BY <1>3, <1>8, PlacesStay DEF RingInv
<1> QED  BY <1>5, <1>6, <1>7, <1>9 DEF RingInv

\* A step of a sender with a copy in hand.
LEMMA RingCopyMoves ==
  ASSUME RingInv, NEW s \in Senders, NEW r \in SenderType, snd' = [snd EXCEPT ![s] = r],
         r.copy # None <=> r.pc \in {"queue", "free"},
         heap' \subseteq Blocks, ring' \in [0 .. Depth - 1 -> Blocks \cup {None}],
         n' \in 0 .. Depth, kickPending' \in BOOLEAN, n' >= n, ring'[head] = ring[head] \/ n = 0,
         UNCHANGED <<head, txBusy, kicks, usb, held, notify, bus>>, Placed'
  PROVE  RingInv'
<1>1. TypeOK'
  BY DEF RingInv, TypeOK, SenderType
<1>2. HasCopy'
  BY DEF RingInv, HasCopy, TypeOK
<1>3. HeadThere' /\ HeadStays' /\ Busy'
  BY DEF RingInv, HeadThere, HeadStays, Busy, BusyEnds, UsbAt, TypeOK
<1> QED  BY <1>1, <1>2, <1>3 DEF RingInv

LEMMA RingSender ==
  ASSUME RingInv, NEW s \in Senders, TxStart(s) \/ TxStep(s)
  PROVE  RingInv'
<1>1. /\ snd[s] \in SenderType /\ kicks \in Nat /\ kicks + 1 \in Nat /\ n \in 0 .. Depth
      /\ heap \subseteq Blocks /\ ring \in [0 .. Depth - 1 -> Blocks \cup {None}]
      /\ kickPending \in BOOLEAN /\ head \in 0 .. Depth - 1 /\ Depth \in Nat
      /\ snd[s].copy # None <=> snd[s].pc \in {"queue", "free"}
  BY UsbAssumption DEF RingInv, TypeOK, SenderType, HasCopy, UsbAssumption
<1>2. CASE TxStart(s)
  BY <1>1, <1>2, RingSenderMoves DEF TxStart, At, ringvars
<1>3. CASE TxCheckFull(s)
  <2>1. CASE n = Depth
    BY <1>1, <1>3, <2>1, RingSenderMoves DEF TxCheckFull, At, ringvars
  <2>2. CASE n # Depth
    BY <1>1, <1>3, <2>2, RingSenderMoves DEF TxCheckFull, At, ringvars
  <2> QED  BY <2>1, <2>2
<1>4. CASE TxNoMem(s)
  BY <1>1, <1>4, RingSenderMoves DEF TxNoMem, At, ringvars
<1>5. CASE TxQueueFull(s)
  BY <1>1, <1>5, RingSenderMoves DEF TxQueueFull, At, ringvars
<1>6. CASE TxKick(s)
  BY <1>1, <1>6, RingSenderMoves DEF TxKick, At, ringvars
<1>7. ASSUME NEW b \in Blocks, TxAlloc(s, b)  PROVE RingInv'
  <2> DEFINE r == [pc |-> "queue", copy |-> b]
  <2>1. r \in SenderType /\ r.copy # None /\ r.pc = "queue"
    BY UsbAssumption DEF SenderType, UsbAssumption
  <2>2. Placed'
    BY <1>7, PlacedAlloc DEF RingInv
  <2>3. snd' = [snd EXCEPT ![s] = r] /\ heap' \subseteq Blocks
    BY <1>1, <1>7 DEF TxAlloc
  <2>4. UNCHANGED <<ring, n, kickPending>> /\ UNCHANGED <<head, txBusy, kicks, usb, held, notify, bus>>
    BY <1>7 DEF TxAlloc, ringvars, flags, outside
  <2>5. /\ ring' \in [0 .. Depth - 1 -> Blocks \cup {None}] /\ ring'[head] = ring[head]
        /\ n' \in 0 .. Depth /\ n' >= n /\ kickPending' \in BOOLEAN
    BY <1>1, <2>4
  <2>6. r.copy # None <=> r.pc \in {"queue", "free"}
    BY <2>1
  <2> HIDE DEF r
  <2> QED  BY <2>1, <2>2, <2>3, <2>4, <2>5, <2>6, RingCopyMoves
<1>8. CASE TxFree(s)
  <2> DEFINE r == [pc |-> "idle", copy |-> None]
  <2>1. r \in SenderType /\ r.copy = None /\ r.pc = "idle"
    BY DEF SenderType
  <2>2. Placed'
    BY <1>8, PlacedFree DEF RingInv
  <2>3. snd' = [snd EXCEPT ![s] = r] /\ heap' \subseteq Blocks
    BY <1>1, <1>8 DEF TxFree
  <2>4. UNCHANGED <<ring, n, kickPending>> /\ UNCHANGED <<head, txBusy, kicks, usb, held, notify, bus>>
    BY <1>8 DEF TxFree, ringvars, flags, outside
  <2>5. /\ ring' \in [0 .. Depth - 1 -> Blocks \cup {None}] /\ ring'[head] = ring[head]
        /\ n' \in 0 .. Depth /\ n' >= n /\ kickPending' \in BOOLEAN
    BY <1>1, <2>4
  <2>6. r.copy # None <=> r.pc \in {"queue", "free"}
    BY <2>1
  <2> HIDE DEF r
  <2> QED  BY <2>1, <2>2, <2>3, <2>4, <2>5, <2>6, RingCopyMoves
<1>9. CASE TxQueue(s)
  <2> DEFINE r == [pc |-> IF kickPending THEN "idle" ELSE "kick", copy |-> None]
  <2>1. r \in SenderType /\ r.copy = None /\ r.pc \notin {"queue", "free"}
    BY DEF SenderType
  <2>2. Placed'
    BY <1>9, PlacedQueue DEF RingInv
  <2>3. /\ snd' = [snd EXCEPT ![s] = r] /\ heap' \subseteq Blocks
        /\ n' \in 0 .. Depth /\ n' >= n /\ kickPending' \in BOOLEAN
    BY <1>1, <1>9 DEF TxQueue
  <2>4. ring' \in [0 .. Depth - 1 -> Blocks \cup {None}]
    BY <1>1, <1>9 DEF TxQueue, SenderType
  <2>5. ring'[head] = ring[head] \/ n = 0
    <3>1. SUFFICES ASSUME n # 0  PROVE ring'[head] = ring[head]
      OBVIOUS
    <3>2. n \in 0 .. Depth - 1 /\ 0 \in 0 .. Depth - 1
      BY <1>1, <1>9 DEF TxQueue
    <3>3. (head + 0) % Depth = head
      <4>1. 0 \in 0 .. Depth /\ head + 0 = head /\ head + 0 < Depth
        BY <1>1, <3>2
      <4> QED  BY <1>1, <4>1, PosWraps
    <3>4. (head + n) % Depth # head
      BY <1>1, <3>1, <3>2, <3>3, PosApart
    <3> QED  BY <1>1, <1>9, <3>4 DEF TxQueue, Pos
  <2>6. UNCHANGED <<head, txBusy, kicks, usb, held, notify, bus>>
    BY <1>9 DEF TxQueue, outside
  <2> HIDE DEF r
  <2> QED  BY <1>1, <2>1, <2>2, <2>3, <2>4, <2>5, <2>6, RingCopyMoves
<1> QED  BY <1>2, <1>3, <1>4, <1>5, <1>6, <1>7, <1>8, <1>9 DEF TxStep

TaskType == [pc : {"idle", "peek", "ready", "room", "xmit", "sent", "drop", "free", "flushpeek",
                   "flush", "freeflush"}, f : Blocks \cup {None}]

\* A step of the TinyUSB task or the bus that leaves the ring and the copies alone.
LEMMA RingTaskMoves ==
  ASSUME RingInv, UNCHANGED <<ringvars, heap, snd>>, Popped' = Popped,
         usb' \in TaskType, held' \in 0 .. ClassRoom, notify' \in BOOLEAN, txBusy' \in BOOLEAN,
         kickPending' \in BOOLEAN,
         kicks' \in Nat, bus' \in {"on", "suspended", "gone", "off"},
         HeadThere', HeadStays', Busy'
  PROVE  RingInv'
<1>1. UNCHANGED <<ring, head, n, heap>> /\ \A s \in Senders : snd'[s].copy = snd[s].copy
  BY DEF ringvars
<1>2. Placed'
  BY <1>1, PlacesStay DEF RingInv
<1>3. TypeOK'
  BY <1>1 DEF RingInv, TypeOK, TaskType
<1>4. HasCopy'
  BY DEF RingInv, HasCopy
<1> QED  BY <1>2, <1>3, <1>4 DEF RingInv

\* The same where the class and the bus stand still.
LEMMA RingPcMoves ==
  ASSUME RingInv, NEW p \in {"idle", "peek", "ready", "room", "xmit", "sent", "drop", "flushpeek", "flush"},
         NEW f \in Blocks \cup {None}, usb' = [pc |-> p, f |-> f],
         UNCHANGED <<ringvars, heap, snd>>, usb.pc \notin {"free", "freeflush"},
         held' \in 0 .. ClassRoom, notify' \in BOOLEAN, txBusy' \in BOOLEAN, kickPending' \in BOOLEAN,
         kicks' \in Nat, bus' \in {"on", "suspended", "gone", "off"},
         p \in {"ready", "room", "xmit", "sent", "drop", "flush"} => n > 0,
         p \in {"ready", "room", "xmit", "sent", "drop"} => ring[head] = f,
         txBusy' => held' > 0 \/ notify', p = "sent" => held' > 0,
         p = "xmit" => held' < ClassRoom
  PROVE  RingInv'
<1>1. usb'.pc = p /\ usb'.f = f /\ usb' \in TaskType
  BY DEF TaskType
<1>2. Popped = {} /\ Popped' = {}
  BY <1>1 DEF Popped
<1>3. HeadThere' /\ HeadStays'
  BY <1>1 DEF HeadThere, HeadStays, ringvars
<1>4. Busy'
  BY <1>1 DEF Busy, BusyEnds, UsbAt
<1> QED  BY <1>1, <1>2, <1>3, <1>4, RingTaskMoves

LEMMA RingWorking ==
  ASSUME RingInv, Working
  PROVE  RingInv'
<1>1. /\ usb \in TaskType /\ held \in 0 .. ClassRoom
      /\ notify \in BOOLEAN /\ txBusy \in BOOLEAN /\ kickPending \in BOOLEAN
      /\ kicks \in Nat /\ bus \in {"on", "suspended", "gone", "off"} /\ ClassRoom \in Nat
      /\ ring \in [0 .. Depth - 1 -> Blocks \cup {None}] /\ head \in 0 .. Depth - 1
      /\ n \in 0 .. Depth /\ Depth \in Nat
  BY UsbAssumption DEF RingInv, TypeOK, TaskType, UsbAssumption
<1>2. /\ usb.pc \in {"ready", "room", "xmit", "sent", "drop"} => n > 0 /\ ring[head] = usb.f
      /\ usb.pc = "flush" => n > 0
  BY DEF RingInv, HeadStays, HeadThere
<1>3. /\ txBusy => held > 0 \/ notify
      /\ usb.pc = "sent" => held > 0
      /\ usb.pc = "xmit" => held < ClassRoom
  BY DEF RingInv, Busy, BusyEnds, UsbAt
<1>4. usb.f \in Blocks \cup {None} /\ ring[head] \in Blocks \cup {None}
  BY <1>1 DEF TaskType
<1>5. CASE Peek
  <2>1. UNCHANGED <<ringvars, heap, snd>>
        /\ UNCHANGED <<held, notify, txBusy, kickPending, kicks, bus>> /\ usb.pc = "peek"
    BY <1>5 DEF Peek, UsbAt, flags, outside
  <2>2. CASE n > 0
    BY <1>1, <1>3, <1>4, <1>5, <2>1, <2>2, RingPcMoves DEF Peek, UsbGo
  <2>3. CASE ~(n > 0)
    BY <1>1, <1>3, <1>4, <1>5, <2>1, <2>3, RingPcMoves DEF Peek, UsbGo
  <2> QED  BY <2>2, <2>3
<1>6. CASE AskReady
  <2>1. UNCHANGED <<ringvars, heap, snd>>
        /\ UNCHANGED <<held, notify, txBusy, kickPending, kicks, bus>> /\ usb.pc = "ready"
    BY <1>6 DEF AskReady, UsbAt, flags, outside
  <2>2. CASE TudReady
    <3>1. bus = "on"
      BY <2>2 DEF TudReady
    <3>2. usb' = [pc |-> "room", f |-> usb.f]
      BY <1>6, <2>2 DEF AskReady, UsbGo
    <3> QED  BY <1>1, <1>2, <1>3, <1>4, <2>1, <3>1, <3>2, RingPcMoves
  <2>3. CASE ~TudReady
    <3>1. usb' = [pc |-> "drop", f |-> usb.f]
      BY <1>6, <2>3 DEF AskReady, UsbGo
    <3> QED  BY <1>1, <1>2, <1>3, <1>4, <2>1, <3>1, RingPcMoves
  <2> QED  BY <2>2, <2>3
<1>7. CASE CanXmit
  <2>1. UNCHANGED <<ringvars, heap, snd>>
        /\ UNCHANGED <<held, notify, txBusy, kickPending, kicks, bus>> /\ usb.pc = "room"
    BY <1>7 DEF CanXmit, UsbAt, flags, outside
  <2>2. CASE held < ClassRoom
    <3>1. usb' = [pc |-> "xmit", f |-> usb.f]
      BY <1>7, <2>2 DEF CanXmit, UsbGo
    <3> QED  BY <1>1, <1>2, <1>3, <1>4, <2>1, <2>2, <3>1, RingPcMoves
  <2>3. CASE ~(held < ClassRoom)
    <3>1. usb' = [pc |-> "idle", f |-> None]
      BY <1>7, <2>3 DEF CanXmit, UsbGo
    <3> QED  BY <1>1, <1>3, <2>1, <3>1, RingPcMoves
  <2> QED  BY <2>2, <2>3
<1>8. CASE Xmit
  <2>1. UNCHANGED <<ringvars, heap, snd>>
        /\ UNCHANGED <<txBusy, kickPending, kicks, notify, bus>> /\ usb.pc = "xmit"
    BY <1>8 DEF Xmit, UsbAt, flags
  <2>2. held' \in 0 .. ClassRoom /\ held' > 0 /\ usb' = [pc |-> "sent", f |-> usb.f]
    BY <1>1, <1>3, <1>8, <2>1 DEF Xmit, UsbGo
  <2> QED  BY <1>1, <1>2, <1>3, <1>4, <2>1, <2>2, RingPcMoves
<1>9. CASE FlushPeek
  <2>1. UNCHANGED <<ringvars, heap, snd>>
        /\ UNCHANGED <<held, notify, txBusy, kickPending, kicks, bus>> /\ usb.pc = "flushpeek"
    BY <1>9 DEF FlushPeek, UsbAt, flags, outside
  <2>2. CASE n > 0
    <3>1. usb' = [pc |-> "flush", f |-> None]
      BY <1>9, <2>2 DEF FlushPeek, UsbGo
    <3> QED  BY <1>1, <1>3, <2>1, <2>2, <3>1, RingPcMoves
  <2>3. CASE ~(n > 0)
    <3>1. usb' = [pc |-> "idle", f |-> None]
      BY <1>9, <2>3 DEF FlushPeek, UsbGo
    <3> QED  BY <1>1, <1>3, <2>1, <3>1, RingPcMoves
  <2> QED  BY <2>2, <2>3
<1>10. CASE Pop
  <2>1. Placed'
    BY <1>10, PlacedPop DEF RingInv
  <2>2. usb'.pc \in {"free", "freeflush"} /\ usb' \in TaskType
    BY <1>4, <1>10 DEF Pop, UsbGo, UsbAt, TaskType
  <2>3. /\ head' \in 0 .. Depth - 1 /\ n' \in 0 .. Depth /\ ring' = ring
        /\ UNCHANGED <<kickPending, heap, snd, kicks, held, notify, bus>> /\ txBusy' \in BOOLEAN
        /\ txBusy' = (txBusy \/ usb.pc = "sent")
    BY <1>1, <1>2, <1>10, PosMoves DEF Pop, outside, UsbAt
  <2>4. TypeOK'
    BY <1>1, <2>2, <2>3 DEF RingInv, TypeOK, TaskType
  <2>5. HeadThere' /\ HeadStays' /\ HasCopy'
    BY <2>2, <2>3 DEF RingInv, HeadThere, HeadStays, HasCopy
  <2>6. Busy'
    BY <1>1, <1>3, <2>2, <2>3 DEF Busy, BusyEnds, UsbAt
  <2> QED  BY <2>1, <2>4, <2>5, <2>6 DEF RingInv
<1>11. CASE FreePopped
  <2>1. Placed'
    BY <1>11, PlacedFreed DEF RingInv
  <2>2. usb'.pc \in {"peek", "flushpeek"} /\ usb' \in TaskType /\ usb.pc # "sent"
    BY <1>11 DEF FreePopped, UsbGo, UsbAt, TaskType
  <2>3. UNCHANGED <<ring, head, n, kickPending, txBusy, snd, kicks, held, notify, bus>>
        /\ heap' \subseteq heap
    BY <1>11 DEF FreePopped, ringvars, flags, outside
  <2>4. TypeOK'
    BY <1>1, <2>2, <2>3 DEF RingInv, TypeOK, TaskType
  <2>5. HeadThere' /\ HeadStays' /\ HasCopy'
    BY <2>2, <2>3 DEF RingInv, HeadThere, HeadStays, HasCopy
  <2>6. Busy'
    BY <1>3, <2>2, <2>3 DEF Busy, BusyEnds, UsbAt
  <2> QED  BY <2>1, <2>4, <2>5, <2>6 DEF RingInv
<1> QED  BY <1>5, <1>6, <1>7, <1>8, <1>9, <1>10, <1>11 DEF Working

LEMMA RingWaking ==
  ASSUME RingInv, Waking \/ Suspend \/ Resume \/ Unplug
  PROVE  RingInv'
<1>1. /\ usb \in TaskType /\ held \in 0 .. ClassRoom
      /\ notify \in BOOLEAN /\ txBusy \in BOOLEAN /\ kickPending \in BOOLEAN
      /\ kicks \in Nat /\ bus \in {"on", "suspended", "gone", "off"} /\ ClassRoom \in Nat
  BY UsbAssumption DEF RingInv, TypeOK, TaskType, UsbAssumption
<1>2. txBusy => held > 0 \/ notify
  BY DEF RingInv, Busy, BusyEnds
<1>3. CASE Kicked
  <2>1. UNCHANGED <<ringvars, heap, snd>> /\ UNCHANGED <<held, notify, txBusy, bus>> /\ usb.pc = "idle"
        /\ kickPending' = FALSE /\ kicks' \in Nat /\ usb' = [pc |-> "peek", f |-> None]
    BY <1>1, <1>3 DEF Kicked, UsbAt, UsbGo, outside
  <2> QED  BY <1>1, <1>2, <2>1, RingPcMoves
<1>4. CASE XferDone
  <2>1. UNCHANGED <<ringvars, heap, snd>> /\ UNCHANGED <<kickPending, kicks, notify, bus>> /\ usb.pc = "idle"
        /\ held' \in 0 .. ClassRoom /\ usb' = [pc |-> "peek", f |-> None] /\ txBusy' = (held' > 0)
    BY <1>1, <1>4 DEF XferDone, UsbAt, UsbGo
  <2>2. txBusy' \in BOOLEAN /\ (txBusy' => held' > 0)
    <3> DEFINE more == held' > 0
    <3>1. txBusy' = more
      BY <2>1
    <3>2. more \in BOOLEAN
      OBVIOUS
    <3> HIDE DEF more
    <3>3. txBusy' \in BOOLEAN /\ (txBusy' => more)
      BY <3>1, <3>2, Zenon
    <3> QED  BY <3>3 DEF more
  <2> QED  BY <1>1, <2>1, <2>2, RingPcMoves
<1>5. CASE XferOut
  <2>1. UNCHANGED <<ringvars, heap, snd>>
        /\ UNCHANGED <<held, notify, txBusy, kickPending, kicks, bus>> /\ usb.pc = "idle"
        /\ usb' = [pc |-> "peek", f |-> None]
    BY <1>1, <1>5 DEF XferOut, UsbAt, UsbGo, flags, outside
  <2> QED  BY <1>1, <1>2, <2>1, RingPcMoves
<1>6. CASE Detached
  <2>1. UNCHANGED <<ringvars, heap, snd>> /\ UNCHANGED <<kickPending, kicks>> /\ usb.pc = "idle"
        /\ usb' = [pc |-> "flushpeek", f |-> None] /\ bus' = "off" /\ held' = 0 /\ notify' = FALSE
        /\ txBusy' = FALSE
    BY <1>1, <1>6 DEF Detached, UsbAt, UsbGo
  <2>2. held' \in 0 .. ClassRoom
    BY <1>1, <2>1
  <2> QED  BY <1>1, <2>1, <2>2, RingPcMoves
<1>7. CASE Attached
  <2>1. UNCHANGED <<ringvars, heap, snd>>
        /\ UNCHANGED <<held, txBusy, kickPending, kicks, usb>> /\ usb.pc = "idle"
        /\ bus' = "on" /\ notify' = TRUE
    BY <1>1, <1>7 DEF Attached, UsbAt, flags
  <2>2. Popped' = Popped
    BY <2>1 DEF Popped
  <2>3. HeadThere' /\ HeadStays' /\ Busy'
    BY <2>1 DEF RingInv, HeadThere, HeadStays, Busy, BusyEnds, UsbAt, ringvars
  <2> QED  BY <1>1, <2>1, <2>2, <2>3, RingTaskMoves
<1>8. CASE Suspend \/ Resume \/ Unplug
  <2>1. UNCHANGED <<ringvars, heap, snd>> /\ UNCHANGED <<held, notify, txBusy, kickPending, kicks, usb>>
        /\ bus' \in {"on", "suspended", "gone"}
    BY <1>8 DEF Suspend, Resume, Unplug, Bus, flags
  <2>2. Popped' = Popped
    BY <2>1 DEF Popped
  <2>3. HeadThere' /\ HeadStays'
    BY <2>1 DEF RingInv, HeadThere, HeadStays, ringvars
  <2>4. Busy'
    BY <2>1 DEF RingInv, Busy, BusyEnds, UsbAt
  <2> QED  BY <1>1, <2>1, <2>2, <2>3, <2>4, RingTaskMoves
<1>9. CASE NotifyDone
  <2>1. UNCHANGED <<ringvars, heap, snd>> /\ UNCHANGED <<held, kickPending, kicks, bus>> /\ usb.pc = "idle"
        /\ notify' \in BOOLEAN /\ usb' = [pc |-> "peek", f |-> None] /\ txBusy' = notify'
    BY <1>9 DEF NotifyDone, UsbAt, UsbGo
  <2>2. txBusy' \in BOOLEAN /\ (txBusy' => notify')
    BY <2>1, Zenon
  <2> QED  BY <1>1, <2>1, <2>2, RingPcMoves
<1> QED  BY <1>3, <1>4, <1>5, <1>6, <1>7, <1>8, <1>9 DEF Waking

LEMMA InitRingInv == Init => RingInv
<1> SUFFICES ASSUME Init PROVE RingInv
  OBVIOUS
<1>1. Depth \in Nat /\ Depth > 0 /\ ClassRoom \in Nat
  BY UsbAssumption DEF UsbAssumption
<1>2. ring \in [0 .. Depth - 1 -> Blocks \cup {None}]
  BY DEF Init
<1>3. head \in 0 .. Depth - 1 /\ n \in 0 .. Depth /\ held \in 0 .. ClassRoom
  BY <1>1 DEF Init
<1>4. TypeOK
  BY <1>2, <1>3 DEF Init, TypeOK
<1>5. HeadThere /\ HeadStays /\ Busy /\ HasCopy
  BY DEF Init, HeadThere, HeadStays, Busy, BusyEnds, HasCopy, UsbAt
<1>6. Waiting = {} /\ Popped = {} /\ Copies = {} /\ n = 0
  BY DEF Init, Waiting, Popped, Copies
<1>7. Placed
  BY <1>6 DEF Init, Placed
<1> QED  BY <1>4, <1>5, <1>7 DEF RingInv

LEMMA NextRingInv == RingInv /\ [Next]_vars => RingInv'
<1> SUFFICES ASSUME RingInv, [Next]_vars PROVE RingInv'
  OBVIOUS
<1>1. CASE UNCHANGED vars
  <2>1. UNCHANGED <<ringvars, heap, snd>>
        /\ UNCHANGED <<held, notify, txBusy, kickPending, kicks, usb, bus>>
    BY <1>1 DEF vars, flags, outside
  <2>2. Popped' = Popped
    BY <2>1 DEF Popped
  <2>3. /\ usb \in TaskType /\ held \in 0 .. ClassRoom
        /\ notify \in BOOLEAN /\ txBusy \in BOOLEAN /\ kickPending \in BOOLEAN
        /\ kicks \in Nat /\ bus \in {"on", "suspended", "gone", "off"}
    BY DEF RingInv, TypeOK, TaskType
  <2>4. HeadThere' /\ HeadStays' /\ Busy'
    BY <2>1 DEF RingInv, HeadThere, HeadStays, Busy, BusyEnds, UsbAt, ringvars
  <2> QED  BY <2>1, <2>2, <2>3, <2>4, RingTaskMoves
<1> QED  BY <1>1, RingSender, RingWorking, RingWaking DEF Next

-----------------------------------------------------------------------------
\* How many copies there are.
LEMMA WaitingCount ==
  ASSUME RingInv  PROVE IsFiniteSet(Waiting) /\ Cardinality(Waiting) = n
<1>1. n \in Nat
  BY UsbAssumption DEF RingInv, TypeOK, UsbAssumption
<1>2. Fifo \in [1 .. n -> Waiting]
  BY FifoItems DEF RingInv, Waiting
<1>3. Fifo \in Bijection(1 .. n, Waiting)
  BY <1>2 DEF RingInv, Placed, Waiting, Bijection, Injection, Surjection, IsInjective
<1>4. ExistsBijection(1 .. n, Waiting)
  BY <1>3 DEF ExistsBijection
<1>5. IsFiniteSet(1 .. n) /\ Cardinality(1 .. n) = n
  BY <1>1, FS_Interval
<1> QED  BY <1>4, <1>5, FS_Bijection

Holders == {s \in Senders : snd[s].copy # None}

LEMMA CopiesCount ==
  ASSUME RingInv
  PROVE  /\ IsFiniteSet(Copies) /\ IsFiniteSet(Holders)
         /\ Cardinality(Copies) = Cardinality(Holders)
<1> DEFINE f == [s \in Holders |-> snd[s].copy]
<1>1. IsFiniteSet(Holders)
  BY UsbAssumption, FS_Subset DEF UsbAssumption, Holders
<1>2. f \in [Holders -> Copies]
  BY DEF Holders, Copies
<1>3. f \in Bijection(Holders, Copies)
  BY <1>2 DEF RingInv, Placed, Holders, Copies, Bijection, Injection, Surjection, IsInjective
<1>4. ExistsBijection(Holders, Copies)
  BY <1>3 DEF ExistsBijection
<1> QED  BY <1>1, <1>4, FS_Bijection

LEMMA QueuedIsWaiting == ASSUME TypeOK  PROVE Queued = Waiting
<1>1. n \in Nat /\ Fifo = [i \in 1 .. n |-> ring[Pos(i - 1)]]
  BY UsbAssumption DEF TypeOK, Fifo, UsbAssumption
<1>2. ASSUME NEW x \in Queued  PROVE x \in Waiting
  <2>1. PICK i \in 0 .. n - 1 : x = ring[Pos(i)]
    BY DEF Queued
  <2>2. i + 1 \in 1 .. n /\ (i + 1) - 1 = i
    BY <1>1
  <2> QED  BY <1>1, <2>1, <2>2 DEF Waiting
<1>3. ASSUME NEW x \in Waiting  PROVE x \in Queued
  <2>1. PICK i \in 1 .. n : x = Fifo[i]
    BY DEF Waiting
  <2>2. i - 1 \in 0 .. n - 1
    BY <1>1
  <2> QED  BY <1>1, <2>1, <2>2 DEF Queued
<1> QED  BY <1>2, <1>3

LEMMA OwnersAgree == ASSUME RingInv  PROVE OneOwner
<1>1. heap = Waiting \cup Popped \cup Copies
  BY DEF RingInv, Placed
<1>2. IsFiniteSet(Popped) /\ Cardinality(Popped) \in Nat
  BY FS_Singleton, FS_EmptySet, FS_CardinalityType DEF Popped
<1>3. n \in Nat /\ Cardinality(Copies) \in Nat /\ IsFiniteSet(Waiting) /\ IsFiniteSet(Copies)
  BY WaitingCount, CopiesCount, FS_CardinalityType
<1>4. IsFiniteSet(Waiting \cup Popped) /\ Cardinality(Waiting \cup Popped) = n + Cardinality(Popped)
  <2>1. Cardinality(Waiting \cap Popped) = 0
    BY FS_EmptySet DEF RingInv, Placed
  <2>2. IsFiniteSet(Waiting \cup Popped)
        /\ Cardinality(Waiting \cup Popped) = Cardinality(Waiting) + Cardinality(Popped) - 0
    BY <1>2, <1>3, <2>1, FS_Union
  <2> QED  BY <1>2, <1>3, <2>2, WaitingCount
<1>5. Cardinality(heap) = n + Cardinality(Popped) + Cardinality(Copies)
  <2>1. (Waiting \cup Popped) \cap Copies = {}
    BY DEF RingInv, Placed
  <2>2. Cardinality((Waiting \cup Popped) \cap Copies) = 0
    BY <2>1, FS_EmptySet
  <2>3. Cardinality((Waiting \cup Popped) \cup Copies)
          = Cardinality(Waiting \cup Popped) + Cardinality(Copies) - 0
    BY <1>3, <1>4, <2>2, FS_Union
  <2> QED  BY <1>1, <1>2, <1>3, <1>4, <2>3
<1>6. Cardinality(Copies) = Cardinality({s \in Senders : snd[s].copy # None})
  BY CopiesCount DEF Holders
<1>7. heap = Queued \cup Popped \cup Copies
  BY <1>1, QueuedIsWaiting DEF RingInv
<1> QED  BY <1>5, <1>6, <1>7 DEF OneOwner

\* Every copy usbnet_tx makes is in the ring, with its sender or in the pop under way, and in one
\* of those only, and freed once; the head that pump_ looks at outside the lock stays the head until
\* pop_ takes it; tx_busy is never left set with no IN transfer to come.  Any depth, any number of
\* senders.
THEOREM CopiesAccounted == Spec => []UsbInv
<1>1. RingInv => UsbInv
  <2>1. RingInv => BusyEnds
    BY DEF RingInv, Busy
  <2> QED  BY <2>1, OwnersAgree DEF RingInv, UsbInv
<1> QED  BY <1>1, InitRingInv, NextRingInv, PTL DEF Spec

-----------------------------------------------------------------------------
LEMMA QueueStep == RingInv /\ [Next]_vars => [Queue!Next]_Fifo
<1> SUFFICES ASSUME RingInv, [Next]_vars PROVE [Queue!Next]_Fifo
  OBVIOUS
<1>1. /\ n \in Nat /\ Fifo = [i \in 1 .. n |-> Fifo[i]] /\ \A i \in 1 .. n : Fifo[i] \in Blocks
      /\ Depth \in Nat
  BY FifoItems, UsbAssumption DEF RingInv, TypeOK, Placed, UsbAssumption
<1>2. Fifo \in Seq(Blocks) /\ Len(Fifo) = n
  BY <1>1
<1>3. CASE UNCHANGED <<ring, head, n>>
  BY <1>3 DEF Fifo, Pos
<1>4. ASSUME NEW s \in Senders, TxQueue(s)  PROVE Queue!Next
  <2> DEFINE b == snd[s].copy
  <2>1. n < Depth /\ Fifo' = [i \in 1 .. n + 1 |-> IF i = n + 1 THEN b ELSE Fifo[i]]
    BY <1>4, FifoPushed DEF RingInv, TxQueue
  <2>2. b \in Blocks /\ b \in Copies
    BY <1>4 DEF TxQueue, At, RingInv, HasCopy, Copies, TypeOK
  <2>3. \A i \in 1 .. n : Fifo[i] # b
    BY <2>2 DEF RingInv, Placed, Waiting
  <2>4. Fifo' = Append(Fifo, b)
    BY <1>2, <2>1
  <2> QED  BY <1>2, <2>1, <2>2, <2>3, <2>4 DEF Queue!Next, Queue!Push
<1>5. CASE Pop
  <2>1. n > 0
    BY <1>5 DEF Pop, RingInv, HeadThere
  <2>2. Fifo' = [i \in 1 .. n - 1 |-> Fifo[i + 1]]
    BY <1>5, <2>1, FifoPopped DEF RingInv, Pop
  <2>3. Fifo # <<>>
    BY <1>2, <2>1
  <2>5. Tail(Fifo) \in Seq(Blocks) /\ Len(Tail(Fifo)) = n - 1
        /\ \A i \in 1 .. n - 1 : Tail(Fifo)[i] = Fifo[i + 1]
    BY <1>2, <2>3, HeadTailProperties
  <2>6. Fifo' \in Seq(Blocks) /\ Len(Fifo') = n - 1 /\ \A i \in 1 .. n - 1 : Fifo'[i] = Fifo[i + 1]
    <3> HIDE DEF Fifo
    <3>1. \A i \in 1 .. n - 1 : Fifo[i + 1] \in Blocks
      BY <1>1
    <3>2. n - 1 \in Nat
      BY <1>1, <2>1
    <3> QED  BY <2>2, <3>1, <3>2
  <2>4. Fifo' = Tail(Fifo)
    BY <2>5, <2>6, SeqEqual
  <2> QED  BY <2>3, <2>4 DEF Queue!Next, Queue!Pop
<1>6. ASSUME NEW s \in Senders, TxStart(s) \/ TxStep(s)  PROVE UNCHANGED <<ring, head, n>> \/ TxQueue(s)
  BY <1>6 DEF TxStart, TxStep, TxCheckFull, TxAlloc, TxNoMem, TxQueueFull, TxFree, TxKick, ringvars
<1>7. ASSUME Working  PROVE UNCHANGED <<ring, head, n>> \/ Pop
  BY <1>7 DEF Working, Peek, AskReady, CanXmit, Xmit, FreePopped, FlushPeek, ringvars
<1>8. ASSUME Waking \/ Suspend \/ Resume \/ Unplug  PROVE UNCHANGED <<ring, head, n>>
  BY <1>8 DEF Waking, Kicked, XferDone, NotifyDone, XferOut, Detached, Attached, Suspend, Resume, Unplug,
              Bus, ringvars
<1>9. ASSUME UNCHANGED vars  PROVE UNCHANGED <<ring, head, n>>
  BY <1>9 DEF vars, ringvars
<1> QED  BY <1>3, <1>4, <1>5, <1>6, <1>7, <1>8, <1>9 DEF Next

\* The ring with its two full checks, its kicks and its pump is a bounded queue: what usbnet_tx
\* accepts is handed on in that order, each copy once, and nothing else changes it.
THEOREM RingIsQueue == Spec => Queue!Spec
<1>1. Init => Queue!Init
  BY DEF Init, Fifo, Queue!Init
<1> QED  BY <1>1, InitRingInv, NextRingInv, QueueStep, PTL DEF Spec, Queue!Spec
=============================================================================
