------------------------------- MODULE UsbNet -------------------------------
(***************************************************************************)
(* The transmit side of the USB network function (main/usbnet_core.c): any *)
(* task copies a frame into a ring (usbnet_tx); only the TinyUSB task      *)
(* takes frames out, when it is kicked, when a transfer of the class       *)
(* completes and on detach.  A sender posts a kick only if none is queued. *)
(*                                                                         *)
(* A section under the lock is one step, and so is every call through the  *)
(* port.  TinyUSB and the host are what usb_net.c shows of them: the class *)
(* holds a few frames and completes a transfer when the host reads; it     *)
(* tells the host of the link on an endpoint of its own, whose completions *)
(* come to usbnet_xfer_done as well; an interrupt suspends, resumes or     *)
(* unplugs the bus at any moment; the task handles the unplug later.       *)
(* Statistics, the ages and the receive side are left out.                 *)
(***************************************************************************)
EXTENDS Naturals, FiniteSets

CONSTANTS Depth,     \* USBNET_TXQ_N
          Senders,   \* tasks that call usbnet_tx
          Blocks,    \* heap blocks a copy may be in
          None,      \* NULL
          ClassRoom  \* frames the class driver can hold

ASSUME UsbAssumption ==
  /\ Depth \in Nat \ {0} /\ ClassRoom \in Nat \ {0}
  /\ None \notin Blocks /\ IsFiniteSet(Senders)

VARIABLES
  ring, head, n,   \* u->q, u->head, u->n
  kickPending,     \* u->kick_pending
  txBusy,          \* u->tx_busy
  heap,            \* blocks allocated
  snd,             \* of every sender: where it is in usbnet_tx, its copy
  kicks,           \* usbnet_kicked calls waiting in TinyUSB's event queue
  usb,             \* where the TinyUSB task is, and the frame it looked at
  held,            \* frames in the class driver
  notify,          \* whether its notification endpoint is armed
  bus              \* "on", "suspended", "gone" (unplugged, not handled yet), "off"

ringvars == <<ring, head, n>>
flags    == <<kickPending, txBusy>>
outside  == <<held, notify, bus>>
vars     == <<ringvars, flags, heap, snd, kicks, usb, outside>>

At(s, pc)   == snd[s].pc = pc
Go(s, pc)   == snd' = [snd EXCEPT ![s].pc = pc]
UsbAt(pc)   == usb.pc = pc
UsbGo(pc, f) == usb' = [pc |-> pc, f |-> f]
TudReady    == bus = "on"
Pos(i)      == (head + i) % Depth

Init ==
  /\ ring = [i \in 0 .. Depth - 1 |-> None] /\ head = 0 /\ n = 0
  /\ kickPending = FALSE /\ txBusy = FALSE
  /\ heap = {}
  /\ snd = [s \in Senders |-> [pc |-> "idle", copy |-> None]]
  /\ kicks = 0
  /\ usb = [pc |-> "idle", f |-> None]
  /\ held = 0 /\ notify = FALSE /\ bus = "off"

(***************************************************************************)
(* usbnet_tx.  A frame of a bad length, or with the bus down, is dropped   *)
(* without a copy; so is one that finds the queue full.                    *)
(***************************************************************************)
TxStart(s) ==
  /\ At(s, "idle") /\ TudReady
  /\ Go(s, "check")
  /\ UNCHANGED <<ringvars, flags, heap, kicks, usb, outside>>

TxCheckFull(s) ==
  /\ At(s, "check")
  /\ Go(s, IF n = Depth THEN "idle" ELSE "alloc")
  /\ UNCHANGED <<ringvars, flags, heap, kicks, usb, outside>>

TxAlloc(s, b) ==
  /\ At(s, "alloc") /\ b \notin heap
  /\ heap' = heap \cup {b}
  /\ snd'  = [snd EXCEPT ![s] = [pc |-> "queue", copy |-> b]]
  /\ UNCHANGED <<ringvars, flags, kicks, usb, outside>>

TxNoMem(s) ==
  /\ At(s, "alloc")
  /\ Go(s, "idle")
  /\ UNCHANGED <<ringvars, flags, heap, kicks, usb, outside>>

\* The second section.  Mutant: a kick for every frame.
TxQueueKicks(s) ==
  /\ At(s, "queue") /\ n < Depth
  /\ ring' = [ring EXCEPT ![Pos(n)] = snd[s].copy]
  /\ n' = n + 1
  /\ kickPending' = TRUE
  /\ snd' = [snd EXCEPT ![s] = [pc |-> "kick", copy |-> None]]
  /\ UNCHANGED <<head, txBusy, heap, kicks, usb, outside>>

TxQueue(s) ==
  /\ At(s, "queue") /\ n < Depth
  /\ ring' = [ring EXCEPT ![Pos(n)] = snd[s].copy]
  /\ n' = n + 1
  /\ kickPending' = TRUE
  /\ snd' = [snd EXCEPT ![s] = [pc |-> IF kickPending THEN "idle" ELSE "kick", copy |-> None]]
  /\ UNCHANGED <<head, txBusy, heap, kicks, usb, outside>>

TxQueueFull(s) ==
  /\ At(s, "queue") /\ n = Depth
  /\ Go(s, "free")
  /\ UNCHANGED <<ringvars, flags, heap, kicks, usb, outside>>

TxFree(s) ==
  /\ At(s, "free")
  /\ heap' = heap \ {snd[s].copy}
  /\ snd'  = [snd EXCEPT ![s] = [pc |-> "idle", copy |-> None]]
  /\ UNCHANGED <<ringvars, flags, kicks, usb, outside>>

TxKick(s) ==
  /\ At(s, "kick")
  /\ kicks' = kicks + 1
  /\ Go(s, "idle")
  /\ UNCHANGED <<ringvars, flags, heap, usb, outside>>

(***************************************************************************)
(* The TinyUSB task.                                                       *)
(***************************************************************************)
\* usbnet_kicked.  Mutant: the flag not cleared.
KickedKeepsFlag ==
  /\ UsbAt("idle") /\ kicks > 0
  /\ kicks' = kicks - 1
  /\ UsbGo("peek", None)
  /\ UNCHANGED <<ringvars, flags, heap, snd, outside>>

Kicked ==
  /\ UsbAt("idle") /\ kicks > 0
  /\ kicks' = kicks - 1
  /\ kickPending' = FALSE
  /\ UsbGo("peek", None)
  /\ UNCHANGED <<ringvars, txBusy, heap, snd, outside>>

\* usbnet_xfer_done of the class's data endpoint: the host took some of what the class held,
\* and the class armed the endpoint again for the rest.  Mutant: no pump.
XferDoneNoPump ==
  /\ UsbAt("idle") /\ TudReady /\ held > 0
  /\ held' \in 0 .. held - 1
  /\ txBusy' = (held' > 0)
  /\ UNCHANGED <<ringvars, kickPending, heap, snd, kicks, usb, notify, bus>>

XferDone ==
  /\ UsbAt("idle") /\ TudReady /\ held > 0
  /\ held' \in 0 .. held - 1
  /\ txBusy' = (held' > 0)
  /\ UsbGo("peek", None)
  /\ UNCHANGED <<ringvars, kickPending, heap, snd, kicks, notify, bus>>

\* And of its notification endpoint, an IN endpoint too, armed again or not: tx_busy tells
\* which, whatever the class holds.
NotifyDone ==
  /\ UsbAt("idle") /\ TudReady /\ notify
  /\ notify' \in BOOLEAN
  /\ txBusy' = notify'
  /\ UsbGo("peek", None)
  /\ UNCHANGED <<ringvars, kickPending, heap, snd, kicks, held, bus>>

\* usbnet_xfer_done of the OUT endpoint: a frame from the host pumps, too.
XferOut ==
  /\ UsbAt("idle") /\ TudReady
  /\ UsbGo("peek", None)
  /\ UNCHANGED <<ringvars, flags, heap, snd, kicks, outside>>

\* pump_: the head is looked at under the lock, and again after every pop.
Peek ==
  /\ UsbAt("peek")
  /\ IF n > 0 THEN UsbGo("ready", ring[head]) ELSE UsbGo("idle", None)
  /\ UNCHANGED <<ringvars, flags, heap, snd, kicks, outside>>

AskReady ==
  /\ UsbAt("ready")
  /\ UsbGo(IF TudReady THEN "room" ELSE "drop", usb.f)
  /\ UNCHANGED <<ringvars, flags, heap, snd, kicks, outside>>

\* Full: the next completion of the class's IN endpoint pumps again.
CanXmit ==
  /\ UsbAt("room")
  /\ IF held < ClassRoom THEN UsbGo("xmit", usb.f) ELSE UsbGo("idle", None)
  /\ UNCHANGED <<ringvars, flags, heap, snd, kicks, outside>>

Xmit ==
  /\ UsbAt("xmit")
  /\ held' = held + 1
  /\ UsbGo("sent", usb.f)
  /\ UNCHANGED <<ringvars, flags, heap, snd, kicks, notify, bus>>

\* pop_'s section; its free is the next step.  Mutant: the head stays.
PopKeepsHead ==
  /\ usb.pc \in {"sent", "drop", "flush"}
  /\ n' = n - 1
  /\ txBusy' = (txBusy \/ UsbAt("sent"))
  /\ UsbGo(IF UsbAt("flush") THEN "freeflush" ELSE "free", ring[head])
  /\ UNCHANGED <<ring, head, kickPending, heap, snd, kicks, outside>>

Pop ==
  /\ usb.pc \in {"sent", "drop", "flush"}
  /\ head' = (head + 1) % Depth
  /\ n' = n - 1
  /\ txBusy' = (txBusy \/ UsbAt("sent"))
  /\ UsbGo(IF UsbAt("flush") THEN "freeflush" ELSE "free", ring[head])
  /\ UNCHANGED <<ring, kickPending, heap, snd, kicks, outside>>

FreePopped ==
  /\ usb.pc \in {"free", "freeflush"}
  /\ heap' = heap \ {usb.f}
  /\ UsbGo(IF UsbAt("free") THEN "peek" ELSE "flushpeek", None)
  /\ UNCHANGED <<ringvars, flags, snd, kicks, outside>>

\* The unplug handled: the class reset, usbnet_flush.  Mutant: tx_busy stays.
DetachedBusy ==
  /\ UsbAt("idle") /\ bus = "gone"
  /\ bus' = "off" /\ held' = 0 /\ notify' = FALSE
  /\ UsbGo("flushpeek", None)
  /\ UNCHANGED <<ringvars, flags, heap, snd, kicks>>

Detached ==
  /\ UsbAt("idle") /\ bus = "gone"
  /\ bus' = "off" /\ held' = 0 /\ notify' = FALSE
  /\ txBusy' = FALSE
  /\ UsbGo("flushpeek", None)
  /\ UNCHANGED <<ringvars, kickPending, heap, snd, kicks>>

FlushPeek ==
  /\ UsbAt("flushpeek")
  /\ UsbGo(IF n > 0 THEN "flush" ELSE "idle", None)
  /\ UNCHANGED <<ringvars, flags, heap, snd, kicks, outside>>

\* A host configures the device: tud_network_link_state arms the first notification.
Attached ==
  /\ UsbAt("idle") /\ bus = "off"
  /\ bus' = "on" /\ notify' = TRUE
  /\ UNCHANGED <<ringvars, flags, heap, snd, kicks, usb, held>>

Bus(from, to) == bus = from /\ bus' = to
                 /\ UNCHANGED <<ringvars, flags, heap, snd, kicks, usb, held, notify>>
Suspend == Bus("on", "suspended")
Resume  == Bus("suspended", "on")
Unplug  == Bus("on", "gone") \/ Bus("suspended", "gone")

TxStep(s) == \/ TxCheckFull(s) \/ (\E b \in Blocks : TxAlloc(s, b)) \/ TxNoMem(s)
             \/ TxQueue(s) \/ TxQueueFull(s) \/ TxFree(s) \/ TxKick(s)
Working == Peek \/ AskReady \/ CanXmit \/ Xmit \/ Pop \/ FreePopped \/ FlushPeek
Waking  == Kicked \/ XferDone \/ NotifyDone \/ XferOut \/ Detached \/ Attached
Next == (\E s \in Senders : TxStart(s) \/ TxStep(s)) \/ Working \/ Waking
          \/ Suspend \/ Resume \/ Unplug

Spec == Init /\ [][Next]_vars

\* Senders and the TinyUSB task go on.  Its event queue is first in, first out, so the frames
\* a host sends cannot keep a kick, a completion or an unplug from being handled (SF); a host
\* reads what it is offered while the bus is on, and resumes or unplugs a bus it suspended.
Fairness ==
  /\ \A s \in Senders : WF_vars(TxStep(s))
  /\ WF_vars(Working)
  /\ SF_vars(Kicked) /\ SF_vars(XferDone) /\ SF_vars(Detached)
  /\ WF_vars(Resume \/ Unplug)
FairSpec == Spec /\ Fairness

-----------------------------------------------------------------------------
(* The types. *)
TypeOK ==
  /\ ring \in [0 .. Depth - 1 -> Blocks \cup {None}]
  /\ head \in 0 .. Depth - 1 /\ n \in 0 .. Depth
  /\ kickPending \in BOOLEAN /\ txBusy \in BOOLEAN
  /\ heap \subseteq Blocks
  /\ snd \in [Senders -> [pc : {"idle", "check", "alloc", "queue", "free", "kick"},
                          copy : Blocks \cup {None}]]
  /\ kicks \in Nat /\ held \in 0 .. ClassRoom /\ notify \in BOOLEAN
  /\ usb \in [pc : {"idle", "peek", "ready", "room", "xmit", "sent", "drop", "free", "flushpeek",
                    "flush", "freeflush"}, f : Blocks \cup {None}]
  /\ bus \in {"on", "suspended", "gone", "off"}

\* "a kick is queued and has not started: at most one is": the flag is set exactly while
\* one kick is on its way, so the kicks never fill TinyUSB's event queue.
Kickers == {s \in Senders : At(s, "kick")}
OneKick == kicks + Cardinality(Kickers) = IF kickPending THEN 1 ELSE 0

\* A frame in the queue always has something coming that pumps: a kick, a transfer in the
\* class still to complete, an unplug still to handle, or the task on its way.
NoneStuck == n > 0 => kickPending \/ held > 0 \/ bus = "gone" \/ ~UsbAt("idle")

\* Every copy has one owner, a sender, the ring or the pop under way, until it is freed.
Queued == {ring[Pos(i)] : i \in 0 .. n - 1}
Popped == IF usb.pc \in {"free", "freeflush"} THEN {usb.f} ELSE {}
Copies == {snd[s].copy : s \in Senders} \ {None}
OneOwner ==
  /\ heap = Queued \cup Popped \cup Copies
  /\ Cardinality(heap) = n + Cardinality(Popped)
       + Cardinality({s \in Senders : snd[s].copy # None})

\* "Only the TinyUSB task pops, so the head frame stays valid outside the lock."
HeadStays == usb.pc \in {"ready", "room", "xmit", "sent", "drop"} => n > 0 /\ ring[head] = usb.f

\* tx_busy, whose age AT+STATUS? shows as a host that does not read, is never set without an
\* IN transfer still to complete: the class holds a frame, or a notification is on its way.  The converse is not promised: a notification that completes clears it over a frame.
BusyEnds == txBusy => held > 0 \/ notify

\* What holds of the ring, the copies and the flag between any two steps of anyone.
UsbInv == TypeOK /\ OneOwner /\ HeadStays /\ BusyEnds

\* The ring is a bounded queue that loses no order and in which no frame waits forever.
Fifo == [i \in 1 .. n |-> ring[Pos(i - 1)]]
Queue == INSTANCE FrameQueue WITH fifo <- Fifo
ImplementsFrameQueue == Queue!FairSpec
=============================================================================
