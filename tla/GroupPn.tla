------------------------------ MODULE GroupPn ------------------------------
(***************************************************************************)
(* Packet numbers of our own group key (MGTK) on a mesh with SAE, as       *)
(* umac_datapath_mesh.c keeps them with WARTHOG_MESH_MGTK_PN_BASE.         *)
(*                                                                         *)
(* The chip draws a frame's number when it sends it, from whatever install *)
(* is in its group slot then, and cannot be asked what it reached.  So the *)
(* event loop counts the frames it hands over and installs the key above   *)
(* everything they can have drawn: when hostap delivers it (again), when   *)
(* the first peer comes, when a new peer is told the key's RSC, and after  *)
(* a restart of the chip.  The chip may refuse any install and then keeps  *)
(* what it had.  All actions but the chip's two (Draw, HandBack) are calls *)
(* on the event loop.  Numbers are below 2^48 and epochs below 2^32 here.  *)
(***************************************************************************)
EXTENDS Integers

CONSTANTS Epoch,      \* packet numbers of one epoch, 2^20 in the code
          MgtkKeys,       \* key material hostap delivers as our MGTK
          None,       \* no key
          Loose,      \* frames sent while a delivered key waits for its first install
          MaxEpoch,   \* bound: epochs allocated
          MaxFrames   \* bound: group frames since boot

ASSUME PnAssumption == /\ Epoch \in Nat \ {0} /\ Loose \in Nat
                       /\ MaxEpoch \in Nat /\ MaxFrames \in Nat
                       /\ None \notin MgtkKeys

VARIABLES
  alloc,     \* s_mesh_key_epoch
  own,       \* s_own_mgtk's key, or None while it is not valid
  base,      \* s_own_mgtk.base, 0 while it is not based
  sent,      \* s_own_mgtk.sent
  inflight,  \* s_own_group_inflight
  hi,        \* s_grp_pn_hi
  noted,     \* s_grp_noted
  place,     \* "in": s_group_key_in_chip, "owed": s_group_key_restore, else "out"
  peers,     \* whether the table has a peer
  chipKey,   \* what the chip's group slot holds
  next,      \* the number it gives to its next frame
  wait,      \* frames in the chip without a number
  done,      \* frames sent or handed back whose status the loop has not seen
  top,       \* of every key: the highest number drawn under it
  given,     \* the highest RSC told for our key
  loose      \* frames sent under a chip key with no base

counts == <<base, sent, inflight, hi, noted, loose>>
chip   == <<chipKey, next, wait, done, top>>
pnvars == <<alloc, own, counts, place, peers, chip, given>>

\* The first packet number of epoch e.
First(e) == Epoch * e

Larger(x, y) == IF x > y THEN x ELSE y

\* mesh_next_pn_base_, epoch al being the last: the next whose numbers all lie above pn.
NextEpoch(al, pn) == Larger(al, pn \div Epoch) + 1

\* mesh_own_group_pn_top_
GroupTop == IF base = 0 THEN 0 ELSE base + sent

\* What mesh_put_own_mgtk_ installs at: above our key's numbers, or, where a chip restart
\* owes the key back, above every number the group slot can have drawn since boot.
InstallEpoch(al, pn, pl) == NextEpoch(al, IF pl = "owed" THEN Larger(hi + noted, pn) ELSE pn)

PnInit ==
  /\ alloc = 0 /\ own = None /\ place = "out" /\ peers = "none"
  /\ base = 0 /\ sent = 0 /\ inflight = 0 /\ hi = 0 /\ noted = 0 /\ loose = 0
  /\ chipKey = None /\ next = 0 /\ wait = 0 /\ done = 0
  /\ top = [k \in MgtkKeys |-> 0] /\ given = 0

\* The chip takes key k at the first number of epoch e; mesh_own_pn_store_ keeps the frames
\* still queued, which draw from this base.
Takes(k, e) ==
  /\ alloc' = e /\ base' = First(e) /\ sent' = inflight /\ loose' = 0
  /\ hi' = Larger(hi, First(e)) /\ place' = "in"
  /\ chipKey' = k /\ next' = First(e)

Refuses(e) ==
  /\ alloc' = e
  /\ UNCHANGED <<base, sent, loose, hi, place, chipKey, next>>

PnPut == LET e == InstallEpoch(alloc, GroupTop, place) IN
  /\ e <= MaxEpoch
  /\ Takes(own, e) \/ Refuses(e)

(***************************************************************************)
(* Calls on the event loop.                                                *)
(***************************************************************************)
\* hostap delivers our key, the same one or another: the allocator moves past every number
\* of the last install.  With a peer there the install follows in the same call.
\* Mutant: the allocator stays, as before the fix test 29 of test_simnode_keys.c pins.
DeliverStays(k) ==
  LET e == alloc
      f == InstallEpoch(e, 0, place)
  IN /\ f <= MaxEpoch /\ own' = k
     /\ \/ peers = "some" /\ Takes(k, f)
        \/ /\ alloc' = IF peers = "some" THEN f ELSE e
           /\ base' = 0 /\ sent' = 0
           /\ place' = IF place = "owed" THEN "owed" ELSE "out"
           /\ UNCHANGED <<loose, hi, chipKey, next>>
     /\ UNCHANGED <<inflight, noted, peers, wait, done, top, given>>

Deliver(k) ==
  LET e == NextEpoch(alloc, GroupTop)
      f == InstallEpoch(e, 0, place)
  IN /\ f <= MaxEpoch /\ own' = k
     /\ \/ peers = "some" /\ Takes(k, f)
        \/ /\ alloc' = IF peers = "some" THEN f ELSE e
           /\ base' = 0 /\ sent' = 0
           /\ place' = IF place = "owed" THEN "owed" ELSE "out"
           /\ UNCHANGED <<loose, hi, chipKey, next>>
     /\ UNCHANGED <<inflight, noted, peers, wait, done, top, given>>

\* add_peer: the key goes in with it unless it is there.
PnAddPeer ==
  /\ peers' = "some"
  /\ IF own # None /\ place # "in"
     THEN PnPut
     ELSE peers = "none" /\ UNCHANGED <<alloc, base, sent, loose, hi, place, chipKey, next>>
  /\ UNCHANGED <<own, inflight, noted, wait, done, top, given>>

\* The last peer goes.
PnDelPeer ==
  /\ peers = "some" /\ peers' = "none"
  /\ UNCHANGED <<alloc, own, counts, place, chip, given>>

\* Another key goes in: a peer's MTK or MGTK, first or again.
KeyPeer ==
  /\ peers = "some" /\ NextEpoch(alloc, GroupTop) <= MaxEpoch
  /\ alloc' = NextEpoch(alloc, GroupTop)
  /\ UNCHANGED <<own, counts, place, peers, chip, given>>

\* umac_datapath_mesh_own_group_rsc, while the Open to a new peer is built: told is what the
\* base is when it returns, less one.  Mutants: the key stays as it was put in; the highest number counted is told.
TellStays ==
  /\ own # None /\ base # 0
  /\ given' = Larger(given, base - 1)
  /\ UNCHANGED <<alloc, own, counts, place, peers, chip>>

TellTop ==
  /\ own # None /\ base # 0
  /\ given' = Larger(given, GroupTop)
  /\ UNCHANGED <<alloc, own, counts, place, peers, chip>>

TellBased ==
  /\ own # None /\ base # 0
  /\ IF place = "in" /\ sent # 0
     THEN PnPut
     ELSE UNCHANGED <<alloc, base, sent, loose, hi, place, chipKey, next>>
  /\ given' = Larger(given, base' - 1)
  /\ UNCHANGED <<own, inflight, noted, peers, wait, done, top>>

TellUnbased ==
  /\ own # None /\ base = 0 /\ NextEpoch(alloc, 0) <= MaxEpoch
  /\ alloc' = NextEpoch(alloc, 0)
  /\ base' = First(alloc') /\ sent' = inflight /\ loose' = 0
  /\ given' = Larger(given, base' - 1)
  /\ UNCHANGED <<own, inflight, hi, noted, place, peers, chip>>

\* A group frame goes to the chip (umac_datapath_mesh_own_group_tx_note); none does while
\* the chip lacks the key after a restart.
Unbased == base = 0 /\ chipKey # None
Send ==
  /\ own # None /\ peers = "some" /\ place # "owed"
  /\ noted < MaxFrames /\ (Unbased => loose < Loose)
  /\ noted' = noted + 1 /\ sent' = sent + 1 /\ inflight' = inflight + 1 /\ wait' = wait + 1
  /\ loose' = IF Unbased THEN loose + 1 ELSE loose
  /\ UNCHANGED <<alloc, own, base, hi, place, peers, chipKey, next, done, top, given>>

\* A TX status, read on the loop (umac_datapath_mesh_own_group_tx_done).
TxDone ==
  /\ done > 0 /\ done' = done - 1
  /\ inflight' = IF inflight = 0 THEN 0 ELSE inflight - 1
  /\ UNCHANGED <<alloc, own, base, sent, hi, noted, loose, place, peers, chipKey, next, wait,
                 top, given>>

\* The chip restarts (hw_restart_evt_handler): some of its frames are handed back, the
\* others never reported; the key goes back in unless the chip refuses it or an earlier
\* command of the restart failed.
PnRestart ==
  /\ \E n \in 0 .. wait + done : done' = n
  /\ wait' = 0
  /\ IF place = "out"
     THEN /\ chipKey' = None /\ next' = 0
          /\ UNCHANGED <<alloc, base, sent, loose, hi, place>>
     ELSE LET e == InstallEpoch(alloc, GroupTop, "owed") IN
          /\ e <= MaxEpoch
          /\ \/ Takes(own, e)
             \/ /\ alloc' \in {alloc, e} /\ chipKey' = None /\ next' = 0 /\ place' = "owed"
                /\ UNCHANGED <<base, sent, loose, hi>>
  /\ UNCHANGED <<own, inflight, noted, peers, top, given>>

\* umac_datapath_mesh_service_restore tries again.
PnServiceRestore ==
  /\ place = "owed" /\ own # None
  /\ PnPut
  /\ UNCHANGED <<own, inflight, noted, peers, wait, done, top, given>>

(***************************************************************************)
(* The chip.                                                               *)
(***************************************************************************)
\* Sends one frame; a resend of it has the same number.
Draw ==
  /\ wait > 0 /\ chipKey # None
  /\ top' = [top EXCEPT ![chipKey] = next]
  /\ next' = next + 1 /\ wait' = wait - 1 /\ done' = done + 1
  /\ UNCHANGED <<alloc, own, counts, place, peers, chipKey, given>>

\* Hands one back without sending it.
HandBack ==
  /\ wait > 0
  /\ wait' = wait - 1 /\ done' = done + 1
  /\ UNCHANGED <<alloc, own, counts, place, peers, chipKey, next, top, given>>

PnNext == \/ \E k \in MgtkKeys : Deliver(k)
          \/ PnAddPeer \/ PnDelPeer \/ KeyPeer \/ TellBased \/ TellUnbased
          \/ Send \/ TxDone \/ PnRestart \/ PnServiceRestore \/ Draw \/ HandBack

PnSpec == PnInit /\ [][PnNext]_pnvars

-----------------------------------------------------------------------------
PnTypeOK ==
  /\ alloc \in Nat /\ own \in MgtkKeys \cup {None}
  /\ base \in Nat /\ sent \in Nat /\ inflight \in Nat /\ hi \in Nat /\ noted \in Nat
  /\ loose \in Nat
  /\ place \in {"in", "owed", "out"} /\ peers \in {"none", "some"}
  /\ chipKey \in MgtkKeys \cup {None} /\ next \in Nat /\ wait \in Nat /\ done \in Nat
  /\ top \in [MgtkKeys -> Nat] /\ given \in Nat

\* No packet number is used twice under a key: what the chip gives its next frame lies above
\* everything drawn under the key it holds, whichever installs, deliveries, refusals and
\* restarts lie between.
PnFresh == chipKey # None => next > top[chipKey]

\* "RSC ... one below the chip's next PN": once the chip took our key, no frame of ours to
\* come is refused by a peer that was told the RSC.
RscReaches == place = "in" => given < next

\* "a later peer refuses every group frame sent before it": if the chip holds the key, and
\* took it again where it had to, the RSC told lies at or above every number drawn so far.
RscCovers ==
  [][TellBased /\ place = "in" /\ (alloc' = alloc \/ next' # next) => base' > top[own]]_pnvars

\* Why the above hold.  Frames still in the chip are counted; its numbers cannot pass what
\* the host thinks they can have reached; and so no number drawn is at or above the next
\* install.
Reach   == IF base = 0 THEN First(alloc) + loose ELSE Larger(base + sent, First(alloc))
Counted == wait + done <= inflight /\ base <= First(alloc)
Bounded == chipKey # None =>
             next + wait <= IF base = 0 THEN First(alloc) + loose ELSE base + sent
Behind  == \A k \in MgtkKeys : top[k] = 0 \/ top[k] < Reach
PnTold    == IF base = 0 THEN given <= First(alloc) ELSE given < base
PlaceOK == /\ place = "in" => chipKey = own /\ own # None /\ base # 0 /\ base <= next
           /\ place = "owed" => own # None
           /\ base # 0 => loose = 0
           /\ loose <= Loose
PnInv   == PnTypeOK /\ Counted /\ Bounded /\ Behind /\ PnTold /\ PlaceOK /\ PnFresh /\ RscReaches
=============================================================================
