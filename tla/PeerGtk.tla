------------------------------ MODULE PeerGtk ------------------------------
(***************************************************************************)
(* A peer's group key (MGTK) in the chip at the peer's AID, the link of    *)
(* one slot of s_peers, and what a restart of the chip takes and gives     *)
(* back (umac_datapath_mesh.c; SAE, AMPE keys in the chip, MESH chip VIF). *)
(*                                                                         *)
(* The chip opens the peer's group frames under any key it holds at the    *)
(* AID, and its driver reads them while the event loop waits for the       *)
(* chip's answer; the loop takes or refuses them later, in the order read. *)
(* The chip may refuse any command.  An install it took is answered, and   *)
(* frames it opened before are read before that answer.  A frame is taken  *)
(* within the minute after which a fence retires.  hostap delivers every   *)
(* MGTK under key id 1; the chip chooses the index.                        *)
(***************************************************************************)
EXTENDS Integers, Sequences

CONSTANTS NKeys,        \* bound: MGTKs of the peer, one after the other
          Idx,          \* the chip's key indexes at the AID
          MaxPn,        \* bound: packet numbers of a key
          MaxQueue      \* bound: frames read and not yet taken

ASSUME GtkAssumption ==
  /\ {NKeys, MaxPn, MaxQueue} \subseteq Nat /\ NKeys > 0
  /\ Idx # {} /\ 0 \notin Idx

VARIABLES
  newest,         \* the last MGTK the peer told: it never goes back to an older one
  \* The slot.
  link,           \* "none", "added", "half" (its MTK is only in the keychain), "keyed" (s_peer_estab)
  chain, rx,      \* keychain: its MGTK, or 0, and that key's replay counter
  rec,            \* s_peer_gtk: the key and the chip's index for it, or Nothing
  fence, taint,   \* s_peer_aid: how many of the frames in rxq lie below it; tainted indexes
  restore,        \* s_restore
  mode, applied,  \* AT+GTKPERSTA: set, and the one the slots were brought to
  call,           \* a put under way: what the chip held before, and whether a restart wants it
  \* The chip.
  at, mtk,        \* its group keys at the AID; whether it has the MTK
  rxq,            \* frames read and not yet taken
  last            \* history: the highest number taken under each key

gtkvars  == <<rec, fence, taint>>
linkvars == <<link, chain, rx>>
vars == <<newest, linkvars, gtkvars, restore, mode, applied, call, at, mtk, rxq, last>>

Keys    == 1 .. NKeys
Nothing == [key |-> 0, idx |-> 0]
Idle    == [kind |-> "idle", old |-> Nothing]
Hosted  == call = Idle            \* the loop is between two calls
Wanted  == mode # 0               \* mesh_peer_gtk_wanted_
Paired  == link \in {"half", "keyed"}   \* the keychain has an active pairwise key

GtkInit ==
  /\ newest = 1 /\ last = [k \in Keys |-> 0]
  /\ link = "none" /\ chain = 0 /\ rx = 0
  /\ rec = Nothing /\ fence = 0 /\ taint = {} /\ restore = {}
  /\ mode = 1 /\ applied = 1 /\ call = Idle
  /\ at = [i \in Idx |-> 0] /\ mtk = "out" /\ rxq = <<>>

(***************************************************************************)
(* The peer, the air and the chip's receive side.                          *)
(***************************************************************************)
\* What its AMPE frame can carry: the key it had or, its mesh started again, another, and an
\* RSC at or above what it sent by then (GroupPn).  None built before the link's record is
\* delivered to it, so only under the record's own key can frames have been taken since.
Told == {t \in [key : newest .. NKeys, rsc : 0 .. MaxPn] : t.key = chain \/ t.rsc >= last[t.key]}

\* A frame of its arrives, late or again perhaps; the chip opens it under a key at the AID and
\* the driver reads it (left is history: under one a refused DISABLE_KEY left there).
Read(k, pn) ==
  /\ link # "none" /\ (\E i \in Idx : at[i] = k) /\ Len(rxq) < MaxQueue
  /\ rxq' = Append(rxq, [key |-> k, pn |-> pn, left |-> \E i \in taint : at[i] = k])
  /\ UNCHANGED <<newest, linkvars, gtkvars, restore, mode, applied, call, at, mtk, last>>

(***************************************************************************)
(* The loop takes a frame: umac_datapath_mesh_peer_gtk_opened, then the    *)
(* replay check against the keychain's key.                                *)
(***************************************************************************)
\* Mutant: no fence.
OpenedUnfenced == Wanted /\ link = "keyed" /\ rec.key # 0 /\ taint = {}
Opened == Wanted /\ link = "keyed" /\ rec.key # 0 /\ taint = {} /\ fence = 0

Take ==
  /\ Hosted /\ rxq # <<>> /\ rxq' = Tail(rxq)
  /\ fence' = IF fence = 0 THEN 0 ELSE fence - 1
  /\ LET f == Head(rxq) IN
     IF Opened /\ f.pn > rx
     THEN rx' = f.pn /\ last' = [last EXCEPT ![f.key] = f.pn]
     ELSE UNCHANGED <<rx, last>>
  /\ UNCHANGED <<newest, link, chain, rec, taint, restore, mode, applied, call, at, mtk>>

(***************************************************************************)
(* A put (mesh_peer_gtk_put_): the record is out while the chip is asked.  *)
(***************************************************************************)
Put(kind) == call' = [kind |-> kind, old |-> rec] /\ rec' = Nothing

\* DISABLE_KEY at index i, where the chip holds h and t is tainted: the ways it can end.
\* Mutant: a refusal leaves no taint.
DisablesQuiet(h, t, i) ==
  { [at |-> [h EXCEPT ![i] = 0], taint |-> t \ {i}], [at |-> h, taint |-> t] }
Disables(h, t, i) ==
  { [at |-> [h EXCEPT ![i] = 0], taint |-> t \ {i}], [at |-> h, taint |-> t \cup {i}] }

\* The record's index out of the chip, if it has one (mesh_peer_gtk_disable_).
Drops(h, t, r) == IF r.key = 0 THEN {[at |-> h, taint |-> t]} ELSE Disables(h, t, r.idx)

\* Every tainted index is tried again (mesh_peer_gtk_untaint_): those in T are refused again.
Untainted(T) == [at |-> [i \in Idx |-> IF i \in taint \ T THEN 0 ELSE at[i]], taint |-> T]

\* The chip takes the keychain's key at index i, and what it held before goes.  A frame read
\* before another key went in is fenced.
PutIn(i) ==
  /\ \E T \in SUBSET taint : LET u == Untainted(T) IN
       \E c \in IF call.old.key # 0 /\ call.old.idx = i
                THEN {[at |-> [u.at EXCEPT ![i] = chain], taint |-> u.taint]}
                ELSE Drops([u.at EXCEPT ![i] = chain], u.taint, call.old) :
         at' = c.at /\ taint' = c.taint
  /\ rec' = [key |-> chain, idx |-> i]
  /\ fence' = IF call.old.key = chain THEN fence ELSE Len(rxq)
  /\ restore' = IF call.kind = "restore" THEN restore \ {"gtk"} ELSE restore

\* Or refuses it: what it held before goes all the same.
PutRefused ==
  /\ \E T \in SUBSET taint : LET u == Untainted(T) IN
       \E c \in Drops(u.at, u.taint, call.old) : at' = c.at /\ taint' = c.taint
  /\ restore' = IF call.kind = "restore" THEN restore \cup {"gtk"} ELSE restore
  /\ UNCHANGED <<rec, fence>>

PutEnds ==
  /\ ~Hosted /\ call' = Idle
  /\ (\E i \in Idx : PutIn(i)) \/ PutRefused
  /\ UNCHANGED <<newest, linkvars, mode, applied, mtk, rxq, last>>

\* mesh_peer_gtk_restore_ on a slot whose peer is there: a put where there is a key to put.
Puts(kind) ==
  IF chain # 0 /\ Wanted THEN Put(kind) ELSE UNCHANGED <<call, rec>>

(***************************************************************************)
(* Calls on the event loop.                                                *)
(***************************************************************************)
\* umac_datapath_mesh_add_peer.  What the AID still holds of a former link stays tainted.
AddPeer ==
  /\ Hosted /\ link = "none" /\ link' = "added" /\ chain' = 0 /\ rx' = 0 /\ restore' = {}
  /\ rec' = Nothing
  /\ UNCHANGED <<newest, fence, taint, mode, applied, call, at, mtk, rxq, last>>

\* set_peer_key with the MTK, which the chip takes or refuses.
SetMtk ==
  /\ Hosted /\ link # "none"
  /\ \/ link' = "keyed" /\ mtk' = "in"
     \/ link' = (IF link = "added" THEN "half" ELSE link) /\ mtk' = mtk
  /\ UNCHANGED <<newest, chain, rx, gtkvars, restore, mode, applied, call, at, rxq,
                 last>>

\* set_peer_key with the MGTK AMPE carried: its RSC is the replay floor; the same key again
\* keeps the counter it has.  Mutant: it takes the floor.
FloorAlone(t) == t.rsc
Floor(t) == IF t.key = chain /\ rx > t.rsc THEN rx ELSE t.rsc

SetGtk ==
  /\ Hosted /\ link # "none"
  /\ \E t \in Told : newest' = t.key /\ chain' = t.key /\ rx' = Floor(t)
  /\ IF Wanted
     THEN Put("set") /\ UNCHANGED <<at, taint>>
     ELSE /\ rec' = Nothing /\ call' = call
          /\ \E c \in Drops(at, taint, rec) : at' = c.at /\ taint' = c.taint
  /\ UNCHANGED <<link, fence, restore, mode, applied, mtk, rxq, last>>

\* mesh_restore_peer_key_, when another peer left or on AT+REKEY: the MTK again (the chip keeps
\* the one it has if it refuses), and the MGTK.
PutBack ==
  /\ Hosted /\ Paired
  /\ mtk' \in {mtk, "in"}
  /\ Puts("set")
  /\ UNCHANGED <<newest, linkvars, fence, taint, restore, mode, applied, at, rxq, last>>

\* umac_datapath_mesh_del_peer.
DelPeer ==
  /\ Hosted /\ link # "none" /\ link' = "none" /\ chain' = 0 /\ rx' = 0 /\ restore' = {}
  /\ mtk' = "out" /\ rec' = Nothing
  /\ \E c \in Drops(at, taint, rec) : at' = c.at /\ taint' = c.taint
  /\ UNCHANGED <<newest, fence, mode, applied, call, rxq, last>>

\* The chip restarts, and the loop's handler puts back what it takes: umac_datapath_mesh_chip_booted
\* then _chip_restored.
Restart ==
  /\ Hosted
  /\ at' = [i \in Idx |-> 0] /\ taint' = {} /\ fence' = 0 /\ applied' = mode
  /\ \E refused \in SUBSET {"sta", "mtk"} :
       /\ restore' = IF link = "none" THEN {} ELSE IF Paired THEN refused ELSE refused \ {"mtk"}
       /\ mtk' = IF Paired /\ "mtk" \notin refused THEN "in" ELSE "out"
  /\ IF Paired /\ chain # 0 /\ Wanted
     THEN call' = [kind |-> "restore", old |-> Nothing]
     ELSE call' = call
  /\ rec' = Nothing
  /\ UNCHANGED <<newest, linkvars, mode, rxq, last>>

\* umac_datapath_mesh_service_restore: what is still owed is tried again.  Mutant: it is
\* forgotten once it was tried.
ServiceForgets ==
  /\ Hosted /\ link # "none" /\ restore # {}
  /\ \E refused \in SUBSET (restore \cap {"sta", "mtk"}) :
       /\ mtk' = IF "mtk" \in restore \ refused /\ Paired THEN "in" ELSE mtk
       /\ IF "gtk" \in restore /\ Paired /\ chain # 0 /\ Wanted
          THEN restore' = {"gtk"} /\ Put("restore")
          ELSE restore' = {} /\ UNCHANGED <<call, rec>>
  /\ UNCHANGED <<newest, linkvars, fence, taint, mode, applied, at, rxq, last>>

ServiceRestore ==
  /\ Hosted /\ link # "none" /\ restore # {}
  /\ \E refused \in SUBSET (restore \cap {"sta", "mtk"}) :
       /\ mtk' = IF "mtk" \in restore \ refused /\ Paired THEN "in" ELSE mtk
       /\ IF "gtk" \in restore /\ Paired /\ chain # 0 /\ Wanted
          THEN restore' = refused \cup {"gtk"} /\ Put("restore")
          ELSE restore' = refused /\ UNCHANGED <<call, rec>>
  /\ UNCHANGED <<newest, linkvars, fence, taint, mode, applied, at, rxq, last>>

\* umac_datapath_mesh_service_peer_gtk, on the same tick: a mode that changed is brought to the
\* slot.
ModeApplied ==
  /\ Hosted /\ mode # applied /\ applied' = mode
  /\ IF link = "none"
     THEN UNCHANGED <<call, rec, at, taint>>
     ELSE IF mode = 0
     THEN /\ rec' = Nothing /\ call' = call
          /\ \E c \in Drops(at, taint, rec) : at' = c.at /\ taint' = c.taint
     ELSE Puts("set") /\ UNCHANGED <<at, taint>>
  /\ UNCHANGED <<newest, linkvars, fence, restore, mode, mtk, rxq, last>>

\* AT+GTKPERSTA, on the console's task.
SetMode ==
  /\ mode' = 1 - mode
  /\ UNCHANGED <<newest, linkvars, gtkvars, restore, applied, call, at, mtk, rxq, last>>

GtkNext ==
  \/ \E k \in Keys, pn \in 1 .. MaxPn : Read(k, pn)
  \/ Take \/ PutEnds \/ AddPeer \/ SetMtk \/ SetGtk \/ PutBack \/ DelPeer \/ Restart
  \/ ServiceRestore \/ ModeApplied \/ SetMode

GtkSpec == GtkInit /\ [][GtkNext]_vars

-----------------------------------------------------------------------------
GtkTypeOK ==
  /\ newest \in Keys
  /\ link \in {"none", "added", "half", "keyed"} /\ chain \in 0 .. NKeys /\ rx \in 0 .. MaxPn
  /\ rec \in {Nothing} \cup [key : Keys, idx : Idx]
  /\ fence \in 0 .. Len(rxq) /\ taint \subseteq Idx
  /\ restore \subseteq {"sta", "mtk", "gtk"} /\ {mode, applied} \subseteq {0, 1}
  /\ call.kind \in {"idle", "set", "restore"}
  /\ at \in [Idx -> 0 .. NKeys] /\ mtk \in {"in", "out"}
  /\ Len(rxq) <= MaxQueue /\ last \in [Keys -> 0 .. MaxPn]

\* "Every group frame the chip then opens for that AID is refused": a frame opened under an
\* old key is never replay-checked against the new key's counter.
TakenUnderItsKey ==
  [][Take /\ rx' # rx => Head(rxq).key = chain]_vars

\* So it is, however late the frame comes and whatever was installed, refused and restarted
\* since, but for one read while a refused DISABLE_KEY had left its key there and taken after
\* that key went.
Leftover == Head(rxq).left /\ taint = {}
FencedOrTainted ==
  [][Take /\ rx' # rx => Head(rxq).key = chain \/ Leftover]_vars

\* And none but those is taken twice.
TakenOnce ==
  [][Take /\ rx' # rx => Head(rxq).pn > last[Head(rxq).key] \/ Leftover]_vars

\* "the AID then holds nothing else": whatever the chip still holds at the AID is the key the
\* host tracks there, or its index is tainted.
HeldOrTainted ==
  LET r == IF Hosted THEN rec ELSE call.old IN
  \A i \in Idx : at[i] # 0 => i \in taint \/ (r.key = at[i] /\ r.idx = i)

\* No unicast frame goes to a chip that a restart left without the link's key: the gate
\* (umac_datapath_mesh_chip_key_missing) stays shut until the key is back.
MissingIsOwed == link = "keyed" /\ mtk = "out" => "mtk" \in restore

\* The types and both.
GtkInv == GtkTypeOK /\ HeldOrTainted /\ MissingIsOwed

\* What a restart of the chip could not put back stays owed, and is asked for at every tick,
\* until the chip has it or the link or the mode no longer wants it.
OwedUntilBack ==
  [][link' = link =>
       /\ "mtk" \in restore \ restore' => mtk' = "in"
       /\ "gtk" \in restore \ restore' =>
            rec'.key # 0 \/ mode = 0 \/ call'.kind = "restore"]_vars
=============================================================================
