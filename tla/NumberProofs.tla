---------------------------- MODULE NumberProofs ----------------------------
(***************************************************************************)
(* Numbers that wrap, run ahead or are counted by another: our group key's *)
(* packet numbers, those under a peer's key in the chip, and the numbers   *)
(* of batman broadcasts.                                                   *)
(*                                                                         *)
(* No packet number of our group key is used twice, for every epoch size,  *)
(* every number of frames, installs, refusals and chip restarts, as long   *)
(* as no more frames than an epoch holds are sent while a delivered key    *)
(* waits for its first install.                                            *)
(***************************************************************************)
EXTENDS GroupPn, PeerGtk, BatBcast, FiniteSetTheorems, TLAPS

(***************************************************************************)
(* Arithmetic of the allocator.                                            *)
(***************************************************************************)
\* Larger is a natural number at or above both.
LEMMA LargerNat ==
  ASSUME NEW x \in Nat, NEW y \in Nat
  PROVE  Larger(x, y) \in Nat /\ Larger(x, y) >= x /\ Larger(x, y) >= y
  BY DEF Larger

\* The next epoch begins above pn and an epoch or more above the last one
\* (mesh_next_pn_base_).
LEMMA NextEpochAbove ==
  ASSUME NEW al \in Nat, NEW pn \in Nat
  PROVE  /\ NextEpoch(al, pn) \in Nat /\ First(NextEpoch(al, pn)) \in Nat
         /\ First(NextEpoch(al, pn)) > pn
         /\ First(NextEpoch(al, pn)) >= First(al) + Epoch
<1> DEFINE m == Larger(al, pn \div Epoch)
<1>0. Epoch \in Nat \ {0}  BY PnAssumption
<1>1. pn \div Epoch \in Nat  BY <1>0, SMTT(30)
<1>2. m \in Nat /\ m >= al /\ m >= pn \div Epoch  BY <1>1, LargerNat
<1>3. Epoch * m >= Epoch * al /\ Epoch * m >= Epoch * (pn \div Epoch)
  BY <1>0, <1>1, <1>2, SMTT(30)
<1>4. Epoch * (pn \div Epoch) + Epoch > pn  BY <1>0, SMTT(30)
<1>5. Epoch * (m + 1) = Epoch * m + Epoch /\ Epoch * m \in Nat  BY <1>0, <1>2, SMTT(30)
<1> HIDE DEF m
<1>6. NextEpoch(al, pn) = m + 1  BY DEF NextEpoch, m
<1>7. Epoch * al \in Nat /\ Epoch * (pn \div Epoch) \in Nat  BY <1>0, <1>1, SMTT(30)
<1> QED  BY <1>0, <1>2, <1>3, <1>4, <1>5, <1>6, <1>7 DEF First

LEMMA FirstNat == ASSUME NEW e \in Nat PROVE First(e) \in Nat
  BY PnAssumption, SMTT(30) DEF First

(***************************************************************************)
(* The invariant.                                                          *)
(***************************************************************************)
\* Whatever makes the chip take our key keeps the invariant, if the epoch lies above what
\* the host counts and a whole epoch above the last one.
LEMMA TakesKeeps ==
  ASSUME PnInv, Loose <= Epoch, NEW k \in MgtkKeys, NEW e \in Nat,
         First(e) \in Nat, First(e) >= First(alloc) + Epoch, First(e) > GroupTop,
         Takes(k, e), own' = k, top' = top, inflight' = inflight,
         NEW w \in Nat, NEW d \in Nat, wait' = w, done' = d, w + d <= wait + done,
         noted' = noted, peers' \in {"none", "some"},
         given' = given \/ given' = Larger(given, base' - 1)
  PROVE  PnInv'
<1> USE PnAssumption
<1>0. First(alloc) \in Nat /\ GroupTop = IF base = 0 THEN 0 ELSE base + sent
  BY FirstNat DEF PnInv, PnTypeOK, GroupTop
<1>1. First(e) >= Epoch /\ First(e) > 0
  BY <1>0
<1>2. PnTypeOK'
  <2>1. Larger(given, First(e) - 1) \in Nat /\ Larger(hi, First(e)) \in Nat
    <3>1. First(e) - 1 \in Nat /\ given \in Nat /\ hi \in Nat
      BY <1>1 DEF PnInv, PnTypeOK
    <3> QED  BY <3>1, LargerNat
  <2>2. alloc' \in Nat /\ base' \in Nat /\ next' \in Nat /\ sent' \in Nat /\ loose' \in Nat
        /\ hi' \in Nat /\ given' \in Nat
    BY <2>1 DEF PnInv, PnTypeOK, Takes
  <2>3. place' = "in" /\ chipKey' \in MgtkKeys /\ own' \in MgtkKeys
    BY DEF Takes
  <2>4. inflight' \in Nat /\ noted' \in Nat /\ top' \in [MgtkKeys -> Nat]
    BY DEF PnInv, PnTypeOK
  <2> QED  BY <2>1, <2>2, <2>3, <2>4 DEF PnTypeOK
<1>3. Counted'
  <2>1. First(alloc') = First(e) /\ base' = First(e)
    BY DEF Takes
  <2>2. w + d <= inflight
    BY DEF PnInv, PnTypeOK, Counted
  <2> QED  BY <2>1, <2>2 DEF Counted
<1>4. Bounded'
  <2>1. base' = First(e) /\ next' = First(e) /\ sent' = inflight'
    BY DEF Takes
  <2>2. w <= inflight /\ inflight \in Nat
    BY DEF PnInv, PnTypeOK, Counted
  <2> QED  BY <1>1, <2>1, <2>2 DEF Bounded
<1>5. \A j \in MgtkKeys : top[j] < First(e)
  <2> SUFFICES ASSUME NEW j \in MgtkKeys PROVE top[j] < First(e)
    OBVIOUS
  <2>1. top[j] \in Nat /\ (top[j] = 0 \/ top[j] < Reach)
    BY DEF PnInv, PnTypeOK, Behind
  <2>2. Reach <= First(e)
    BY <1>0 DEF PnInv, PnTypeOK, PlaceOK, Reach, Larger
  <2>3. Reach \in Nat
    BY <1>0 DEF PnInv, PnTypeOK, Reach, Larger
  <2> QED  BY <1>1, <2>1, <2>2, <2>3
<1>6. Behind'
  <2>1. Reach' >= First(e)
    BY <1>1, <1>2 DEF PnTypeOK, Takes, Reach, Larger
  <2>2. \A j \in MgtkKeys : top[j] \in Nat
    BY DEF PnInv, PnTypeOK
  <2>3. Reach' \in Nat
    BY <1>1, <1>2 DEF PnTypeOK, Takes, Reach, Larger
  <2> QED  BY <1>1, <1>5, <2>1, <2>2, <2>3 DEF Behind
<1>7. PnTold'
  BY <1>0, <1>1 DEF PnInv, PnTypeOK, PnTold, Takes, GroupTop, Larger
<1>8. PlaceOK'
  BY <1>1 DEF PnInv, PnTypeOK, PlaceOK, Takes
<1>9. PnFresh'
  BY <1>5 DEF Takes, PnFresh
<1>10. RscReaches'
  BY <1>7, <1>1 DEF Takes, RscReaches, PnTold
<1> QED  BY <1>2, <1>3, <1>4, <1>6, <1>7, <1>8, <1>9, <1>10 DEF PnInv

\* A refused install keeps it: only the allocator has moved.
LEMMA RefusesKeeps ==
  ASSUME PnInv, NEW e \in Nat, First(e) \in Nat, First(e) >= First(alloc), Refuses(e),
         UNCHANGED <<own, top, inflight, wait, done, noted>>, peers' \in {"none", "some"},
         given' = given \/ (base # 0 /\ given' = Larger(given, base - 1))
  PROVE  PnInv'
<1> USE PnAssumption
<1>0. First(alloc) \in Nat
  BY FirstNat DEF PnInv, PnTypeOK
<1>1. PnTypeOK'
  <2>1. given' \in Nat
    BY DEF PnInv, PnTypeOK, Larger
  <2> QED  BY <2>1 DEF PnInv, PnTypeOK, Refuses
<1>2. Counted' /\ Bounded' /\ PlaceOK' /\ PnFresh'
  BY <1>0 DEF PnInv, PnTypeOK, Counted, Bounded, PlaceOK, PnFresh, Refuses
<1>3. Behind'
  <2>1. Reach' \in Nat /\ Reach \in Nat /\ Reach' >= Reach
    BY <1>0 DEF PnInv, PnTypeOK, Refuses, Reach, Larger
  <2>2. \A j \in MgtkKeys : top[j] \in Nat
    BY DEF PnInv, PnTypeOK
  <2> QED  BY <2>1, <2>2 DEF PnInv, Behind
<1>4. PnTold'
  BY <1>0 DEF PnInv, PnTypeOK, PnTold, Refuses, Larger
<1>5. RscReaches'
  BY DEF PnInv, PnTypeOK, PnTold, PlaceOK, RscReaches, Refuses, Larger
<1> QED  BY <1>1, <1>2, <1>3, <1>4, <1>5 DEF PnInv

\* The epoch of an install lies above what the host counts, whether or not a restart owes
\* the key back.
LEMMA InstallAbove ==
  ASSUME PnTypeOK, NEW al \in Nat, NEW pn \in Nat, NEW pl
  PROVE  LET e == InstallEpoch(al, pn, pl) IN
         e \in Nat /\ First(e) \in Nat /\ First(e) > pn /\ First(e) >= First(al) + Epoch
<1>1. hi + noted \in Nat
  BY DEF PnTypeOK
<1>2. Larger(hi + noted, pn) \in Nat /\ Larger(hi + noted, pn) >= pn
  BY <1>1, LargerNat
<1> DEFINE m == IF pl = "owed" THEN Larger(hi + noted, pn) ELSE pn
<1>3. m \in Nat /\ m >= pn
  BY <1>2
<1>4. InstallEpoch(al, pn, pl) = NextEpoch(al, m)
  BY DEF InstallEpoch
<1> HIDE DEF m
<1> QED  BY <1>3, <1>4, NextEpochAbove

\* What the host counts as used is a number.
LEMMA GroupTopNat == ASSUME PnTypeOK PROVE GroupTop \in Nat
  BY DEF PnTypeOK, GroupTop

\* An install of our key, taken or refused, keeps the invariant.
LEMMA PutKeeps ==
  ASSUME PnInv, Loose <= Epoch, own # None, PnPut,
         UNCHANGED <<own, top, inflight, wait, done, noted>>, peers' \in {"none", "some"},
         given' = given \/ (base # 0 /\ given' = Larger(given, base' - 1))
  PROVE  PnInv'
<1> DEFINE e == InstallEpoch(alloc, GroupTop, place)
<1>1. e \in Nat /\ First(e) \in Nat /\ First(e) > GroupTop /\ First(e) >= First(alloc) + Epoch
  BY InstallAbove, GroupTopNat DEF PnInv, PnTypeOK
<1>2. Takes(own, e) \/ Refuses(e)
  BY DEF PnPut
<1>3. own \in MgtkKeys /\ wait \in Nat /\ done \in Nat /\ wait' = wait /\ done' = done
  BY DEF PnInv, PnTypeOK
<1>4. First(alloc) \in Nat /\ Epoch \in Nat
  BY FirstNat, PnAssumption DEF PnInv, PnTypeOK
<1> HIDE DEF e
<1>5. CASE Takes(own, e)
  <2>1. wait + done <= wait + done
    BY <1>3
  <2> QED  BY <1>1, <1>3, <1>5, <2>1, TakesKeeps
<1>6. CASE Refuses(e)
  <2>1. First(e) >= First(alloc) /\ base' = base
    BY <1>1, <1>4, <1>6 DEF Refuses
  <2> QED  BY <1>1, <1>6, <2>1, RefusesKeeps
<1> QED  BY <1>2, <1>5, <1>6

(***************************************************************************)
(* Every step of the specification keeps the invariant.                    *)
(***************************************************************************)
LEMMA DeliverKeeps ==
  ASSUME PnInv, Loose <= Epoch, NEW k \in MgtkKeys, Deliver(k)
  PROVE  PnInv'
<1> USE PnAssumption
<1> DEFINE e == NextEpoch(alloc, GroupTop)
           f == InstallEpoch(e, 0, place)
<1>1. e \in Nat /\ First(e) \in Nat /\ First(e) > GroupTop /\ First(e) >= First(alloc) + Epoch
  BY NextEpochAbove, GroupTopNat DEF PnInv, PnTypeOK
<1>2. f \in Nat /\ First(f) \in Nat /\ First(f) >= First(e) + Epoch
  BY <1>1, InstallAbove DEF PnInv
<1>3. First(alloc) \in Nat /\ GroupTop \in Nat
  BY FirstNat, GroupTopNat DEF PnInv, PnTypeOK
<1>4. First(f) > GroupTop /\ First(f) >= First(alloc) + Epoch
  BY <1>1, <1>2, <1>3
<1>5. /\ own' = k
      /\ \/ peers = "some" /\ Takes(k, f)
         \/ /\ alloc' = IF peers = "some" THEN f ELSE e
            /\ base' = 0 /\ sent' = 0
            /\ place' = IF place = "owed" THEN "owed" ELSE "out"
            /\ UNCHANGED <<loose, hi, chipKey, next>>
      /\ UNCHANGED <<inflight, noted, peers, wait, done, top, given>>
  BY DEF Deliver
<1> HIDE DEF e, f
<1>6. CASE Takes(k, f)
  <2>1. wait \in Nat /\ done \in Nat /\ wait + done <= wait + done /\ peers' \in {"none", "some"}
    BY <1>5 DEF PnInv, PnTypeOK
  <2> QED  BY <1>2, <1>4, <1>5, <1>6, <2>1, TakesKeeps
<1>7. CASE ~Takes(k, f)
  <2>1. /\ base' = 0 /\ sent' = 0 /\ place' \in {"owed", "out"}
        /\ place' = "owed" => place = "owed"
        /\ UNCHANGED <<loose, hi, chipKey, next>>
    BY <1>5, <1>7
  <2>2. alloc' \in Nat /\ First(alloc') \in Nat /\ First(alloc') > GroupTop
        /\ First(alloc') >= First(alloc) + Epoch
    BY <1>1, <1>2, <1>4, <1>5, <1>7
  <2>3. PnTypeOK'
    BY <1>5, <2>1, <2>2 DEF PnInv, PnTypeOK
  <2>4. First(alloc') >= First(alloc) /\ First(alloc') \in Nat
    BY <1>3, <2>2
  <2>5. Counted' /\ PlaceOK' /\ PnFresh' /\ RscReaches'
    BY <1>5, <2>1, <2>4 DEF PnInv, PnTypeOK, Counted, PlaceOK, PnFresh, RscReaches
  <2>6. Bounded'
    BY <1>3, <1>5, <2>1, <2>2 DEF PnInv, PnTypeOK, Bounded, PlaceOK, GroupTop
  <2>7. Behind'
    <3>1. Reach \in Nat /\ Reach' \in Nat /\ Reach' >= Reach
      BY <1>3, <2>1, <2>2 DEF PnInv, PnTypeOK, PlaceOK, Reach, Larger, GroupTop
    <3>2. \A j \in MgtkKeys : top[j] \in Nat
      BY DEF PnInv, PnTypeOK
    <3> QED  BY <1>5, <3>1, <3>2 DEF PnInv, Behind
  <2>8. PnTold'
    BY <1>3, <1>5, <2>1, <2>2 DEF PnInv, PnTypeOK, Counted, PnTold
  <2> QED  BY <2>3, <2>5, <2>6, <2>7, <2>8 DEF PnInv
<1> QED  BY <1>6, <1>7

\* The allocator has moved for another key, or nothing of ours has changed.
LEMMA MovesKeeps ==
  ASSUME PnInv, alloc' \in Nat, First(alloc') \in Nat, First(alloc') >= First(alloc),
         peers' \in {"none", "some"},
         UNCHANGED <<own, counts, place, chip>>,
         given' = given \/ (base # 0 /\ given' = Larger(given, base - 1))
  PROVE  PnInv'
<1> USE PnAssumption
<1>1. First(alloc) \in Nat
  BY FirstNat DEF PnInv, PnTypeOK
<1>2. PnTypeOK'
  <2>1. given' \in Nat
    BY DEF PnInv, PnTypeOK, Larger
  <2> QED  BY <2>1 DEF PnInv, PnTypeOK, counts, chip
<1>3. Counted' /\ Bounded' /\ PlaceOK' /\ PnFresh'
  BY <1>1 DEF PnInv, PnTypeOK, Counted, Bounded, PlaceOK, PnFresh, counts, chip
<1>5. PnTold'
  BY <1>1 DEF PnInv, PnTypeOK, PnTold, Larger, counts
<1>6. RscReaches'
  BY DEF PnInv, PnTypeOK, PnTold, PlaceOK, RscReaches, Larger, counts, chip
<1>4. Behind'
  <2>1. Reach' \in Nat /\ Reach \in Nat /\ Reach' >= Reach
    BY <1>1 DEF PnInv, PnTypeOK, Reach, Larger, counts
  <2>2. \A j \in MgtkKeys : top[j] \in Nat
    BY DEF PnInv, PnTypeOK
  <2>3. top' = top
    BY DEF chip
  <2> QED  BY <2>1, <2>2, <2>3 DEF PnInv, Behind
<1> QED  BY <1>2, <1>3, <1>4, <1>5, <1>6 DEF PnInv

LEMMA AddPeerKeeps == ASSUME PnInv, Loose <= Epoch, PnAddPeer PROVE PnInv'
<1>1. peers' \in {"none", "some"}
  BY DEF PnAddPeer
<1>2. CASE own # None /\ place # "in"
  <2>1. PnPut /\ UNCHANGED <<own, top, inflight, wait, done, noted>> /\ given' = given
    BY <1>2 DEF PnAddPeer
  <2> QED  BY <1>1, <1>2, <2>1, PutKeeps
<1>3. CASE ~(own # None /\ place # "in")
  <2>1. UNCHANGED <<alloc, own, counts, place, chip, given>>
    BY <1>3 DEF PnAddPeer, counts, chip
  <2>2. alloc' \in Nat /\ First(alloc) \in Nat /\ First(alloc') = First(alloc)
    BY <2>1, FirstNat DEF PnInv, PnTypeOK
  <2> QED  BY <1>1, <2>1, <2>2, MovesKeeps
<1> QED  BY <1>2, <1>3

LEMMA DelPeerKeeps == ASSUME PnInv, PnDelPeer PROVE PnInv'
<1>1. alloc' \in Nat /\ First(alloc) \in Nat /\ First(alloc') = First(alloc)
  BY FirstNat DEF PnInv, PnTypeOK, PnDelPeer
<1> QED  BY <1>1, MovesKeeps DEF PnDelPeer

LEMMA KeyPeerKeeps == ASSUME PnInv, KeyPeer PROVE PnInv'
<1>1. /\ alloc' \in Nat /\ First(alloc') \in Nat /\ First(alloc') >= First(alloc) + Epoch
      /\ First(alloc) \in Nat
  BY NextEpochAbove, GroupTopNat, FirstNat DEF PnInv, PnTypeOK, KeyPeer
<1>2. First(alloc') >= First(alloc) /\ peers' \in {"none", "some"}
  BY <1>1, PnAssumption DEF PnInv, PnTypeOK, KeyPeer
<1> QED  BY <1>1, <1>2, MovesKeeps DEF KeyPeer

LEMMA TellBasedKeeps == ASSUME PnInv, Loose <= Epoch, TellBased PROVE PnInv'
<1>1. peers' \in {"none", "some"} /\ given' = Larger(given, base' - 1)
  BY DEF PnInv, PnTypeOK, TellBased
<1>2. CASE place = "in" /\ sent # 0
  <2>1. PnPut /\ own # None /\ base # 0 /\ UNCHANGED <<own, top, inflight, wait, done, noted>>
    BY <1>2 DEF TellBased
  <2> QED  BY <1>1, <2>1, PutKeeps
<1>3. CASE ~(place = "in" /\ sent # 0)
  <2>1. UNCHANGED <<alloc, own, counts, place, peers, chip>> /\ base # 0
    BY <1>3 DEF TellBased, counts, chip
  <2>2. given' = Larger(given, base - 1)
    BY <1>1, <2>1 DEF counts
  <2>3. alloc' \in Nat /\ First(alloc) \in Nat /\ First(alloc') = First(alloc)
    BY <2>1, FirstNat DEF PnInv, PnTypeOK
  <2> QED  BY <1>1, <2>1, <2>2, <2>3, MovesKeeps
<1> QED  BY <1>2, <1>3

\* The number told before any install becomes the base the next one goes above.
LEMMA TellUnbasedKeeps == ASSUME PnInv, Loose <= Epoch, TellUnbased PROVE PnInv'
<1> USE PnAssumption
<1> DEFINE e == NextEpoch(alloc, 0)
<1>1. e \in Nat /\ First(e) \in Nat /\ First(e) > 0 /\ First(e) >= First(alloc) + Epoch
      /\ First(alloc) \in Nat
  BY NextEpochAbove, FirstNat DEF PnInv, PnTypeOK
<1>2. /\ own # None /\ base = 0 /\ alloc' = e /\ base' = First(e) /\ sent' = inflight
      /\ loose' = 0 /\ given' = Larger(given, First(e) - 1)
      /\ UNCHANGED <<own, inflight, hi, noted, place, peers, chip>>
  BY DEF TellUnbased
<1> HIDE DEF e
<1>3. PnTypeOK'
  <2>1. given' \in Nat
    BY <1>1, <1>2 DEF PnInv, PnTypeOK, Larger
  <2> QED  BY <1>1, <1>2, <2>1 DEF PnInv, PnTypeOK, chip
<1>4. Counted'
  BY <1>1, <1>2 DEF PnInv, PnTypeOK, Counted, chip
<1>5. First(alloc) + loose <= First(e)
  BY <1>1 DEF PnInv, PnTypeOK, PlaceOK
<1>6. Bounded'
  BY <1>1, <1>2, <1>5 DEF PnInv, PnTypeOK, Counted, Bounded, chip
<1>7. Behind'
  <2>1. Reach \in Nat /\ Reach <= First(e) /\ Reach' \in Nat /\ Reach' >= First(e)
    BY <1>1, <1>2, <1>5 DEF PnInv, PnTypeOK, Reach, Larger
  <2>2. (\A j \in MgtkKeys : top[j] \in Nat) /\ top' = top
    BY <1>2 DEF PnInv, PnTypeOK, chip
  <2>3. Reach' >= Reach
    BY <1>1, <2>1
  <2> QED  BY <2>1, <2>2, <2>3 DEF PnInv, Behind
<1>8. PnTold'
  BY <1>1, <1>2 DEF PnInv, PnTypeOK, PnTold, Larger
<1>9. PlaceOK' /\ PnFresh' /\ RscReaches'
  BY <1>1, <1>2 DEF PnInv, PnTypeOK, PlaceOK, PnFresh, RscReaches, chip
<1> QED  BY <1>3, <1>4, <1>6, <1>7, <1>8, <1>9 DEF PnInv

LEMMA SendKeeps == ASSUME PnInv, Send PROVE PnInv'
<1> USE PnAssumption
<1>0. First(alloc) \in Nat
  BY FirstNat DEF PnInv, PnTypeOK
<1>1. /\ own # None
      /\ noted' = noted + 1 /\ sent' = sent + 1 /\ inflight' = inflight + 1 /\ wait' = wait + 1
      /\ loose' = (IF Unbased THEN loose + 1 ELSE loose) /\ (Unbased => loose < Loose)
      /\ UNCHANGED <<alloc, own, base, hi, place, peers, chipKey, next, done, top, given>>
  BY DEF Send
<1>2. PnTypeOK'
  BY <1>1 DEF PnInv, PnTypeOK
<1>3. Counted'
  <2>1. (wait + 1) + done <= inflight + 1
    BY DEF PnInv, PnTypeOK, Counted
  <2> QED  BY <1>1, <2>1 DEF PnInv, Counted
<1>4. Bounded'
  <2>1. chipKey # None => next + (wait + 1) <= IF base = 0 THEN First(alloc) + (loose + 1)
                                                         ELSE base + (sent + 1)
    BY <1>0 DEF PnInv, PnTypeOK, Bounded
  <2>2. chipKey # None /\ base = 0 => loose' = loose + 1
    BY <1>1 DEF Unbased
  <2>3. UNCHANGED <<chipKey, next, base, alloc>> /\ wait' = wait + 1 /\ sent' = sent + 1
    BY <1>1
  <2> QED  BY <2>1, <2>2, <2>3 DEF Bounded
<1>5. Behind'
  <2>1. Reach' \in Nat /\ Reach \in Nat /\ Reach' >= Reach
    <3>1. loose' \in Nat /\ loose' >= loose /\ sent' = sent + 1 /\ base' = base /\ alloc' = alloc
      BY <1>1 DEF PnInv, PnTypeOK
    <3> DEFINE l == loose'
    <3>2. l \in Nat /\ l >= loose
      BY <3>1
    <3>3. Reach' = IF base = 0 THEN First(alloc) + l ELSE Larger(base + (sent + 1), First(alloc))
      BY <3>1 DEF Reach
    <3> HIDE DEF l
    <3> QED  BY <1>0, <3>2, <3>3 DEF PnInv, PnTypeOK, Reach, Larger
  <2>2. (\A j \in MgtkKeys : top[j] \in Nat) /\ top' = top
    BY <1>1 DEF PnInv, PnTypeOK
  <2> QED  BY <2>1, <2>2 DEF PnInv, Behind
<1>6. PlaceOK'
  <2>1. loose' <= Loose /\ (base # 0 => loose' = loose)
    BY <1>1 DEF PnInv, PnTypeOK, PlaceOK, Unbased
  <2> QED  BY <1>1, <2>1 DEF PnInv, PnTypeOK, PlaceOK
<1>7. PnTold' /\ PnFresh' /\ RscReaches'
  BY <1>1 DEF PnInv, PnTold, PnFresh, RscReaches
<1> QED  BY <1>2, <1>3, <1>4, <1>5, <1>6, <1>7 DEF PnInv

\* Steps that move nothing but the frames between the chip and the loop: no more of them are
\* left than the host counts, and the chip's next number has not moved.
LEMMA FramesKeeps ==
  ASSUME PnInv, NEW w \in Nat, NEW d \in Nat, NEW i \in Nat,
         w <= wait, w + d <= i,
         wait' = w, done' = d, inflight' = i,
         UNCHANGED <<alloc, own, base, sent, hi, noted, loose, place, peers, chipKey, next, top,
                     given>>
  PROVE  PnInv'
<1>0. First(alloc) \in Nat
  BY FirstNat DEF PnInv, PnTypeOK
<1>1. PnTypeOK' /\ Counted'
  BY DEF PnInv, PnTypeOK, Counted
<1>2. Bounded'
  <2>1. chipKey # None => next + w <= IF base = 0 THEN First(alloc) + loose ELSE base + sent
    BY <1>0 DEF PnInv, PnTypeOK, Bounded
  <2> QED  BY <2>1 DEF Bounded
<1>3. Behind' /\ PnTold' /\ PlaceOK' /\ PnFresh' /\ RscReaches'
  BY DEF PnInv, Behind, Reach, PnTold, PlaceOK, PnFresh, RscReaches
<1> QED  BY <1>1, <1>2, <1>3 DEF PnInv

LEMMA TxDoneKeeps == ASSUME PnInv, TxDone PROVE PnInv'
<1>1. inflight \in Nat /\ inflight > 0 /\ done - 1 \in Nat /\ wait \in Nat
      /\ inflight - 1 \in Nat /\ wait + (done - 1) <= inflight - 1
  BY DEF PnInv, PnTypeOK, Counted, TxDone
<1>2. inflight' = inflight - 1
  BY <1>1 DEF TxDone
<1> DEFINE d == done - 1
           i == inflight - 1
<1>3. d \in Nat /\ i \in Nat /\ wait + d <= i /\ wait <= wait
  BY <1>1
<1>4. /\ wait' = wait /\ done' = d /\ inflight' = i
      /\ UNCHANGED <<alloc, own, base, sent, hi, noted, loose, place, peers, chipKey, next, top,
                     given>>
  BY <1>2 DEF TxDone
<1> HIDE DEF d, i
<1> QED  BY <1>1, <1>3, <1>4, FramesKeeps

LEMMA HandBackKeeps == ASSUME PnInv, HandBack PROVE PnInv'
<1>1. wait - 1 \in Nat /\ done + 1 \in Nat /\ inflight \in Nat /\ wait \in Nat
      /\ wait - 1 <= wait /\ (wait - 1) + (done + 1) <= inflight
  BY DEF PnInv, PnTypeOK, Counted, HandBack
<1> QED  BY <1>1, FramesKeeps DEF HandBack, counts

LEMMA DrawKeeps == ASSUME PnInv, Draw PROVE PnInv'
<1>0. First(alloc) \in Nat
  BY FirstNat DEF PnInv, PnTypeOK
<1>1. /\ wait > 0 /\ chipKey # None /\ chipKey \in MgtkKeys
      /\ top' = [top EXCEPT ![chipKey] = next]
      /\ next' = next + 1 /\ wait' = wait - 1 /\ done' = done + 1
      /\ UNCHANGED <<alloc, own, counts, place, peers, chipKey, given>>
  BY DEF PnInv, PnTypeOK, Draw
<1>2. /\ wait - 1 \in Nat /\ done + 1 \in Nat /\ next + 1 \in Nat /\ next \in Nat
      /\ (wait - 1) + (done + 1) = wait + done /\ (next + 1) + (wait - 1) = next + wait
  BY <1>1 DEF PnInv, PnTypeOK
<1>3. PnTypeOK'
  BY <1>1, <1>2 DEF PnInv, PnTypeOK, counts
<1>4. Counted'
  <2>1. (wait - 1) + (done + 1) <= inflight
    BY <1>2 DEF PnInv, PnTypeOK, Counted
  <2> QED  BY <1>1, <2>1 DEF PnInv, Counted, counts
<1>5. Bounded'
  <2>1. (next + 1) + (wait - 1) <= IF base = 0 THEN First(alloc) + loose ELSE base + sent
    BY <1>1, <1>2 DEF PnInv, Bounded
  <2> QED  BY <1>1, <2>1 DEF Bounded, counts
<1>6. Behind'
  <2>1. next < Reach
    <3>1. next + wait <= IF base = 0 THEN First(alloc) + loose ELSE base + sent
      BY <1>1 DEF PnInv, Bounded
    <3> QED  BY <1>0, <1>1, <1>2, <3>1 DEF PnInv, PnTypeOK, Reach, Larger
  <2>2. Reach' = Reach
    BY <1>1 DEF Reach, counts
  <2>3. \A j \in MgtkKeys : top'[j] = IF j = chipKey THEN next ELSE top[j]
    BY <1>1 DEF PnInv, PnTypeOK
  <2> QED  BY <2>1, <2>2, <2>3 DEF PnInv, Behind
<1>7. PnFresh'
  <2>1. top'[chipKey] = next
    BY <1>1 DEF PnInv, PnTypeOK
  <2> QED  BY <1>1, <1>2, <2>1 DEF PnFresh
<1>8. PnTold' /\ PlaceOK' /\ RscReaches'
  <2>1. next + 1 > next
    BY <1>2
  <2>2. (base <= next => base <= next + 1) /\ (given < next => given < next + 1)
    BY <1>2 DEF PnInv, PnTypeOK
  <2> QED  BY <1>1, <2>2 DEF PnInv, PnTold, PlaceOK, RscReaches, counts
<1> QED  BY <1>3, <1>4, <1>5, <1>6, <1>7, <1>8 DEF PnInv

LEMMA RestartKeeps == ASSUME PnInv, Loose <= Epoch, PnRestart PROVE PnInv'
<1> USE PnAssumption
<1>0. First(alloc) \in Nat /\ GroupTop \in Nat /\ wait \in Nat /\ done \in Nat
  BY FirstNat, GroupTopNat DEF PnInv, PnTypeOK
<1>1. PICK n \in 0 .. wait + done : done' = n
  BY DEF PnRestart
<1>2. n \in Nat /\ 0 + n <= wait + done /\ wait' = 0 /\ 0 \in Nat
      /\ UNCHANGED <<own, inflight, noted, peers, top, given>>
  BY <1>0, <1>1 DEF PnRestart
<1> DEFINE e == InstallEpoch(alloc, GroupTop, "owed")
<1>3. e \in Nat /\ First(e) \in Nat /\ First(e) > GroupTop /\ First(e) >= First(alloc) + Epoch
  BY <1>0, InstallAbove DEF PnInv, PnTypeOK
<1>4. \/ place # "out" /\ Takes(own, e)
      \/ /\ chipKey' = None /\ next' = 0 /\ UNCHANGED <<base, sent, loose, hi>>
         /\ alloc' \in {alloc, e} /\ (place' = "out" \/ (place # "out" /\ place' = "owed"))
  BY DEF PnRestart, e
<1> HIDE DEF e
<1>5. CASE place # "out" /\ Takes(own, e)
  <2>1. own \in MgtkKeys /\ peers' \in {"none", "some"}
    BY <1>2, <1>5 DEF PnInv, PnTypeOK, PlaceOK
  <2> QED  BY <1>0, <1>1, <1>2, <1>3, <1>5, <2>1, TakesKeeps
<1>6. CASE /\ chipKey' = None /\ next' = 0 /\ UNCHANGED <<base, sent, loose, hi>>
           /\ alloc' \in {alloc, e} /\ (place' = "out" \/ (place # "out" /\ place' = "owed"))
  <2>1. First(alloc') \in Nat /\ First(alloc') >= First(alloc) /\ alloc' \in Nat
    BY <1>0, <1>3, <1>6 DEF PnInv, PnTypeOK
  <2>2. PnTypeOK'
    BY <1>1, <1>2, <1>6, <2>1 DEF PnInv, PnTypeOK
  <2>3. Counted'
    <3>1. 0 + n <= inflight
      BY <1>0, <1>2 DEF PnInv, PnTypeOK, Counted
    <3> QED  BY <1>0, <1>1, <1>2, <1>6, <2>1, <3>1 DEF PnInv, PnTypeOK, Counted
  <2>4. Bounded' /\ PnFresh' /\ RscReaches'
    BY <1>6 DEF Bounded, PnFresh, RscReaches
  <2>5. Behind'
    <3>1. Reach' \in Nat /\ Reach \in Nat /\ Reach' >= Reach
      BY <1>0, <1>6, <2>1 DEF PnInv, PnTypeOK, Reach, Larger
    <3>2. \A j \in MgtkKeys : top[j] \in Nat
      BY DEF PnInv, PnTypeOK
    <3> QED  BY <1>2, <3>1, <3>2 DEF PnInv, Behind
  <2>6. PnTold'
    BY <1>0, <1>2, <1>6, <2>1 DEF PnInv, PnTypeOK, PnTold
  <2>7. PlaceOK'
    BY <1>2, <1>6 DEF PnInv, PnTypeOK, PlaceOK
  <2> QED  BY <2>2, <2>3, <2>4, <2>5, <2>6, <2>7 DEF PnInv
<1> QED  BY <1>4, <1>5, <1>6

LEMMA ServiceRestoreKeeps == ASSUME PnInv, Loose <= Epoch, PnServiceRestore PROVE PnInv'
<1>1. /\ peers' \in {"none", "some"} /\ PnPut /\ own # None /\ given' = given
      /\ UNCHANGED <<own, top, inflight, wait, done, noted>>
  BY DEF PnInv, PnTypeOK, PnServiceRestore
<1> QED  BY <1>1, PutKeeps

\* The invariant holds throughout.
THEOREM PnInvariant == ASSUME Loose <= Epoch PROVE PnSpec => []PnInv
<1>1. PnInit => PnInv
  <2> SUFFICES ASSUME PnInit PROVE PnInv
    OBVIOUS
  <2>1. First(0) = 0
    BY PnAssumption DEF First
  <2>2. top = [k \in MgtkKeys |-> 0] /\ \A k \in MgtkKeys : top[k] = 0
    BY DEF PnInit
  <2>3. PnTypeOK /\ Behind
    BY <2>2 DEF PnInit, PnTypeOK, Behind
  <2> QED  BY <2>1, <2>3, PnAssumption
           DEF PnInit, PnInv, Counted, Bounded, PnTold, PlaceOK, PnFresh, RscReaches
<1>2. PnInv /\ [PnNext]_pnvars => PnInv'
  <2> SUFFICES ASSUME PnInv, [PnNext]_pnvars PROVE PnInv'
    OBVIOUS
  <2>1. CASE \E k \in MgtkKeys : Deliver(k)
    BY <2>1, DeliverKeeps
  <2>2. CASE PnAddPeer \/ PnDelPeer \/ KeyPeer
    BY <2>2, AddPeerKeeps, DelPeerKeeps, KeyPeerKeeps
  <2>3. CASE TellBased \/ TellUnbased
    BY <2>3, TellBasedKeeps, TellUnbasedKeeps
  <2>4. CASE Send \/ TxDone
    BY <2>4, SendKeeps, TxDoneKeeps
  <2>5. CASE PnRestart \/ PnServiceRestore
    BY <2>5, RestartKeeps, ServiceRestoreKeeps
  <2>6. CASE Draw \/ HandBack
    BY <2>6, DrawKeeps, HandBackKeeps
  <2>7. CASE UNCHANGED pnvars
    <3>1. alloc' \in Nat /\ First(alloc) \in Nat /\ First(alloc') = First(alloc)
          /\ peers' \in {"none", "some"}
      BY <2>7, FirstNat DEF PnInv, PnTypeOK, pnvars
    <3> QED  BY <2>7, <3>1, MovesKeeps DEF pnvars
  <2> QED  BY <2>1, <2>2, <2>3, <2>4, <2>5, <2>6, <2>7 DEF PnNext
<1> QED  BY <1>1, <1>2, PTL DEF PnSpec

(***************************************************************************)
(* What it gives.                                                          *)
(***************************************************************************)
\* No packet number of our group key is drawn twice, through any installs, refusals,
\* redeliveries and restarts.
THEOREM NumbersFresh == ASSUME Loose <= Epoch PROVE PnSpec => []PnFresh
<1>1. PnInv => PnFresh
  BY DEF PnInv
<1> QED  BY <1>1, PnInvariant, PTL

\* The RSC a peer was told never makes it refuse a frame we have yet to send.
THEOREM RscNeverAhead == ASSUME Loose <= Epoch PROVE PnSpec => []RscReaches
<1>1. PnInv => RscReaches
  BY DEF PnInv
<1> QED  BY <1>1, PnInvariant, PTL

\* And it makes that peer refuse every frame drawn before it was told.
THEOREM RscAboveThePast == ASSUME Loose <= Epoch PROVE PnSpec => RscCovers
<1>1. PnInv /\ [PnNext]_pnvars =>
        [TellBased /\ place = "in" /\ (alloc' = alloc \/ next' # next) => base' > top[own]]_pnvars
  <2> SUFFICES ASSUME PnInv, TellBased, place = "in", alloc' = alloc \/ next' # next
               PROVE  base' > top[own]
    OBVIOUS
  <2> USE PnAssumption
  <2> DEFINE e == InstallEpoch(alloc, GroupTop, place)
  <2>1. own \in MgtkKeys /\ chipKey = own /\ base # 0 /\ own # None /\ base <= next
    BY DEF PnInv, PnTypeOK, PlaceOK
  <2>2. /\ top[own] \in Nat /\ top[own] < next /\ (top[own] = 0 \/ top[own] < Reach)
        /\ base \in Nat /\ sent \in Nat /\ next \in Nat /\ base + sent \in Nat
    BY <2>1 DEF PnInv, PnTypeOK, Behind, PnFresh
  <2>3. First(e) \in Nat /\ First(e) > GroupTop /\ First(e) >= First(alloc) + Epoch /\ e \in Nat
        /\ First(alloc) \in Nat /\ e # alloc
    <3>1. First(e) \in Nat /\ First(e) > GroupTop /\ First(e) >= First(alloc) + Epoch /\ e \in Nat
          /\ First(alloc) \in Nat
      BY InstallAbove, GroupTopNat, FirstNat DEF PnInv, PnTypeOK
    <3> QED  BY <3>1
  <2>4. CASE sent # 0
    <3>1. Takes(own, e)
      <4>1. PnPut
        BY <2>4 DEF TellBased
      <4> QED  BY <2>3, <4>1 DEF PnPut, Refuses
    <3>2. base' = First(e)
      BY <3>1 DEF Takes
    <3>3. Reach <= First(e) /\ Reach \in Nat
      BY <2>1, <2>2, <2>3 DEF Reach, Larger, GroupTop
    <3> QED  BY <2>2, <2>3, <3>2, <3>3
  <2>5. CASE sent = 0
    <3>1. base' = base /\ next' = next
      BY <2>5 DEF TellBased
    <3>2. next <= base
      BY <2>1, <2>2, <2>5 DEF PnInv, PnTypeOK, Bounded
    <3> QED  BY <2>2, <3>1, <3>2
  <2> QED  BY <2>4, <2>5
<1> QED  BY <1>1, PnInvariant, PTL DEF PnSpec, RscCovers

-----------------------------------------------------------------------------
(***************************************************************************)
(* batman broadcasts.  A listener's window holds places below its newest   *)
(* number; the proof follows them by the originator's count instead.       *)
(* Trail is how far the newest number taken lies behind the last one given *)
(* out, so a broadcast k back from the last is at place k - Trail, and the *)
(* places hold what they should because nothing about lies as far from     *)
(* another as half the numbers.  Draws forget: what the window held then   *)
(* is stale, and only the fresh places speak of the numbers in use.        *)
(* The slots are followed by their turn, how many broadcasts ago each got  *)
(* its slot: the untried ones have turns 1, 2, ... without a gap, so there *)
(* are no more of them than slots, and the arrival counter, though it      *)
(* wraps, tells the older of two.                                          *)
(***************************************************************************)
\* The same number, but for a turn of the modulus.
Same(x, y) == x = y \/ x = y + NumMod \/ x = y - NumMod

\* The most numbers a listener can lie behind.
Bound   == count - 1 + Margin * boots[1]
Fresh   == window.bits \ stale
Trail   == Signed(seq - window.last, NumMod)
Current == onair \cup {[id |-> copy[s].id, num |-> copy[s].num] : s \in Waiting}
Untried == {s \in Waiting : copy[s].left = Copies}
Turn(s) == (ord - copy[s].ord) % OrdMod
Windows == [last : Numbers, bits : SUBSET (0 .. SeqWindow - 1), valid : BOOLEAN, age : 0 .. StampClear]

\* The originator's state.
SenderOK ==
  /\ seq \in Numbers /\ keep \in Numbers /\ Same(keep, seq + 1)
  /\ copy \in [Slot -> [left : 0 .. Copies, ord : 0 .. OrdMod - 1, id : Nat, num : Int]]
  /\ ord \in 0 .. OrdMod - 1
  /\ count \in 0 .. MaxBcasts /\ boots \in [{1, 2} -> Nat] /\ boots[1] <= MaxBoots
  /\ tried \subseteq taken /\ taken \subseteq 1 .. count
\* The listener's: a stamp that still shuts out is as old as its last reset.
ListenerOK ==
  /\ window \in Windows
  /\ stale \subseteq window.bits /\ got \subseteq tried
  /\ since \in 0 .. RestartGap
  /\ follows \in {"none", "some", "newest"}
  /\ window.valid /\ window.age < RestartGap => since = window.age
\* What is about was handed out, and has the number its broadcast got.
Numbered ==
  /\ \A f \in onair : f.id \in tried
  /\ \A c \in Current : /\ c.id \in 1 .. count /\ c.num \in Numbers
                        /\ Same(c.num, seq - (count - c.id))
\* The broadcasts of which no copy went wait in slots, newer than those tried, in turn.
InTurn ==
  /\ \A s \in Waiting : copy[s].id \in tried <=> s \notin Untried
  /\ taken \ tried = {copy[s].id : s \in Untried}
  /\ \A i \in tried, s \in Untried : i < copy[s].id
  /\ \A s, t \in Untried : s # t => Turn(s) # Turn(t)
  /\ \A s, t \in Untried : copy[s].id < copy[t].id <=> Turn(s) > Turn(t)
  /\ \A s \in Untried : \A k \in 1 .. Turn(s) : \E t \in Untried : Turn(t) = k
  /\ \A s \in Untried : Turn(s) >= 1
\* The fresh places are those of broadcasts taken, and what was taken has a place or is past.
Follow ==
  /\ follows = "none" => Fresh = {} /\ \A c \in Current : c.id \notin got
  /\ follows # "none" => Fresh # {}
  /\ follows = "newest" => 0 \in Fresh
  /\ \A b \in Fresh : Trail + b \in 0 .. Bound
  /\ follows # "none" => \A c \in Current :
        /\ NewestLess(window, c.num) \in Fresh => c.id \in got
        /\ c.id \in got => NewestLess(window, c.num) \in window.bits \/ NewestLess(window, c.num) >= SeqWindow
BcastIInv == SenderOK /\ ListenerOK /\ Numbered /\ InTurn /\ (~strayed => Follow)

-----------------------------------------------------------------------------
\* What the assumption says of the constants.
LEMMA Sizes ==
  /\ NumMod \in Nat /\ NumMod > 0 /\ SeqWindow \in Nat /\ SeqWindow > 0 /\ MaxJump \in Nat /\ Margin \in Nat
  /\ SeqWindow < MaxJump /\ 2 * MaxJump <= NumMod /\ 2 * (MaxBcasts + SeqWindow) <= NumMod
  /\ RestartGap \in Nat /\ StampClear \in Nat /\ AgeWrap \in Nat
  /\ RestartGap < StampClear /\ StampClear + 1 < AgeWrap
  /\ Copies \in Nat /\ Copies >= 2 /\ Slots \in Nat /\ Slots > 0 /\ OrdMod \in Nat
  /\ Slots < OrdMod /\ 2 * (Slots - 1) < OrdMod
  /\ MaxBcasts \in Nat /\ MaxBoots \in Nat /\ Draws \subseteq Numbers
BY BcastAssumption DEF BcastAssumption, Numbers

\* Modulo: of a number that is not far.
LEMMA Near ==
  ASSUME NEW m \in Nat, m > 0, NEW x \in Int, -m <= x, x < m + m
  PROVE  x % m = IF x < 0 THEN x + m ELSE IF x < m THEN x ELSE x - m
<1>2. CASE x < 0
  BY <1>2
<1>3. CASE 0 <= x /\ x < m
  BY <1>3
<1>4. CASE m <= x
  <2>1. \A y \in 0 .. m - 1 : (y + m) % m = y
    OBVIOUS
  <2>2. x - m \in 0 .. m - 1 /\ (x - m) + m = x
    BY <1>4
  <2>3. ((x - m) + m) % m = x - m
    BY <2>1, <2>2
  <2>4. x % m = x - m
    BY <2>2, <2>3
  <2> QED  BY <1>4, <2>4
<1> QED  BY <1>2, <1>3, <1>4

\* The signed difference differs from the difference by a turn of the modulus at most.
LEMMA SignedIs ==
  ASSUME NEW m \in Nat, m > 0, NEW d \in Int, -m < d, d < m
  PROVE  /\ Signed(d, m) \in Int /\ -m <= 2 * Signed(d, m) /\ 2 * Signed(d, m) < m
         /\ Signed(d, m) = d \/ Signed(d, m) = d + m \/ Signed(d, m) = d - m
<1> DEFINE r == d % m
<1>1. r = IF d < 0 THEN d + m ELSE d
  BY Near
<1>2. Signed(d, m) = IF 2 * r >= m THEN r - m ELSE r
  BY DEF Signed
<1> HIDE DEF r
<1> QED  BY <1>1, <1>2

\* The next number.
LEMMA Step == ASSUME NEW n \in Numbers  PROVE (n + 1) % NumMod \in Numbers /\ Same((n + 1) % NumMod, n + 1)
<1> DEFINE x == n + 1
<1>1. x \in Int /\ 0 <= x /\ x <= NumMod /\ n + 1 = x
  BY Sizes DEF Numbers
<1> HIDE DEF x
<1>2. x % NumMod = IF x < 0 THEN x + NumMod ELSE IF x < NumMod THEN x ELSE x - NumMod
  BY <1>1, Near, Sizes
<1>3. x % NumMod \in Numbers /\ Same(x % NumMod, x)
  BY <1>1, <1>2, Sizes DEF Numbers, Same
<1> QED  BY <1>3 DEF x

\* Where a number lies from another.
LEMMA Places ==
  ASSUME NEW n \in Numbers, NEW o \in Numbers
  PROVE  /\ Signed(n - o, NumMod) \in Int
         /\ -NumMod <= 2 * Signed(n - o, NumMod) /\ 2 * Signed(n - o, NumMod) < NumMod
         /\ Same(Signed(n - o, NumMod), n - o)
<1>1. n - o \in Int /\ -NumMod < n - o /\ n - o < NumMod
  BY Sizes DEF Numbers
<1> QED  BY <1>1, SignedIs, Sizes DEF Same

\* Numbers that are congruent and less than half the modulus apart are the same.
LEMMA Follows3 ==
  ASSUME NEW n \in Numbers, NEW l \in Numbers, NEW s \in Numbers, NEW e \in Int, NEW k \in Int,
         Same(e, s - l), Same(n, s - k), -NumMod < 2 * (k - e), 2 * (k - e) < NumMod
  PROVE  Signed(l - n, NumMod) = k - e /\ Signed(n - l, NumMod) = e - k
<1> DEFINE x == Signed(l - n, NumMod)
           y == Signed(n - l, NumMod)
<1>1. /\ x \in Int /\ -NumMod <= 2 * x /\ 2 * x < NumMod /\ Same(x, l - n)
      /\ y \in Int /\ -NumMod <= 2 * y /\ 2 * y < NumMod /\ Same(y, n - l)
  BY Places
<1>2. n \in Int /\ l \in Int /\ s \in Int /\ NumMod \in Int /\ NumMod > 0
  BY Sizes DEF Numbers
<1> HIDE DEF x, y
<1>3. x = k - e
  BY <1>1, <1>2 DEF Same
<1>4. y = e - k
  BY <1>1, <1>2 DEF Same
<1> QED  BY <1>3, <1>4 DEF x, y

\* The same of the number itself, not of one behind it.
LEMMA FollowsNow ==
  ASSUME NEW n \in Numbers, NEW l \in Numbers, NEW e \in Int,
         Same(e, n - l), -NumMod < 2 * (0 - e), 2 * (0 - e) < NumMod
  PROVE  Signed(l - n, NumMod) = 0 - e /\ Signed(n - l, NumMod) = e
<1> DEFINE x == Signed(l - n, NumMod)
           y == Signed(n - l, NumMod)
<1>1. /\ x \in Int /\ -NumMod <= 2 * x /\ 2 * x < NumMod /\ Same(x, l - n)
      /\ y \in Int /\ -NumMod <= 2 * y /\ 2 * y < NumMod /\ Same(y, n - l)
  BY Places
<1>2. n \in Int /\ l \in Int /\ NumMod \in Int /\ NumMod > 0
  BY Sizes DEF Numbers
<1> HIDE DEF x, y
<1>3. x = 0 - e /\ y = e
  BY <1>1, <1>2 DEF Same
<1> QED  BY <1>3 DEF x, y

\* All that a listener can miss is no jump.
LEMMA BoundSmall ==
  ASSUME SenderOK  PROVE Bound \in Int /\ Bound < MaxJump /\ count - 1 <= Bound
<1> DEFINE b == boots[1]
<1>1. b \in Nat /\ b <= MaxBoots /\ count \in 0 .. MaxBcasts
  BY DEF SenderOK
<1>2. Margin * b \in Nat /\ Margin * b <= Margin * MaxBoots /\ Margin * MaxBoots \in Nat
  <2>1. PICK z \in Nat : MaxBoots = b + z
    <3>1. MaxBoots - b \in Nat /\ MaxBoots = b + (MaxBoots - b)
      BY <1>1, Sizes
    <3> QED  BY <3>1
  <2>2. Margin * (b + z) = Margin * b + Margin * z /\ Margin * z \in Nat /\ Margin * b \in Nat
    BY <1>1, <2>1, Sizes
  <2> QED  BY <2>1, <2>2
<1>3. MaxBcasts - 1 + Margin * MaxBoots < MaxJump
  BY BcastAssumption DEF BcastAssumption
<1>4. Bound = count - 1 + Margin * b
  BY DEF Bound
<1> QED  BY <1>1, <1>2, <1>3, <1>4, Sizes

\* Where the frames about lie from the newest taken.
LEMMA Positions ==
  ASSUME BcastIInv, ~strayed, follows # "none"
  PROVE  /\ Trail \in Int /\ -SeqWindow < Trail /\ Trail <= Bound
         /\ \A c \in Current : /\ NewestLess(window, c.num) = (count - c.id) - Trail
                               /\ Ahead(window, c.num) = Trail - (count - c.id)
<1>1. Follow /\ SenderOK /\ ListenerOK /\ Numbered
  BY DEF BcastIInv
<1>2. PICK b \in Fresh : b \in 0 .. SeqWindow - 1 /\ Trail + b \in 0 .. Bound
  BY <1>1 DEF Follow, Fresh, ListenerOK, Windows
<1>3. seq \in Numbers /\ window.last \in Numbers
  BY <1>1 DEF SenderOK, ListenerOK, Windows
<1>4. Trail \in Int /\ Same(Trail, seq - window.last)
  BY <1>3, Places DEF Trail
<1>5. Bound \in Int /\ Bound < MaxJump /\ count \in Int /\ count <= MaxBcasts
  BY <1>1, BoundSmall DEF SenderOK
<1>6. -SeqWindow < Trail /\ Trail <= Bound
  BY <1>2, <1>4, <1>5, Sizes
<1>7. ASSUME NEW c \in Current
      PROVE  /\ NewestLess(window, c.num) = (count - c.id) - Trail
             /\ Ahead(window, c.num) = Trail - (count - c.id)
  <2>1. c.id \in 1 .. count /\ c.num \in Numbers /\ Same(c.num, seq - (count - c.id))
    BY <1>1, <1>7 DEF Numbered
  <2> DEFINE k == count - c.id
  <2>2. k \in Int /\ 0 <= k /\ k <= count - 1
    BY <1>5, <2>1
  <2>3. -NumMod < 2 * (k - Trail) /\ 2 * (k - Trail) < NumMod
    BY <1>4, <1>5, <1>6, <2>2, Sizes
  <2> HIDE DEF k
  <2>4. Same(c.num, seq - k)
    BY <2>1 DEF k
  <2>5. Signed(window.last - c.num, NumMod) = k - Trail /\ Signed(c.num - window.last, NumMod) = Trail - k
    BY <1>3, <1>4, <2>1, <2>2, <2>3, <2>4, Follows3
  <2> QED  BY <2>5 DEF k, NewestLess, Ahead
<1> QED  BY <1>4, <1>6, <1>7

\* The inductive invariant holds everything the run checks.
LEMMA BcastFollows == BcastIInv => BcastInv
<1> SUFFICES ASSUME BcastIInv  PROVE BcastInv
  OBVIOUS
<1>1. SenderOK /\ ListenerOK /\ Numbered /\ InTurn /\ (~strayed => Follow)
  BY DEF BcastIInv
<1>2. BcastTypeOK
  BY <1>1 DEF SenderOK, ListenerOK, Windows, BcastTypeOK
<1>3. NoneUnsent
  BY <1>1 DEF InTurn, Untried, NoneUnsent
<1>4. FirstInOrder
  <2> SUFFICES ASSUME NEW i \in taken, NEW j \in taken, i < j, j \in tried, i \notin tried  PROVE FALSE
    BY DEF FirstInOrder
  <2>1. PICK s \in Untried : i = copy[s].id
    BY <1>1 DEF InTurn
  <2>2. j < i
    BY <1>1, <2>1 DEF InTurn
  <2>3. i \in Nat /\ j \in Nat
    BY <1>1 DEF SenderOK
  <2> QED  BY <2>2, <2>3
<1>5. OnceOnly
  <2> SUFFICES ASSUME ~strayed, NEW f \in onair, f.id \in got, ~Stray(f)  PROVE ~Accepts(window, f.num)
    BY DEF OnceOnly
  <2>1. f \in Current
    BY DEF Current
  <2>2. follows # "none"
    BY <1>1, <2>1 DEF Follow
  <2>3. NewestLess(window, f.num) \in window.bits
    BY <1>1, <2>1, <2>2 DEF Follow, Stray
  <2> QED  BY <2>3 DEF Accepts, Dup
<1>6. HeardAtOnce
  <2> SUFFICES ASSUME ~strayed, follows = "newest", stale = {}, NEW f \in onair, f.id \notin got, ~Stray(f)
               PROVE  Accepts(window, f.num)
    BY DEF HeardAtOnce
  <2>1. f \in Current
    BY DEF Current
  <2>2. /\ Trail \in Int /\ Trail <= Bound
        /\ NewestLess(window, f.num) = (count - f.id) - Trail
        /\ Ahead(window, f.num) = Trail - (count - f.id)
    BY <2>1, Positions
  <2>3. f.id \in 1 .. count /\ count \in Nat
    BY <1>1, <2>1 DEF Numbered, SenderOK
  <2>4. ~(NewestLess(window, f.num) >= SeqWindow)
    BY DEF Stray
  <2>5. ~Far(window, f.num)
    BY <1>1, <2>2, <2>3, <2>4, BoundSmall, Sizes DEF Far
  <2>6. ~Dup(window, f.num)
    BY <1>1, <2>1 DEF Follow, Fresh, Dup
  <2> QED  BY <2>5, <2>6 DEF Accepts, Blocked
<1>7. ShutOutBriefly
  BY <1>1 DEF ListenerOK, Windows, Blocked, ShutOutBriefly
<1> QED  BY <1>2, <1>3, <1>4, <1>5, <1>6, <1>7 DEF BcastInv

LEMMA BcastStart == BcastInit => BcastIInv
<1> SUFFICES ASSUME BcastInit  PROVE BcastIInv
  OBVIOUS
<1>1. seq \in Numbers /\ keep \in Numbers /\ Same(keep, seq + 1)
  BY Step, Sizes DEF BcastInit
<1>2. Waiting = {} /\ Current = {} /\ Untried = {} /\ Fresh = {}
  BY DEF BcastInit, Waiting, Current, Untried, Empty, Fresh, NewWindow
<1>3. SenderOK
  BY <1>1, Sizes DEF BcastInit, SenderOK, Empty
<1>4. ListenerOK
  <2>1. NewWindow \in Windows /\ NewWindow.bits = {} /\ ~NewWindow.valid
    BY Sizes DEF NewWindow, Windows, Numbers
  <2> QED  BY <2>1, Sizes DEF BcastInit, ListenerOK
<1>5. Numbered /\ InTurn /\ Follow
  BY <1>2 DEF BcastInit, Numbered, InTurn, Follow
<1> QED  BY <1>3, <1>4, <1>5 DEF BcastIInv

-----------------------------------------------------------------------------
\* Nothing new is about and the numbers stand: what the listener knows stays true.
LEMMA StillFollows ==
  ASSUME BcastIInv, UNCHANGED <<window.last, window.bits, got, stale, follows>>, ~strayed' => ~strayed,
         UNCHANGED <<seq, count, boots>>, \A c \in Current' : c \in Current
  PROVE  (~strayed => Follow)'
<1>1. ~strayed => Follow
  BY DEF BcastIInv
<1>3. Trail' = Trail /\ Fresh' = Fresh /\ Bound' = Bound
  BY DEF Trail, Fresh, Bound
<1> HIDE DEF Trail, Fresh, Bound, Current
<1>4. \A c : NewestLess(window, c.num)' = NewestLess(window, c.num)
  BY DEF NewestLess
<1> QED  BY <1>1, <1>3, <1>4 DEF Follow, NewestLess

\* The numbers go on by m, and the frames about are the old ones, or one of the new number.
LEMMA GoesOn ==
  ASSUME BcastIInv, UNCHANGED listener, SenderOK', NEW m \in Nat, Bound' = Bound + m,
         Same(seq', seq + m),
         \A c \in Current' : c \in Current \/ (m = 1 /\ c.id = count' /\ c.num = seq' /\ c.id \notin got)
  PROVE  (~strayed => Follow)'
<1>1. ~strayed => Follow
  BY DEF BcastIInv
<1>2. UNCHANGED <<window, got, stale, follows, strayed>> /\ Fresh' = Fresh
  BY DEF listener, Fresh
<1>3. SUFFICES ASSUME ~strayed  PROVE Follow'
  BY <1>2
<1>4. CASE follows = "none"
  BY <1>1, <1>2, <1>3, <1>4 DEF Follow
<1>5. CASE follows # "none"
  <2>1. /\ Trail \in Int /\ -SeqWindow < Trail /\ Trail <= Bound
    BY <1>3, <1>5, Positions
  <2>2. Bound' \in Int /\ Bound' < MaxJump
    <3>1. ASSUME SenderOK  PROVE Bound \in Int /\ Bound < MaxJump
      BY <3>1, BoundSmall
    <3>2. (SenderOK => Bound \in Int /\ Bound < MaxJump)'
      BY BoundSmall, PTL
    <3> QED  BY <3>2
  <2>3. seq \in Numbers /\ seq' \in Numbers /\ window.last \in Numbers /\ Bound \in Int
    BY BoundSmall DEF BcastIInv, SenderOK, ListenerOK, Windows
  <2>4. Same(Trail, seq - window.last)
    BY <2>3, Places DEF Trail
  <2>5. Trail' = Trail + m /\ Signed(window.last - seq', NumMod) = -(Trail + m)
    <3> DEFINE e == Trail + m
    <3>1. e \in Int /\ e <= Bound' /\ -SeqWindow < e /\ -NumMod < 2 * (0 - e) /\ 2 * (0 - e) < NumMod
      BY <2>1, <2>2, <2>3, Sizes
    <3>2. /\ seq' \in Int /\ seq \in Int /\ window.last \in Int
          /\ -NumMod < seq' - window.last /\ seq' - window.last < NumMod
      BY <2>3, Sizes DEF Numbers
    <3>3. e = Trail + m
      OBVIOUS
    <3> HIDE DEF e, Trail
    <3>4. Same(e, seq' - window.last)
      BY <2>1, <2>4, <3>1, <3>2, <3>3, Sizes DEF Same
    <3>6. Signed(window.last - seq', NumMod) = 0 - e /\ Signed(seq' - window.last, NumMod) = e
      BY <2>3, <3>1, <3>4, FollowsNow
    <3>7. Trail' = Signed(seq' - window.last, NumMod)
      BY <1>2 DEF Trail
    <3>8. e = Trail + m /\ 0 - e = -(Trail + m)
      BY <2>1, <3>1, <3>3
    <3> QED  BY <3>6, <3>7, <3>8
  <2>6. \A b \in Fresh : b \in Nat /\ Trail + b \in 0 .. Bound
    BY <1>1, <1>3 DEF Follow, Fresh, BcastIInv, ListenerOK, Windows
  <2>7. \A b \in Fresh : Trail' + b \in 0 .. Bound'
    BY <2>1, <2>2, <2>3, <2>5, <2>6
  <2>8. ASSUME NEW c \in Current'
        PROVE  /\ NewestLess(window, c.num) \in Fresh => c.id \in got
               /\ c.id \in got => NewestLess(window, c.num) \in window.bits \/ NewestLess(window, c.num) >= SeqWindow
    <3>1. CASE c \in Current
      BY <1>1, <1>3, <1>5, <3>1 DEF Follow
    <3>2. CASE m = 1 /\ c.id = count' /\ c.num = seq' /\ c.id \notin got
      <4>1. NewestLess(window, c.num) = -(Trail + 1)
        BY <2>5, <3>2 DEF NewestLess
      <4>2. ASSUME NEW b \in Fresh, b = -(Trail + 1)  PROVE FALSE
        BY <2>1, <2>3, <2>6, <4>2
      <4> QED  BY <3>2, <4>1, <4>2
    <3> QED  BY <3>1, <3>2
  <2>9. /\ Fresh # {} /\ (follows = "newest" => 0 \in Fresh)
    BY <1>1, <1>3, <1>5 DEF Follow
  <2> HIDE DEF Fresh, Current, Trail, Bound
  <2> QED  BY <1>2, <1>5, <2>7, <2>8, <2>9 DEF Follow, NewestLess
<1> QED  BY <1>4, <1>5

-----------------------------------------------------------------------------
(* The slots. *)
LEMMA SlotsFinite == IsFiniteSet(Slot) /\ Cardinality(Slot) = Slots
BY FS_Interval, Sizes DEF Slot

\* No broadcast waits longer than there are slots for those before it.
LEMMA TurnsBounded ==
  ASSUME SenderOK, InTurn, NEW S \in SUBSET Slot, Untried \subseteq S, NEW s \in Untried
  PROVE  Turn(s) \in Nat /\ Turn(s) <= Cardinality(S) /\ Turn(s) < OrdMod
<1>1. /\ IsFiniteSet(S) /\ IsFiniteSet(Untried) /\ Cardinality(Untried) <= Cardinality(S)
      /\ Cardinality(S) \in Nat /\ Cardinality(Untried) \in Nat
  <2>1. IsFiniteSet(S) /\ Cardinality(S) \in Nat
    BY SlotsFinite, FS_Subset, FS_CardinalityType
  <2> QED  BY <2>1, FS_Subset, FS_CardinalityType
<1>2. Turn(s) \in 0 .. OrdMod - 1
  <2>1. ord \in Int /\ copy[s].ord \in Int
    BY DEF SenderOK, Untried, Waiting
  <2> QED  BY <2>1, Sizes DEF Turn
<1>3. ASSUME Turn(s) > Cardinality(Untried)  PROVE FALSE
  <2> DEFINE K == 1 .. Turn(s)
             f == [k \in K |-> CHOOSE t \in Untried : Turn(t) = k]
  <2>1. \A k \in K : \E t \in Untried : Turn(t) = k
    BY DEF InTurn
  <2> HIDE DEF K
  <2>2. ASSUME NEW k \in K  PROVE f[k] \in Untried /\ Turn(f[k]) = k
    <3>1. f[k] = CHOOSE t \in Untried : Turn(t) = k
      BY <2>2
    <3> HIDE DEF f
    <3> QED  BY <2>1, <2>2, <3>1, Zenon
  <2>3. IsFiniteSet(K) /\ Cardinality(K) = Turn(s)
    BY <1>2, FS_Interval DEF K
  <2>4. f \in [K -> Untried]
    BY <2>2
  <2> HIDE DEF f
  <2>5. \E x, y \in K : x # y /\ f[x] = f[y]
    BY <1>1, <1>2, <1>3, <2>3, <2>4, FS_PigeonHole
  <2> QED  BY <2>2, <2>5
<1> QED  BY <1>1, <1>2, <1>3, Sizes

\* The arrival counter's arithmetic.
LEMMA OrdSteps ==
  ASSUME NEW o \in 0 .. OrdMod - 1, NEW d, d = (o + 1) % OrdMod
  PROVE  /\ d \in 0 .. OrdMod - 1 /\ (d - o) % OrdMod = 1
         /\ \A c \in 0 .. OrdMod - 1 :
              ((o - c) % OrdMod) + 1 < OrdMod => (d - c) % OrdMod = ((o - c) % OrdMod) + 1
<1>1. OrdMod \in Nat /\ OrdMod > 1 /\ o \in Int /\ 0 <= o /\ o < OrdMod
  BY Sizes
<1> DEFINE x == o + 1
<1>2. x \in Int /\ -OrdMod <= x /\ x < OrdMod + OrdMod /\ x = o + 1
  BY <1>1
<1>3. d = x % OrdMod
  OBVIOUS
<1> HIDE DEF x
<1>4. d = IF x < OrdMod THEN x ELSE x - OrdMod
  BY <1>1, <1>2, <1>3, Near
<1>5. d \in Int /\ 0 <= d /\ d < OrdMod
  BY <1>1, <1>2, <1>4
<1>6. (d - o) % OrdMod = 1
  <2> DEFINE y == d - o
  <2>1. y \in Int /\ -OrdMod <= y /\ y < OrdMod + OrdMod /\ y = d - o
    BY <1>1, <1>5
  <2> HIDE DEF y
  <2>2. y % OrdMod = IF y < 0 THEN y + OrdMod ELSE IF y < OrdMod THEN y ELSE y - OrdMod
    BY <1>1, <2>1, Near
  <2>3. y % OrdMod = 1
    BY <1>1, <1>2, <1>4, <2>1, <2>2
  <2> QED  BY <2>3 DEF y
<1>7. ASSUME NEW c \in 0 .. OrdMod - 1, ((o - c) % OrdMod) + 1 < OrdMod
      PROVE  (d - c) % OrdMod = ((o - c) % OrdMod) + 1
  <2> DEFINE y == d - c
             z == o - c
  <2>1. /\ y \in Int /\ -OrdMod <= y /\ y < OrdMod + OrdMod /\ y = d - c
        /\ z \in Int /\ -OrdMod <= z /\ z < OrdMod + OrdMod /\ z = o - c /\ c \in Int
    BY <1>1, <1>5
  <2>2. (z % OrdMod) + 1 < OrdMod
    BY <1>7
  <2> HIDE DEF y, z
  <2>3. y % OrdMod = IF y < 0 THEN y + OrdMod ELSE IF y < OrdMod THEN y ELSE y - OrdMod
    BY <1>1, <2>1, Near
  <2>4. z % OrdMod = IF z < 0 THEN z + OrdMod ELSE IF z < OrdMod THEN z ELSE z - OrdMod
    BY <1>1, <2>1, Near
  <2>5. y % OrdMod = (z % OrdMod) + 1
    BY <1>1, <1>2, <1>4, <2>1, <2>2, <2>3, <2>4
  <2> QED  BY <2>5 DEF y, z
<1>8. d \in 0 .. OrdMod - 1
  BY <1>1, <1>5
<1> QED  BY <1>6, <1>7, <1>8

\* Of two untried broadcasts the counter tells the older, though it wraps.
LEMMA OlderIsOlder ==
  ASSUME SenderOK, InTurn, NEW s \in Untried, NEW t \in Untried
  PROVE  Older(s, t) <=> Turn(s) > Turn(t)
<1>1. s \in Slot /\ t \in Slot /\ Untried \in SUBSET Slot
  BY DEF Untried, Waiting
<1>2. /\ Turn(s) \in Nat /\ Turn(s) <= Slots /\ Turn(s) >= 1
      /\ Turn(t) \in Nat /\ Turn(t) <= Slots /\ Turn(t) >= 1
  BY <1>1, SlotsFinite, TurnsBounded DEF InTurn
<1> DEFINE a == copy[s].ord
           b == copy[t].ord
           x == ord - a
           y == ord - b
           z == a - b
<1>3. ord \in 0 .. OrdMod - 1 /\ a \in 0 .. OrdMod - 1 /\ b \in 0 .. OrdMod - 1
  BY <1>1 DEF SenderOK
<1>4. /\ x \in Int /\ -OrdMod <= x /\ x < OrdMod + OrdMod
      /\ y \in Int /\ -OrdMod <= y /\ y < OrdMod + OrdMod
      /\ z \in Int /\ -OrdMod < z /\ z < OrdMod /\ z = y - x
  BY <1>3, Sizes
<1>5. Turn(s) = x % OrdMod /\ Turn(t) = y % OrdMod /\ (Older(s, t) <=> Signed(z, OrdMod) < 0)
  BY DEF Turn, Older
<1> HIDE DEF x, y, z
<1>6. Turn(s) = IF x < 0 THEN x + OrdMod ELSE IF x < OrdMod THEN x ELSE x - OrdMod
  BY <1>4, <1>5, Near, Sizes
<1>7. Turn(t) = IF y < 0 THEN y + OrdMod ELSE IF y < OrdMod THEN y ELSE y - OrdMod
  BY <1>4, <1>5, Near, Sizes
<1> DEFINE w == Signed(z, OrdMod)
<1>8. /\ w \in Int /\ -OrdMod <= 2 * w /\ 2 * w < OrdMod
      /\ w = z \/ w = z + OrdMod \/ w = z - OrdMod
  BY <1>4, SignedIs, Sizes
<1> HIDE DEF w
<1> DEFINE p == Turn(s)
           q == Turn(t)
<1>9. /\ p \in Int /\ q \in Int /\ 1 <= p /\ p <= Slots /\ 1 <= q /\ q <= Slots
      /\ p = x \/ p = x + OrdMod \/ p = x - OrdMod
      /\ q = y \/ q = y + OrdMod \/ q = y - OrdMod
  BY <1>2, <1>6, <1>7, Sizes
<1> HIDE DEF p, q
<1>10. w = q - p
  BY <1>4, <1>8, <1>9, Sizes
<1>11. w < 0 <=> p > q
  BY <1>9, <1>10
<1> QED  BY <1>5, <1>11 DEF w, p, q

\* Steps of the listener and the air leave the originator's part alone.
LEMMA SenderStays ==
  ASSUME SenderOK, Numbered, InTurn, UNCHANGED sender, onair' \subseteq onair
  PROVE  SenderOK' /\ Numbered' /\ InTurn' /\ \A c \in Current' : c \in Current
<1>1. UNCHANGED <<seq, keep, copy, ord, count, taken, tried, boots>>
  BY DEF sender
<1>2. Waiting' = Waiting /\ Untried' = Untried /\ \A s : Turn(s)' = Turn(s)
  BY <1>1 DEF Waiting, Untried, Turn
<1>3. \A c \in Current' : c \in Current
  BY <1>1, <1>2 DEF Current
<1>4. SenderOK'
  BY <1>1 DEF SenderOK
<1>5. Numbered'
  BY <1>1, <1>3 DEF Numbered
<1>6. InTurn'
  BY <1>1, <1>2 DEF InTurn
<1> QED  BY <1>3, <1>4, <1>5, <1>6

LEMMA SpacingKeeps == BcastIInv /\ Spacing => BcastIInv'
<1> SUFFICES ASSUME BcastIInv, Spacing  PROVE BcastIInv'
  OBVIOUS
<1>1. UNCHANGED <<seq, keep, copy, ord, count, taken, tried, boots, onair, listener>>
  BY DEF Spacing
<1>2. UNCHANGED <<window, got, stale, follows, strayed, since>>
  BY <1>1 DEF listener
<1>3. Waiting' = Waiting /\ Untried' = Untried /\ \A s : Turn(s)' = Turn(s)
  BY <1>1 DEF Waiting, Untried, Turn
<1>4. \A c \in Current' : c \in Current
  BY <1>1, <1>3 DEF Current
<1>5. SenderOK' /\ Numbered' /\ InTurn' /\ ListenerOK'
  BY <1>1, <1>2, <1>3, <1>4 DEF BcastIInv, SenderOK, Numbered, InTurn, ListenerOK, Windows
<1>6. (~strayed => Follow)'
  BY <1>1, <1>2, <1>4, StillFollows
<1> QED  BY <1>5, <1>6 DEF BcastIInv

LEMMA LoseKeeps == ASSUME BcastIInv, NEW f \in onair, LoseFrame(f)  PROVE BcastIInv'
<1>1. UNCHANGED <<window, got, stale, follows, strayed, since>> /\ UNCHANGED sender /\ onair' \subseteq onair
  BY DEF LoseFrame, listener
<1>2. SenderOK' /\ Numbered' /\ InTurn' /\ \A c \in Current' : c \in Current
  BY <1>1, SenderStays DEF BcastIInv
<1>3. ListenerOK'
  BY <1>1 DEF BcastIInv, ListenerOK, Windows, sender
<1>4. (~strayed => Follow)'
  BY <1>1, <1>2, StillFollows DEF sender
<1> QED  BY <1>2, <1>3, <1>4 DEF BcastIInv

LEMMA TickKeeps == BcastIInv /\ BcastTick => BcastIInv'
<1> SUFFICES ASSUME BcastIInv, BcastTick  PROVE BcastIInv'
  OBVIOUS
<1>1. UNCHANGED <<got, stale, follows, strayed>> /\ UNCHANGED sender /\ onair' = onair
  BY DEF BcastTick
<1>2. SenderOK' /\ Numbered' /\ InTurn' /\ \A c \in Current' : c \in Current
  BY <1>1, SenderStays DEF BcastIInv
<1>3. ListenerOK
  BY DEF BcastIInv
<1>4. (window.age + 1) % AgeWrap = window.age + 1 /\ window.age \in Nat
  BY <1>3, Sizes DEF ListenerOK, Windows
<1> DEFINE age == window.age + 1
<1>5. window' = IF window.valid /\ age <= StampClear THEN [window EXCEPT !.age = age]
                ELSE [window EXCEPT !.valid = FALSE, !.age = 0]
  BY <1>4 DEF BcastTick, Purged
<1>6. /\ window'.last = window.last /\ window'.bits = window.bits
      /\ window' \in Windows
      /\ window'.valid => window.valid /\ window'.age = window.age + 1
  <2>1. window \in Windows
    BY <1>3 DEF ListenerOK, Windows
  <2>2. CASE window.valid /\ age <= StampClear
    <3>1. window' = [window EXCEPT !.age = age] /\ age \in 0 .. StampClear
      BY <1>4, <1>5, <2>2, Sizes
    <3> HIDE DEF age
    <3>2. /\ window'.last = window.last /\ window'.bits = window.bits /\ window'.valid = window.valid
          /\ window'.age = age
      BY <2>1, <3>1 DEF Windows
    <3>3. window' \in Windows
      BY <2>1, <3>1 DEF Windows
    <3> QED  BY <2>2, <3>2, <3>3 DEF age
  <2>3. CASE ~(window.valid /\ age <= StampClear)
    <3>1. window' = [window EXCEPT !.valid = FALSE, !.age = 0] /\ 0 \in 0 .. StampClear
      BY <1>5, <2>3, Sizes
    <3>2. window'.last = window.last /\ window'.bits = window.bits /\ window'.valid = FALSE
      BY <2>1, <3>1 DEF Windows
    <3>3. window' \in Windows
      BY <2>1, <3>1 DEF Windows
    <3> QED  BY <3>2, <3>3
  <2> QED  BY <2>2, <2>3
<1>7. since' = IF since < RestartGap THEN since + 1 ELSE RestartGap
  BY DEF BcastTick
<1>8. tried' = tried
  BY <1>1 DEF sender
<1>9. ListenerOK'
  BY <1>1, <1>3, <1>4, <1>6, <1>7, <1>8, Sizes DEF ListenerOK, Windows
<1>10. (~strayed => Follow)'
  BY <1>1, <1>2, <1>6, StillFollows DEF sender
<1> QED  BY <1>2, <1>9, <1>10 DEF BcastIInv

LEMMA ForgetKeeps == BcastIInv /\ Forget => BcastIInv'
<1> SUFFICES ASSUME BcastIInv, Forget  PROVE BcastIInv'
  OBVIOUS
<1>1. UNCHANGED sender /\ onair' = onair /\ got' = got /\ tried' = tried
  BY DEF Forget, sender
<1>2. SenderOK' /\ Numbered' /\ InTurn' /\ \A c \in Current' : c \in Current
  BY <1>1, SenderStays DEF BcastIInv
<1>3. window' = NewWindow /\ since' = RestartGap /\ stale' = {} /\ follows' = "none" /\ strayed' = FALSE
  BY DEF Forget
<1>4. ListenerOK'
  <2>1. NewWindow \in Windows /\ NewWindow.bits = {} /\ ~NewWindow.valid
    BY Sizes DEF NewWindow, Windows, Numbers
  <2> QED  BY <1>1, <1>3, <2>1, Sizes DEF BcastIInv, ListenerOK
<1>5. Current = {} /\ Fresh' = {}
  BY <1>3 DEF Forget, Quiet, Current, Fresh, NewWindow
<1>6. Follow'
  BY <1>2, <1>3, <1>5 DEF Follow
<1> QED  BY <1>2, <1>4, <1>6 DEF BcastIInv

\* After a boot nothing is about.
LEMMA NoOneWaits ==
  ASSUME SenderOK, copy = [s \in Slot |-> Empty], taken = tried, onair = {}
  PROVE  Numbered /\ InTurn /\ Current = {}
<1>1. Waiting = {} /\ Untried = {} /\ Current = {}
  BY DEF Waiting, Untried, Current, Empty
<1> QED  BY <1>1 DEF Numbered, InTurn

LEMMA ListenerStays ==
  ASSUME ListenerOK, UNCHANGED listener, tried \subseteq tried'
  PROVE  ListenerOK'
<1>1. UNCHANGED <<window, got, stale, follows, strayed, since>>
  BY DEF listener
<1> QED  BY <1>1 DEF ListenerOK

LEMMA ResetKeeps ==
  ASSUME SenderOK, NEW first \in Numbers, Reset(first), boots' \in [{1, 2} -> Nat], boots'[1] <= MaxBoots
  PROVE  SenderOK' /\ Numbered' /\ InTurn' /\ Current' = {}
<1>1. /\ seq' = first /\ keep' = (first + 1) % NumMod /\ copy' = [s \in Slot |-> Empty] /\ ord' = 0
      /\ taken' = tried /\ tried' = tried /\ onair' = {} /\ count' = count
  BY DEF Reset
<1>2. keep' \in Numbers /\ Same(keep', first + 1)
  BY <1>1, Step
<1>3. SenderOK'
  BY <1>1, <1>2, Sizes DEF SenderOK, Empty
<1>4. (SenderOK /\ copy = [s \in Slot |-> Empty] /\ taken = tried /\ onair = {}
         => Numbered /\ InTurn /\ Current = {})'
  BY NoOneWaits, PTL
<1> QED  BY <1>1, <1>3, <1>4

\* A boot with new numbers makes all that the window holds stale.
LEMMA DrawnKeeps == BcastIInv /\ BootDrawn => BcastIInv'
<1> SUFFICES ASSUME BcastIInv, BootDrawn  PROVE BcastIInv'
  OBVIOUS
<1>1. PICK n \in Draws : Reset(n)
  BY DEF BootDrawn
<1>2. /\ boots' = [boots EXCEPT ![2] = @ + 1]
      /\ follows' = "none" /\ strayed' = FALSE /\ stale' = window.bits
      /\ window' = window /\ got' = got /\ since' = since /\ tried' = tried
  BY <1>1 DEF BootDrawn, Reset
<1>3. SenderOK /\ ListenerOK
  BY DEF BcastIInv
<1>4. boots' \in [{1, 2} -> Nat] /\ boots'[1] <= MaxBoots
  BY <1>2, <1>3 DEF SenderOK
<1>5. SenderOK' /\ Numbered' /\ InTurn' /\ Current' = {}
  BY <1>1, <1>3, <1>4, ResetKeeps, Sizes
<1>6. ListenerOK'
  BY <1>2, <1>3 DEF ListenerOK
<1>7. Fresh' = {}
  BY <1>2 DEF Fresh
<1>8. Follow'
  BY <1>2, <1>5, <1>7 DEF Follow
<1> QED  BY <1>5, <1>6, <1>8 DEF BcastIInv

\* A boot with kept numbers goes Margin on.
LEMMA KeptKeeps == BcastIInv /\ BootKept => BcastIInv'
<1> SUFFICES ASSUME BcastIInv, BootKept  PROVE BcastIInv'
  OBVIOUS
<1> DEFINE x == keep + Margin - 1
<1>1. SenderOK /\ ListenerOK
  BY DEF BcastIInv
<1>2. /\ boots[1] < MaxBoots /\ boots' = [boots EXCEPT ![1] = @ + 1]
      /\ Reset(x % NumMod) /\ UNCHANGED listener
  BY DEF BootKept
<1>3. boots' \in [{1, 2} -> Nat] /\ boots'[1] = boots[1] + 1 /\ boots'[1] <= MaxBoots /\ boots[1] \in Nat
  BY <1>1, <1>2, Sizes DEF SenderOK
<1>4. Margin <= MaxJump
  <2>1. PICK z \in Nat : MaxBoots = z + 1
    <3>1. MaxBoots - 1 \in Nat /\ MaxBoots = (MaxBoots - 1) + 1
      BY <1>2, <1>3, Sizes
    <3> QED  BY <3>1
  <2>2. MaxBcasts - 1 + Margin * (z + 1) < MaxJump
    BY <2>1, BcastAssumption DEF BcastAssumption
  <2>3. Margin * (z + 1) = Margin * z + Margin /\ Margin * z \in Nat
    BY <2>1, Sizes
  <2> QED  BY <2>2, <2>3, Sizes
<1>5. keep \in Numbers /\ seq \in Numbers /\ Same(keep, seq + 1)
  BY <1>1 DEF SenderOK
<1>6. x \in Int /\ -1 <= x /\ x < NumMod + NumMod /\ x = keep + Margin - 1 /\ -NumMod <= x
  BY <1>4, <1>5, Sizes DEF Numbers
<1> HIDE DEF x
<1>7. x % NumMod = IF x < 0 THEN x + NumMod ELSE IF x < NumMod THEN x ELSE x - NumMod
  BY <1>6, Near, Sizes
<1>8. x % NumMod \in Numbers
  BY <1>6, <1>7, Sizes DEF Numbers
<1>9. SenderOK' /\ Numbered' /\ InTurn' /\ Current' = {}
  BY <1>1, <1>2, <1>3, <1>8, ResetKeeps
<1>10. seq' = x % NumMod /\ count' = count /\ tried' = tried
  BY <1>2 DEF Reset
<1>11. ListenerOK'
  BY <1>1, <1>2, <1>10, ListenerStays
<1>12. Same(seq', seq + Margin)
  BY <1>4, <1>5, <1>6, <1>7, <1>8, <1>10, Sizes DEF Same, Numbers
<1>13. Bound' = Bound + Margin
  <2> DEFINE b == boots[1]
  <2>1. Bound = count - 1 + Margin * b /\ Bound' = count - 1 + Margin * (b + 1)
    BY <1>3, <1>10 DEF Bound
  <2>2. Margin * (b + 1) = Margin * b + Margin /\ Margin * b \in Nat /\ count \in Int
    BY <1>1, <1>3, Sizes DEF SenderOK
  <2> HIDE DEF b
  <2> QED  BY <2>1, <2>2, Sizes
<1>14. (~strayed => Follow)'
  BY <1>2, <1>9, <1>12, <1>13, GoesOn, Sizes
<1> QED  BY <1>9, <1>11, <1>14 DEF BcastIInv

-----------------------------------------------------------------------------
(* Copies. *)
LEMMA IdsDiffer ==
  ASSUME SenderOK, InTurn, NEW s \in Untried, NEW t \in Untried, s # t  PROVE copy[s].id # copy[t].id
<1>1. Turn(s) \in Nat /\ Turn(t) \in Nat
  BY SlotsFinite, TurnsBounded DEF Untried, Waiting
<1>2. copy[s].id \in Nat /\ copy[t].id \in Nat
  BY DEF SenderOK, Untried, Waiting
<1>3. /\ Turn(s) # Turn(t) /\ (copy[s].id < copy[t].id <=> Turn(s) > Turn(t))
      /\ (copy[t].id < copy[s].id <=> Turn(t) > Turn(s))
  BY DEF InTurn
<1> QED  BY <1>1, <1>2, <1>3

\* A copy goes: of a broadcast still untried only the oldest.
LEMMA CopyKeeps == BcastIInv /\ NextCopyGoes => BcastIInv'
<1> SUFFICES ASSUME BcastIInv, NextCopyGoes  PROVE BcastIInv'
  OBVIOUS
<1>1. SenderOK /\ ListenerOK /\ Numbered /\ InTurn
  BY DEF BcastIInv
<1>2. PICK s \in Slot : NextCopy(s) /\ SendCopy(copy, s)
  BY DEF NextCopyGoes
<1> DEFINE i == copy[s].id
           l == copy[s].left
<1>3. /\ UNCHANGED <<seq, keep, ord, count, taken, boots, listener>>
      /\ copy' = [copy EXCEPT ![s].left = @ - 1] /\ tried' = tried \cup {i}
      /\ onair' = onair \/ onair' = onair \cup {[id |-> i, num |-> copy[s].num]}
  BY <1>2 DEF NextCopyGoes, SendCopy
<1>4. s \in Waiting /\ l \in 1 .. Copies /\ i \in Nat
  BY <1>1, <1>2 DEF NextCopy, Waiting, SenderOK
<1>5. /\ copy'[s].left = l - 1 /\ \A t \in Slot \ {s} : copy'[t] = copy[t]
      /\ \A t \in Slot : /\ copy'[t].id = copy[t].id /\ copy'[t].num = copy[t].num
                        /\ copy'[t].ord = copy[t].ord
      /\ copy' \in [Slot -> [left : 0 .. Copies, ord : 0 .. OrdMod - 1, id : Nat, num : Int]]
  <2> DEFINE C == [left : 0 .. Copies, ord : 0 .. OrdMod - 1, id : Nat, num : Int]
             r == [copy[s] EXCEPT !.left = l - 1]
  <2>1. copy \in [Slot -> C] /\ copy[s] \in C
    BY <1>1 DEF SenderOK
  <2>2. l - 1 \in 0 .. Copies
    BY <1>4, Sizes
  <2>3. /\ r \in C /\ r.left = l - 1 /\ r.id = copy[s].id /\ r.ord = copy[s].ord /\ r.num = copy[s].num
    BY <2>1, <2>2
  <2>4. copy' = [copy EXCEPT ![s] = r]
    BY <1>3
  <2> HIDE DEF r
  <2>5. copy'[s] = r /\ \A t \in Slot \ {s} : copy'[t] = copy[t]
    BY <2>1, <2>4
  <2>6. copy' \in [Slot -> C]
    <3> HIDE DEF C
    <3> QED  BY <2>1, <2>3, <2>4
  <2>7. \A t \in Slot : /\ copy'[t].id = copy[t].id /\ copy'[t].num = copy[t].num
                       /\ copy'[t].ord = copy[t].ord
    BY <2>3, <2>5
  <2> QED  BY <2>3, <2>5, <2>6, <2>7
<1>6. /\ Waiting' \subseteq Waiting /\ Waiting \ {s} \subseteq Waiting' /\ Waiting \subseteq Slot
      /\ Untried' = Untried \ {s}
  BY <1>4, <1>5, Sizes DEF Waiting, Untried
<1>7. i \in taken
  BY <1>1, <1>4 DEF InTurn, SenderOK
<1>8. SenderOK'
  BY <1>1, <1>3, <1>5, <1>7 DEF SenderOK
<1>9. ListenerOK'
  BY <1>1, <1>3, ListenerStays
<1>10. \A c \in Current' : c \in Current
  BY <1>3, <1>4, <1>5, <1>6 DEF Current
<1>11. Numbered'
  BY <1>1, <1>3, <1>10 DEF Numbered
<1>12. \A t \in Slot : Turn(t)' = Turn(t)
  BY <1>3, <1>5 DEF Turn
<1>13. Untried \subseteq Slot
  BY DEF Untried, Waiting
<1>14. InTurn'
  <2>1. CASE s \notin Untried
    <3>1. Untried = {}
      <4> SUFFICES ASSUME NEW t \in Untried  PROVE FALSE
        OBVIOUS
      <4>1. t # s /\ t \in Waiting /\ copy[t].left = Copies
        BY <2>1 DEF Untried
      <4>2. l > Copies \/ l = Copies
        BY <1>2, <4>1 DEF NextCopy, Before
      <4>3. l # Copies
        BY <1>4, <2>1 DEF Untried
      <4> QED  BY <1>4, <4>2, <4>3, Sizes
    <3>2. i \in tried
      BY <1>1, <1>4, <2>1 DEF InTurn
    <3>3. tried' = tried
      BY <1>3, <3>2
    <3>4. Untried' = {}
      BY <1>6, <3>1
    <3>5. \A t \in Waiting' : copy'[t].id \in tried
      BY <1>1, <1>5, <1>6, <3>1 DEF InTurn
    <3>6. taken \ tried = {}
      BY <1>1, <3>1 DEF InTurn
    <3> QED  BY <1>3, <3>3, <3>4, <3>5, <3>6 DEF InTurn
  <2>2. CASE s \in Untried
    <3>1. \A t \in Untried \ {s} : Turn(s) > Turn(t) /\ i < copy[t].id
      <4> SUFFICES ASSUME NEW t \in Untried \ {s}  PROVE Turn(s) > Turn(t) /\ i < copy[t].id
        OBVIOUS
      <4>1. t \in Waiting /\ copy[t].left = Copies /\ l = Copies
        BY <2>2 DEF Untried
      <4>2. Older(s, t)
        BY <1>2, <4>1, Sizes DEF NextCopy, Before
      <4>3. Turn(s) > Turn(t)
        BY <1>1, <2>2, <4>2, OlderIsOlder
      <4> QED  BY <1>1, <2>2, <4>3 DEF InTurn
    <3>2. \A t \in Untried \ {s} : copy[t].id # i
      BY <1>1, <2>2, IdsDiffer
    <3>3. \A t \in Waiting' : copy'[t].id \in tried' <=> t \notin Untried'
      <4> SUFFICES ASSUME NEW t \in Waiting'  PROVE copy'[t].id \in tried' <=> t \notin Untried'
        OBVIOUS
      <4>1. t \in Waiting /\ t \in Slot /\ copy'[t].id = copy[t].id
        BY <1>5, <1>6
      <4>2. copy[t].id \in tried <=> t \notin Untried
        BY <1>1, <4>1 DEF InTurn
      <4>3. CASE t = s
        BY <1>3, <1>6, <4>1, <4>3
      <4>4. CASE t # s
        BY <1>3, <1>6, <3>2, <4>1, <4>2, <4>4
      <4> QED  BY <4>3, <4>4
    <3>4. taken \ tried' = {copy[t].id : t \in Untried \ {s}}
      <4>1. taken \ tried = {copy[t].id : t \in Untried}
        BY <1>1 DEF InTurn
      <4>2. taken \ tried' = (taken \ tried) \ {i}
        BY <1>3
      <4> HIDE DEF i
      <4>3. i = copy[s].id
        BY DEF i
      <4> QED  BY <2>2, <3>2, <4>1, <4>2, <4>3
    <3>5. taken' \ tried' = {copy'[t].id : t \in Untried'}
      BY <1>3, <1>5, <1>6, <1>13, <3>4
    <3>6. \A j \in tried', t \in Untried' : j < copy'[t].id
      BY <1>1, <1>3, <1>5, <1>6, <1>13, <3>1 DEF InTurn
    <3>7. \A t \in Untried', u \in Untried' : t # u => Turn(t)' # Turn(u)'
      BY <1>1, <1>6, <1>12, <1>13 DEF InTurn
    <3>8. \A t \in Untried', u \in Untried' : copy'[t].id < copy'[u].id <=> Turn(t)' > Turn(u)'
      BY <1>1, <1>5, <1>6, <1>12, <1>13 DEF InTurn
    <3>9. \A t \in Untried' : \A k \in 1 .. Turn(t) : \E u \in Untried' : Turn(u) = k
      <4> SUFFICES ASSUME NEW t \in Untried', NEW k \in 1 .. Turn(t)  PROVE \E u \in Untried' : Turn(u) = k
        OBVIOUS
      <4>1. PICK u \in Untried : Turn(u) = k
        BY <1>1, <1>6 DEF InTurn
      <4>2. Turn(s) > Turn(t) /\ Turn(t) \in Nat /\ Turn(s) \in Nat
        BY <1>1, <1>6, <1>13, <2>2, <3>1, SlotsFinite, TurnsBounded
      <4>3. u # s
        BY <4>1, <4>2
      <4> QED  BY <1>6, <4>1, <4>3
    <3>10. \A t \in Untried' : \A k \in 1 .. Turn(t)' : \E u \in Untried' : Turn(u)' = k
      BY <1>6, <1>12, <1>13, <3>9
    <3>11. \A t \in Untried' : Turn(t)' >= 1
      BY <1>1, <1>6, <1>12, <1>13 DEF InTurn
    <3> QED  BY <3>3, <3>5, <3>6, <3>7, <3>8, <3>10, <3>11 DEF InTurn
  <2> QED  BY <2>1, <2>2
<1>15. (~strayed => Follow)'
  BY <1>3, <1>10, StillFollows DEF listener
<1> QED  BY <1>8, <1>9, <1>11, <1>14, <1>15 DEF BcastIInv

-----------------------------------------------------------------------------
(* A broadcast. *)

\* What a number lies back of the last one, when the last one moves on by one.
LEMMA Renumber ==
  ASSUME NEW n \in Numbers, NEW s \in Numbers, NEW t \in Numbers, NEW k \in Nat,
         2 * k < NumMod, Same(n, s - k), Same(t, s + 1)
  PROVE  Same(n, t - (k + 1))
BY Sizes DEF Numbers, Same

\* The kept number stays one ahead.
LEMMA TwoOn ==
  ASSUME NEW n \in Numbers, NEW t, NEW k, t = (n + 1) % NumMod, k = (n + 2) % NumMod
  PROVE  k \in Numbers /\ Same(k, t + 1)
<1> DEFINE x == n + 2
<1>1. x \in Int /\ -NumMod <= x /\ x < NumMod + NumMod /\ x = n + 2 /\ x >= 0
  BY Sizes DEF Numbers
<1>2. k = x % NumMod
  OBVIOUS
<1> HIDE DEF x
<1>3. x % NumMod = IF x < 0 THEN x + NumMod ELSE IF x < NumMod THEN x ELSE x - NumMod
  BY <1>1, Near, Sizes
<1>4. t \in Int /\ 0 <= t /\ t < NumMod /\ (t = n + 1 \/ t = n + 1 - NumMod)
  BY Step, Sizes DEF Numbers, Same
<1>5. k \in Int /\ 0 <= k /\ k < NumMod /\ (k = x \/ k = x - NumMod)
  BY <1>1, <1>2, <1>3, Sizes
<1> QED  BY <1>1, <1>4, <1>5, Sizes DEF Same, Numbers

LEMMA NotBack == ASSUME NEW n \in Int, NEW x \in Int  PROVE Same(x, x - (n - n))
<1>1. x - (n - n) = x
  OBVIOUS
<1> QED  BY <1>1 DEF Same

LEMMA OneMore ==
  ASSUME NEW c \in Int, NEW b \in Int, NEW d, NEW x, NEW y, d = c + 1, x = c - 1 + b, y = d - 1 + b
  PROVE  y = x + 1
OBVIOUS

\* A broadcast takes the next number, and every frame about is one further back.
LEMMA TakesNumber ==
  ASSUME BcastIInv, TakeNumber
  PROVE  /\ seq' \in Numbers /\ keep' \in Numbers /\ Same(keep', seq' + 1) /\ Same(seq', seq + 1)
         /\ count \in Nat /\ count' = count + 1 /\ count' \in 0 .. MaxBcasts
         /\ Bound' = Bound + 1 /\ boots' = boots
         /\ \A c \in Current : /\ c.id \in 1 .. count /\ c.num \in Numbers
                               /\ Same(c.num, seq' - (count' - c.id))
<1>1. SenderOK /\ Numbered
  BY DEF BcastIInv
<1>2. /\ count < MaxBcasts /\ count' = count + 1 /\ boots' = boots
      /\ seq' = (seq + 1) % NumMod /\ keep' = (seq + 2) % NumMod
  BY DEF TakeNumber
<1>3. seq \in Numbers /\ count \in Nat /\ count' \in 0 .. MaxBcasts
  BY <1>1, <1>2, Sizes DEF SenderOK
<1>4. seq' \in Numbers /\ Same(seq', seq + 1)
  BY <1>2, <1>3, Step
<1>5. keep' \in Numbers /\ Same(keep', seq' + 1)
  BY <1>2, <1>3, TwoOn
<1>6. Bound' = Bound + 1
  <2>1. Bound = count - 1 + Margin * boots[1] /\ Bound' = count' - 1 + Margin * boots'[1]
    BY DEF Bound
  <2>2. Margin * boots[1] \in Int
    <3>1. boots[1] \in Nat
      BY <1>1 DEF SenderOK
    <3> QED  BY <3>1, Sizes
  <2>3. Bound' = count' - 1 + Margin * boots[1]
    BY <1>2, <2>1, Zenon
  <2> QED  BY <1>2, <1>3, <2>1, <2>2, <2>3, OneMore
<1>7. ASSUME NEW c \in Current
      PROVE  c.id \in 1 .. count /\ c.num \in Numbers /\ Same(c.num, seq' - (count' - c.id))
  <2>1. c.id \in 1 .. count /\ c.num \in Numbers /\ Same(c.num, seq - (count - c.id))
    BY <1>1, <1>7 DEF Numbered
  <2> DEFINE k == count - c.id
  <2>2. k \in Nat /\ 2 * k < NumMod /\ count' - c.id = k + 1
    BY <1>2, <1>3, <2>1, Sizes
  <2>3. Same(c.num, seq - k)
    BY <2>1
  <2> HIDE DEF k
  <2>4. Same(c.num, seq' - (k + 1))
    BY <1>3, <1>4, <2>1, <2>2, <2>3, Renumber
  <2> QED  BY <2>1, <2>2, <2>4
<1> QED  BY <1>2, <1>3, <1>4, <1>5, <1>6, <1>7

LEMMA DroppedKeeps == BcastIInv /\ BroadcastDropped => BcastIInv'
<1> SUFFICES ASSUME BcastIInv, BroadcastDropped  PROVE BcastIInv'
  OBVIOUS
<1>1. SenderOK /\ ListenerOK /\ Numbered /\ InTurn
  BY DEF BcastIInv
<1>2. TakeNumber /\ UNCHANGED <<copy, ord, taken, tried, onair, listener>>
  BY DEF BroadcastDropped
<1>3. /\ seq' \in Numbers /\ keep' \in Numbers /\ Same(keep', seq' + 1) /\ Same(seq', seq + 1)
      /\ count \in Nat /\ count' = count + 1 /\ count' \in 0 .. MaxBcasts
      /\ Bound' = Bound + 1 /\ boots' = boots
      /\ \A c \in Current : /\ c.id \in 1 .. count /\ c.num \in Numbers
                            /\ Same(c.num, seq' - (count' - c.id))
  BY <1>2, TakesNumber
<1>4. Waiting' = Waiting /\ Untried' = Untried /\ \A s : Turn(s)' = Turn(s)
  BY <1>2 DEF Waiting, Untried, Turn
<1>5. Current' = Current
  BY <1>2, <1>4 DEF Current
<1>6. SenderOK'
  BY <1>1, <1>2, <1>3 DEF SenderOK
<1>7. ListenerOK'
  BY <1>1, <1>2, ListenerStays
<1>8. Numbered'
  BY <1>1, <1>2, <1>3, <1>5 DEF Numbered
<1>9. InTurn'
  BY <1>1, <1>2, <1>4 DEF InTurn
<1>10. (~strayed => Follow)'
  BY <1>2, <1>3, <1>5, <1>6, GoesOn
<1> QED  BY <1>6, <1>7, <1>8, <1>9, <1>10 DEF BcastIInv

\* A broadcast gets a slot: one the untried do not hold, so that their turns still fit.
LEMMA BroadcastKeeps == BcastIInv /\ Broadcast => BcastIInv'
<1> SUFFICES ASSUME BcastIInv, Broadcast  PROVE BcastIInv'
  OBVIOUS
<1>1. SenderOK /\ ListenerOK /\ Numbered /\ InTurn
  BY DEF BcastIInv
<1> DEFINE new == [left |-> Copies, ord |-> ord, id |-> count', num |-> seq']
           C == [left : 0 .. Copies, ord : 0 .. OrdMod - 1, id : Nat, num : Int]
<1>2. PICK z \in Slot : LET cs == [copy EXCEPT ![z] = new] IN
        /\ SlotGet(z) /\ taken' = taken \cup {count'} /\ ord' = (ord + 1) % OrdMod
        /\ IF Waiting = {} /\ spaced THEN SendCopy(cs, z)
           ELSE copy' = cs /\ UNCHANGED <<spaced, tried, onair>>
  BY DEF Broadcast
<1>3. /\ seq' \in Numbers /\ keep' \in Numbers /\ Same(keep', seq' + 1) /\ Same(seq', seq + 1)
      /\ count \in Nat /\ count' = count + 1 /\ count' \in 0 .. MaxBcasts
      /\ Bound' = Bound + 1 /\ boots' = boots
      /\ \A c \in Current : /\ c.id \in 1 .. count /\ c.num \in Numbers
                            /\ Same(c.num, seq' - (count' - c.id))
  BY TakesNumber DEF Broadcast
<1>4. UNCHANGED listener
  BY DEF Broadcast
<1>5. /\ new.left = Copies /\ new.ord = ord /\ new.id = count' /\ new.num = seq' /\ new \in C
  BY <1>1, <1>3, Sizes DEF SenderOK, Numbers
<1>6. copy \in [Slot -> C] /\ ord \in 0 .. OrdMod - 1
  BY <1>1 DEF SenderOK
<1> HIDE DEF new, C
<1> DEFINE cs == [copy EXCEPT ![z] = new]
<1>7. cs \in [Slot -> C] /\ cs[z] = new /\ \A t \in Slot \ {z} : cs[t] = copy[t]
  BY <1>5, <1>6
<1>8. /\ taken' = taken \cup {count'} /\ ord' = (ord + 1) % OrdMod
      /\ IF Waiting = {} /\ spaced THEN SendCopy(cs, z) ELSE copy' = cs /\ UNCHANGED <<spaced, tried, onair>>
  BY <1>2
<1>9. z \notin Untried
  <2>1. SlotGet(z)
    BY <1>2
  <2>2. z \notin Waiting \/ copy[z].left < Copies
    BY <2>1 DEF SlotGet, Gives, Spare
  <2>3. copy[z].left \in Int
    BY <1>1 DEF SenderOK
  <2> QED  BY <2>2, <2>3, Sizes DEF Untried
<1>10. ord' \in 0 .. OrdMod - 1
  BY <1>6, <1>8, OrdSteps
<1>11. /\ tried \subseteq 1 .. count /\ got \subseteq tried /\ taken \subseteq 1 .. count
       /\ count' \notin tried /\ count' \notin got
  BY <1>1, <1>3 DEF SenderOK, ListenerOK, Windows
<1> HIDE DEF cs
<1>12. CASE Waiting = {} /\ spaced
  <2>1. /\ copy' = [cs EXCEPT ![z].left = @ - 1] /\ tried' = tried \cup {new.id}
        /\ onair' = onair \/ onair' = onair \cup {[id |-> new.id, num |-> new.num]}
    BY <1>7, <1>8, <1>12 DEF SendCopy
  <2> DEFINE r == [new EXCEPT !.left = Copies - 1]
  <2>2. r \in C /\ r.left = Copies - 1 /\ r.id = count' /\ r.num = seq' /\ r.ord = ord
    BY <1>5, Sizes DEF C
  <2>3. copy' = [cs EXCEPT ![z] = r]
    BY <1>5, <1>7, <2>1
  <2> HIDE DEF r
  <2>4. copy' \in [Slot -> C] /\ copy'[z] = r /\ \A t \in Slot \ {z} : copy'[t] = copy[t]
    BY <1>7, <2>2, <2>3
  <2>5. \A t \in Slot : copy[t].left \in Nat /\ ~(copy[t].left > 0)
    BY <1>1, <1>12 DEF Waiting, SenderOK
  <2>6. Waiting' \subseteq {z} /\ Untried' = {} /\ Untried = {}
    BY <1>12, <2>2, <2>4, <2>5, Sizes DEF Waiting, Untried
  <2>7. tried' = tried \cup {count'} /\ taken \ tried = {}
    BY <1>1, <1>5, <2>1, <2>6 DEF InTurn
  <2>8. SenderOK'
    BY <1>1, <1>3, <1>8, <1>10, <1>11, <2>4, <2>7 DEF SenderOK, C
  <2>9. \A c \in Current' : c \in Current \/ (c.id = count' /\ c.num = seq')
    <3>1. \A c \in onair' : c \in onair \/ (c.id = count' /\ c.num = seq')
      BY <1>5, <2>1
    <3>2. \A t \in Waiting' : copy'[t].id = count' /\ copy'[t].num = seq'
      BY <2>2, <2>4, <2>6
    <3> QED  BY <3>1, <3>2 DEF Current
  <2>10. Numbered'
    <3>1. \A f \in onair' : f.id \in tried'
      BY <1>1, <1>5, <2>1, <2>7 DEF Numbered
    <3>2. \A c \in Current' : c.id \in 1 .. count' /\ c.num \in Numbers /\ Same(c.num, seq' - (count' - c.id))
      <4> SUFFICES ASSUME NEW c \in Current'
                   PROVE c.id \in 1 .. count' /\ c.num \in Numbers /\ Same(c.num, seq' - (count' - c.id))
        OBVIOUS
      <4>1. CASE c \in Current
        BY <1>3, <4>1
      <4>2. CASE c.id = count' /\ c.num = seq'
        <5>1. count' \in Nat /\ count' >= 1 /\ seq' \in Int
          BY <1>3, Sizes DEF Numbers
        <5>2. count' \in 1 .. count' /\ Same(seq', seq' - (count' - count'))
          BY <5>1, NotBack
        <5> QED  BY <1>3, <4>2, <5>2, Zenon
      <4> QED  BY <2>9, <4>1, <4>2
    <3> QED  BY <3>1, <3>2 DEF Numbered
  <2>11. InTurn'
    <3>1. \A t \in Waiting' : copy'[t].id \in tried'
      BY <2>2, <2>4, <2>6, <2>7
    <3>2. taken' \ tried' = {}
      BY <1>8, <2>7
    <3> QED  BY <2>6, <3>1, <3>2 DEF InTurn
  <2>12. ListenerOK'
    BY <1>1, <1>4, <2>7, ListenerStays
  <2>13. (~strayed => Follow)'
    BY <1>3, <1>4, <1>11, <2>8, <2>9, GoesOn
  <2> QED  BY <2>8, <2>10, <2>11, <2>12, <2>13 DEF BcastIInv
<1>13. CASE ~(Waiting = {} /\ spaced)
  <2>1. copy' = cs /\ tried' = tried /\ onair' = onair
    BY <1>8, <1>13
  <2>2. copy' \in [Slot -> C] /\ copy'[z] = new /\ \A t \in Slot \ {z} : copy'[t] = copy[t]
    BY <1>7, <2>1
  <2>3. /\ Waiting' = Waiting \cup {z} /\ Untried' = Untried \cup {z}
        /\ Untried \subseteq Slot \ {z} /\ Waiting \subseteq Slot
    BY <1>5, <1>9, <2>2, Sizes DEF Waiting, Untried
  <2>4. SenderOK'
    BY <1>1, <1>3, <1>8, <1>10, <1>11, <2>1, <2>2 DEF SenderOK, C
  <2>5. \A c \in Current' : c \in Current \/ (c.id = count' /\ c.num = seq')
    <3>1. \A t \in Waiting' : t = z \/ (t \in Waiting /\ copy'[t] = copy[t])
      BY <2>2, <2>3
    <3> QED  BY <1>5, <2>1, <2>2, <3>1 DEF Current
  <2>6. Numbered'
    <3>1. \A c \in Current' : c.id \in 1 .. count' /\ c.num \in Numbers /\ Same(c.num, seq' - (count' - c.id))
      <4> SUFFICES ASSUME NEW c \in Current'
                   PROVE c.id \in 1 .. count' /\ c.num \in Numbers /\ Same(c.num, seq' - (count' - c.id))
        OBVIOUS
      <4>1. CASE c \in Current
        BY <1>3, <4>1
      <4>2. CASE c.id = count' /\ c.num = seq'
        <5>1. count' \in Nat /\ count' >= 1 /\ seq' \in Int
          BY <1>3, Sizes DEF Numbers
        <5>2. count' \in 1 .. count' /\ Same(seq', seq' - (count' - count'))
          BY <5>1, NotBack
        <5> QED  BY <1>3, <4>2, <5>2, Zenon
      <4> QED  BY <2>5, <4>1, <4>2
    <3> QED  BY <1>1, <2>1, <3>1 DEF Numbered
  <2>7. \A t \in Untried : Turn(t) \in Nat /\ Turn(t) >= 1 /\ Turn(t)' = Turn(t) + 1
    <3> SUFFICES ASSUME NEW t \in Untried  PROVE Turn(t) \in Nat /\ Turn(t) >= 1 /\ Turn(t)' = Turn(t) + 1
      OBVIOUS
    <3>1. IsFiniteSet(Slot) /\ Cardinality(Slot \ {z}) = Slots - 1
      BY SlotsFinite, FS_RemoveElement, Sizes
    <3>2. Turn(t) \in Nat /\ Turn(t) <= Slots - 1 /\ Turn(t) >= 1
      BY <1>1, <2>3, <3>1, TurnsBounded DEF InTurn
    <3>3. copy'[t].ord = copy[t].ord /\ copy[t].ord \in 0 .. OrdMod - 1
      BY <1>1, <2>2, <2>3 DEF SenderOK
    <3>4. ((ord - copy[t].ord) % OrdMod) + 1 < OrdMod
      BY <3>2, Sizes DEF Turn
    <3>5. (ord' - copy[t].ord) % OrdMod = ((ord - copy[t].ord) % OrdMod) + 1
      BY <1>6, <1>8, <3>3, <3>4, OrdSteps
    <3> QED  BY <3>2, <3>3, <3>5 DEF Turn
  <2>8. Turn(z)' = 1
    <3>1. (ord' - ord) % OrdMod = 1
      BY <1>6, <1>8, OrdSteps
    <3> QED  BY <1>5, <2>2, <3>1 DEF Turn
  <2>9. \A t \in Untried : t \in Waiting /\ copy'[t] = copy[t] /\ copy[t].id \in 1 .. count
    <3>1. \A t \in Untried : copy[t].id \in taken
      BY <1>1 DEF InTurn
    <3> QED  BY <1>11, <2>2, <2>3, <3>1 DEF Untried
  <2>10. copy'[z].id = count' /\ count' > count /\ count \in Nat
    BY <1>3, <1>5, <2>2
  <2>11. InTurn'
    <3>1. \A s \in Waiting' : copy'[s].id \in tried' <=> s \notin Untried'
      <4>1. \A s \in Waiting \ {z} : copy'[s] = copy[s] /\ (copy[s].id \in tried <=> s \notin Untried)
        BY <1>1, <2>2, <2>3 DEF InTurn
      <4> QED  BY <1>11, <2>1, <2>3, <2>10, <4>1
    <3>2. taken' \ tried' = {copy'[s].id : s \in Untried'}
      <4>1. taken \ tried = {copy[s].id : s \in Untried}
        BY <1>1 DEF InTurn
      <4>2. taken' \ tried' = (taken \ tried) \cup {count'}
        BY <1>8, <1>11, <2>1
      <4>3. \A s \in Untried : copy'[s].id = copy[s].id
        BY <2>9
      <4> QED  BY <2>3, <2>10, <4>1, <4>2, <4>3
    <3>3. \A i \in tried', s \in Untried' : i < copy'[s].id
      <4>1. \A i \in tried, s \in Untried : i < copy'[s].id
        BY <1>1, <2>9 DEF InTurn
      <4>2. \A i \in tried : i < copy'[z].id
        BY <1>3, <1>11, <2>10
      <4> QED  BY <2>1, <2>3, <4>1, <4>2
    <3>4. \A s \in Untried' : Turn(s)' >= 1
      BY <2>3, <2>7, <2>8
    <3>5. ASSUME NEW s \in Untried', NEW t \in Untried'
          PROVE  /\ s # t => Turn(s)' # Turn(t)'
                 /\ copy'[s].id < copy'[t].id <=> Turn(s)' > Turn(t)'
      <4>1. CASE s \in Untried /\ t \in Untried
        <5>1. (s # t => Turn(s) # Turn(t)) /\ (copy[s].id < copy[t].id <=> Turn(s) > Turn(t))
          BY <1>1, <4>1 DEF InTurn
        <5> QED  BY <2>7, <2>9, <4>1, <5>1
      <4>2. CASE s = z /\ t \in Untried
        <5>1. /\ Turn(s)' = 1 /\ Turn(t)' > 1 /\ Turn(t)' \in Nat
              /\ copy'[s].id = count + 1 /\ copy'[t].id \in 1 .. count
          BY <1>3, <2>7, <2>8, <2>9, <2>10, <4>2
        <5> QED  BY <1>3, <5>1
      <4>3. CASE s \in Untried /\ t = z
        <5>1. /\ Turn(t)' = 1 /\ Turn(s)' > 1 /\ Turn(s)' \in Nat
              /\ copy'[t].id = count + 1 /\ copy'[s].id \in 1 .. count
          BY <1>3, <2>7, <2>8, <2>9, <2>10, <4>3
        <5> QED  BY <1>3, <5>1
      <4>4. CASE s = z /\ t = z
        BY <1>3, <2>8, <2>10, <4>4
      <4> QED  BY <2>3, <4>1, <4>2, <4>3, <4>4
    <3>6. ASSUME NEW s \in Untried', NEW k \in 1 .. Turn(s)'  PROVE \E t \in Untried' : Turn(t)' = k
      <4>1. CASE k = 1
        BY <2>3, <2>8, <4>1
      <4>2. CASE k # 1
        <5>1. s \in Untried
          BY <2>3, <2>8, <4>2
        <5>2. Turn(s) \in Nat /\ Turn(s)' = Turn(s) + 1
          BY <2>7, <5>1
        <5>3. k - 1 \in 1 .. Turn(s) /\ k \in Int
          BY <4>2, <5>2
        <5>4. PICK t \in Untried : Turn(t) = k - 1
          BY <1>1, <5>1, <5>3 DEF InTurn
        <5>5. Turn(t)' = k
          BY <2>7, <5>3, <5>4
        <5> QED  BY <2>3, <5>5
      <4> QED  BY <4>1, <4>2
    <3> QED  BY <3>1, <3>2, <3>3, <3>4, <3>5, <3>6 DEF InTurn
  <2>12. ListenerOK'
    BY <1>1, <1>4, <2>1, ListenerStays
  <2>13. (~strayed => Follow)'
    BY <1>3, <1>4, <1>11, <2>4, <2>5, GoesOn
  <2> QED  BY <2>4, <2>6, <2>11, <2>12, <2>13 DEF BcastIInv
<1> QED  BY <1>12, <1>13

-----------------------------------------------------------------------------
(* The listener. *)

\* Where the frames about lie from number l.
LEMMA At ==
  ASSUME SenderOK, Numbered, NEW l \in Numbers, NEW e \in Int, -SeqWindow < e, e <= Bound, Same(e, seq - l)
  PROVE  /\ Signed(seq - l, NumMod) = e
         /\ \A c \in Current : Signed(l - c.num, NumMod) = (count - c.id) - e
<1>1. seq \in Numbers /\ count \in 0 .. MaxBcasts /\ Bound \in Int /\ Bound < MaxJump
  BY BoundSmall DEF SenderOK
<1>2. -NumMod < 2 * (0 - e) /\ 2 * (0 - e) < NumMod
  BY <1>1, Sizes
<1>3. Signed(seq - l, NumMod) = e
  BY <1>1, <1>2, FollowsNow
<1>4. ASSUME NEW c \in Current  PROVE Signed(l - c.num, NumMod) = (count - c.id) - e
  <2>1. c.id \in 1 .. count /\ c.num \in Numbers /\ Same(c.num, seq - (count - c.id))
    BY DEF Numbered
  <2> DEFINE k == count - c.id
  <2>2. k \in Int /\ 0 <= k /\ k <= count - 1
    BY <1>1, <2>1
  <2> HIDE DEF k
  <2>3. -NumMod < 2 * (k - e) /\ 2 * (k - e) < NumMod
    BY <1>1, <2>2, Sizes
  <2>4. Same(c.num, seq - k)
    BY <2>1 DEF k
  <2>5. Signed(l - c.num, NumMod) = k - e
    BY <1>1, <2>1, <2>2, <2>3, <2>4, Follows3
  <2> QED  BY <2>5 DEF k
<1> QED  BY <1>3, <1>4

\* What the window holds once it took number n.
LEMMA MovedIs ==
  ASSUME NEW w \in Windows, NEW n \in Numbers
  PROVE  /\ Ahead(w, n) \in Int /\ NewestLess(w, n) \in Int /\ (w.last = n <=> NewestLess(w, n) = 0)
         /\ (w.last # n => Ahead(w, n) # 0) /\ Same(NewestLess(w, n), w.last - n)
         /\ \A bits \in SUBSET (0 .. SeqWindow - 1) : \A x :
               x \in Shifted(w, bits, n) <=>
                 Ahead(w, n) >= 0 /\ \E b \in bits : b + Ahead(w, n) < SeqWindow /\ x = b + Ahead(w, n)
         /\ Moved(w, n) \in Windows
         /\ IF NewestLess(w, n) \in 0 .. SeqWindow - 1
            THEN Moved(w, n).last = w.last /\ Moved(w, n).bits = w.bits \cup {NewestLess(w, n)}
            ELSE Moved(w, n).last = n /\ Moved(w, n).bits = {0} \cup Shifted(w, w.bits, n)
         /\ IF Far(w, n) THEN Moved(w, n).age = 0
            ELSE Moved(w, n).valid = w.valid /\ Moved(w, n).age = w.age
<1> DEFINE nl == NewestLess(w, n)
           g == Ahead(w, n)
           B == 0 .. SeqWindow - 1
           m == IF Far(w, n) THEN [w EXCEPT !.valid = TRUE, !.age = 0] ELSE w
<1>1. w.last \in Numbers /\ w.bits \in SUBSET B
  BY DEF Windows
<1>2. /\ nl \in Int /\ -NumMod <= 2 * nl /\ 2 * nl < NumMod /\ Same(nl, w.last - n)
      /\ g \in Int /\ -NumMod <= 2 * g /\ 2 * g < NumMod /\ Same(g, n - w.last)
  BY <1>1, Places DEF NewestLess, Ahead
<1> HIDE DEF nl, g
<1>3. (w.last = n <=> nl = 0) /\ (w.last # n => g # 0)
  BY <1>1, <1>2, Sizes DEF Same, Numbers
<1>4. ASSUME NEW bits \in SUBSET B, NEW x
      PROVE  x \in Shifted(w, bits, n) <=> g >= 0 /\ \E b \in bits : b + g < SeqWindow /\ x = b + g
  BY DEF Shifted, g
<1>5. Shifted(w, w.bits, n) \subseteq B
  <2> SUFFICES ASSUME NEW x \in Shifted(w, w.bits, n)  PROVE x \in B
    OBVIOUS
  <2>1. PICK b \in w.bits : g >= 0 /\ b + g < SeqWindow /\ x = b + g
    BY <1>1, <1>4
  <2> QED  BY <1>1, <1>2, <2>1, Sizes
<1>6. m \in Windows /\ m.last = w.last /\ m.bits = w.bits /\ IF Far(w, n) THEN m.age = 0 ELSE m = w
  <2> DEFINE v == [w EXCEPT !.valid = TRUE, !.age = 0]
  <2>1. v.last = w.last /\ v.bits = w.bits /\ v.age = 0
    BY DEF Windows
  <2>2. v \in Windows
    <3>1. 0 \in 0 .. StampClear
      BY Sizes
    <3>2. v = [w EXCEPT !.valid = TRUE, !.age = 0]
      OBVIOUS
    <3> HIDE DEF v, m, B
    <3> QED  BY <3>1, <3>2 DEF Windows
  <2> HIDE DEF v
  <2>3. m = IF Far(w, n) THEN v ELSE w
    BY DEF v
  <2> QED  BY <2>1, <2>2, <2>3
<1> HIDE DEF m
<1>8. Moved(w, n) = IF nl \in B THEN [m EXCEPT !.bits = w.bits \cup {nl}]
                    ELSE [m EXCEPT !.last = n, !.bits = {0} \cup Shifted(w, w.bits, n)]
  BY <1>6 DEF Moved, m, nl
<1>9. CASE nl \in B
  <2>1. Moved(w, n) = [m EXCEPT !.bits = w.bits \cup {nl}] /\ w.bits \cup {nl} \in SUBSET B
    BY <1>1, <1>8, <1>9
  <2> HIDE DEF B
  <2>2. /\ Moved(w, n).last = m.last /\ Moved(w, n).bits = w.bits \cup {nl}
        /\ Moved(w, n).age = m.age /\ Moved(w, n).valid = m.valid
    BY <1>6, <2>1 DEF Windows
  <2>3. Moved(w, n) \in Windows
    BY <1>6, <2>1 DEF Windows, B
  <2> QED  BY <1>2, <1>3, <1>4, <1>6, <1>9, <2>2, <2>3 DEF nl, g, B
<1>10. CASE nl \notin B
  <2> DEFINE bits == {0} \cup Shifted(w, w.bits, n)
  <2>1. Moved(w, n) = [m EXCEPT !.last = n, !.bits = bits] /\ bits \in SUBSET B
    BY <1>5, <1>8, <1>10, Sizes
  <2> HIDE DEF B, bits
  <2>2. /\ Moved(w, n).last = n /\ Moved(w, n).bits = bits
        /\ Moved(w, n).age = m.age /\ Moved(w, n).valid = m.valid
    BY <1>6, <2>1 DEF Windows
  <2>3. Moved(w, n) \in Windows
    BY <1>6, <2>1 DEF Windows, B
  <2> QED  BY <1>2, <1>3, <1>4, <1>6, <1>10, <2>2, <2>3 DEF nl, g, B, bits
<1> QED  BY <1>9, <1>10

\* What number n, k back of the last, tells where the last lies from l: at e.
LEMMA Behindhand ==
  ASSUME NEW n \in Numbers, NEW l \in Numbers, NEW s \in Numbers, NEW k \in Nat, NEW d \in Int,
         Same(n, s - k), Same(d, l - n), -NumMod < 2 * (k - d), 2 * (k - d) < NumMod
  PROVE  Same(k - d, s - l)
BY Sizes DEF Numbers, Same

\* Seen from the other end.
LEMMA Mirrored ==
  ASSUME NEW n \in Numbers, NEW s \in Numbers, NEW k \in Nat, Same(n, s - k)
  PROVE  Same(k, s - n)
BY Sizes DEF Numbers, Same

\* Broadcasts at the same place are the same.
LEMMA SameBack ==
  ASSUME NEW a \in Int, NEW b \in Int, NEW m \in Int, NEW d \in Int, NEW e, NEW k, NEW x,
         k = m - b, e = k - d, x = (m - a) - e
  PROVE  x = d <=> a = b
<1>1. x = d + (b - a)
  OBVIOUS
<1>2. ASSUME x = d  PROVE a = b
  BY <1>1, <1>2
<1>3. ASSUME a = b  PROVE x = d
  BY <1>1, <1>3
<1> QED  BY <1>2, <1>3

\* A frame arrives: refused, put at its place in the window, or the window moves up to it.
LEMMA RxKeeps == ASSUME BcastIInv, NEW f \in onair, BcastRx(f)  PROVE BcastIInv'
<1> DEFINE n == f.num
           k == count - f.id
           nl == NewestLess(window, n)
           g == Ahead(window, n)
           B == 0 .. SeqWindow - 1
<1>1. SenderOK /\ ListenerOK /\ Numbered /\ InTurn /\ (~strayed => Follow)
  BY DEF BcastIInv
<1>2. /\ UNCHANGED sender /\ onair' = onair /\ UNCHANGED <<seq, count, boots, tried>>
      /\ strayed' = (strayed \/ Stray(f))
  BY DEF BcastRx, sender
<1>3. SenderOK' /\ Numbered' /\ InTurn' /\ \A c \in Current' : c \in Current
  BY <1>1, <1>2, SenderStays
<1>4. CASE ~Accepts(window, n)
  <2>1. UNCHANGED <<window, got, stale, follows, since>>
    BY <1>4 DEF BcastRx
  <2>2. ListenerOK'
    BY <1>1, <1>2, <2>1 DEF ListenerOK
  <2>3. (~strayed => Follow)'
    BY <1>2, <1>3, <2>1, StillFollows
  <2> QED  BY <1>3, <2>2, <2>3 DEF BcastIInv
<1>5. CASE Accepts(window, n)
  <2>1. /\ window' = Moved(window, n) /\ got' = got \cup {f.id}
        /\ stale' = IF window'.last = window.last THEN stale ELSE Shifted(window, stale, n)
        /\ follows' = IF follows = "newest" \/ window'.last = n THEN "newest" ELSE "some"
        /\ since' = IF Far(window, n) THEN 0 ELSE since
    BY <1>5 DEF BcastRx
  <2>2. f \in Current /\ f.id \in tried /\ f.id \in 1 .. count /\ n \in Numbers /\ Same(n, seq - k)
    BY <1>1 DEF Current, Numbered
  <2>3. /\ window \in Windows /\ window.last \in Numbers
        /\ window.bits \in SUBSET B /\ stale \subseteq window.bits
        /\ seq \in Numbers /\ count \in 0 .. MaxBcasts
    BY <1>1 DEF ListenerOK, Windows, SenderOK
  <2>4. k \in Nat /\ k <= count - 1
    BY <2>2, <2>3
  <2>5. nl \notin window.bits
    BY <1>5 DEF Accepts, Dup
  <2>6. /\ g \in Int /\ nl \in Int /\ (window.last = n <=> nl = 0) /\ (window.last # n => g # 0)
        /\ Same(nl, window.last - n)
        /\ \A bits \in SUBSET B : \A x :
              x \in Shifted(window, bits, n) <=> g >= 0 /\ \E b \in bits : b + g < SeqWindow /\ x = b + g
    BY <2>2, <2>3, MovedIs
  <2>7. /\ window' \in Windows
        /\ IF nl \in B THEN window'.last = window.last /\ window'.bits = window.bits \cup {nl}
           ELSE window'.last = n /\ window'.bits = {0} \cup Shifted(window, window.bits, n)
        /\ IF Far(window, n) THEN window'.age = 0 ELSE window'.valid = window.valid /\ window'.age = window.age
    <3> DEFINE w == Moved(window, n)
    <3>1. /\ w \in Windows
          /\ IF nl \in B THEN w.last = window.last /\ w.bits = window.bits \cup {nl}
             ELSE w.last = n /\ w.bits = {0} \cup Shifted(window, window.bits, n)
          /\ IF Far(window, n) THEN w.age = 0 ELSE w.valid = window.valid /\ w.age = window.age
      BY <2>2, <2>3, MovedIs
    <3>2. window' = w
      BY <2>1
    <3> HIDE DEF w, nl, B, n
    <3> QED  BY <3>1, <3>2, Zenon
  <2>8. follows' # "none" /\ follows' \in {"none", "some", "newest"}
    BY <2>1
  <2> HIDE DEF nl, g, B, k, n
  <2>9. nl \notin B => window'.last # window.last
    BY <2>6, <2>7, Sizes DEF B
  <2>10. ListenerOK'
    <3>1. stale' \subseteq window'.bits
      <4>1. CASE nl \in B
        BY <2>1, <2>3, <2>7, <4>1
      <4>2. CASE nl \notin B
        <5>1. stale' = Shifted(window, stale, n) /\ window'.bits = {0} \cup Shifted(window, window.bits, n)
          BY <2>1, <2>7, <2>9, <4>2
        <5>2. stale \in SUBSET B
          BY <2>3
        <5>3. ASSUME NEW x \in Shifted(window, stale, n)  PROVE x \in Shifted(window, window.bits, n)
          BY <2>3, <2>6, <5>2, <5>3
        <5> QED  BY <5>1, <5>3
      <4> QED  BY <4>1, <4>2
    <3>2. since' \in 0 .. RestartGap
      BY <1>1, <2>1, Sizes DEF ListenerOK
    <3>3. window'.valid /\ window'.age < RestartGap => since' = window'.age
      BY <1>1, <2>1, <2>7 DEF ListenerOK
    <3>4. got' \subseteq tried'
      BY <1>1, <1>2, <2>1, <2>2 DEF ListenerOK
    <3> QED  BY <2>7, <2>8, <3>1, <3>2, <3>3, <3>4 DEF ListenerOK
  <2>11. ASSUME ~strayed'  PROVE Follow'
    <3>1. ~strayed /\ Follow /\ ~Stray(f)
      BY <1>1, <1>2, <2>11
    <3>2. Bound' = Bound /\ Bound \in Int /\ Bound < MaxJump /\ count - 1 <= Bound
      BY <1>1, <1>2, BoundSmall DEF Bound
    <3>3. follows # "none" =>
            /\ Trail \in Int /\ nl = k - Trail /\ g = Trail - k /\ nl < SeqWindow
            /\ \A c \in Current : NewestLess(window, c.num) = (count - c.id) - Trail
      <4>1. CASE follows # "none"
        <5>1. /\ Trail \in Int
              /\ \A c \in Current : /\ NewestLess(window, c.num) = (count - c.id) - Trail
                                    /\ Ahead(window, c.num) = Trail - (count - c.id)
          BY <3>1, <4>1, Positions
        <5>2. nl = k - Trail /\ g = Trail - k
          BY <2>2, <5>1 DEF nl, g, k, n
        <5>3. nl < SeqWindow
          BY <2>6, <3>1, <4>1, Sizes DEF Stray, nl, n
        <5> QED  BY <5>1, <5>2, <5>3
      <4> QED  BY <4>1
    <3>4. \A c \in Current : c.id \in 1 .. count
      BY <1>1 DEF Numbered
    <3>5. follows = "none" => Fresh = {} /\ \A c \in Current : c.id \notin got
      BY <3>1 DEF Follow
    <3>6. CASE nl \in B
      <4> DEFINE e == k - nl
      <4>1. e \in Int /\ -SeqWindow < e /\ e <= Bound /\ -NumMod < 2 * e /\ 2 * e < NumMod /\ nl \in Nat
        BY <2>3, <2>4, <3>2, <3>6, Sizes DEF B
      <4>2. Same(e, seq - window.last)
        BY <2>2, <2>3, <2>4, <2>6, <4>1, Behindhand
      <4>3. e = k - nl
        OBVIOUS
      <4> HIDE DEF e
      <4>4. /\ Signed(seq - window.last, NumMod) = e
            /\ \A c \in Current : Signed(window.last - c.num, NumMod) = (count - c.id) - e
        BY <1>1, <2>3, <4>1, <4>2, At
      <4>5. window'.last = window.last /\ window'.bits = window.bits \cup {nl} /\ stale' = stale
        BY <2>1, <2>7, <3>6
      <4>6. Trail' = e /\ Trail = e
        BY <1>2, <4>4, <4>5 DEF Trail
      <4>7. Fresh' = Fresh \cup {nl}
        BY <2>3, <2>5, <4>5 DEF Fresh
      <4>8. \A c \in Current : /\ NewestLess(window, c.num)' = (count - c.id) - e
                               /\ NewestLess(window, c.num) = (count - c.id) - e
        BY <4>4, <4>5 DEF NewestLess
      <4>9. \A b \in Fresh' : Trail' + b \in 0 .. Bound'
        <5>1. \A b \in Fresh : e + b \in 0 .. Bound
          BY <3>1, <4>6 DEF Follow
        <5>2. e + nl \in 0 .. Bound
          BY <2>3, <2>4, <3>2, <4>1, <4>3
        <5> QED  BY <3>2, <4>6, <4>7, <5>1, <5>2
      <4>10. follows' = "newest" => 0 \in Fresh'
        <5>1. CASE follows = "newest"
          BY <3>1, <4>7, <5>1 DEF Follow
        <5>2. CASE window'.last = n
          BY <2>6, <4>5, <4>7, <5>2
        <5> QED  BY <2>1, <5>1, <5>2
      <4>11. ASSUME NEW c \in Current
             PROVE  /\ NewestLess(window, c.num)' \in Fresh' => c.id \in got'
                    /\ c.id \in got' => \/ NewestLess(window, c.num)' \in window'.bits
                                        \/ NewestLess(window, c.num)' >= SeqWindow
        <5> DEFINE x == NewestLess(window, c.num)
        <5>1. NewestLess(window, c.num)' = (count - c.id) - e /\ x = (count - c.id) - e
          BY <4>8
        <5>2. NewestLess(window, c.num)' = x
          BY <5>1
        <5>3. x = nl <=> c.id = f.id
          <6>1. f.id \in Int /\ c.id \in Int /\ count \in Int /\ k = count - f.id
            BY <2>2, <2>3, <3>4 DEF k
          <6>2. x = (count - c.id) - e
            BY <5>1
          <6>3. nl \in Int /\ e \in Int /\ e = k - nl
            BY <4>1, <4>3
          <6> HIDE DEF x
          <6> QED  BY <6>1, <6>2, <6>3, SameBack
        <5>4. x \in Fresh => c.id \in got
          BY <3>1, <3>5 DEF Follow
        <5>5. c.id \in got => x \in window.bits \/ x >= SeqWindow
          BY <3>1, <3>5 DEF Follow
        <5> HIDE DEF x
        <5> QED  BY <2>1, <4>5, <4>7, <5>2, <5>3, <5>4, <5>5
      <4> QED  BY <1>3, <2>8, <4>7, <4>9, <4>10, <4>11 DEF Follow
    <3>7. CASE nl \notin B
      <4>1. Same(k, seq - n)
        BY <2>2, <2>3, <2>4, Mirrored
      <4>2. /\ Signed(seq - n, NumMod) = k
            /\ \A c \in Current : Signed(n - c.num, NumMod) = (count - c.id) - k
        BY <1>1, <2>2, <2>3, <2>4, <3>2, <4>1, At, Sizes
      <4>3. /\ window'.last = n /\ window'.bits = {0} \cup Shifted(window, window.bits, n)
            /\ stale' = Shifted(window, stale, n) /\ g # 0
        BY <2>1, <2>6, <2>7, <2>9, <3>7
      <4>4. Trail' = k
        BY <1>2, <4>2, <4>3 DEF Trail
      <4>5. \A c \in Current : NewestLess(window, c.num)' = (count - c.id) - k
        BY <4>2, <4>3 DEF NewestLess
      <4>6. stale \in SUBSET B /\ window.bits \in SUBSET B /\ Fresh = window.bits \ stale
        BY <2>3 DEF Fresh
      <4>7. 0 \notin stale'
        <5> SUFFICES ASSUME 0 \in Shifted(window, stale, n)  PROVE FALSE
          BY <4>3
        <5>1. PICK b \in stale : g >= 0 /\ 0 = b + g
          BY <2>6, <4>6
        <5>2. b \in Nat
          BY <4>6, Sizes DEF B
        <5> QED  BY <2>6, <4>3, <5>1, <5>2
      <4>8. \A x \in Fresh' :
              \/ x = 0
              \/ follows # "none" /\ g >= 0 /\ \E b \in Fresh : b + g < SeqWindow /\ x = b + g
        <5> SUFFICES ASSUME NEW x \in Fresh', x # 0
                     PROVE  follows # "none" /\ g >= 0 /\ \E b \in Fresh : b + g < SeqWindow /\ x = b + g
          OBVIOUS
        <5>1. x \in Shifted(window, window.bits, n) /\ x \notin Shifted(window, stale, n)
          BY <4>3 DEF Fresh
        <5>2. PICK b \in window.bits : g >= 0 /\ b + g < SeqWindow /\ x = b + g
          BY <2>6, <4>6, <5>1
        <5>3. b \notin stale
          BY <2>6, <4>6, <5>1, <5>2
        <5> QED  BY <3>5, <4>6, <5>2, <5>3
      <4>9. 0 \in Fresh'
        BY <4>3, <4>7 DEF Fresh
      <4>10. \A x \in Fresh' : Trail' + x \in 0 .. Bound'
        <5> SUFFICES ASSUME NEW x \in Fresh'  PROVE k + x \in 0 .. Bound
          BY <3>2, <4>4
        <5>1. CASE x = 0
          BY <2>3, <2>4, <3>2, <5>1
        <5>2. CASE follows # "none" /\ \E b \in Fresh : b + g < SeqWindow /\ x = b + g
          <6>1. PICK b \in Fresh : x = b + g
            BY <5>2
          <6>2. Trail + b \in 0 .. Bound /\ b \in Int /\ Trail \in Int /\ g = Trail - k
            BY <3>1, <3>3, <4>6, <5>2, Sizes DEF Follow, B
          <6>3. k + x = Trail + b
            BY <2>4, <6>1, <6>2
          <6> QED  BY <6>2, <6>3
        <5> QED  BY <4>8, <5>1, <5>2
      <4>11. ASSUME NEW c \in Current
             PROVE  /\ NewestLess(window, c.num)' \in Fresh' => c.id \in got'
                    /\ c.id \in got' => \/ NewestLess(window, c.num)' \in window'.bits
                                        \/ NewestLess(window, c.num)' >= SeqWindow
        <5> DEFINE x == NewestLess(window, c.num)
                   y == (count - c.id) - k
        <5>1. NewestLess(window, c.num)' = y
          BY <4>5
        <5>2. y = 0 <=> c.id = f.id
          BY <2>2, <2>3, <3>4 DEF k
        <5>3. c.id \in Int /\ count \in Int /\ y = (count - c.id) - k
          BY <2>3, <3>4
        <5> HIDE DEF y
        <5>4. CASE c.id = f.id
          BY <2>1, <4>3, <5>1, <5>2, <5>4
        <5>5. CASE c.id # f.id /\ follows = "none"
          BY <2>1, <3>5, <4>8, <5>1, <5>2, <5>5
        <5>6. CASE c.id # f.id /\ follows # "none"
          <6>1. x = (count - c.id) - Trail /\ Trail \in Int /\ g = Trail - k /\ nl = k - Trail /\ nl < SeqWindow
            BY <3>3, <5>6
          <6>2. x \in Fresh => c.id \in got
            BY <3>1, <5>6 DEF Follow
          <6>3. c.id \in got => x \in window.bits \/ x >= SeqWindow
            BY <3>1, <5>6 DEF Follow
          <6> HIDE DEF x
          <6>4. y = x + g /\ x \in Int /\ g > 0
            BY <2>4, <2>6, <3>7, <5>3, <6>1, Sizes DEF B
          <6>5. y \in Fresh' => c.id \in got'
            <7>1. ASSUME y \in Fresh'  PROVE x \in Fresh
              <8>1. PICK b \in Fresh : y = b + g
                BY <4>8, <5>2, <5>6, <7>1
              <8>2. b \in Int
                BY <4>6, Sizes DEF B
              <8>3. b = x
                BY <2>6, <6>4, <8>1, <8>2
              <8> QED  BY <8>3
            <7> QED  BY <2>1, <6>2, <7>1
          <6>6. c.id \in got' => y \in window'.bits \/ y >= SeqWindow
            <7>1. ASSUME c.id \in got, ~(y >= SeqWindow)  PROVE y \in Shifted(window, window.bits, n)
              <8>1. x \in window.bits
                BY <2>6, <6>3, <6>4, <7>1, Sizes
              <8>2. x + g < SeqWindow
                BY <2>6, <6>4, <7>1, Sizes
              <8> QED  BY <2>6, <4>6, <6>4, <8>1, <8>2
            <7> QED  BY <2>1, <4>3, <5>6, <7>1
          <6> QED  BY <5>1, <6>5, <6>6
        <5> QED  BY <5>4, <5>5, <5>6
      <4> QED  BY <1>3, <2>8, <4>9, <4>10, <4>11 DEF Follow
    <3> QED  BY <3>6, <3>7
  <2> QED  BY <1>3, <2>10, <2>11 DEF BcastIInv
<1> QED  BY <1>4, <1>5

-----------------------------------------------------------------------------
LEMMA BcastStep == BcastIInv /\ [BcastNext]_bcvars => BcastIInv'
<1> SUFFICES ASSUME BcastIInv, [BcastNext]_bcvars  PROVE BcastIInv'
  OBVIOUS
<1>1. CASE Broadcast
  BY <1>1, BroadcastKeeps
<1>2. CASE BroadcastDropped
  BY <1>2, DroppedKeeps
<1>3. CASE NextCopyGoes
  BY <1>3, CopyKeeps
<1>4. CASE Spacing
  BY <1>4, SpacingKeeps
<1>5. CASE BootKept
  BY <1>5, KeptKeeps
<1>6. CASE BootDrawn
  BY <1>6, DrawnKeeps
<1>7. ASSUME NEW f \in onair, BcastRx(f)  PROVE BcastIInv'
  BY <1>7, RxKeeps
<1>8. ASSUME NEW f \in onair, LoseFrame(f)  PROVE BcastIInv'
  BY <1>8, LoseKeeps
<1>9. CASE BcastTick
  BY <1>9, TickKeeps
<1>10. CASE Forget
  BY <1>10, ForgetKeeps
<1>11. CASE UNCHANGED bcvars
  <2>1. /\ UNCHANGED <<sender, listener, onair>>
        /\ UNCHANGED <<seq, count, boots, tried, window, got, stale, follows, strayed>>
    BY <1>11 DEF bcvars, sender, listener
  <2>2. SenderOK' /\ Numbered' /\ InTurn' /\ \A c \in Current' : c \in Current
    BY <2>1, SenderStays DEF BcastIInv
  <2>3. ListenerOK'
    BY <2>1, ListenerStays DEF BcastIInv
  <2>4. (~strayed => Follow)'
    BY <2>1, <2>2, StillFollows
  <2> QED  BY <2>2, <2>3, <2>4 DEF BcastIInv
<1> QED  BY <1>1, <1>2, <1>3, <1>4, <1>5, <1>6, <1>7, <1>8, <1>9, <1>10, <1>11 DEF BcastNext

\* For any sizes of window, margin, slots and counters within the assumption: a broadcast given
\* a slot is handed out, in order; a listener takes it once, at once unless shut out, and a
\* restarted originator is never shut out longer than RestartGap (copies, slot_get, window).
THEOREM TakenOnceInTurn == BcastSpec => []BcastInv
<1>1. BcastInit => BcastIInv
  BY BcastStart
<1>2. BcastIInv /\ [BcastNext]_bcvars => BcastIInv'
  BY BcastStep
<1>3. BcastIInv => BcastInv
  BY BcastFollows
<1> QED  BY <1>1, <1>2, <1>3, PTL DEF BcastSpec

(***************************************************************************)
(* A peer's group key in the chip, for any number of keys, indexes, packet *)
(* numbers and frames read: what the chip holds at the AID is tracked or   *)
(* tainted, a frame is checked against its own key's counter and taken     *)
(* once, but for one a refused DISABLE_KEY let in, and what a restart took *)
(* stays owed until it is back.                                            *)
(***************************************************************************)
RecType   == {Nothing} \cup [key : Keys, idx : Idx]
FrameType == [key : Keys, pn : 1 .. MaxPn, left : BOOLEAN]

\* The types the run checks, and those it leaves out.
Typed ==
  /\ GtkTypeOK
  /\ rec \in RecType /\ call \in [kind : {"idle", "set", "restore"}, old : RecType]
  /\ rxq \in Seq(FrameType)

\* A put under way has a key to put, on a link that stays; a record is of the current key.
CallKept ==
  /\ ~Hosted => call.kind # "idle" /\ rec = Nothing /\ link # "none" /\ chain # 0
  /\ call.kind = "restore" => Paired
  /\ link = "none" => rec = Nothing
  /\ rec.key # 0 => rec.key = chain

\* The key the chip has, as far as the host tracks it, and what the AID a holds with taint t.
Tracked == IF Hosted THEN rec ELSE call.old
HeldAs(a, t, r) == \A i \in Idx : a[i] # 0 => i \in t \/ (r.key = a[i] /\ r.idx = i)
Held == HeldAs(at, taint, Tracked)

\* What is owed belongs to a link that can take it.
Owed ==
  /\ MissingIsOwed
  /\ "mtk" \in restore => Paired
  /\ "gtk" \in restore => Paired /\ chain # 0

\* The frames read since the key went in, the one it went in with still tracked, are its own.
Fenced ==
  Tracked.key # 0 => \A j \in 1 .. Len(rxq) : j > fence => rxq[j].left \/ rxq[j].key = Tracked.key

\* The replay counter of the current key covers every frame taken under it.
Covered == chain # 0 => rx >= last[chain]

KeyInv == Typed /\ CallKept /\ Held /\ Owed /\ Fenced /\ Covered

(***************************************************************************)
(* The chip's commands.                                                    *)
(***************************************************************************)
\* A record dropped leaves the AID with nothing that is not tainted.
LEMMA RecordDropped ==
  ASSUME NEW a \in [Idx -> 0 .. NKeys], NEW t \in SUBSET Idx, NEW r \in RecType, HeldAs(a, t, r),
         NEW c \in Drops(a, t, r)
  PROVE  c.at \in [Idx -> 0 .. NKeys] /\ c.taint \in SUBSET Idx /\ HeldAs(c.at, c.taint, Nothing)
<1>1. CASE r.key = 0
  <2>1. c = [at |-> a, taint |-> t]
    BY <1>1 DEF Drops
  <2>2. \A i \in Idx : a[i] # 0 => i \in t
    BY <1>1 DEF HeldAs
  <2> QED  BY <2>1, <2>2 DEF HeldAs
<1>2. CASE r.key # 0
  <2>1. r.idx \in Idx
    BY <1>2 DEF RecType, Nothing
  <2>2. c \in Disables(a, t, r.idx)
    BY <1>2 DEF Drops
  <2>3. CASE c = [at |-> [a EXCEPT ![r.idx] = 0], taint |-> t \ {r.idx}]
    <3>1. c.at = [a EXCEPT ![r.idx] = 0] /\ c.taint = t \ {r.idx}
      BY <2>3
    <3>2. c.at \in [Idx -> 0 .. NKeys]
      BY <2>1, <3>1, GtkAssumption
    <3>3. \A i \in Idx : c.at[i] = IF i = r.idx THEN 0 ELSE a[i]
      BY <2>1, <3>1
    <3> QED  BY <3>1, <3>2, <3>3 DEF HeldAs
  <2>4. CASE c = [at |-> a, taint |-> t \cup {r.idx}]
    BY <2>1, <2>4 DEF HeldAs
  <2> QED  BY <2>2, <2>3, <2>4 DEF Disables
<1> QED  BY <1>1, <1>2

\* The retries of tainted indexes do it no harm.
LEMMA Retried ==
  ASSUME Typed, NEW T \in SUBSET taint, NEW r, HeldAs(at, taint, r)
  PROVE  /\ Untainted(T).at \in [Idx -> 0 .. NKeys] /\ Untainted(T).taint \in SUBSET Idx
         /\ HeldAs(Untainted(T).at, Untainted(T).taint, r)
<1>1. /\ Untainted(T).at = [i \in Idx |-> IF i \in taint \ T THEN 0 ELSE at[i]]
      /\ Untainted(T).taint = T
  BY DEF Untainted
<1>2. at \in [Idx -> 0 .. NKeys] /\ taint \in SUBSET Idx /\ 0 \in 0 .. NKeys
  BY GtkAssumption DEF Typed, GtkTypeOK
<1>3. Untainted(T).at \in [Idx -> 0 .. NKeys]
  BY <1>1, <1>2
<1>4. HeldAs(Untainted(T).at, Untainted(T).taint, r)
  BY <1>1, <1>2 DEF HeldAs
<1> QED  BY <1>1, <1>2, <1>3, <1>4

\* The current key in at i, and the former record dropped.
LEMMA TakenIn ==
  ASSUME Typed, CallKept, Held, ~Hosted, NEW i \in Idx, PutIn(i)
  PROVE  /\ at' \in [Idx -> 0 .. NKeys] /\ taint' \in SUBSET Idx
         /\ HeldAs(at', taint', [key |-> chain, idx |-> i])
<1> DEFINE old == call.old
           new == [key |-> chain, idx |-> i]
           u(T) == Untainted(T)
<1>1. chain \in Keys /\ old \in RecType /\ HeldAs(at, taint, old)
  BY DEF Typed, CallKept, GtkTypeOK, Held, Tracked, Keys
<1>2. PICK T \in SUBSET taint :
        \E c \in IF old.key # 0 /\ old.idx = i
                 THEN {[at |-> [u(T).at EXCEPT ![i] = chain], taint |-> u(T).taint]}
                 ELSE Drops([u(T).at EXCEPT ![i] = chain], u(T).taint, old) :
          at' = c.at /\ taint' = c.taint
  BY DEF PutIn
<1> DEFINE a == [u(T).at EXCEPT ![i] = chain]
           t == u(T).taint
<1>3. u(T).at \in [Idx -> 0 .. NKeys] /\ t \in SUBSET Idx /\ HeldAs(u(T).at, t, old)
  BY <1>1, Retried
<1>4. chain \in 0 .. NKeys
  BY <1>1 DEF Keys
<1>5. a \in [Idx -> 0 .. NKeys] /\ \A j \in Idx : a[j] = IF j = i THEN chain ELSE u(T).at[j]
  BY <1>3, <1>4
<1> HIDE DEF u
<1>6. CASE old.key # 0 /\ old.idx = i
  <2>1. at' = a /\ taint' = t
    BY <1>2, <1>6
  <2>2. HeldAs(a, t, new)
    BY <1>3, <1>5, <1>6 DEF HeldAs
  <2> QED  BY <1>3, <1>5, <2>1, <2>2
<1>7. CASE ~(old.key # 0 /\ old.idx = i)
  <2>1. PICK c \in Drops(a, t, old) : at' = c.at /\ taint' = c.taint
    BY <1>2, <1>7
  <2>2. CASE old.key = 0
    <3>1. at' = a /\ taint' = t
      BY <2>1, <2>2 DEF Drops
    <3>2. HeldAs(a, t, new)
      BY <1>3, <1>5, <2>2 DEF HeldAs
    <3> QED  BY <1>3, <1>5, <3>1, <3>2
  <2>3. CASE old.key # 0
    <3>1. old.idx \in Idx /\ old.idx # i
      BY <1>1, <1>7, <2>3 DEF RecType, Nothing
    <3>2. c \in Disables(a, t, old.idx)
      BY <2>1, <2>3 DEF Drops
    <3>3. CASE c = [at |-> [a EXCEPT ![old.idx] = 0], taint |-> t \ {old.idx}]
      <4>1. at' = [a EXCEPT ![old.idx] = 0] /\ taint' = t \ {old.idx}
        BY <2>1, <3>3
      <4>2. at' \in [Idx -> 0 .. NKeys]
        BY <1>5, <3>1, <4>1, GtkAssumption
      <4>3. \A j \in Idx : at'[j] = IF j = old.idx THEN 0 ELSE a[j]
        BY <1>5, <3>1, <4>1
      <4>4. HeldAs(at', taint', new)
        BY <1>3, <1>5, <3>1, <4>1, <4>3 DEF HeldAs
      <4> QED  BY <1>3, <4>1, <4>2, <4>4
    <3>4. CASE c = [at |-> a, taint |-> t \cup {old.idx}]
      <4>1. at' = a /\ taint' = t \cup {old.idx}
        BY <2>1, <3>4
      <4>2. HeldAs(at', taint', new)
        BY <1>3, <1>5, <3>1, <4>1 DEF HeldAs
      <4> QED  BY <1>3, <1>5, <3>1, <4>1, <4>2
    <3> QED  BY <3>2, <3>3, <3>4 DEF Disables
  <2> QED  BY <2>2, <2>3
<1> QED  BY <1>6, <1>7

(***************************************************************************)
(* The steps.                                                              *)
(***************************************************************************)
\* What does not touch the key at the AID.
Chipside == <<link, chain, rx, rec, fence, taint, restore, call, at, mtk, rxq, last>>

LEMMA NothingTouched ==
  ASSUME KeyInv, UNCHANGED <<newest, Chipside>>, {mode, applied}' \subseteq {0, 1}
  PROVE  KeyInv'
BY DEF KeyInv, Typed, GtkTypeOK, CallKept, Held, HeldAs, Tracked, Owed, MissingIsOwed, Paired, Fenced,
       Covered, Hosted, Chipside

\* A frame read is the tracked key's or comes of a tainted index.
LEMMA FrameRead ==
  ASSUME KeyInv, NEW k \in Keys, NEW pn \in 1 .. MaxPn, Read(k, pn)
  PROVE  KeyInv'
<1> DEFINE left == \E i \in taint : at[i] = k
           f == [key |-> k, pn |-> pn, left |-> left]
<1>1. rxq' = Append(rxq, f) /\ rxq \in Seq(FrameType) /\ Len(rxq) < MaxQueue
  BY DEF Read, KeyInv, Typed
<1>2. f \in FrameType
  BY DEF FrameType
<1>3. /\ rxq' \in Seq(FrameType) /\ Len(rxq') = Len(rxq) + 1
      /\ \A j \in 1 .. Len(rxq) : rxq'[j] = rxq[j]
      /\ rxq'[Len(rxq) + 1] = f
  BY <1>1, <1>2
<1>4. UNCHANGED <<newest, linkvars, gtkvars, restore, mode, applied, call, at, mtk, last>>
  BY DEF Read
<1>5. Typed'
  BY <1>1, <1>3, <1>4, GtkAssumption DEF KeyInv, Typed, GtkTypeOK, linkvars, gtkvars
<1>6. CallKept' /\ Held' /\ Owed' /\ Covered'
  BY <1>4 DEF KeyInv, CallKept, Held, HeldAs, Tracked, Owed, MissingIsOwed, Paired, Covered, Hosted,
              linkvars, gtkvars
<1>7. Fenced'
  <2>1. Tracked' = Tracked /\ fence' = fence
    BY <1>4 DEF Tracked, Hosted, linkvars, gtkvars
  <2>2. Tracked.key # 0 => f.left \/ f.key = Tracked.key
    <3>1. PICK i \in Idx : at[i] = k
      BY DEF Read
    <3>2. k # 0
      BY DEF Keys
    <3>3. i \in taint \/ Tracked.key = k
      BY <3>1, <3>2 DEF KeyInv, Held, HeldAs
    <3>4. i \in taint => left
      BY <3>1
    <3> QED  BY <3>3, <3>4
  <2>3. ASSUME Tracked.key # 0, NEW j \in 1 .. Len(rxq'), j > fence
        PROVE  rxq'[j].left \/ rxq'[j].key = Tracked.key
    <3>1. CASE j \in 1 .. Len(rxq)
      BY <1>3, <2>3, <3>1 DEF KeyInv, Fenced
    <3>2. CASE j = Len(rxq) + 1
      BY <1>3, <2>2, <2>3, <3>2
    <3>3. Len(rxq) \in Nat
      BY <1>1
    <3> QED  BY <1>3, <2>3, <3>1, <3>2, <3>3
  <2> QED  BY <2>1, <2>3 DEF Fenced
<1> QED  BY <1>5, <1>6, <1>7 DEF KeyInv

\* The frame at the head goes, and the fence moves with it.
LEMMA FrameTaken == ASSUME KeyInv, Take  PROVE KeyInv'
<1> DEFINE f == Head(rxq)
<1>1. /\ rxq # <<>> /\ rxq' = Tail(rxq) /\ fence' = IF fence = 0 THEN 0 ELSE fence - 1
      /\ UNCHANGED <<newest, link, chain, rec, taint, restore, mode, applied, call, at, mtk>>
  BY DEF Take
<1>2. rxq \in Seq(FrameType) /\ fence \in 0 .. Len(rxq)
  BY DEF KeyInv, Typed, GtkTypeOK
<1>3. /\ f \in FrameType /\ rxq' \in Seq(FrameType) /\ Len(rxq') = Len(rxq) - 1
      /\ \A j \in 1 .. Len(rxq') : rxq'[j] = rxq[j + 1]
      /\ Len(rxq) \in Nat
  BY <1>1, <1>2
<1>4. f.key \in Keys /\ f.pn \in 0 .. MaxPn
  BY <1>3, GtkAssumption DEF FrameType
<1>5. \/ rx' = f.pn /\ f.pn > rx /\ last' = [last EXCEPT ![f.key] = f.pn]
      \/ UNCHANGED <<rx, last>>
  BY DEF Take
<1>6. rx' \in 0 .. MaxPn /\ last' \in [Keys -> 0 .. MaxPn]
  BY <1>4, <1>5 DEF KeyInv, Typed, GtkTypeOK
<1>7. Typed'
  <2>1. fence' \in 0 .. Len(rxq')
    BY <1>1, <1>2, <1>3
  <2>2. Len(rxq') <= MaxQueue
    BY <1>3, GtkAssumption DEF KeyInv, Typed, GtkTypeOK
  <2> QED  BY <1>1, <1>3, <1>6, <2>1, <2>2 DEF KeyInv, Typed, GtkTypeOK
<1>8. CallKept' /\ Held' /\ Owed'
  BY <1>1 DEF KeyInv, CallKept, Held, HeldAs, Tracked, Owed, MissingIsOwed, Paired, Hosted
<1>9. Fenced'
  <2>1. Tracked' = Tracked
    BY <1>1 DEF Tracked, Hosted
  <2>2. ASSUME Tracked.key # 0, NEW j \in 1 .. Len(rxq'), j > fence'
        PROVE  rxq'[j].left \/ rxq'[j].key = Tracked.key
    <3>1. j + 1 \in 1 .. Len(rxq) /\ j + 1 > fence
      BY <1>1, <1>2, <1>3, <2>2
    <3> QED  BY <1>3, <2>2, <3>1 DEF KeyInv, Fenced
  <2> QED  BY <2>1, <2>2 DEF Fenced
<1>10. Covered'
  <2>1. CASE UNCHANGED <<rx, last>>
    BY <1>1, <2>1 DEF KeyInv, Covered
  <2>2. CASE rx' = f.pn /\ f.pn > rx /\ last' = [last EXCEPT ![f.key] = f.pn]
    <3>1. \A k \in Keys : last'[k] = IF k = f.key THEN f.pn ELSE last[k]
      BY <1>4, <2>2 DEF KeyInv, Typed, GtkTypeOK
    <3>2. chain # 0 => chain \in Keys
      BY DEF KeyInv, Typed, GtkTypeOK, Keys
    <3>3. rx \in 0 .. MaxPn /\ last \in [Keys -> 0 .. MaxPn]
      BY DEF KeyInv, Typed, GtkTypeOK
    <3> QED  BY <1>1, <1>4, <2>2, <3>1, <3>2, <3>3 DEF KeyInv, Covered
  <2> QED  BY <1>5, <2>1, <2>2
<1> QED  BY <1>7, <1>8, <1>9, <1>10 DEF KeyInv

\* The loop between two calls tracks its record.
LEMMA AtRest == ASSUME KeyInv, Hosted
                PROVE  /\ call.kind = "idle" /\ call.old = Nothing /\ Tracked = rec
                       /\ HeldAs(at, taint, rec) /\ rec \in RecType
BY DEF KeyInv, Hosted, Idle, Tracked, Held, Typed

\* A put begun is not the loop at rest.
LEMMA PutBegun ==
  ASSUME NEW kind \in {"set", "restore"}, call' = [kind |-> kind, old |-> rec]
  PROVE  ~Hosted' /\ call'.kind = kind /\ call'.old = rec /\ Tracked' = rec
<1>1. call'.kind = kind /\ call'.old = rec
  OBVIOUS
<1>2. call' # Idle
  BY <1>1 DEF Idle
<1> QED  BY <1>1, <1>2 DEF Hosted, Tracked

\* A put that ends.
LEMMA PutEnded == ASSUME KeyInv, PutEnds  PROVE KeyInv'
<1>1. /\ ~Hosted /\ call' = Idle
      /\ UNCHANGED <<newest, linkvars, mode, applied, mtk, rxq, last>>
  BY DEF PutEnds
<1>2. Hosted' /\ call' \in [kind : {"idle", "set", "restore"}, old : RecType] /\ Tracked' = rec'
      /\ call'.kind = "idle"
  BY <1>1 DEF Hosted, Idle, RecType, Tracked
<1>3. chain \in Keys /\ link # "none" /\ rec = Nothing
  BY <1>1 DEF KeyInv, CallKept, Typed, GtkTypeOK, Keys
<1>4. restore' \subseteq restore \cup {"gtk"} /\ ("mtk" \in restore' <=> "mtk" \in restore)
      /\ (("gtk" \in restore' /\ "gtk" \notin restore) => call.kind = "restore")
  BY DEF PutEnds, PutIn, PutRefused
<1>5. Owed'
  BY <1>1, <1>3, <1>4 DEF KeyInv, Owed, MissingIsOwed, Paired, CallKept, linkvars
<1>6. Covered'
  BY <1>1 DEF KeyInv, Covered, linkvars
<1>7. /\ newest' \in Keys
      /\ link' \in {"none", "added", "half", "keyed"} /\ chain' \in 0 .. NKeys /\ rx' \in 0 .. MaxPn
      /\ restore' \subseteq {"sta", "mtk", "gtk"} /\ {mode, applied}' \subseteq {0, 1}
      /\ mtk' \in {"in", "out"}
      /\ Len(rxq') <= MaxQueue /\ last' \in [Keys -> 0 .. MaxPn] /\ rxq' \in Seq(FrameType)
      /\ Len(rxq') = Len(rxq) /\ fence \in 0 .. Len(rxq) /\ Len(rxq) \in Nat
  BY <1>1, <1>4 DEF KeyInv, Typed, GtkTypeOK, linkvars
<1>8. ASSUME NEW i \in Idx, PutIn(i)  PROVE KeyInv'
  <2>1. rec' = [key |-> chain, idx |-> i] /\ fence' = IF call.old.key = chain THEN fence ELSE Len(rxq)
    BY <1>8 DEF PutIn
  <2>2. at' \in [Idx -> 0 .. NKeys] /\ taint' \in SUBSET Idx /\ HeldAs(at', taint', rec')
    BY <1>1, <1>8, <2>1, TakenIn DEF KeyInv
  <2>3. rec' \in RecType /\ rec'.key = chain
    BY <1>3, <2>1 DEF RecType
  <2>4. fence' \in 0 .. Len(rxq')
    BY <1>7, <2>1
  <2>5. Typed'
    BY <1>2, <1>7, <2>2, <2>3, <2>4 DEF Typed, GtkTypeOK, RecType
  <2>6. CallKept'
    BY <1>1, <1>2, <1>3, <2>3 DEF CallKept, linkvars
  <2>7. Held'
    BY <1>2, <2>2 DEF Held, HeldAs
  <2>8. Fenced'
    <3>1. CASE call.old.key = chain
      <4>1. fence' = fence /\ Tracked'.key = Tracked.key /\ rxq' = rxq
        BY <1>1, <1>2, <2>1, <2>3, <3>1 DEF Tracked
      <4> QED  BY <4>1 DEF KeyInv, Fenced
    <3>2. CASE call.old.key # chain
      <4>1. fence' = Len(rxq')
        BY <1>7, <2>1, <3>2
      <4> QED  BY <1>7, <4>1 DEF Fenced
    <3> QED  BY <3>1, <3>2
  <2> QED  BY <1>5, <1>6, <2>5, <2>6, <2>7, <2>8 DEF KeyInv
<1>9. ASSUME PutRefused  PROVE KeyInv'
  <2>1. UNCHANGED <<rec, fence>>
    BY <1>9 DEF PutRefused
  <2>2. PICK T \in SUBSET taint :
          \E c \in Drops(Untainted(T).at, Untainted(T).taint, call.old) :
            at' = c.at /\ taint' = c.taint
    BY <1>9 DEF PutRefused
  <2>3. PICK c \in Drops(Untainted(T).at, Untainted(T).taint, call.old) :
          at' = c.at /\ taint' = c.taint
    BY <2>2
  <2>4. HeldAs(at, taint, call.old) /\ call.old \in RecType
    BY <1>1 DEF KeyInv, Held, Tracked, Typed
  <2>5. /\ Untainted(T).at \in [Idx -> 0 .. NKeys] /\ Untainted(T).taint \in SUBSET Idx
        /\ HeldAs(Untainted(T).at, Untainted(T).taint, call.old)
    BY <2>4, Retried DEF KeyInv
  <2>6. at' \in [Idx -> 0 .. NKeys] /\ taint' \in SUBSET Idx /\ HeldAs(at', taint', Nothing)
    BY <2>3, <2>4, <2>5, RecordDropped
  <2>7. rec' = Nothing /\ rec'.key = 0 /\ rec' \in RecType
    BY <1>3, <2>1 DEF Nothing, RecType
  <2>8. Typed'
    BY <1>2, <1>7, <2>1, <2>6, <2>7 DEF Typed, GtkTypeOK
  <2>9. CallKept' /\ Held' /\ Fenced'
    BY <1>2, <2>6, <2>7 DEF CallKept, Held, HeldAs, Fenced
  <2> QED  BY <1>5, <1>6, <2>8, <2>9 DEF KeyInv
<1> QED  BY <1>8, <1>9 DEF PutEnds

\* A record gone, with what the AID still holds tainted, on whatever link.
LEMMA RecordGone ==
  ASSUME KeyInv, Hosted, UNCHANGED <<call, fence, rxq>>, rec' = Nothing,
         at' \in [Idx -> 0 .. NKeys], taint' \in SUBSET Idx, HeldAs(at', taint', Nothing)
  PROVE  /\ CallKept' /\ Held' /\ Fenced'
         /\ rec' \in RecType /\ call' \in [kind : {"idle", "set", "restore"}, old : RecType]
         /\ rxq' \in Seq(FrameType) /\ fence' \in 0 .. Len(rxq') /\ Len(rxq') <= MaxQueue
<1>1. Hosted' /\ call'.kind = "idle" /\ Tracked' = Nothing
  BY DEF Hosted, Tracked, Idle
<1>2. rec'.key = 0 /\ Nothing.key = 0
  BY DEF Nothing
<1>3. CallKept' /\ Held' /\ Fenced'
  BY <1>1, <1>2 DEF CallKept, Held, HeldAs, Fenced
<1>4. /\ rec' \in RecType /\ call' \in [kind : {"idle", "set", "restore"}, old : RecType]
      /\ rxq' \in Seq(FrameType) /\ fence' \in 0 .. Len(rxq') /\ Len(rxq') <= MaxQueue
  BY DEF KeyInv, Typed, GtkTypeOK, RecType
<1> QED  BY <1>3, <1>4

\* The drop of the record on a call.
LEMMA DropEnds ==
  ASSUME KeyInv, Hosted, NEW c \in Drops(at, taint, rec), at' = c.at, taint' = c.taint
  PROVE  at' \in [Idx -> 0 .. NKeys] /\ taint' \in SUBSET Idx /\ HeldAs(at', taint', Nothing)
<1>1. rec \in RecType /\ HeldAs(at, taint, rec)
  BY AtRest
<1>2. at \in [Idx -> 0 .. NKeys] /\ taint \in SUBSET Idx
  BY DEF KeyInv, Typed, GtkTypeOK
<1> QED  BY <1>1, <1>2, RecordDropped

LEMMA PeerAdded == ASSUME KeyInv, AddPeer  PROVE KeyInv'
<1>1. /\ Hosted /\ link = "none" /\ link' = "added" /\ chain' = 0 /\ rx' = 0 /\ restore' = {}
      /\ rec' = Nothing
      /\ UNCHANGED <<newest, fence, taint, mode, applied, call, at, mtk, rxq, last>>
  BY DEF AddPeer
<1>2. rec = Nothing /\ HeldAs(at, taint, rec)
  BY <1>1, AtRest DEF KeyInv, CallKept
<1>3. at' \in [Idx -> 0 .. NKeys] /\ taint' \in SUBSET Idx /\ HeldAs(at', taint', Nothing)
  BY <1>1, <1>2 DEF KeyInv, Typed, GtkTypeOK
<1>4. /\ CallKept' /\ Held' /\ Fenced'
      /\ rec' \in RecType /\ call' \in [kind : {"idle", "set", "restore"}, old : RecType]
      /\ rxq' \in Seq(FrameType) /\ fence' \in 0 .. Len(rxq') /\ Len(rxq') <= MaxQueue
  BY <1>1, <1>3, RecordGone
<1>5. Typed'
  BY <1>1, <1>3, <1>4, GtkAssumption DEF KeyInv, Typed, GtkTypeOK
<1>6. Owed' /\ Covered'
  BY <1>1 DEF Owed, MissingIsOwed, Paired, Covered
<1> QED  BY <1>4, <1>5, <1>6 DEF KeyInv

LEMMA PeerDeleted == ASSUME KeyInv, DelPeer  PROVE KeyInv'
<1>1. /\ Hosted /\ link' = "none" /\ chain' = 0 /\ rx' = 0 /\ restore' = {}
      /\ mtk' = "out" /\ rec' = Nothing
      /\ UNCHANGED <<newest, fence, mode, applied, call, rxq, last>>
  BY DEF DelPeer
<1>2. PICK c \in Drops(at, taint, rec) : at' = c.at /\ taint' = c.taint
  BY DEF DelPeer
<1>3. at' \in [Idx -> 0 .. NKeys] /\ taint' \in SUBSET Idx /\ HeldAs(at', taint', Nothing)
  BY <1>1, <1>2, DropEnds
<1>4. /\ CallKept' /\ Held' /\ Fenced'
      /\ rec' \in RecType /\ call' \in [kind : {"idle", "set", "restore"}, old : RecType]
      /\ rxq' \in Seq(FrameType) /\ fence' \in 0 .. Len(rxq') /\ Len(rxq') <= MaxQueue
  BY <1>1, <1>3, RecordGone
<1>5. Typed'
  BY <1>1, <1>3, <1>4, GtkAssumption DEF KeyInv, Typed, GtkTypeOK
<1>6. Owed' /\ Covered'
  BY <1>1 DEF Owed, MissingIsOwed, Paired, Covered
<1> QED  BY <1>4, <1>5, <1>6 DEF KeyInv

\* A put begun: the record is out, and what the chip has of it remembered.
LEMMA PutStarts ==
  ASSUME KeyInv, Hosted, NEW kind \in {"set", "restore"}, NEW old \in RecType,
         HeldAs(at', taint', old), at' \in [Idx -> 0 .. NKeys], taint' \in SUBSET Idx,
         call' = [kind |-> kind, old |-> old], rec' = Nothing, link' # "none", chain' # 0,
         kind = "restore" => Paired',
         UNCHANGED rxq,
         (old = rec /\ UNCHANGED fence) \/ (old = Nothing /\ fence' = 0)
  PROVE  /\ CallKept' /\ Held' /\ Fenced'
         /\ rec' \in RecType /\ call' \in [kind : {"idle", "set", "restore"}, old : RecType]
         /\ rxq' \in Seq(FrameType) /\ fence' \in 0 .. Len(rxq') /\ Len(rxq') <= MaxQueue
<1>1. call'.kind = kind /\ call'.old = old
  OBVIOUS
<1>2. call' # Idle
  BY <1>1 DEF Idle
<1>3. ~Hosted' /\ Tracked' = old
  BY <1>1, <1>2 DEF Hosted, Tracked
<1>4. Nothing.key = 0
  BY DEF Nothing
<1>5. CallKept'
  BY <1>1, <1>3, <1>4 DEF CallKept
<1>6. Held'
  BY <1>3 DEF Held, HeldAs
<1>7. Fenced'
  <2>1. CASE old = rec /\ UNCHANGED fence
    BY <1>3, <2>1, AtRest DEF KeyInv, Fenced
  <2>2. CASE old = Nothing
    BY <1>3, <1>4, <2>2 DEF Fenced
  <2> QED  BY <2>1, <2>2
<1>8. /\ rec' \in RecType /\ call' \in [kind : {"idle", "set", "restore"}, old : RecType]
      /\ rxq' \in Seq(FrameType) /\ Len(rxq') <= MaxQueue
  BY DEF KeyInv, Typed, GtkTypeOK, RecType
<1>9. fence' \in 0 .. Len(rxq')
  <2>1. Len(rxq) \in Nat /\ fence \in 0 .. Len(rxq)
    BY DEF KeyInv, Typed, GtkTypeOK
  <2> QED  BY <2>1
<1> QED  BY <1>5, <1>6, <1>7, <1>8, <1>9

LEMMA MtkSet == ASSUME KeyInv, SetMtk  PROVE KeyInv'
<1>1. /\ Hosted /\ link # "none"
      /\ UNCHANGED <<newest, chain, rx, rec, fence, taint, restore, mode, applied, call, at, rxq, last>>
      /\ \/ link' = "keyed" /\ mtk' = "in"
         \/ link' = (IF link = "added" THEN "half" ELSE link) /\ mtk' = mtk
  BY DEF SetMtk, gtkvars
<1>2. /\ link' \in {"none", "added", "half", "keyed"} /\ link' # "none" /\ mtk' \in {"in", "out"}
      /\ (Paired => Paired') /\ (link' = "keyed" /\ mtk' = "out" => link = "keyed" /\ mtk = "out")
  BY <1>1 DEF KeyInv, Typed, GtkTypeOK, Paired
<1>3. Typed'
  BY <1>1, <1>2 DEF KeyInv, Typed, GtkTypeOK
<1>4. CallKept' /\ Held' /\ Fenced' /\ Covered'
  BY <1>1, <1>2 DEF KeyInv, CallKept, Held, HeldAs, Tracked, Fenced, Covered, Hosted
<1>5. Owed'
  BY <1>1, <1>2 DEF KeyInv, Owed, MissingIsOwed
<1> QED  BY <1>3, <1>4, <1>5 DEF KeyInv

\* A key told: the counter that goes with it covers what was taken under it.
LEMMA FloorCovers ==
  ASSUME KeyInv, NEW t \in Told, chain' = t.key, rx' = Floor(t), UNCHANGED last
  PROVE  Covered' /\ rx' \in 0 .. MaxPn /\ chain' \in Keys /\ newest <= t.key
<1>1. /\ t.key \in newest .. NKeys /\ t.rsc \in 0 .. MaxPn
      /\ t.key = chain \/ t.rsc >= last[t.key]
  BY DEF Told
<1>2. newest \in 1 .. NKeys /\ NKeys \in Nat /\ MaxPn \in Nat /\ rx \in 0 .. MaxPn
  BY GtkAssumption DEF KeyInv, Typed, GtkTypeOK, Keys
<1>3. t.key \in 1 .. NKeys
  BY <1>1, <1>2
<1>4. last[t.key] \in 0 .. MaxPn
  BY <1>3 DEF KeyInv, Typed, GtkTypeOK, Keys
<1>5. rx' \in 0 .. MaxPn /\ rx' >= last[t.key]
  <2>1. CASE t.key = chain
    <3>1. rx >= last[t.key]
      BY <1>3, <2>1 DEF KeyInv, Covered
    <3>2. Floor(t) = IF rx > t.rsc THEN rx ELSE t.rsc
      BY <2>1 DEF Floor
    <3>3. ASSUME NEW v, v = Floor(t) PROVE v \in 0 .. MaxPn /\ v >= last[t.key]
      BY <1>1, <1>2, <1>4, <3>1, <3>2, <3>3
    <3> QED  BY <3>3
  <2>2. CASE t.key # chain
    BY <1>1, <2>2 DEF Floor
  <2> QED  BY <2>1, <2>2
<1>6. chain' \in Keys /\ newest <= t.key
  BY <1>1, <1>2, <1>3 DEF Keys
<1>7. Covered'
  BY <1>5 DEF Covered
<1> QED  BY <1>5, <1>6, <1>7

LEMMA GtkSet == ASSUME KeyInv, SetGtk  PROVE KeyInv'
<1>1. /\ Hosted /\ link # "none"
      /\ UNCHANGED <<link, fence, restore, mode, applied, mtk, rxq, last>>
  BY DEF SetGtk
<1>2. PICK t \in Told : newest' = t.key /\ chain' = t.key /\ rx' = Floor(t)
  BY DEF SetGtk
<1>3. Covered' /\ rx' \in 0 .. MaxPn /\ chain' \in Keys /\ newest' \in Keys /\ chain' # 0
  <2>1. Covered' /\ rx' \in 0 .. MaxPn /\ chain' \in Keys
    BY <1>1, <1>2, FloorCovers
  <2> QED  BY <1>2, <2>1 DEF Keys
<1>4. Owed'
  BY <1>1, <1>3 DEF KeyInv, Owed, MissingIsOwed, Paired
<1>5. at \in [Idx -> 0 .. NKeys] /\ taint \in SUBSET Idx
  BY DEF KeyInv, Typed, GtkTypeOK
<1>6. /\ CallKept' /\ Held' /\ Fenced'
      /\ rec' \in RecType /\ call' \in [kind : {"idle", "set", "restore"}, old : RecType]
      /\ rxq' \in Seq(FrameType) /\ fence' \in 0 .. Len(rxq') /\ Len(rxq') <= MaxQueue
      /\ at' \in [Idx -> 0 .. NKeys] /\ taint' \in SUBSET Idx
  <2>1. CASE Wanted
    <3>1. call' = [kind |-> "set", old |-> rec] /\ rec' = Nothing /\ UNCHANGED <<at, taint>>
      BY <2>1 DEF SetGtk, Put
    <3>2. rec \in RecType /\ HeldAs(at', taint', rec)
      BY <1>1, <3>1, AtRest
    <3> QED  BY <1>1, <1>3, <1>5, <3>1, <3>2, PutStarts
  <2>2. CASE ~Wanted
    <3>1. rec' = Nothing /\ call' = call
      BY <2>2 DEF SetGtk
    <3>2. PICK c \in Drops(at, taint, rec) : at' = c.at /\ taint' = c.taint
      BY <2>2 DEF SetGtk
    <3>3. at' \in [Idx -> 0 .. NKeys] /\ taint' \in SUBSET Idx /\ HeldAs(at', taint', Nothing)
      BY <1>1, <3>2, DropEnds
    <3> QED  BY <1>1, <3>1, <3>3, RecordGone
  <2> QED  BY <2>1, <2>2
<1>7. Typed'
  BY <1>1, <1>3, <1>6 DEF KeyInv, Typed, GtkTypeOK, RecType, Keys
<1> QED  BY <1>3, <1>4, <1>6, <1>7 DEF KeyInv

\* mesh_peer_gtk_restore_, on a link that stays as it is.
LEMMA PutsKeep ==
  ASSUME KeyInv, Hosted, link # "none", NEW kind \in {"set", "restore"}, kind = "restore" => Paired,
         Puts(kind), UNCHANGED <<link, chain, fence, taint, at, rxq>>
  PROVE  /\ CallKept' /\ Held' /\ Fenced'
         /\ rec' \in RecType /\ call' \in [kind : {"idle", "set", "restore"}, old : RecType]
         /\ rxq' \in Seq(FrameType) /\ fence' \in 0 .. Len(rxq') /\ Len(rxq') <= MaxQueue
<1>1. at \in [Idx -> 0 .. NKeys] /\ taint \in SUBSET Idx /\ (Paired => Paired')
  BY DEF KeyInv, Typed, GtkTypeOK, Paired
<1>2. CASE chain # 0 /\ Wanted
  <2>1. call' = [kind |-> kind, old |-> rec] /\ rec' = Nothing
    BY <1>2 DEF Puts, Put
  <2>2. rec \in RecType /\ HeldAs(at', taint', rec)
    BY AtRest
  <2> QED  BY <1>1, <1>2, <2>1, <2>2, PutStarts
<1>3. CASE ~(chain # 0 /\ Wanted)
  <2>1. UNCHANGED <<call, rec>>
    BY <1>3 DEF Puts
  <2> QED  BY <2>1 DEF KeyInv, CallKept, Paired, Held, HeldAs, Tracked, Fenced, Hosted, Typed,
                       GtkTypeOK
<1> QED  BY <1>2, <1>3

LEMMA KeyPutBack == ASSUME KeyInv, PutBack  PROVE KeyInv'
<1>1. /\ Hosted /\ Paired /\ link # "none" /\ mtk' \in {mtk, "in"} /\ Puts("set")
      /\ UNCHANGED <<newest, link, chain, rx, fence, taint, restore, mode, applied, at, rxq, last>>
  BY DEF PutBack, linkvars, Paired
<1>2. UNCHANGED <<link, chain, fence, taint, at, rxq>>
  BY <1>1
<1>3. /\ CallKept' /\ Held' /\ Fenced'
      /\ rec' \in RecType /\ call' \in [kind : {"idle", "set", "restore"}, old : RecType]
      /\ rxq' \in Seq(FrameType) /\ fence' \in 0 .. Len(rxq') /\ Len(rxq') <= MaxQueue
  BY <1>1, <1>2, PutsKeep
<1>4. Typed'
  BY <1>1, <1>3 DEF KeyInv, Typed, GtkTypeOK, RecType
<1>5. Owed' /\ Covered'
  BY <1>1 DEF KeyInv, Typed, GtkTypeOK, Owed, MissingIsOwed, Paired, Covered
<1> QED  BY <1>3, <1>4, <1>5 DEF KeyInv

LEMMA ChipRestarted == ASSUME KeyInv, Restart  PROVE KeyInv'
<1>1. /\ Hosted /\ at' = [i \in Idx |-> 0] /\ taint' = {} /\ fence' = 0 /\ applied' = mode /\ rec' = Nothing
      /\ UNCHANGED <<newest, link, chain, rx, mode, rxq, last>>
      /\ call' = IF Paired /\ chain # 0 /\ Wanted THEN [kind |-> "restore", old |-> Nothing] ELSE call
  BY DEF Restart, linkvars
<1>2. PICK refused \in SUBSET {"sta", "mtk"} :
        /\ restore' = IF link = "none" THEN {} ELSE IF Paired THEN refused ELSE refused \ {"mtk"}
        /\ mtk' = IF Paired /\ "mtk" \notin refused THEN "in" ELSE "out"
  BY DEF Restart
<1>3. at' \in [Idx -> 0 .. NKeys] /\ taint' \in SUBSET Idx
  BY <1>1, GtkAssumption
<1>4. HeldAs(at', taint', Nothing)
  BY <1>1 DEF HeldAs
<1>5. /\ CallKept' /\ Held' /\ Fenced'
      /\ rec' \in RecType /\ call' \in [kind : {"idle", "set", "restore"}, old : RecType]
      /\ rxq' \in Seq(FrameType) /\ fence' \in 0 .. Len(rxq') /\ Len(rxq') <= MaxQueue
  <2>1. CASE Paired /\ chain # 0 /\ Wanted
    <3>1. Paired' /\ link' # "none" /\ chain' # 0 /\ Nothing \in RecType
      BY <1>1, <2>1 DEF Paired, RecType
    <3>2. call' = [kind |-> "restore", old |-> Nothing]
      BY <1>1, <2>1
    <3> QED  BY <1>1, <1>3, <1>4, <3>1, <3>2, PutStarts
  <2>2. CASE ~(Paired /\ chain # 0 /\ Wanted)
    <3>1. Hosted' /\ call'.kind = "idle" /\ Tracked' = Nothing /\ Nothing.key = 0
      BY <1>1, <2>2 DEF Hosted, Tracked, Idle, Nothing
    <3>2. CallKept' /\ Held' /\ Fenced'
      BY <1>1, <1>4, <3>1 DEF CallKept, Held, HeldAs, Fenced
    <3>3. Len(rxq) \in Nat
      BY DEF KeyInv, Typed
    <3>4. /\ rec' \in RecType /\ call' \in [kind : {"idle", "set", "restore"}, old : RecType]
          /\ rxq' \in Seq(FrameType) /\ fence' \in 0 .. Len(rxq') /\ Len(rxq') <= MaxQueue
      BY <1>1, <2>2, <3>3 DEF KeyInv, Typed, GtkTypeOK, RecType
    <3> QED  BY <3>2, <3>4
  <2> QED  BY <2>1, <2>2
<1>6. restore' \subseteq {"sta", "mtk"} /\ mtk' \in {"in", "out"} /\ {mode, applied}' \subseteq {0, 1}
  BY <1>1, <1>2 DEF KeyInv, Typed, GtkTypeOK
<1>7. Typed'
  BY <1>1, <1>3, <1>5, <1>6 DEF KeyInv, Typed, GtkTypeOK, RecType
<1>8. Owed'
  BY <1>1, <1>2 DEF Owed, MissingIsOwed, Paired
<1>9. Covered'
  BY <1>1 DEF KeyInv, Covered
<1> QED  BY <1>5, <1>7, <1>8, <1>9 DEF KeyInv

LEMMA RestoreServiced == ASSUME KeyInv, ServiceRestore  PROVE KeyInv'
<1>1. /\ Hosted /\ link # "none"
      /\ UNCHANGED <<newest, link, chain, rx, fence, taint, mode, applied, at, rxq, last>>
  BY DEF ServiceRestore, linkvars
<1>2. PICK refused \in SUBSET (restore \cap {"sta", "mtk"}) :
        /\ mtk' = IF "mtk" \in restore \ refused /\ Paired THEN "in" ELSE mtk
        /\ IF "gtk" \in restore /\ Paired /\ chain # 0 /\ Wanted
           THEN restore' = refused \cup {"gtk"} /\ Put("restore")
           ELSE restore' = refused /\ UNCHANGED <<call, rec>>
  BY DEF ServiceRestore
<1>3. UNCHANGED <<link, chain, fence, taint, at, rxq>>
  BY <1>1
<1>4. at \in [Idx -> 0 .. NKeys] /\ taint \in SUBSET Idx
  BY DEF KeyInv, Typed, GtkTypeOK
<1>5. /\ CallKept' /\ Held' /\ Fenced'
      /\ rec' \in RecType /\ call' \in [kind : {"idle", "set", "restore"}, old : RecType]
      /\ rxq' \in Seq(FrameType) /\ fence' \in 0 .. Len(rxq') /\ Len(rxq') <= MaxQueue
  <2>1. CASE "gtk" \in restore /\ Paired /\ chain # 0 /\ Wanted
    <3>1. Puts("restore")
      BY <1>2, <2>1 DEF Puts
    <3> QED  BY <1>1, <1>3, <2>1, <3>1, PutsKeep
  <2>2. CASE ~("gtk" \in restore /\ Paired /\ chain # 0 /\ Wanted)
    <3>1. UNCHANGED <<call, rec>>
      BY <1>2, <2>2
    <3> QED  BY <1>3, <3>1 DEF KeyInv, CallKept, Paired, Held, HeldAs, Tracked, Fenced, Hosted,
                                Typed, GtkTypeOK
  <2> QED  BY <2>1, <2>2
<1>6. /\ restore' \subseteq restore /\ mtk' \in {"in", "out"}
      /\ "mtk" \in restore /\ "mtk" \notin restore' /\ Paired => mtk' = "in"
      /\ mtk' = mtk \/ mtk' = "in"
  BY <1>2 DEF KeyInv, Typed, GtkTypeOK
<1>7. Typed'
  BY <1>1, <1>4, <1>5, <1>6 DEF KeyInv, Typed, GtkTypeOK, RecType
<1>8. Owed'
  BY <1>1, <1>6 DEF KeyInv, Owed, MissingIsOwed, Paired
<1>9. Covered'
  BY <1>1 DEF KeyInv, Covered
<1> QED  BY <1>5, <1>7, <1>8, <1>9 DEF KeyInv

LEMMA ModeReached == ASSUME KeyInv, ModeApplied  PROVE KeyInv'
<1>1. /\ Hosted /\ applied' = mode
      /\ UNCHANGED <<newest, link, chain, rx, fence, restore, mode, mtk, rxq, last>>
  BY DEF ModeApplied, linkvars
<1>2. at \in [Idx -> 0 .. NKeys] /\ taint \in SUBSET Idx
  BY DEF KeyInv, Typed, GtkTypeOK
<1>3. /\ CallKept' /\ Held' /\ Fenced'
      /\ rec' \in RecType /\ call' \in [kind : {"idle", "set", "restore"}, old : RecType]
      /\ rxq' \in Seq(FrameType) /\ fence' \in 0 .. Len(rxq') /\ Len(rxq') <= MaxQueue
      /\ at' \in [Idx -> 0 .. NKeys] /\ taint' \in SUBSET Idx
  <2>1. CASE link = "none"
    <3>1. UNCHANGED <<call, rec, at, taint>>
      BY <2>1 DEF ModeApplied
    <3> QED  BY <1>1, <1>2, <3>1 DEF KeyInv, CallKept, Paired, Held, HeldAs, Tracked, Fenced, Hosted,
                                     Typed, GtkTypeOK
  <2>2. CASE link # "none" /\ mode = 0
    <3>1. rec' = Nothing /\ call' = call
      BY <2>2 DEF ModeApplied
    <3>2. PICK c \in Drops(at, taint, rec) : at' = c.at /\ taint' = c.taint
      BY <2>2 DEF ModeApplied
    <3>3. at' \in [Idx -> 0 .. NKeys] /\ taint' \in SUBSET Idx /\ HeldAs(at', taint', Nothing)
      BY <1>1, <3>2, DropEnds
    <3> QED  BY <1>1, <3>1, <3>3, RecordGone
  <2>3. CASE link # "none" /\ mode # 0
    <3>1. Puts("set") /\ UNCHANGED <<link, chain, fence, taint, at, rxq>>
      BY <1>1, <2>3 DEF ModeApplied
    <3> QED  BY <1>1, <1>2, <2>3, <3>1, PutsKeep
  <2> QED  BY <2>1, <2>2, <2>3
<1>4. Typed'
  BY <1>1, <1>3 DEF KeyInv, Typed, GtkTypeOK, RecType
<1>5. Owed' /\ Covered'
  BY <1>1 DEF KeyInv, Owed, MissingIsOwed, Paired, Covered
<1> QED  BY <1>3, <1>4, <1>5 DEF KeyInv

LEMMA KeyInit == GtkInit => KeyInv
<1> SUFFICES ASSUME GtkInit PROVE KeyInv
  OBVIOUS
<1>1. Hosted /\ Tracked = Nothing /\ Nothing.key = 0 /\ call.kind = "idle"
  BY DEF GtkInit, Hosted, Tracked, Idle, Nothing
<1>2. /\ newest \in Keys /\ at \in [Idx -> 0 .. NKeys] /\ last \in [Keys -> 0 .. MaxPn]
      /\ rxq \in Seq(FrameType) /\ Len(rxq) = 0
  BY GtkAssumption DEF GtkInit, Keys
<1>3. Typed
  BY <1>2, GtkAssumption DEF GtkInit, Typed, GtkTypeOK, RecType, Idle
<1>4. CallKept /\ Held /\ Owed /\ Fenced /\ Covered
  BY <1>1 DEF GtkInit, CallKept, Held, HeldAs, Owed, MissingIsOwed, Paired, Fenced, Covered
<1> QED  BY <1>3, <1>4 DEF KeyInv

LEMMA KeyStep == KeyInv /\ [GtkNext]_vars => KeyInv'
<1> SUFFICES ASSUME KeyInv, [GtkNext]_vars PROVE KeyInv'
  OBVIOUS
<1>1. {mode, applied} \subseteq {0, 1}
  BY DEF KeyInv, Typed, GtkTypeOK
<1>2. CASE \E k \in Keys, pn \in 1 .. MaxPn : Read(k, pn)
  BY <1>2, FrameRead
<1>3. CASE Take
  BY <1>3, FrameTaken
<1>4. CASE PutEnds
  BY <1>4, PutEnded
<1>5. CASE AddPeer \/ DelPeer
  BY <1>5, PeerAdded, PeerDeleted
<1>6. CASE SetMtk
  BY <1>6, MtkSet
<1>7. CASE SetGtk
  BY <1>7, GtkSet
<1>8. CASE PutBack
  BY <1>8, KeyPutBack
<1>9. CASE Restart
  BY <1>9, ChipRestarted
<1>10. CASE ServiceRestore
  BY <1>10, RestoreServiced
<1>11. CASE ModeApplied
  BY <1>11, ModeReached
<1>12. CASE SetMode
  <2>1. UNCHANGED <<newest, Chipside>>
    BY <1>12 DEF SetMode, Chipside, linkvars, gtkvars
  <2>2. {mode, applied}' \subseteq {0, 1}
    BY <1>1, <1>12 DEF SetMode
  <2> QED  BY <2>1, <2>2, NothingTouched
<1>13. CASE UNCHANGED vars
  <2>1. UNCHANGED <<newest, Chipside>> /\ {mode, applied}' \subseteq {0, 1}
    BY <1>1, <1>13 DEF vars, Chipside, linkvars, gtkvars
  <2> QED  BY <2>1, NothingTouched
<1> QED  BY <1>2, <1>3, <1>4, <1>5, <1>6, <1>7, <1>8, <1>9, <1>10, <1>11, <1>12, <1>13 DEF GtkNext

LEMMA KeyAlways == GtkSpec => []KeyInv
BY KeyInit, KeyStep, PTL DEF GtkSpec

\* What the chip still holds at a peer's AID is the key the host tracks there or its index is
\* tainted, and a link whose own key (the MTK) a restart left out of the chip is owed it
\* (mesh_peer_gtk_put_, umac_datapath_mesh_chip_restored).
THEOREM TrackedOrTainted == GtkSpec => []GtkInv
<1>1. KeyInv => GtkInv
  BY DEF KeyInv, Typed, Held, HeldAs, Tracked, Owed, GtkInv, HeldOrTainted
<1> QED  BY <1>1, KeyAlways, PTL

\* A frame taken: the record is the current key's, nothing is tainted and no fence stands.
LEMMA TakenFrame ==
  ASSUME KeyInv, Take, rx' # rx
  PROVE  /\ Head(rxq).key = chain \/ Leftover
         /\ Head(rxq).pn > last[Head(rxq).key] \/ Leftover
<1> DEFINE f == Head(rxq)
<1>1. Hosted /\ rxq # <<>> /\ Opened /\ f.pn > rx
  BY DEF Take
<1>2. rec.key # 0 /\ rec.key = chain /\ taint = {} /\ fence = 0 /\ Tracked = rec
  BY <1>1, AtRest DEF Opened, KeyInv, CallKept
<1>3. rxq \in Seq(FrameType)
  BY DEF KeyInv, Typed
<1>4. f = rxq[1] /\ 1 \in 1 .. Len(rxq) /\ f \in FrameType
  BY <1>1, <1>3
<1>5. f.left \/ f.key = chain
  BY <1>2, <1>4 DEF KeyInv, Fenced
<1>6. f.left => Leftover
  BY <1>2 DEF Leftover
<1>7. f.key = chain => f.pn > last[f.key]
  <2>1. chain \in Keys /\ rx >= last[chain]
    BY <1>2 DEF KeyInv, Covered, Typed, GtkTypeOK, Keys
  <2>2. last[chain] \in 0 .. MaxPn /\ rx \in 0 .. MaxPn /\ f.pn \in 1 .. MaxPn
    BY <1>4, <2>1 DEF KeyInv, Typed, GtkTypeOK, FrameType
  <2> QED  BY <1>1, <2>1, <2>2
<1> QED  BY <1>5, <1>6, <1>7

\* A group frame is checked against its own key's counter, but for one read under a leftover
\* key (umac_datapath_mesh_peer_gtk_opened).
THEOREM OwnCounter == GtkSpec => FencedOrTainted
<1>1. KeyInv /\ [GtkNext]_vars => [Take /\ rx' # rx => Head(rxq).key = chain \/ Leftover]_vars
  BY TakenFrame
<1> QED  BY <1>1, KeyAlways, PTL DEF GtkSpec, FencedOrTainted

\* None but those is taken twice, however often its key is put again (set_peer_key).
THEOREM OnlyLeftoversTwice == GtkSpec => TakenOnce
<1>1. KeyInv /\ [GtkNext]_vars
        => [Take /\ rx' # rx => Head(rxq).pn > last[Head(rxq).key] \/ Leftover]_vars
  BY TakenFrame
<1> QED  BY <1>1, KeyAlways, PTL DEF GtkSpec, TakenOnce

NoLeftover == \A i \in 1 .. Len(rxq) : ~rxq[i].left

\* With nothing tainted no frame is read under a leftover key.
LEMMA NoLeftoverRead ==
  ASSUME KeyInv, NoLeftover, taint = {}, [GtkNext]_vars
  PROVE  NoLeftover'
<1>1. rxq \in Seq(FrameType)
  BY DEF KeyInv, Typed
<1>2. ASSUME NEW k \in Keys, NEW pn \in 1 .. MaxPn, Read(k, pn)  PROVE NoLeftover'
  <2> DEFINE f == [key |-> k, pn |-> pn, left |-> \E i \in taint : at[i] = k]
  <2>1. rxq' = Append(rxq, f) /\ ~f.left /\ f \in FrameType
    BY <1>2 DEF Read, FrameType
  <2> HIDE DEF f
  <2> QED  BY <1>1, <2>1 DEF NoLeftover
<1>3. CASE Take
  <2>1. rxq # <<>> /\ rxq' = Tail(rxq)
    BY <1>3 DEF Take
  <2> QED  BY <1>1, <2>1 DEF NoLeftover
<1>4. CASE rxq' = rxq
  BY <1>4 DEF NoLeftover
<1>5. CASE PutEnds \/ AddPeer \/ SetMtk \/ SetGtk
  BY <1>4, <1>5 DEF PutEnds, PutIn, PutRefused, AddPeer, SetMtk, SetGtk
<1>6. CASE PutBack \/ DelPeer \/ Restart \/ ServiceRestore
  BY <1>4, <1>6 DEF PutBack, DelPeer, Restart, ServiceRestore
<1>7. CASE ModeApplied \/ SetMode \/ UNCHANGED vars
  BY <1>4, <1>7 DEF ModeApplied, SetMode, vars
<1> QED  BY <1>2, <1>3, <1>5, <1>6, <1>7 DEF GtkNext

\* Without the exception: as long as the chip refuses no DISABLE_KEY (no index is tainted), a
\* group frame taken is judged by its own key's counter and is above every number taken under
\* that key before (umac_datapath_mesh_peer_gtk_opened, set_peer_key).
THEOREM NoneTwiceUnrefused ==
  GtkSpec /\ [](taint = {})
    => [][Take /\ rx' # rx => Head(rxq).key = chain /\ Head(rxq).pn > last[Head(rxq).key]]_vars
<1>1. GtkInit => NoLeftover
  BY DEF GtkInit, NoLeftover
<1>2. KeyInv /\ NoLeftover /\ taint = {} /\ [GtkNext]_vars => NoLeftover'
  BY NoLeftoverRead
<1> DEFINE Own == Take /\ rx' # rx => Head(rxq).key = chain /\ Head(rxq).pn > last[Head(rxq).key]
<1>3. KeyInv /\ NoLeftover => [Own]_vars
  <2>1. ASSUME KeyInv, NoLeftover, Take  PROVE ~Leftover
    <3>1. rxq \in Seq(FrameType) /\ rxq # <<>>
      BY <2>1 DEF KeyInv, Typed, Take
    <3>2. Head(rxq) = rxq[1] /\ 1 \in 1 .. Len(rxq)
      BY <3>1
    <3> QED  BY <2>1, <3>2 DEF NoLeftover, Leftover
  <2> QED  BY <2>1, TakenFrame
<1>4. GtkSpec /\ [](taint = {}) => []NoLeftover
  BY <1>1, <1>2, KeyAlways, PTL DEF GtkSpec
<1> QED  BY <1>3, <1>4, KeyAlways, PTL DEF GtkSpec

\* What a restart of the chip could not put back stays owed until it is in, or the link or the
\* mode no longer wants it (umac_datapath_mesh_service_restore).
THEOREM OwedStays == GtkSpec => OwedUntilBack
<1> DEFINE Kept == link' = link =>
                     /\ "mtk" \in restore \ restore' => mtk' = "in"
                     /\ "gtk" \in restore \ restore' => rec'.key # 0 \/ mode = 0 \/ call'.kind = "restore"
<1>1. ASSUME KeyInv, [GtkNext]_vars  PROVE Kept
  <2>1. CASE restore' = restore
    BY <2>1
  <2>2. CASE AddPeer \/ DelPeer
    BY <2>2 DEF AddPeer, DelPeer
  <2>3. CASE Restart
    <3>1. /\ link # "none" /\ Paired /\ "mtk" \in restore /\ "mtk" \notin restore' => mtk' = "in"
          /\ Paired /\ chain # 0 /\ Wanted => call'.kind = "restore"
      BY <2>3 DEF Restart, Paired
    <3>2. /\ "mtk" \in restore => Paired /\ link # "none"
          /\ "gtk" \in restore => Paired /\ chain # 0
      BY <1>1 DEF KeyInv, Owed, Paired
    <3> QED  BY <3>1, <3>2 DEF Wanted
  <2>4. CASE ServiceRestore
    <3>1. PICK refused \in SUBSET (restore \cap {"sta", "mtk"}) :
            /\ mtk' = IF "mtk" \in restore \ refused /\ Paired THEN "in" ELSE mtk
            /\ IF "gtk" \in restore /\ Paired /\ chain # 0 /\ Wanted
               THEN restore' = refused \cup {"gtk"} /\ Put("restore")
               ELSE restore' = refused /\ UNCHANGED <<call, rec>>
      BY <2>4 DEF ServiceRestore
    <3>2. /\ "mtk" \in restore => Paired
          /\ "gtk" \in restore => Paired /\ chain # 0
      BY <1>1 DEF KeyInv, Owed
    <3> QED  BY <3>1, <3>2 DEF Wanted
  <2>5. CASE PutEnds
    <3>1. CASE PutRefused
      BY <3>1 DEF PutRefused
    <3>2. ASSUME NEW i \in Idx, PutIn(i)  PROVE Kept
      <4>1. chain # 0
        BY <1>1, <2>5 DEF PutEnds, KeyInv, CallKept
      <4>2. rec'.key = chain /\ ("mtk" \in restore => "mtk" \in restore')
        BY <3>2 DEF PutIn
      <4> QED  BY <4>1, <4>2
    <3> QED  BY <2>5, <3>1, <3>2 DEF PutEnds
  <2>6. CASE (\E k \in Keys, pn \in 1 .. MaxPn : Read(k, pn)) \/ Take \/ UNCHANGED vars
    BY <2>1, <2>6 DEF Read, Take, vars
  <2>7. CASE SetMtk \/ SetGtk \/ PutBack \/ ModeApplied \/ SetMode
    BY <2>1, <2>7 DEF SetMtk, SetGtk, PutBack, ModeApplied, SetMode
  <2> QED  BY <1>1, <2>2, <2>3, <2>4, <2>5, <2>6, <2>7 DEF GtkNext
<1>2. KeyInv /\ [GtkNext]_vars => [Kept]_vars
  BY <1>1
<1> QED  BY <1>2, KeyAlways, PTL DEF GtkSpec, OwedUntilBack
=============================================================================
