---------------------------- MODULE TableProofs ----------------------------
(***************************************************************************)
(* The tables that nodes keep of their neighbours, for any sizes.          *)
(*                                                                         *)
(* A peering of an open mesh that is up has a station to carry it, and no  *)
(* station is kept for one that is gone, for any nodes, table sizes,       *)
(* frames and faults.  A copy of a batman-adv table that has the announced *)
(* number is the announced table, for any clients, rows and numbers.       *)
(***************************************************************************)
EXTENDS Mpm, BatTT, FiniteSetTheorems, SequenceTheorems, WellFoundedInduction, TLAPS

\* The tables are functions, with a link per neighbour; a free one is not up.
IsTable(t, n) ==
  /\ t = [p \in Others(n) |-> t[p]]
  /\ \A p \in Others(n) : t[p].estab => t[p].used
Shape ==
  /\ link = [n \in Nodes |-> link[n]] /\ \A n \in Nodes : IsTable(link[n], n)
  /\ station \in [Nodes -> SUBSET Nodes]

StationInv == Shape /\ StationPerLink

\* The peers that are up in a table t of node n.
Up(n, t) == {p \in Others(n) : t[p].estab}

\* The whole of what a handler may do: one node's table changes, and its stations with it.
LEMMA OneTable ==
  ASSUME StationInv, NEW n \in Nodes, NEW t, IsTable(t, n),
         link' = [link EXCEPT ![n] = t],
         station' = [station EXCEPT ![n] = Up(n, t)]
  PROVE  StationInv'
<1>1. \A k \in Nodes : link'[k] = IF k = n THEN t ELSE link[k]
  BY DEF StationInv, Shape
<1>2. link' = [k \in Nodes |-> link'[k]]
  BY DEF StationInv, Shape
<1>3. \A k \in Nodes : IsTable(link'[k], k)
  BY <1>1 DEF StationInv, Shape
<1>4. station' \in [Nodes -> SUBSET Nodes]
  <2>1. Up(n, t) \in SUBSET Nodes
    BY DEF Up, Others
  <2>2. \A S \in SUBSET Nodes : [station EXCEPT ![n] = S] \in [Nodes -> SUBSET Nodes]
    BY DEF StationInv, Shape
  <2>3. [station EXCEPT ![n] = Up(n, t)] \in [Nodes -> SUBSET Nodes]
    BY <2>1, <2>2
  <2> QED  BY <2>3
<1>5. \A k \in Nodes : station'[k] = IF k = n THEN Up(n, t) ELSE station[k]
  BY DEF StationInv, Shape
<1>6. StationPerLink'
  <2>1. ASSUME NEW k \in Nodes PROVE station'[k] = {p \in Others(k) : link'[k][p].estab}
    <3>1. CASE k = n
      BY <1>1, <1>5, <3>1 DEF Up
    <3>2. CASE k # n
      BY <1>1, <1>5, <3>2 DEF StationInv, StationPerLink, Estab
    <3> QED  BY <3>1, <3>2
  <2> QED  BY <2>1 DEF StationPerLink, Estab
<1>7. Shape'
  BY <1>2, <1>3, <1>4 DEF Shape
<1> QED  BY <1>6, <1>7 DEF StationInv

\* The table of n once the link of p is l, and its stations.
LEMMA OneLink ==
  ASSUME StationInv, NEW n \in Nodes, NEW p \in Others(n), NEW t, IsTable(t, n), Up(n, t) = station[n],
         NEW l, l.estab => l.used,
         link' = [link EXCEPT ![n] = [t EXCEPT ![p] = l]],
         station' = IF l.estab THEN [station EXCEPT ![n] = @ \cup {p}]
                    ELSE [station EXCEPT ![n] = @ \ {p}]
  PROVE  StationInv'
<1> DEFINE new == [t EXCEPT ![p] = l]
<1>1. IsTable(new, n)
  BY DEF IsTable
<1>2. CASE l.estab
  <2>1. Up(n, new) = Up(n, t) \cup {p}
    BY <1>2 DEF Up, IsTable
  <2> QED  BY <1>1, <1>2, <2>1, OneTable
<1>3. CASE ~l.estab
  <2>1. Up(n, new) = Up(n, t) \ {p}
    BY <1>3 DEF Up, IsTable
  <2> QED  BY <1>1, <1>3, <2>1, OneTable
<1> QED  BY <1>2, <1>3

\* The table of n as it stands is one, and its peers that are up have their stations.
LEMMA AsItStands == ASSUME StationInv, NEW n \in Nodes
                    PROVE  IsTable(link[n], n) /\ Up(n, link[n]) = station[n]
BY DEF StationInv, Shape, StationPerLink, Estab, Up

\* A link given up for another neighbour's Open was not up.
LEMMA RoomMade ==
  ASSUME StationInv, NEW n \in Nodes, NEW p, NEW q \in MakeRoom(link[n], p)
  PROVE  LET t == Released(link[n], q) IN IsTable(t, n) /\ Up(n, t) = station[n]
<1>1. q \in DOMAIN link[n] /\ ~link[n][q].estab
  BY DEF MakeRoom, Idle, Used
<1>2. q \in Others(n)
  BY <1>1, AsItStands DEF IsTable
<1>4. NoLink.estab = FALSE
  BY DEF NoLink
<1>3. IsTable(Released(link[n], q), n)
  <2>1. IsTable(link[n], n)
    BY AsItStands
  <2>2. ASSUME NEW l, l.estab = FALSE  PROVE IsTable([link[n] EXCEPT ![q] = l], n)
    BY <1>2, <2>1, <2>2 DEF IsTable
  <2> QED  BY <1>4, <2>2 DEF Released
<1>5. Up(n, Released(link[n], q)) = Up(n, link[n])
  BY <1>1, <1>2, <1>4, AsItStands DEF Up, IsTable, Released
<1> QED  BY <1>3, <1>5, AsItStands

\* A step that leaves the tables alone.
LEMMA TablesStay == ASSUME StationInv, UNCHANGED tables  PROVE StationInv'
<1>1. link' = link /\ station' = station
  BY DEF tables
<1>2. Shape'
  BY <1>1 DEF StationInv, Shape, IsTable
<1>3. StationPerLink'
  BY <1>1 DEF StationInv, StationPerLink, Estab
<1> QED  BY <1>2, <1>3 DEF StationInv

LEMMA OpenHandled ==
  ASSUME StationInv, NEW n \in Nodes, NEW p \in Others(n), NEW m, NEW am, NEW id,
         HandleOpen(n, p, m, am, id)
  PROVE  StationInv'
<1>1. ASSUME NEW t, NEW fs, IsTable(t, n), Up(n, t) = station[n], OpenTaken(n, p, m, fs, t, id)
      PROVE  StationInv'
  <2> DEFINE old == Got(t, p, id)
             new == Link(old.llid, m.llid, old.estab /\ m.llid = old.plid, 0)
  <2>1. link' = [link EXCEPT ![n] = [t EXCEPT ![p] = new]]
        /\ station' = IF new.estab THEN station ELSE [station EXCEPT ![n] = @ \ {p}]
    BY <1>1 DEF OpenTaken, SetLink
  <2>2. new.used /\ (new.estab => t[p].estab)
    BY DEF Got, Link
  <2>3. CASE new.estab
    <3>1. p \in station[n]
      BY <1>1, <2>2, <2>3 DEF Up
    <3>2. [station EXCEPT ![n] = @ \cup {p}] = station
      BY <3>1 DEF StationInv, Shape
    <3> QED  BY <1>1, <2>1, <2>2, <2>3, <3>2, OneLink
  <2>4. CASE ~new.estab
    BY <1>1, <2>1, <2>2, <2>4, OneLink
  <2> QED  BY <2>3, <2>4
<1>2. CASE MakeRoom(link[n], p) # {}
  BY <1>1, <1>2, RoomMade DEF HandleOpen
<1>3. CASE MakeRoom(link[n], p) = {} /\ HasOrRoom(link[n], p)
  BY <1>1, <1>3, AsItStands DEF HandleOpen
<1>4. CASE MakeRoom(link[n], p) = {} /\ ~HasOrRoom(link[n], p)
  BY <1>4, TablesStay DEF HandleOpen, OpenRefused
<1> QED  BY <1>2, <1>3, <1>4

\* A link released, with its station, if it had one.
LEMMA LinkReleased ==
  ASSUME StationInv, NEW n \in Nodes, NEW p \in Others(n),
         SetLink(n, Released(link[n], p)),
         \/ station' = [station EXCEPT ![n] = @ \ {p}]
         \/ ~link[n][p].estab /\ UNCHANGED station
  PROVE  StationInv'
<1>1. link' = [link EXCEPT ![n] = [link[n] EXCEPT ![p] = NoLink]] /\ NoLink.estab = FALSE
  BY DEF SetLink, Released, NoLink
<1>2. station' = [station EXCEPT ![n] = @ \ {p}]
  BY DEF StationInv, Shape, StationPerLink, Estab
<1> QED  BY <1>1, <1>2, AsItStands, OneLink

LEMMA ConfirmHandled ==
  ASSUME StationInv, NEW n \in Nodes, NEW p \in Others(n), NEW m, NEW am, NEW id,
         HandleConfirm(n, p, m, am, id)
  PROVE  StationInv'
<1> DEFINE l == Got(link[n], p, id)
           echoed == m.plid = l.llid
           new == Link(l.llid, m.llid, l.estab \/ echoed, 0)
<1>1. CASE UNCHANGED tables
  BY <1>1, TablesStay
<1>2. CASE /\ ConfirmNoted(n, p, m, am, l, l.estab \/ echoed)
           /\ station' = IF echoed THEN [station EXCEPT ![n] = @ \cup {p}] ELSE station
  <2>1. link' = [link EXCEPT ![n] = [link[n] EXCEPT ![p] = new]]
    BY <1>2 DEF ConfirmNoted, SetLink
  <2>2. new.used /\ (new.estab <=> l.estab \/ echoed)
    BY DEF Link
  <2>3. CASE echoed
    BY <1>2, <2>1, <2>2, <2>3, AsItStands, OneLink
  <2>4. l.estab => p \in station[n]
    BY AsItStands DEF Got, Link, Up
  <2>5. CASE ~echoed /\ l.estab
    <3>1. [station EXCEPT ![n] = @ \cup {p}] = station
      BY <2>4, <2>5 DEF StationInv, Shape
    <3> QED  BY <1>2, <2>1, <2>2, <2>5, <3>1, AsItStands, OneLink
  <2>6. CASE ~echoed /\ ~l.estab
    <3>1. ~link[n][p].estab
      BY <2>6, AsItStands DEF Got, Link, IsTable
    <3>3. p \notin station[n]
      BY <3>1, AsItStands DEF Up
    <3>2. [station EXCEPT ![n] = @ \ {p}] = station
      BY <3>3 DEF StationInv, Shape
    <3> QED  BY <1>2, <2>1, <2>2, <2>6, <3>2, AsItStands, OneLink
  <2> QED  BY <2>3, <2>5, <2>6
<1>3. CASE ~l.estab /\ SetLink(n, Released(link[n], p)) /\ UNCHANGED station
  <2>1. ~link[n][p].estab
    BY <1>3, AsItStands DEF Got, IsTable
  <2> QED  BY <1>3, <2>1, LinkReleased
<1> QED  BY <1>1, <1>2, <1>3 DEF HandleConfirm

\* What a node does with the frame at the head of a neighbour's air.
LEMMA FrameHandled ==
  ASSUME StationInv, NEW n \in Nodes, NEW p \in Others(n), Receive(n, p)
  PROVE  StationInv'
<1> DEFINE m  == Head(air[<<p, n>>])
           am == [air EXCEPT ![<<p, n>>] = Tail(@)]
<1>1. PICK id \in Ids : \/ HandleOpen(n, p, m, am, id)
                        \/ HandleConfirm(n, p, m, am, id)
                        \/ HandleClose(n, p, m, am)
  BY DEF Receive, Handle
<1>2. CASE HandleOpen(n, p, m, am, id)
  BY <1>2, OpenHandled
<1>3. CASE HandleConfirm(n, p, m, am, id)
  BY <1>3, ConfirmHandled
<1>4. CASE HandleClose(n, p, m, am)
  BY <1>4, LinkReleased DEF HandleClose
<1> QED  BY <1>1, <1>2, <1>3, <1>4

\* A neighbour heard is opened towards, or given up; neither was up.
LEMMA NeighbourHeard ==
  ASSUME StationInv, NEW n \in Nodes, NEW p \in Others(n), Hear(n, p)
  PROVE  StationInv'
<1>1. ~link[n][p].estab /\ UNCHANGED station
  BY DEF Hear
<1>2. CASE SetLink(n, Released(link[n], p))
  BY <1>1, <1>2, LinkReleased
<1>3. ASSUME NEW a, NEW b, NEW c, SetLink(n, [link[n] EXCEPT ![p] = Link(a, b, FALSE, c)])
      PROVE  StationInv'
  <2>1. link' = [link EXCEPT ![n] = [link[n] EXCEPT ![p] = Link(a, b, FALSE, c)]]
    BY <1>3 DEF SetLink
  <2>2. Link(a, b, FALSE, c).estab = FALSE
    BY DEF Link
  <2>3. p \notin station[n]
    BY <1>1, AsItStands DEF Up
  <2>4. station' = [station EXCEPT ![n] = @ \ {p}]
    BY <1>1, <2>3 DEF StationInv, Shape
  <2> QED  BY <2>1, <2>2, <2>4, AsItStands, OneLink
<1> QED  BY <1>2, <1>3 DEF Hear

\* A restart empties the tables of one node.
LEMMA NodeRestarted == ASSUME StationInv, NEW n \in Nodes, Restart(n)  PROVE StationInv'
<1> DEFINE t == [p \in Others(n) |-> NoLink]
<1>1. NoLink.estab = FALSE
  BY DEF NoLink
<1>2. IsTable(t, n) /\ Up(n, t) = {}
  BY <1>1 DEF IsTable, Up
<1>3. link' = [link EXCEPT ![n] = t] /\ station' = [station EXCEPT ![n] = {}]
  BY DEF Restart, SetLink
<1> QED  BY <1>2, <1>3, OneTable

LEMMA StationInit == Init => StationInv
<1> SUFFICES ASSUME Init PROVE StationInv
  OBVIOUS
<1>1. NoLink.estab = FALSE
  BY DEF NoLink
<1>2. \A n \in Nodes : link[n] = [p \in Others(n) |-> NoLink]
  BY DEF Init
<1>3. \A n \in Nodes : IsTable(link[n], n)
  BY <1>1, <1>2 DEF IsTable
<1>4. Shape
  BY <1>3 DEF Shape, Init
<1>5. StationPerLink
  BY <1>1, <1>2 DEF StationPerLink, Estab, Init
<1> QED  BY <1>4, <1>5 DEF StationInv

LEMMA StationStep == StationInv /\ [Next]_vars => StationInv'
<1> SUFFICES ASSUME StationInv, [Next]_vars PROVE StationInv'
  OBVIOUS
<1>1. \A d \in Pairs : d[1] \in Nodes /\ d[2] \in Others(d[1])
  BY DEF Pairs, Others
<1>2. CASE \E d \in Pairs : Receive(d[1], d[2])
  BY <1>1, <1>2, FrameHandled
<1>3. CASE \E d \in Pairs : Hear(d[1], d[2])
  BY <1>1, <1>3, NeighbourHeard
<1>4. CASE \E n \in Nodes : Restart(n)
  BY <1>4, NodeRestarted
<1>5. CASE \E d \in Pairs : Expire(d[1], d[2])
  BY <1>1, <1>5, LinkReleased DEF Expire
<1>6. CASE UNCHANGED tables
  BY <1>6, TablesStay
<1>7. CASE \E n, p \in Nodes : Lapse(n, p)
  BY <1>7, TablesStay DEF Lapse
<1>8. CASE \E d \in Pairs : Lose(d[1], d[2]) \/ Duplicate(d[1], d[2])
  BY <1>8, TablesStay DEF Lose, Duplicate
<1> QED  BY <1>2, <1>3, <1>4, <1>5, <1>6, <1>7, <1>8 DEF Next, vars

\* Whatever is lost, repeated, restarted or refused, a node's data path has a station for a
\* neighbour exactly when its peering with it is up (umac_mesh_handle_mpm, mpm_expire_stale_).
THEOREM StationsMatchLinks == Spec => []StationPerLink
<1>1. StationInv => StationPerLink
  BY DEF StationInv
<1> QED  BY <1>1, StationInit, StationStep, PTL DEF Spec

-----------------------------------------------------------------------------
(***************************************************************************)
(* The bounds: the table of links has MaxLinks entries and an Open is sent *)
(* OpenMax times.  No finite number of nodes is assumed.                   *)
(***************************************************************************)
TableOK(t, n) ==
  /\ t \in [Others(n) -> LinkType]
  /\ IsFiniteSet(Used(t)) /\ Cardinality(Used(t)) <= MaxLinks
LinksOK == link = [n \in Nodes |-> link[n]] /\ \A n \in Nodes : TableOK(link[n], n)
NotesOK == /\ refused = [n \in Nodes |-> refused[n]] /\ \A n \in Nodes : refused[n] \subseteq Others(n)
           /\ over \in [Nodes -> BOOLEAN]
IsAir(am) == /\ am \in [Pairs -> Seq(FrameType)]
             /\ \A d \in Pairs : Len(am[d]) <= Air

BoundInv == LinksOK /\ NotesOK /\ IsAir(air) /\ faults \in 0 .. MaxFaults

LEMMA NoLinkType == NoLink \in LinkType /\ NoLink.used = FALSE /\ NoLink.opens = 0
BY MpmAssumption DEF NoLink, LinkType, LinkId, MpmAssumption

LEMMA LinkInType ==
  ASSUME NEW a \in LinkId, NEW b \in LinkId, NEW up \in BOOLEAN, NEW k \in 0 .. OpenMax
  PROVE  Link(a, b, up, k) \in LinkType /\ Link(a, b, up, k).used
BY DEF Link, LinkType

LEMMA FrameInType ==
  ASSUME NEW act \in {"open", "confirm", "close"}, NEW a \in LinkId, NEW b \in LinkId, NEW f \in BOOLEAN
  PROVE  Frame(act, a, b, f) \in FrameType
BY DEF Frame, FrameType

\* One entry of a table written: where it was in use or there was room, the table still fits.
LEMMA EntrySet ==
  ASSUME NEW n, NEW t, TableOK(t, n), NEW p \in Others(n), NEW l \in LinkType, HasOrRoom(t, p)
  PROVE  TableOK([t EXCEPT ![p] = l], n)
<1> DEFINE new == [t EXCEPT ![p] = l]
<1>1. new \in [Others(n) -> LinkType]
  BY DEF TableOK
<1>2. Used(new) \subseteq Used(t) \cup {p}
  BY DEF Used, TableOK
<1>3. IsFiniteSet(Used(t) \cup {p})
      /\ Cardinality(Used(t) \cup {p}) = IF p \in Used(t) THEN Cardinality(Used(t)) ELSE Cardinality(Used(t)) + 1
  BY FS_AddElement DEF TableOK
<1>4. IsFiniteSet(Used(new)) /\ Cardinality(Used(new)) <= Cardinality(Used(t) \cup {p})
  BY <1>2, <1>3, FS_Subset
<1>5. p \in Used(t) \/ Cardinality(Used(t)) # MaxLinks
  BY DEF HasOrRoom, Full, Used, TableOK
<1>6. Cardinality(Used(t)) \in Nat /\ Cardinality(Used(new)) \in Nat /\ MaxLinks \in Nat
  BY <1>4, FS_CardinalityType, MpmAssumption DEF TableOK, MpmAssumption
<1>7. Cardinality(Used(t)) <= MaxLinks
  BY DEF TableOK
<1>8. Cardinality(Used(new)) <= MaxLinks
  BY <1>3, <1>4, <1>5, <1>6, <1>7
<1> HIDE DEF new
<1>9. TableOK(new, n)
  BY <1>1, <1>4, <1>8 DEF TableOK
<1> QED  BY <1>9 DEF new

\* One entry freed; a table that was full has room then.
LEMMA EntryFreed ==
  ASSUME NEW n, NEW t, TableOK(t, n), NEW p \in Others(n)
  PROVE  TableOK(Released(t, p), n) /\ (t[p].used => ~Full(Released(t, p)))
<1> DEFINE new == Released(t, p)
<1>1. new \in [Others(n) -> LinkType]
  BY NoLinkType DEF TableOK, Released
<1>2. Used(new) = Used(t) \ {p}
  BY NoLinkType DEF Used, TableOK, Released
<1>3. IsFiniteSet(Used(t) \ {p})
      /\ Cardinality(Used(t) \ {p}) = IF p \in Used(t) THEN Cardinality(Used(t)) - 1 ELSE Cardinality(Used(t))
  BY FS_RemoveElement DEF TableOK
<1>4. Cardinality(Used(t)) \in Nat /\ MaxLinks \in Nat /\ Cardinality(Used(t)) <= MaxLinks
  BY FS_CardinalityType, MpmAssumption DEF TableOK, MpmAssumption
<1>5. t[p].used => p \in Used(t)
  BY DEF Used, TableOK
<1> HIDE DEF new
<1>6. Cardinality(Used(new)) <= MaxLinks /\ (t[p].used => Cardinality(Used(new)) # MaxLinks)
  BY <1>2, <1>3, <1>4, <1>5
<1>7. TableOK(new, n) /\ (t[p].used => ~Full(new))
  BY <1>1, <1>2, <1>3, <1>6 DEF TableOK, Full
<1> QED  BY <1>7 DEF new

\* The table of one node replaced.
LEMMA TableReplaced ==
  ASSUME LinksOK, NEW n \in Nodes, NEW t, TableOK(t, n), SetLink(n, t)
  PROVE  LinksOK'
<1>1. \A k \in Nodes : link'[k] = IF k = n THEN t ELSE link[k]
  BY DEF LinksOK, SetLink
<1>2. link' = [k \in Nodes |-> link'[k]]
  BY DEF LinksOK, SetLink
<1>3. \A k \in Nodes : TableOK(link'[k], k)
  BY <1>1 DEF LinksOK
<1> QED  BY <1>2, <1>3 DEF LinksOK

\* The air carries as much as it can.
LEMMA FramesCut ==
  ASSUME NEW s \in Seq(FrameType)
  PROVE  Cut(s) \in Seq(FrameType) /\ Len(Cut(s)) <= Air
<1>1. Air \in Nat /\ Len(s) \in Nat
  BY MpmAssumption DEF MpmAssumption
<1> DEFINE k == IF Len(s) < Air THEN Len(s) ELSE Air
<1>2. k \in 0 .. Len(s) /\ k <= Air
  BY <1>1
<1>3. SubSeq(s, 1, k) \in Seq(FrameType) /\ Len(SubSeq(s, 1, k)) = k
  <2> HIDE DEF k
  <2>1. \A i \in 1 .. k : s[i] \in FrameType
    BY <1>2
  <2> QED  BY <1>1, <1>2, <2>1
<1> QED  BY <1>2, <1>3 DEF Cut

LEMMA FramesPut ==
  ASSUME NEW am, IsAir(am), NEW n \in Nodes, NEW p \in Others(n), NEW fs \in Seq(FrameType)
  PROVE  IsAir(Put(am, n, p, fs))
<1>1. <<n, p>> \in Pairs
  BY DEF Pairs, Others
<1>2. am[<<n, p>>] \o fs \in Seq(FrameType)
  BY <1>1 DEF IsAir
<1> DEFINE new == Cut(am[<<n, p>>] \o fs)
<1>3. new \in Seq(FrameType) /\ Len(new) <= Air
  BY <1>2, FramesCut
<1> HIDE DEF new
<1>4. Put(am, n, p, fs) = [am EXCEPT ![<<n, p>>] = new]
  BY DEF Put, new
<1>5. [am EXCEPT ![<<n, p>>] = new] \in [Pairs -> Seq(FrameType)]
  BY <1>3 DEF IsAir
<1>6. \A d \in Pairs : [am EXCEPT ![<<n, p>>] = new][d] = IF d = <<n, p>> THEN new ELSE am[d]
  BY DEF IsAir
<1> QED  BY <1>3, <1>4, <1>5, <1>6 DEF IsAir

\* The frame at the head of a neighbour's air, and the air without it.
LEMMA FrameTaken ==
  ASSUME NEW am, IsAir(am), NEW d \in Pairs, am[d] # <<>>
  PROVE  Head(am[d]) \in FrameType /\ IsAir([am EXCEPT ![d] = Tail(@)])
<1>1. /\ Head(am[d]) \in FrameType /\ Tail(am[d]) \in Seq(FrameType)
      /\ Len(Tail(am[d])) = Len(am[d]) - 1
  BY HeadTailProperties DEF IsAir
<1> DEFINE new == Tail(am[d])
<1>2. Len(new) <= Air
  BY <1>1, MpmAssumption DEF IsAir, MpmAssumption
<1> HIDE DEF new
<1>3. [am EXCEPT ![d] = new] \in [Pairs -> Seq(FrameType)]
  BY <1>1 DEF IsAir, new
<1>4. \A e \in Pairs : [am EXCEPT ![d] = new][e] = IF e = d THEN new ELSE am[e]
  BY DEF IsAir
<1>5. IsAir([am EXCEPT ![d] = new])
  BY <1>2, <1>3, <1>4 DEF IsAir
<1> QED  BY <1>1, <1>5 DEF new

\* A neighbour's entry, or a new one: it is of the types, with Opens left.
LEMMA GotInType ==
  ASSUME NEW n, NEW t, TableOK(t, n), NEW p \in Others(n), NEW id \in Ids
  PROVE  Got(t, p, id) \in LinkType
<1>1. id \in LinkId /\ 0 \in LinkId /\ 0 \in 0 .. OpenMax
  BY MpmAssumption DEF LinkId, MpmAssumption
<1>2. Link(id, 0, FALSE, 0) \in LinkType
  BY <1>1, LinkInType
<1>3. t[p] \in LinkType
  BY DEF TableOK
<1> QED  BY <1>2, <1>3 DEF Got

\* What LinkType says of a link, and FrameType of a frame.
LEMMA LinkFields ==
  ASSUME NEW l \in LinkType
  PROVE  l.llid \in LinkId /\ l.plid \in LinkId /\ l.estab \in BOOLEAN /\ l.opens \in 0 .. OpenMax
BY DEF LinkType

LEMMA FrameFields ==
  ASSUME NEW m \in FrameType
  PROVE  m.llid \in LinkId /\ m.plid \in LinkId /\ m.full \in BOOLEAN
BY DEF FrameType

LEMMA FramesOfLink ==
  ASSUME NEW l \in LinkType
  PROVE  <<Open(l)>> \in Seq(FrameType) /\ <<Confirm(l)>> \in Seq(FrameType) /\ Answer(l) \in Seq(FrameType)
<1>1. 0 \in LinkId
  BY DEF LinkId
<1>2. Open(l) \in FrameType /\ Confirm(l) \in FrameType
  BY <1>1, LinkFields, FrameInType DEF Open, Confirm
<1> QED  BY <1>2 DEF Answer

LEMMA FramesOfClose ==
  ASSUME NEW a \in LinkId, NEW b \in LinkId, NEW f \in BOOLEAN
  PROVE  <<Close(a, b, f)>> \in Seq(FrameType)
<1>1. Close(a, b, f) \in FrameType
  BY FrameInType DEF Close
<1> QED  BY <1>1

\* The notes of one node, of who refused it.
LEMMA NotesMove ==
  ASSUME NotesOK, NEW n \in Nodes, NEW S, S \subseteq Others(n), NEW b \in BOOLEAN,
         refused' = [refused EXCEPT ![n] = S] \/ UNCHANGED refused,
         over' = [over EXCEPT ![n] = b] \/ UNCHANGED over
  PROVE  NotesOK'
<1>1. refused' = [k \in Nodes |-> refused'[k]] /\ \A k \in Nodes : refused'[k] \subseteq Others(k)
  BY DEF NotesOK
<1>2. over' \in [Nodes -> BOOLEAN]
  BY DEF NotesOK
<1> QED  BY <1>1, <1>2 DEF NotesOK

LEMMA NotesStay == ASSUME NotesOK, UNCHANGED stamps  PROVE NotesOK'
BY DEF NotesOK, stamps

LEMMA OpenBounds ==
  ASSUME LinksOK, NotesOK, NEW n \in Nodes, NEW p \in Others(n), NEW m \in FrameType,
         NEW am, IsAir(am), NEW id \in Ids, HandleOpen(n, p, m, am, id)
  PROVE  LinksOK' /\ NotesOK' /\ IsAir(air')
<1> DEFINE t == link[n]
<1>1. TableOK(t, n)
  BY DEF LinksOK
<1>2. ASSUME NEW u, NEW fs, TableOK(u, n), HasOrRoom(u, p), IsAir(fs), OpenTaken(n, p, m, fs, u, id)
      PROVE  LinksOK' /\ NotesOK' /\ IsAir(air')
  <2> DEFINE old == Got(u, p, id)
             new == Link(old.llid, m.llid, old.estab /\ m.llid = old.plid, 0)
  <2>1. old \in LinkType
    BY <1>2, GotInType
  <2>2. old.llid \in LinkId /\ m.llid \in LinkId /\ 0 \in 0 .. OpenMax
    BY <2>1, LinkFields, FrameFields, MpmAssumption DEF MpmAssumption
  <2>3. new \in LinkType
    <3>1. (old.estab /\ m.llid = old.plid) \in BOOLEAN
      BY <2>1
    <3> QED  BY <2>2, <3>1, LinkInType
  <2>4. /\ SetLink(n, [u EXCEPT ![p] = new])
        /\ refused' = [refused EXCEPT ![n] = @ \ {p}] /\ UNCHANGED over
        /\ air' = Put(fs, n, p, Answer(new))
    BY <1>2 DEF OpenTaken
  <2> HIDE DEF new
  <2>5. LinksOK'
    BY <1>2, <2>3, <2>4, EntrySet, TableReplaced
  <2>6. NotesOK'
    <3>1. refused[n] \ {p} \subseteq Others(n)
      BY DEF NotesOK
    <3> QED  BY <2>4, <3>1, NotesMove
  <2>7. IsAir(air')
    BY <1>2, <2>3, <2>4, FramesOfLink, FramesPut
  <2> QED  BY <2>5, <2>6, <2>7
<1>3. ASSUME NEW q \in MakeRoom(t, p),
             OpenTaken(n, p, m, Put(am, n, q, <<Close(0, t[q].llid, FALSE)>>), Released(t, q), id)
      PROVE  LinksOK' /\ NotesOK' /\ IsAir(air')
  <2>1. q \in Others(n) /\ t[q].used
    BY <1>1 DEF MakeRoom, Idle, Used, TableOK
  <2>2. TableOK(Released(t, q), n) /\ HasOrRoom(Released(t, q), p)
    BY <1>1, <2>1, EntryFreed DEF HasOrRoom
  <2>3. t[q].llid \in LinkId /\ 0 \in LinkId
    BY <1>1, <2>1, LinkFields DEF TableOK, LinkId
  <2>4. IsAir(Put(am, n, q, <<Close(0, t[q].llid, FALSE)>>))
    BY <2>1, <2>3, FramesOfClose, FramesPut
  <2> QED  BY <1>2, <1>3, <2>2, <2>4
<1>4. ASSUME OpenRefused(n, p, m, am, t)
      PROVE  LinksOK' /\ NotesOK' /\ IsAir(air')
  <2>1. m.llid \in LinkId /\ 0 \in LinkId
    BY FrameFields DEF LinkId
  <2>2. IsAir(air')
    BY <1>4, <2>1, FramesOfClose, FramesPut DEF OpenRefused
  <2>3. LinksOK' /\ NotesOK'
    BY <1>4, NotesStay DEF OpenRefused, LinksOK, tables
  <2> QED  BY <2>2, <2>3
<1> QED  BY <1>1, <1>2, <1>3, <1>4 DEF HandleOpen

LEMMA ConfirmBounds ==
  ASSUME LinksOK, NotesOK, NEW n \in Nodes, NEW p \in Others(n), NEW m \in FrameType,
         NEW am, IsAir(am), NEW id \in Ids, HandleConfirm(n, p, m, am, id)
  PROVE  LinksOK' /\ NotesOK' /\ IsAir(air')
<1> DEFINE l == Got(link[n], p, id)
           up == l.estab \/ m.plid = l.llid
           new == Link(l.llid, m.llid, up, 0)
<1>1. TableOK(link[n], n)
  BY DEF LinksOK
<1>2. NotesOK'
  BY NotesStay DEF HandleConfirm
<1>3. l \in LinkType
  BY <1>1, GotInType
<1>4. l.llid \in LinkId /\ m.llid \in LinkId /\ 0 \in 0 .. OpenMax
  BY <1>3, LinkFields, FrameFields, MpmAssumption DEF MpmAssumption
<1>5. new \in LinkType
  BY <1>3, <1>4, LinkInType
<1>6. CASE air' = am /\ UNCHANGED tables
  BY <1>2, <1>6 DEF LinksOK, tables
<1>7. CASE HasOrRoom(link[n], p) /\ ConfirmNoted(n, p, m, am, l, up)
  <2>1. /\ SetLink(n, [link[n] EXCEPT ![p] = new])
        /\ air' = am \/ air' = Put(am, n, p, <<Confirm(new)>>)
    BY <1>7 DEF ConfirmNoted
  <2> HIDE DEF new
  <2>2. LinksOK'
    BY <1>1, <1>5, <1>7, <2>1, EntrySet, TableReplaced
  <2>3. IsAir(air')
    BY <1>5, <2>1, FramesOfLink, FramesPut
  <2> QED  BY <1>2, <2>2, <2>3
<1>8. CASE /\ SetLink(n, Released(link[n], p))
           /\ air' = Put(am, n, p, <<Close(l.llid, m.llid, TRUE)>>)
  <2>1. LinksOK'
    BY <1>1, <1>8, EntryFreed, TableReplaced
  <2>2. IsAir(air')
    BY <1>4, <1>8, FramesOfClose, FramesPut
  <2> QED  BY <1>2, <2>1, <2>2
<1> QED  BY <1>6, <1>7, <1>8 DEF HandleConfirm

LEMMA CloseBounds ==
  ASSUME LinksOK, NotesOK, NEW n \in Nodes, NEW p \in Others(n), NEW m \in FrameType,
         NEW am, IsAir(am), HandleClose(n, p, m, am)
  PROVE  LinksOK' /\ NotesOK' /\ IsAir(air')
<1>1. LinksOK'
  <2>1. TableOK(Released(link[n], p), n)
    BY EntryFreed DEF LinksOK
  <2> QED  BY <2>1, TableReplaced DEF HandleClose
<1>2. NotesOK'
  <2>1. refused[n] \cup {p} \subseteq Others(n)
    BY DEF NotesOK
  <2>2. CASE Refuse(n, p)
    BY <2>1, <2>2, NotesMove DEF Refuse
  <2> QED  BY <2>2, NotesStay DEF HandleClose
<1> QED  BY <1>1, <1>2 DEF HandleClose

LEMMA FrameBounds ==
  ASSUME BoundInv, NEW n \in Nodes, NEW p \in Others(n), Receive(n, p)
  PROVE  LinksOK' /\ NotesOK' /\ IsAir(air')
<1> DEFINE m  == Head(air[<<p, n>>])
           am == [air EXCEPT ![<<p, n>>] = Tail(@)]
<1>1. <<p, n>> \in Pairs
  BY DEF Pairs, Others
<1>2. m \in FrameType /\ IsAir(am)
  BY <1>1, FrameTaken DEF Receive, BoundInv
<1>3. PICK id \in Ids : \/ HandleOpen(n, p, m, am, id)
                        \/ HandleConfirm(n, p, m, am, id)
                        \/ HandleClose(n, p, m, am)
  BY DEF Receive, Handle
<1>4. LinksOK /\ NotesOK
  BY DEF BoundInv
<1> HIDE DEF m, am
<1> QED  BY <1>2, <1>3, <1>4, OpenBounds, ConfirmBounds, CloseBounds

\* An Open is sent again only while Opens are left.
LEMMA HeardBounds ==
  ASSUME BoundInv, NEW n \in Nodes, NEW p \in Others(n), Hear(n, p)
  PROVE  LinksOK' /\ NotesOK' /\ IsAir(air')
<1> DEFINE t == link[n]
<1>1. TableOK(t, n) /\ LinksOK /\ NotesOK /\ IsAir(air)
  BY DEF BoundInv, LinksOK
<1>2. NotesOK'
  BY <1>1, NotesStay DEF Hear
<1>3. HasOrRoom(t, p)
  BY DEF Hear, HasOrRoom
<1>4. PICK id \in Ids :
        LET l == Got(t, p, id) IN
          IF GivesUp(l)
          THEN /\ SetLink(n, Released(t, p))
               /\ air' = Put(air, n, p, <<Close(0, l.llid, FALSE)>>)
          ELSE /\ SetLink(n, [t EXCEPT ![p] = Link(l.llid, l.plid, FALSE, l.opens + 1)])
               /\ air' = Put(air, n, p, <<Open(l)>>)
  BY DEF Hear
<1> DEFINE l == Got(t, p, id)
           new == Link(l.llid, l.plid, FALSE, l.opens + 1)
<1>5. l \in LinkType
  BY <1>1, GotInType
<1>6. l.llid \in LinkId /\ l.plid \in LinkId /\ l.opens \in 0 .. OpenMax /\ 0 \in LinkId
  BY <1>5, LinkFields DEF LinkId
<1>7. CASE GivesUp(l)
  <2>1. SetLink(n, Released(t, p)) /\ air' = Put(air, n, p, <<Close(0, l.llid, FALSE)>>)
    BY <1>4, <1>7
  <2>2. LinksOK'
    BY <1>1, <2>1, EntryFreed, TableReplaced
  <2>3. IsAir(air')
    BY <1>1, <1>6, <2>1, FramesOfClose, FramesPut
  <2> QED  BY <1>2, <2>2, <2>3
<1>8. CASE ~GivesUp(l)
  <2>1. SetLink(n, [t EXCEPT ![p] = new]) /\ air' = Put(air, n, p, <<Open(l)>>)
    BY <1>4, <1>8
  <2>2. l.opens + 1 \in 0 .. OpenMax
    BY <1>6, <1>8, MpmAssumption DEF GivesUp, MpmAssumption
  <2>3. new \in LinkType
    BY <1>6, <2>2, LinkInType
  <2> HIDE DEF new, l
  <2>4. LinksOK'
    BY <1>1, <1>3, <2>1, <2>3, EntrySet, TableReplaced
  <2>5. IsAir(air')
    BY <1>1, <1>5, <2>1, FramesOfLink, FramesPut
  <2> QED  BY <1>2, <2>4, <2>5
<1> QED  BY <1>7, <1>8

LEMMA InitBoundInv == Init => BoundInv
<1> SUFFICES ASSUME Init PROVE BoundInv
  OBVIOUS
<1>1. ASSUME NEW n \in Nodes  PROVE TableOK([p \in Others(n) |-> NoLink], n)
  <2> DEFINE t == [p \in Others(n) |-> NoLink]
  <2>1. t \in [Others(n) -> LinkType]
    BY NoLinkType
  <2>2. Used(t) = {}
    BY NoLinkType DEF Used
  <2>3. IsFiniteSet(Used(t)) /\ Cardinality(Used(t)) = 0
    BY <2>2, FS_EmptySet
  <2>4. 0 <= MaxLinks
    BY MpmAssumption DEF MpmAssumption
  <2> QED  BY <2>1, <2>3, <2>4 DEF TableOK
<1>2. LinksOK
  BY <1>1 DEF Init, LinksOK
<1>3. NotesOK
  BY DEF Init, NotesOK
<1>4. IsAir(air)
  <2>1. air \in [Pairs -> Seq(FrameType)] /\ \A d \in Pairs : Len(air[d]) = 0
    BY DEF Init
  <2> QED  BY <2>1, MpmAssumption DEF IsAir, MpmAssumption
<1>5. faults \in 0 .. MaxFaults
  BY MpmAssumption DEF Init, MpmAssumption
<1> QED  BY <1>2, <1>3, <1>4, <1>5 DEF BoundInv

LEMMA NextBoundInv == BoundInv /\ [Next]_vars => BoundInv'
<1> SUFFICES ASSUME BoundInv, [Next]_vars PROVE BoundInv'
  OBVIOUS
<1>1. \A d \in Pairs : /\ d[1] \in Nodes /\ d[2] \in Others(d[1])
                       /\ <<d[2], d[1]>> \in Pairs
  BY DEF Pairs, Others
<1>2. LinksOK /\ NotesOK /\ IsAir(air) /\ faults \in 0 .. MaxFaults /\ MaxFaults \in Nat
  BY MpmAssumption DEF BoundInv, MpmAssumption
<1>3. Fault => faults' \in 0 .. MaxFaults
  BY <1>2 DEF Fault
<1>4. UNCHANGED tables => LinksOK'
  BY <1>2 DEF tables, LinksOK
<1>5. ASSUME NEW d \in Pairs, Receive(d[1], d[2])  PROVE BoundInv'
  <2> DEFINE m  == Head(air[<<d[2], d[1]>>])
             am == [air EXCEPT ![<<d[2], d[1]>>] = Tail(@)]
  <2>1. PICK id \in Ids : \/ HandleOpen(d[1], d[2], m, am, id)
                          \/ HandleConfirm(d[1], d[2], m, am, id)
                          \/ HandleClose(d[1], d[2], m, am)
    BY <1>5 DEF Receive, Handle
  <2>2. CASE HandleOpen(d[1], d[2], m, am, id)
    <3> HIDE DEF m, am
    <3>1. faults' = faults
      BY <2>2 DEF HandleOpen, OpenTaken, OpenRefused
    <3> QED  BY <1>1, <1>2, <1>5, <3>1, FrameBounds DEF BoundInv
  <2>3. CASE HandleConfirm(d[1], d[2], m, am, id)
    <3> HIDE DEF m, am
    <3>1. faults' = faults \/ (faults < MaxFaults /\ faults' = faults + 1)
      BY <2>3 DEF HandleConfirm
    <3>2. faults' \in 0 .. MaxFaults
      BY <1>2, <3>1
    <3> QED  BY <1>1, <1>5, <3>2, FrameBounds DEF BoundInv
  <2>4. CASE HandleClose(d[1], d[2], m, am)
    <3> HIDE DEF m, am
    <3>1. faults' = faults
      BY <2>4 DEF HandleClose
    <3> QED  BY <1>1, <1>2, <1>5, <3>1, FrameBounds DEF BoundInv
  <2> QED  BY <2>1, <2>2, <2>3, <2>4
<1>6. ASSUME NEW d \in Pairs, Hear(d[1], d[2])  PROVE BoundInv'
  <2>1. faults' = faults
    BY <1>6 DEF Hear
  <2> QED  BY <1>1, <1>2, <1>6, <2>1, HeardBounds DEF BoundInv
<1>7. ASSUME NEW n \in Nodes, NEW p \in Nodes, Lapse(n, p)  PROVE BoundInv'
  <2>1. NotesOK'
    <3>1. refused[n] \ {p} \subseteq Others(n)
      BY <1>2 DEF NotesOK
    <3>2. /\ refused' = [refused EXCEPT ![n] = refused[n] \ {p}]
          /\ over' = [over EXCEPT ![n] = over[n] /\ p # n]
      BY <1>7 DEF Lapse
    <3>3. (over[n] /\ p # n) \in BOOLEAN
      OBVIOUS
    <3> QED  BY <1>2, <3>1, <3>2, <3>3, NotesMove
  <2> QED  BY <1>2, <1>4, <1>7, <2>1 DEF Lapse, BoundInv
<1>8. ASSUME NEW n \in Nodes, Restart(n)  PROVE BoundInv'
  <2> DEFINE t == [p \in Others(n) |-> NoLink]
  <2>1. TableOK(t, n)
    <3>1. t \in [Others(n) -> LinkType]
      BY NoLinkType
    <3>2. Used(t) = {}
      BY NoLinkType DEF Used
    <3>3. IsFiniteSet(Used(t)) /\ Cardinality(Used(t)) = 0
      BY <3>2, FS_EmptySet
    <3>4. 0 <= MaxLinks
      BY MpmAssumption DEF MpmAssumption
    <3> QED  BY <3>1, <3>3, <3>4 DEF TableOK
  <2>2. LinksOK'
    BY <1>2, <1>8, <2>1, TableReplaced DEF Restart
  <2>3. NotesOK'
    <3>1. refused' = [refused EXCEPT ![n] = {}] /\ over' = [over EXCEPT ![n] = FALSE] /\ {} \subseteq Others(n)
      BY <1>8 DEF Restart
    <3> QED  BY <1>2, <3>1, NotesMove
  <2> QED  BY <1>2, <1>3, <1>8, <2>2, <2>3 DEF Restart, BoundInv
<1>9. ASSUME NEW d \in Pairs, Lose(d[1], d[2])  PROVE BoundInv'
  <2>1. IsAir(air')
    BY <1>1, <1>2, <1>9, FrameTaken DEF Lose
  <2>2. NotesOK'
    BY <1>2, <1>9, NotesStay DEF Lose
  <2> QED  BY <1>3, <1>4, <1>9, <2>1, <2>2 DEF Lose, BoundInv
<1>10. ASSUME NEW d \in Pairs, Duplicate(d[1], d[2])  PROVE BoundInv'
  <2> DEFINE e == <<d[2], d[1]>>
             new == Cut(<<Head(air[e])>> \o air[e])
  <2>1. Head(air[e]) \in FrameType /\ air[e] \in Seq(FrameType)
    BY <1>1, <1>2, <1>10, FrameTaken DEF Duplicate, IsAir
  <2>2. <<Head(air[e])>> \o air[e] \in Seq(FrameType)
    BY <2>1
  <2>3. new \in Seq(FrameType) /\ Len(new) <= Air
    BY <2>2, FramesCut
  <2>4. air' = [air EXCEPT ![e] = new]
    BY <1>10 DEF Duplicate
  <2> HIDE DEF new
  <2>5. air' \in [Pairs -> Seq(FrameType)]
    BY <1>2, <2>3, <2>4 DEF IsAir
  <2>6. \A k \in Pairs : air'[k] = IF k = e THEN new ELSE air[k]
    BY <1>2, <2>4 DEF IsAir
  <2>7. IsAir(air')
    BY <1>2, <2>3, <2>5, <2>6 DEF IsAir
  <2>8. NotesOK'
    BY <1>2, <1>10, NotesStay DEF Duplicate
  <2> QED  BY <1>3, <1>4, <1>10, <2>7, <2>8 DEF Duplicate, BoundInv
<1>11. ASSUME NEW d \in Pairs, Expire(d[1], d[2])  PROVE BoundInv'
  <2>1. TableOK(Released(link[d[1]], d[2]), d[1])
    BY <1>1, <1>2, EntryFreed DEF LinksOK
  <2>2. LinksOK'
    BY <1>1, <1>2, <1>11, <2>1, TableReplaced DEF Expire
  <2>3. NotesOK'
    BY <1>2, <1>11, NotesStay DEF Expire
  <2> QED  BY <1>2, <1>3, <1>11, <2>2, <2>3 DEF Expire, BoundInv
<1>12. CASE UNCHANGED vars
  <2>1. UNCHANGED tables /\ UNCHANGED stamps /\ air' = air /\ faults' = faults
    BY <1>12 DEF vars
  <2> QED  BY <1>2, <1>4, <2>1, NotesStay DEF BoundInv
<1> QED  BY <1>5, <1>6, <1>7, <1>8, <1>9, <1>10, <1>11, <1>12 DEF Next

\* The table of links never holds more than MPM_MAX_LINKS neighbours, an Open of ours goes
\* unanswered MPM_OPEN_RETRY_MAX times and no more, and, in every state, stations match links.
THEOREM TablesBounded == Spec => []MpmInv
<1>1. StationInv /\ BoundInv => MpmInv
  <2> SUFFICES ASSUME StationInv, BoundInv  PROVE MpmInv
    OBVIOUS
  <2>1. \A n \in Nodes : link[n] \in [Others(n) -> LinkType] /\ Cardinality(Used(link[n])) <= MaxLinks
    BY DEF BoundInv, LinksOK, TableOK
  <2>2. \A n \in Nodes : station[n] \subseteq Others(n) /\ refused[n] \subseteq Others(n)
    BY DEF StationInv, StationPerLink, BoundInv, NotesOK
  <2>3. \A d \in Pairs : Len(air[d]) <= Air /\ \A i \in 1 .. Len(air[d]) : air[d][i] \in FrameType
    BY DEF BoundInv, IsAir
  <2>4. over \in [Nodes -> BOOLEAN] /\ faults \in 0 .. MaxFaults
    BY DEF BoundInv, NotesOK
  <2>5. StationPerLink
    BY DEF StationInv
  <2> QED  BY <2>1, <2>2, <2>3, <2>4, <2>5 DEF MpmInv, TypeOK
<1> QED  BY <1>1, StationInit, StationStep, InitBoundInv, NextBoundInv, PTL DEF Spec

-----------------------------------------------------------------------------
(***************************************************************************)
(* A settled link.  What a node does about one neighbour reaches no link   *)
(* that is up with another, and no air but its own to those two and to one *)
(* that was not up.                                                        *)
(***************************************************************************)
Apart(n, q) ==
  /\ \A k \in Nodes : k # n => link'[k] = link[k]
  /\ \A k \in Others(n) : k # q /\ Estab(n, k) => link'[n][k] = link[n][k]
  /\ \A d \in Pairs : \/ air'[d] = air[d]
                      \/ d \in {<<n, q>>, <<q, n>>}
                      \/ d[1] = n /\ ~Estab(n, d[2])

\* The air am is air but for frames that Apart allows.
AirApart(am, n, q) ==
  /\ IsAir(am)
  /\ \A d \in Pairs : \/ am[d] = air[d]
                      \/ d \in {<<n, q>>, <<q, n>>}
                      \/ d[1] = n /\ ~Estab(n, d[2])
TableApart(t, n, q) ==
  /\ TableOK(t, n)
  /\ \A k \in Others(n) : k # q /\ Estab(n, k) => t[k] = link[n][k]

LEMMA PutApart ==
  ASSUME NEW n \in Nodes, NEW q \in Others(n), NEW p \in Others(n), p = q \/ ~Estab(n, p),
         NEW am, AirApart(am, n, q), NEW fs \in Seq(FrameType)
  PROVE  AirApart(Put(am, n, p, fs), n, q)
<1>1. IsAir(Put(am, n, p, fs))
  BY FramesPut DEF AirApart
<1> DEFINE new == Cut(am[<<n, p>>] \o fs)
<1>2. Put(am, n, p, fs) = [am EXCEPT ![<<n, p>>] = new]
  BY DEF Put
<1> HIDE DEF new
<1>3. \A d \in Pairs : Put(am, n, p, fs)[d] = IF d = <<n, p>> THEN new ELSE am[d]
  BY <1>2 DEF AirApart, IsAir
<1> QED  BY <1>1, <1>3 DEF AirApart

LEMMA EntryApart ==
  ASSUME NEW n \in Nodes, NEW q \in Others(n), NEW t, TableApart(t, n, q), LinksOK,
         NEW l, SetLink(n, [t EXCEPT ![q] = l])
  PROVE  /\ \A k \in Nodes : k # n => link'[k] = link[k]
         /\ \A k \in Others(n) : k # q /\ Estab(n, k) => link'[n][k] = link[n][k]
BY DEF SetLink, TableApart, TableOK, LinksOK

LEMMA HandledApart ==
  ASSUME BoundInv, NEW n \in Nodes, NEW q \in Others(n), Receive(n, q)
  PROVE  Apart(n, q)
<1> DEFINE m  == Head(air[<<q, n>>])
           am == [air EXCEPT ![<<q, n>>] = Tail(@)]
           t  == link[n]
<1>1. <<q, n>> \in Pairs
  BY DEF Pairs, Others
<1>2. m \in FrameType /\ IsAir(am)
  BY <1>1, FrameTaken DEF Receive, BoundInv
<1>3. AirApart(am, n, q)
  <2>1. \A d \in Pairs : d # <<q, n>> => am[d] = air[d]
    BY DEF BoundInv, IsAir
  <2> QED  BY <1>2, <2>1 DEF AirApart
<1>4. LinksOK /\ TableApart(t, n, q)
  BY DEF BoundInv, LinksOK, TableApart
<1>5. PICK id \in Ids : \/ HandleOpen(n, q, m, am, id)
                        \/ HandleConfirm(n, q, m, am, id)
                        \/ HandleClose(n, q, m, am)
  BY DEF Receive, Handle
<1> HIDE DEF m, am
<1>6. ASSUME AirApart(air', n, q), NEW u, TableApart(u, n, q), NEW l, SetLink(n, [u EXCEPT ![q] = l])
      PROVE  Apart(n, q)
  BY <1>4, <1>6, EntryApart DEF Apart, AirApart
<1>7. ASSUME AirApart(air', n, q), UNCHANGED tables  PROVE Apart(n, q)
  BY <1>7 DEF Apart, AirApart, tables
<1>8. ASSUME NEW u, TableApart(u, n, q), NEW fs, AirApart(fs, n, q), OpenTaken(n, q, m, fs, u, id)
      PROVE  Apart(n, q)
  <2> DEFINE old == Got(u, q, id)
             up  == old.estab /\ m.llid = old.plid
             new == Link(old.llid, m.llid, up, 0)
  <2>1. old \in LinkType
    BY <1>8, GotInType DEF TableApart
  <2>2. old.llid \in LinkId /\ m.llid \in LinkId /\ 0 \in 0 .. OpenMax /\ up \in BOOLEAN
    BY <1>2, <2>1, LinkFields, FrameFields, MpmAssumption DEF MpmAssumption
  <2>3. new \in LinkType
    <3> HIDE DEF up
    <3> QED  BY <2>2, LinkInType
  <2>4. SetLink(n, [u EXCEPT ![q] = new]) /\ air' = Put(fs, n, q, Answer(new))
    BY <1>8 DEF OpenTaken
  <2> HIDE DEF new
  <2> QED  BY <1>6, <1>8, <2>3, <2>4, FramesOfLink, PutApart
<1>9. CASE HandleOpen(n, q, m, am, id)
  <2>1. ASSUME NEW p \in MakeRoom(t, q),
               OpenTaken(n, q, m, Put(am, n, p, <<Close(0, t[p].llid, FALSE)>>), Released(t, p), id)
        PROVE  Apart(n, q)
    <3>1. p \in Others(n) /\ ~Estab(n, p)
      BY <1>4 DEF MakeRoom, Idle, Used, TableApart, TableOK, Estab
    <3>2. t[p].llid \in LinkId /\ 0 \in LinkId
      BY <1>4, <3>1, LinkFields DEF TableApart, TableOK, LinkId
    <3>3. AirApart(Put(am, n, p, <<Close(0, t[p].llid, FALSE)>>), n, q)
      BY <1>3, <3>1, <3>2, FramesOfClose, PutApart
    <3>4. TableOK(Released(t, p), n)
      BY <1>4, <3>1, EntryFreed DEF TableApart
    <3>5. \A k \in Others(n) : k # p => Released(t, p)[k] = t[k]
      BY <1>4 DEF Released, TableApart, TableOK
    <3>6. TableApart(Released(t, p), n, q)
      BY <3>1, <3>4, <3>5 DEF TableApart
    <3> QED  BY <1>8, <2>1, <3>3, <3>6
  <2>2. ASSUME OpenRefused(n, q, m, am, t)  PROVE Apart(n, q)
    <3>1. m.llid \in LinkId /\ 0 \in LinkId
      BY <1>2, FrameFields DEF LinkId
    <3>2. AirApart(air', n, q)
      BY <1>3, <2>2, <3>1, FramesOfClose, PutApart DEF OpenRefused
    <3> QED  BY <1>7, <2>2, <3>2 DEF OpenRefused
  <2> QED  BY <1>3, <1>4, <1>8, <1>9, <2>1, <2>2 DEF HandleOpen
<1>10. CASE HandleConfirm(n, q, m, am, id)
  <2> DEFINE l   == Got(t, q, id)
             up  == l.estab \/ m.plid = l.llid
             new == Link(l.llid, m.llid, up, 0)
  <2>1. l \in LinkType
    BY <1>4, GotInType DEF TableApart
  <2>2. l.llid \in LinkId /\ m.llid \in LinkId /\ 0 \in 0 .. OpenMax
    BY <1>2, <2>1, LinkFields, FrameFields, MpmAssumption DEF MpmAssumption
  <2>3. new \in LinkType
    BY <2>1, <2>2, LinkInType
  <2>4. CASE air' = am /\ UNCHANGED tables
    BY <1>3, <1>7, <2>4
  <2>5. CASE ConfirmNoted(n, q, m, am, l, up)
    <3>1. /\ SetLink(n, [t EXCEPT ![q] = new])
          /\ air' = am \/ air' = Put(am, n, q, <<Confirm(new)>>)
      BY <2>5 DEF ConfirmNoted
    <3> HIDE DEF new
    <3>2. AirApart(air', n, q)
      BY <1>3, <2>3, <3>1, FramesOfLink, PutApart
    <3> QED  BY <1>4, <1>6, <3>1, <3>2
  <2>6. CASE SetLink(n, Released(t, q)) /\ air' = Put(am, n, q, <<Close(l.llid, m.llid, TRUE)>>)
    <3>1. AirApart(air', n, q)
      BY <1>3, <2>2, <2>6, FramesOfClose, PutApart
    <3> QED  BY <1>4, <1>6, <2>6, <3>1 DEF Released
  <2> QED  BY <1>10, <2>4, <2>5, <2>6 DEF HandleConfirm
<1>11. CASE HandleClose(n, q, m, am)
  <2>1. AirApart(air', n, q) /\ SetLink(n, Released(t, q))
    BY <1>3, <1>11 DEF HandleClose
  <2> QED  BY <1>4, <1>6, <2>1 DEF Released
<1> QED  BY <1>5, <1>9, <1>10, <1>11

LEMMA HeardApart ==
  ASSUME BoundInv, NEW n \in Nodes, NEW q \in Others(n), Hear(n, q)
  PROVE  Apart(n, q)
<1> DEFINE t == link[n]
<1>1. LinksOK /\ TableApart(t, n, q)
  BY DEF BoundInv, LinksOK, TableApart
<1>2. AirApart(air, n, q)
  BY DEF BoundInv, AirApart
<1>3. PICK l \in LinkType :
        \/ SetLink(n, Released(t, q)) /\ air' = Put(air, n, q, <<Close(0, l.llid, FALSE)>>)
        \/ /\ SetLink(n, [t EXCEPT ![q] = Link(l.llid, l.plid, FALSE, l.opens + 1)])
           /\ air' = Put(air, n, q, <<Open(l)>>)
  BY <1>1, GotInType DEF Hear, TableApart
<1>4. AirApart(air', n, q)
  <2>1. 0 \in LinkId /\ l.llid \in LinkId
    BY LinkFields DEF LinkId
  <2> QED  BY <1>2, <1>3, <2>1, FramesOfLink, FramesOfClose, PutApart
<1>5. ASSUME NEW new, SetLink(n, [t EXCEPT ![q] = new])  PROVE Apart(n, q)
  BY <1>1, <1>4, <1>5, EntryApart DEF Apart, AirApart
<1> QED  BY <1>3, <1>5 DEF Released

\* Two nodes that are up on the same ids, with nothing between them, stay so whatever they, or
\* their neighbours, hear and answer: a node that is full gives up no link that is up, and only
\* a loss, a restart, a silence or a station the data path refuses ends one.
THEOREM OnlyFaultsUnsettle == Spec => SettledStays
<1> DEFINE Kept == \A d \in Pairs : Settled(d[1], d[2]) /\ faults' = faults => Settled(d[1], d[2])'
<1>1. ASSUME BoundInv, [Next]_vars  PROVE Kept
  <2> SUFFICES ASSUME NEW d \in Pairs, Settled(d[1], d[2]), faults' = faults
               PROVE  Settled(d[1], d[2])'
    OBVIOUS
  <2> DEFINE a == d[1]
             b == d[2]
  <2>1. /\ a \in Nodes /\ b \in Others(a) /\ b \in Nodes /\ a \in Others(b) /\ a # b
        /\ <<a, b>> \in Pairs /\ <<b, a>> \in Pairs
    BY DEF Pairs, Others
  <2>2. ~Fault
    <3>1. faults \in Nat
      BY <1>1, MpmAssumption DEF BoundInv, MpmAssumption
    <3> QED  BY <3>1 DEF Fault
  <2>3. /\ Estab(a, b) /\ Estab(b, a)
        /\ link[a][b].plid = link[b][a].llid /\ link[b][a].plid = link[a][b].llid
        /\ air[<<a, b>>] = <<>> /\ air[<<b, a>>] = <<>>
    BY DEF Settled
  <2>4. ASSUME link'[a][b] = link[a][b], link'[b][a] = link[b][a],
               air'[<<a, b>>] = air[<<a, b>>], air'[<<b, a>>] = air[<<b, a>>]
        PROVE  Settled(a, b)'
    BY <2>3, <2>4 DEF Settled, Estab
  <2>5. ASSUME NEW n \in Nodes, NEW q \in Others(n), Apart(n, q), {n, q} # {a, b}
        PROVE  Settled(a, b)'
    <3>1. <<a, b>> \notin {<<n, q>>, <<q, n>>} /\ <<b, a>> \notin {<<n, q>>, <<q, n>>}
      BY <2>5
    <3>2. link'[a][b] = link[a][b]
      BY <2>1, <2>3, <2>5 DEF Apart
    <3>3. link'[b][a] = link[b][a]
      BY <2>1, <2>3, <2>5 DEF Apart
    <3>4. air'[<<a, b>>] = air[<<a, b>>] /\ air'[<<b, a>>] = air[<<b, a>>]
      BY <2>1, <2>3, <2>5, <3>1 DEF Apart
    <3> QED  BY <2>4, <3>2, <3>3, <3>4
  <2>6. ASSUME NEW e \in Pairs, Receive(e[1], e[2])  PROVE Settled(a, b)'
    <3>1. e[1] \in Nodes /\ e[2] \in Others(e[1])
      BY DEF Pairs, Others
    <3>2. {e[1], e[2]} # {a, b}
      BY <2>3, <2>6 DEF Receive
    <3> QED  BY <1>1, <2>5, <2>6, <3>1, <3>2, HandledApart
  <2>7. ASSUME NEW e \in Pairs, Hear(e[1], e[2])  PROVE Settled(a, b)'
    <3>1. e[1] \in Nodes /\ e[2] \in Others(e[1])
      BY DEF Pairs, Others
    <3>2. ~Estab(e[1], e[2])
      BY <2>7 DEF Hear, Estab
    <3>3. {e[1], e[2]} # {a, b}
      BY <2>3, <3>1, <3>2 DEF Others
    <3> QED  BY <1>1, <2>5, <2>7, <3>1, <3>3, HeardApart
  <2>8. CASE UNCHANGED <<link, air>>
    BY <2>4, <2>8
  <2>9. UNCHANGED vars => UNCHANGED <<link, air>>
    BY DEF vars, tables
  <2>10. (\E n, p \in Nodes : Lapse(n, p)) => UNCHANGED <<link, air>>
    BY DEF Lapse, tables
  <2> QED  BY <1>1, <2>2, <2>6, <2>7, <2>8, <2>9, <2>10 DEF Next, Restart, Lose, Duplicate, Expire
<1>2. BoundInv /\ [Next]_vars => [Kept]_vars
  BY <1>1
<1> QED  BY <1>2, InitBoundInv, NextBoundInv, PTL DEF Spec, SettledStays

-----------------------------------------------------------------------------
(***************************************************************************)
(* The copies of batman-adv's tables.                                      *)
(*                                                                         *)
(* First what recursion gives: the functions that Toggled, Without and     *)
(* Apply choose are there (RunExists), and what holds of the first step    *)
(* and is kept by each holds of the last (AllOf).                          *)
(***************************************************************************)
LEMMA LeastOf ==
  ASSUME NEW T \in SUBSET Nat, T # {}
  PROVE  \E x \in T : \A y \in T : x <= y
<1>1. IsWellFoundedOn(OpToRel(<, Nat), Nat)
  BY NatLessThanWellFounded
<1>2. PICK x \in T : \A y \in T : ~(<<y, x>> \in OpToRel(<, Nat))
  BY <1>1, WFMin
<1>3. \A y \in T : ~(y < x)
  BY <1>2 DEF OpToRel
<1> QED  BY <1>3

\* Induction, of a set.
LEMMA AllOf ==
  ASSUME NEW k \in Nat, NEW T \in SUBSET Nat, 0 \in T, \A n \in 0 .. k - 1 : n \in T => n + 1 \in T
  PROVE  0 .. k \subseteq T
<1> SUFFICES ASSUME (0 .. k) \ T # {} PROVE FALSE
  OBVIOUS
<1>1. PICK x \in (0 .. k) \ T : \A y \in (0 .. k) \ T : x <= y
  <2>1. (0 .. k) \ T \in SUBSET Nat
    OBVIOUS
  <2> QED  BY <2>1, LeastOf
<1>2. x # 0 /\ x \in Nat /\ x <= k
  BY <1>1
<1>3. x - 1 \in 0 .. k - 1
  BY <1>2
<1>4. x - 1 \in T
  BY <1>1, <1>2, <1>3
<1>5. x - 1 + 1 \in T
  BY <1>3, <1>4
<1>6. x - 1 + 1 = x
  BY <1>2
<1> QED  BY <1>1, <1>5, <1>6

\* A function on the steps of a sequence is there.
IsRun(g, F, s0, q, n) == g = [i \in 0 .. n |-> IF i = 0 THEN s0 ELSE F[<<g[i - 1], q[i]>>]]

LEMMA RunExists ==
  ASSUME NEW A, NEW E, NEW F \in [A \X E -> A], NEW s0 \in A, NEW q \in Seq(E)
  PROVE  \E g \in [0 .. Len(q) -> A] : IsRun(g, F, s0, q, Len(q))
<1> DEFINE T == {n \in 0 .. Len(q) : \E g \in [0 .. n -> A] : IsRun(g, F, s0, q, n)}
<1>0. Len(q) \in Nat
  OBVIOUS
<1>1. 0 \in T
  <2>1. [i \in 0 .. 0 |-> s0] \in [0 .. 0 -> A]
    OBVIOUS
  <2>2. IsRun([i \in 0 .. 0 |-> s0], F, s0, q, 0)
    BY DEF IsRun
  <2> QED  BY <1>0, <2>1, <2>2
<1>2. ASSUME NEW n \in 0 .. Len(q) - 1, n \in T  PROVE n + 1 \in T
  <2>1. PICK g \in [0 .. n -> A] : IsRun(g, F, s0, q, n)
    BY <1>2
  <2>2. n \in Nat /\ n + 1 \in 0 .. Len(q) /\ n + 1 \in DOMAIN q /\ q[n + 1] \in E
    BY <1>0, <1>2
  <2> DEFINE h == [i \in 0 .. n + 1 |-> IF i = n + 1 THEN F[<<g[n], q[n + 1]>>] ELSE g[i]]
  <2>3. \A i \in 0 .. n : h[i] = g[i]
    BY <2>2
  <2>4. h[n + 1] = F[<<g[n], q[n + 1]>>]
    BY <2>2
  <2>5. h \in [0 .. n + 1 -> A]
    <3>1. F[<<g[n], q[n + 1]>>] \in A
      BY <2>2
    <3> QED  BY <2>2, <3>1
  <2>6. \A i \in 0 .. n + 1 : h[i] = IF i = 0 THEN s0 ELSE F[<<h[i - 1], q[i]>>]
    <3> SUFFICES ASSUME NEW i \in 0 .. n + 1  PROVE h[i] = IF i = 0 THEN s0 ELSE F[<<h[i - 1], q[i]>>]
      OBVIOUS
    <3> HIDE DEF h
    <3>1. CASE i = n + 1
      <4>1. i # 0 /\ i - 1 = n /\ n \in 0 .. n
        BY <2>2, <3>1
      <4>2. h[i - 1] = g[n]
        BY <2>3, <4>1
      <4> QED  BY <2>4, <3>1, <4>1, <4>2
    <3>2. CASE i # n + 1
      <4>1. i \in 0 .. n /\ (i # 0 => i - 1 \in 0 .. n)
        BY <2>2, <3>2
      <4>2. g[i] = IF i = 0 THEN s0 ELSE F[<<g[i - 1], q[i]>>]
        BY <2>1, <4>1 DEF IsRun
      <4> QED  BY <2>3, <4>1, <4>2
    <3> QED  BY <3>1, <3>2
  <2>7. IsRun(h, F, s0, q, n + 1)
    <3>1. h = [i \in 0 .. n + 1 |-> h[i]]
      OBVIOUS
    <3> HIDE DEF h
    <3> QED  BY <2>6, <3>1 DEF IsRun
  <2> HIDE DEF h
  <2> QED  BY <2>2, <2>5, <2>7
<1>3. T \in SUBSET Nat
  OBVIOUS
<1>4. 0 .. Len(q) \subseteq T
  <2> HIDE DEF T
  <2> QED  BY <1>0, <1>1, <1>2, <1>3, AllOf
<1>5. Len(q) \in T
  BY <1>0, <1>4
<1> QED  BY <1>5

-----------------------------------------------------------------------------
EventType(o) == [mac : MacsOf(o), del : BOOLEAN]
RowType == [mac : Macs, orig : Origs]

LEMMA TTFacts ==
  /\ IsFiniteSet(Origs) /\ IsFiniteSet(Clients)
  /\ Rows \in Nat /\ TempMax \in Nat /\ TempMax >= 1 /\ LocalMax \in Nat /\ ChangesMax \in Nat /\ ChangesMax >= 1
  /\ Resends \in Nat /\ Wrap \in Nat /\ Wrap >= 2
BY TTAssumption DEF TTAssumption

\* What some events add and remove.
DistinctMacs(q) == \A i, j \in 1 .. Len(q) : q[i].mac = q[j].mac => i = j
Added(q, n)   == {q[i].mac : i \in {j \in 1 .. n : ~q[j].del}}
Removed(q, n) == {q[i].mac : i \in {j \in 1 .. n : q[j].del}}
After(T, q)   == (T \ Removed(q, Len(q))) \cup Added(q, Len(q))

LEMMA OneMore ==
  ASSUME NEW E, NEW q \in Seq([mac : E, del : BOOLEAN]), NEW n \in 0 .. Len(q) - 1
  PROVE  LET e == q[n + 1] IN
         /\ e \in [mac : E, del : BOOLEAN]
         /\ Added(q, n + 1) = IF e.del THEN Added(q, n) ELSE Added(q, n) \cup {e.mac}
         /\ Removed(q, n + 1) = IF e.del THEN Removed(q, n) \cup {e.mac} ELSE Removed(q, n)
         /\ DistinctMacs(q) => e.mac \notin Added(q, n) /\ e.mac \notin Removed(q, n)
<1>1. Len(q) \in Nat /\ n \in Nat /\ n + 1 \in 1 .. Len(q) /\ 1 .. n + 1 = (1 .. n) \cup {n + 1} /\ n + 1 \notin 1 .. n
      /\ 1 .. n \subseteq 1 .. Len(q)
  OBVIOUS
<1>2. q[n + 1] \in [mac : E, del : BOOLEAN]
  BY <1>1, ElementOfSeq
<1>3. CASE q[n + 1].del
  <2>1. {j \in 1 .. n + 1 : ~q[j].del} = {j \in 1 .. n : ~q[j].del}
    BY <1>1, <1>3
  <2>2. {j \in 1 .. n + 1 : q[j].del} = {j \in 1 .. n : q[j].del} \cup {n + 1}
    BY <1>1, <1>3
  <2>3. Removed(q, n + 1) = Removed(q, n) \cup {q[n + 1].mac}
    BY <2>2 DEF Removed
  <2>4. Added(q, n + 1) = Added(q, n)
    BY <2>1 DEF Added
  <2>5. DistinctMacs(q) => q[n + 1].mac \notin Added(q, n) /\ q[n + 1].mac \notin Removed(q, n)
    BY <1>1 DEF DistinctMacs, Added, Removed
  <2> QED  BY <1>2, <1>3, <2>3, <2>4, <2>5
<1>4. CASE ~q[n + 1].del
  <2>1. {j \in 1 .. n + 1 : q[j].del} = {j \in 1 .. n : q[j].del}
    BY <1>1, <1>4
  <2>2. {j \in 1 .. n + 1 : ~q[j].del} = {j \in 1 .. n : ~q[j].del} \cup {n + 1}
    BY <1>1, <1>4
  <2>3. Added(q, n + 1) = Added(q, n) \cup {q[n + 1].mac}
    BY <2>2 DEF Added
  <2>4. Removed(q, n + 1) = Removed(q, n)
    BY <2>1 DEF Removed
  <2>5. DistinctMacs(q) => q[n + 1].mac \notin Added(q, n) /\ q[n + 1].mac \notin Removed(q, n)
    BY <1>1 DEF DistinctMacs, Added, Removed
  <2> QED  BY <1>2, <1>4, <2>3, <2>4, <2>5
<1> QED  BY <1>3, <1>4

LEMMA NoneYet == ASSUME NEW q  PROVE Added(q, 0) = {} /\ Removed(q, 0) = {}
BY DEF Added, Removed

\* What the fold over the events gives.
LEMMA ToggledIs ==
  ASSUME NEW E, NEW T \in SUBSET E, NEW q \in Seq([mac : E, del : BOOLEAN]), DistinctMacs(q)
  PROVE  Toggled(T, q) = After(T, q)
<1> DEFINE M == SUBSET E
           V == [mac : E, del : BOOLEAN]
           F == [x \in M \X V |-> IF x[2].del THEN x[1] \ {x[2].mac} ELSE x[1] \cup {x[2].mac}]
           Eq(g) == g = [i \in 0 .. Len(q) |->
                           IF i = 0 THEN T
                           ELSE IF q[i].del THEN g[i - 1] \ {q[i].mac} ELSE g[i - 1] \cup {q[i].mac}]
           r == CHOOSE g : Eq(g)
<1>0. Len(q) \in Nat /\ \A i \in 1 .. Len(q) : q[i] \in V
  <2>1. q \in Seq(V)
    OBVIOUS
  <2> HIDE DEF V
  <2> QED  BY <2>1, ElementOfSeq
<1>1. F \in [M \X V -> M]
  OBVIOUS
<1>2. PICK g \in [0 .. Len(q) -> M] : IsRun(g, F, T, q, Len(q))
  <2> HIDE DEF F, V
  <2>1. q \in Seq(V)
    BY DEF V
  <2> QED  BY <1>1, <2>1, RunExists
<1>3. Eq(g)
  <2>1. \A i \in 0 .. Len(q) : i # 0 => i - 1 \in 0 .. Len(q) /\ i \in 1 .. Len(q)
    BY <1>0
  <2>2. \A i \in 0 .. Len(q) : i # 0 => F[<<g[i - 1], q[i]>>] =
                                   IF q[i].del THEN g[i - 1] \ {q[i].mac} ELSE g[i - 1] \cup {q[i].mac}
    <3> SUFFICES ASSUME NEW i \in 0 .. Len(q), i # 0
                 PROVE F[<<g[i - 1], q[i]>>] =
                                   IF q[i].del THEN g[i - 1] \ {q[i].mac} ELSE g[i - 1] \cup {q[i].mac}
      OBVIOUS
    <3>1. <<g[i - 1], q[i]>> \in M \X V
      <4> HIDE DEF M, V
      <4>1. g[i - 1] \in M /\ q[i] \in V
        BY <1>0, <1>2, <2>1
      <4> QED  BY <4>1
    <3> HIDE DEF M, V
    <3> QED  BY <3>1
  <2> HIDE DEF F
  <2> QED  BY <1>2, <2>2 DEF IsRun
<1>4. Eq(r)
  <2> HIDE DEF Eq
  <2> QED  BY <1>3
<1>5. Toggled(T, q) = r[Len(q)]
  BY DEF Toggled
<1>6. r[0] = T /\ \A i \in 0 .. Len(q) - 1 :
        r[i + 1] = IF q[i + 1].del THEN r[i] \ {q[i + 1].mac} ELSE r[i] \cup {q[i + 1].mac}
  <2> HIDE DEF r
  <2>1. 0 \in 0 .. Len(q) /\ \A i \in 0 .. Len(q) - 1 : i + 1 \in 0 .. Len(q) /\ i + 1 # 0 /\ i + 1 - 1 = i
    BY <1>0
  <2>2. r[0] = T
    BY <1>4, <2>1
  <2>3. \A i \in 0 .. Len(q) - 1 :
        r[i + 1] = IF q[i + 1].del THEN r[i] \ {q[i + 1].mac} ELSE r[i] \cup {q[i + 1].mac}
    <3> DEFINE next(x, e) == IF e.del THEN x \ {e.mac} ELSE x \cup {e.mac}
    <3>1. \A j \in 0 .. Len(q) : j # 0 => r[j] = next(r[j - 1], q[j])
      BY <1>4
    <3>2. \A i \in 0 .. Len(q) - 1 : r[i + 1] = next(r[i], q[i + 1])
      <4> HIDE DEF Eq, next
      <4> QED  BY <2>1, <3>1
    <3> QED  BY <3>2
  <2> QED  BY <2>2, <2>3
<1> HIDE DEF r
<1> DEFINE good == {n \in 0 .. Len(q) : r[n] = (T \ Removed(q, n)) \cup Added(q, n)}
<1>7. 0 \in good
  BY <1>0, <1>6, NoneYet
<1>8. ASSUME NEW n \in 0 .. Len(q) - 1, n \in good  PROVE n + 1 \in good
  <2>1. n + 1 \in 0 .. Len(q)
    BY <1>0
  <2>2. r[n] = (T \ Removed(q, n)) \cup Added(q, n)
    BY <1>8
  <2>3. r[n + 1] = IF q[n + 1].del THEN r[n] \ {q[n + 1].mac} ELSE r[n] \cup {q[n + 1].mac}
    BY <1>6
  <2>4. r[n + 1] = (T \ Removed(q, n + 1)) \cup Added(q, n + 1)
    <3> DEFINE e == q[n + 1]
    <3>1. /\ Added(q, n + 1) = IF e.del THEN Added(q, n) ELSE Added(q, n) \cup {e.mac}
          /\ Removed(q, n + 1) = IF e.del THEN Removed(q, n) \cup {e.mac} ELSE Removed(q, n)
          /\ e.mac \notin Added(q, n) /\ e.mac \notin Removed(q, n)
      BY OneMore
    <3> HIDE DEF e
    <3>2. r[n + 1] = IF e.del THEN r[n] \ {e.mac} ELSE r[n] \cup {e.mac}
      BY <2>3 DEF e
    <3> QED  BY <2>2, <3>1, <3>2
  <2> QED  BY <2>1, <2>4
<1>9. 0 .. Len(q) \subseteq good
  <2>1. good \in SUBSET Nat
    OBVIOUS
  <2> HIDE DEF good
  <2> QED  BY <1>0, <1>7, <1>8, <2>1, AllOf
<1>10. Len(q) \in good
  BY <1>0, <1>9
<1> QED  BY <1>5, <1>10 DEF After

LEMMA AppendDistinct ==
  ASSUME NEW E, NEW s \in Seq(E), NEW x \in E, DistinctMacs(s), \A k \in 1 .. Len(s) : s[k].mac # x.mac
  PROVE  DistinctMacs(Append(s, x))
<1> DEFINE w == Append(s, x)
           l == Len(s)
<1>1. l \in Nat /\ Len(w) = l + 1 /\ w[l + 1] = x /\ \A k \in 1 .. l : w[k] = s[k]
  OBVIOUS
<1> HIDE DEF w, l
<1>2. \A k \in 1 .. l + 1 : k # l + 1 => k \in 1 .. l
  BY <1>1
<1>3. \A k \in 1 .. l : w[k].mac # x.mac
  BY <1>1 DEF l
<1>4. \A i, k \in 1 .. l : w[i].mac = w[k].mac => i = k
  BY <1>1 DEF l, DistinctMacs
<1>5. \A i, k \in 1 .. l + 1 : w[i].mac = w[k].mac => i = k
  BY <1>1, <1>2, <1>3, <1>4
<1>6. DistinctMacs(w)
  BY <1>1, <1>5 DEF DistinctMacs
<1> QED  BY <1>6 DEF w

LEMMA WithoutIs ==
  ASSUME NEW t \in Seq(RowType), NEW Ms, NEW Os
  PROVE  LET w == Without(t, Ms, Os) IN
         /\ w \in Seq(RowType) /\ Len(w) <= Len(t)
         /\ \A k \in 1 .. Len(w) : \E j \in 1 .. Len(t) : w[k] = t[j] /\ ~(t[j].mac \in Ms /\ t[j].orig \in Os)
         /\ DistinctMacs(t) => DistinctMacs(w)
<1> DEFINE gone(x) == x.mac \in Ms /\ x.orig \in Os
           F == [x \in Seq(RowType) \X RowType |-> IF gone(x[2]) THEN x[1] ELSE Append(x[1], x[2])]
           Eq(g) == g = [i \in 0 .. Len(t) |->
                           IF i = 0 THEN <<>>
                           ELSE IF t[i].mac \in Ms /\ t[i].orig \in Os THEN g[i - 1] ELSE Append(g[i - 1], t[i])]
           r == CHOOSE g : Eq(g)
<1>0. Len(t) \in Nat /\ \A i \in 1 .. Len(t) : t[i] \in RowType
  OBVIOUS
<1>1. F \in [Seq(RowType) \X RowType -> Seq(RowType)]
  OBVIOUS
<1>2. PICK g \in [0 .. Len(t) -> Seq(RowType)] : IsRun(g, F, <<>>, t, Len(t))
  <2> HIDE DEF F
  <2>1. <<>> \in Seq(RowType)
    OBVIOUS
  <2> QED  BY <1>1, <2>1, RunExists
<1>3. Eq(g)
  <2>1. \A i \in 0 .. Len(t) : i # 0 => i - 1 \in 0 .. Len(t) /\ i \in 1 .. Len(t)
    BY <1>0
  <2>2. \A i \in 0 .. Len(t) : i # 0 => F[<<g[i - 1], t[i]>>] = IF gone(t[i]) THEN g[i - 1] ELSE Append(g[i - 1], t[i])
    <3> SUFFICES ASSUME NEW i \in 0 .. Len(t), i # 0
                 PROVE F[<<g[i - 1], t[i]>>] = IF gone(t[i]) THEN g[i - 1] ELSE Append(g[i - 1], t[i])
      OBVIOUS
    <3>1. g[i - 1] \in Seq(RowType) /\ t[i] \in RowType
      BY <1>0, <1>2, <2>1
    <3> QED  BY <3>1
  <2> HIDE DEF F
  <2> QED  BY <1>2, <2>2 DEF IsRun
<1>4. Eq(r)
  <2> HIDE DEF Eq
  <2> QED  BY <1>3
<1>5. Without(t, Ms, Os) = r[Len(t)]
  BY DEF Without
<1>6. r[0] = <<>> /\ \A i \in 0 .. Len(t) - 1 : r[i + 1] = IF gone(t[i + 1]) THEN r[i] ELSE Append(r[i], t[i + 1])
  <2> HIDE DEF r
  <2>1. 0 \in 0 .. Len(t) /\ \A i \in 0 .. Len(t) - 1 : i + 1 \in 0 .. Len(t) /\ i + 1 # 0 /\ i + 1 - 1 = i
    BY <1>0
  <2>2. r[0] = <<>>
    BY <1>4, <2>1
  <2>3. \A i \in 0 .. Len(t) - 1 : r[i + 1] = IF gone(t[i + 1]) THEN r[i] ELSE Append(r[i], t[i + 1])
    <3>1. \A j \in 0 .. Len(t) : j # 0 => r[j] = IF gone(t[j]) THEN r[j - 1] ELSE Append(r[j - 1], t[j])
      BY <1>4
    <3> HIDE DEF Eq, gone
    <3> QED  BY <2>1, <3>1
  <2> QED  BY <2>2, <2>3
<1> HIDE DEF r
<1> DEFINE ok(w, n) == /\ w \in Seq(RowType) /\ Len(w) <= n
                       /\ \A k \in 1 .. Len(w) : \E j \in 1 .. n : w[k] = t[j] /\ ~gone(t[j])
                       /\ DistinctMacs(t) => DistinctMacs(w)
           good == {n \in 0 .. Len(t) : ok(r[n], n)}
<1>7. 0 \in good
  <2>1. r[0] = <<>> /\ Len(<<>>) = 0 /\ <<>> \in Seq(RowType) /\ 1 .. 0 = {}
    BY <1>6
  <2>2. DistinctMacs(<<>>)
    BY <2>1 DEF DistinctMacs
  <2>3. ok(<<>>, 0)
    BY <2>1, <2>2
  <2> HIDE DEF ok
  <2> QED  BY <1>0, <2>1, <2>3
<1>8. ASSUME NEW n \in 0 .. Len(t) - 1, n \in good  PROVE n + 1 \in good
  <2>1. n + 1 \in 0 .. Len(t) /\ n + 1 \in 1 .. Len(t) /\ n \in Nat
    BY <1>0
  <2>2. ok(r[n], n) /\ Len(r[n]) \in Nat
    BY <1>8
  <2>3. CASE gone(t[n + 1])
    <3>1. r[n + 1] = r[n]
      BY <1>6, <2>3
    <3> QED  BY <2>1, <2>2, <3>1
  <2>4. CASE ~gone(t[n + 1])
    <3> DEFINE w == Append(r[n], t[n + 1])
    <3>1. r[n + 1] = w
      BY <1>6, <2>4
    <3>2. w \in Seq(RowType) /\ Len(w) = Len(r[n]) + 1
          /\ \A k \in 1 .. Len(w) : w[k] = IF k = Len(r[n]) + 1 THEN t[n + 1] ELSE r[n][k]
      BY <1>0, <2>1, <2>2
    <3> HIDE DEF w
    <3>3. \A k \in 1 .. Len(w) : \E j \in 1 .. n + 1 : w[k] = t[j] /\ ~gone(t[j])
      <4> SUFFICES ASSUME NEW k \in 1 .. Len(w)  PROVE \E j \in 1 .. n + 1 : w[k] = t[j] /\ ~gone(t[j])
        OBVIOUS
      <4>1. CASE k = Len(r[n]) + 1
        <5>1. n + 1 \in 1 .. n + 1
          BY <2>1
        <5> QED  BY <2>4, <3>2, <4>1, <5>1
      <4>2. CASE k # Len(r[n]) + 1
        <5>1. k \in 1 .. Len(r[n])
          BY <2>2, <3>2, <4>2
        <5>2. PICK j \in 1 .. n : r[n][k] = t[j] /\ ~gone(t[j])
          BY <2>2, <5>1
        <5>3. j \in 1 .. n + 1
          BY <2>1
        <5> QED  BY <3>2, <4>2, <5>2, <5>3
      <4> QED  BY <4>1, <4>2
    <3>4. DistinctMacs(t) => DistinctMacs(w)
      <4> SUFFICES ASSUME DistinctMacs(t)  PROVE DistinctMacs(w)
        OBVIOUS
      <4>1. \A x \in 1 .. Len(r[n]) : r[n][x].mac # t[n + 1].mac
        <5> SUFFICES ASSUME NEW x \in 1 .. Len(r[n])  PROVE r[n][x].mac # t[n + 1].mac
          OBVIOUS
        <5>1. PICK j \in 1 .. n : r[n][x] = t[j]
          BY <2>2
        <5>2. j \in 1 .. Len(t) /\ j # n + 1
          BY <2>1, <1>0
        <5> HIDE DEF ok, gone
        <5> QED  BY <2>1, <5>1, <5>2 DEF DistinctMacs
      <4>2. r[n] \in Seq(RowType) /\ DistinctMacs(r[n]) /\ t[n + 1] \in RowType
        BY <1>0, <2>1, <2>2
      <4> QED  BY <4>1, <4>2, AppendDistinct DEF w
    <3>5. ok(w, n + 1)
      BY <2>2, <3>2, <3>3, <3>4
    <3> QED  BY <2>1, <3>1, <3>5
  <2> QED  BY <2>3, <2>4
<1>9. 0 .. Len(t) \subseteq good
  <2>1. good \in SUBSET Nat
    OBVIOUS
  <2> HIDE DEF good
  <2> QED  BY <1>0, <1>7, <1>8, <2>1, AllOf
<1>10. Len(t) \in good
  BY <1>0, <1>9
<1> QED  BY <1>5, <1>10

-----------------------------------------------------------------------------
Cells(h) == UNION {{<<o, m>> : m \in h[o]} : o \in Origs}
Holdings == [Origs -> SUBSET Macs]

LEMMA CellsIs ==
  ASSUME NEW h \in Holdings
  PROVE  /\ Cells(h) = {x \in Origs \X Macs : x[2] \in h[x[1]]}
         /\ IsFiniteSet(Cells(h)) /\ Cardinality(Cells(h)) \in Nat
         /\ \A t : RowsUsed(h, t) = Len(t) + Cardinality(Cells(h))
<1>1. Cells(h) = {x \in Origs \X Macs : x[2] \in h[x[1]]}
  <2>1. ASSUME NEW x \in Cells(h)  PROVE x \in Origs \X Macs /\ x[2] \in h[x[1]]
    BY <2>1 DEF Cells, Holdings
  <2>2. ASSUME NEW x \in Origs \X Macs, x[2] \in h[x[1]]  PROVE x \in Cells(h)
    BY <2>2 DEF Cells
  <2> QED  BY <2>1, <2>2
<1>2. IsFiniteSet(Origs \X Macs)
  <2>1. IsFiniteSet(Macs)
    BY TTFacts, FS_Union DEF Macs
  <2> QED  BY <2>1, TTFacts, FS_Product
<1>3. IsFiniteSet(Cells(h))
  BY <1>1, <1>2, FS_Subset
<1>4. Cardinality(Cells(h)) \in Nat
  BY <1>3, FS_CardinalityType
<1>5. \A t : RowsUsed(h, t) = Len(t) + Cardinality(Cells(h))
  BY DEF RowsUsed, Cells
<1> QED  BY <1>1, <1>3, <1>4, <1>5

\* More addresses take more rows.
LEMMA MoreCells ==
  ASSUME NEW h \in Holdings, NEW k \in Holdings, \A o \in Origs : h[o] \subseteq k[o]
  PROVE  Cardinality(Cells(h)) <= Cardinality(Cells(k))
<1>1. Cells(h) \subseteq Cells(k)
  BY CellsIs
<1> QED  BY <1>1, CellsIs, FS_Subset

LEMMA OneMoreCell ==
  ASSUME NEW h \in Holdings, NEW o \in Origs, NEW m \in Macs, m \notin h[o]
  PROVE  /\ [h EXCEPT ![o] = @ \cup {m}] \in Holdings
         /\ Cardinality(Cells([h EXCEPT ![o] = @ \cup {m}])) = Cardinality(Cells(h)) + 1
<1> DEFINE k == [h EXCEPT ![o] = @ \cup {m}]
<1>1. k \in Holdings /\ \A p \in Origs : k[p] = IF p = o THEN h[o] \cup {m} ELSE h[p]
  BY DEF Holdings
<1> HIDE DEF k
<1>2. Cells(k) = Cells(h) \cup {<<o, m>>}
  <2>1. Cells(k) = {x \in Origs \X Macs : x[2] \in k[x[1]]} /\ Cells(h) = {x \in Origs \X Macs : x[2] \in h[x[1]]}
    BY <1>1, CellsIs
  <2>2. \A x \in Origs \X Macs : x[2] \in k[x[1]] <=> x[2] \in h[x[1]] \/ x = <<o, m>>
    BY <1>1
  <2> QED  BY <2>1, <2>2
<1>3. <<o, m>> \notin Cells(h)
  BY CellsIs
<1>4. Cardinality(Cells(k)) = Cardinality(Cells(h)) + 1
  BY <1>2, <1>3, CellsIs, FS_AddElement
<1> QED  BY <1>1, <1>4 DEF k

RowsOK(h, t) ==
  /\ h \in Holdings /\ t \in Seq(RowType)
  /\ Len(t) + Cardinality(Cells(h)) <= Rows /\ Len(t) <= TempMax
  /\ DistinctMacs(t)
  /\ \A i \in 1 .. Len(t), p \in Origs : t[i].mac \notin h[p]

StateType == [held : Holdings, temps : Seq(RowType), ok : BOOLEAN]
StateOK(s) == s \in StateType /\ RowsOK(s.held, s.temps)

\* Fewer temporary rows, and announced ones no more, one apart.
LEMMA WithoutOK ==
  ASSUME NEW h \in Holdings, NEW t, RowsOK(h, t), NEW Ms, NEW Os
  PROVE  RowsOK(h, Without(t, Ms, Os))
<1> DEFINE w == Without(t, Ms, Os)
<1>1. /\ w \in Seq(RowType) /\ Len(w) <= Len(t) /\ DistinctMacs(w)
      /\ \A k \in 1 .. Len(w) : \E j \in 1 .. Len(t) : w[k] = t[j]
  BY WithoutIs DEF RowsOK
<1>2. Len(w) \in Nat /\ Len(t) \in Nat /\ Cardinality(Cells(h)) \in Nat
  BY <1>1, CellsIs DEF RowsOK
<1> HIDE DEF w
<1>3. Len(w) + Cardinality(Cells(h)) <= Rows /\ Len(w) <= TempMax
  BY <1>1, <1>2, TTFacts DEF RowsOK
<1>4. \A i \in 1 .. Len(w), p \in Origs : w[i].mac \notin h[p]
  BY <1>1 DEF RowsOK
<1>5. RowsOK(h, w)
  BY <1>1, <1>3, <1>4 DEF RowsOK
<1> QED  BY <1>5 DEF w

LEMMA TailOK ==
  ASSUME NEW t \in Seq(RowType), t # <<>>
  PROVE  /\ Tail(t) \in Seq(RowType) /\ Len(Tail(t)) = Len(t) - 1
         /\ \A k \in 1 .. Len(Tail(t)) : k + 1 \in 1 .. Len(t) /\ Tail(t)[k] = t[k + 1]
         /\ DistinctMacs(t) => DistinctMacs(Tail(t))
<1>1. /\ Tail(t) \in Seq(RowType) /\ Len(Tail(t)) = Len(t) - 1 /\ Len(t) \in Nat
      /\ \A k \in 1 .. Len(Tail(t)) : k + 1 \in 1 .. Len(t) /\ Tail(t)[k] = t[k + 1]
  OBVIOUS
<1>2. DistinctMacs(t) => DistinctMacs(Tail(t))
  <2> SUFFICES ASSUME DistinctMacs(t), NEW i \in 1 .. Len(Tail(t)), NEW k \in 1 .. Len(Tail(t)),
                      Tail(t)[i].mac = Tail(t)[k].mac
               PROVE  i = k
    BY DEF DistinctMacs
  <2>1. i + 1 = k + 1
    BY <1>1 DEF DistinctMacs
  <2> QED  BY <1>1, <2>1
<1> QED  BY <1>1, <1>2

\* row_add.
LEMMA RowAddIs ==
  ASSUME NEW s, StateOK(s), s.ok, NEW o \in Origs, NEW m \in Macs
  PROVE  LET r == RowAdd(s, o, m) IN
         /\ StateOK(r) /\ \A p \in Origs : p # o => r.held[p] = s.held[p]
         /\ r.ok => r.held[o] = s.held[o] \cup {m}
         /\ ~r.ok => r.held = s.held /\ m \notin s.held[o] /\ Cardinality(Cells(s.held)) >= Rows
<1> DEFINE t == Without(s.temps, {m}, Origs)
           add == [s.held EXCEPT ![o] = @ \cup {m}]
           r == RowAdd(s, o, m)
<1>1. /\ s.held \in Holdings /\ RowsOK(s.held, s.temps) /\ s.temps \in Seq(RowType)
      /\ Cardinality(Cells(s.held)) \in Nat
  BY CellsIs DEF StateOK, StateType
<1>2. RowsOK(s.held, t) /\ t \in Seq(RowType) /\ Len(t) \in Nat
  <2>1. RowsOK(s.held, t)
    BY <1>1, WithoutOK
  <2> HIDE DEF t
  <2>2. t \in Seq(RowType)
    BY <2>1 DEF RowsOK
  <2> QED  BY <2>1, <2>2
<1>3. \A k \in 1 .. Len(t) : t[k].mac # m
  <2> SUFFICES ASSUME NEW k \in 1 .. Len(t), t[k].mac = m  PROVE FALSE
    OBVIOUS
  <2>1. PICK j \in 1 .. Len(s.temps) : t[k] = s.temps[j] /\ ~(s.temps[j].mac \in {m} /\ s.temps[j].orig \in Origs)
    BY <1>1, WithoutIs
  <2>2. s.temps[j] \in RowType
    BY <1>1, <2>1, ElementOfSeq
  <2> QED  BY <2>1, <2>2 DEF RowType
<1>4. add \in Holdings /\ \A p \in Origs : add[p] = IF p = o THEN s.held[o] \cup {m} ELSE s.held[p]
  BY <1>1 DEF Holdings
<1>5. Cardinality(Cells(add)) = IF m \in s.held[o] THEN Cardinality(Cells(s.held)) ELSE Cardinality(Cells(s.held)) + 1
  <2>1. m \in s.held[o] => add = s.held
    BY <1>1, <1>4 DEF Holdings
  <2> QED  BY <1>1, <2>1, OneMoreCell
<1>6. RowsUsed(s.held, t) = Len(t) + Cardinality(Cells(s.held))
  BY <1>1, CellsIs
<1>7. r = IF m \in s.held[o] \/ RowsUsed(s.held, t) < Rows
          THEN [held |-> add, temps |-> t, ok |-> TRUE]
          ELSE IF t # <<>> THEN [held |-> add, temps |-> Tail(t), ok |-> TRUE]
          ELSE [held |-> s.held, temps |-> t, ok |-> FALSE]
  BY DEF RowAdd
<1> HIDE DEF t, add, r
<1>8. CASE m \in s.held[o] \/ RowsUsed(s.held, t) < Rows
  <2>1. r.held = add /\ r.temps = t /\ r.ok /\ r \in StateType
    BY <1>2, <1>4, <1>7, <1>8 DEF StateType
  <2>2. Len(t) + Cardinality(Cells(add)) <= Rows
    BY <1>1, <1>2, <1>5, <1>6, <1>8, TTFacts DEF RowsOK
  <2>3. \A i \in 1 .. Len(t), p \in Origs : t[i].mac \notin add[p]
    BY <1>2, <1>3, <1>4 DEF RowsOK
  <2>4. RowsOK(add, t)
    BY <1>2, <1>4, <2>2, <2>3 DEF RowsOK
  <2> QED  BY <1>4, <2>1, <2>4 DEF StateOK, r
<1>9. CASE ~(m \in s.held[o] \/ RowsUsed(s.held, t) < Rows) /\ t # <<>>
  <2>0. r.held = add /\ r.temps = Tail(t) /\ r.ok
    BY <1>7, <1>9
  <2>1. /\ Tail(t) \in Seq(RowType) /\ Len(Tail(t)) = Len(t) - 1 /\ DistinctMacs(Tail(t))
        /\ \A k \in 1 .. Len(Tail(t)) : k + 1 \in 1 .. Len(t) /\ Tail(t)[k] = t[k + 1]
    BY <1>2, <1>9, TailOK DEF RowsOK
  <2>2. r \in StateType
    BY <1>4, <1>7, <1>9, <2>1 DEF StateType
  <2>3. Len(Tail(t)) + Cardinality(Cells(add)) <= Rows /\ Len(Tail(t)) <= TempMax
    BY <1>1, <1>2, <1>5, <1>9, <2>1, TTFacts DEF RowsOK
  <2>4. \A i \in 1 .. Len(Tail(t)), p \in Origs : Tail(t)[i].mac \notin add[p]
    BY <1>2, <1>3, <1>4, <2>1 DEF RowsOK
  <2>5. RowsOK(add, Tail(t))
    BY <1>4, <2>1, <2>3, <2>4 DEF RowsOK
  <2> QED  BY <1>4, <2>0, <2>2, <2>5 DEF StateOK, r
<1>10. CASE ~(m \in s.held[o] \/ RowsUsed(s.held, t) < Rows) /\ t = <<>>
  <2>1. r.held = s.held /\ r.temps = t /\ ~r.ok /\ r \in StateType
    BY <1>1, <1>2, <1>7, <1>10 DEF StateType
  <2>2. Len(t) = 0
    BY <1>10
  <2>3. Cardinality(Cells(s.held)) >= Rows
    BY <1>1, <1>6, <1>10, <2>2, TTFacts
  <2> QED  BY <1>2, <1>10, <2>1, <2>3 DEF StateOK, r
<1> QED  BY <1>8, <1>9, <1>10

LEMMA RowDelIs ==
  ASSUME NEW s, StateOK(s), s.ok, NEW o \in Origs, NEW m \in Macs
  PROVE  LET r == RowDel(s, o, m) IN
         /\ StateOK(r) /\ \A p \in Origs : p # o => r.held[p] = s.held[p]
         /\ r.ok /\ r.held[o] = s.held[o] \ {m}
<1> DEFINE t == Without(s.temps, {m}, {o})
           h == [s.held EXCEPT ![o] = @ \ {m}]
           r == RowDel(s, o, m)
<1>1. /\ s.held \in Holdings /\ RowsOK(s.held, s.temps) /\ s.temps \in Seq(RowType)
  BY DEF StateOK, StateType
<1>2. RowsOK(s.held, t) /\ t \in Seq(RowType) /\ Len(t) \in Nat
  <2>1. RowsOK(s.held, t)
    BY <1>1, WithoutOK
  <2> HIDE DEF t
  <2>2. t \in Seq(RowType)
    BY <2>1 DEF RowsOK
  <2> QED  BY <2>1, <2>2
<1>3. h \in Holdings /\ \A p \in Origs : h[p] = IF p = o THEN s.held[o] \ {m} ELSE s.held[p]
  BY <1>1 DEF Holdings
<1>4. r = [held |-> h, temps |-> t, ok |-> s.ok]
  <2>1. s = [held |-> s.held, temps |-> s.temps, ok |-> s.ok]
    BY DEF StateOK, StateType
  <2>2. r = [s EXCEPT !.held = h, !.temps = t]
    BY <2>1 DEF RowDel
  <2> HIDE DEF t, h, r
  <2> QED  BY <2>1, <2>2
<1> HIDE DEF t, h
<1>5. Cardinality(Cells(h)) <= Cardinality(Cells(s.held)) /\ Cardinality(Cells(h)) \in Nat
      /\ Cardinality(Cells(s.held)) \in Nat
  <2>1. \A p \in Origs : h[p] \subseteq s.held[p]
    BY <1>3
  <2> QED  BY <1>1, <1>3, <2>1, MoreCells, CellsIs
<1>6. Len(t) + Cardinality(Cells(h)) <= Rows
  BY <1>2, <1>5, TTFacts DEF RowsOK
<1>7. \A i \in 1 .. Len(t), p \in Origs : t[i].mac \notin h[p]
  BY <1>2, <1>3 DEF RowsOK
<1>8. RowsOK(h, t)
  BY <1>2, <1>3, <1>6, <1>7 DEF RowsOK
<1> HIDE DEF r
<1>9. r \in StateType /\ r.ok /\ r.held = h /\ r.temps = t
  BY <1>2, <1>3, <1>4 DEF StateType
<1> QED  BY <1>3, <1>8, <1>9 DEF StateOK, r

\* One change of apply.
LEMMA AppliedIs ==
  ASSUME NEW s, StateOK(s), NEW o \in Origs, NEW e \in EventType(o)
  PROVE  LET r == Applied(s, o, e) IN
         /\ StateOK(r) /\ \A p \in Origs : p # o => r.held[p] = s.held[p]
         /\ s.held[o] \subseteq MacsOf(o) => r.held[o] \subseteq MacsOf(o)
         /\ r.ok => s.ok /\ r.held[o] = IF e.del THEN s.held[o] \ {e.mac} ELSE s.held[o] \cup {e.mac}
         /\ ~r.ok /\ s.ok => ~e.del /\ r.held = s.held /\ e.mac \notin s.held[o] /\ Cardinality(Cells(s.held)) >= Rows
<1> DEFINE r == Applied(s, o, e)
<1>1. e.mac \in MacsOf(o) /\ e.mac \in Macs /\ e.del \in BOOLEAN
  BY DEF EventType, MacsOf, Macs
<1>2. CASE ~s.ok
  BY <1>2 DEF Applied
<1>3. CASE s.ok /\ e.del
  <2>1. r = RowDel(s, o, e.mac)
    BY <1>3 DEF Applied
  <2>2. /\ StateOK(r) /\ \A p \in Origs : p # o => r.held[p] = s.held[p]
        /\ r.ok /\ r.held[o] = s.held[o] \ {e.mac}
    BY <1>1, <1>3, <2>1, RowDelIs
  <2> HIDE DEF r
  <2>3. s.held[o] \subseteq MacsOf(o) => r.held[o] \subseteq MacsOf(o)
    BY <2>2
  <2> QED  BY <1>3, <2>2, <2>3 DEF r
<1>4. CASE s.ok /\ ~e.del
  <2>1. r = RowAdd(s, o, e.mac)
    BY <1>4 DEF Applied
  <2>2. /\ StateOK(r) /\ \A p \in Origs : p # o => r.held[p] = s.held[p]
        /\ r.ok => r.held[o] = s.held[o] \cup {e.mac}
        /\ ~r.ok => r.held = s.held /\ e.mac \notin s.held[o] /\ Cardinality(Cells(s.held)) >= Rows
    BY <1>1, <1>4, <2>1, RowAddIs
  <2> HIDE DEF r
  <2>3. s.held[o] \subseteq MacsOf(o) => r.held[o] \subseteq MacsOf(o)
    BY <1>1, <2>2
  <2> QED  BY <1>4, <2>2, <2>3 DEF r
<1> QED  BY <1>2, <1>3, <1>4

\* apply: what it leaves of the other tables, what it makes of this one, and that it ends well
\* when the rows are enough.
RoomFor(h, o, q, k) ==
  /\ \A i \in 1 .. Len(q) : ~q[i].del
  /\ k \in Holdings /\ Cardinality(Cells(k)) <= Rows
  /\ h[o] \cup Added(q, Len(q)) \subseteq k[o] /\ \A p \in Origs : p # o => k[p] = h[p]

LEMMA AddedGrows ==
  ASSUME NEW q, NEW l \in Nat, NEW n \in 0 .. l
  PROVE  Added(q, n) \subseteq Added(q, l)
<1>1. 1 .. n \subseteq 1 .. l
  OBVIOUS
<1> QED  BY <1>1 DEF Added

\* The steps of apply.
LEMMA ApplySteps ==
  ASSUME NEW h, NEW t, RowsOK(h, t), NEW o \in Origs, NEW q \in Seq(EventType(o))
  PROVE  \E r : /\ Apply(h, t, o, q) = r[Len(q)]
                /\ r[0] = [held |-> h, temps |-> t, ok |-> TRUE]
                /\ \A i \in 0 .. Len(q) - 1 : r[i + 1] = Applied(r[i], o, q[i + 1])
<1> DEFINE M == {s \in StateType : StateOK(s)}
           V == EventType(o)
           F == [x \in M \X V |-> Applied(x[1], o, x[2])]
           s0 == [held |-> h, temps |-> t, ok |-> TRUE]
           Eq(g) == g = [i \in 0 .. Len(q) |->
                           IF i = 0 THEN [held |-> h, temps |-> t, ok |-> TRUE]
                           ELSE Applied(g[i - 1], o, q[i])]
           r == CHOOSE g : Eq(g)
<1>0. Len(q) \in Nat /\ \A i \in 1 .. Len(q) : q[i] \in V
  <2> HIDE DEF V
  <2>1. q \in Seq(V)
    BY DEF V
  <2> QED  BY <2>1, ElementOfSeq
<1>1. F \in [M \X V -> M]
  <2>1. \A x \in M \X V : Applied(x[1], o, x[2]) \in M
    <3> SUFFICES ASSUME NEW x \in M \X V  PROVE Applied(x[1], o, x[2]) \in M
      OBVIOUS
    <3>1. StateOK(x[1]) /\ x[2] \in EventType(o)
      OBVIOUS
    <3>2. StateOK(Applied(x[1], o, x[2]))
      BY <3>1, AppliedIs
    <3> QED  BY <3>2 DEF StateOK
  <2> HIDE DEF M, V
  <2> QED  BY <2>1
<1>2. s0 \in M
  BY DEF StateOK, StateType, RowsOK
<1>3. PICK g \in [0 .. Len(q) -> M] : IsRun(g, F, s0, q, Len(q))
  <2> HIDE DEF F, V, M, s0
  <2>1. q \in Seq(V)
    BY DEF V
  <2> QED  BY <1>1, <1>2, <2>1, RunExists
<1>4. Eq(g)
  <2>1. \A i \in 0 .. Len(q) : i # 0 => F[<<g[i - 1], q[i]>>] = Applied(g[i - 1], o, q[i])
    <3> SUFFICES ASSUME NEW i \in 0 .. Len(q), i # 0
                 PROVE F[<<g[i - 1], q[i]>>] = Applied(g[i - 1], o, q[i])
      OBVIOUS
    <3>1. i - 1 \in 0 .. Len(q) /\ i \in 1 .. Len(q)
      BY <1>0
    <3> HIDE DEF M, V
    <3>2. g[i - 1] \in M /\ q[i] \in V
      BY <1>0, <1>3, <3>1
    <3>3. <<g[i - 1], q[i]>> \in M \X V
      BY <3>2
    <3> QED  BY <3>3
  <2> HIDE DEF F
  <2> QED  BY <1>3, <2>1 DEF IsRun
<1>5. Eq(r)
  <2> HIDE DEF Eq
  <2> QED  BY <1>4
<1>6. Apply(h, t, o, q) = r[Len(q)]
  BY DEF Apply
<1> HIDE DEF r
<1>7. r[0] = s0
  BY <1>0, <1>5
<1>8. \A j \in 0 .. Len(q) : j # 0 => r[j] = Applied(r[j - 1], o, q[j])
  BY <1>5
<1>9. \A i \in 0 .. Len(q) - 1 : r[i + 1] = Applied(r[i], o, q[i + 1])
  <2> HIDE DEF Eq
  <2>1. \A i \in 0 .. Len(q) - 1 : i + 1 \in 0 .. Len(q) /\ i + 1 # 0 /\ i + 1 - 1 = i
    BY <1>0
  <2> QED  BY <1>8, <2>1
<1> QED  BY <1>6, <1>7, <1>9

LEMMA ApplyIs ==
  ASSUME NEW h, NEW t, RowsOK(h, t), NEW o \in Origs, h[o] \subseteq MacsOf(o),
         NEW q \in Seq(EventType(o)), DistinctMacs(q)
  PROVE  LET r == Apply(h, t, o, q) IN
         /\ StateOK(r) /\ \A p \in Origs : p # o => r.held[p] = h[p]
         /\ r.held[o] \subseteq MacsOf(o)
         /\ r.ok => r.held[o] = After(h[o], q)
         /\ \A k : RoomFor(h, o, q, k) => r.ok
<1>1. PICK r : /\ Apply(h, t, o, q) = r[Len(q)]
               /\ r[0] = [held |-> h, temps |-> t, ok |-> TRUE]
               /\ \A i \in 0 .. Len(q) - 1 : r[i + 1] = Applied(r[i], o, q[i + 1])
  BY ApplySteps
<1>2. Len(q) \in Nat /\ \A i \in 1 .. Len(q) : q[i] \in EventType(o)
  <2> DEFINE V == EventType(o)
  <2>1. q \in Seq(V)
    OBVIOUS
  <2> HIDE DEF V
  <2>2. Len(q) \in Nat /\ \A i \in 1 .. Len(q) : q[i] \in V
    BY <2>1, ElementOfSeq
  <2> QED  BY <2>2 DEF V
<1> DEFINE fine(s, n) ==
             /\ StateOK(s) /\ \A p \in Origs : p # o => s.held[p] = h[p]
             /\ s.held[o] \subseteq MacsOf(o)
             /\ s.ok => s.held[o] = (h[o] \ Removed(q, n)) \cup Added(q, n)
             /\ (\E k : RoomFor(h, o, q, k)) => s.ok
           good == {n \in 0 .. Len(q) : fine(r[n], n)}
<1>3. 0 \in good
  <2>1. StateOK(r[0])
    BY <1>1 DEF StateOK, StateType, RowsOK
  <2>2. fine(r[0], 0)
    BY <1>1, <2>1, NoneYet
  <2> HIDE DEF fine
  <2> QED  BY <1>2, <2>2
<1>4. ASSUME NEW n \in 0 .. Len(q) - 1, n \in good  PROVE n + 1 \in good
  <2> DEFINE s == r[n]
             u == r[n + 1]
             e == q[n + 1]
  <2>1. n + 1 \in 0 .. Len(q) /\ n + 1 \in 1 .. Len(q) /\ n \in Nat /\ fine(s, n) /\ e \in EventType(o)
    BY <1>2, <1>4
  <2>2. u = Applied(s, o, e)
    BY <1>1
  <2> HIDE DEF s, u
  <2>3. /\ StateOK(u) /\ \A p \in Origs : p # o => u.held[p] = s.held[p]
        /\ s.held[o] \subseteq MacsOf(o) => u.held[o] \subseteq MacsOf(o)
        /\ u.ok => s.ok /\ u.held[o] = IF e.del THEN s.held[o] \ {e.mac} ELSE s.held[o] \cup {e.mac}
        /\ ~u.ok /\ s.ok => ~e.del /\ u.held = s.held /\ e.mac \notin s.held[o] /\ Cardinality(Cells(s.held)) >= Rows
    <3> DEFINE is(x) ==
          /\ StateOK(x) /\ \A p \in Origs : p # o => x.held[p] = s.held[p]
          /\ s.held[o] \subseteq MacsOf(o) => x.held[o] \subseteq MacsOf(o)
          /\ x.ok => s.ok /\ x.held[o] = IF e.del THEN s.held[o] \ {e.mac} ELSE s.held[o] \cup {e.mac}
          /\ ~x.ok /\ s.ok => ~e.del /\ x.held = s.held /\ e.mac \notin s.held[o] /\ Cardinality(Cells(s.held)) >= Rows
    <3>1. StateOK(s) /\ e \in EventType(o)
      BY <2>1
    <3>2. is(Applied(s, o, e))
      <4> HIDE DEF fine, e
      <4> QED  BY <3>1, AppliedIs
    <3>3. is(u)
      <4> HIDE DEF fine, e, is
      <4> QED  BY <2>2, <3>2, Zenon
    <3> QED  BY <3>3
  <2>4. /\ Added(q, n + 1) = IF e.del THEN Added(q, n) ELSE Added(q, n) \cup {e.mac}
        /\ Removed(q, n + 1) = IF e.del THEN Removed(q, n) \cup {e.mac} ELSE Removed(q, n)
        /\ e.mac \notin Added(q, n) /\ e.mac \notin Removed(q, n)
    <3> DEFINE E == MacsOf(o)
    <3>1. q \in Seq([mac : E, del : BOOLEAN])
      BY DEF EventType
    <3> HIDE DEF E
    <3> QED  BY <3>1, OneMore
  <2> HIDE DEF e
  <2>5. u.ok => u.held[o] = (h[o] \ Removed(q, n + 1)) \cup Added(q, n + 1)
    BY <2>1, <2>3, <2>4
  <2>6. (\E k : RoomFor(h, o, q, k)) => u.ok
    <3> SUFFICES ASSUME NEW k, RoomFor(h, o, q, k), ~u.ok  PROVE FALSE
      OBVIOUS
    <3>1. s.ok /\ ~e.del /\ e.mac \notin s.held[o] /\ Cardinality(Cells(s.held)) >= Rows
      BY <2>1, <2>3
    <3>2. Removed(q, n) = {}
      BY <1>2, <2>1 DEF RoomFor, Removed
    <3>3. s.held[o] = h[o] \cup Added(q, n)
      BY <2>1, <3>1, <3>2
    <3>4. Added(q, n + 1) \subseteq Added(q, Len(q))
      BY <1>2, <2>1, AddedGrows
    <3>5. s.held[o] \cup {e.mac} \subseteq k[o]
      BY <2>4, <3>1, <3>3, <3>4 DEF RoomFor
    <3> DEFINE d == [s.held EXCEPT ![o] = @ \cup {e.mac}]
    <3>6. s.held \in Holdings /\ e.mac \in Macs
      BY <2>1 DEF StateOK, StateType, EventType, MacsOf, Macs
    <3>7. d \in Holdings /\ Cardinality(Cells(d)) = Cardinality(Cells(s.held)) + 1
      BY <3>1, <3>6, OneMoreCell
    <3>8. \A p \in Origs : d[p] \subseteq k[p]
      BY <2>1, <3>5, <3>6 DEF RoomFor, Holdings
    <3> HIDE DEF d
    <3>9. Cardinality(Cells(d)) <= Cardinality(Cells(k))
      BY <3>7, <3>8, MoreCells DEF RoomFor
    <3>10. Cardinality(Cells(d)) \in Nat /\ Cardinality(Cells(k)) \in Nat /\ Cardinality(Cells(s.held)) \in Nat
      BY <3>6, <3>7, CellsIs DEF RoomFor
    <3> QED  BY <3>1, <3>7, <3>9, <3>10, TTFacts DEF RoomFor
  <2>7. fine(u, n + 1)
    BY <2>1, <2>3, <2>5, <2>6
  <2> HIDE DEF fine
  <2> QED  BY <2>1, <2>7 DEF u
<1>5. 0 .. Len(q) \subseteq good
  <2>1. good \in SUBSET Nat
    OBVIOUS
  <2> HIDE DEF good
  <2> QED  BY <1>2, <1>3, <1>4, <2>1, AllOf
<1>6. Len(q) \in good
  BY <1>2, <1>5
<1>7. fine(r[Len(q)], Len(q))
  BY <1>6
<1> QED  BY <1>1, <1>7 DEF After

-----------------------------------------------------------------------------
(***************************************************************************)
(* The queue of events.                                                    *)
(***************************************************************************)
LEMMA RemoveAtIs ==
  ASSUME NEW E, NEW q \in Seq(E), NEW i \in 1 .. Len(q)
  PROVE  LET r == RemoveAt(q, i) IN
         /\ r \in Seq(E) /\ Len(r) = Len(q) - 1
         /\ \A k \in 1 .. Len(q) - 1 : r[k] = IF k < i THEN q[k] ELSE q[k + 1]
<1> DEFINE a == SubSeq(q, 1, i - 1)
           b == SubSeq(q, i + 1, Len(q))
<1>1. Len(q) \in Nat /\ i \in Nat /\ 1 <= i /\ i <= Len(q)
  OBVIOUS
<1>2. a \in Seq(E) /\ Len(a) = i - 1 /\ \A k \in 1 .. i - 1 : a[k] = q[k]
  BY <1>1, SubSeqProperties
<1>3. b \in Seq(E) /\ Len(b) = Len(q) - i /\ \A k \in 1 .. Len(q) - i : b[k] = q[k + i]
  BY <1>1, SubSeqProperties
<1> HIDE DEF a, b
<1>4. /\ a \o b \in Seq(E) /\ Len(a \o b) = Len(q) - 1
      /\ \A k \in 1 .. Len(q) - 1 : (a \o b)[k] = IF k < i THEN q[k] ELSE q[k + 1]
  <2>1. a \o b \in Seq(E) /\ Len(a \o b) = Len(q) - 1
    <3>1. a \o b \in Seq(E) /\ Len(a \o b) = Len(a) + Len(b)
      BY <1>2, <1>3, ConcatProperties
    <3> QED  BY <1>1, <1>2, <1>3, <3>1
  <2>2. ASSUME NEW k \in 1 .. Len(q) - 1  PROVE (a \o b)[k] = IF k < i THEN q[k] ELSE q[k + 1]
    <3>1. (a \o b)[k] = IF k <= Len(a) THEN a[k] ELSE b[k - Len(a)]
      <4>1. k \in 1 .. Len(a) + Len(b)
        BY <1>1, <1>2, <1>3
      <4> QED  BY <1>2, <1>3, <4>1, ConcatProperties
    <3>2. CASE k < i
      <4>1. k <= Len(a) /\ k \in 1 .. i - 1
        BY <1>1, <1>2, <3>2
      <4> QED  BY <1>2, <3>1, <3>2, <4>1
    <3>3. CASE ~(k < i)
      <4>1. ~(k <= Len(a)) /\ k - Len(a) \in 1 .. Len(q) - i /\ k - Len(a) + i = k + 1
        BY <1>1, <1>2, <3>3
      <4>2. b[k - Len(a)] = q[k + 1]
        BY <1>3, <4>1
      <4> QED  BY <3>1, <3>3, <4>1, <4>2
    <3> QED  BY <3>2, <3>3
  <2> QED  BY <2>1, <2>2
<1> QED  BY <1>4 DEF RemoveAt, a, b

Adds(q) == Added(q, Len(q))
Dels(q) == Removed(q, Len(q))
Events(E) == Seq([mac : E, del : BOOLEAN])

LEMMA MacsIn ==
  ASSUME NEW E, NEW q \in Events(E)
  PROVE  /\ Adds(q) \subseteq E /\ Dels(q) \subseteq E
         /\ DistinctMacs(q) => Adds(q) \cap Dels(q) = {}
<1> DEFINE V == [mac : E, del : BOOLEAN]
<1>1. \A i \in 1 .. Len(q) : q[i] \in V
  <2>1. q \in Seq(V)
    BY DEF Events
  <2> HIDE DEF V
  <2> QED  BY <2>1, ElementOfSeq
<1> QED  BY <1>1 DEF Adds, Dels, Added, Removed, DistinctMacs

\* An opposite event that is waiting and this one cancel out, ...
LEMMA Cancels ==
  ASSUME NEW E, NEW q \in Events(E), DistinctMacs(q), NEW i \in 1 .. Len(q)
  PROVE  LET r == RemoveAt(q, i) IN
         /\ r \in Events(E) /\ DistinctMacs(r) /\ Len(r) <= Len(q)
         /\ Adds(r) = Adds(q) \ {q[i].mac} /\ Dels(r) = Dels(q) \ {q[i].mac}
<1> DEFINE r == RemoveAt(q, i)
           from(k) == IF k < i THEN k ELSE k + 1
<1>1. /\ r \in Events(E) /\ Len(r) = Len(q) - 1 /\ Len(q) \in Nat
      /\ \A k \in 1 .. Len(q) - 1 : r[k] = IF k < i THEN q[k] ELSE q[k + 1]
  <2> DEFINE V == [mac : E, del : BOOLEAN]
  <2>1. q \in Seq(V)
    BY DEF Events
  <2> HIDE DEF V
  <2>2. /\ r \in Seq(V) /\ Len(r) = Len(q) - 1 /\ Len(q) \in Nat
        /\ \A k \in 1 .. Len(q) - 1 : r[k] = IF k < i THEN q[k] ELSE q[k + 1]
    <3>1. Len(q) \in Nat
      BY <2>1
    <3>2. RemoveAt(q, i) \in Seq(V) /\ Len(RemoveAt(q, i)) = Len(q) - 1
          /\ \A k \in 1 .. Len(q) - 1 : RemoveAt(q, i)[k] = IF k < i THEN q[k] ELSE q[k + 1]
      <4> HIDE DEF r
      <4> QED  BY <2>1, RemoveAtIs
    <3> QED  BY <3>1, <3>2
  <2> QED  BY <2>2 DEF V, Events
<1> HIDE DEF r
<1>2. \A k \in 1 .. Len(r) : from(k) \in 1 .. Len(q) /\ from(k) # i /\ r[k] = q[from(k)]
  BY <1>1
<1>3. \A k, l \in 1 .. Len(r) : from(k) = from(l) => k = l
  BY <1>1
<1>4. \A j \in 1 .. Len(q) : j # i => \E k \in 1 .. Len(r) : from(k) = j
  <2> SUFFICES ASSUME NEW j \in 1 .. Len(q), j # i  PROVE \E k \in 1 .. Len(r) : from(k) = j
    OBVIOUS
  <2>1. CASE j < i
    <3>1. j \in 1 .. Len(r) /\ from(j) = j
      BY <1>1, <2>1
    <3> QED  BY <3>1
  <2>2. CASE j > i
    <3>1. j - 1 \in 1 .. Len(r) /\ from(j - 1) = j
      BY <1>1, <2>2
    <3> QED  BY <3>1
  <2> QED  BY <2>1, <2>2
<1> HIDE DEF from
<1>5. DistinctMacs(r)
  BY <1>2, <1>3 DEF DistinctMacs
<1>6. \A j \in 1 .. Len(q) : j # i => q[j].mac # q[i].mac
  BY DEF DistinctMacs
<1>7. ASSUME NEW m  PROVE m \in Adds(r) <=> m \in Adds(q) \ {q[i].mac}
  <2>1. m \in Adds(r) <=> \E k \in 1 .. Len(r) : ~r[k].del /\ m = r[k].mac
    BY DEF Adds, Added
  <2>2. m \in Adds(q) <=> \E j \in 1 .. Len(q) : ~q[j].del /\ m = q[j].mac
    BY DEF Adds, Added
  <2>3. ASSUME NEW k \in 1 .. Len(r), ~r[k].del, m = r[k].mac  PROVE m \in Adds(q) \ {q[i].mac}
    BY <1>2, <1>6, <2>2, <2>3
  <2>4. ASSUME NEW j \in 1 .. Len(q), ~q[j].del, m = q[j].mac, m # q[i].mac  PROVE m \in Adds(r)
    <3>1. PICK k \in 1 .. Len(r) : from(k) = j
      BY <1>4, <2>4
    <3> QED  BY <1>2, <2>1, <2>4, <3>1
  <2> QED  BY <2>1, <2>2, <2>3, <2>4
<1>8. ASSUME NEW m  PROVE m \in Dels(r) <=> m \in Dels(q) \ {q[i].mac}
  <2>1. m \in Dels(r) <=> \E k \in 1 .. Len(r) : r[k].del /\ m = r[k].mac
    BY DEF Dels, Removed
  <2>2. m \in Dels(q) <=> \E j \in 1 .. Len(q) : q[j].del /\ m = q[j].mac
    BY DEF Dels, Removed
  <2>3. ASSUME NEW k \in 1 .. Len(r), r[k].del, m = r[k].mac  PROVE m \in Dels(q) \ {q[i].mac}
    BY <1>2, <1>6, <2>2, <2>3
  <2>4. ASSUME NEW j \in 1 .. Len(q), q[j].del, m = q[j].mac, m # q[i].mac  PROVE m \in Dels(r)
    <3>1. PICK k \in 1 .. Len(r) : from(k) = j
      BY <1>4, <2>4
    <3> QED  BY <1>2, <2>1, <2>4, <3>1
  <2> QED  BY <2>1, <2>2, <2>3, <2>4
<1>9. Len(r) <= Len(q)
  BY <1>1
<1> QED  BY <1>1, <1>5, <1>7, <1>8, <1>9 DEF r

\* ... or it waits behind the others.
LEMMA Waits ==
  ASSUME NEW E, NEW q \in Events(E), DistinctMacs(q), NEW e \in [mac : E, del : BOOLEAN],
         e.mac \notin Adds(q), e.mac \notin Dels(q)
  PROVE  LET r == Append(q, e) IN
         /\ r \in Events(E) /\ DistinctMacs(r) /\ Len(r) = Len(q) + 1
         /\ Adds(r) = (IF e.del THEN Adds(q) ELSE Adds(q) \cup {e.mac})
         /\ Dels(r) = (IF e.del THEN Dels(q) \cup {e.mac} ELSE Dels(q))
<1> DEFINE r == Append(q, e)
           V == [mac : E, del : BOOLEAN]
<1>1. /\ r \in Events(E) /\ Len(r) = Len(q) + 1 /\ Len(q) \in Nat
      /\ r[Len(q) + 1] = e /\ \A k \in 1 .. Len(q) : r[k] = q[k]
  <2>1. q \in Seq(V) /\ e \in V
    BY DEF Events
  <2> HIDE DEF V
  <2>2. r \in Seq(V) /\ Len(r) = Len(q) + 1 /\ Len(q) \in Nat
        /\ r[Len(q) + 1] = e /\ \A k \in 1 .. Len(q) : r[k] = q[k]
    BY <2>1
  <2> QED  BY <2>2 DEF V, Events
<1>2. \A k \in 1 .. Len(q) : q[k].mac # e.mac
  <2> SUFFICES ASSUME NEW k \in 1 .. Len(q)  PROVE q[k].mac # e.mac
    OBVIOUS
  <2>1. CASE q[k].del
    BY <2>1 DEF Dels, Removed
  <2>2. CASE ~q[k].del
    BY <2>2 DEF Adds, Added
  <2> QED  BY <2>1, <2>2
<1>3. DistinctMacs(r)
  <2>1. q \in Seq(V) /\ e \in V
    BY DEF Events
  <2> HIDE DEF V
  <2> QED  BY <1>2, <2>1, AppendDistinct
<1> HIDE DEF r
<1>4. 1 .. Len(r) = (1 .. Len(q)) \cup {Len(q) + 1}
  BY <1>1
<1>5. ASSUME NEW m  PROVE m \in Adds(r) <=> m \in Adds(q) \/ (~e.del /\ m = e.mac)
  <2>1. m \in Adds(r) <=> \E k \in 1 .. Len(r) : ~r[k].del /\ m = r[k].mac
    BY DEF Adds, Added
  <2>2. m \in Adds(q) <=> \E j \in 1 .. Len(q) : ~q[j].del /\ m = q[j].mac
    BY DEF Adds, Added
  <2> QED  BY <1>1, <1>4, <2>1, <2>2
<1>6. ASSUME NEW m  PROVE m \in Dels(r) <=> m \in Dels(q) \/ (e.del /\ m = e.mac)
  <2>1. m \in Dels(r) <=> \E k \in 1 .. Len(r) : r[k].del /\ m = r[k].mac
    BY DEF Dels, Removed
  <2>2. m \in Dels(q) <=> \E j \in 1 .. Len(q) : q[j].del /\ m = q[j].mac
    BY DEF Dels, Removed
  <2> QED  BY <1>1, <1>4, <2>1, <2>2
<1> QED  BY <1>1, <1>3, <1>5, <1>6 DEF r

LEMMA QueuedIs ==
  ASSUME NEW E, NEW q \in Events(E), DistinctMacs(q), NEW m \in E, NEW d \in BOOLEAN,
         ~QueueFull(q, Event(m, d)), Len(q) <= ChangesMax, m \notin (IF d THEN Dels(q) ELSE Adds(q))
  PROVE  LET r == Queued(q, Event(m, d)) IN
         /\ r \in Events(E) /\ DistinctMacs(r) /\ Len(r) <= ChangesMax
         /\ Adds(r) = (IF d THEN Adds(q) \ {m} ELSE IF m \in Dels(q) THEN Adds(q) ELSE Adds(q) \cup {m})
         /\ Dels(r) = (IF ~d THEN Dels(q) \ {m} ELSE IF m \in Adds(q) THEN Dels(q) ELSE Dels(q) \cup {m})
<1> DEFINE e == Event(m, d)
           O == Opposite(q, e)
           V == [mac : E, del : BOOLEAN]
<1>0. e \in V /\ e.mac = m /\ e.del = d
  BY DEF Event
<1>1. \A i \in 1 .. Len(q) : q[i] \in V
  <2>1. q \in Seq(V)
    BY DEF Events
  <2> HIDE DEF V
  <2> QED  BY <2>1, ElementOfSeq
<1>2. O = {i \in 1 .. Len(q) : q[i].mac = m /\ q[i].del # d}
  BY <1>0 DEF Opposite
<1>3. O # {} <=> m \in (IF d THEN Adds(q) ELSE Dels(q))
  <2>1. m \in Dels(q) <=> \E j \in 1 .. Len(q) : q[j].del /\ m = q[j].mac
    BY DEF Dels, Removed
  <2>2. m \in Adds(q) <=> \E j \in 1 .. Len(q) : ~q[j].del /\ m = q[j].mac
    BY DEF Adds, Added
  <2> QED  BY <1>1, <1>2, <2>1, <2>2
<1>4. Len(q) \in Nat
  BY DEF Events
<1>5. Adds(q) \cap Dels(q) = {}
  BY MacsIn
<1>6. CASE O # {}
  <2> DEFINE i == CHOOSE x \in O : TRUE
             r == RemoveAt(q, i)
  <2>1. i \in 1 .. Len(q) /\ q[i].mac = m
    BY <1>2, <1>6
  <2>2. Queued(q, e) = r
    BY <1>6 DEF Queued
  <2> HIDE DEF i
  <2>3. /\ r \in Events(E) /\ DistinctMacs(r) /\ Len(r) <= Len(q)
        /\ Adds(r) = Adds(q) \ {m} /\ Dels(r) = Dels(q) \ {m}
    BY <2>1, Cancels
  <2> HIDE DEF r, e, O
  <2>4. Len(r) <= ChangesMax
    BY <1>4, <2>3, TTFacts DEF Events
  <2>5. m \in (IF d THEN Adds(q) ELSE Dels(q))
    BY <1>3, <1>6
  <2> QED  BY <1>5, <2>2, <2>3, <2>4, <2>5 DEF e
<1>7. CASE O = {}
  <2> DEFINE r == Append(q, e)
  <2>1. Queued(q, e) = r
    BY <1>7 DEF Queued
  <2>2. m \notin Adds(q) /\ m \notin Dels(q)
    BY <1>3, <1>7
  <2>3. /\ r \in Events(E) /\ DistinctMacs(r) /\ Len(r) = Len(q) + 1
        /\ Adds(r) = (IF d THEN Adds(q) ELSE Adds(q) \cup {m})
        /\ Dels(r) = (IF d THEN Dels(q) \cup {m} ELSE Dels(q))
    BY <1>0, <2>2, Waits
  <2>4. Len(q) < ChangesMax
    BY <1>4, <1>7, TTFacts DEF QueueFull
  <2> HIDE DEF r, e, O
  <2>5. Len(r) <= ChangesMax
    BY <1>4, <2>3, <2>4, TTFacts
  <2> QED  BY <2>1, <2>2, <2>3, <2>5 DEF e
<1> QED  BY <1>6, <1>7

\* A tail on its way, or kept for the repeats.
TailType(o) == [ttvn : Version, table : SUBSET MacsOf(o), diff : Events(MacsOf(o)), is : BOOLEAN]
IsTail(o, g) == g \in TailType(o) /\ DistinctMacs(g.diff)

AnswerType(o) == [ttvn : Version, table : SUBSET MacsOf(o)]
CopyType == [ttvn : Version, known : BOOLEAN, pending : BOOLEAN]

\* The owner's table l and the events q queued.
Owner(o, l, q, n, rs) ==
  /\ l \in [MacsOf(o) -> {"no", "new", "on", "del"}]
  /\ q \in Events(MacsOf(o)) /\ DistinctMacs(q) /\ Len(q) <= ChangesMax
  /\ Adds(q) = {m \in MacsOf(o) : l[m] = "new"} /\ Dels(q) = {m \in MacsOf(o) : l[m] = "del"}
  /\ n \in Version /\ rs \in 0 .. Resends

CommittedOf(o, l) == {m \in MacsOf(o) : l[m] \in {"on", "del"}}

\* What is on its way, and the copy: its types.
Travels(o, lt, g, A) == IsTail(o, lt) /\ IsTail(o, g) /\ A \subseteq AnswerType(o)
Copy(o, h, r) == h \subseteq MacsOf(o) /\ r \in CopyType

Copies(h, r, A) == {[ttvn |-> r.ttvn, table |-> h]} \cup A

\* The thread of a table, T announced as n: a tail on its way is of T, and its changes make T of every
\* copy one number behind, at the node or in an answer; one with the number n is T.
TailRight(n, T, x, V) ==
  x.is => /\ x.ttvn = n /\ x.table = T
          /\ x.diff # <<>> => \A v \in V : Next1(v.ttvn) = n => After(v.table, x.diff) = T

Thread(n, T, lt, g, A, h, r) ==
  /\ TailRight(n, T, lt, Copies(h, r, A)) /\ TailRight(n, T, g, Copies(h, r, A))
  /\ \A v \in Copies(h, r, A) : v.ttvn = n => v.table = T
  /\ ~r.known => r.ttvn = 0

IsFun(f) == f = [o \in Origs |-> f[o]]
PerOriginator == /\ IsFun(local) /\ IsFun(changes) /\ IsFun(ttvn) /\ IsFun(resend) /\ IsFun(last_tvlv)
              /\ IsFun(ogm) /\ IsFun(answers) /\ IsFun(held) /\ IsFun(tt)
              /\ asked \subseteq Origs /\ spoiled \subseteq Origs

\* The inductive invariant.  Exact alone is not: a commit makes the next tail right only for a copy that
\* follows it (Thread), and the queue must be what the states of the addresses say (Owner).
TableInv ==
  /\ PerOriginator
  /\ \A o \in Origs : Owner(o, local[o], changes[o], ttvn[o], resend[o])
  /\ \A o \in Origs : Travels(o, last_tvlv[o], ogm[o], answers[o])
  /\ \A o \in Origs : Copy(o, held[o], tt[o])
  /\ RowsOK(held, temps)
  /\ \A o \in Origs \ spoiled :
       Thread(ttvn[o], CommittedOf(o, local[o]), last_tvlv[o], ogm[o], answers[o], held[o], tt[o])

LEMMA VersionFacts ==
  /\ 0 \in Version /\ Next1(0) = 1
  /\ \A n \in Version : Next1(n) \in Version /\ Next1(n) # n
  /\ \A n, k \in Version : Next1(n) = Next1(k) => n = k
<1> DEFINE step(n) == IF n = Wrap - 1 THEN 0 ELSE n + 1
<1>1. Wrap \in Nat /\ Wrap >= 2
  BY TTFacts
<1>2. \A n \in Version : Next1(n) = step(n)
  <2> SUFFICES ASSUME NEW n \in Version  PROVE Next1(n) = step(n)
    OBVIOUS
  <2>1. n \in Nat /\ n <= Wrap - 1
    BY <1>1 DEF Version
  <2>2. CASE n = Wrap - 1
    <3>1. n + 1 = Wrap
      BY <1>1, <2>2
    <3>2. Wrap % Wrap = 0
      <4>1. \A y \in 0 .. Wrap - 1 : (y + Wrap) % Wrap = y
        BY <1>1
      <4> QED  BY <1>1, <4>1
    <3> QED  BY <2>2, <3>1, <3>2 DEF Next1
  <2>3. CASE n # Wrap - 1
    <3>1. n + 1 \in 0 .. Wrap - 1
      BY <1>1, <2>1, <2>3
    <3>2. (n + 1) % Wrap = n + 1
      BY <1>1, <3>1
    <3> QED  BY <2>3, <3>2 DEF Next1
  <2> QED  BY <2>2, <2>3
<1>3. 0 \in Version /\ 0 # Wrap - 1
  BY <1>1 DEF Version
<1>4. Next1(0) = 1
  <2>1. step(0) = 1
    BY <1>3
  <2> HIDE DEF step
  <2> QED  BY <1>2, <1>3, <2>1
<1>5. \A n \in Version : step(n) \in Version /\ step(n) # n
  BY <1>1 DEF Version
<1>6. \A n, k \in Version : step(n) = step(k) => n = k
  BY <1>1 DEF Version
<1> HIDE DEF step
<1> QED  BY <1>2, <1>3, <1>4, <1>5, <1>6

-----------------------------------------------------------------------------
\* A full table, in any order.
AsEvents(order) == [i \in 1 .. Len(order) |-> Event(order[i], FALSE)]

LEMMA InOrderIs ==
  ASSUME NEW E, NEW T \in SUBSET E, IsFiniteSet(T), NEW f \in [1 .. Cardinality(T) -> T],
         \A i, j \in 1 .. Cardinality(T) : i # j => f[i] # f[j]
  PROVE  LET q == AsEvents(f) IN
         /\ q \in Events(E) /\ DistinctMacs(q) /\ Adds(q) = T /\ Dels(q) = {}
         /\ \A i \in 1 .. Len(q) : ~q[i].del
<1> DEFINE c == Cardinality(T)
           q == AsEvents(f)
<1>1. c \in Nat
  BY FS_CardinalityType
<1>2. f \in Injection(1 .. c, T)
  BY DEF Injection, IsInjective
<1>3. IsFiniteSet(1 .. c) /\ Cardinality(1 .. c) = c
  <2> HIDE DEF c
  <2> QED  BY <1>1, FS_Interval
<1>4. \A m \in T : \E i \in 1 .. c : f[i] = m
  <2>1. f \in Surjection(1 .. c, T)
    <3> HIDE DEF c
    <3> QED  BY <1>2, <1>3, FS_Injection DEF c
  <2> QED  BY <2>1 DEF Surjection
<1>5. f \in Seq(T) /\ Len(f) = c
  <2> HIDE DEF c
  <2>1. f \in [1 .. c -> T]
    BY DEF c
  <2> QED  BY <1>1, <2>1
<1>6. q = [i \in 1 .. c |-> Event(f[i], FALSE)]
  BY <1>5 DEF AsEvents
<1> HIDE DEF q
<1>7. \A i \in 1 .. c : q[i].mac = f[i] /\ q[i].del = FALSE /\ q[i] \in [mac : E, del : BOOLEAN]
  <2> HIDE DEF c
  <2>1. \A i \in 1 .. c : f[i] \in E
    BY <1>5 DEF c
  <2> QED  BY <1>6, <2>1 DEF Event
<1>8. q \in Events(E) /\ Len(q) = c
  <2> DEFINE V == [mac : E, del : BOOLEAN]
  <2> HIDE DEF c
  <2>1. \A i \in 1 .. c : q[i] \in V
    BY <1>7
  <2> HIDE DEF V
  <2>2. q \in [1 .. c -> V]
    BY <1>6, <2>1
  <2>3. q \in Seq(V) /\ Len(q) = c
    BY <1>1, <2>2
  <2> QED  BY <2>3 DEF Events, V
<1>9. DistinctMacs(q)
  BY <1>7, <1>8 DEF DistinctMacs
<1> HIDE DEF c
<1>10. {j \in 1 .. c : q[j].del} = {} /\ {j \in 1 .. c : ~q[j].del} = 1 .. c
  BY <1>7
<1>11. Dels(q) = {}
  BY <1>8, <1>10 DEF Dels, Removed
<1>12. Adds(q) = {f[i] : i \in 1 .. c}
  BY <1>7, <1>8, <1>10 DEF Adds, Added
<1>13. Adds(q) = T
  <2>1. \A i \in 1 .. c : f[i] \in T
    BY DEF c
  <2> QED  BY <1>4, <1>12, <2>1
<1> QED  BY <1>7, <1>8, <1>9, <1>11, <1>13 DEF q

LEMMA SetToSeqIs ==
  ASSUME NEW T, IsFiniteSet(T)
  PROVE  SetToSeq(T) \in SetToSeqs(T)
<1> DEFINE D == 1 .. Cardinality(T)
           f == CHOOSE g \in [D -> T] : IsInjective(g)
<1>1. \E g \in [D -> T] : IsInjective(g)
  BY FS_CardinalityType DEF ExistsBijection, Bijection, Injection
<1>2. f \in [D -> T] /\ IsInjective(f)
  BY <1>1
<1>3. SetToSeq(T) = f
  BY DEF SetToSeq
<1> HIDE DEF f
<1>4. f \in SetToSeqs(T)
  BY <1>2 DEF IsInjective, SetToSeqs
<1> QED  BY <1>3, <1>4

LEMMA OrderIs ==
  ASSUME NEW E, NEW T \in SUBSET E, IsFiniteSet(T), NEW f \in SetToSeqs(T)
  PROVE  LET q == AsEvents(f) IN
         /\ q \in Events(E) /\ DistinctMacs(q) /\ Adds(q) = T /\ Dels(q) = {}
         /\ \A i \in 1 .. Len(q) : ~q[i].del
<1>1. /\ f \in [1 .. Cardinality(T) -> T]
      /\ \A i, j \in 1 .. Cardinality(T) : i # j => f[i] # f[j]
  BY DEF SetToSeqs
<1> QED  BY <1>1, InOrderIs

LEMMA MacsFinite == ASSUME NEW o \in Origs  PROVE IsFiniteSet(MacsOf(o)) /\ MacsOf(o) \subseteq Macs
<1>1. IsFiniteSet({o})
  BY FS_Singleton
<1> QED  BY <1>1, TTFacts, FS_Union DEF MacsOf, Macs

\* A table emptied.
LEMMA EmptiedOK ==
  ASSUME NEW h, NEW t, RowsOK(h, t), NEW o \in Origs
  PROVE  /\ [h EXCEPT ![o] = {}] \in Holdings /\ [h EXCEPT ![o] = {}][o] = {}
         /\ \A p \in Origs : p # o => [h EXCEPT ![o] = {}][p] = h[p]
         /\ RowsOK([h EXCEPT ![o] = {}], Without(t, Macs, {o}))
<1> DEFINE k == [h EXCEPT ![o] = {}]
           w == Without(t, Macs, {o})
<1>1. k \in Holdings /\ k[o] = {} /\ \A p \in Origs : p # o => k[p] = h[p]
  BY DEF RowsOK, Holdings
<1>2. RowsOK(h, w)
  BY WithoutOK DEF RowsOK
<1> HIDE DEF k, w
<1>3. Cardinality(Cells(k)) <= Cardinality(Cells(h)) /\ Cardinality(Cells(k)) \in Nat
      /\ Cardinality(Cells(h)) \in Nat /\ Len(w) \in Nat
  <2>1. \A p \in Origs : k[p] \subseteq h[p]
    BY <1>1
  <2>2. w \in Seq(RowType) /\ h \in Holdings
    BY <1>2 DEF RowsOK
  <2> QED  BY <1>1, <2>1, <2>2, MoreCells, CellsIs
<1>4. Len(w) + Cardinality(Cells(k)) <= Rows
  BY <1>2, <1>3, TTFacts DEF RowsOK
<1>5. \A i \in 1 .. Len(w), p \in Origs : w[i].mac \notin k[p]
  BY <1>1, <1>2 DEF RowsOK
<1>6. RowsOK(k, w)
  BY <1>1, <1>2, <1>4, <1>5 DEF RowsOK
<1> QED  BY <1>1, <1>6 DEF k, w

\* Two holdings that differ in one table.
LEMMA OneTableOf ==
  ASSUME NEW h \in Holdings, NEW k \in Holdings, NEW o \in Origs, \A p \in Origs : p # o => k[p] = h[p]
  PROVE  k = [h EXCEPT ![o] = k[o]]
BY DEF Holdings

\* A full table taken.
TakesTable(h, o, n, T, s) ==
  /\ RowsOK(s.held, s.temps) /\ s.held = [h EXCEPT ![o] = s.held[o]] /\ s.held[o] \subseteq MacsOf(o)
  /\ s.ok \in BOOLEAN /\ s.tt = [ttvn |-> n, known |-> s.ok, pending |-> ~s.ok]
  /\ s.ok => s.held[o] = T
  /\ RowsUsed([h EXCEPT ![o] = T], <<>>) <= Rows => s.ok

LEMMA TakeTableIs ==
  ASSUME NEW h, NEW t, RowsOK(h, t), NEW o \in Origs, NEW n, NEW T \in SUBSET MacsOf(o),
         NEW order \in SetToSeqs(T)
  PROVE  TakesTable(h, o, n, T, TakeTable(h, t, o, n, order))
<1> DEFINE k == [h EXCEPT ![o] = {}]
           w == Without(t, Macs, {o})
           q == AsEvents(order)
           a == Apply(k, w, o, q)
           s == TakeTable(h, t, o, n, order)
<1>1. /\ k \in Holdings /\ k[o] = {} /\ RowsOK(k, w) /\ \A p \in Origs : p # o => k[p] = h[p]
  BY EmptiedOK
<1>2. IsFiniteSet(T) /\ T \subseteq Macs
  BY MacsFinite, FS_Subset
<1>3. /\ q \in Events(MacsOf(o)) /\ DistinctMacs(q) /\ Adds(q) = T /\ Dels(q) = {}
      /\ \A i \in 1 .. Len(q) : ~q[i].del
  <2> DEFINE E == MacsOf(o)
  <2>1. T \in SUBSET E
    OBVIOUS
  <2> HIDE DEF E
  <2>2. /\ q \in Events(E) /\ DistinctMacs(q) /\ Adds(q) = T /\ Dels(q) = {}
        /\ \A i \in 1 .. Len(q) : ~q[i].del
    <3> HIDE DEF q
    <3> QED  BY <1>2, <2>1, OrderIs DEF q
  <2> QED  BY <2>2 DEF E
<1>4. s = [held |-> a.held, temps |-> a.temps, ok |-> a.ok, tt |-> [ttvn |-> n, known |-> a.ok, pending |-> ~a.ok]]
  BY DEF TakeTable, AsEvents
<1>5. h \in Holdings
  BY DEF RowsOK
<1> HIDE DEF k, w, q, s, a
<1>6. /\ StateOK(a) /\ \A p \in Origs : p # o => a.held[p] = k[p]
      /\ a.held[o] \subseteq MacsOf(o)
      /\ a.ok => a.held[o] = After(k[o], q)
      /\ \A d : RoomFor(k, o, q, d) => a.ok
  <2>1. q \in Seq(EventType(o)) /\ k[o] \subseteq MacsOf(o)
    BY <1>1, <1>3 DEF Events, EventType
  <2> QED  BY <1>1, <1>3, <2>1, ApplyIs DEF a
<1>7. RowsOK(a.held, a.temps) /\ a.ok \in BOOLEAN /\ a.held \in Holdings
  BY <1>6 DEF StateOK, StateType
<1>8. a.held = [h EXCEPT ![o] = a.held[o]]
  <2>1. \A p \in Origs : p # o => a.held[p] = h[p]
    BY <1>1, <1>6
  <2> QED  BY <1>5, <1>7, <2>1, OneTableOf
<1>9. a.ok => a.held[o] = T
  <2>1. After(k[o], q) = T
    BY <1>1, <1>3 DEF After, Adds, Dels
  <2> QED  BY <1>6, <2>1
<1>10. RowsUsed([h EXCEPT ![o] = T], <<>>) <= Rows => a.ok
  <2> SUFFICES ASSUME RowsUsed([h EXCEPT ![o] = T], <<>>) <= Rows  PROVE a.ok
    OBVIOUS
  <2> DEFINE d == [h EXCEPT ![o] = T]
  <2>1. d \in Holdings /\ d[o] = T /\ \A p \in Origs : p # o => d[p] = h[p]
    BY <1>2, <1>5 DEF Holdings
  <2>2. RowsUsed(d, <<>>) <= Rows
    OBVIOUS
  <2> HIDE DEF d
  <2>3. Cardinality(Cells(d)) <= Rows
    <3>1. RowsUsed(d, <<>>) = Len(<<>>) + Cardinality(Cells(d)) /\ Len(<<>>) = 0 /\ Cardinality(Cells(d)) \in Nat
      BY <2>1, CellsIs
    <3> QED  BY <2>2, <3>1
  <2>4. RoomFor(k, o, q, d)
    BY <1>1, <1>3, <2>1, <2>3 DEF RoomFor, Adds
  <2> QED  BY <1>6, <2>4
<1>11. s.held = a.held /\ s.temps = a.temps /\ s.ok = a.ok /\ s.tt = [ttvn |-> n, known |-> a.ok, pending |-> ~a.ok]
  BY <1>4
<1> QED  BY <1>7, <1>8, <1>9, <1>10, <1>6, <1>11 DEF s, TakesTable

\* A tail taken.
LEMMA TakeTailIs ==
  ASSUME NEW h, NEW t, RowsOK(h, t), NEW o \in Origs, h[o] \subseteq MacsOf(o), NEW r, NEW g, IsTail(o, g)
  PROVE  LET s == TakeTail(h, t, o, r, g) IN
         /\ RowsOK(s.held, s.temps) /\ s.held = [h EXCEPT ![o] = s.held[o]] /\ s.held[o] \subseteq MacsOf(o)
         /\ s.ok \in BOOLEAN
         /\ \/ /\ Follows(g, r) /\ g.diff # <<>> /\ s.tt = [r EXCEPT !.ttvn = g.ttvn, !.known = s.ok]
               /\ s.ok => s.held[o] = After(h[o], g.diff)
            \/ s.held = h /\ s.ok /\ s.tt = r
<1> DEFINE a == Apply(h, t, o, g.diff)
           s == TakeTail(h, t, o, r, g)
<1>1. g.diff \in Seq(EventType(o)) /\ DistinctMacs(g.diff)
  BY DEF IsTail, TailType, Events, EventType
<1> HIDE DEF a
<1>2. /\ StateOK(a) /\ \A p \in Origs : p # o => a.held[p] = h[p]
      /\ a.held[o] \subseteq MacsOf(o)
      /\ a.ok => a.held[o] = After(h[o], g.diff)
  BY <1>1, ApplyIs DEF a
<1>3. RowsOK(a.held, a.temps) /\ a.ok \in BOOLEAN /\ a.held \in Holdings /\ h \in Holdings
  BY <1>2 DEF StateOK, StateType, RowsOK
<1>4. a.held = [h EXCEPT ![o] = a.held[o]]
  BY <1>2, <1>3, OneTableOf
<1>5. CASE Follows(g, r) /\ g.diff # <<>>
  <2>1. s = [held |-> a.held, temps |-> a.temps, ok |-> a.ok,
             tt |-> [r EXCEPT !.ttvn = g.ttvn, !.known = a.ok],
             ask |-> ~Matches(a.held, o, g.table)]
    BY <1>5 DEF TakeTail, a
  <2> HIDE DEF s
  <2>2. s.held = a.held /\ s.temps = a.temps /\ s.ok = a.ok /\ s.tt = [r EXCEPT !.ttvn = g.ttvn, !.known = a.ok]
    BY <2>1
  <2> QED  BY <1>2, <1>3, <1>4, <1>5, <2>2 DEF s
<1>6. CASE ~(Follows(g, r) /\ g.diff # <<>>)
  <2>1. s.held = h /\ s.temps = t /\ s.ok = TRUE /\ s.tt = r
    BY <1>6 DEF TakeTail
  <2> HIDE DEF s
  <2>2. h = [h EXCEPT ![o] = h[o]]
    BY <1>3 DEF Holdings
  <2> QED  BY <2>1, <2>2 DEF s
<1> QED  BY <1>5, <1>6

LEMMA FunExcept ==
  ASSUME NEW f, NEW g, IsFun(f), NEW o \in Origs, NEW x, g = [f EXCEPT ![o] = x]
  PROVE  IsFun(g) /\ g[o] = x /\ \A p \in Origs : p # o => g[p] = f[p]
<1>1. f = [p \in Origs |-> f[p]]
  BY DEF IsFun
<1>2. g = [p \in Origs |-> IF p = o THEN x ELSE f[p]]
  BY <1>1
<1> QED  BY <1>2 DEF IsFun

\* A step of one originator, and of the copy of its table.
Elsewhere(o) ==
  \A p \in Origs : p # o =>
    /\ local'[p] = local[p] /\ changes'[p] = changes[p] /\ ttvn'[p] = ttvn[p] /\ resend'[p] = resend[p]
    /\ last_tvlv'[p] = last_tvlv[p] /\ ogm'[p] = ogm[p] /\ answers'[p] = answers[p]
    /\ held'[p] = held[p] /\ tt'[p] = tt[p]

OwnerAt(o) == Owner(o, local[o], changes[o], ttvn[o], resend[o])
TravelsAt(o) == Travels(o, last_tvlv[o], ogm[o], answers[o])
CopyAt(o) == Copy(o, held[o], tt[o])
ThreadAt(o) == Thread(ttvn[o], CommittedOf(o, local[o]), last_tvlv[o], ogm[o], answers[o], held[o], tt[o])

LEMMA StepOf ==
  ASSUME TableInv, NEW o \in Origs, PerOriginator', Elsewhere(o), spoiled \subseteq spoiled',
         OwnerAt(o)', TravelsAt(o)', CopyAt(o)', RowsOK(held, temps)', o \notin spoiled' => ThreadAt(o)'
  PROVE  TableInv'
<1>1. ASSUME NEW p \in Origs  PROVE OwnerAt(p)' /\ TravelsAt(p)' /\ CopyAt(p)'
  <2>1. CASE p = o
    BY <2>1
  <2>2. CASE p # o
    BY <2>2 DEF Elsewhere, TableInv, OwnerAt, TravelsAt, CopyAt
  <2> QED  BY <2>1, <2>2
<1>2. ASSUME NEW p \in Origs \ spoiled'  PROVE ThreadAt(p)'
  <2>1. CASE p = o
    BY <1>2, <2>1
  <2>2. CASE p # o
    <3>1. p \in Origs \ spoiled
      BY <1>2
    <3> QED  BY <2>2, <3>1 DEF Elsewhere, TableInv, ThreadAt
  <2> QED  BY <2>1, <2>2
<1> QED  BY <1>1, <1>2 DEF TableInv, OwnerAt, TravelsAt, CopyAt, ThreadAt

LEMMA RowsOnly ==
  ASSUME TableInv, UNCHANGED <<owner, ogm, asked, answers, held, tt, spoiled>>, RowsOK(held, temps)'
  PROVE  TableInv'
BY DEF TableInv, owner, PerOriginator

LEMMA AsIs ==
  ASSUME TableInv, NEW o \in Origs
  PROVE  /\ OwnerAt(o) /\ TravelsAt(o) /\ CopyAt(o) /\ RowsOK(held, temps) /\ PerOriginator
         /\ o \notin spoiled => ThreadAt(o)
         /\ Committed(o) = CommittedOf(o, local[o])
BY DEF TableInv, OwnerAt, TravelsAt, CopyAt, ThreadAt, Committed, CommittedOf

-----------------------------------------------------------------------------
\* The queue says what becomes of the table.
LEMMA QueueSays ==
  ASSUME NEW o, NEW l, NEW q, NEW n, NEW rs, Owner(o, l, q, n, rs)
  PROVE  After(CommittedOf(o, l), q) = {m \in MacsOf(o) : l[m] \in {"new", "on"}}
<1>1. \A m \in MacsOf(o) : l[m] \in {"no", "new", "on", "del"}
  BY DEF Owner
<1>2. After(CommittedOf(o, l), q) = (CommittedOf(o, l) \ Dels(q)) \cup Adds(q)
  BY DEF After, Adds, Dels
<1> QED  BY <1>1, <1>2 DEF Owner, CommittedOf

\* An address that joins, or leaves.
Joined(l, m) == [l EXCEPT ![m] = IF l[m] = "no" THEN "new" ELSE "on"]
Left(l, m) == [l EXCEPT ![m] = IF l[m] = "new" THEN "no" ELSE "del"]

LEMMA OwnerAdds ==
  ASSUME NEW o \in Origs, NEW l, NEW q, NEW n, NEW rs, Owner(o, l, q, n, rs),
         NEW m \in MacsOf(o), l[m] \in {"no", "del"}, ~QueueFull(q, Event(m, FALSE))
  PROVE  LET k == Joined(l, m) IN
         Owner(o, k, Queued(q, Event(m, FALSE)), n, rs) /\ CommittedOf(o, k) = CommittedOf(o, l)
<1> DEFINE k == Joined(l, m)
           z == Queued(q, Event(m, FALSE))
           E == MacsOf(o)
<1>1. k \in [E -> {"no", "new", "on", "del"}]
      /\ \A x \in E : k[x] = IF x = m THEN (IF l[m] = "no" THEN "new" ELSE "on") ELSE l[x]
  BY DEF Owner, Joined
<1>2. q \in Events(E) /\ DistinctMacs(q) /\ Len(q) <= ChangesMax
      /\ Adds(q) = {x \in E : l[x] = "new"} /\ Dels(q) = {x \in E : l[x] = "del"}
  BY DEF Owner
<1> HIDE DEF k, z, E
<1>3. m \in E /\ m \notin Adds(q)
  BY <1>2 DEF E
<1>4. /\ z \in Events(E) /\ DistinctMacs(z) /\ Len(z) <= ChangesMax
      /\ Adds(z) = (IF m \in Dels(q) THEN Adds(q) ELSE Adds(q) \cup {m})
      /\ Dels(z) = Dels(q) \ {m}
  BY <1>2, <1>3, QueuedIs DEF z
<1>5. Adds(z) = {x \in E : k[x] = "new"} /\ Dels(z) = {x \in E : k[x] = "del"}
  BY <1>1, <1>2, <1>3, <1>4
<1>6. CommittedOf(o, k) = CommittedOf(o, l)
  BY <1>1, <1>3 DEF CommittedOf, E
<1>7. Owner(o, k, z, n, rs)
  BY <1>1, <1>4, <1>5 DEF Owner, E
<1> QED  BY <1>6, <1>7 DEF k, z

LEMMA OwnerRemoves ==
  ASSUME NEW o \in Origs, NEW l, NEW q, NEW n, NEW rs, Owner(o, l, q, n, rs),
         NEW m \in MacsOf(o), l[m] \in {"new", "on"}, ~QueueFull(q, Event(m, TRUE))
  PROVE  LET k == Left(l, m) IN
         Owner(o, k, Queued(q, Event(m, TRUE)), n, rs) /\ CommittedOf(o, k) = CommittedOf(o, l)
<1> DEFINE k == Left(l, m)
           z == Queued(q, Event(m, TRUE))
           E == MacsOf(o)
<1>1. k \in [E -> {"no", "new", "on", "del"}]
      /\ \A x \in E : k[x] = IF x = m THEN (IF l[m] = "new" THEN "no" ELSE "del") ELSE l[x]
  BY DEF Owner, Left
<1>2. q \in Events(E) /\ DistinctMacs(q) /\ Len(q) <= ChangesMax
      /\ Adds(q) = {x \in E : l[x] = "new"} /\ Dels(q) = {x \in E : l[x] = "del"}
  BY DEF Owner
<1> HIDE DEF k, z, E
<1>3. m \in E /\ m \notin Dels(q)
  BY <1>2 DEF E
<1>4. /\ z \in Events(E) /\ DistinctMacs(z) /\ Len(z) <= ChangesMax
      /\ Adds(z) = Adds(q) \ {m}
      /\ Dels(z) = (IF m \in Adds(q) THEN Dels(q) ELSE Dels(q) \cup {m})
  <2>1. m \notin (IF TRUE THEN Dels(q) ELSE Adds(q)) /\ TRUE \in BOOLEAN
    BY <1>3
  <2>2. ~QueueFull(q, Event(m, TRUE))
    OBVIOUS
  <2>3. /\ z \in Events(E) /\ DistinctMacs(z) /\ Len(z) <= ChangesMax
        /\ Adds(z) = (IF TRUE THEN Adds(q) \ {m} ELSE IF m \in Dels(q) THEN Adds(q) ELSE Adds(q) \cup {m})
        /\ Dels(z) = (IF ~TRUE THEN Dels(q) \ {m} ELSE IF m \in Adds(q) THEN Dels(q) ELSE Dels(q) \cup {m})
    BY <1>2, <1>3, <2>1, <2>2, QueuedIs DEF z
  <2> QED  BY <2>3
<1>5. Adds(z) = {x \in E : k[x] = "new"} /\ Dels(z) = {x \in E : k[x] = "del"}
  BY <1>1, <1>2, <1>3, <1>4
<1>6. CommittedOf(o, k) = CommittedOf(o, l)
  BY <1>1, <1>3 DEF CommittedOf, E
<1>7. Owner(o, k, z, n, rs)
  BY <1>1, <1>4, <1>5 DEF Owner, E
<1> QED  BY <1>6, <1>7 DEF k, z

LEMMA NoEvents == ASSUME NEW E  PROVE <<>> \in Events(E) /\ DistinctMacs(<<>>) /\ Len(<<>>) = 0 /\ Adds(<<>>) = {} /\ Dels(<<>>) = {}
<1>1. Len(<<>>) = 0 /\ 1 .. 0 = {}
  OBVIOUS
<1> QED  BY <1>1, NoneYet DEF Events, DistinctMacs, Adds, Dels

LEMMA NoTailIs ==
  ASSUME NEW o \in Origs
  PROVE  IsTail(o, NoTail) /\ \A n, T, V : TailRight(n, T, NoTail, V)
<1>1. 0 \in Version
  BY VersionFacts
<1> QED  BY <1>1, NoEvents DEF NoTail, IsTail, TailType, TailRight

\* The table an originator starts with.
LEMMA FreshOwner ==
  ASSUME NEW o \in Origs
  PROVE  LET l == [m \in MacsOf(o) |-> IF m = o THEN "new" ELSE "no"] IN
         Owner(o, l, <<Event(o, FALSE)>>, 0, 0) /\ CommittedOf(o, l) = {}
<1> DEFINE l == [m \in MacsOf(o) |-> IF m = o THEN "new" ELSE "no"]
           q == <<Event(o, FALSE)>>
           e == Event(o, FALSE)
           V == [mac : MacsOf(o), del : BOOLEAN]
<1>1. o \in MacsOf(o)
  BY DEF MacsOf
<1>2. e \in V /\ e.mac = o /\ e.del = FALSE
  BY <1>1 DEF Event
<1>3. Len(q) = 1 /\ q[1] = e /\ 1 .. 1 = {1}
  OBVIOUS
<1>4. q \in Events(MacsOf(o))
  <2> HIDE DEF V
  <2>1. q \in Seq(V)
    <3>1. e \in V
      BY <1>2
    <3> HIDE DEF e
    <3>2. <<e>> \in Seq(V)
      BY <3>1
    <3> QED  BY <3>2 DEF e
  <2> QED  BY <2>1 DEF V, Events
<1> HIDE DEF q, e
<1>5. Adds(q) = {o} /\ Dels(q) = {}
  <2>1. {j \in 1 .. 1 : ~q[j].del} = {1} /\ {j \in 1 .. 1 : q[j].del} = {}
    BY <1>2, <1>3
  <2> QED  BY <1>2, <1>3, <2>1 DEF Adds, Dels, Added, Removed
<1>6. DistinctMacs(q)
  BY <1>3 DEF DistinctMacs
<1>7. l \in [MacsOf(o) -> {"no", "new", "on", "del"}] /\ \A m \in MacsOf(o) : l[m] = IF m = o THEN "new" ELSE "no"
  OBVIOUS
<1> HIDE DEF l
<1>8. {m \in MacsOf(o) : l[m] = "new"} = {o} /\ {m \in MacsOf(o) : l[m] = "del"} = {} /\ CommittedOf(o, l) = {}
  BY <1>1, <1>7 DEF CommittedOf
<1>9. 0 \in Version /\ 0 \in 0 .. Resends /\ 1 <= ChangesMax
  BY VersionFacts, TTFacts
<1>10. Owner(o, l, q, 0, 0)
  BY <1>3, <1>4, <1>5, <1>6, <1>7, <1>8, <1>9 DEF Owner
<1> QED  BY <1>8, <1>10 DEF l, q, e

LEMMA TableStart == TTInit => TableInv
<1> SUFFICES ASSUME TTInit  PROVE TableInv
  OBVIOUS
<1>1. PerOriginator
  BY DEF TTInit, PerOriginator, IsFun
<1>2. ASSUME NEW o \in Origs  PROVE OwnerAt(o) /\ TravelsAt(o) /\ CopyAt(o) /\ ThreadAt(o)
  <2>1. /\ local[o] = [m \in MacsOf(o) |-> IF m = o THEN "new" ELSE "no"] /\ changes[o] = <<Event(o, FALSE)>>
        /\ ttvn[o] = 0 /\ resend[o] = 0 /\ last_tvlv[o] = NoTail /\ ogm[o] = NoTail /\ answers[o] = {}
        /\ held[o] = {} /\ tt[o] = [ttvn |-> 0, known |-> FALSE, pending |-> FALSE]
    BY DEF TTInit
  <2>2. OwnerAt(o) /\ CommittedOf(o, local[o]) = {}
    BY <2>1, FreshOwner DEF OwnerAt
  <2>3. TravelsAt(o)
    BY <2>1, NoTailIs DEF TravelsAt, Travels
  <2>4. CopyAt(o)
    BY <2>1, VersionFacts DEF CopyAt, Copy, CopyType
  <2>5. ThreadAt(o)
    <3>1. \A n, T, V : TailRight(n, T, NoTail, V)
      BY NoTailIs
    <3>3. Thread(0, {}, NoTail, NoTail, {}, {}, tt[o])
      <4>1. Copies({}, tt[o], {}) = {[ttvn |-> 0, table |-> {}]}
        BY <2>1 DEF Copies
      <4>2. tt[o].ttvn = 0
        BY <2>1
      <4> QED  BY <3>1, <4>1, <4>2 DEF Thread
    <3> QED  BY <2>1, <2>2, <3>3 DEF ThreadAt
  <2> QED  BY <2>2, <2>3, <2>4, <2>5
<1>3. RowsOK(held, temps)
  <2>1. held \in Holdings /\ \A p \in Origs : held[p] = {}
    BY DEF TTInit, Holdings
  <2>2. Cells(held) = {}
    BY <2>1, CellsIs
  <2>3. Cardinality(Cells(held)) = 0
    BY <2>2, FS_EmptySet
  <2>4. temps = <<>> /\ Len(<<>>) = 0 /\ <<>> \in Seq(RowType) /\ DistinctMacs(<<>>)
    BY NoEvents DEF TTInit
  <2> QED  BY <2>1, <2>3, <2>4, TTFacts DEF RowsOK
<1> QED  BY <1>1, <1>2, <1>3 DEF TableInv, OwnerAt, TravelsAt, CopyAt, ThreadAt

-----------------------------------------------------------------------------
\* A change at the owner that the next commit will announce.
LEMMA OwnerMoves ==
  ASSUME TableInv, NEW o \in Origs, NEW k, NEW z,
         local' = [local EXCEPT ![o] = k], changes' = [changes EXCEPT ![o] = z],
         UNCHANGED <<ttvn, resend, last_tvlv, ogm, asked, answers, held, temps, tt, spoiled>>,
         Owner(o, k, z, ttvn[o], resend[o]), CommittedOf(o, k) = CommittedOf(o, local[o])
  PROVE  TableInv'
<1>1. /\ OwnerAt(o) /\ TravelsAt(o) /\ CopyAt(o) /\ RowsOK(held, temps) /\ PerOriginator
      /\ o \notin spoiled => ThreadAt(o)
  BY AsIs
<1>2. /\ IsFun(local') /\ local'[o] = k /\ \A p \in Origs : p # o => local'[p] = local[p]
  BY <1>1, FunExcept DEF PerOriginator, IsFun
<1>3. /\ IsFun(changes') /\ changes'[o] = z /\ \A p \in Origs : p # o => changes'[p] = changes[p]
  BY <1>1, FunExcept DEF PerOriginator, IsFun
<1>4. PerOriginator'
  BY <1>1, <1>2, <1>3 DEF PerOriginator
<1>5. Elsewhere(o)
  BY <1>2, <1>3 DEF Elsewhere
<1>6. OwnerAt(o)'
  BY <1>2, <1>3 DEF OwnerAt
<1>7. TravelsAt(o)' /\ CopyAt(o)'
  BY <1>1 DEF TravelsAt, CopyAt
<1>8. RowsOK(held, temps)'
  BY <1>1
<1>9. o \notin spoiled' => ThreadAt(o)'
  BY <1>1, <1>2 DEF ThreadAt
<1> QED  BY <1>4, <1>5, <1>6, <1>7, <1>8, <1>9, StepOf

LEMMA LocalAddKeeps == ASSUME TableInv, NEW o \in Origs, NEW m \in Clients, LocalAdd(o, m)  PROVE TableInv'
<1> DEFINE k == Joined(local[o], m)
           z == Queued(changes[o], Event(m, FALSE))
<1>1. m \in MacsOf(o)
  BY DEF MacsOf
<1>2. OwnerAt(o) /\ PerOriginator
  BY AsIs
<1>3. Owner(o, k, z, ttvn[o], resend[o]) /\ CommittedOf(o, k) = CommittedOf(o, local[o])
  <2>1. Owner(o, local[o], changes[o], ttvn[o], resend[o])
    BY <1>2 DEF OwnerAt
  <2>2. local[o][m] \in {"no", "del"} /\ ~QueueFull(changes[o], Event(m, FALSE))
    BY DEF LocalAdd
  <2> QED  BY <1>1, <2>1, <2>2, OwnerAdds
<1>4. local' = [local EXCEPT ![o] = k] /\ changes' = [changes EXCEPT ![o] = z]
  BY DEF LocalAdd, Joined
<1>5. UNCHANGED <<ttvn, resend, last_tvlv, ogm, asked, answers, held, temps, tt, spoiled>>
  BY DEF LocalAdd
<1> HIDE DEF k, z
<1> QED  BY <1>3, <1>4, <1>5, OwnerMoves

LEMMA LocalDelKeeps == ASSUME TableInv, NEW o \in Origs, NEW m \in Clients, LocalDel(o, m)  PROVE TableInv'
<1> DEFINE k == Left(local[o], m)
           z == Queued(changes[o], Event(m, TRUE))
<1>1. m \in MacsOf(o)
  BY DEF MacsOf
<1>2. OwnerAt(o) /\ PerOriginator
  BY AsIs
<1>3. Owner(o, k, z, ttvn[o], resend[o]) /\ CommittedOf(o, k) = CommittedOf(o, local[o])
  <2>1. Owner(o, local[o], changes[o], ttvn[o], resend[o])
    BY <1>2 DEF OwnerAt
  <2>2. local[o][m] \in {"new", "on"} /\ ~QueueFull(changes[o], Event(m, TRUE))
    BY DEF LocalDel
  <2> QED  BY <1>1, <2>1, <2>2, OwnerRemoves
<1>4. local' = [local EXCEPT ![o] = k] /\ changes' = [changes EXCEPT ![o] = z]
  BY DEF LocalDel, Left
<1>5. UNCHANGED <<ttvn, resend, last_tvlv, ogm, asked, answers, held, temps, tt, spoiled>>
  BY DEF LocalDel
<1> HIDE DEF k, z
<1> QED  BY <1>3, <1>4, <1>5, OwnerMoves

-----------------------------------------------------------------------------
\* The commit.
LEMMA CommitKeeps == ASSUME TableInv, NEW o \in Origs, Commit(o)  PROVE TableInv'
<1> DEFINE n == Next1(ttvn[o])
           T == Announced(o)
           k == [m \in MacsOf(o) |-> IF m \in Announced(o) THEN "on" ELSE "no"]
           sent == [ttvn |-> n, table |-> T, diff |-> changes[o], is |-> TRUE]
<1>1. /\ OwnerAt(o) /\ TravelsAt(o) /\ CopyAt(o) /\ RowsOK(held, temps) /\ PerOriginator
      /\ o \notin spoiled => ThreadAt(o)
  BY AsIs
<1>2. n \in Version /\ ttvn[o] \in Version
  BY <1>1, VersionFacts DEF OwnerAt, Owner
<1>3. T \subseteq MacsOf(o) /\ T = After(CommittedOf(o, local[o]), changes[o])
  BY <1>1, QueueSays DEF OwnerAt, Announced
<1>4. k \in [MacsOf(o) -> {"no", "new", "on", "del"}] /\ CommittedOf(o, k) = T
      /\ {m \in MacsOf(o) : k[m] = "new"} = {} /\ {m \in MacsOf(o) : k[m] = "del"} = {}
  BY <1>3 DEF CommittedOf
<1>5. IsTail(o, sent)
  BY <1>1, <1>2, <1>3 DEF OwnerAt, Owner, IsTail, TailType
<1>6. /\ local' = [local EXCEPT ![o] = k] /\ ttvn' = [ttvn EXCEPT ![o] = n]
      /\ resend' = [resend EXCEPT ![o] = Resends] /\ last_tvlv' = [last_tvlv EXCEPT ![o] = sent]
      /\ ogm' = [ogm EXCEPT ![o] = sent] /\ changes' = [changes EXCEPT ![o] = <<>>]
      /\ spoiled' = IF Lapped(o, n) THEN spoiled \cup {o} ELSE spoiled
      /\ UNCHANGED <<asked, answers, held, temps, tt>>
  BY DEF Commit
<1>7. sent.ttvn = n /\ sent.table = T /\ sent.diff = changes[o]
  OBVIOUS
<1> HIDE DEF n, T, k, sent
<1>8. /\ IsFun(local') /\ IsFun(ttvn') /\ IsFun(resend') /\ IsFun(last_tvlv') /\ IsFun(ogm') /\ IsFun(changes')
      /\ local'[o] = k /\ ttvn'[o] = n /\ resend'[o] = Resends /\ last_tvlv'[o] = sent /\ ogm'[o] = sent
      /\ changes'[o] = <<>>
      /\ \A p \in Origs : p # o => /\ local'[p] = local[p] /\ ttvn'[p] = ttvn[p] /\ resend'[p] = resend[p]
                                   /\ last_tvlv'[p] = last_tvlv[p] /\ ogm'[p] = ogm[p] /\ changes'[p] = changes[p]
  BY <1>1, <1>6, FunExcept DEF PerOriginator, IsFun
<1>9. PerOriginator'
  BY <1>1, <1>6, <1>8 DEF PerOriginator
<1>10. Elsewhere(o)
  BY <1>6, <1>8 DEF Elsewhere
<1>11. OwnerAt(o)'
  <2>1. Owner(o, k, <<>>, n, Resends)
    BY <1>2, <1>4, NoEvents, TTFacts DEF Owner
  <2> QED  BY <1>8, <2>1 DEF OwnerAt
<1>12. TravelsAt(o)' /\ CopyAt(o)' /\ RowsOK(held, temps)'
  BY <1>1, <1>5, <1>6, <1>8 DEF TravelsAt, Travels, CopyAt
<1>13. ASSUME o \notin spoiled'  PROVE ThreadAt(o)'
  <2> DEFINE V == Copies(held[o], tt[o], answers[o])
             C == CommittedOf(o, local[o])
  <2>1. o \notin spoiled /\ ~Lapped(o, n)
    BY <1>6, <1>13
  <2>2. (\A v \in V : v.ttvn = ttvn[o] => v.table = C) /\ (~tt[o].known => tt[o].ttvn = 0)
    BY <1>1, <2>1 DEF ThreadAt, Thread
  <2>3. \A v \in V : v.ttvn # n /\ v.ttvn \in Version
    BY <1>1, <2>1 DEF Lapped, Copies, CopyAt, Copy, CopyType, TravelsAt, Travels, AnswerType
  <2>4. \A v \in V : Next1(v.ttvn) = n => v.table = C
    <3>1. \A v \in V : Next1(v.ttvn) = n => v.ttvn = ttvn[o]
      BY <1>2, <2>3, VersionFacts DEF n
    <3> QED  BY <2>2, <3>1
  <2>5. TailRight(n, T, sent, V)
    BY <1>3, <1>7, <2>4 DEF TailRight
  <2>6. Thread(n, T, sent, sent, answers[o], held[o], tt[o])
    BY <2>2, <2>3, <2>5 DEF Thread
  <2> QED  BY <1>4, <1>6, <1>8, <2>6 DEF ThreadAt
<1>14. spoiled \subseteq spoiled'
  BY <1>6
<1> QED  BY <1>9, <1>10, <1>11, <1>12, <1>13, <1>14, StepOf

\* The other OGMs of the originator.
LEMMA OgmSent ==
  ASSUME TableInv, NEW o \in Origs, NEW g, NEW lt, NEW rs, resend' = [resend EXCEPT ![o] = rs],
         last_tvlv' = [last_tvlv EXCEPT ![o] = lt], ogm' = [ogm EXCEPT ![o] = g],
         UNCHANGED <<local, changes, ttvn, asked, answers, held, temps, tt, spoiled>>,
         rs \in 0 .. Resends, IsTail(o, g), IsTail(o, lt),
         o \notin spoiled => \A V : TailRight(ttvn[o], CommittedOf(o, local[o]), g, V)
                                     \/ g \in {last_tvlv[o], ogm[o]},
         lt \in {NoTail, last_tvlv[o]}
  PROVE  TableInv'
<1>1. /\ OwnerAt(o) /\ TravelsAt(o) /\ CopyAt(o) /\ RowsOK(held, temps) /\ PerOriginator
      /\ o \notin spoiled => ThreadAt(o)
  BY AsIs
<1>2. /\ IsFun(resend') /\ IsFun(last_tvlv') /\ IsFun(ogm')
      /\ resend'[o] = rs /\ last_tvlv'[o] = lt /\ ogm'[o] = g
      /\ \A p \in Origs : p # o => resend'[p] = resend[p] /\ last_tvlv'[p] = last_tvlv[p] /\ ogm'[p] = ogm[p]
  BY <1>1, FunExcept DEF PerOriginator, IsFun
<1>3. PerOriginator'
  BY <1>1, <1>2 DEF PerOriginator
<1>4. Elsewhere(o)
  BY <1>2 DEF Elsewhere
<1>5. OwnerAt(o)'
  BY <1>1, <1>2 DEF OwnerAt, Owner
<1>6. TravelsAt(o)' /\ CopyAt(o)' /\ RowsOK(held, temps)'
  BY <1>1, <1>2 DEF TravelsAt, Travels, CopyAt
<1>7. ASSUME o \notin spoiled'  PROVE ThreadAt(o)'
  <2> DEFINE V == Copies(held[o], tt[o], answers[o])
             C == CommittedOf(o, local[o])
  <2>1. Thread(ttvn[o], C, last_tvlv[o], ogm[o], answers[o], held[o], tt[o])
    BY <1>1, <1>7 DEF ThreadAt
  <2>2. TailRight(ttvn[o], C, lt, V)
    BY <2>1, NoTailIs DEF Thread
  <2>3. TailRight(ttvn[o], C, g, V)
    <3>1. CASE g \in {last_tvlv[o], ogm[o]}
      BY <2>1, <3>1 DEF Thread
    <3>2. CASE g \notin {last_tvlv[o], ogm[o]}
      <4> HIDE DEF V, C
      <4> QED  BY <1>7, <3>2 DEF C
    <3> QED  BY <3>1, <3>2
  <2>4. Thread(ttvn[o], C, lt, g, answers[o], held[o], tt[o])
    BY <2>1, <2>2, <2>3 DEF Thread
  <2> QED  BY <1>2, <2>4 DEF ThreadAt
<1> QED  BY <1>3, <1>4, <1>5, <1>6, <1>7, StepOf

LEMMA RepeatKeeps == ASSUME TableInv, NEW o \in Origs, Repeat(o)  PROVE TableInv'
<1> DEFINE lt == IF resend[o] = 1 THEN NoTail ELSE last_tvlv[o]
<1>1. OwnerAt(o) /\ TravelsAt(o) /\ PerOriginator
  BY AsIs
<1>2. last_tvlv' = [last_tvlv EXCEPT ![o] = lt]
  <2>1. last_tvlv = [p \in Origs |-> last_tvlv[p]]
    BY <1>1 DEF PerOriginator, IsFun
  <2>2. last_tvlv = [last_tvlv EXCEPT ![o] = last_tvlv[o]]
    BY <2>1
  <2> QED  BY <2>2 DEF Repeat
<1>3. resend[o] - 1 \in 0 .. Resends
  BY <1>1, TTFacts DEF Repeat, OwnerAt, Owner
<1>4. IsTail(o, lt) /\ IsTail(o, last_tvlv[o]) /\ lt \in {NoTail, last_tvlv[o]}
  BY <1>1, NoTailIs DEF TravelsAt, Travels
<1>5. /\ resend' = [resend EXCEPT ![o] = resend[o] - 1] /\ ogm' = [ogm EXCEPT ![o] = last_tvlv[o]]
      /\ UNCHANGED <<local, changes, ttvn, asked, answers, held, temps, tt, spoiled>>
  BY DEF Repeat
<1> HIDE DEF lt
<1> QED  BY <1>2, <1>3, <1>4, <1>5, OgmSent

LEMMA AnnounceKeeps == ASSUME TableInv, NEW o \in Origs, Announce(o)  PROVE TableInv'
<1> DEFINE sent == [ttvn |-> ttvn[o], table |-> Committed(o), diff |-> <<>>, is |-> TRUE]
<1>1. OwnerAt(o) /\ TravelsAt(o) /\ PerOriginator /\ Committed(o) = CommittedOf(o, local[o])
  BY AsIs
<1>2. /\ last_tvlv' = [last_tvlv EXCEPT ![o] = last_tvlv[o]] /\ resend' = [resend EXCEPT ![o] = resend[o]]
      /\ ogm' = [ogm EXCEPT ![o] = sent]
      /\ UNCHANGED <<local, changes, ttvn, asked, answers, held, temps, tt, spoiled>>
  <2>1. last_tvlv = [p \in Origs |-> last_tvlv[p]] /\ resend = [p \in Origs |-> resend[p]]
    BY <1>1 DEF PerOriginator, IsFun
  <2> QED  BY <2>1 DEF Announce
<1>3. resend[o] \in 0 .. Resends /\ IsTail(o, last_tvlv[o])
  BY <1>1 DEF OwnerAt, Owner, TravelsAt, Travels
<1>4. IsTail(o, sent) /\ \A V : TailRight(ttvn[o], CommittedOf(o, local[o]), sent, V)
  <2>1. ttvn[o] \in Version /\ Committed(o) \subseteq MacsOf(o)
    BY <1>1 DEF OwnerAt, Owner, Committed
  <2> QED  BY <1>1, <2>1, NoEvents DEF IsTail, TailType, TailRight
<1> HIDE DEF sent
<1> QED  BY <1>2, <1>3, <1>4, OgmSent

\* A step that leaves the owner alone.
LEMMA CopyStep ==
  ASSUME TableInv, NEW o \in Origs, UNCHANGED owner, PerOriginator', Elsewhere(o), spoiled \subseteq spoiled',
         IsTail(o, ogm'[o]), answers'[o] \subseteq AnswerType(o), Copy(o, held'[o], tt'[o]),
         RowsOK(held', temps'),
         o \notin spoiled' => Thread(ttvn[o], CommittedOf(o, local[o]), last_tvlv[o], ogm'[o], answers'[o],
                                     held'[o], tt'[o])
  PROVE  TableInv'
<1>1. OwnerAt(o) /\ TravelsAt(o)
  BY AsIs
<1>2. UNCHANGED <<local, changes, ttvn, resend, last_tvlv>>
  BY DEF owner
<1>3. OwnerAt(o)'
  BY <1>1, <1>2 DEF OwnerAt
<1>4. TravelsAt(o)' /\ CopyAt(o)'
  BY <1>1, <1>2 DEF TravelsAt, Travels, CopyAt
<1>5. o \notin spoiled' => ThreadAt(o)'
  BY <1>2 DEF ThreadAt
<1> QED  BY <1>3, <1>4, <1>5, StepOf

\* Answers come and go.
LEMMA AnswersStep ==
  ASSUME TableInv, NEW o \in Origs, NEW A, answers' = [answers EXCEPT ![o] = A], asked' \subseteq Origs,
         UNCHANGED <<owner, ogm, held, temps, tt, spoiled>>,
         A \subseteq answers[o] \cup {[ttvn |-> ttvn[o], table |-> Committed(o)]}
  PROVE  TableInv'
<1>1. /\ OwnerAt(o) /\ TravelsAt(o) /\ CopyAt(o) /\ RowsOK(held, temps) /\ PerOriginator
      /\ o \notin spoiled => ThreadAt(o)
      /\ Committed(o) = CommittedOf(o, local[o])
  BY AsIs
<1>2. UNCHANGED <<local, changes, ttvn, resend, last_tvlv>>
  BY DEF owner
<1>3. IsFun(answers)'
      /\ answers'[o] = A /\ \A p \in Origs : p # o => answers'[p] = answers[p]
  BY <1>1, FunExcept DEF PerOriginator, IsFun
<1>4. PerOriginator'
  BY <1>1, <1>2, <1>3 DEF PerOriginator, IsFun
<1>5. Elsewhere(o)
  BY <1>2, <1>3 DEF Elsewhere
<1>6. A \subseteq AnswerType(o) /\ IsTail(o, ogm[o]) /\ Copy(o, held[o], tt[o])
  <2>1. ttvn[o] \in Version /\ Committed(o) \subseteq MacsOf(o)
    BY <1>1 DEF OwnerAt, Owner, Committed
  <2> QED  BY <1>1, <2>1 DEF TravelsAt, Travels, CopyAt, AnswerType
<1>7. ASSUME o \notin spoiled'
      PROVE  Thread(ttvn[o], CommittedOf(o, local[o]), last_tvlv[o], ogm[o], A, held[o], tt[o])
  <2> DEFINE C == CommittedOf(o, local[o])
             V == Copies(held[o], tt[o], answers[o])
             W == Copies(held[o], tt[o], A)
             x == [ttvn |-> ttvn[o], table |-> C]
  <2>1. Thread(ttvn[o], C, last_tvlv[o], ogm[o], answers[o], held[o], tt[o])
    BY <1>1, <1>7 DEF ThreadAt
  <2>2. W \subseteq V \cup {x}
    BY <1>1 DEF Copies
  <2>3. x.ttvn = ttvn[o] /\ x.table = C /\ Next1(x.ttvn) # ttvn[o]
    BY <1>1, VersionFacts DEF OwnerAt, Owner
  <2> HIDE DEF x, C
  <2>4. \A v \in W : v.ttvn = ttvn[o] => v.table = C
    BY <2>1, <2>2, <2>3 DEF Thread
  <2>5. ASSUME NEW g, TailRight(ttvn[o], C, g, V)  PROVE TailRight(ttvn[o], C, g, W)
    BY <2>2, <2>3, <2>5 DEF TailRight
  <2>6. TailRight(ttvn[o], C, last_tvlv[o], W) /\ TailRight(ttvn[o], C, ogm[o], W)
    BY <2>1, <2>5 DEF Thread
  <2>7. Thread(ttvn[o], C, last_tvlv[o], ogm[o], A, held[o], tt[o])
    BY <2>1, <2>4, <2>6 DEF Thread
  <2> QED  BY <2>7 DEF C
<1>8. o \notin spoiled' => Thread(ttvn[o], CommittedOf(o, local[o]), last_tvlv[o], ogm'[o], answers'[o], held'[o], tt'[o])
  BY <1>3, <1>7
<1>9. IsTail(o, ogm'[o]) /\ answers'[o] \subseteq AnswerType(o) /\ Copy(o, held'[o], tt'[o])
  BY <1>3, <1>6
<1>10. RowsOK(held', temps') /\ spoiled \subseteq spoiled'
  BY <1>1
<1> QED  BY <1>4, <1>5, <1>8, <1>9, <1>10, CopyStep

LEMMA AnswerTxKeeps == ASSUME TableInv, NEW o \in Origs, AnswerTx(o)  PROVE TableInv'
<1> DEFINE A == answers[o] \cup {[ttvn |-> ttvn[o], table |-> Committed(o)]}
<1>1. asked' \subseteq Origs
  BY DEF AnswerTx, TableInv, PerOriginator
<1>2. answers' = [answers EXCEPT ![o] = A] /\ UNCHANGED <<owner, ogm, held, temps, tt, spoiled>>
  BY DEF AnswerTx
<1> HIDE DEF A
<1> QED  BY <1>1, <1>2, AnswersStep DEF A

LEMMA LoseAnswerKeeps == ASSUME TableInv, NEW o \in Origs, LoseAnswer(o)  PROVE TableInv'
<1>1. PICK a \in answers[o] : /\ answers' = [answers EXCEPT ![o] = @ \ {a}]
                              /\ UNCHANGED <<owner, ogm, asked, held, temps, tt, spoiled>>
  BY DEF LoseAnswer
<1> DEFINE A == answers[o] \ {a}
<1>2. answers' = [answers EXCEPT ![o] = A] /\ UNCHANGED <<owner, ogm, held, temps, tt, spoiled>>
  BY <1>1
<1>3. asked' \subseteq Origs
  BY <1>1 DEF TableInv, PerOriginator
<1>4. A \subseteq answers[o] \cup {[ttvn |-> ttvn[o], table |-> Committed(o)]}
  OBVIOUS
<1> HIDE DEF A
<1> QED  BY <1>2, <1>3, <1>4, AnswersStep

-----------------------------------------------------------------------------
\* A step of the copy alone.
LEMMA OgmRxKeeps == ASSUME TableInv, NEW o \in Origs, OgmRx(o)  PROVE TableInv'
<1> DEFINE s == TakeTail(held, temps, o, tt[o], ogm[o])
           r == [s.tt EXCEPT !.pending = @ \/ s.ask]
           h == s.held[o]
           C == CommittedOf(o, local[o])
           n == ttvn[o]
<1>1. /\ OwnerAt(o) /\ TravelsAt(o) /\ CopyAt(o) /\ RowsOK(held, temps) /\ PerOriginator
      /\ o \notin spoiled => ThreadAt(o)
  BY AsIs
<1>2. IsTail(o, ogm[o]) /\ held[o] \subseteq MacsOf(o) /\ tt[o] \in CopyType /\ answers[o] \subseteq AnswerType(o)
  BY <1>1 DEF TravelsAt, Travels, CopyAt, Copy
<1>3. /\ RowsOK(s.held, s.temps) /\ s.held = [held EXCEPT ![o] = h] /\ h \subseteq MacsOf(o)
      /\ s.ok \in BOOLEAN
      /\ \/ /\ Follows(ogm[o], tt[o]) /\ ogm[o].diff # <<>> /\ s.tt = [tt[o] EXCEPT !.ttvn = ogm[o].ttvn, !.known = s.ok]
            /\ s.ok => h = After(held[o], ogm[o].diff)
         \/ s.held = held /\ s.ok /\ s.tt = tt[o]
  BY <1>1, <1>2, TakeTailIs
<1>4. /\ ogm[o].is /\ ogm' = [ogm EXCEPT ![o] = NoTail] /\ held' = s.held /\ temps' = s.temps
      /\ tt' = [tt EXCEPT ![o] = r]
      /\ asked' \in {asked \cup {o}, asked} /\ spoiled' = IF s.ok THEN spoiled ELSE spoiled \cup {o}
      /\ UNCHANGED <<owner, answers>>
  BY DEF OgmRx
<1>5. s.tt \in CopyType
  <2>1. ogm[o].ttvn \in Version
    BY <1>2 DEF IsTail, TailType
  <2> HIDE DEF s
  <2> QED  BY <1>2, <1>3, <2>1 DEF CopyType
<1>6. r \in CopyType /\ r.ttvn = s.tt.ttvn /\ r.known = s.tt.known
  <2> HIDE DEF s
  <2>1. (s.tt.pending \/ s.ask) \in BOOLEAN
    OBVIOUS
  <2>2. r = [s.tt EXCEPT !.pending = (s.tt.pending \/ s.ask)]
    OBVIOUS
  <2> DEFINE w == (s.tt.pending \/ s.ask)
  <2> HIDE DEF w
  <2>3. r = [s.tt EXCEPT !.pending = w] /\ w \in BOOLEAN
    BY <2>1, <2>2 DEF w
  <2> HIDE DEF r
  <2> QED  BY <1>5, <2>3 DEF CopyType
<1> HIDE DEF s, r
<1>7. UNCHANGED <<local, changes, ttvn, resend, last_tvlv, answers>>
  BY <1>4 DEF owner
<1>8. /\ IsFun(ogm)' /\ ogm'[o] = NoTail /\ \A p \in Origs : p # o => ogm'[p] = ogm[p]
  BY <1>1, <1>4, FunExcept DEF PerOriginator, IsFun
<1>9. /\ IsFun(held)' /\ held'[o] = h /\ \A p \in Origs : p # o => held'[p] = held[p]
  <2> HIDE DEF h
  <2>1. held' = [held EXCEPT ![o] = h]
    BY <1>3, <1>4
  <2> QED  BY <1>1, <2>1, FunExcept DEF PerOriginator, IsFun
<1>10. /\ IsFun(tt)' /\ tt'[o] = r /\ \A p \in Origs : p # o => tt'[p] = tt[p]
  BY <1>1, <1>4, FunExcept DEF PerOriginator, IsFun
<1>11. PerOriginator'
  BY <1>1, <1>4, <1>7, <1>8, <1>9, <1>10 DEF PerOriginator, IsFun
<1>12. Elsewhere(o)
  BY <1>7, <1>8, <1>9, <1>10 DEF Elsewhere
<1>13. IsTail(o, ogm'[o]) /\ answers'[o] \subseteq AnswerType(o) /\ Copy(o, held'[o], tt'[o])
  BY <1>2, <1>3, <1>6, <1>7, <1>8, <1>9, <1>10, NoTailIs DEF Copy
<1>14. RowsOK(held', temps') /\ spoiled \subseteq spoiled'
  BY <1>3, <1>4
<1>15. ASSUME o \notin spoiled'  PROVE Thread(n, C, last_tvlv[o], NoTail, answers[o], h, r)
  <2> DEFINE V == Copies(held[o], tt[o], answers[o])
             W == Copies(h, r, answers[o])
             x == [ttvn |-> r.ttvn, table |-> h]
             y == [ttvn |-> tt[o].ttvn, table |-> held[o]]
  <2>1. s.ok /\ o \notin spoiled
    BY <1>3, <1>4, <1>15
  <2>2. Thread(n, C, last_tvlv[o], ogm[o], answers[o], held[o], tt[o])
    BY <1>1, <2>1 DEF ThreadAt
  <2>3. CASE s.held = held /\ s.tt = tt[o]
    <3>1. h = held[o] /\ r.ttvn = tt[o].ttvn /\ r.known = tt[o].known
      BY <1>6, <2>3
    <3>2. W = V
      BY <3>1 DEF Copies
    <3>3. TailRight(n, C, NoTail, W)
      BY NoTailIs
    <3> QED  BY <2>2, <3>1, <3>2, <3>3 DEF Thread
  <2>4. CASE ~(s.held = held /\ s.tt = tt[o])
    <3>1. /\ Follows(ogm[o], tt[o]) /\ ogm[o].diff # <<>>
          /\ s.tt = [tt[o] EXCEPT !.ttvn = ogm[o].ttvn, !.known = s.ok] /\ h = After(held[o], ogm[o].diff)
      BY <1>3, <2>1, <2>4
    <3>2. r.ttvn = ogm[o].ttvn /\ r.known
      BY <1>2, <1>6, <2>1, <3>1 DEF CopyType
    <3>3. ogm[o].ttvn = n /\ ogm[o].table = C
      BY <1>4, <2>2 DEF Thread, TailRight
    <3>4. Next1(tt[o].ttvn) = n
      <4>1. CASE ~tt[o].known /\ ogm[o].ttvn = 1
        <5>1. tt[o].ttvn = 0
          BY <2>2, <4>1 DEF Thread
        <5> QED  BY <3>3, <4>1, <5>1, VersionFacts
      <4>2. CASE ogm[o].ttvn = Next1(tt[o].ttvn)
        BY <3>3, <4>2
      <4> QED  BY <3>1, <4>1, <4>2 DEF Follows
    <3>5. y \in V /\ y.ttvn = tt[o].ttvn /\ y.table = held[o]
      BY DEF Copies
    <3>6. h = C
      <4> HIDE DEF V, y, h
      <4>1. TailRight(n, C, ogm[o], V)
        BY <2>2 DEF Thread, V
      <4>2. After(y.table, ogm[o].diff) = C
        BY <1>4, <3>1, <3>4, <3>5, <4>1 DEF TailRight
      <4> QED  BY <3>1, <3>5, <4>2
    <3>7. W \subseteq V \cup {x}
      BY DEF Copies
    <3>8. x.ttvn = n /\ x.table = C /\ Next1(x.ttvn) # n
      <4>1. n \in Version
        BY <1>1 DEF OwnerAt, Owner
      <4> QED  BY <3>2, <3>3, <3>6, <4>1, VersionFacts
    <3> HIDE DEF x, V, W, C, n, h
    <3>9. \A v \in W : v.ttvn = n => v.table = C
      BY <2>2, <3>7, <3>8 DEF Thread, V
    <3>10. TailRight(n, C, last_tvlv[o], W)
      <4>1. TailRight(n, C, last_tvlv[o], V)
        BY <2>2 DEF Thread, V
      <4> QED  BY <3>7, <3>8, <4>1 DEF TailRight
    <3>11. TailRight(n, C, NoTail, W)
      BY NoTailIs
    <3> QED  BY <3>2, <3>9, <3>10, <3>11 DEF Thread, W
  <2> QED  BY <2>3, <2>4
<1>16. o \notin spoiled' => Thread(n, C, last_tvlv[o], ogm'[o], answers'[o], held'[o], tt'[o])
  BY <1>7, <1>8, <1>9, <1>10, <1>15
<1> QED  BY <1>4, <1>11, <1>12, <1>13, <1>14, <1>16, CopyStep

LEMMA AnswerRxKeeps == ASSUME TableInv, NEW o \in Origs, AnswerRx(o)  PROVE TableInv'
<1>1. PICK a \in answers[o] : \E order \in SetToSeqs(a.table) :
        LET s == TakeTable(held, temps, o, a.ttvn, order)
        IN /\ answers' = [answers EXCEPT ![o] = @ \ {a}]
           /\ held' = s.held /\ temps' = s.temps
           /\ tt' = [tt EXCEPT ![o] = s.tt]
           /\ spoiled' = IF s.ok THEN spoiled ELSE spoiled \cup {o}
           /\ UNCHANGED <<owner, ogm, asked, events>>
  BY DEF AnswerRx
<1>2. PICK order \in SetToSeqs(a.table) :
        LET s == TakeTable(held, temps, o, a.ttvn, order)
        IN /\ answers' = [answers EXCEPT ![o] = @ \ {a}]
           /\ held' = s.held /\ temps' = s.temps
           /\ tt' = [tt EXCEPT ![o] = s.tt]
           /\ spoiled' = IF s.ok THEN spoiled ELSE spoiled \cup {o}
           /\ UNCHANGED <<owner, ogm, asked, events>>
  BY <1>1
<1> DEFINE s == TakeTable(held, temps, o, a.ttvn, order)
           h == s.held[o]
           A == answers[o] \ {a}
           C == CommittedOf(o, local[o])
           n == ttvn[o]
<1>3. /\ OwnerAt(o) /\ TravelsAt(o) /\ CopyAt(o) /\ RowsOK(held, temps) /\ PerOriginator
      /\ o \notin spoiled => ThreadAt(o)
  BY AsIs
<1>4. IsTail(o, ogm[o]) /\ answers[o] \subseteq AnswerType(o)
  BY <1>3 DEF TravelsAt, Travels
<1>5. a.ttvn \in Version /\ a.table \in SUBSET MacsOf(o)
  BY <1>4 DEF AnswerType
<1>6. /\ RowsOK(s.held, s.temps) /\ s.held = [held EXCEPT ![o] = h] /\ h \subseteq MacsOf(o)
      /\ s.ok \in BOOLEAN /\ s.tt = [ttvn |-> a.ttvn, known |-> s.ok, pending |-> ~s.ok]
      /\ s.ok => h = a.table
  <2>1. TakesTable(held, o, a.ttvn, a.table, s)
    BY <1>3, <1>5, TakeTableIs
  <2> HIDE DEF s
  <2> QED  BY <2>1 DEF TakesTable
<1>7. /\ answers' = [answers EXCEPT ![o] = A] /\ held' = s.held /\ temps' = s.temps
      /\ tt' = [tt EXCEPT ![o] = s.tt]
      /\ spoiled' = IF s.ok THEN spoiled ELSE spoiled \cup {o}
      /\ UNCHANGED <<owner, ogm, asked>>
  BY <1>2
<1> HIDE DEF s, A
<1>8. UNCHANGED <<local, changes, ttvn, resend, last_tvlv, ogm>>
  BY <1>7 DEF owner
<1>9. /\ IsFun(answers)' /\ answers'[o] = A /\ \A p \in Origs : p # o => answers'[p] = answers[p]
  BY <1>3, <1>7, FunExcept DEF PerOriginator, IsFun
<1>10. /\ IsFun(held)' /\ held'[o] = h /\ \A p \in Origs : p # o => held'[p] = held[p]
  <2> HIDE DEF h
  <2>1. held' = [held EXCEPT ![o] = h]
    BY <1>6, <1>7
  <2> QED  BY <1>3, <2>1, FunExcept DEF PerOriginator, IsFun
<1>11. /\ IsFun(tt)' /\ tt'[o] = s.tt /\ \A p \in Origs : p # o => tt'[p] = tt[p]
  BY <1>3, <1>7, FunExcept DEF PerOriginator, IsFun
<1>12. PerOriginator'
  BY <1>3, <1>7, <1>8, <1>9, <1>10, <1>11 DEF PerOriginator, IsFun
<1>13. Elsewhere(o)
  BY <1>8, <1>9, <1>10, <1>11 DEF Elsewhere
<1>14. s.tt \in CopyType /\ s.tt.ttvn = a.ttvn /\ s.tt.known = s.ok
  BY <1>5, <1>6 DEF CopyType
<1>15. IsTail(o, ogm'[o]) /\ answers'[o] \subseteq AnswerType(o) /\ Copy(o, held'[o], tt'[o])
  BY <1>4, <1>6, <1>8, <1>9, <1>10, <1>11, <1>14 DEF Copy, A
<1>16. RowsOK(held', temps') /\ spoiled \subseteq spoiled'
  BY <1>6, <1>7
<1>17. ASSUME o \notin spoiled'  PROVE Thread(n, C, last_tvlv[o], ogm[o], A, h, s.tt)
  <2> DEFINE V == Copies(held[o], tt[o], answers[o])
             W == Copies(h, s.tt, A)
  <2>1. s.ok /\ o \notin spoiled
    BY <1>6, <1>7, <1>17
  <2>2. Thread(n, C, last_tvlv[o], ogm[o], answers[o], held[o], tt[o])
    BY <1>3, <2>1 DEF ThreadAt
  <2>3. [ttvn |-> s.tt.ttvn, table |-> h] = a
    <3>1. a = [ttvn |-> a.ttvn, table |-> a.table]
      BY <1>4 DEF AnswerType
    <3> QED  BY <1>6, <1>14, <2>1, <3>1
  <2>4. W \subseteq V
    BY <2>3 DEF Copies, A
  <2> HIDE DEF V, W, C, n, h
  <2>5. \A v \in W : v.ttvn = n => v.table = C
    BY <2>2, <2>4 DEF Thread, V
  <2>6. TailRight(n, C, last_tvlv[o], W) /\ TailRight(n, C, ogm[o], W)
    <3>1. TailRight(n, C, last_tvlv[o], V) /\ TailRight(n, C, ogm[o], V)
      BY <2>2 DEF Thread, V
    <3> QED  BY <2>4, <3>1 DEF TailRight
  <2> QED  BY <1>14, <2>1, <2>5, <2>6 DEF Thread, W
<1>18. o \notin spoiled' => Thread(n, C, last_tvlv[o], ogm'[o], answers'[o], held'[o], tt'[o])
  BY <1>8, <1>9, <1>10, <1>11, <1>17
<1>19. UNCHANGED owner
  BY <1>7
<1> QED  BY <1>12, <1>13, <1>15, <1>16, <1>18, <1>19, CopyStep

LEMMA WaitedKeeps == ASSUME TableInv, NEW o \in Origs, Waited(o)  PROVE TableInv'
<1> DEFINE r == [tt[o] EXCEPT !.pending = FALSE]
<1>1. /\ OwnerAt(o) /\ TravelsAt(o) /\ CopyAt(o) /\ RowsOK(held, temps) /\ PerOriginator
      /\ o \notin spoiled => ThreadAt(o)
  BY AsIs
<1>2. tt[o] \in CopyType /\ held[o] \subseteq MacsOf(o)
  BY <1>1 DEF CopyAt, Copy
<1>3. r \in CopyType /\ r.ttvn = tt[o].ttvn /\ r.known = tt[o].known
  BY <1>2 DEF CopyType
<1>4. tt' = [tt EXCEPT ![o] = r] /\ UNCHANGED <<owner, ogm, asked, answers, held, temps, spoiled>>
  BY DEF Waited
<1> HIDE DEF r
<1>5. UNCHANGED <<local, changes, ttvn, resend, last_tvlv>>
  BY <1>4 DEF owner
<1>6. /\ IsFun(tt)' /\ tt'[o] = r /\ \A p \in Origs : p # o => tt'[p] = tt[p]
  BY <1>1, <1>4, FunExcept DEF PerOriginator, IsFun
<1>7. PerOriginator'
  BY <1>1, <1>4, <1>5, <1>6 DEF PerOriginator, IsFun
<1>8. Elsewhere(o)
  BY <1>4, <1>5, <1>6 DEF Elsewhere
<1>9. IsTail(o, ogm'[o]) /\ answers'[o] \subseteq AnswerType(o) /\ Copy(o, held'[o], tt'[o])
  BY <1>1, <1>2, <1>3, <1>4, <1>6 DEF TravelsAt, Travels, Copy
<1>10. RowsOK(held', temps') /\ spoiled \subseteq spoiled' /\ UNCHANGED owner
  BY <1>1, <1>4
<1>11. ASSUME o \notin spoiled'
       PROVE  Thread(ttvn[o], CommittedOf(o, local[o]), last_tvlv[o], ogm'[o], answers'[o], held'[o], tt'[o])
  <2>1. Thread(ttvn[o], CommittedOf(o, local[o]), last_tvlv[o], ogm[o], answers[o], held[o], tt[o])
    BY <1>1, <1>4, <1>11 DEF ThreadAt
  <2>2. Copies(held[o], r, answers[o]) = Copies(held[o], tt[o], answers[o])
    BY <1>3 DEF Copies
  <2>3. Thread(ttvn[o], CommittedOf(o, local[o]), last_tvlv[o], ogm[o], answers[o], held[o], r)
    BY <1>3, <2>1, <2>2 DEF Thread
  <2> QED  BY <1>4, <1>6, <2>3
<1> QED  BY <1>7, <1>8, <1>9, <1>10, <1>11, CopyStep

LEMMA GoneKeeps == ASSUME TableInv, NEW o \in Origs, NEW n \in Version, Gone(o, n)  PROVE TableInv'
<1> DEFINE r == [ttvn |-> n, known |-> FALSE, pending |-> FALSE]
           h == [held EXCEPT ![o] = {}]
           w == Without(temps, Macs, {o})
<1>1. OwnerAt(o) /\ TravelsAt(o) /\ CopyAt(o) /\ RowsOK(held, temps) /\ PerOriginator
  BY AsIs
<1>2. RowsOK(h, w)
  BY <1>1, EmptiedOK
<1>3. r \in CopyType
  BY DEF CopyType
<1>4. /\ held' = h /\ temps' = w /\ tt' = [tt EXCEPT ![o] = r] /\ spoiled' = spoiled \cup {o}
      /\ UNCHANGED <<owner, ogm, asked, answers>>
  BY DEF Gone
<1> HIDE DEF r, w
<1>5. UNCHANGED <<local, changes, ttvn, resend, last_tvlv>>
  BY <1>4 DEF owner
<1>6. /\ IsFun(tt)' /\ tt'[o] = r /\ \A p \in Origs : p # o => tt'[p] = tt[p]
  BY <1>1, <1>4, FunExcept DEF PerOriginator, IsFun
<1>7. /\ IsFun(held)' /\ held'[o] = {} /\ \A p \in Origs : p # o => held'[p] = held[p]
  BY <1>1, <1>4, FunExcept DEF PerOriginator, IsFun
<1>8. PerOriginator'
  BY <1>1, <1>4, <1>5, <1>6, <1>7 DEF PerOriginator, IsFun
<1>9. Elsewhere(o)
  BY <1>4, <1>5, <1>6, <1>7 DEF Elsewhere
<1>10. IsTail(o, ogm'[o]) /\ answers'[o] \subseteq AnswerType(o) /\ Copy(o, held'[o], tt'[o])
  BY <1>1, <1>3, <1>4, <1>6, <1>7 DEF TravelsAt, Travels, Copy
<1>11. RowsOK(held', temps') /\ spoiled \subseteq spoiled' /\ o \in spoiled' /\ UNCHANGED owner
  BY <1>2, <1>4
<1> QED  BY <1>8, <1>9, <1>10, <1>11, CopyStep

LEMMA RebootKeeps == ASSUME TableInv, NEW o \in Origs, Reboot(o)  PROVE TableInv'
<1> DEFINE k == [m \in MacsOf(o) |-> IF m = o THEN "new" ELSE "no"]
           q == <<Event(o, FALSE)>>
<1>1. TravelsAt(o) /\ CopyAt(o) /\ RowsOK(held, temps) /\ PerOriginator
  BY AsIs
<1>2. Owner(o, k, q, 0, 0)
  BY FreshOwner
<1>3. /\ local' = [local EXCEPT ![o] = k] /\ changes' = [changes EXCEPT ![o] = q] /\ ttvn' = [ttvn EXCEPT ![o] = 0]
      /\ resend' = [resend EXCEPT ![o] = 0] /\ last_tvlv' = [last_tvlv EXCEPT ![o] = NoTail]
      /\ spoiled' = spoiled \cup {o} /\ UNCHANGED <<ogm, asked, answers, held, temps, tt>>
  BY DEF Reboot
<1>4. IsTail(o, NoTail)
  BY NoTailIs
<1> DEFINE nt == NoTail
<1>5. last_tvlv' = [last_tvlv EXCEPT ![o] = nt] /\ IsTail(o, nt)
  BY <1>3, <1>4
<1> HIDE DEF k, q, nt
<1>6. /\ IsFun(local') /\ IsFun(ttvn') /\ IsFun(resend') /\ IsFun(last_tvlv') /\ IsFun(changes')
      /\ local'[o] = k /\ ttvn'[o] = 0 /\ resend'[o] = 0 /\ last_tvlv'[o] = nt /\ changes'[o] = q
      /\ \A p \in Origs : p # o => /\ local'[p] = local[p] /\ ttvn'[p] = ttvn[p] /\ resend'[p] = resend[p]
                                   /\ last_tvlv'[p] = last_tvlv[p] /\ changes'[p] = changes[p]
  BY <1>1, <1>3, <1>5, FunExcept DEF PerOriginator, IsFun
<1>7. PerOriginator'
  BY <1>1, <1>3, <1>6 DEF PerOriginator
<1>8. Elsewhere(o)
  BY <1>3, <1>6 DEF Elsewhere
<1>9. OwnerAt(o)'
  BY <1>2, <1>6 DEF OwnerAt
<1>10. TravelsAt(o)' /\ CopyAt(o)' /\ RowsOK(held, temps)'
  BY <1>1, <1>3, <1>5, <1>6 DEF TravelsAt, Travels, CopyAt
<1>11. spoiled \subseteq spoiled' /\ o \in spoiled'
  BY <1>3
<1> QED  BY <1>7, <1>8, <1>9, <1>10, <1>11, StepOf

-----------------------------------------------------------------------------
\* The temporary rows.
LEMMA OldestGone ==
  ASSUME NEW h, NEW t, RowsOK(h, t), t # <<>>
  PROVE  RowsOK(h, Tail(t)) /\ Len(Tail(t)) = Len(t) - 1
         /\ \A k \in 1 .. Len(Tail(t)) : k + 1 \in 1 .. Len(t) /\ Tail(t)[k] = t[k + 1]
<1> DEFINE w == Tail(t)
<1>1. /\ w \in Seq(RowType) /\ Len(w) = Len(t) - 1 /\ DistinctMacs(w)
      /\ \A k \in 1 .. Len(w) : k + 1 \in 1 .. Len(t) /\ w[k] = t[k + 1]
  BY TailOK DEF RowsOK
<1>2. Len(t) \in Nat /\ Cardinality(Cells(h)) \in Nat
  BY CellsIs DEF RowsOK
<1> HIDE DEF w
<1>3. Len(w) + Cardinality(Cells(h)) <= Rows /\ Len(w) <= TempMax
  BY <1>1, <1>2, TTFacts DEF RowsOK
<1>4. \A i \in 1 .. Len(w), p \in Origs : w[i].mac \notin h[p]
  BY <1>1 DEF RowsOK
<1>5. RowsOK(h, w)
  BY <1>1, <1>3, <1>4 DEF RowsOK
<1> QED  BY <1>1, <1>5 DEF w

LEMMA TempAgeKeeps == ASSUME TableInv, TempAge  PROVE TableInv'
<1>1. RowsOK(held, Tail(temps))
  BY OldestGone DEF TableInv, TempAge
<1> QED  BY <1>1, RowsOnly DEF TempAge

LEMMA LearnKeeps == ASSUME TableInv, NEW o \in Origs, NEW m \in MacsOf(o), Learn(o, m)  PROVE TableInv'
<1> DEFINE new == [mac |-> m, orig |-> o]
           at == {i \in 1..Len(temps) : temps[i].mac = m}
           evict == temps # <<>> /\ (Len(temps) >= TempMax \/ RowsUsed(held, temps) >= Rows)
           room == IF evict THEN Tail(temps) ELSE temps
           put == [i \in 1 .. Len(temps) |-> IF i \in at THEN new ELSE temps[i]]
<1>1. RowsOK(held, temps) /\ temps \in Seq(RowType) /\ held \in Holdings /\ Len(temps) \in Nat
  BY DEF TableInv, RowsOK
<1>2. new \in RowType /\ new.mac = m
  BY MacsFinite DEF RowType
<1>3. \A p \in Origs : m \notin held[p]
  BY DEF Learn
<1>4. /\ temps' = IF at # {} THEN put
                  ELSE IF RowsUsed(held, room) < Rows THEN Append(room, new) ELSE room
      /\ UNCHANGED <<owner, ogm, asked, answers, held, tt, spoiled>>
  BY DEF Learn
<1> HIDE DEF new
<1>5. RowsOK(held, put)
  <2>1. \A i \in 1 .. Len(temps) : temps[i] \in RowType
    BY <1>1, ElementOfSeq
  <2>2. put \in Seq(RowType) /\ Len(put) = Len(temps)
    <3>1. put \in [1 .. Len(temps) -> RowType]
      BY <1>2, <2>1
    <3> HIDE DEF put
    <3>2. \A n \in Nat : \A f \in [1 .. n -> RowType] : f \in Seq(RowType) /\ Len(f) = n
      OBVIOUS
    <3> QED  BY <1>1, <3>1, <3>2
  <2>3. \A i \in 1 .. Len(temps) : put[i].mac = temps[i].mac
    BY <1>2
  <2> HIDE DEF put
  <2>4. DistinctMacs(put)
    BY <1>1, <2>2, <2>3 DEF DistinctMacs, RowsOK
  <2> QED  BY <1>1, <2>2, <2>3, <2>4 DEF RowsOK
<1>6. RowsOK(held, room) /\ (at = {} => \A k \in 1 .. Len(room) : room[k].mac # m)
      /\ (evict => Len(room) = Len(temps) - 1)
  <2>1. CASE evict
    BY <1>1, <2>1, OldestGone
  <2>2. CASE ~evict
    BY <1>1, <2>2
  <2> QED  BY <2>1, <2>2
<1>7. ASSUME at = {}, RowsUsed(held, room) < Rows  PROVE RowsOK(held, Append(room, new))
  <2> DEFINE w == Append(room, new)
             c == Cardinality(Cells(held))
  <2>1. room \in Seq(RowType) /\ Len(room) \in Nat /\ DistinctMacs(room) /\ c \in Nat
        /\ RowsUsed(held, room) = Len(room) + c /\ RowsUsed(held, temps) = Len(temps) + c
    <3> HIDE DEF room
    <3> QED  BY <1>1, <1>6, CellsIs DEF RowsOK
  <2>2. Len(room) < TempMax
    <3>1. CASE evict
      BY <1>1, <1>6, <3>1, TTFacts DEF RowsOK
    <3>2. CASE ~evict
      <4>1. temps = <<>> \/ Len(temps) < TempMax
        BY <1>1, <3>2, TTFacts
      <4> QED  BY <3>2, <4>1, TTFacts
    <3> QED  BY <3>1, <3>2
  <2> HIDE DEF room, at
  <2>3. /\ w \in Seq(RowType) /\ Len(w) = Len(room) + 1
        /\ \A k \in 1 .. Len(w) : w[k] = IF k = Len(room) + 1 THEN new ELSE room[k]
    BY <1>2, <2>1
  <2>4. DistinctMacs(w)
    BY <1>2, <1>6, <1>7, <2>1, AppendDistinct
  <2> HIDE DEF w, c
  <2>5. \A i \in 1 .. Len(w), p \in Origs : w[i].mac \notin held[p]
    <3> SUFFICES ASSUME NEW i \in 1 .. Len(w), NEW p \in Origs  PROVE w[i].mac \notin held[p]
      OBVIOUS
    <3>1. CASE i = Len(room) + 1
      BY <1>2, <1>3, <2>3, <3>1
    <3>2. CASE i # Len(room) + 1
      <4>1. i \in 1 .. Len(room)
        BY <2>1, <2>3, <3>2
      <4> QED  BY <1>6, <2>3, <3>2, <4>1 DEF RowsOK
    <3> QED  BY <3>1, <3>2
  <2>6. Len(w) + c <= Rows /\ Len(w) <= TempMax
    BY <1>7, <2>1, <2>2, <2>3, TTFacts
  <2>7. RowsOK(held, w)
    BY <1>1, <2>3, <2>4, <2>5, <2>6 DEF RowsOK, c
  <2> QED  BY <2>7 DEF w
<1>8. RowsOK(held, temps')
  <2> HIDE DEF put, room, at, evict
  <2> QED  BY <1>4, <1>5, <1>6, <1>7
<1>9. RowsOK(held, temps)'
  BY <1>4, <1>8
<1> QED  BY <1>4, <1>9, RowsOnly

\* No step breaks the invariant.
LEMMA TableStep == TableInv /\ [TTNext]_ttvars => TableInv'
<1> SUFFICES ASSUME TableInv, [TTNext]_ttvars  PROVE TableInv'
  OBVIOUS
<1>1. CASE UNCHANGED ttvars
  <2>1. UNCHANGED <<owner, ogm, asked, answers, held, tt, spoiled>> /\ RowsOK(held, temps)'
    BY <1>1 DEF ttvars, owner, TableInv
  <2> QED  BY <2>1, RowsOnly
<1>2. CASE TempAge
  BY <1>2, TempAgeKeeps
<1>3. ASSUME NEW o \in Origs, NEW m \in Clients, LocalAdd(o, m) \/ LocalDel(o, m)  PROVE TableInv'
  BY <1>3, LocalAddKeeps, LocalDelKeeps
<1>4. ASSUME NEW o \in Origs, NEW m \in MacsOf(o), Learn(o, m)  PROVE TableInv'
  BY <1>4, LearnKeeps
<1>5. ASSUME NEW o \in Origs, OwnOgm(o)  PROVE TableInv'
  BY <1>5, CommitKeeps, RepeatKeeps, AnnounceKeeps DEF OwnOgm
<1>6. ASSUME NEW o \in Origs, AnswerTx(o) \/ OgmRx(o) \/ AnswerRx(o) \/ Waited(o) \/ LoseAnswer(o)  PROVE TableInv'
  BY <1>6, AnswerTxKeeps, OgmRxKeeps, AnswerRxKeeps, WaitedKeeps, LoseAnswerKeeps
<1>7. ASSUME NEW o \in Origs, RouteLost(o) \/ OrigPurged(o)  PROVE TableInv'
  <2>1. tt[o].ttvn \in Version /\ 0 \in Version
    BY AsIs, VersionFacts DEF CopyAt, Copy, CopyType
  <2> QED  BY <1>7, <2>1, GoneKeeps DEF RouteLost, OrigPurged
<1>8. ASSUME NEW o \in Origs, Reboot(o)  PROVE TableInv'
  BY <1>8, RebootKeeps
<1>9. TTNext \/ UNCHANGED ttvars
  OBVIOUS
<1> QED  BY <1>1, <1>2, <1>3, <1>4, <1>5, <1>6, <1>7, <1>8, <1>9 DEF TTNext

\* What the invariant says of the rows, the queue and the copies.
LEMMA TablesAsRun == TableInv => TTInv
<1> SUFFICES ASSUME TableInv  PROVE TTInv
  OBVIOUS
<1>1. ASSUME NEW o \in Origs
      PROVE  /\ local[o] \in [MacsOf(o) -> {"no", "new", "on", "del"}]
             /\ Len(changes[o]) <= ChangesMax
             /\ ttvn[o] \in Version /\ resend[o] \in 0..Resends
             /\ held[o] \subseteq MacsOf(o)
             /\ tt[o] \in [ttvn : Version, known : BOOLEAN, pending : BOOLEAN]
  BY AsIs DEF OwnerAt, Owner, CopyAt, Copy, CopyType
<1>2. TTTypeOK
  BY <1>1 DEF TTTypeOK, TableInv, PerOriginator
<1>3. TempsApart
  <2>1. RowsUsed(held, temps) = Len(temps) + Cardinality(Cells(held))
    BY CellsIs DEF TableInv, RowsOK
  <2> QED  BY <2>1 DEF TempsApart, TableInv, RowsOK, DistinctMacs
<1>4. ASSUME NEW o \in Origs
      PROVE  /\ Toggled(Committed(o), changes[o]) = Announced(o)
             /\ DistinctMacs(changes[o])
  <2> DEFINE E == MacsOf(o)
             q == changes[o]
             T == Committed(o)
  <2>1. Owner(o, local[o], q, ttvn[o], resend[o]) /\ T = CommittedOf(o, local[o])
    BY AsIs DEF OwnerAt
  <2>2. After(T, q) = Announced(o)
    BY <2>1, QueueSays DEF Announced
  <2>3. T \in SUBSET E
    BY DEF Committed
  <2>4. q \in Seq([mac : E, del : BOOLEAN]) /\ DistinctMacs(q)
    BY <2>1 DEF Owner, Events
  <2> HIDE DEF E, q, T
  <2>5. Toggled(T, q) = After(T, q)
    BY <2>3, <2>4, ToggledIs
  <2> QED  BY <2>2, <2>4, <2>5 DEF T, q
<1>5. QueueExact
  BY <1>4 DEF QueueExact, DistinctMacs
<1> QED  BY <1>2, <1>3, <1>5 DEF TTInv

\* Of a copy, the number says the table.
LEMMA CopiesAsRun == TableInv => Exact
<1> SUFFICES ASSUME TableInv, NEW o \in Origs \ spoiled, tt[o].known, tt[o].ttvn = ttvn[o]
             PROVE  held[o] = Committed(o)
  BY DEF Exact
<1> DEFINE V == Copies(held[o], tt[o], answers[o])
           x == [ttvn |-> tt[o].ttvn, table |-> held[o]]
<1>1. Thread(ttvn[o], Committed(o), last_tvlv[o], ogm[o], answers[o], held[o], tt[o])
  BY AsIs DEF ThreadAt
<1>2. x \in V
  BY DEF Copies
<1>3. x.ttvn = ttvn[o] => x.table = Committed(o)
  BY <1>1, <1>2 DEF Thread
<1> QED  BY <1>3

\* An exchange mends.
LEMMA MendsAsRun == TableInv => OneExchange
<1> SUFFICES ASSUME TableInv, NEW o \in Origs, RowsUsed([held EXCEPT ![o] = Committed(o)], <<>>) <= Rows
             PROVE  Mended(o)
  BY DEF OneExchange
<1> DEFINE bare == [ttvn |-> ttvn[o], table |-> Committed(o), diff |-> <<>>, is |-> TRUE]
           r == [tt[o] EXCEPT !.pending = FALSE]
           s == TakeTail(held, temps, o, r, bare)
           full == TakeTable(s.held, s.temps, o, ttvn[o], SetToSeq(Committed(o)))
<1>1. tt[o] \in CopyType /\ RowsOK(held, temps)
  BY AsIs DEF CopyAt, Copy
<1>2. r.ttvn = tt[o].ttvn /\ r.known = tt[o].known
  BY <1>1 DEF CopyType
<1>3. bare.diff = <<>> /\ bare.ttvn = ttvn[o] /\ bare.table = Committed(o)
  OBVIOUS
<1>4. s = [held |-> held, temps |-> temps, ok |-> TRUE, tt |-> r,
           ask |-> Follows(bare, r) \/ ~r.known \/ bare.ttvn # r.ttvn \/ ~Matches(held, o, bare.table)]
  <2> HIDE DEF bare, r
  <2> QED  BY <1>3 DEF TakeTail
<1>5. CASE s.ask
  <2>1. Committed(o) \in SUBSET MacsOf(o) /\ IsFiniteSet(Committed(o))
    BY MacsFinite, FS_Subset DEF Committed
  <2>2. SetToSeq(Committed(o)) \in SetToSeqs(Committed(o))
    BY <2>1, SetToSeqIs
  <2>3. s.held = held /\ s.temps = temps
    BY <1>4
  <2>4. TakesTable(held, o, ttvn[o], Committed(o), full)
    <3> HIDE DEF s
    <3> QED  BY <1>1, <2>1, <2>2, <2>3, TakeTableIs
  <2> HIDE DEF full, s
  <2>5. full.tt.known /\ full.tt.ttvn = ttvn[o] /\ full.held[o] = Committed(o)
    BY <2>4 DEF TakesTable
  <2> QED  BY <1>5, <2>5 DEF Mended, s, full
<1>6. CASE ~s.ask
  <2>1. s.held = held /\ s.tt = r /\ r.known /\ ttvn[o] = r.ttvn /\ held[o] = Committed(o)
    <3> HIDE DEF bare, r, s
    <3> QED  BY <1>3, <1>4, <1>6 DEF Matches
  <2> HIDE DEF s, r
  <2>2. s.tt.known /\ s.tt.ttvn = ttvn[o] /\ s.held[o] = Committed(o)
    BY <2>1
  <2> QED  BY <1>6, <2>2 DEF Mended, s, r
<1> QED  BY <1>5, <1>6

\* Every type, the limits of the rows, a temporary row apart from every announced one, and the queue of
\* events: what bat_tt_local_add, bat_tt_local_del and queue_event leave to announce turns the announced
\* table into the next, for any clients, rows, room in the queue and modulus of the number.
THEOREM TablesHold == TTSpec => []TTInv
<1>1. TTInit => TableInv
  BY TableStart
<1>2. TableInv /\ [TTNext]_ttvars => TableInv'
  BY TableStep
<1>3. TableInv => TTInv
  BY TablesAsRun
<1> QED  BY <1>1, <1>2, <1>3, PTL DEF TTSpec

\* A copy that bat_tt_ogm_rx and response left with the announced number is the announced table, unless
\* it lost its thread, whatever was lost, late or answered in between.
THEOREM CopiesExact == TTSpec => []Exact
<1>1. TTInit => TableInv
  BY TableStart
<1>2. TableInv /\ [TTNext]_ttvars => TableInv'
  BY TableStep
<1>3. TableInv => Exact
  BY CopiesAsRun
<1> QED  BY <1>1, <1>2, <1>3, PTL DEF TTSpec

\* From every state, an OGM that is not lost and the full table that answers the request it draws make the
\* copy the announced table, with rows enough for it.
THEOREM OneExchangeMends == TTSpec => []OneExchange
<1>1. TTInit => TableInv
  BY TableStart
<1>2. TableInv /\ [TTNext]_ttvars => TableInv'
  BY TableStep
<1>3. TableInv => OneExchange
  BY MendsAsRun
<1> QED  BY <1>1, <1>2, <1>3, PTL DEF TTSpec
=============================================================================
