-------------------------------- MODULE Mpm --------------------------------
(***************************************************************************)
(* Mesh peering on an open mesh (mesh/umac_mesh.c, umac_mesh_plink_tbl.c): *)
(* nodes that hear each other exchange Open and Confirm until both hold an *)
(* established link and a station for it in the data path.  There is no    *)
(* retry timer and no state machine: a node answers what it receives, and  *)
(* opens again each time it hears a neighbour it is not peered with.       *)
(*                                                                         *)
(* Every node runs the same handlers on its own event loop, one frame at a *)
(* time.  Frames between two nodes arrive in order or not at all.  A new   *)
(* link id is random in the code and one in no other use here.  Losses,    *)
(* duplicates, restarts, silences of 30 s and failed stations are faults,  *)
(* MaxFaults of them in a behaviour.                                       *)
(***************************************************************************)
EXTENDS Naturals, FiniteSets, Sequences

CONSTANTS Nodes,
          MaxLinks,   \* MPM_MAX_LINKS
          OpenMax,    \* MPM_OPEN_RETRY_MAX
          Ids,        \* link ids
          Air,        \* frames on their way from one node to another; more are lost
          MaxFaults

ASSUME MpmAssumption ==
  /\ MaxLinks \in Nat \ {0} /\ OpenMax \in Nat \ {0} /\ Air \in Nat /\ MaxFaults \in Nat
  /\ Ids \subseteq Nat \ {0}

VARIABLES
  link,     \* of every node: s_mpm.links, by neighbour
  station,  \* of every node: the peers umac_datapath_mesh_add_peer took
  refused,  \* of every node: who said it is full (s_mpm.refused)
  over,     \* of every node: refused_over, a refusal the table could not note
  air,      \* of every pair: the frames on their way
  faults

tables == <<link, station>>
stamps == <<refused, over>>
vars   == <<tables, stamps, air, faults>>

NoLink == [used |-> FALSE, llid |-> 0, plid |-> 0, estab |-> FALSE, opens |-> 0]
Link(llid, plid, estab, opens) ==
  [used |-> TRUE, llid |-> llid, plid |-> plid, estab |-> estab, opens |-> opens]
Pairs  == {d \in Nodes \X Nodes : d[1] # d[2]}
Others(n) == Nodes \ {n}

Init ==
  /\ link    = [n \in Nodes |-> [p \in Others(n) |-> NoLink]]
  /\ station = [n \in Nodes |-> {}]
  /\ refused = [n \in Nodes |-> {}]
  /\ over    = [n \in Nodes |-> FALSE]
  /\ air     = [d \in Pairs |-> <<>>]
  /\ faults  = 0

(***************************************************************************)
(* Frames.  The link ids are the sender's own and the one it has of the    *)
(* receiver; "full" is the reason MESH-MAX-PEERS of a Close.               *)
(***************************************************************************)
Frame(act, llid, plid, full) == [act |-> act, llid |-> llid, plid |-> plid, full |-> full]
Open(l)        == Frame("open", l.llid, 0, FALSE)
Confirm(l)     == Frame("confirm", l.llid, l.plid, FALSE)
Close(a, b, f) == Frame("close", a, b, f)

\* fs of n to p, as far as the air takes them.
Cut(s)  == SubSeq(s, 1, IF Len(s) < Air THEN Len(s) ELSE Air)
Put(am, n, p, fs) == [am EXCEPT ![<<n, p>>] = Cut(@ \o fs)]

\* Link ids seen nowhere.
InUse == {link[d[1]][d[2]].llid : d \in Pairs} \cup {link[d[1]][d[2]].plid : d \in Pairs}
           \cup UNION {UNION {{air[d][i].llid, air[d][i].plid} : i \in DOMAIN air[d]} : d \in Pairs}
Minted(id) == id \in Ids \ InUse /\ \A j \in Ids \ InUse : id <= j

(***************************************************************************)
(* The table of links.                                                     *)
(***************************************************************************)
Used(t) == {p \in DOMAIN t : t[p].used}
Full(t) == Cardinality(Used(t)) = MaxLinks

\* mpm_table_make_room for an Open of p: the links one of which may be given up for it.
Idle(t) == {q \in Used(t) : ~t[q].estab /\ t[q].plid = 0}
\* Mutant: an established one too.
MakeRoomEstab(t, p) ==
  IF Full(t) /\ ~t[p].used THEN {q \in Used(t) : \A r \in Used(t) : t[r].opens <= t[q].opens} ELSE {}
MakeRoom(t, p) ==
  IF Full(t) /\ ~t[p].used THEN {q \in Idle(t) : \A r \in Idle(t) : t[r].opens <= t[q].opens} ELSE {}

\* mpm_table_get_or_create with a new id, where the table has room.
HasOrRoom(t, p) == t[p].used \/ ~Full(t)
Got(t, p, id)   == IF t[p].used THEN t[p] ELSE Link(id, 0, FALSE, 0)
Released(t, p)  == [t EXCEPT ![p] = NoLink]

SetLink(n, t) == link' = [link EXCEPT ![n] = t]

(***************************************************************************)
(* umac_mesh_handle_mpm: n handles frame m of p; am is the air without it. *)
(***************************************************************************)
\* The answer to an Open on link l: an Open of our own only while the link comes up.
\* Mutant: always.
AnswerAlways(l) == <<Open(l), Confirm(l)>>
Answer(l) == IF l.estab THEN <<Confirm(l)>> ELSE <<Open(l), Confirm(l)>>

OpenTaken(n, p, m, am, t, id) ==
  LET old == Got(t, p, id)
      new == Link(old.llid, m.llid, old.estab /\ m.llid = old.plid, 0)
  IN /\ SetLink(n, [t EXCEPT ![p] = new])
     /\ station' = IF new.estab THEN station ELSE [station EXCEPT ![n] = @ \ {p}]
     /\ refused' = [refused EXCEPT ![n] = @ \ {p}]
     /\ air' = Put(am, n, p, Answer(new))
     /\ UNCHANGED <<over, faults>>

\* Full: say so.
OpenRefused(n, p, m, am, t) ==
  /\ air' = Put(am, n, p, <<Close(0, m.llid, TRUE)>>)
  /\ UNCHANGED <<tables, stamps, faults>>

HandleOpen(n, p, m, am, id) ==
  LET t == link[n]
      giveUp == MakeRoom(t, p)
  IN IF giveUp # {}
     THEN \E q \in giveUp :
            OpenTaken(n, p, m, Put(am, n, q, <<Close(0, t[q].llid, FALSE)>>), Released(t, q), id)
     ELSE IF HasOrRoom(t, p) THEN OpenTaken(n, p, m, am, t, id)
     ELSE OpenRefused(n, p, m, am, t)

\* The peer's Confirm, noted; answered while the link comes up.
ConfirmNoted(n, p, m, am, l, up) ==
  LET new == Link(l.llid, m.llid, up, 0) IN
  /\ SetLink(n, [link[n] EXCEPT ![p] = new])
  /\ air' = IF new.estab THEN am ELSE Put(am, n, p, <<Confirm(new)>>)

HandleConfirm(n, p, m, am, id) ==
  LET l == Got(link[n], p, id)
      echoed == m.plid = l.llid
  IN /\ UNCHANGED stamps
     /\ \/ /\ ~HasOrRoom(link[n], p)
           /\ air' = am
           /\ UNCHANGED <<tables, faults>>
        \/ /\ HasOrRoom(link[n], p)
           /\ ConfirmNoted(n, p, m, am, l, l.estab \/ echoed)
           /\ station' = IF echoed THEN [station EXCEPT ![n] = @ \cup {p}] ELSE station
           /\ UNCHANGED faults
        \/ \* No station: the link is refused.
           /\ HasOrRoom(link[n], p) /\ echoed /\ ~l.estab
           /\ faults < MaxFaults /\ faults' = faults + 1
           /\ SetLink(n, Released(link[n], p))
           /\ air' = Put(am, n, p, <<Close(l.llid, m.llid, TRUE)>>)
           /\ UNCHANGED station

\* mpm_table_refuse has MPM_MAX_LINKS entries.
Refuse(n, p) ==
  IF p \in refused[n] \/ Cardinality(refused[n]) < MaxLinks
  THEN refused' = [refused EXCEPT ![n] = @ \cup {p}] /\ UNCHANGED over
  ELSE over' = [over EXCEPT ![n] = TRUE] /\ UNCHANGED refused

HandleClose(n, p, m, am) ==
  /\ station' = [station EXCEPT ![n] = @ \ {p}]
  /\ SetLink(n, Released(link[n], p))
  /\ IF m.full THEN Refuse(n, p) ELSE UNCHANGED stamps
  /\ air' = am
  /\ UNCHANGED faults

Handle(n, p, am) ==
  LET m == Head(air[<<p, n>>]) IN
  \E id \in Ids : /\ Minted(id)
                  /\ \/ m.act = "open"    /\ HandleOpen(n, p, m, am, id)
                     \/ m.act = "confirm" /\ HandleConfirm(n, p, m, am, id)
                     \/ m.act = "close"   /\ HandleClose(n, p, m, am)

Receive(n, p) ==
  /\ air[<<p, n>>] # <<>>
  /\ Handle(n, p, [air EXCEPT ![<<p, n>>] = Tail(@)])

(***************************************************************************)
(* umac_mesh_maybe_initiate_mpm: n hears a beacon or a probe request of p. *)
(* Those come a second apart and frames are answered in milliseconds, so   *)
(* an exchange under way is over; only p's own first Open may cross ours.  *)
(***************************************************************************)
Crossing(s) == Len(s) <= 1 /\ \A i \in DOMAIN s : s[i].act = "open"
HeldOff(n, p) == p \in refused[n] \/ over[n] \/ Cardinality(refused[n]) = MaxLinks

\* The unanswered Opens after which the link starts over.
GivesUp(l) == l.opens >= OpenMax

Hear(n, p) ==
  LET t == link[n] IN
  /\ air[<<n, p>>] = <<>> /\ Crossing(air[<<p, n>>])
  /\ t[p].used \/ (~HeldOff(n, p) /\ ~Full(t))
  /\ ~t[p].estab
  /\ UNCHANGED <<station, stamps, faults>>
  /\ \E id \in Ids :
       LET l == Got(t, p, id) IN
       /\ Minted(id)
       /\ IF GivesUp(l)
          THEN /\ SetLink(n, Released(t, p))
               /\ air' = Put(air, n, p, <<Close(0, l.llid, FALSE)>>)
          ELSE /\ SetLink(n, [t EXCEPT ![p] = Link(l.llid, l.plid, FALSE, l.opens + 1)])
               /\ air' = Put(air, n, p, <<Open(l)>>)

\* A holdoff of 30 s passes: that of p, or that of refused_over (p = n), which is nobody's.
Lapse(n, p) ==
  /\ p \in refused[n] \/ (p = n /\ over[n])
  /\ refused' = [refused EXCEPT ![n] = @ \ {p}]
  /\ over' = [over EXCEPT ![n] = @ /\ p # n]
  /\ UNCHANGED <<tables, air, faults>>

(***************************************************************************)
(* Faults.                                                                 *)
(***************************************************************************)
Fault == faults < MaxFaults /\ faults' = faults + 1

Lose(n, p) ==
  /\ Fault /\ air[<<p, n>>] # <<>>
  /\ air' = [air EXCEPT ![<<p, n>>] = Tail(@)]
  /\ UNCHANGED <<tables, stamps>>

\* A retransmission whose acknowledgement was lost: the same frame twice.
Duplicate(n, p) ==
  /\ Fault /\ air[<<p, n>>] # <<>>
  /\ air' = [air EXCEPT ![<<p, n>>] = Cut(<<Head(@)>> \o @)]
  /\ UNCHANGED <<tables, stamps>>

Restart(n) ==
  /\ Fault
  /\ SetLink(n, [p \in Others(n) |-> NoLink])
  /\ station' = [station EXCEPT ![n] = {}]
  /\ refused' = [refused EXCEPT ![n] = {}]
  /\ over'    = [over EXCEPT ![n] = FALSE]
  /\ UNCHANGED air

\* mpm_expire_stale_: nothing heard of p for MPM_PEER_TIMEOUT_MS.  Mutant: its station stays.
ExpireKeepsStation(n, p) ==
  /\ Fault /\ link[n][p].used
  /\ SetLink(n, Released(link[n], p))
  /\ UNCHANGED <<station, stamps, air>>

Expire(n, p) ==
  /\ Fault /\ link[n][p].used
  /\ SetLink(n, Released(link[n], p))
  /\ station' = [station EXCEPT ![n] = @ \ {p}]
  /\ UNCHANGED <<stamps, air>>

Next ==
  \/ \E d \in Pairs : Receive(d[1], d[2]) \/ Hear(d[1], d[2])
  \/ \E n, p \in Nodes : Lapse(n, p)
  \/ \E n \in Nodes : Restart(n)
  \/ \E d \in Pairs : Lose(d[1], d[2]) \/ Duplicate(d[1], d[2]) \/ Expire(d[1], d[2])

Spec == Init /\ [][Next]_vars

\* Nodes in range hear each other again and again; what is in the air arrives.
Fairness ==
  /\ \A d \in Pairs : WF_vars(Receive(d[1], d[2])) /\ WF_vars(Hear(d[1], d[2]))
  /\ \A n, p \in Nodes : WF_vars(Lapse(n, p))
FairSpec == Spec /\ Fairness

-----------------------------------------------------------------------------
(* The types. *)
LinkId == Ids \cup {0}
LinkType  == [used : BOOLEAN, llid : LinkId, plid : LinkId, estab : BOOLEAN, opens : 0 .. OpenMax]
FrameType == [act : {"open", "confirm", "close"}, llid : LinkId, plid : LinkId, full : BOOLEAN]
TypeOK ==
  /\ \A n \in Nodes : link[n] \in [Others(n) -> LinkType]
  /\ \A n \in Nodes : station[n] \subseteq Others(n) /\ refused[n] \subseteq Others(n)
  /\ \A n \in Nodes : Cardinality(Used(link[n])) <= MaxLinks
  /\ over \in [Nodes -> BOOLEAN]
  /\ \A d \in Pairs : Len(air[d]) <= Air /\ \A i \in 1 .. Len(air[d]) : air[d][i] \in FrameType
  /\ faults \in 0 .. MaxFaults

Estab(n, p) == link[n][p].estab

\* The peering table and the data path agree: no link is up that has no station to carry it
\* ("an ESTAB that black-holes"), and no station is kept for a link that is gone.
StationPerLink == \A n \in Nodes : station[n] = {p \in Others(n) : Estab(n, p)}

\* The types and that.
MpmInv == TypeOK /\ StationPerLink

\* Both ends up on the same ids, and silent.
Settled(n, p) ==
  /\ Estab(n, p) /\ Estab(p, n)
  /\ link[n][p].plid = link[p][n].llid /\ link[p][n].plid = link[n][p].llid
  /\ air[<<n, p>>] = <<>> /\ air[<<p, n>>] = <<>>

\* Two neighbours that hear each other end up peered, both sides on the same ids, whatever
\* was lost, repeated or restarted before; and they fall silent ("a symmetric loop with no
\* terminating condition, measured at ~94 frames/s").
Peered == \A d \in Pairs : <>[]Settled(d[1], d[2])

\* A settled link is not disturbed by a third node: only a fault ends it.
SettledStays ==
  [][\A d \in Pairs : Settled(d[1], d[2]) /\ faults' = faults => Settled(d[1], d[2])']_vars
\* "A peer that answered our Open with Close(MESH_MAX_PEERS) is not opened toward again for
\* this long": no Open goes to a peer that is, and stays, in its holdoff.
NotAsked ==
  [][\A d \in Pairs : d[2] \in refused[d[1]] /\ d[2] \in refused[d[1]]' =>
       ~(Len(air'[d]) > Len(air[d]) /\ air'[d][Len(air'[d])].act = "open")]_vars
=============================================================================
