-------------------------------- MODULE Hwmp --------------------------------
(***************************************************************************)
(* HWMP path selection between forwarding nodes: the path table            *)
(* (mesh/umac_mesh_pathtbl.c), what a node does with a received PREQ, PREP *)
(* or PERR and with a neighbour it loses (umac_mesh_hwmp_relay.c), the     *)
(* discoveries it starts and how they leave (umac_mesh_fwd_glue.c,         *)
(* umac_mesh.c).                                                           *)
(*                                                                         *)
(* Every handler runs on its node's event loop under the lock of the       *)
(* table.  A group frame reaches every node in range, each on its own.     *)
(* Frames from one node to another arrive in order or, MaxLosses times,    *)
(* not at all.  Time is not counted: a path lapses when it may.            *)
(***************************************************************************)
EXTENDS Integers, FiniteSets, Sequences, SequencesExt

CONSTANTS Node, NoPath,
          Near,        \* of every node: the nodes in range
          Relays,      \* those with AT+MESHFWD=1; the others are bridges
          Flows,       \* <<n, t>>: n has frames for t
          Keepers,     \* nodes whose keep-alive runs
          PathMax,     \* UMAC_MESH_PATH_MAX
          Ttl,         \* HWMP_DEFAULT_TTL
          Hop,         \* UMAC_MESH_FWD_HOP_METRIC
          PerrBurst,   \* UMAC_MESH_FWD_PERR_BURST
          Outbox,      \* MESH_GRP_OUTBOX
          SnMod,       \* 2^32: sequence numbers wrap
          FirstSn,     \* where they stand after long running
          MaxAsks, MaxBreaks, MaxLosses, MaxLapses

\* A node draws one number for each of its peers at once, far fewer than half of them all.
ASSUME HwmpAssumption ==
  /\ IsFiniteSet(Node) /\ 2 * Cardinality(Node) <= SnMod
  /\ Near \in [Node -> SUBSET Node]
  /\ \A n \in Node : n \notin Near[n] /\ \A p \in Near[n] : n \in Near[p]
  /\ Relays \subseteq Node /\ Keepers \subseteq Node
  /\ Flows \subseteq {f \in Node \X Node : f[1] # f[2]}
  /\ PathMax \in Nat \ {0} /\ Ttl \in Nat \ {0} /\ Hop \in Nat \ {0} /\ PerrBurst \in Nat
  /\ Outbox \in Nat /\ SnMod \in Nat /\ SnMod > 1 /\ FirstSn \in 0 .. SnMod - 1
  /\ {MaxAsks, MaxBreaks, MaxLosses, MaxLapses} \subseteq Nat
  /\ NoPath \notin [nh : Node, sn : 0 .. SnMod - 1, metric : Nat, active : BOOLEAN, live : BOOLEAN]

VARIABLES
  path,    \* of every node, by destination: s_tbl.p
  sn,      \* of every node: s_hwmp_sn
  peers,   \* of every node: its established peers
  outbox,  \* of every node: PREQs queued for the event loop (s_grp_out)
  air,     \* of every pair in range: the frames on their way
  spent    \* how often each bounded thing has happened

vars == <<path, sn, peers, outbox, air, spent>>

Pairs == {p \in Node \X Node : p[2] \in Near[p[1]]}

Init ==
  /\ path   = [n \in Node |-> [d \in Node |-> NoPath]]
  /\ sn     = [n \in Node |-> FirstSn]
  /\ peers  = Near
  /\ outbox = [n \in Node |-> <<>>]
  /\ air    = [p \in Pairs |-> <<>>]
  /\ spent  = [asks |-> 0, breaks |-> 0, losses |-> 0, lapses |-> 0]

Spend(what, max) == spent[what] < max /\ spent' = [spent EXCEPT ![what] = @ + 1]

(***************************************************************************)
(* Sequence numbers: hwmp_sn_gt and an increment.                          *)
(***************************************************************************)
Up(s) == (s + 1) % SnMod
Newer(a, b) == (b - a) % SnMod >= SnMod \div 2 /\ a # b

(***************************************************************************)
(* Frames.  A PREQ is about its originator, a PREP about its target, a     *)
(* PERR about the lost destination; to is whom the PREQ asks for or the    *)
(* PREP answers.                                                           *)
(***************************************************************************)
Frame(kind, about, s, metric, ttl, to) ==
  [kind |-> kind, about |-> about, sn |-> s, metric |-> metric, ttl |-> ttl, to |-> to]
Preq(o, s, t) == Frame("preq", o, s, 0, Ttl, t)
Prep(t, s, o) == Frame("prep", t, s, 0, Ttl, o)
Perr(d, s, ttl) == Frame("perr", d, s, 0, ttl, d)
\* One hop on.
Onward(m) == [m EXCEPT !.metric = @ + Hop, !.ttl = @ - 1]

Unicast(am, n, p, m) == IF <<n, p>> \in Pairs THEN [am EXCEPT ![<<n, p>>] = Append(@, m)] ELSE am
Group(am, n, ms) == [p \in Pairs |-> IF p[1] = n THEN am[p] \o ms ELSE am[p]]

(***************************************************************************)
(* The path table of n.                                                    *)
(***************************************************************************)
Path(nh, s, metric) == [nh |-> nh, sn |-> s, metric |-> metric, active |-> TRUE, live |-> TRUE]
Held(n)    == {d \in Node : path[n][d] # NoPath}
Live(n, d) == d \in Held(n) /\ path[n][d].active /\ path[n][d].live     \* umac_mesh_path_lookup
Dead(n)    == {d \in Held(n) : ~Live(n, d)}

\* Good enough to displace path e: cheaper, and another next hop by a tenth.
Cheaper(e, nh, metric) ==
  (IF e.nh = nh THEN metric ELSE (metric * 10) \div 9) < e.metric
\* Mutant: a newer sequence number is not asked for.
FreshAnySn(n, d, nh, s, metric) == Live(n, d) => s # path[n][d].sn \/ Cheaper(path[n][d], nh, metric)
Fresh(n, d, nh, s, metric) ==
  Live(n, d) => /\ ~Newer(path[n][d].sn, s)
                /\ s = path[n][d].sn => Cheaper(path[n][d], nh, metric)

Room(n, d) == d \in Held(n) \/ Cardinality(Held(n)) < PathMax \/ Dead(n) # {}
\* The table with e for d: in its slot, a free one, or that of a dead path.
With(n, d, e) ==
  IF d \in Held(n) \/ Cardinality(Held(n)) < PathMax
  THEN {[path[n] EXCEPT ![d] = e]}
  ELSE {[path[n] EXCEPT ![d] = e, ![v] = NoPath] : v \in Dead(n)}

\* umac_mesh_path_update with what m of p says; an expiry is only extended.
Says(n, p, m) == Fresh(n, m.about, p, m.sn, m.metric + Hop) /\ Room(n, m.about)
Learn(n, p, m) ==
  \E t \in With(n, m.about, Path(p, m.sn, m.metric + Hop)) : path' = [path EXCEPT ![n] = t]

(***************************************************************************)
(* Discovery: maybe_preq_ and umac_mesh_fwd_originate_preq.  n asks for t, *)
(* which is no peer and has no path, or refreshes a path about to lapse.   *)
(* Off the event loop the frame is queued (mesh_grp_defer_).               *)
(***************************************************************************)
Wants(n, t) == <<n, t>> \in Flows /\ (Live(n, t) \/ t \notin peers[n])

Ask(n, t) ==
  /\ Wants(n, t) /\ Spend("asks", MaxAsks)
  /\ sn'  = [sn EXCEPT ![n] = Up(@)]
  /\ air' = Group(air, n, <<Preq(n, Up(sn[n]), t)>>)
  /\ UNCHANGED <<path, peers, outbox>>

AskOffLoop(n, t) ==
  /\ Wants(n, t) /\ Spend("asks", MaxAsks)
  /\ sn'  = [sn EXCEPT ![n] = Up(@)]
  /\ \/ /\ Len(outbox[n]) < Outbox
        /\ outbox' = [outbox EXCEPT ![n] = Append(@, Preq(n, Up(sn[n]), t))]
     \/ UNCHANGED outbox      \* no room, or no event for the loop: dropped
  /\ UNCHANGED <<path, peers, air>>

\* mesh_grp_restamp_: a number drawn since makes the queued one stale.  Mutant: sent as it is.
AsQueued(n, m) == m.sn
Restamped(n, m) == IF m.sn = sn[n] THEN m.sn ELSE Up(sn[n])

\* mesh_grp_out_evt_, a frame of it.
Drain(n) ==
  /\ outbox[n] # <<>>
  /\ LET s == Restamped(n, Head(outbox[n])) IN
     /\ sn'  = [sn EXCEPT ![n] = IF s = Head(outbox[n]).sn THEN @ ELSE s]
     /\ air' = Group(air, n, <<[Head(outbox[n]) EXCEPT !.sn = s]>>)
  /\ outbox' = [outbox EXCEPT ![n] = Tail(@)]
  /\ UNCHANGED <<path, peers, spent>>

\* The keep-alive of umac_mesh_maybe_initiate_mpm: a PREQ to each peer, each with its own number.
KeepAlive(n) ==
  LET ps == SetToSeq(peers[n])
      Nth(p) == CHOOSE i \in DOMAIN ps : ps[i] = p
      Num(i) == (sn[n] + i) % SnMod
  IN /\ n \in Keepers /\ peers[n] # {} /\ Spend("asks", MaxAsks)
     /\ sn'  = [sn EXCEPT ![n] = Num(Len(ps))]
     /\ air' = [q \in Pairs |-> IF q[1] = n /\ q[2] \in peers[n]
                                THEN Append(air[q], Preq(n, Num(Nth(q[2])), q[2]))
                                ELSE air[q]]
     /\ UNCHANGED <<path, peers, outbox>>

(***************************************************************************)
(* umac_mesh_fwd_glue_hwmp_rx and umac_mesh_hwmp_relay: n handles m of p;  *)
(* am is the air without it.                                               *)
(***************************************************************************)
Dropped(am) == air' = am /\ UNCHANGED <<path, sn>>
Own(n, m) == m.about = n
MayPass(n, m) == n \in Relays /\ m.ttl > 1

HandlePreq(n, p, m, am) ==
  IF Own(n, m) \/ ~Says(n, p, m) THEN Dropped(am)
  ELSE /\ Learn(n, p, m)
       /\ IF m.to = n
          THEN /\ sn'  = [sn EXCEPT ![n] = Up(@)]
               /\ air' = Unicast(am, n, p, Prep(n, Up(sn[n]), m.about))
          ELSE /\ air' = IF MayPass(n, m) THEN Group(am, n, <<Onward(m)>>) ELSE am
               /\ UNCHANGED sn

HandlePrep(n, p, m, am) ==
  IF Own(n, m) \/ ~Says(n, p, m) THEN Dropped(am)
  ELSE /\ Learn(n, p, m)
       /\ \* Back along the path its PREQ built.
          air' = IF m.to # n /\ MayPass(n, m) /\ Live(n, m.to)
                 THEN Unicast(am, n, path[n][m.to].nh, Onward(m))
                 ELSE am
       /\ UNCHANGED sn

\* umac_mesh_path_invalidate; 0 is an unknown number.
Breaks(n, p, m) ==
  /\ Live(n, m.about) /\ path[n][m.about].nh = p
  /\ m.sn = 0 \/ Newer(m.sn, path[n][m.about].sn)

HandlePerr(n, p, m, am) ==
  IF ~Breaks(n, p, m) THEN Dropped(am)
  ELSE /\ path' = [path EXCEPT ![n][m.about].active = FALSE,
                               ![n][m.about].sn = IF m.sn = 0 THEN @ ELSE m.sn]
       /\ air'  = IF MayPass(n, m) THEN Group(am, n, <<Perr(m.about, m.sn, m.ttl - 1)>>) ELSE am
       /\ UNCHANGED sn

Arrived(n, p, kind) == air[<<p, n>>] # <<>> /\ Head(air[<<p, n>>]).kind = kind
Rest(n, p) == [air EXCEPT ![<<p, n>>] = Tail(@)]

\* From anyone not an established peer: dropped.
ReceivePreq(n, p) ==
  /\ Arrived(n, p, "preq")
  /\ IF p \in peers[n] THEN HandlePreq(n, p, Head(air[<<p, n>>]), Rest(n, p)) ELSE Dropped(Rest(n, p))
  /\ UNCHANGED <<peers, outbox, spent>>

ReceivePrep(n, p) ==
  /\ Arrived(n, p, "prep")
  /\ IF p \in peers[n] THEN HandlePrep(n, p, Head(air[<<p, n>>]), Rest(n, p)) ELSE Dropped(Rest(n, p))
  /\ UNCHANGED <<peers, outbox, spent>>

ReceivePerr(n, p) ==
  /\ Arrived(n, p, "perr")
  /\ IF p \in peers[n] THEN HandlePerr(n, p, Head(air[<<p, n>>]), Rest(n, p)) ELSE Dropped(Rest(n, p))
  /\ UNCHANGED <<peers, outbox, spent>>

(***************************************************************************)
(* A neighbour goes: umac_mesh_fwd_glue_peer_lost.  Lapsed paths through   *)
(* it count; the numbers go up; at most PerrBurst are announced.           *)
(***************************************************************************)
Through(n, p) == {d \in Held(n) : path[n][d].active /\ path[n][d].nh = p}

\* What it announces of destination d.  Mutant: the number as it is.
LostAtSn(n, d) == path[n][d].sn
LostAt(n, d) == Up(path[n][d].sn)

Announced(n, p) ==
  IF n \notin Relays THEN {{}}
  ELSE {ds \in SUBSET Through(n, p) :
          Cardinality(ds) = PerrBurst \/ (ds = Through(n, p) /\ Cardinality(ds) < PerrBurst)}

PeerLost(n, p) ==
  /\ p \in peers[n] /\ Spend("breaks", MaxBreaks)
  /\ peers' = [peers EXCEPT ![n] = @ \ {p}]
  /\ path'  = [path EXCEPT ![n] = [d \in Node |->
                 IF d \in Through(n, p) THEN [@[d] EXCEPT !.active = FALSE, !.sn = LostAt(n, d)]
                 ELSE @[d]]]
  /\ \E ds \in Announced(n, p) :
       LET perrs == [i \in 1 .. Cardinality(ds) |->
                       LET gone == SetToSeq(ds)[i] IN Perr(gone, LostAt(n, gone), Ttl)]
       IN air' = Group(air, n, perrs)
  /\ UNCHANGED <<sn, outbox>>

\* Peered again.
PeerFound(n, p) ==
  /\ p \in Near[n] \ peers[n] /\ n \notin peers[p]
  /\ peers' = [peers EXCEPT ![n] = @ \cup {p}, ![p] = @ \cup {n}]
  /\ UNCHANGED <<path, sn, outbox, air, spent>>

(***************************************************************************)
(* Time and loss.  A path outlives what is said of its destination by      *)
(* seconds and frames take milliseconds: when it lapses, no older word of  *)
(* it is still on its way.  Ten minutes later its slot is freed.           *)
(***************************************************************************)
Sayings(d) == UNION {{m \in ToSet(air[p]) : m.about = d} : p \in Pairs}

Lapse(n, d) ==
  /\ d \in Held(n) /\ path[n][d].live /\ Spend("lapses", MaxLapses)
  /\ \A m \in Sayings(d) : Newer(m.sn, path[n][d].sn)
  /\ path' = [path EXCEPT ![n][d].live = FALSE]
  /\ UNCHANGED <<sn, peers, outbox, air>>

\* umac_mesh_path_expire
Expire(n, d) ==
  /\ d \in Held(n) /\ ~path[n][d].live /\ Sayings(d) = {}
  /\ path' = [path EXCEPT ![n][d] = NoPath]
  /\ UNCHANGED <<sn, peers, outbox, air, spent>>

Lose(n, p) ==
  /\ air[<<p, n>>] # <<>> /\ Spend("losses", MaxLosses)
  /\ air' = [air EXCEPT ![<<p, n>>] = Tail(@)]
  /\ UNCHANGED <<path, sn, peers, outbox>>

Next ==
  \/ \E f \in Flows : Ask(f[1], f[2]) \/ AskOffLoop(f[1], f[2])
  \/ \E n \in Node : Drain(n) \/ KeepAlive(n)
  \/ \E q \in Pairs : ReceivePreq(q[2], q[1]) \/ ReceivePrep(q[2], q[1]) \/ ReceivePerr(q[2], q[1])
  \/ \E q \in Pairs : PeerLost(q[1], q[2]) \/ PeerFound(q[1], q[2]) \/ Lose(q[2], q[1])
  \/ \E n, d \in Node : Lapse(n, d) \/ Expire(n, d)

Spec == Init /\ [][Next]_vars
FairSpec == /\ Spec
            /\ \A n \in Node : WF_vars(Drain(n))
            /\ \A q \in Pairs : /\ WF_vars(ReceivePreq(q[2], q[1]))
                                /\ WF_vars(ReceivePrep(q[2], q[1]))
                                /\ WF_vars(ReceivePerr(q[2], q[1]))

-----------------------------------------------------------------------------
(* The types. *)
Sn == 0 .. SnMod - 1
FrameType == [kind : {"preq", "prep", "perr"}, about : Node, sn : Sn, metric : Nat,
              ttl : 1 .. Ttl, to : Node]
PathType == [nh : Node, sn : Sn, metric : Nat, active : BOOLEAN, live : BOOLEAN]
TypeOK ==
  /\ path \in [Node -> [Node -> PathType \cup {NoPath}]]
  /\ \A n \in Node : n \notin Held(n) /\ Cardinality(Held(n)) <= PathMax
  /\ sn \in [Node -> Sn]
  /\ \A n \in Node : peers[n] \subseteq Near[n]
  /\ \A n \in Node : Len(outbox[n]) <= Outbox /\ ToSet(outbox[n]) \subseteq FrameType
  /\ \A p \in Pairs : ToSet(air[p]) \subseteq FrameType

\* Some of S, each handing frames for d to another of them.
Cycle(d, S) == S # {} /\ \A n \in S : Live(n, d) /\ path[n][d].nh \in S
Loop(d) == \E S \in SUBSET (Node \ {d}) : Cycle(d, S)

Quiet == spent.losses = 0 /\ \A p \in Pairs : air[p] = <<>>

\* While no neighbour is lost, no two nodes ever send a destination's frames to each other,
\* nor more of them around a ring, whatever frames are lost, paths lapse or numbers wrap.
NoLoop == \A d \in Node : ~Loop(d)
LoopFree == spent.breaks = 0 => NoLoop

\* No number is in use half the number space after its node drew it: neither what a node says
\* of itself nor, while no neighbour is lost, what the others say and keep of it.
Window(s) == {w \in Sn : (s - w) % SnMod < SnMod \div 2}
OwnRecent ==
  /\ \A n \in Node : \A m \in ToSet(outbox[n]) : m.sn \in Window(sn[n])
  /\ \A q \in Pairs : \A m \in ToSet(air[q]) : m.about = q[1] => m.sn \in Window(sn[q[1]])
AllRecent ==
  \A d \in Node : /\ \A n \in Node : d \in Held(n) => path[n][d].sn \in Window(sn[d])
                  /\ \A m \in Sayings(d) : m.sn \in Window(sn[d])
Recent == OwnRecent /\ (spent.breaks = 0 => AllRecent)

\* While no frame is lost, an announcement reaches those it is for: numbers are recent also as
\* neighbours come and go (an announced one may be the next to be drawn), no more paths than the
\* burst has frames run through one neighbour, and none is at its last hop where it breaks a path
\* that others use or are about to hear of.
Counted(n, d) == \/ \E k \in Node : Live(k, d) /\ path[k][d].nh = n
                 \/ \E m \in UNION {ToSet(air[p]) : p \in {q \in Pairs : q[1] = n}} :
                      m.about = d /\ m.kind # "perr"
Reach ==
  spent.losses = 0 =>
    /\ \A d \in Node :
         /\ \A n \in Node : Live(n, d) => path[n][d].sn \in Window(sn[d])
         /\ \A m \in Sayings(d) : m.sn \in Window(sn[d]) \/ (m.kind = "perr" /\ m.sn = Up(sn[d]))
    /\ \A q \in Pairs : q[1] \in Relays => Cardinality(Through(q[1], q[2])) <= PerrBurst
    /\ \A q \in Pairs :
         Arrived(q[2], q[1], "perr") /\ q[1] \in peers[q[2]] =>
         LET m == Head(air[q]) IN Breaks(q[2], q[1], m) /\ Counted(q[2], m.about) => m.ttl > 1

\* What holds of the numbers and the tables throughout.
HwmpInv == TypeOK /\ Recent /\ Reach /\ LoopFree

\* A stale PREQ taken after a neighbour went may close a ring, but the announcements that
\* follow it round break it: with no frame lost none is left once the air is quiet.
QuietLoopFree == Quiet => NoLoop

\* With every loss announced and no frame lost, nobody is left sending along a path whose next
\* hop has none ("the +1 is what makes a node routing through us accept the announcement"), until
\* a path lapses, which is not announced.
NoDeadEnd ==
  Quiet /\ spent.lapses = 0 =>
    \A n, d \in Node : Live(n, d) => path[n][d].nh = d \/ Live(path[n][d].nh, d)

\* What a node says of itself goes out with rising numbers, whichever task asked: "a peer drops
\* an older SN as stale".
NumbersRise ==
  \A q \in Pairs : \A i, j \in DOMAIN air[q] :
    i < j /\ air[q][i].about = q[1] /\ air[q][j].about = q[1]
      => Newer(air[q][j].sn, air[q][i].sn)

\* With no frame lost and no neighbour gone, every discovery that leaves is answered: the
\* asker gets a path to its target and the target one back.
Sought(n, t) == LET asked(m) == m.kind = "preq" /\ m.about = n /\ m.to = t IN
                \/ \E p \in Pairs : \E m \in ToSet(air[p]) : asked(m)
                \/ \E m \in ToSet(outbox[n]) : asked(m)
Answered == \A f \in Flows : Sought(f[1], f[2]) ~> Live(f[1], f[2]) /\ Live(f[2], f[1])
=============================================================================
