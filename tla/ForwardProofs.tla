---------------------------- MODULE ForwardProofs ----------------------------
(***************************************************************************)
(* Forwarding, for any targets, slots and times: no frame stays held beside*)
(* its path; held frames leave in order and in time, asked for as often as *)
(* they say and when they should be; and the cache of group frames knows   *)
(* what it should know.                                                    *)
(***************************************************************************)
EXTENDS HeldFrames, SeenFrames, FiniteSetTheorems, WellFoundedInduction, TLAPS

\* The loop between two steps that empty the slots of what may go.
LoopDone == stage \in {"idle", "flushing", "timing"}

Targeted ==
  /\ slots = [s \in Slots |-> slots[s]]
  /\ \A s \in Slots : slots[s].target \in Targets \cup {NoTarget}
  /\ paths \subseteq Targets /\ fresh \in Targets \cup {NoTarget}
  /\ stage \in {"idle", "flush", "flushing", "timer", "timing"}
NoneBeside == LoopDone => \A s \in Slots : slots[s].target \notin paths
HeldIInv == Targeted /\ NoneBeside

(***************************************************************************)
(* The operators.                                                          *)
(***************************************************************************)
\* The least of some numbers is one of them.
LEMMA MinIsIn ==
  ASSUME NEW S \in SUBSET Nat, S # {}
  PROVE  Min(S) \in S /\ \A y \in S : Min(S) <= y
<1>1. PICK x \in S : \A y \in S : ~(<<y, x>> \in OpToRel(<, Nat))
  BY NatLessThanWellFounded, WFMin
<1>2. \A y \in S : ~(y < x)
  BY <1>1 DEF OpToRel
<1>3. \E z \in S : \A y \in S : z =< y
  BY <1>2
<1> QED  BY <1>3, Zenon DEF Min

LEMMA RelaySlotsAre == RelaySlots \in SUBSET Nat /\ RelaySlots \subseteq Slots
BY HeldAssumption DEF RelaySlots, Slots

\* A push puts a frame of its target in one slot at most.
LEMMA PushedTarget ==
  ASSUME Targeted, NEW S, NEW f
  PROVE  /\ Pushed(S, f) = [s \in Slots |-> Pushed(S, f)[s]]
         /\ \A s \in Slots : Pushed(S, f)[s].target \in {slots[s].target, f.target}
<1> DEFINE v == Victim(S, f.target)
           g == [f EXCEPT !.n = pushed + 1]
<1>1. Pushed(S, f) = [slots EXCEPT ![v] = g]
  BY DEF Pushed
<1>2. g.target = f.target
  OBVIOUS
<1> HIDE DEF v, g
<1>3. [slots EXCEPT ![v] = g] = [s \in Slots |-> [slots EXCEPT ![v] = g][s]]
  BY DEF Targeted
<1>4. \A s \in Slots : [slots EXCEPT ![v] = g][s] \in {slots[s], g}
  BY DEF Targeted
<1> QED  BY <1>1, <1>2, <1>3, <1>4

\* A frame of our own has its target, ...
LEMMA OwnTarget == ASSUME NEW t  PROVE Own(t).target = t
BY DEF Own, Empty

\* ... and a relayed one has, or is like one that is held.
LEMMA RelayedTarget ==
  ASSUME Targeted, NEW t
  PROVE  Relayed(t).target = t \/ \E s \in Slots : Relayed(t).target = slots[s].target
<1> DEFINE same == LiveFor(RelaySlots, t)
<1>1. CASE same = {}
  BY <1>1, OwnTarget DEF Relayed
<1>2. CASE same # {}
  <2>1. same \subseteq RelaySlots
    BY DEF LiveFor
  <2>2. Min(same) \in Slots
    BY <1>2, <2>1, RelaySlotsAre, MinIsIn
  <2>3. Relayed(t) = slots[Min(same)]
    BY <1>2 DEF Relayed
  <2> QED  BY <2>2, <2>3
<1> QED  BY <1>1, <1>2

\* Asking moves no frame.
LEMMA AskTargets ==
  ASSUME NEW sl, NEW S, Ask(sl, S)
  PROVE  slots' = [s \in Slots |-> slots'[s]] /\ \A s \in Slots : slots'[s].target = sl[s].target
<1>1. \A f, last : Climb(f, last).target = f.target
  BY DEF Climb
<1>2. PICK due : slots' = [s \in Slots |-> IF s \in RelaySlots /\ sl[s].target \in due
                                           THEN Climb(sl[s], went'[sl[s].target]) ELSE sl[s]]
  BY DEF Ask
<1> QED  BY <1>1, <1>2

(***************************************************************************)
(* The steps.                                                              *)
(***************************************************************************)
\* Slots whose targets were held before, and paths no more than before.
LEMMA NoneNew ==
  ASSUME HeldIInv, LoopDone' => LoopDone,
         slots' = [s \in Slots |-> slots'[s]],
         \A s \in Slots : \E r \in Slots : slots'[s].target = slots[r].target,
         paths' \subseteq paths, fresh' \in Targets \cup {NoTarget},
         stage' \in {"idle", "flush", "flushing", "timer", "timing"}
  PROVE  HeldIInv'
BY DEF HeldIInv, Targeted, NoneBeside

\* A frame of target t more, which there is no path to.
LEMMA OneNew ==
  ASSUME HeldIInv, UNCHANGED <<stage, paths>>,
         NEW t \in Targets, t \notin paths,
         slots' = [s \in Slots |-> slots'[s]],
         \A s \in Slots : slots'[s].target = t \/ \E r \in Slots : slots'[s].target = slots[r].target,
         fresh' \in Targets \cup {NoTarget}
  PROVE  HeldIInv'
BY DEF HeldIInv, Targeted, NoneBeside, LoopDone

LEMMA SlotsStay ==
  ASSUME HeldIInv, UNCHANGED slots, LoopDone' => LoopDone, paths' \subseteq paths,
         fresh' \in Targets \cup {NoTarget},
         stage' \in {"idle", "flush", "flushing", "timer", "timing"}
  PROVE  HeldIInv'
BY DEF HeldIInv, Targeted, NoneBeside

\* The push sees a path that has come since the lookup.
LEMMA PushHeld == ASSUME HeldIInv, TxPending  PROVE HeldIInv'
<1>1. fresh \in Targets /\ fresh' = NoTarget /\ UNCHANGED <<stage, paths>>
  BY DEF TxPending, HeldIInv, Targeted
<1>2. CASE Hold(fresh)
  <2>1. slots' = Pushed(OwnSlots, Own(fresh)) /\ Own(fresh).target = fresh
    BY <1>2, OwnTarget DEF TxPending
  <2>2. /\ slots' = [s \in Slots |-> slots'[s]]
        /\ \A s \in Slots : slots'[s].target \in {slots[s].target, fresh}
    BY <2>1, PushedTarget DEF HeldIInv
  <2> QED  BY <1>1, <1>2, <2>2, OneNew DEF Hold
<1>3. CASE ~Hold(fresh)
  BY <1>1, <1>3, SlotsStay DEF TxPending, HeldIInv, Targeted, LoopDone
<1> QED  BY <1>2, <1>3

LEMMA RelayedHeld == ASSUME HeldIInv, NEW t \in Targets, HoldRelayed(t)  PROVE HeldIInv'
<1> DEFINE sl == Pushed(RelaySlots, Relayed(t))
<1>1. t \notin paths /\ Ask(sl, {}) /\ UNCHANGED <<paths, stage, fresh>>
  BY DEF HoldRelayed
<1>2. \A s \in Slots : sl[s].target \in {slots[s].target, Relayed(t).target}
  BY PushedTarget DEF HeldIInv
<1>3. Relayed(t).target = t \/ \E s \in Slots : Relayed(t).target = slots[s].target
  BY RelayedTarget DEF HeldIInv
<1>4. slots' = [s \in Slots |-> slots'[s]] /\ \A s \in Slots : slots'[s].target = sl[s].target
  BY <1>1, AskTargets
<1> HIDE DEF sl
<1>5. \A s \in Slots : slots'[s].target = t \/ \E r \in Slots : slots'[s].target = slots[r].target
  BY <1>2, <1>3, <1>4
<1>6. fresh' \in Targets \cup {NoTarget}
  BY <1>1 DEF HeldIInv, Targeted
<1> QED  BY <1>1, <1>4, <1>5, <1>6, OneNew

\* umac_mesh_pending_take leaves no frame that has a path.
LEMMA AllTaken == ASSUME HeldIInv, Take  PROVE HeldIInv'
<1>1. /\ slots' = [s \in Slots |-> IF s \in Taken THEN Empty ELSE slots[s]]
      /\ stage' \in {"flushing", "timing"} /\ UNCHANGED <<paths, fresh>>
  BY DEF Take
<1>2. Empty.target = NoTarget /\ NoTarget \notin paths
  BY HeldAssumption DEF Empty, HeldIInv, Targeted
<1>3. ASSUME NEW s \in Slots  PROVE slots'[s].target \notin paths'
  <2>1. CASE s \in Taken \/ ~InUse(s)
    BY <1>1, <1>2, <2>1 DEF InUse
  <2>2. CASE s \notin Taken /\ InUse(s)
    BY <1>1, <2>2 DEF Taken
  <2> QED  BY <2>1, <2>2
<1>4. Targeted'
  BY <1>1, <1>2 DEF HeldIInv, Targeted
<1> QED  BY <1>3, <1>4 DEF HeldIInv, NoneBeside

LEMMA Asked == ASSUME HeldIInv, FlushAsk \/ TimerAsk  PROVE HeldIInv'
<1>1. /\ LoopDone /\ stage' = "idle" /\ paths' = Followed(paths) /\ fresh' = fresh
      /\ \E S : Ask(slots, S)
  BY DEF FlushAsk, TimerAsk, LoopDone
<1>2. slots' = [s \in Slots |-> slots'[s]] /\ \A s \in Slots : slots'[s].target = slots[s].target
  BY <1>1, AskTargets
<1>3. paths' \subseteq paths
  BY <1>1 DEF Followed
<1>4. fresh' \in Targets \cup {NoTarget}
  BY <1>1 DEF HeldIInv, Targeted
<1> QED  BY <1>1, <1>2, <1>3, <1>4, NoneNew

LEMMA Aged == ASSUME HeldIInv, Pass  PROVE HeldIInv'
<1>1. UNCHANGED <<paths, stage, fresh>>
  BY DEF Pass
<1>2. slots' = [s \in Slots |-> IF InUse(s)
                                THEN [slots[s] EXCEPT !.age = Up(@, Old), !.askAge = Up(@, Old)]
                                ELSE Empty]
  BY DEF Pass
<1>3. \A s \in Slots : slots'[s].target = slots[s].target
  <2>1. ASSUME NEW s \in Slots, InUse(s)  PROVE slots'[s].target = slots[s].target
    <3> DEFINE f == slots[s]
    <3>1. slots'[s] = [f EXCEPT !.age = Up(@, Old), !.askAge = Up(@, Old)]
      BY <1>2, <2>1
    <3> HIDE DEF f
    <3>2. slots'[s].target = f.target
      BY <3>1
    <3> QED  BY <3>2 DEF f
  <2>2. ASSUME NEW s \in Slots, ~InUse(s)  PROVE slots'[s].target = slots[s].target
    BY <1>2, <2>2 DEF InUse
  <2> QED  BY <2>1, <2>2
<1>4. slots' = [s \in Slots |-> slots'[s]]
  BY <1>2
<1>5. fresh' \in Targets \cup {NoTarget} /\ stage' \in {"idle", "flush", "flushing", "timer", "timing"}
      /\ (LoopDone' => LoopDone)
  BY <1>1 DEF HeldIInv, Targeted, LoopDone
<1> QED  BY <1>1, <1>3, <1>4, <1>5, NoneNew

LEMMA HeldStart == HeldInit => HeldIInv
<1> SUFFICES ASSUME HeldInit PROVE HeldIInv
  OBVIOUS
<1>1. Empty.target = NoTarget
  BY DEF Empty
<1> QED  BY <1>1, HeldAssumption DEF HeldInit, HeldIInv, Targeted, NoneBeside

LEMMA HeldStep == HeldIInv /\ [HeldNext]_heldvars => HeldIInv'
<1> SUFFICES ASSUME HeldIInv, [HeldNext]_heldvars PROVE HeldIInv'
  OBVIOUS
<1>1. fresh \in Targets \cup {NoTarget} /\ stage \in {"idle", "flush", "flushing", "timer", "timing"}
  BY DEF HeldIInv, Targeted
<1>2. CASE \E t \in Targets : LookUp(t) \/ Refresh(t) \/ PathLost(t)
  BY <1>1, <1>2, SlotsStay DEF LookUp, Refresh, PathLost, LoopDone
<1>3. CASE \E t \in Targets : HwmpRx(t)
  BY <1>3 DEF HwmpRx, HeldIInv, Targeted, NoneBeside, LoopDone
<1>4. CASE \E t \in Targets : HoldRelayed(t)
  BY <1>4, RelayedHeld
<1>5. CASE TxPending
  BY <1>5, PushHeld
<1>6. CASE ServiceTick \/ RelayTimer \/ SendLater
  BY <1>1, <1>6, SlotsStay DEF ServiceTick, RelayTimer, SendLater, LoopDone
<1>7. CASE Take
  BY <1>7, AllTaken
<1>8. CASE FlushAsk \/ TimerAsk
  BY <1>8, Asked
<1>9. CASE Pass
  BY <1>9, Aged
<1>10. CASE UNCHANGED heldvars
  BY <1>1, <1>10, SlotsStay DEF heldvars, LoopDone
<1> QED  BY <1>2, <1>3, <1>4, <1>5, <1>6, <1>7, <1>8, <1>9, <1>10 DEF HeldNext

\* Whichever comes second, the push of a frame or the path for it, sees the other: with the
\* loop at rest no frame is held that has a path (umac_mesh_fwd_glue_tx_pending,
\* release_pending_, relay_timer_).
THEOREM NoneHeldBesideItsPath == HeldSpec => []NoneStranded
<1>1. HeldIInv => NoneStranded
  BY DEF HeldIInv, NoneBeside, NoneStranded, LoopDone
<1> QED  BY <1>1, HeldStart, HeldStep, PTL DEF HeldSpec

-----------------------------------------------------------------------------
(***************************************************************************)
(* The types, the order, the lifetime and the ladder of the held frames.   *)
(* Numbers are handed out once and ages grow together, so those of a flow  *)
(* are in the order of its ages: what leaves first is what came first.     *)
(* What is left of the tick and of the timer bounds the ages; the requests *)
(* that a frame has counted are no younger than the last it counted.       *)
(***************************************************************************)
Apart == \A s, r \in Slots : InUse(s) /\ InUse(r) /\ s # r => slots[s].n # slots[r].n
SameFlow(s, r) == slots[s].target = slots[r].target /\ (s \in OwnSlots <=> r \in OwnSlots)
Queued == \A s, r \in Slots : InUse(s) /\ InUse(r) /\ SameFlow(s, r) /\ slots[s].n <= slots[r].n
                              => slots[s].age >= slots[r].age
OneLadder == \A s, r \in RelaySlots : Live(s) /\ Live(r) /\ slots[s].target = slots[r].target
                                      => slots[s].age = slots[r].age
Leaving == /\ \A i \in DOMAIN out : out[i].target \in Targets /\ out[i].n \in 1 .. pushed
           /\ InOrder

\* A frame of ours goes with the next tick, a relayed one with its timer.
OwnInTime(s) == /\ slots[s].age <= OwnLife + Every
                /\ stage # "flush" => slots[s].age + tick <= OwnLife + Every
RelayedInTime(s) ==
  /\ slots[s].age < GiveUp + GlobalMin
  /\ stage \notin {"timer", "timing"} => alarm # Off /\ slots[s].age + alarm < GiveUp + GlobalMin
  /\ stage = "timing" => slots[s].age < GiveUp
InTime == \A s \in Slots : InUse(s) => IF s \in OwnSlots THEN OwnInTime(s) ELSE RelayedInTime(s)

\* The requests that a frame may have counted, if the set w of them went out for its target.
Spent(f, w) == {a \in w : f.askAge <= a /\ a <= f.age}
PaidFor(f, w) == f.asks = 0 \/ f.asks <= Cardinality(Spent(f, w))

(***************************************************************************)
(* The ladder.                                                             *)
(***************************************************************************)
\* Induction, of a set.
LEMMA AllOf ==
  ASSUME NEW k \in Nat, NEW T \in SUBSET Nat, 0 \in T, \A n \in 0 .. k - 1 : n \in T => n + 1 \in T
  PROVE  0 .. k \subseteq T
<1> SUFFICES ASSUME (0 .. k) \ T # {} PROVE FALSE
  OBVIOUS
<1> DEFINE x == Min((0 .. k) \ T)
<1>1. x \in (0 .. k) \ T /\ \A y \in (0 .. k) \ T : x <= y
  <2>1. (0 .. k) \ T \in SUBSET Nat
    OBVIOUS
  <2> QED  BY <2>1, MinIsIn
<1> HIDE DEF x
<1>2. x # 0 /\ x \in Nat /\ x <= k
  BY <1>1
<1>3. x - 1 \in 0 .. k - 1
  BY <1>2
<1>4. x - 1 \in T
  BY <1>1, <1>2, <1>3
<1>5. x - 1 + 1 \in T
  BY <1>3, <1>4
<1>6. x - 1 + 1 = x
  BY <1>2
<1> QED  BY <1>1, <1>5, <1>6

LEMMA AllUpTo ==
  ASSUME NEW k \in Nat, NEW T \in SUBSET Nat, 0 \in T, \A n \in 0 .. k : n \in T => n + 1 \in T
  PROVE  0 .. k + 1 \subseteq T
<1>1. PICK m \in Nat : m = k + 1 /\ 0 .. m - 1 = 0 .. k
  OBVIOUS
<1>2. 0 .. m \subseteq T
  BY <1>1, AllOf
<1> QED  BY <1>1, <1>2

\* Numbers of which each is made from the one before are there.
Climbs(g, F, first, k) == g = [i \in 0 .. k |-> IF i = 0 THEN first ELSE F[<<i - 1, g[i - 1]>>]]

LEMMA ClimbExists ==
  ASSUME NEW k \in Nat, NEW F \in [(0 .. k - 1) \X Nat -> Nat], NEW first \in Nat
  PROVE  \E g \in [0 .. k -> Nat] : Climbs(g, F, first, k)
<1> DEFINE T == {n \in 0 .. k : \E g \in [0 .. n -> Nat] : Climbs(g, F, first, n)}
<1>1. 0 \in T
  <2>1. [i \in 0 .. 0 |-> first] \in [0 .. 0 -> Nat]
    OBVIOUS
  <2>2. Climbs([i \in 0 .. 0 |-> first], F, first, 0)
    BY DEF Climbs
  <2> QED  BY <2>1, <2>2
<1>2. ASSUME NEW n \in 0 .. k - 1, n \in T  PROVE n + 1 \in T
  <2>1. PICK g \in [0 .. n -> Nat] : Climbs(g, F, first, n)
    BY <1>2
  <2>2. n \in Nat /\ n + 1 \in 0 .. k /\ <<n, g[n]>> \in (0 .. k - 1) \X Nat
    BY <1>2
  <2> DEFINE h == [i \in 0 .. n + 1 |-> IF i = n + 1 THEN F[<<n, g[n]>>] ELSE g[i]]
  <2>3. \A i \in 0 .. n : h[i] = g[i]
    BY <2>2
  <2>4. h[n + 1] = F[<<n, g[n]>>] /\ F[<<n, g[n]>>] \in Nat
    BY <2>2
  <2>5. h \in [0 .. n + 1 -> Nat]
    BY <2>2, <2>4
  <2>6. \A i \in 0 .. n + 1 : h[i] = IF i = 0 THEN first ELSE F[<<i - 1, h[i - 1]>>]
    <3> HIDE DEF h
    <3>1. ASSUME NEW i \in 0 .. n  PROVE h[i] = IF i = 0 THEN first ELSE F[<<i - 1, h[i - 1]>>]
      <4>1. g[i] = IF i = 0 THEN first ELSE F[<<i - 1, g[i - 1]>>]
        BY <2>1 DEF Climbs
      <4>2. i # 0 => i - 1 \in 0 .. n
        BY <2>2
      <4>3. h[i] = g[i] /\ (i # 0 => h[i - 1] = g[i - 1])
        BY <2>3, <4>2
      <4> QED  BY <4>1, <4>3
    <3>2. h[n + 1] = F[<<n + 1 - 1, h[n + 1 - 1]>>] /\ n + 1 # 0
      <4>1. n + 1 - 1 = n /\ n \in 0 .. n
        BY <2>2
      <4> QED  BY <2>2, <2>3, <2>4, <4>1
    <3> DEFINE Right(i) == h[i] = IF i = 0 THEN first ELSE F[<<i - 1, h[i - 1]>>]
    <3>3. \A i \in 0 .. n : Right(i)
      BY <3>1
    <3>4. Right(n + 1)
      BY <3>2
    <3>5. \A i \in 0 .. n + 1 : i \in 0 .. n \/ i = n + 1
      BY <2>2
    <3> HIDE DEF Right
    <3>6. \A i \in 0 .. n + 1 : Right(i)
      BY <3>3, <3>4, <3>5
    <3> QED  BY <3>6 DEF Right
  <2> HIDE DEF h
  <2>7. Climbs(h, F, first, n + 1)
    BY <2>5, <2>6 DEF Climbs
  <2> QED  BY <2>2, <2>5, <2>7
<1>3. T \in SUBSET Nat
  OBVIOUS
<1> HIDE DEF T
<1>4. 0 .. k \subseteq T
  BY <1>1, <1>2, <1>3, AllOf
<1>5. k \in T
  BY <1>4
<1> QED  BY <1>5 DEF T

LEMMA MinOfTwo == ASSUME NEW a \in Nat, NEW b \in Nat
                  PROVE  Min({a, b}) \in Nat /\ Min({a, b}) = IF a <= b THEN a ELSE b
<1>1. Min({a, b}) \in {a, b} /\ \A y \in {a, b} : Min({a, b}) <= y
  BY MinIsIn
<1> QED  BY <1>1

LEMMA MaxOfTwo == ASSUME NEW a \in Int, NEW b \in Int
                  PROVE  Max({a, b}) \in Int /\ Max({a, b}) = IF a <= b THEN b ELSE a
<1>1. \E z \in {a, b} : \A y \in {a, b} : z >= y
  OBVIOUS
<1>2. Max({a, b}) \in {a, b} /\ \A y \in {a, b} : Max({a, b}) >= y
  BY <1>1, Zenon DEF Max
<1> QED  BY <1>2

LEMMA HeldConstants ==
  /\ OwnMax \in Nat \ {0} /\ RelayMax \in Nat \ {0} /\ PerTarget \in Nat \ {0}
  /\ OwnLife \in Nat \ {0} /\ FirstGap \in Nat \ {0} /\ GapCap \in Nat \ {0}
  /\ MinInterval \in Nat \ {0} /\ GlobalMin \in Nat \ {0} /\ Every \in Nat \ {0}
  /\ Retries \in Nat /\ MaxRefused \in Nat /\ MaxSteps \in Nat
  /\ GlobalMin <= FirstGap /\ NoTarget \notin Targets
BY HeldAssumption

\* The gaps of the ladder, ...
LEMMA GapsAre == Gap \in [0 .. Retries -> Nat] /\ Gap[0] = FirstGap
<1> DEFINE F == [p \in (0 .. Retries - 1) \X Nat |-> Min({2 * p[2], GapCap})]
           Eq(f) == f = [k \in 0 .. Retries |-> IF k = 0 THEN FirstGap ELSE Min({2 * f[k - 1], GapCap})]
<1>1. ASSUME NEW p \in (0 .. Retries - 1) \X Nat  PROVE Min({2 * p[2], GapCap}) \in Nat
  <2>1. 2 * p[2] \in Nat
    OBVIOUS
  <2> QED  BY <2>1, HeldConstants, MinOfTwo
<1>2. F \in [(0 .. Retries - 1) \X Nat -> Nat]
  BY <1>1
<1> HIDE DEF F
<1>3. PICK g \in [0 .. Retries -> Nat] : Climbs(g, F, FirstGap, Retries)
  BY <1>2, HeldConstants, ClimbExists
<1>4. \A i \in 0 .. Retries : i # 0 => F[<<i - 1, g[i - 1]>>] = Min({2 * g[i - 1], GapCap})
  <2>1. ASSUME NEW i \in 0 .. Retries, i # 0  PROVE F[<<i - 1, g[i - 1]>>] = Min({2 * g[i - 1], GapCap})
    <3>1. i - 1 \in 0 .. Retries - 1 /\ i - 1 \in 0 .. Retries
      BY <2>1, HeldConstants
    <3>2. <<i - 1, g[i - 1]>> \in (0 .. Retries - 1) \X Nat
      BY <3>1
    <3> QED  BY <3>2 DEF F
  <2> QED  BY <2>1
<1>5. Eq(g)
  BY <1>3, <1>4 DEF Climbs
<1>6. Gap = CHOOSE f : Eq(f)
  BY Zenon DEF Gap
<1> HIDE DEF Eq
<1>7. Eq(Gap)
  BY <1>5, <1>6, Zenon
<1>8. \A k \in 0 .. Retries : Gap[k] = IF k = 0 THEN FirstGap ELSE Min({2 * Gap[k - 1], GapCap})
  <2>1. \A f : Eq(f) => \A k \in 0 .. Retries : f[k] = IF k = 0 THEN FirstGap ELSE Min({2 * f[k - 1], GapCap})
    BY DEF Eq
  <2> QED  BY <1>7, <2>1
<1> DEFINE G(k) == IF k = 0 THEN FirstGap ELSE Min({2 * Gap[k - 1], GapCap})
<1>12. Gap = [k \in 0 .. Retries |-> G(k)]
  BY <1>7 DEF Eq
<1> DEFINE T == {k \in 0 .. Retries : Gap[k] \in Nat}
<1>9. 0 \in T /\ Gap[0] = FirstGap
  <2>1. 0 \in 0 .. Retries
    BY HeldConstants
  <2>2. Gap[0] = FirstGap
    BY <1>8, <2>1
  <2> QED  BY <2>1, <2>2, HeldConstants
<1>10. ASSUME NEW n \in 0 .. Retries - 1, n \in T  PROVE n + 1 \in T
  <2>1. n + 1 \in 0 .. Retries /\ n + 1 # 0 /\ n + 1 - 1 = n
    BY HeldConstants
  <2>2. Gap[n + 1] = IF n + 1 = 0 THEN FirstGap ELSE Min({2 * Gap[n + 1 - 1], GapCap})
    BY <1>8, <2>1
  <2>3. 2 * Gap[n] \in Nat
    BY <1>10
  <2>4. Gap[n + 1] = Min({2 * Gap[n], GapCap})
    BY <2>1, <2>2
  <2> QED  BY <2>1, <2>3, <2>4, HeldConstants, MinOfTwo
<1>11. 0 .. Retries \subseteq T
  <2> HIDE DEF T
  <2>1. T \in SUBSET Nat
    BY DEF T
  <2> QED  BY <1>9, <1>10, <2>1, AllOf, HeldConstants
<1>13. \A k \in 0 .. Retries : Gap[k] \in Nat
  BY <1>11
<1> HIDE DEF T, G
<1> QED  BY <1>9, <1>12, <1>13

\* ... and when each of its requests is due.
LEMMA AskAtIs ==
  /\ \A k \in 0 .. Retries + 1 : AskAt[k] \in Nat /\ AskAt[k] <= GiveUp
  /\ GiveUp \in Nat /\ GlobalMin <= GiveUp
  /\ AskAt[0] = 0 /\ \A k \in 0 .. Retries : AskAt[k] <= AskAt[k + 1]
<1> DEFINE F == [p \in (0 .. Retries) \X Nat |-> p[2] + Gap[p[1]]]
           Eq(f) == f = [k \in 0 .. Retries + 1 |-> IF k = 0 THEN 0 ELSE f[k - 1] + Gap[k - 1]]
<1>0. Retries \in Nat /\ Retries + 1 \in Nat /\ Retries + 1 - 1 = Retries
  BY HeldConstants
<1>1. F \in [(0 .. Retries) \X Nat -> Nat]
  BY GapsAre
<1> HIDE DEF F
<1>2. PICK g \in [0 .. Retries + 1 -> Nat] : Climbs(g, F, 0, Retries + 1)
  <2>1. PICK m \in Nat : m = Retries + 1 /\ 0 .. m - 1 = 0 .. Retries
    BY <1>0
  <2>2. F \in [(0 .. m - 1) \X Nat -> Nat]
    BY <1>1, <2>1
  <2>3. \E g \in [0 .. m -> Nat] : Climbs(g, F, 0, m)
    BY <2>2, ClimbExists
  <2> QED  BY <2>1, <2>3
<1>3. \A i \in 0 .. Retries + 1 : i # 0 => F[<<i - 1, g[i - 1]>>] = g[i - 1] + Gap[i - 1]
  <2>1. ASSUME NEW i \in 0 .. Retries + 1, i # 0  PROVE F[<<i - 1, g[i - 1]>>] = g[i - 1] + Gap[i - 1]
    <3>1. i - 1 \in 0 .. Retries /\ i - 1 \in 0 .. Retries + 1
      BY <2>1, HeldConstants
    <3>2. <<i - 1, g[i - 1]>> \in (0 .. Retries) \X Nat
      BY <3>1
    <3> QED  BY <3>2 DEF F
  <2> QED  BY <2>1
<1>4. Eq(g)
  BY <1>2, <1>3 DEF Climbs
<1>5. AskAt = CHOOSE f : Eq(f)
  BY Zenon DEF AskAt
<1> HIDE DEF Eq
<1>6. Eq(AskAt)
  BY <1>4, <1>5, Zenon
<1>7. \A k \in 0 .. Retries + 1 : AskAt[k] = IF k = 0 THEN 0 ELSE AskAt[k - 1] + Gap[k - 1]
  <2>1. \A f : Eq(f) => \A k \in 0 .. Retries + 1 : f[k] = IF k = 0 THEN 0 ELSE f[k - 1] + Gap[k - 1]
    BY DEF Eq
  <2> QED  BY <1>6, <2>1
<1>8. ASSUME NEW n \in 0 .. Retries  PROVE AskAt[n + 1] = AskAt[n] + Gap[n] /\ n \in Nat /\ Gap[n] \in Nat
  <2>1. n + 1 \in 0 .. Retries + 1 /\ n + 1 # 0 /\ n + 1 - 1 = n
    BY HeldConstants
  <2>2. AskAt[n + 1] = IF n + 1 = 0 THEN 0 ELSE AskAt[n + 1 - 1] + Gap[n + 1 - 1]
    BY <1>7, <2>1
  <2> QED  BY <2>1, <2>2, GapsAre
<1>9. AskAt[0] = 0
  BY <1>0, <1>7
<1> DEFINE T == {k \in 0 .. Retries + 1 : AskAt[k] \in Nat}
<1>10. 0 .. Retries + 1 \subseteq T
  <2>1. 0 \in T /\ T \in SUBSET Nat
    BY <1>0, <1>9
  <2>2. ASSUME NEW n \in 0 .. Retries, n \in T  PROVE n + 1 \in T
    <3>1. n \in 0 .. Retries /\ n + 1 \in 0 .. Retries + 1
      BY <1>0
    <3> QED  BY <1>8, <2>2, <3>1
  <2> HIDE DEF T
  <2> QED  BY <1>0, <2>1, <2>2, AllUpTo
<1>11. \A k \in 0 .. Retries + 1 : AskAt[k] \in Nat
  BY <1>10
<1> DEFINE U == {k \in 0 .. Retries + 1 : AskAt[Retries + 1 - k] <= GiveUp}
<1>12. 0 .. Retries + 1 \subseteq U
  <2>1. 0 \in U /\ U \in SUBSET Nat
    <3>1. Retries + 1 - 0 = Retries + 1 /\ 0 \in 0 .. Retries + 1
      BY <1>0
    <3> QED  BY <1>11, <1>0, <3>1 DEF GiveUp
  <2>2. ASSUME NEW n \in 0 .. Retries, n \in U  PROVE n + 1 \in U
    <3> DEFINE m == Retries - n
    <3>1. /\ m \in 0 .. Retries /\ m + 1 = Retries + 1 - n /\ m = Retries + 1 - (n + 1)
          /\ m \in 0 .. Retries + 1 /\ m + 1 \in 0 .. Retries + 1 /\ Retries + 1 \in 0 .. Retries + 1
          /\ n + 1 \in 0 .. Retries + 1
      BY <1>0
    <3> HIDE DEF m
    <3>2. AskAt[m + 1] = AskAt[m] + Gap[m] /\ Gap[m] \in Nat /\ AskAt[m] \in Nat /\ AskAt[m + 1] \in Nat
      BY <1>8, <1>11, <3>1
    <3>3. AskAt[m + 1] <= GiveUp
      BY <2>2, <3>1
    <3>4. GiveUp \in Nat
      BY <1>11, <3>1 DEF GiveUp
    <3>5. AskAt[m] <= GiveUp
      BY <3>2, <3>3, <3>4
    <3> QED  BY <3>1, <3>5
  <2> HIDE DEF U
  <2> QED  BY <1>0, <2>1, <2>2, AllUpTo
<1>13. ASSUME NEW k \in 0 .. Retries + 1  PROVE AskAt[k] <= GiveUp
  <2> DEFINE j == Retries + 1 - k
  <2>1. j \in 0 .. Retries + 1 /\ Retries + 1 - j = k
    BY <1>0
  <2> HIDE DEF j
  <2>2. j \in U
    BY <1>12, <2>1
  <2>3. AskAt[Retries + 1 - j] <= GiveUp
    BY <2>2
  <2> QED  BY <2>1, <2>3
<1>14. GiveUp \in Nat
  BY <1>0, <1>11 DEF GiveUp
<1>15. GlobalMin <= GiveUp
  <2>1. 0 \in 0 .. Retries /\ 0 + 1 = 1 /\ 1 \in 0 .. Retries + 1
    BY <1>0
  <2>2. AskAt[1] = AskAt[0] + Gap[0]
    BY <1>8, <2>1, Zenon
  <2>3. AskAt[1] = FirstGap /\ AskAt[1] <= GiveUp
    BY <1>9, <1>13, <2>1, <2>2, GapsAre, HeldConstants
  <2> QED  BY <1>14, <2>3, HeldConstants
<1>16. \A k \in 0 .. Retries : AskAt[k] <= AskAt[k + 1]
  <2>1. ASSUME NEW k \in 0 .. Retries  PROVE AskAt[k] <= AskAt[k + 1]
    <3>1. AskAt[k + 1] = AskAt[k] + Gap[k] /\ Gap[k] \in Nat /\ k \in 0 .. Retries + 1
      BY <1>0, <1>8
    <3>2. AskAt[k] \in Nat
      BY <1>11, <3>1
    <3> QED  BY <3>1, <3>2
  <2> QED  BY <2>1
<1> QED  BY <1>9, <1>11, <1>13, <1>14, <1>15, <1>16

(***************************************************************************)
(* A frame and the requests that went out for it.                          *)
(***************************************************************************)
LEMMA Ages == /\ Old \in Nat /\ Off = GiveUp + 1 /\ GiveUp \in Nat
              /\ GiveUp + GlobalMin <= Old /\ OwnLife + Every < Old
<1>1. GiveUp + GlobalMin \in Int /\ OwnLife + Every + 1 \in Int /\ GiveUp \in Nat
  BY AskAtIs, HeldConstants
<1>2. Old = IF GiveUp + GlobalMin <= OwnLife + Every + 1 THEN OwnLife + Every + 1 ELSE GiveUp + GlobalMin
  BY <1>1, MaxOfTwo DEF Old
<1> QED  BY <1>1, <1>2, AskAtIs, HeldConstants DEF Off

LEMMA EmptyIs == /\ Empty.n = 0 /\ Empty.target = NoTarget /\ Empty.age = 0
                 /\ Empty.asks = 0 /\ Empty.askAge = 0 /\ Empty \notin Frame
<1>1. Empty.n = 0 /\ Empty.target = NoTarget /\ Empty.age = 0 /\ Empty.asks = 0 /\ Empty.askAge = 0
  BY DEF Empty
<1>2. \A f \in Frame : f.n # 0
  BY HeldConstants DEF Frame
<1> QED  BY <1>1, <1>2

LEMMA FrameIs ==
  ASSUME NEW f \in Frame
  PROVE  /\ f.n \in 1 .. MaxSteps /\ f.target \in Targets /\ f.age \in 0 .. Old
         /\ f.asks \in 0 .. Retries + 1 /\ f.askAge \in 0 .. Old
         /\ f.n \in Nat /\ f.age \in Nat /\ f.asks \in Nat /\ f.askAge \in Nat
BY HeldConstants, Ages DEF Frame

\* The same frame, but for the ladder.
Alike(f, g) == f.n = g.n /\ f.target = g.target /\ f.age = g.age

LEMMA SpentIs == ASSUME NEW f, NEW w \in SUBSET (0 .. Old)
                 PROVE  IsFiniteSet(Spent(f, w)) /\ Cardinality(Spent(f, w)) \in Nat
<1>0. Old \in Int /\ 0 \in Int
  BY Ages
<1>1. Spent(f, w) \subseteq 0 .. Old /\ IsFiniteSet(0 .. Old)
  BY <1>0, FS_Interval DEF Spent
<1>2. IsFiniteSet(Spent(f, w))
  BY <1>1, FS_Subset
<1> QED  BY <1>2, FS_CardinalityType

LEMMA PaidMore ==
  ASSUME NEW f \in Frame, NEW w \in SUBSET (0 .. Old), NEW v \in SUBSET w, PaidFor(f, v)
  PROVE  PaidFor(f, w)
<1>1. Spent(f, v) \subseteq Spent(f, w)
  BY DEF Spent
<1>2. Cardinality(Spent(f, v)) <= Cardinality(Spent(f, w))
  BY <1>1, SpentIs, FS_Subset
<1>3. Cardinality(Spent(f, v)) \in Nat /\ Cardinality(Spent(f, w)) \in Nat /\ f.asks \in Nat
  BY SpentIs, FrameIs
<1> QED  BY <1>2, <1>3 DEF PaidFor

\* umac_mesh_pending_asked counts a PREQ once.
LEMMA Climbed ==
  ASSUME NEW f \in Frame, f.askAge <= f.age, NEW w \in SUBSET (0 .. Old), PaidFor(f, w)
  PROVE  LET g == Climb(f, w) IN g \in Frame /\ Alike(f, g) /\ g.askAge <= g.age /\ PaidFor(g, w)
<1> DEFINE m == Min(w)
           g == [f EXCEPT !.asks = @ + 1, !.askAge = m]
<1>1. CASE ~(w # {} /\ Steps(f, m))
  <2>1. Climb(f, w) = f
    BY <1>1 DEF Climb
  <2> QED  BY <2>1 DEF Alike
<1>2. CASE w # {} /\ Steps(f, m)
  <2>1. Climb(f, w) = g
    BY <1>2 DEF Climb
  <2>2. w \in SUBSET Nat
    BY Ages
  <2>3. m \in w /\ \A y \in w : m <= y
    BY <1>2, <2>2, MinIsIn
  <2>4. m \in 0 .. Old /\ m \in Nat
    BY <2>2, <2>3
  <2>5. /\ f.asks <= Retries /\ f.age - m >= AskAt[f.asks] /\ (f.asks = 0 \/ m < f.askAge)
        /\ f.asks \in 0 .. Retries + 1
    BY <1>2, FrameIs DEF Steps
  <2>6. AskAt[f.asks] \in Nat
    BY <2>5, AskAtIs
  <2> HIDE DEF m
  <2>7. m <= f.age /\ f.asks + 1 \in 0 .. Retries + 1
    BY <2>4, <2>5, <2>6, FrameIs, HeldConstants
  <2>8. g \in Frame /\ g.n = f.n /\ g.target = f.target /\ g.age = f.age /\ g.asks = f.asks + 1 /\ g.askAge = m
    BY <2>4, <2>7 DEF Frame
  <2> HIDE DEF g
  <2>9. m \in Spent(g, w)
    BY <2>3, <2>4, <2>7, <2>8, FrameIs DEF Spent
  <2>10. CASE f.asks = 0
    <3>1. Cardinality(Spent(g, w)) # 0
      BY <2>9, SpentIs, FS_EmptySet
    <3>2. Cardinality(Spent(g, w)) >= 1 /\ g.asks = 1
      BY <2>8, <2>10, <3>1, SpentIs
    <3> QED  BY <2>1, <2>7, <2>8, <3>2 DEF Alike, PaidFor
  <2>11. CASE f.asks # 0
    <3>1. Spent(f, w) \cup {m} \subseteq Spent(g, w)
      <4>1. ASSUME NEW a \in Spent(f, w)  PROVE a \in Spent(g, w)
        <5>1. a \in w /\ f.askAge <= a /\ a <= f.age
          BY DEF Spent
        <5>2. a \in Nat /\ m < f.askAge /\ f.askAge \in Nat
          BY <2>2, <2>5, <2>11, <5>1, FrameIs
        <5>3. m <= a
          BY <2>4, <5>1, <5>2
        <5> QED  BY <2>8, <5>1, <5>3 DEF Spent
      <4> QED  BY <2>9, <4>1
    <3>2. m \notin Spent(f, w)
      BY <2>4, <2>5, <2>11, FrameIs DEF Spent
    <3>3. IsFiniteSet(Spent(f, w)) /\ IsFiniteSet(Spent(g, w))
      BY SpentIs
    <3>4. Cardinality(Spent(f, w) \cup {m}) = Cardinality(Spent(f, w)) + 1
      BY <3>2, <3>3, FS_AddElement
    <3>5. Cardinality(Spent(f, w) \cup {m}) <= Cardinality(Spent(g, w))
      BY <3>1, <3>3, FS_Subset
    <3>6. f.asks <= Cardinality(Spent(f, w))
      BY <2>11 DEF PaidFor
    <3>7. Cardinality(Spent(f, w)) \in Nat /\ Cardinality(Spent(g, w)) \in Nat /\ f.asks \in Nat
      BY SpentIs, FrameIs
    <3>8. g.asks <= Cardinality(Spent(g, w))
      BY <2>8, <3>4, <3>5, <3>6, <3>7
    <3> QED  BY <2>1, <2>7, <2>8, <3>8 DEF Alike, PaidFor
  <2> QED  BY <2>10, <2>11
<1> QED  BY <1>1, <1>2

\* Time passes for the frame and for the PREQs that it may count.
LEMMA PaidLater ==
  ASSUME NEW f \in Frame, NEW g \in Frame, NEW w \in SUBSET (0 .. Old), NEW v \in SUBSET (0 .. Old),
         PaidFor(f, w), g.asks = f.asks, g.age = f.age + 1, g.askAge = f.askAge + 1,
         \A a \in w : a <= f.age => a + 1 \in v
  PROVE  PaidFor(g, v)
<1> DEFINE h == [a \in Spent(f, w) |-> a + 1]
<1>1. h \in [Spent(f, w) -> Spent(g, v)]
  <2>1. ASSUME NEW a \in Spent(f, w)  PROVE a + 1 \in Spent(g, v)
    <3>1. a \in w /\ f.askAge <= a /\ a <= f.age /\ a \in Nat
      BY Ages DEF Spent
    <3>2. a + 1 \in v /\ g.askAge <= a + 1 /\ a + 1 <= g.age
      BY <3>1, FrameIs
    <3> QED  BY <3>2 DEF Spent
  <2> QED  BY <2>1
<1>2. \A a, b \in Spent(f, w) : h[a] = h[b] => a = b
  <2>1. w \in SUBSET Nat
    BY Ages
  <2>2. Spent(f, w) \subseteq Nat
    BY <2>1 DEF Spent
  <2> QED  BY <2>2
<1> HIDE DEF h
<1>3. Cardinality(Spent(f, w)) <= Cardinality(Spent(g, v))
  <2>1. h \in Injection(Spent(f, w), Spent(g, v))
    BY <1>1, <1>2 DEF Injection, IsInjective
  <2> QED  BY <2>1, SpentIs, FS_Injection
<1>4. Cardinality(Spent(f, w)) \in Nat /\ Cardinality(Spent(g, v)) \in Nat /\ f.asks \in Nat
  BY SpentIs, FrameIs
<1> QED  BY <1>3, <1>4 DEF PaidFor

(***************************************************************************)
(* The slots.                                                              *)
(***************************************************************************)
Filled(sl) == sl \in [Slots -> Frame \cup {Empty}] /\ \A s \in Slots : sl[s].askAge <= sl[s].age
AllPaid(sl, w) == \A s \in RelaySlots : sl[s] # Empty => PaidFor(sl[s], w[sl[s].target])
GateOK == /\ passed \in [Targets -> 0 .. MinInterval] /\ passedAny \in 0 .. GlobalMin
          /\ went \in [Targets -> SUBSET (0 .. Old)] /\ refused \in 0 .. MaxRefused
\* The same frames in the same slots.
Stay(sl, tl) == \A s \in Slots : (tl[s] = Empty <=> sl[s] = Empty) /\ Alike(sl[s], tl[s])

LEMMA SlotsAre ==
  /\ Slots \in SUBSET Nat /\ OwnSlots \subseteq Slots /\ RelaySlots \subseteq Slots
  /\ \A s \in Slots : s \in RelaySlots <=> s \notin OwnSlots
  /\ OwnSlots # {} /\ RelaySlots # {} /\ IsFiniteSet(Slots)
<1>1. IsFiniteSet(OwnSlots) /\ IsFiniteSet(RelaySlots)
  BY HeldConstants, FS_Interval DEF OwnSlots, RelaySlots
<1>2. IsFiniteSet(Slots)
  BY <1>1, FS_Union DEF Slots
<1>3. 1 \in OwnSlots /\ OwnMax + 1 \in RelaySlots
  BY HeldConstants DEF OwnSlots, RelaySlots
<1> QED  BY <1>2, <1>3, HeldConstants DEF Slots, OwnSlots, RelaySlots

LEMMA SlotIs ==
  ASSUME NEW sl \in [Slots -> Frame \cup {Empty}], NEW s \in Slots
  PROVE  /\ sl[s] # Empty <=> sl[s] \in Frame
         /\ sl[s].n \in Nat /\ sl[s].age \in Nat /\ sl[s].asks \in Nat /\ sl[s].askAge \in Nat
         /\ sl[s].target \in Targets \cup {NoTarget}
         /\ sl[s] # Empty => sl[s].target \in Targets /\ sl[s].n > 0
         /\ sl[s] = Empty => sl[s].target = NoTarget
<1>1. CASE sl[s] = Empty
  BY <1>1, EmptyIs
<1>2. CASE sl[s] \in Frame
  <2>1. sl[s].n > 0
    BY <1>2, HeldConstants DEF Frame
  <2> QED  BY <1>2, <2>1, FrameIs, EmptyIs
<1> QED  BY <1>1, <1>2

LEMMA OldestIn ==
  ASSUME slots \in [Slots -> Frame \cup {Empty}], NEW S \in SUBSET Slots, S # {}
  PROVE  Oldest(S) \in S
<1> DEFINE N == {slots[s].n : s \in S}
<1>1. N \in SUBSET Nat /\ N # {}
  BY SlotIs
<1>2. Min(N) \in N /\ \A y \in N : Min(N) <= y
  BY <1>1, MinIsIn
<1>3. \E s \in S : \A r \in S : slots[s].n <= slots[r].n
  BY <1>2
<1> QED  BY <1>3, Zenon DEF Oldest

LEMMA VictimIn ==
  ASSUME slots \in [Slots -> Frame \cup {Empty}], NEW S \in SUBSET Slots, S # {}, NEW t
  PROVE  Victim(S, t) \in S
<1> DEFINE same == LiveFor(S, t)
           gone == {s \in S : ~Live(s)}
<1>1. same \subseteq S /\ gone \subseteq S /\ S \subseteq Nat
  BY SlotsAre DEF LiveFor
<1>2. Cardinality(same) >= PerTarget => same # {}
  BY FS_EmptySet, HeldConstants
<1>3. Victim(S, t) = IF Cardinality(same) >= PerTarget THEN Oldest(same)
                     ELSE IF gone # {} THEN Min(gone) ELSE Oldest(S)
  BY DEF Victim
<1> HIDE DEF same, gone
<1>4. (same # {} => Oldest(same) \in same) /\ Oldest(S) \in S
  BY <1>1, OldestIn
<1>5. gone # {} => Min(gone) \in gone
  BY <1>1, MinIsIn
<1> QED  BY <1>1, <1>2, <1>3, <1>4, <1>5

\* A push fills one slot of its kind and leaves the others.
LEMMA PushIs ==
  ASSUME Filled(slots), NEW S \in {OwnSlots, RelaySlots}, NEW f,
         NEW g \in Frame, g = [f EXCEPT !.n = pushed + 1], g.askAge <= g.age
  PROVE  /\ Filled(Pushed(S, f))
         /\ \E v \in S : /\ Pushed(S, f)[v] = g
                         /\ \A s \in Slots \ {v} : Pushed(S, f)[s] = slots[s]
<1> DEFINE v == Victim(S, f.target)
<1>1. v \in S /\ S \subseteq Slots
  BY VictimIn, SlotsAre DEF Filled
<1>2. Pushed(S, f) = [slots EXCEPT ![v] = g]
  BY DEF Pushed
<1> HIDE DEF v
<1> DEFINE sl == [slots EXCEPT ![v] = g]
<1>3. sl \in [Slots -> Frame \cup {Empty}] /\ sl[v] = g /\ \A s \in Slots \ {v} : sl[s] = slots[s]
  BY <1>1 DEF Filled
<1> HIDE DEF sl
<1>4. \A s \in Slots : sl[s].askAge <= sl[s].age
  BY <1>3 DEF Filled
<1>5. Pushed(S, f) = sl
  BY <1>2 DEF sl
<1> QED  BY <1>1, <1>3, <1>4, <1>5 DEF Filled

LEMMA NewOwn ==
  ASSUME NEW t \in Targets, pushed \in Nat, pushed + 1 <= MaxSteps
  PROVE  LET g == [Own(t) EXCEPT !.n = pushed + 1] IN
         g \in Frame /\ g.n = pushed + 1 /\ g.target = t /\ g.age = 0 /\ g.asks = 0 /\ g.askAge = 0
<1> DEFINE g == [Own(t) EXCEPT !.n = pushed + 1]
<1>1. g = [n |-> pushed + 1, target |-> t, age |-> 0, asks |-> 0, askAge |-> 0]
  <2>1. Own(t) = [n |-> 0, target |-> t, age |-> 0, asks |-> 0, askAge |-> 0]
    BY DEF Own, Empty
  <2> QED  BY <2>1
<1>2. pushed + 1 \in 1 .. MaxSteps /\ 0 \in 0 .. Old /\ 0 \in 0 .. Retries + 1
  BY HeldConstants, Ages
<1> QED  BY <1>1, <1>2 DEF Frame

\* A relayed frame joins the discovery that is under way, as old as it.
Joins(g, t) ==
  /\ g \in Frame /\ g.n = pushed + 1 /\ g.target = t /\ g.askAge <= g.age /\ PaidFor(g, went[t])
  /\ \/ LiveFor(RelaySlots, t) = {} /\ g.age = 0 /\ g.asks = 0
     \/ \E s \in LiveFor(RelaySlots, t) : g.age = slots[s].age /\ g.asks = slots[s].asks
                                         /\ g.askAge = slots[s].askAge

LEMMA NewRelayed ==
  ASSUME Filled(slots), AllPaid(slots, went), NEW t \in Targets, pushed \in Nat, pushed + 1 <= MaxSteps
  PROVE  Joins([Relayed(t) EXCEPT !.n = pushed + 1], t)
<1> DEFINE same == LiveFor(RelaySlots, t)
           g == [Relayed(t) EXCEPT !.n = pushed + 1]
<1>1. CASE same = {}
  <2>1. Relayed(t) = Own(t)
    BY <1>1 DEF Relayed
  <2> QED  BY <1>1, <2>1, NewOwn DEF PaidFor, Joins
<1>2. CASE same # {}
  <2>1. same \subseteq RelaySlots /\ same \in SUBSET Nat
    BY SlotsAre DEF LiveFor
  <2>2. PICK s \in same : Relayed(t) = slots[s]
    BY <1>2, <2>1, MinIsIn DEF Relayed
  <2>3. s \in RelaySlots /\ s \in Slots /\ slots[s] # Empty /\ slots[s].target = t
    BY <2>1, SlotsAre DEF LiveFor, Live, InUse
  <2>4. slots[s] \in Frame /\ slots[s].askAge <= slots[s].age /\ PaidFor(slots[s], went[t])
    BY <2>3, SlotIs DEF Filled, AllPaid
  <2> DEFINE f == slots[s]
             h == [f EXCEPT !.n = pushed + 1]
  <2>5. f \in Frame /\ f.target = t /\ f.askAge <= f.age /\ PaidFor(f, went[t])
    BY <2>3, <2>4
  <2> HIDE DEF f
  <2>6. pushed + 1 \in 1 .. MaxSteps
    OBVIOUS
  <2>7. h \in Frame /\ h.n = pushed + 1 /\ h.target = f.target /\ h.age = f.age /\ h.asks = f.asks
        /\ h.askAge = f.askAge
    BY <2>5, <2>6 DEF Frame
  <2> HIDE DEF h
  <2>8. PaidFor(h, went[t])
    <3>1. Spent(h, went[t]) = Spent(f, went[t])
      BY <2>7 DEF Spent
    <3> QED  BY <2>5, <2>7, <3>1 DEF PaidFor
  <2>9. g = h
    BY <2>2 DEF f, h
  <2>10. /\ h.age = slots[s].age /\ h.asks = slots[s].asks /\ h.askAge = slots[s].askAge
         /\ s \in LiveFor(RelaySlots, t)
    BY <2>7 DEF f
  <2> QED  BY <2>5, <2>7, <2>8, <2>9, <2>10 DEF Joins
<1> QED  BY <1>1, <1>2

\* One PREQ goes out at most, and the frames it counts for take a step.
LEMMA AskedFor ==
  ASSUME NEW sl, Filled(sl), AllPaid(sl, went), GateOK, NEW S, Ask(sl, S)
  PROVE  GateOK' /\ Filled(slots') /\ AllPaid(slots', went') /\ Stay(sl, slots')
<1>1. GateOK' /\ \A t \in Targets : went[t] \subseteq went'[t]
  <2>1. AskFirst(sl, S \cup Due(sl))
    BY DEF Ask
  <2>2. CASE UNCHANGED <<passed, passedAny, went, refused>>
    BY <2>2 DEF GateOK
  <2>3. CASE \E t : Allow(t) /\ (Sent(t) \/ Refused)
    <3>1. PICK t : Allow(t) /\ (Sent(t) \/ Refused)
      BY <2>3
    <3>2. passed' \in [Targets -> 0 .. MinInterval] /\ passedAny' \in 0 .. GlobalMin
      <4>1. 0 \in 0 .. MinInterval /\ 0 \in 0 .. GlobalMin
        BY HeldConstants
      <4>2. passed' = [passed EXCEPT ![t] = 0] /\ passedAny' = 0
        BY <3>1 DEF Allow
      <4> QED  BY <4>1, <4>2 DEF GateOK
    <3>3. /\ went' \in [Targets -> SUBSET (0 .. Old)] /\ refused' \in 0 .. MaxRefused
          /\ \A u \in Targets : went[u] \subseteq went'[u]
      <4>1. CASE Sent(t)
        <5>1. 0 \in 0 .. Old
          BY Ages
        <5> QED  BY <4>1, <5>1 DEF Sent, GateOK
      <4>2. CASE Refused
        BY <4>2, HeldConstants DEF Refused, GateOK
      <4> QED  BY <3>1, <4>1, <4>2
    <3> QED  BY <3>2, <3>3 DEF GateOK
  <2> QED  BY <2>1, <2>2, <2>3 DEF AskFirst
<1>2. PICK due : /\ due \subseteq Targets
                 /\ slots' = [s \in Slots |-> IF s \in RelaySlots /\ sl[s].target \in due
                                              THEN Climb(sl[s], went'[sl[s].target]) ELSE sl[s]]
  <2> DEFINE due == {sl[s].target : s \in Due(sl)}
  <2>1. due \subseteq Targets
    BY SlotIs, SlotsAre DEF Due, Filled
  <2>2. slots' = [s \in Slots |-> IF s \in RelaySlots /\ sl[s].target \in due
                                  THEN Climb(sl[s], went'[sl[s].target]) ELSE sl[s]]
    BY DEF Ask
  <2> QED  BY <2>1, <2>2
<1>3. ASSUME NEW s \in Slots
      PROVE  /\ slots'[s] \in Frame \cup {Empty} /\ slots'[s].askAge <= slots'[s].age
             /\ slots'[s] = Empty <=> sl[s] = Empty
             /\ Alike(sl[s], slots'[s])
             /\ s \in RelaySlots /\ slots'[s] # Empty => PaidFor(slots'[s], went'[slots'[s].target])
  <2>1. sl[s] \in Frame \cup {Empty} /\ sl[s].askAge <= sl[s].age
    BY DEF Filled
  <2>2. CASE s \in RelaySlots /\ sl[s].target \in due
    <3>1. sl[s] # Empty /\ sl[s] \in Frame /\ sl[s].target \in Targets
      BY <1>2, <2>1, <2>2, EmptyIs, HeldConstants
    <3>2. PaidFor(sl[s], went[sl[s].target])
      BY <2>2, <3>1 DEF AllPaid
    <3> DEFINE f == sl[s]
               w == went'[sl[s].target]
    <3>3. w \in SUBSET (0 .. Old) /\ went[sl[s].target] \subseteq w
      BY <1>1, <3>1 DEF GateOK
    <3>4. f \in Frame /\ f.askAge <= f.age /\ PaidFor(f, w)
      BY <2>1, <3>1, <3>2, <3>3, PaidMore
    <3>5. slots'[s] = Climb(f, w)
      BY <1>2, <2>2
    <3>6. slots'[s] \in Frame /\ Alike(f, slots'[s]) /\ slots'[s].askAge <= slots'[s].age /\ PaidFor(slots'[s], w)
      <4> HIDE DEF f, w
      <4> QED  BY <3>3, <3>4, <3>5, Climbed
    <3>7. slots'[s].target = sl[s].target
      BY <3>6 DEF Alike
    <3> QED  BY <3>1, <3>6, <3>7, EmptyIs
  <2>3. CASE ~(s \in RelaySlots /\ sl[s].target \in due)
    <3>1. slots'[s] = sl[s]
      BY <1>2, <2>3
    <3>2. ASSUME s \in RelaySlots, sl[s] # Empty  PROVE PaidFor(sl[s], went'[sl[s].target])
      <4>1. PaidFor(sl[s], went[sl[s].target]) /\ sl[s] \in Frame /\ sl[s].target \in Targets
        BY <2>1, <3>2, FrameIs DEF AllPaid
      <4>2. went'[sl[s].target] \in SUBSET (0 .. Old) /\ went[sl[s].target] \subseteq went'[sl[s].target]
        BY <1>1, <4>1 DEF GateOK
      <4> QED  BY <4>1, <4>2, PaidMore
    <3> QED  BY <2>1, <3>1, <3>2 DEF Alike
  <2> QED  BY <2>2, <2>3
<1>4. slots' \in [Slots -> Frame \cup {Empty}]
  <2>1. slots' = [s \in Slots |-> slots'[s]]
    BY <1>2
  <2> QED  BY <1>3, <2>1
<1>5. Filled(slots')
  BY <1>3, <1>4 DEF Filled
<1>6. AllPaid(slots', went')
  BY <1>3, SlotsAre DEF AllPaid
<1>7. Stay(sl, slots')
  BY <1>3 DEF Stay
<1> QED  BY <1>1, <1>5, <1>6, <1>7

Ordered == Apart /\ Queued /\ OneLadder
Counted == /\ pushed \in Nat /\ pushed + (IF fresh = NoTarget THEN 0 ELSE 1) <= MaxSteps
           /\ \A s \in Slots : slots[s].n <= pushed

(***************************************************************************)
(* Their order.                                                            *)
(***************************************************************************)
\* The frames of before, or some of them, and all as much older.
LEMMA OrderedStill ==
  ASSUME Filled(slots), Ordered, Filled(slots)', NEW d \in {0, 1},
         \A s \in Slots : slots'[s] # Empty =>
           /\ slots[s] # Empty /\ slots'[s].n = slots[s].n /\ slots'[s].target = slots[s].target
           /\ slots'[s].age = slots[s].age + d
  PROVE  Ordered'
<1>1. \A s \in Slots : slots[s].n \in Nat /\ slots[s].age \in Nat
  BY SlotIs DEF Filled
<1>2. Apart'
  BY DEF Ordered, Apart, InUse
<1>3. Queued'
  BY <1>1 DEF Ordered, Queued, SameFlow, InUse
<1>4. OneLadder'
  <2>1. \A s \in RelaySlots : LifeOf(s) \in Nat /\ LifeOf(s)' = LifeOf(s) /\ s \in Slots
    BY SlotsAre, Ages DEF LifeOf
  <2>2. ASSUME NEW s \in RelaySlots, Live(s)'
        PROVE  Live(s) /\ slots'[s].target = slots[s].target /\ slots'[s].age = slots[s].age + d
    <3>1. slots'[s] # Empty /\ slots'[s].age < LifeOf(s)
      BY <2>1, <2>2 DEF Live, InUse
    <3> QED  BY <1>1, <2>1, <3>1 DEF Live, InUse
  <2> QED  BY <2>2 DEF Ordered, OneLadder
<1> QED  BY <1>2, <1>3, <1>4 DEF Ordered

\* A frame more, the last of its flow: ours is new, a relayed one as old as the live ones of its target.
LEMMA OrderedMore ==
  ASSUME Filled(slots), Ordered, Counted, Filled(slots)',
         NEW C \in {OwnSlots, RelaySlots}, NEW v \in C, NEW t \in Targets,
         slots'[v] # Empty, slots'[v].n = pushed + 1, slots'[v].target = t,
         \A s \in Slots \ {v} : (slots'[s] = Empty <=> slots[s] = Empty) /\ Alike(slots[s], slots'[s]),
         \/ slots'[v].age = 0 /\ (C = RelaySlots => LiveFor(RelaySlots, t) = {})
         \/ C = RelaySlots /\ \E s \in LiveFor(RelaySlots, t) : slots'[v].age = slots[s].age
  PROVE  Ordered'
<1>1. \A s \in Slots : slots[s].n \in Nat /\ slots[s].age \in Nat /\ slots[s].n <= pushed
  BY SlotIs DEF Filled, Counted
<1>2. v \in Slots /\ pushed \in Nat /\ slots'[v].age \in Nat
  BY SlotsAre, SlotIs DEF Counted, Filled
<1>3. \A s \in RelaySlots : LifeOf(s) = GiveUp /\ LifeOf(s)' = GiveUp /\ GiveUp \in Nat /\ s \in Slots
  BY SlotsAre, Ages DEF LifeOf
<1>4. Apart'
  BY <1>1, <1>2 DEF Ordered, Apart, InUse, Alike
<1>5. ASSUME NEW s \in C \ {v}, slots[s] # Empty, slots[s].target = t
      PROVE  slots[s].age >= slots'[v].age
  <2>1. CASE slots'[v].age = 0
    BY <1>1, <2>1, SlotsAre
  <2>2. CASE C = RelaySlots /\ \E r \in LiveFor(RelaySlots, t) : slots'[v].age = slots[r].age
    <3>1. PICK r \in RelaySlots : slots'[v].age = slots[r].age /\ Live(r) /\ slots[r].target = t
      BY <2>2 DEF LiveFor
    <3>2. slots[r].age < GiveUp
      BY <1>3, <3>1 DEF Live
    <3>3. CASE slots[s].age < GiveUp
      <4>1. Live(s)
        BY <1>3, <1>5, <2>2, <3>3 DEF Live, InUse
      <4> QED  BY <1>1, <1>2, <1>3, <1>5, <2>2, <3>1, <4>1 DEF Ordered, OneLadder
    <3>4. CASE ~(slots[s].age < GiveUp)
      BY <1>1, <1>2, <1>3, <1>5, <2>2, <3>1, <3>2, <3>4
    <3> QED  BY <3>3, <3>4
  <2> QED  BY <2>1, <2>2
<1>6. Queued'
  <2>1. \A s \in Slots : (s \in C) <=> (s \in OwnSlots <=> v \in OwnSlots)
    BY <1>2, SlotsAre
  <2>2. ASSUME NEW s \in Slots, NEW r \in Slots, slots'[s] # Empty, slots'[r] # Empty,
               SameFlow(s, r)', slots'[s].n <= slots'[r].n
        PROVE  slots'[s].age >= slots'[r].age
    <3>1. CASE s # v /\ r # v
      <4>1. InUse(s) /\ InUse(r) /\ SameFlow(s, r) /\ slots[s].n <= slots[r].n
        BY <2>2, <3>1 DEF InUse, SameFlow, Alike
      <4> QED  BY <3>1, <4>1 DEF Ordered, Queued, Alike
    <3>2. CASE s = v /\ r # v
      BY <1>1, <1>2, <2>2, <3>2 DEF Alike
    <3>3. CASE s # v /\ r = v
      <4>1. s \in C \ {v} /\ slots[s] # Empty /\ slots[s].target = t
        BY <2>1, <2>2, <3>3 DEF SameFlow, Alike
      <4> QED  BY <1>5, <3>3, <4>1 DEF Alike
    <3>4. CASE s = v /\ r = v
      BY <1>2, <3>4
    <3> QED  BY <3>1, <3>2, <3>3, <3>4
  <2> QED  BY <2>2 DEF Queued, InUse
<1>7. OneLadder'
  <2>1. \A s \in RelaySlots \ {v} : Live(s)' => Live(s) /\ slots'[s].target = slots[s].target
                                                /\ slots'[s].age = slots[s].age
    BY <1>3 DEF Live, InUse, Alike
  <2>2. ASSUME NEW s \in RelaySlots \ {v}, Live(s)', slots'[s].target = t, v \in RelaySlots
        PROVE  slots'[s].age = slots'[v].age
    <3>1. Live(s) /\ slots[s].target = t /\ slots'[s].age = slots[s].age /\ s \in LiveFor(RelaySlots, t)
      BY <2>1, <2>2 DEF LiveFor
    <3>2. C = RelaySlots
      BY <2>2, SlotsAre
    <3>3. PICK r \in RelaySlots : slots'[v].age = slots[r].age /\ Live(r) /\ slots[r].target = t
      BY <3>1, <3>2 DEF LiveFor
    <3> QED  BY <3>1, <3>3 DEF Ordered, OneLadder
  <2>3. ASSUME NEW s \in RelaySlots, NEW r \in RelaySlots, Live(s)', Live(r)', slots'[s].target = slots'[r].target
        PROVE  slots'[s].age = slots'[r].age
    BY <2>1, <2>2, <2>3 DEF Ordered, OneLadder
  <2> QED  BY <2>3 DEF OneLadder
<1> QED  BY <1>4, <1>6, <1>7 DEF Ordered

\* What has been taken is older than what is held later.
LEMMA LeavingStill ==
  ASSUME Leaving, Filled(slots), Filled(slots)', UNCHANGED out, pushed \in Nat, pushed' \in {pushed, pushed + 1},
         \A s \in Slots : slots'[s] # Empty =>
           \/ slots[s] # Empty /\ slots'[s].n = slots[s].n /\ slots'[s].target = slots[s].target
           \/ slots'[s].n = pushed + 1
  PROVE  Leaving'
<1>1. /\ \A i \in DOMAIN out : out[i].target \in Targets /\ out[i].n \in 1 .. pushed
      /\ out' = out /\ 1 .. pushed \subseteq 1 .. pushed'
  BY DEF Leaving
<1>2. ASSUME NEW i \in DOMAIN out, NEW s \in Slots,
             slots'[s].target = out[i].target, out[i].own = (s \in OwnSlots)
      PROVE  out[i].n < slots'[s].n
  <2>1. slots'[s] # Empty
    BY <1>1, <1>2, EmptyIs, HeldConstants
  <2>2. CASE slots'[s].n = pushed + 1
    BY <1>1, <2>2
  <2>3. CASE slots[s] # Empty /\ slots'[s].n = slots[s].n /\ slots'[s].target = slots[s].target
    BY <1>2, <2>3 DEF Leaving, InOrder
  <2> QED  BY <2>1, <2>2, <2>3
<1>3. \A i, j \in DOMAIN out : (i < j /\ out[i].target = out[j].target /\ out[i].own = out[j].own)
                               => out[i].n < out[j].n
  BY DEF Leaving, InOrder
<1>4. InOrder'
  BY <1>1, <1>2, <1>3 DEF InOrder
<1> QED  BY <1>1, <1>4 DEF Leaving

LEMMA NothingLeaves == ASSUME out' = <<>>  PROVE Leaving'
<1>1. DOMAIN out' = {}
  OBVIOUS
<1> QED  BY <1>1 DEF Leaving, InOrder

\* Frames in the order of their numbers.
LEMMA SortedIs ==
  ASSUME Filled(slots), Apart, NEW S \in SUBSET Slots, \A s \in S : slots[s] # Empty
  PROVE  /\ IsFiniteSet(S) /\ Cardinality(S) \in Nat
         /\ Sorted(S) \in [1 .. Cardinality(S) -> S]
         /\ \A i, j \in 1 .. Cardinality(S) : i < j => slots[Sorted(S)[i]].n < slots[Sorted(S)[j]].n
<1> DEFINE R(s) == {r \in S : slots[r].n <= slots[s].n}
           c == Cardinality(S)
           rank == [s \in S |-> Cardinality(R(s))]
<1>1. IsFiniteSet(S) /\ c \in Nat
  BY SlotsAre, FS_Subset, FS_CardinalityType
<1>2. \A s \in S : slots[s].n \in Nat
  BY SlotIs DEF Filled
<1>3. \A s, r \in S : slots[s].n = slots[r].n => s = r
  BY DEF Apart, InUse
<1>4. ASSUME NEW s \in S
      PROVE  IsFiniteSet(R(s)) /\ Cardinality(R(s)) \in 1 .. c
  <2>1. R(s) \in SUBSET S /\ s \in R(s)
    BY <1>2
  <2> HIDE DEF R
  <2>2. IsFiniteSet(R(s)) /\ Cardinality(R(s)) \in Nat /\ Cardinality(R(s)) <= c
    BY <1>1, <2>1, FS_Subset, FS_CardinalityType
  <2>3. Cardinality(R(s)) # 0
    BY <2>1, <2>2, FS_EmptySet
  <2> QED  BY <1>1, <2>2, <2>3
<1>5. ASSUME NEW s \in S, NEW r \in S, slots[s].n < slots[r].n
      PROVE  Cardinality(R(s)) < Cardinality(R(r))
  <2>1. R(s) \in SUBSET R(r) /\ r \in R(r) /\ r \notin R(s)
    BY <1>2, <1>5
  <2>2. IsFiniteSet(R(r)) /\ Cardinality(R(r)) \in Nat /\ Cardinality(R(s)) \in Nat
    BY <1>1, <1>4
  <2> HIDE DEF R
  <2>3. Cardinality(R(s)) <= Cardinality(R(r)) /\ (Cardinality(R(r)) = Cardinality(R(s)) => R(r) = R(s))
    BY <2>1, <2>2, FS_Subset
  <2> QED  BY <2>1, <2>2, <2>3
<1> HIDE DEF R, c
<1>6. rank \in [S -> 1 .. c]
  BY <1>4
<1>7. \A s, r \in S : rank[s] = rank[r] => s = r
  <2>1. ASSUME NEW s \in S, NEW r \in S, rank[s] = rank[r]  PROVE s = r
    <3>1. ~(slots[s].n < slots[r].n) /\ ~(slots[r].n < slots[s].n)
      BY <1>1, <1>4, <1>5, <2>1
    <3> QED  BY <1>2, <1>3, <3>1
  <2> QED  BY <2>1
<1>8. \A s, r \in S : rank[s] < rank[r] => slots[s].n < slots[r].n
  <2>1. ASSUME NEW s \in S, NEW r \in S, rank[s] < rank[r]  PROVE slots[s].n < slots[r].n
    <3>1. slots[s].n # slots[r].n
      BY <1>1, <1>3, <1>4, <2>1
    <3>2. ~(slots[r].n < slots[s].n)
      BY <1>1, <1>4, <1>5, <2>1
    <3> QED  BY <1>2, <3>1, <3>2
  <2> QED  BY <2>1
<1> HIDE DEF rank
<1>9. rank \in Surjection(S, 1 .. c)
  <2>1. rank \in Injection(S, 1 .. c)
    BY <1>6, <1>7 DEF Injection, IsInjective
  <2>2. 1 \in Int /\ c \in Int
    BY <1>1
  <2>3. IsFiniteSet(1 .. c) /\ Cardinality(1 .. c) = IF 1 > c THEN 0 ELSE c - 1 + 1
    BY <2>2, FS_Interval
  <2>4. Cardinality(1 .. c) = Cardinality(S)
    BY <1>1, <2>3 DEF c
  <2> QED  BY <2>1, <2>3, <2>4, FS_Injection
<1> DEFINE q == [i \in 1 .. c |-> CHOOSE s \in S : rank[s] = i]
<1>10. \A i \in 1 .. c : q[i] \in S /\ rank[q[i]] = i
  <2>1. \A i \in 1 .. c : \E s \in S : rank[s] = i
    BY <1>9 DEF Surjection
  <2> QED  BY <2>1
<1>11. q \in [1 .. c -> S]
  BY <1>10
<1> HIDE DEF q
<1>12. \A i, j \in DOMAIN q : i < j => OldestFirst(q[i], q[j])
  BY <1>8, <1>10, <1>11 DEF OldestFirst
<1>13. Sorted(S) \in [1 .. c -> S] /\ \A i, j \in DOMAIN Sorted(S) : i < j => OldestFirst(Sorted(S)[i], Sorted(S)[j])
  <2> DEFINE P(in) == \A i, j \in DOMAIN in : i < j => OldestFirst(in[i], in[j])
  <2>1. Sorted(S) = CHOOSE in \in [1 .. c -> S] : P(in)
    BY DEF Sorted, c
  <2>2. P(q)
    BY <1>12
  <2> HIDE DEF P
  <2>3. Sorted(S) \in [1 .. c -> S] /\ P(Sorted(S))
    BY <1>11, <2>1, <2>2, Zenon
  <2> QED  BY <2>3 DEF P
<1> QED  BY <1>1, <1>13 DEF OldestFirst, c

\* The invariant.
Rest == /\ paths \subseteq Targets /\ stage \in {"idle", "flush", "flushing", "timer", "timing"}
        /\ later \in Targets \cup {NoTarget} /\ fresh \in Targets \cup {NoTarget}
        /\ tick \in 0 .. Every /\ alarm \in 0 .. Off

KeptInv == /\ Rest /\ GateOK /\ Filled(slots) /\ Counted
           /\ Ordered /\ Leaving /\ InTime /\ AllPaid(slots, went)

LEMMA NextIs ==
  ASSUME NEW f \in Frame
  PROVE  NextOf(f) \in Nat /\ (f.age < GiveUp => NextOf(f) <= GiveUp - f.age)
<1>1. f.age \in Nat /\ f.asks \in 0 .. Retries + 1 /\ GiveUp \in Nat /\ Retries \in Nat
  BY FrameIs, Ages, HeldConstants
<1>2. AskAt[f.asks] \in Nat /\ AskAt[f.asks] <= GiveUp
  BY <1>1, AskAtIs
<1> DEFINE a == AskAt[f.asks] - f.age
<1>3. a \in Int /\ a <= GiveUp - f.age
  BY <1>1, <1>2
<1>4. NextOf(f) = IF f.age >= GiveUp THEN 0
                  ELSE IF f.asks > Retries THEN GiveUp - f.age ELSE Max({a, 0})
  BY DEF NextOf
<1> HIDE DEF a
<1>5. Max({a, 0}) \in Int /\ Max({a, 0}) = IF a <= 0 THEN 0 ELSE a
  BY <1>3, MaxOfTwo
<1> QED  BY <1>1, <1>3, <1>4, <1>5

\* relay_arm_ leaves the timer no later than it was, and in time for every frame.
LEMMA ArmIs ==
  ASSUME Filled(slots'), NEW left \in 0 .. Off, Arm(left)
  PROVE  /\ alarm' \in 0 .. Off /\ alarm' <= left
         /\ \A s \in RelaySlots : slots'[s] # Empty =>
              alarm' # Off /\ (slots'[s].age < GiveUp => slots'[s].age + alarm' < GiveUp + GlobalMin)
<1> DEFINE nexts == {NextOf(slots'[s]) : s \in {r \in RelaySlots : slots'[r] # Empty}}
           d     == IF Min(nexts) = 0 THEN GlobalMin ELSE Min(nexts)
<1>1. alarm' = IF nexts = {} THEN left ELSE Min({d, left})
  BY DEF Arm
<1>2. ASSUME NEW s \in RelaySlots, slots'[s] # Empty
      PROVE  /\ NextOf(slots'[s]) \in Nat /\ NextOf(slots'[s]) \in nexts /\ slots'[s].age \in Nat
             /\ slots'[s].age < GiveUp => NextOf(slots'[s]) <= GiveUp - slots'[s].age
  <2>1. slots'[s] \in Frame
    BY <1>2, SlotsAre, SlotIs DEF Filled
  <2> QED  BY <1>2, <2>1, NextIs, FrameIs
<1>3. nexts \in SUBSET Nat
  BY <1>2
<1>4. left \in Nat /\ GiveUp \in Nat /\ Off = GiveUp + 1 /\ GlobalMin \in Nat /\ GlobalMin > 0 /\ GlobalMin <= GiveUp
  BY Ages, AskAtIs, HeldConstants
<1> HIDE DEF nexts
<1>5. CASE nexts = {}
  BY <1>1, <1>2, <1>4, <1>5
<1>6. CASE nexts # {}
  <2>1. Min(nexts) \in nexts /\ \A y \in nexts : Min(nexts) <= y
    BY <1>3, <1>6, MinIsIn
  <2>2. Min(nexts) \in Nat /\ d \in Nat
    BY <1>3, <1>4, <2>1
  <2>3. alarm' = IF d <= left THEN d ELSE left
    <3> HIDE DEF d
    <3> QED  BY <1>1, <1>4, <1>6, <2>2, MinOfTwo
  <2>4. ASSUME NEW s \in RelaySlots, slots'[s] # Empty
        PROVE  alarm' <= GiveUp /\ (slots'[s].age < GiveUp => slots'[s].age + alarm' < GiveUp + GlobalMin)
    <3>1. Min(nexts) <= NextOf(slots'[s]) /\ NextOf(slots'[s]) \in Nat /\ slots'[s].age \in Nat
      BY <1>2, <2>1, <2>4
    <3>2. CASE slots'[s].age < GiveUp
      <4>1. NextOf(slots'[s]) <= GiveUp - slots'[s].age
        BY <1>2, <2>4, <3>2
      <4> QED  BY <1>4, <2>2, <2>3, <3>1, <3>2, <4>1
    <3>3. CASE ~(slots'[s].age < GiveUp)
      <4>1. NextOf(slots'[s]) = 0
        BY <1>4, <3>1, <3>3 DEF NextOf
      <4> QED  BY <1>4, <2>2, <2>3, <3>1, <3>3, <4>1
    <3> QED  BY <3>2, <3>3
  <2>5. alarm' \in 0 .. Off /\ alarm' <= left
    BY <1>4, <2>2, <2>3
  <2> QED  BY <1>4, <2>4, <2>5
<1> QED  BY <1>5, <1>6

(***************************************************************************)
(* The steps.                                                              *)
(***************************************************************************)
\* The frames that the ladder moves stay what and where they are.
LEMMA StayKept ==
  ASSUME KeptInv, Filled(slots'), Stay(slots, slots'), out' \in {out, <<>>}, pushed' = pushed
  PROVE  Ordered' /\ Leaving' /\ \A s \in Slots : slots'[s].n = slots[s].n /\ slots'[s].age = slots[s].age
<1>1. \A s \in Slots : slots[s].age \in Nat /\ slots[s].age + 0 = slots[s].age
  BY SlotIs DEF KeptInv, Filled
<1>2. Ordered'
  <2>1. \A s \in Slots : slots'[s] # Empty =>
           /\ slots[s] # Empty /\ slots'[s].n = slots[s].n /\ slots'[s].target = slots[s].target
           /\ slots'[s].age = slots[s].age + 0
    BY <1>1 DEF Stay, Alike
  <2> QED  BY <2>1, OrderedStill DEF KeptInv
<1>3. Leaving'
  <2>1. CASE out' = out
    BY <2>1, LeavingStill DEF KeptInv, Counted, Stay, Alike
  <2> QED  BY <2>1, NothingLeaves
<1> QED  BY <1>2, <1>3 DEF Stay, Alike

LEMMA SlotsUnmoved ==
  ASSUME KeptInv, UNCHANGED <<slots, pushed, out>>
  PROVE  Filled(slots') /\ Ordered' /\ Leaving' /\ \A s \in Slots : slots'[s] = slots[s]
<1>1. Filled(slots') /\ Stay(slots, slots')
  BY DEF KeptInv, Stay, Alike, Filled
<1> QED  BY <1>1, StayKept

\* Steps that touch no frame.
LEMMA KeptOtherwise ==
  ASSUME KeptInv,
         \/ \E t \in Targets : LookUp(t) \/ Refresh(t) \/ HwmpRx(t) \/ PathLost(t)
         \/ ServiceTick \/ RelayTimer \/ SendLater \/ UNCHANGED heldvars
  PROVE  KeptInv'
<1>1. UNCHANGED <<slots, pushed, out>>
  BY DEF LookUp, Refresh, HwmpRx, PathLost, ServiceTick, RelayTimer, SendLater, heldvars
<1>2. Filled(slots') /\ Ordered' /\ Leaving' /\ \A s \in Slots : slots'[s] = slots[s]
  BY <1>1, SlotsUnmoved
<1>3. 0 \in 0 .. MinInterval /\ 0 \in 0 .. GlobalMin /\ 0 \in 0 .. Old /\ Every \in 0 .. Every
      /\ Off \in 0 .. Off /\ NoTarget \in Targets \cup {NoTarget}
  BY Ages, HeldConstants
<1>4. ASSUME NEW t \in Targets, AskLater(t)
      PROVE  passed' \in [Targets -> 0 .. MinInterval] /\ passedAny' \in 0 .. GlobalMin
             /\ later' \in Targets \cup {NoTarget}
  BY <1>3, <1>4 DEF AskLater, Allow, KeptInv, GateOK, Rest
<1>5. Rest'
  BY <1>3, <1>4 DEF LookUp, Refresh, HwmpRx, PathLost, ServiceTick, RelayTimer, SendLater, heldvars, gate,
                    KeptInv, Rest
<1>6. GateOK' /\ \A t \in Targets : went[t] \subseteq went'[t]
  <2>1. CASE SendLater
    <3>1. CASE Sent(later)
      BY <1>3, <2>1, <3>1 DEF SendLater, Sent, KeptInv, GateOK
    <3>2. CASE Refused
      BY <2>1, <3>2, HeldConstants DEF SendLater, Refused, KeptInv, GateOK
    <3> QED  BY <2>1, <3>1, <3>2 DEF SendLater
  <2>2. CASE \E t \in Targets : LookUp(t) \/ Refresh(t)
    BY <1>4, <2>2 DEF LookUp, Refresh, KeptInv, GateOK
  <2>3. CASE \/ \E t \in Targets : HwmpRx(t) \/ PathLost(t)
             \/ ServiceTick \/ RelayTimer \/ UNCHANGED heldvars
    BY <2>3 DEF HwmpRx, PathLost, ServiceTick, RelayTimer, heldvars, gate, KeptInv, GateOK
  <2> QED  BY <2>1, <2>2, <2>3
<1>7. AllPaid(slots', went')
  <2>1. ASSUME NEW s \in RelaySlots, slots[s] # Empty  PROVE PaidFor(slots[s], went'[slots[s].target])
    <3>1. slots[s] \in Frame /\ slots[s].target \in Targets
      BY <2>1, SlotsAre, SlotIs DEF KeptInv, Filled
    <3>2. went'[slots[s].target] \in SUBSET (0 .. Old) /\ went[slots[s].target] \subseteq went'[slots[s].target]
      BY <1>6, <3>1 DEF GateOK
    <3>3. PaidFor(slots[s], went[slots[s].target])
      BY <2>1 DEF KeptInv, AllPaid
    <3> QED  BY <3>1, <3>2, <3>3, PaidMore
  <2> QED  BY <1>2, <2>1, SlotsAre DEF AllPaid
<1>8. Counted'
  <2>1. CASE \E t \in Targets : LookUp(t)
    <3>1. PICK t \in Targets : LookUp(t)
      BY <2>1
    <3>2. fresh = NoTarget /\ Room /\ fresh' = t /\ t # NoTarget /\ pushed' = pushed /\ slots' = slots
      BY <3>1, HeldConstants DEF LookUp
    <3>3. pushed + 1 <= MaxSteps /\ pushed \in Nat
      BY <3>2, HeldConstants DEF Room, KeptInv, GateOK, Counted
    <3> QED  BY <3>2, <3>3 DEF KeptInv, Counted
  <2>2. CASE fresh' = fresh
    BY <1>1, <2>2 DEF KeptInv, Counted
  <2> QED  BY <2>1, <2>2 DEF Refresh, HwmpRx, PathLost, ServiceTick, RelayTimer, SendLater, heldvars
<1>9. InTime'
  <2>0. tick \in Nat /\ Every \in Nat /\ OwnLife \in Nat /\ \A s \in Slots : slots[s].age \in Nat
    BY HeldConstants, SlotIs DEF KeptInv, Rest, Filled
  <2>1. CASE UNCHANGED <<stage, tick, alarm>>
    BY <1>1, <2>1 DEF KeptInv, InTime, InUse, OwnInTime, RelayedInTime
  <2>2. CASE ServiceTick
    BY <1>1, <2>0, <2>2 DEF ServiceTick, KeptInv, InTime, InUse, OwnInTime, RelayedInTime
  <2>3. CASE RelayTimer
    BY <1>1, <2>0, <2>3 DEF RelayTimer, KeptInv, InTime, InUse, OwnInTime, RelayedInTime
  <2>4. CASE \E t \in Targets : HwmpRx(t)
    BY <1>1, <2>0, <2>4 DEF HwmpRx, KeptInv, InTime, InUse, OwnInTime, RelayedInTime
  <2> QED  BY <2>1, <2>2, <2>3, <2>4 DEF LookUp, Refresh, PathLost, SendLater, heldvars
<1> QED  BY <1>2, <1>5, <1>6, <1>7, <1>8, <1>9 DEF KeptInv, Filled

\* umac_mesh_fwd_glue_tx_pending
LEMMA KeptOwn == ASSUME KeptInv, TxPending  PROVE KeptInv'
<1>1. /\ fresh \in Targets /\ fresh # NoTarget /\ fresh' = NoTarget
      /\ paths' = paths /\ passed' = passed /\ passedAny' = passedAny /\ went' = went /\ later' = later
      /\ refused' = refused /\ stage' = stage /\ out' = out /\ tick' = tick /\ alarm' = alarm
  BY DEF TxPending, gate, KeptInv, Rest
<1>2. Rest' /\ GateOK'
  BY <1>1 DEF KeptInv, Rest, GateOK
<1>3. pushed \in Nat /\ pushed + 1 <= MaxSteps
  BY <1>1 DEF KeptInv, Counted
<1>4. CASE ~Hold(fresh)
  <2>1. slots' = slots /\ pushed' = pushed
    BY <1>4 DEF TxPending
  <2>2. Filled(slots') /\ Ordered' /\ Leaving'
    BY <1>1, <2>1, SlotsUnmoved
  <2>3. InTime' /\ AllPaid(slots', went')
    BY <1>1, <2>1 DEF KeptInv, InTime, InUse, OwnInTime, RelayedInTime, AllPaid
  <2>4. Counted'
    BY <1>1, <1>3, <2>1, HeldConstants DEF KeptInv, Counted
  <2> QED  BY <1>2, <2>2, <2>3, <2>4 DEF KeptInv, Filled
<1>5. CASE Hold(fresh)
  <2> DEFINE f == Own(fresh)
             g == [f EXCEPT !.n = pushed + 1]
  <2>1. slots' = Pushed(OwnSlots, f) /\ pushed' = pushed + 1
    BY <1>5 DEF TxPending
  <2>2. g \in Frame /\ g.n = pushed + 1 /\ g.target = fresh /\ g.age = 0 /\ g.asks = 0 /\ g.askAge = 0
    BY <1>1, <1>3, NewOwn
  <2> HIDE DEF f
  <2>3. Filled(slots') /\ \E v \in OwnSlots : slots'[v] = g /\ \A s \in Slots \ {v} : slots'[s] = slots[s]
    <3>1. g \in Frame /\ g = [f EXCEPT !.n = pushed + 1] /\ g.askAge <= g.age
      BY <2>2
    <3> HIDE DEF g
    <3>2. Filled(slots) /\ OwnSlots \in {OwnSlots, RelaySlots}
      BY DEF KeptInv
    <3>3. /\ Filled(Pushed(OwnSlots, f))
          /\ \E v \in OwnSlots : /\ Pushed(OwnSlots, f)[v] = g
                                /\ \A s \in Slots \ {v} : Pushed(OwnSlots, f)[s] = slots[s]
      BY <3>1, <3>2, PushIs
    <3> QED  BY <2>1, <3>3
  <2> HIDE DEF g
  <2>4. PICK v \in OwnSlots : slots'[v] = g /\ \A s \in Slots \ {v} : slots'[s] = slots[s]
    BY <2>3
  <2>5. v \in Slots /\ g # Empty
    BY <2>2, SlotsAre, EmptyIs
  <2>6. Ordered'
    <3>1. \A s \in Slots \ {v} : (slots'[s] = Empty <=> slots[s] = Empty) /\ Alike(slots[s], slots'[s])
      BY <2>4 DEF Alike
    <3>2. OwnSlots # RelaySlots
      BY SlotsAre
    <3>3. slots'[v] # Empty /\ slots'[v].n = pushed + 1 /\ slots'[v].target = fresh /\ slots'[v].age = 0
      BY <2>2, <2>4, <2>5
    <3>4. Filled(slots) /\ Ordered /\ Counted /\ Filled(slots)'
      BY <2>3 DEF KeptInv, Filled
    <3> QED  BY <1>1, <2>4, <3>1, <3>2, <3>3, <3>4, OrderedMore
  <2>7. Leaving'
    <3>1. Leaving /\ Filled(slots) /\ Filled(slots)' /\ out' = out /\ pushed' \in {pushed, pushed + 1}
      BY <1>1, <2>1, <2>3 DEF KeptInv, Filled
    <3>2. \A s \in Slots : slots'[s] # Empty =>
           \/ slots[s] # Empty /\ slots'[s].n = slots[s].n /\ slots'[s].target = slots[s].target
           \/ slots'[s].n = pushed + 1
      BY <2>2, <2>4
    <3> QED  BY <1>3, <3>1, <3>2, LeavingStill
  <2>8. Counted'
    <3>1. \A s \in Slots : slots'[s].n \in Nat /\ slots[s].n \in Nat /\ slots[s].n <= pushed
      BY <2>3, SlotIs DEF KeptInv, Filled, Counted
    <3>2. \A s \in Slots : slots'[s].n <= pushed + 1
      BY <1>3, <2>2, <2>4, <3>1
    <3> QED  BY <1>1, <1>3, <2>1, <3>2, HeldConstants DEF Counted
  <2>9. InTime'
    <3>1. tick \in 0 .. Every /\ OwnLife \in Nat /\ Every \in Nat
      BY HeldConstants DEF KeptInv, Rest
    <3>2. OwnInTime(v)'
      BY <1>1, <2>2, <2>4, <3>1 DEF OwnInTime
    <3>3. ASSUME NEW s \in Slots \ {v}, slots'[s] # Empty
          PROVE  IF s \in OwnSlots THEN OwnInTime(s)' ELSE RelayedInTime(s)'
      BY <1>1, <2>4, <3>3 DEF KeptInv, InTime, InUse, OwnInTime, RelayedInTime
    <3> QED  BY <3>2, <3>3 DEF InTime, InUse
  <2>10. AllPaid(slots', went')
    BY <1>1, <2>4, SlotsAre DEF KeptInv, AllPaid
  <2> QED  BY <1>2, <2>3, <2>6, <2>7, <2>8, <2>9, <2>10 DEF KeptInv, Filled
<1> QED  BY <1>4, <1>5

\* hold_relayed_
LEMMA KeptRelayed == ASSUME KeptInv, NEW t \in Targets, HoldRelayed(t)  PROVE KeptInv'
<1> DEFINE f == Relayed(t)
           g == [f EXCEPT !.n = pushed + 1]
           sl == Pushed(RelaySlots, f)
<1>1. /\ stage = "idle" /\ Room /\ pushed' = pushed + 1 /\ Ask(sl, {}) /\ Arm(alarm)
      /\ UNCHANGED <<paths, stage, out, later, fresh, tick>>
  BY DEF HoldRelayed
<1>2. pushed \in Nat /\ pushed + 1 <= MaxSteps /\ pushed + 1 + (IF fresh = NoTarget THEN 0 ELSE 1) <= MaxSteps
  BY <1>1, HeldConstants DEF Room, KeptInv, GateOK, Counted
<1>3. Joins(g, t)
  BY <1>2, NewRelayed DEF KeptInv
<1> HIDE DEF f
<1>4. Filled(sl) /\ \E v \in RelaySlots : sl[v] = g /\ \A s \in Slots \ {v} : sl[s] = slots[s]
  BY <1>3, PushIs DEF KeptInv, Joins
<1> HIDE DEF sl, g
<1>5. PICK v \in RelaySlots : sl[v] = g /\ \A s \in Slots \ {v} : sl[s] = slots[s]
  BY <1>4
<1>6. v \in Slots /\ v \notin OwnSlots /\ g # Empty /\ g.n = pushed + 1 /\ g.target = t /\ g \in Frame
  BY <1>3, SlotsAre, EmptyIs DEF Joins
<1>7. AllPaid(sl, went)
  <2>1. \A s \in RelaySlots : s # v => s \in Slots \ {v}
    BY SlotsAre
  <2> QED  BY <1>3, <1>5, <1>6, <2>1 DEF KeptInv, AllPaid, Joins
<1>8. GateOK' /\ Filled(slots') /\ AllPaid(slots', went') /\ Stay(sl, slots')
  BY <1>1, <1>4, <1>7, AskedFor DEF KeptInv
<1>9. /\ slots'[v] # Empty /\ slots'[v].n = pushed + 1 /\ slots'[v].target = t /\ slots'[v].age = g.age
      /\ \A s \in Slots \ {v} : (slots'[s] = Empty <=> slots[s] = Empty) /\ Alike(slots[s], slots'[s])
  BY <1>5, <1>6, <1>8 DEF Stay, Alike
<1>10. alarm \in 0 .. Off
  BY DEF KeptInv, Rest
<1>11. /\ alarm' \in 0 .. Off /\ alarm' <= alarm
       /\ \A s \in RelaySlots : slots'[s] # Empty =>
            alarm' # Off /\ (slots'[s].age < GiveUp => slots'[s].age + alarm' < GiveUp + GlobalMin)
  BY <1>1, <1>8, <1>10, ArmIs
<1>12. Rest'
  BY <1>1, <1>11 DEF KeptInv, Rest
<1>13. Filled(slots) /\ Filled(slots)' /\ Ordered /\ Counted /\ Leaving
  BY <1>8 DEF KeptInv, Filled
<1>14. Ordered'
  <2>1. \/ slots'[v].age = 0 /\ LiveFor(RelaySlots, t) = {}
        \/ \E s \in LiveFor(RelaySlots, t) : slots'[v].age = slots[s].age
    BY <1>3, <1>9 DEF Joins
  <2> QED  BY <1>9, <1>13, <2>1, OrderedMore
<1>15. Leaving'
  <2>1. \A s \in Slots : slots'[s] # Empty =>
           \/ slots[s] # Empty /\ slots'[s].n = slots[s].n /\ slots'[s].target = slots[s].target
           \/ slots'[s].n = pushed + 1
    BY <1>9 DEF Alike
  <2>2. out' = out /\ pushed' \in {pushed, pushed + 1}
    BY <1>1
  <2> QED  BY <1>2, <1>13, <2>1, <2>2, LeavingStill
<1>16. Counted'
  <2>1. \A s \in Slots : slots'[s].n \in Nat /\ slots[s].n \in Nat /\ slots[s].n <= pushed
    BY <1>13, SlotIs DEF Filled, Counted
  <2>2. \A s \in Slots : slots'[s].n <= pushed + 1
    BY <1>2, <1>9, <2>1 DEF Alike
  <2> QED  BY <1>1, <1>2, <2>2 DEF Counted
<1>17. InTime'
  <2>1. ASSUME NEW s \in OwnSlots, slots'[s] # Empty  PROVE OwnInTime(s)'
    <3>1. s \in Slots \ {v}
      BY <1>6, SlotsAre
    <3>2. slots[s] # Empty /\ slots'[s].age = slots[s].age
      BY <1>9, <2>1, <3>1 DEF Alike
    <3>3. OwnInTime(s)
      BY <3>1, <3>2 DEF KeptInv, InTime, InUse
    <3> QED  BY <1>1, <3>2, <3>3 DEF OwnInTime
  <2>2. ASSUME NEW s \in RelaySlots, slots'[s] # Empty  PROVE RelayedInTime(s)'
    <3>1. s \in Slots /\ s \notin OwnSlots /\ GlobalMin \in Nat /\ GlobalMin > 0 /\ GiveUp \in Nat
          /\ slots'[s].age \in Nat
      BY SlotsAre, HeldConstants, Ages, SlotIs, <1>8 DEF Filled
    <3>2. stage' = "idle" /\ alarm' \in Nat /\ alarm \in Nat /\ alarm' <= alarm /\ alarm' # Off
          /\ (slots'[s].age < GiveUp => slots'[s].age + alarm' < GiveUp + GlobalMin)
      BY <1>1, <1>10, <1>11, <2>2, Ages
    <3>3. CASE slots'[s].age < GiveUp
      BY <3>1, <3>2, <3>3 DEF RelayedInTime
    <3>4. CASE ~(slots'[s].age < GiveUp)
      <4>1. s # v
        <5>1. ASSUME s = v  PROVE FALSE
          <6>1. g.age = 0 \/ \E r \in LiveFor(RelaySlots, t) : g.age = slots[r].age
            BY <1>3 DEF Joins
          <6>2. \A r \in LiveFor(RelaySlots, t) : slots[r].age < GiveUp
            BY SlotsAre DEF LiveFor, Live, LifeOf
          <6>3. GiveUp > 0
            BY AskAtIs, HeldConstants
          <6> QED  BY <1>9, <3>1, <3>4, <5>1, <6>1, <6>2, <6>3
        <5> QED  BY <5>1
      <4>2. slots[s] # Empty /\ slots'[s].age = slots[s].age
        BY <1>9, <2>2, <3>1, <4>1 DEF Alike
      <4>3. RelayedInTime(s)
        BY <3>1, <4>2 DEF KeptInv, InTime, InUse
      <4>4. slots[s].age < GiveUp + GlobalMin /\ slots[s].age + alarm < GiveUp + GlobalMin
        BY <1>1, <4>3 DEF RelayedInTime
      <4> QED  BY <3>1, <3>2, <4>2, <4>4 DEF RelayedInTime
    <3> QED  BY <3>3, <3>4
  <2> QED  BY <2>1, <2>2, SlotsAre DEF InTime, InUse
<1> QED  BY <1>8, <1>12, <1>14, <1>15, <1>16, <1>17 DEF KeptInv, Filled

\* umac_mesh_pending_take: what it leaves is younger than its life and has no path.
LEMMA TakenIs ==
  ASSUME KeptInv, Take
  PROVE  /\ Filled(slots') /\ Ordered' /\ Leaving'
         /\ \A s \in Slots : /\ slots'[s] = slots[s] \/ slots'[s] = Empty
                             /\ slots'[s] # Empty => slots'[s].age < LifeOf(s)
<1>1. /\ slots' = [s \in Slots |-> IF s \in Taken THEN Empty ELSE slots[s]]
      /\ out' = Frames(Taken) /\ UNCHANGED <<pushed, paths>>
  BY DEF Take
<1>2. Filled(slots) /\ Apart
  BY DEF KeptInv, Ordered
<1>3. \A s \in Slots : slots'[s] = slots[s] \/ slots'[s] = Empty
  BY <1>1
<1>4. ASSUME NEW s \in Slots, slots'[s] # Empty
      PROVE  slots'[s] = slots[s] /\ Live(s) /\ slots[s].target \notin paths
  BY <1>1, <1>4 DEF Taken, InUse
<1>5. Filled(slots') /\ Filled(slots)'
  BY <1>1, <1>2, <1>3, EmptyIs, 0 \in Nat DEF Filled
<1>6. Ordered'
  <2>1. \A s \in Slots : slots[s].age + 0 = slots[s].age
    BY <1>2, SlotIs DEF Filled
  <2>2. \A s \in Slots : slots'[s] # Empty =>
           /\ slots[s] # Empty /\ slots'[s].n = slots[s].n /\ slots'[s].target = slots[s].target
           /\ slots'[s].age = slots[s].age + 0
    BY <1>4, <2>1
  <2> QED  BY <1>2, <1>5, <2>2, OrderedStill DEF KeptInv
<1>7. Leaving'
  <2> DEFINE q == Sorted(Taken)
             c == Cardinality(Taken)
  <2>1. Taken \in SUBSET Slots /\ \A s \in Taken : slots[s] # Empty
    BY DEF Taken, InUse
  <2>2. /\ c \in Nat /\ q \in [1 .. c -> Taken]
        /\ \A i, j \in 1 .. c : i < j => slots[q[i]].n < slots[q[j]].n
    BY <1>2, <2>1, SortedIs
  <2>3. out' = [i \in DOMAIN q |-> [n |-> slots[q[i]].n, target |-> slots[q[i]].target, own |-> q[i] \in OwnSlots]]
    BY <1>1 DEF Frames
  <2> HIDE DEF q, c
  <2>4. /\ DOMAIN out' = 1 .. c
        /\ \A i \in 1 .. c : /\ q[i] \in Taken /\ q[i] \in Slots /\ out'[i].n = slots[q[i]].n
                             /\ out'[i].target = slots[q[i]].target /\ out'[i].own = (q[i] \in OwnSlots)
    BY <2>1, <2>2, <2>3
  <2>5. ASSUME NEW i \in 1 .. c
        PROVE  out'[i].target \in Targets /\ out'[i].n \in 1 .. pushed'
    <3>1. slots[q[i]].n > 0 /\ slots[q[i]].n \in Nat /\ slots[q[i]].target \in Targets
      BY <1>2, <2>1, <2>4, SlotIs DEF Filled
    <3>2. slots[q[i]].n <= pushed /\ pushed \in Nat
      BY <2>4 DEF KeptInv, Counted
    <3> QED  BY <1>1, <2>4, <3>1, <3>2
  <2>6. ASSUME NEW i \in 1 .. c, NEW s \in Slots,
               slots'[s].target = out'[i].target, out'[i].own = (s \in OwnSlots)
        PROVE  out'[i].n < slots'[s].n
    <3> DEFINE r == q[i]
    <3>1. r \in Taken /\ r \in Slots /\ out'[i].n = slots[r].n /\ out'[i].target = slots[r].target
          /\ out'[i].own = (r \in OwnSlots)
      BY <2>4
    <3> HIDE DEF r
    <3>2. slots'[s] # Empty
      BY <2>5, <2>6, EmptyIs, HeldConstants
    <3>3. slots'[s] = slots[s] /\ Live(s) /\ slots[s].target \notin paths
      BY <1>4, <3>2
    <3>4. InUse(r) /\ ~Live(r)
      BY <2>6, <3>1, <3>3 DEF Taken
    <3>5. LifeOf(s) = LifeOf(r) /\ LifeOf(s) \in Nat
      BY <2>6, <3>1, Ages, HeldConstants DEF LifeOf
    <3>6. slots[s].age < slots[r].age
      <4>1. slots[s].age \in Nat /\ slots[r].age \in Nat
        BY <1>2, <3>1, SlotIs DEF Filled
      <4>2. slots[s].age < LifeOf(s) /\ ~(slots[r].age < LifeOf(r))
        BY <3>3, <3>4 DEF Live
      <4> QED  BY <3>5, <4>1, <4>2
    <3>7. SameFlow(s, r) /\ InUse(s)
      BY <2>6, <3>1, <3>2, <3>3 DEF SameFlow, InUse
    <3>8. ~(slots[s].n <= slots[r].n)
      <4>1. slots[s].age \in Nat /\ slots[r].age \in Nat
        BY <1>2, <3>1, SlotIs DEF Filled
      <4> QED  BY <3>1, <3>4, <3>6, <3>7, <4>1 DEF KeptInv, Ordered, Queued
    <3>9. slots[s].n \in Nat /\ slots[r].n \in Nat
      BY <1>2, <3>1, SlotIs DEF Filled
    <3> QED  BY <3>1, <3>3, <3>8, <3>9
  <2>7. \A i, j \in 1 .. c : i < j => out'[i].n < out'[j].n
    BY <2>2, <2>4
  <2> QED  BY <2>4, <2>5, <2>6, <2>7 DEF Leaving, InOrder
<1>8. \A s \in Slots : slots'[s] # Empty => slots'[s].age < LifeOf(s)
  BY <1>4 DEF Live
<1> QED  BY <1>3, <1>5, <1>6, <1>7, <1>8

LEMMA KeptTake == ASSUME KeptInv, Take  PROVE KeptInv'
<1>1. /\ stage \in {"flush", "timer"} /\ stage' = IF stage = "flush" THEN "flushing" ELSE "timing"
      /\ paths' = paths /\ passed' = passed /\ passedAny' = passedAny /\ went' = went /\ later' = later
      /\ refused' = refused /\ fresh' = fresh /\ pushed' = pushed /\ tick' = tick /\ alarm' = alarm
  BY DEF Take, gate
<1>2. /\ Filled(slots') /\ Ordered' /\ Leaving'
      /\ \A s \in Slots : /\ slots'[s] = slots[s] \/ slots'[s] = Empty
                          /\ slots'[s] # Empty => slots'[s].age < LifeOf(s)
  BY TakenIs
<1>3. Rest' /\ GateOK' /\ Counted'
  <2>1. \A s \in Slots : slots'[s].n <= pushed
    BY <1>2, EmptyIs DEF KeptInv, Counted
  <2> QED  BY <1>1, <2>1 DEF KeptInv, Rest, GateOK, Counted
<1>4. AllPaid(slots', went')
  BY <1>1, <1>2, SlotsAre DEF KeptInv, AllPaid
<1>5. InTime'
  <2>1. ASSUME NEW s \in Slots, slots'[s] # Empty, s \in OwnSlots  PROVE OwnInTime(s)'
    <3>1. slots'[s].age < OwnLife /\ slots'[s].age \in Nat /\ tick \in 0 .. Every
      BY <1>2, <2>1, SlotIs DEF LifeOf, KeptInv, Rest, Filled
    <3> QED  BY <1>1, <3>1, HeldConstants DEF OwnInTime
  <2>2. ASSUME NEW s \in Slots, slots'[s] # Empty, s \notin OwnSlots  PROVE RelayedInTime(s)'
    <3>1. slots'[s].age < GiveUp /\ slots'[s].age = slots[s].age /\ slots[s] # Empty
      BY <1>2, <2>2 DEF LifeOf
    <3>2. RelayedInTime(s)
      BY <2>2, <3>1 DEF KeptInv, InTime, InUse
    <3> QED  BY <1>1, <3>1, <3>2 DEF RelayedInTime
  <2> QED  BY <2>1, <2>2 DEF InTime, InUse
<1> QED  BY <1>2, <1>3, <1>4, <1>5 DEF KeptInv, Filled

LEMMA KeptAsk == ASSUME KeptInv, FlushAsk \/ TimerAsk  PROVE KeptInv'
<1>1. /\ \E S : Ask(slots, S)
      /\ stage \in {"flushing", "timing"} /\ stage' = "idle" /\ out' = <<>> /\ paths' \subseteq paths
      /\ UNCHANGED <<pushed, later, fresh, tick>>
  BY DEF FlushAsk, TimerAsk, Followed
<1>2. GateOK' /\ Filled(slots') /\ AllPaid(slots', went') /\ Stay(slots, slots')
  BY <1>1, AskedFor DEF KeptInv
<1>3. Ordered' /\ Leaving' /\ \A s \in Slots : slots'[s].n = slots[s].n /\ slots'[s].age = slots[s].age
  BY <1>1, <1>2, StayKept
<1>4. Counted'
  BY <1>1, <1>3 DEF KeptInv, Counted
<1>5. ASSUME NEW s \in OwnSlots, slots'[s] # Empty  PROVE OwnInTime(s)'
  <2>1. s \in Slots /\ slots[s] # Empty
    BY <1>2, <1>5, SlotsAre DEF Stay
  <2>2. OwnInTime(s)
    BY <2>1 DEF KeptInv, InTime, InUse
  <2> QED  BY <1>1, <1>3, <2>1, <2>2 DEF OwnInTime
<1>6. ASSUME NEW s \in RelaySlots, slots'[s] # Empty
      PROVE  s \in Slots /\ slots'[s].age = slots[s].age /\ RelayedInTime(s)
  <2>1. s \in Slots /\ slots[s] # Empty /\ s \notin OwnSlots
    BY <1>2, <1>6, SlotsAre DEF Stay
  <2> QED  BY <1>3, <2>1 DEF KeptInv, InTime, InUse
<1>7. CASE FlushAsk
  <2>1. stage = "flushing" /\ alarm' = alarm
    BY <1>7 DEF FlushAsk
  <2>2. Rest'
    BY <1>1, <2>1 DEF KeptInv, Rest
  <2>3. InTime'
    BY <1>1, <1>5, <1>6, <2>1, SlotsAre DEF InTime, InUse, RelayedInTime
  <2> QED  BY <1>2, <1>3, <1>4, <2>2, <2>3 DEF KeptInv, Filled
<1>8. CASE TimerAsk
  <2>1. stage = "timing" /\ Arm(alarm) /\ alarm \in 0 .. Off
    BY <1>8 DEF TimerAsk, KeptInv, Rest
  <2>2. /\ alarm' \in 0 .. Off
        /\ \A s \in RelaySlots : slots'[s] # Empty =>
            alarm' # Off /\ (slots'[s].age < GiveUp => slots'[s].age + alarm' < GiveUp + GlobalMin)
    BY <1>2, <2>1, ArmIs
  <2>3. Rest'
    BY <1>1, <2>2 DEF KeptInv, Rest
  <2>4. ASSUME NEW s \in RelaySlots, slots'[s] # Empty  PROVE RelayedInTime(s)'
    <3>1. slots'[s].age < GiveUp /\ slots'[s].age < GiveUp + GlobalMin
      BY <1>6, <2>1, <2>4 DEF RelayedInTime
    <3> QED  BY <1>1, <2>2, <2>4, <3>1 DEF RelayedInTime
  <2>5. InTime'
    BY <1>5, <2>4, SlotsAre DEF InTime, InUse
  <2> QED  BY <1>2, <1>3, <1>4, <2>3, <2>5 DEF KeptInv, Filled
<1> QED  BY <1>7, <1>8

LEMMA UpIs == ASSUME NEW a \in Nat, NEW m \in Nat
              PROVE  Up(a, m) \in 0 .. m /\ (a < m => Up(a, m) = a + 1)
BY MinOfTwo DEF Up

\* No frame is old enough for its age to stop.
LEMMA Young == ASSUME KeptInv, NEW s \in Slots, slots[s] # Empty
               PROVE  slots[s] \in Frame /\ slots[s].age < Old /\ slots[s].askAge <= slots[s].age
<1>1. slots[s] \in Frame /\ slots[s].askAge <= slots[s].age /\ slots[s].age \in Nat
  BY SlotIs DEF KeptInv, Filled
<1>2. slots[s].age <= OwnLife + Every \/ slots[s].age < GiveUp + GlobalMin
  BY DEF KeptInv, InTime, InUse, OwnInTime, RelayedInTime
<1> QED  BY <1>1, <1>2, Ages, HeldConstants

\* Every frame gets older.
LEMMA Older ==
  ASSUME KeptInv, Pass, NEW s \in Slots, slots[s] # Empty
  PROVE  /\ slots'[s] \in Frame /\ slots'[s].n = slots[s].n /\ slots'[s].target = slots[s].target
         /\ slots'[s].age = slots[s].age + 1 /\ slots'[s].asks = slots[s].asks
         /\ slots'[s].askAge = slots[s].askAge + 1
<1> DEFINE f == slots[s]
           g == [f EXCEPT !.age = f.age + 1, !.askAge = f.askAge + 1]
<1>1. f \in Frame /\ f.age < Old /\ f.askAge <= f.age
  BY Young
<1>2. slots'[s] = [f EXCEPT !.age = Up(f.age, Old), !.askAge = Up(f.askAge, Old)]
  BY DEF Pass, InUse
<1> HIDE DEF f
<1>3. f.age \in Nat /\ f.askAge \in Nat /\ Old \in Nat /\ f.askAge < Old
  BY <1>1, FrameIs, Ages
<1>4. Up(f.age, Old) = f.age + 1 /\ Up(f.askAge, Old) = f.askAge + 1
  BY <1>1, <1>3, UpIs
<1>5. slots'[s] = g
  BY <1>2, <1>4
<1>6. f.age + 1 \in 0 .. Old /\ f.askAge + 1 \in 0 .. Old
  BY <1>1, <1>3
<1>7. g \in Frame /\ g.n = f.n /\ g.target = f.target /\ g.age = f.age + 1 /\ g.asks = f.asks
      /\ g.askAge = f.askAge + 1
  BY <1>1, <1>6 DEF Frame
<1> QED  BY <1>5, <1>7 DEF f

LEMMA KeptPass == ASSUME KeptInv, Pass  PROVE KeptInv'
<1>1. /\ stage = "idle" /\ tick > 0 /\ alarm > 0
      /\ slots' = [s \in Slots |-> IF InUse(s)
                                   THEN [slots[s] EXCEPT !.age = Up(@, Old), !.askAge = Up(@, Old)]
                                   ELSE Empty]
      /\ passed' = [t \in Targets |-> Up(passed[t], MinInterval)] /\ passedAny' = Up(passedAny, GlobalMin)
      /\ went' = [t \in Targets |-> {a + 1 : a \in {b \in went[t] : Counts(t, b)}}]
      /\ tick' = tick - 1 /\ alarm' = IF alarm = Off THEN Off ELSE alarm - 1
      /\ UNCHANGED <<pushed, paths, stage, out, later, fresh, refused>>
  BY DEF Pass
<1>2. ASSUME NEW s \in Slots, slots[s] # Empty
      PROVE  /\ slots'[s] \in Frame /\ slots'[s].n = slots[s].n /\ slots'[s].target = slots[s].target
             /\ slots'[s].age = slots[s].age + 1 /\ slots'[s].asks = slots[s].asks
             /\ slots'[s].askAge = slots[s].askAge + 1
  BY <1>2, Older
<1>3. \A s \in Slots : slots[s] = Empty => slots'[s] = Empty
  BY <1>1 DEF InUse
<1>4. ASSUME NEW s \in Slots, slots'[s] # Empty
      PROVE  /\ slots[s] # Empty /\ slots'[s] \in Frame /\ slots'[s].n = slots[s].n
             /\ slots'[s].target = slots[s].target /\ slots'[s].age = slots[s].age + 1
  BY <1>2, <1>3, <1>4
<1>5. Filled(slots') /\ Filled(slots)'
  <2>1. slots' \in [Slots -> Frame \cup {Empty}]
    <3>1. slots' = [s \in Slots |-> slots'[s]]
      BY <1>1
    <3>2. \A s \in Slots : slots'[s] \in Frame \cup {Empty}
      BY <1>2, <1>3
    <3> QED  BY <3>1, <3>2
  <2>2. ASSUME NEW s \in Slots  PROVE slots'[s].askAge <= slots'[s].age
    <3>1. CASE slots[s] = Empty
      BY <1>3, <3>1, EmptyIs
    <3>2. CASE slots[s] # Empty
      <4>1. slots[s].askAge <= slots[s].age /\ slots[s].askAge \in Nat /\ slots[s].age \in Nat
        BY SlotIs DEF KeptInv, Filled
      <4> QED  BY <1>2, <3>2, <4>1
    <3> QED  BY <3>1, <3>2
  <2> QED  BY <2>1, <2>2 DEF Filled
<1>6. Ordered'
  BY <1>4, <1>5, OrderedStill DEF KeptInv
<1>7. Leaving'
  BY <1>1, <1>4, <1>5, LeavingStill DEF KeptInv, Counted
<1>8. Counted'
  <2>1. \A s \in Slots : slots'[s].n <= pushed
    <3>1. ASSUME NEW s \in Slots  PROVE slots'[s].n <= pushed
      <4>1. slots[s].n <= pushed
        BY DEF KeptInv, Counted
      <4> QED  BY <1>2, <1>3, <4>1
    <3> QED  BY <3>1
  <2> QED  BY <1>1, <2>1 DEF KeptInv, Counted
<1>9. Rest'
  <2>1. tick - 1 \in 0 .. Every /\ Off \in 0 .. Off /\ alarm - 1 \in 0 .. Off
    <3>1. tick \in 0 .. Every /\ alarm \in 0 .. Off
      BY DEF KeptInv, Rest
    <3>2. Every \in Nat /\ Off \in Nat
      BY Ages, HeldConstants
    <3>3. tick > 0 /\ alarm > 0
      BY <1>1
    <3> QED  BY <3>1, <3>2, <3>3
  <2> QED  BY <1>1, <2>1 DEF KeptInv, Rest
<1>10. GateOK'
  <2>1. passed' \in [Targets -> 0 .. MinInterval] /\ passedAny' \in 0 .. GlobalMin
    <3>1. \A t \in Targets : passed[t] \in Nat
      BY DEF KeptInv, GateOK
    <3>2. passedAny \in Nat
      BY DEF KeptInv, GateOK
    <3> QED  BY <1>1, <3>1, <3>2, UpIs, HeldConstants
  <2>2. ASSUME NEW t \in Targets, NEW b \in went[t], Counts(t, b)  PROVE b + 1 \in 0 .. Old
    <3>1. PICK s \in RelaySlots : slots[s] # Empty /\ slots[s].age >= b
      BY <2>2 DEF Counts, InUse
    <3>2. b \in 0 .. Old /\ Old \in Nat
      BY Ages DEF KeptInv, GateOK
    <3>3. slots[s].age < Old /\ slots[s].age \in Nat
      BY <3>1, SlotsAre, Young, FrameIs
    <3> QED  BY <3>1, <3>2, <3>3
  <2>3. went' \in [Targets -> SUBSET (0 .. Old)]
    BY <1>1, <2>2
  <2> QED  BY <1>1, <2>1, <2>3 DEF KeptInv, GateOK
<1>11. AllPaid(slots', went')
  <2>1. ASSUME NEW s \in RelaySlots, slots'[s] # Empty  PROVE PaidFor(slots'[s], went'[slots'[s].target])
    <3> DEFINE t == slots[s].target
    <3>1. s \in Slots /\ slots[s] # Empty /\ slots[s] \in Frame /\ t \in Targets /\ slots'[s].target = t
      BY <1>4, <2>1, SlotsAre, Young, FrameIs
    <3>2. PaidFor(slots[s], went[t])
      BY <3>1 DEF KeptInv, AllPaid
    <3>3. went[t] \in SUBSET (0 .. Old) /\ went'[t] \in SUBSET (0 .. Old)
      BY <1>10, <3>1 DEF KeptInv, GateOK
    <3>4. ASSUME NEW a \in went[t], a <= slots[s].age  PROVE a + 1 \in went'[t]
      <4>1. slots[s].age >= a
        <5>1. a \in 0 .. Old /\ slots[s].age \in Nat
          BY <3>1, <3>3, FrameIs
        <5> QED  BY <3>4, <5>1, Ages
      <4>2. Counts(t, a)
        BY <3>1, <4>1 DEF Counts, InUse
      <4> QED  BY <1>1, <3>1, <4>2
    <3>5. slots'[s] \in Frame /\ slots'[s].asks = slots[s].asks /\ slots'[s].age = slots[s].age + 1
          /\ slots'[s].askAge = slots[s].askAge + 1
      BY <1>2, <3>1
    <3> HIDE DEF t
    <3>6. PaidFor(slots'[s], went'[t])
      BY <3>1, <3>2, <3>3, <3>4, <3>5, PaidLater
    <3> QED  BY <3>1, <3>6
  <2> QED  BY <2>1 DEF AllPaid
<1>12. InTime'
  <2>1. tick \in Nat /\ alarm \in Nat /\ GiveUp \in Nat /\ GlobalMin \in Nat /\ OwnLife \in Nat /\ Every \in Nat
        /\ Off \in Nat
    BY Ages, HeldConstants DEF KeptInv, Rest
  <2>0. /\ stage = "idle" /\ stage' = "idle" /\ tick > 0 /\ alarm > 0
        /\ tick' = tick - 1 /\ alarm' = IF alarm = Off THEN Off ELSE alarm - 1
    BY <1>1
  <2>2. ASSUME NEW s \in Slots, slots'[s] # Empty
        PROVE  IF s \in OwnSlots THEN OwnInTime(s)' ELSE RelayedInTime(s)'
    <3>1. slots[s] # Empty /\ slots'[s].age = slots[s].age + 1 /\ slots[s].age \in Nat
      BY <1>4, <2>2, Young, FrameIs
    <3>2. CASE s \in OwnSlots
      <4>1. OwnInTime(s)
        BY <3>1, <3>2 DEF KeptInv, InTime, InUse
      <4>2. slots[s].age + tick <= OwnLife + Every
        BY <2>0, <4>1 DEF OwnInTime
      <4>3. slots'[s].age <= OwnLife + Every /\ slots'[s].age + tick' <= OwnLife + Every
        BY <2>0, <2>1, <3>1, <4>2
      <4> QED  BY <3>2, <4>3 DEF OwnInTime
    <3>3. CASE s \notin OwnSlots
      <4>1. RelayedInTime(s)
        BY <3>1, <3>3 DEF KeptInv, InTime, InUse
      <4>2. alarm # Off /\ slots[s].age + alarm < GiveUp + GlobalMin
        BY <2>0, <4>1 DEF RelayedInTime
      <4>3. alarm' = alarm - 1 /\ alarm - 1 # Off /\ stage' = "idle"
        <5>1. alarm <= Off
          BY <2>1 DEF KeptInv, Rest
        <5> QED  BY <2>0, <2>1, <4>2, <5>1
      <4>4. slots'[s].age < GiveUp + GlobalMin /\ slots'[s].age + alarm' < GiveUp + GlobalMin /\ alarm' # Off
        BY <2>0, <2>1, <3>1, <4>2, <4>3
      <4> QED  BY <3>3, <4>3, <4>4 DEF RelayedInTime
    <3> QED  BY <3>2, <3>3
  <2> QED  BY <2>2 DEF InTime, InUse
<1> QED  BY <1>5, <1>6, <1>7, <1>8, <1>9, <1>10, <1>11, <1>12 DEF KeptInv

LEMMA KeptStart == HeldInit => KeptInv
<1> SUFFICES ASSUME HeldInit PROVE KeptInv
  OBVIOUS
<1>1. \A s \in Slots : slots[s] = Empty
  BY DEF HeldInit
<1>2. Filled(slots) /\ AllPaid(slots, went) /\ Ordered /\ InTime
  BY <1>1, EmptyIs, SlotsAre DEF HeldInit, Filled, AllPaid, Ordered, Apart, Queued, OneLadder, InTime, InUse, Live
<1>3. Counted
  BY <1>1, EmptyIs, HeldConstants DEF HeldInit, Counted
<1>4. Leaving
  <2>1. DOMAIN out = {}
    BY DEF HeldInit
  <2> QED  BY <2>1 DEF Leaving, InOrder
<1>5. Rest /\ GateOK
  BY Ages, HeldConstants DEF HeldInit, Rest, GateOK
<1> QED  BY <1>2, <1>3, <1>4, <1>5 DEF KeptInv

LEMMA KeptStep == KeptInv /\ [HeldNext]_heldvars => KeptInv'
<1> SUFFICES ASSUME KeptInv, [HeldNext]_heldvars PROVE KeptInv'
  OBVIOUS
<1> QED  BY KeptOtherwise, KeptOwn, KeptRelayed, KeptTake, KeptAsk, KeptPass DEF HeldNext

LEMMA KeptGives == KeptInv => HeldInv
<1> SUFFICES ASSUME KeptInv PROVE HeldInv
  OBVIOUS
<1>1. HeldTypeOK
  <2>1. pushed \in 0 .. MaxSteps
    BY HeldConstants DEF KeptInv, Counted
  <2> QED  BY <2>1 DEF KeptInv, Rest, GateOK, Filled, HeldTypeOK
<1>2. InOrder /\ NoneOverdue
  BY DEF KeptInv, Leaving, InTime, OwnInTime, RelayedInTime, NoneOverdue
<1>3. Honest
  <2>1. ASSUME NEW s \in RelaySlots, InUse(s)
        PROVE  slots[s].asks <= Cardinality({a \in went[slots[s].target] : a <= slots[s].age})
    <3> DEFINE w == went[slots[s].target]
               u == {a \in w : a <= slots[s].age}
    <3>1. slots[s] \in Frame /\ PaidFor(slots[s], w) /\ w \in SUBSET (0 .. Old)
      <4>1. slots[s] # Empty /\ s \in Slots
        BY <2>1, SlotsAre DEF InUse
      <4>2. slots[s] \in Frame /\ slots[s].target \in Targets
        BY <4>1, Young, FrameIs
      <4> QED  BY <4>1, <4>2 DEF KeptInv, AllPaid, GateOK
    <3> HIDE DEF w
    <3>2. IsFiniteSet(u) /\ Cardinality(u) \in Nat
      <4>1. 0 \in Int /\ Old \in Int
        BY Ages
      <4>2. IsFiniteSet(0 .. Old) /\ u \in SUBSET (0 .. Old)
        BY <3>1, <4>1, FS_Interval
      <4> HIDE DEF u
      <4> QED  BY <4>2, FS_Subset, FS_CardinalityType
    <3>3. Spent(slots[s], w) \subseteq u
      BY DEF Spent
    <3> HIDE DEF u
    <3>4. Cardinality(Spent(slots[s], w)) <= Cardinality(u) /\ Cardinality(Spent(slots[s], w)) \in Nat
      BY <3>1, <3>2, <3>3, FS_Subset, SpentIs
    <3>5. slots[s].asks <= Cardinality(u)
      BY <3>1, <3>2, <3>4, FrameIs DEF PaidFor
    <3> QED  BY <3>5 DEF u, w
  <2> QED  BY <2>1 DEF Honest
<1> QED  BY <1>1, <1>2, <1>3 DEF HeldInv

\* What is held is what the code says: a flow leaves in the order it came whatever slots its
\* frames had (umac_mesh_pending_take), no frame outlasts the tick or the timer that looks at
\* it (umac_mesh_fwd_glue_tick, relay_timer_), and each step of the ladder stands for a PREQ
\* that went out for that target (umac_mesh_pending_asked).
THEOREM HeldFramesKept == HeldSpec => []HeldInv
BY KeptStart, KeptStep, KeptGives, PTL DEF HeldSpec

-----------------------------------------------------------------------------
(***************************************************************************)
(* How late a step of the ladder may be, with f a frame, p and any the     *)
(* gate, w the requests that went out, q the target of the queued one and  *)
(* l what is left of the timer.  A target that must wait has others let    *)
(* pass before it, each one GlobalMin later than the one before.           *)
(***************************************************************************)
Left == IF stage \in {"timer", "timing"} THEN 0 ELSE alarm
Behind(f, l) == Late(f) + l - (MinInterval - 1)
Ahead(t, p, l, c) == {u \in Targets \ {t} : p[u] + l < c}
Outrun(f, p, l, more) ==
  \/ Behind(f, l) < 0
  \/ \E j \in Nat : /\ j * GlobalMin <= Behind(f, l) /\ Behind(f, l) < (j + 1) * GlobalMin
                    /\ Cardinality(Ahead(f.target, p, l, (j + 1) * GlobalMin)) >= j + more
Waits(f, p, any, l) == Outrun(f, p, l, 0) /\ (any + l < GlobalMin => Outrun(f, p, l, 1))

Went(f, w) == \E a \in w[f.target] : a <= Late(f)
WentInTime(f, w, l) == /\ Behind(f, l) < (Cardinality(Targets) + 1) * GlobalMin
                       /\ \A a \in w[f.target] : a <= Late(f) => a + l <= GlobalMin
Queueing(f, q) == q = f.target /\ Late(f) >= 0
QueuedInTime(f, l) ==
  \/ Behind(f, l) < Cardinality(Targets) * GlobalMin
  \/ l > 0 /\ Behind(f, l) < (Cardinality(Targets) + 1) * GlobalMin

Armed(f, l) == l <= GlobalMin \/ f.age - AskAt[f.asks] + l <= 0
Prompt(f, p, any, w, q, l) ==
  /\ Armed(f, l)
  /\ Went(f, w) => WentInTime(f, w, l)
  /\ ~Went(f, w) /\ Queueing(f, q) => QueuedInTime(f, l)
  /\ ~Went(f, w) /\ ~Queueing(f, q) => Waits(f, p, any, l)

\* The frames whose ladder goes on.
Climbing(f) == f \in Frame /\ f.age < GiveUp /\ f.asks <= Retries

\* GLOBAL_MIN for every target fits in MIN_INTERVAL.
LEMMA GateConstants ==
  /\ IsFiniteSet(Targets) /\ Cardinality(Targets) \in Nat
  /\ Cardinality(Targets) * GlobalMin \in Nat /\ Cardinality(Targets) * GlobalMin <= MinInterval
  /\ (Cardinality(Targets) + 1) * GlobalMin = Cardinality(Targets) * GlobalMin + GlobalMin
  /\ GlobalMin \in Nat /\ MinInterval \in Nat /\ 0 < GlobalMin /\ GlobalMin + GlobalMin <= MinInterval
<1>1. IsFiniteSet(Targets) /\ GlobalMin \in Nat /\ MinInterval \in Nat /\ 0 < GlobalMin
  BY GateAssumption, HeldConstants
<1>2. Cardinality(Targets) \in Nat
  BY <1>1, FS_CardinalityType
<1>3. GlobalMin + GlobalMin <= MinInterval
  BY <1>1, GateAssumption
<1> DEFINE n == Cardinality(Targets)
<1>4. n * GlobalMin <= MinInterval
  BY GateAssumption
<1>5. n \in Nat
  BY <1>2
<1> HIDE DEF n
<1>6. n * GlobalMin \in Nat /\ (n + 1) * GlobalMin = n * GlobalMin + GlobalMin
  BY <1>1, <1>5
<1> QED  BY <1>1, <1>3, <1>4, <1>5, <1>6 DEF n

LEMMA Times ==
  /\ \A j \in Nat : j * GlobalMin \in Nat /\ (j + 1) * GlobalMin = j * GlobalMin + GlobalMin
  /\ 0 * GlobalMin = 0 /\ 1 * GlobalMin = GlobalMin
  /\ \A i, j \in Nat : i <= j => i * GlobalMin <= j * GlobalMin
<1>1. GlobalMin \in Nat
  BY HeldConstants
<1>2. ASSUME NEW i \in Nat, NEW j \in Nat, i <= j  PROVE i * GlobalMin <= j * GlobalMin
  <2>1. PICK d \in Nat : j = i + d
    <3>1. j - i \in Nat /\ j = i + (j - i)
      BY <1>2
    <3> QED  BY <3>1
  <2>2. j * GlobalMin = i * GlobalMin + d * GlobalMin /\ d * GlobalMin \in Nat /\ i * GlobalMin \in Nat
    BY <1>1, <2>1
  <2> QED  BY <2>2
<1> QED  BY <1>1, <1>2

\* A PREQ counts for the next step of a frame when it is no older than this.
LEMMA LateIs ==
  ASSUME NEW f, Climbing(f)
  PROVE  /\ Late(f) \in Int /\ AskAt[f.asks] \in Nat /\ f.age \in Nat /\ f.target \in Targets
         /\ Late(f) <= f.age - AskAt[f.asks] /\ Late(f) <= f.age
         /\ Late(f) >= 0 => f.age >= AskAt[f.asks]
         /\ \A a \in Nat : Steps(f, a) <=> a <= Late(f)
<1>1. f.age \in Nat /\ f.asks \in 0 .. Retries + 1 /\ f.askAge \in Nat /\ f.asks \in Nat /\ f.target \in Targets
      /\ f.age < GiveUp /\ f.asks <= Retries /\ GiveUp \in Nat
  BY FrameIs, Ages DEF Climbing
<1>2. AskAt[f.asks] \in Nat
  BY <1>1, AskAtIs
<1> DEFINE d == f.age - AskAt[f.asks]
<1>3. Late(f) = IF f.asks > 0 /\ f.askAge <= d THEN f.askAge - 1 ELSE d
  BY DEF Late
<1>4. ASSUME NEW a \in Nat  PROVE Steps(f, a) <=> a <= Late(f)
  <2>1. Steps(f, a) <=> f.age - a >= AskAt[f.asks] /\ (f.asks = 0 \/ a < f.askAge)
    BY <1>1 DEF Steps
  <2>2. f.age - a >= AskAt[f.asks] <=> a <= d
    BY <1>1, <1>2
  <2>3. d \in Int
    BY <1>1, <1>2
  <2> HIDE DEF d
  <2> QED  BY <1>1, <1>3, <2>1, <2>2, <2>3
<1> QED  BY <1>1, <1>2, <1>3, <1>4

\* A step is for the youngest PREQ, and the next is late by no more than that PREQ is old.
LEMMA ClimbIs ==
  ASSUME NEW f, Climbing(f), NEW w \in SUBSET Nat
  PROVE  /\ ~(\E a \in w : a <= Late(f)) => Climb(f, w) = f
         /\ (\E a \in w : a <= Late(f)) =>
              LET g == Climb(f, w) IN
              /\ Min(w) \in w /\ Min(w) <= Late(f) /\ g.target = f.target /\ g.age = f.age
              /\ (Climbing(g) => /\ Late(g) < Min(w) /\ g.age - AskAt[g.asks] <= f.age - AskAt[f.asks]
                                 /\ \A a \in w : ~(a <= Late(g)))
<1>1. f \in Frame /\ f.asks \in 0 .. Retries /\ f.age \in Nat
  BY FrameIs, HeldConstants DEF Climbing
<1>2. CASE ~(\E a \in w : a <= Late(f))
  <2>1. w # {} => ~Steps(f, Min(w))
    <3>1. ASSUME w # {}  PROVE ~Steps(f, Min(w))
      <4>1. Min(w) \in w
        BY <3>1, MinIsIn
      <4> QED  BY <1>2, <4>1, LateIs
    <3> QED  BY <3>1
  <2> QED  BY <1>2, <2>1 DEF Climb
<1>3. CASE \E a \in w : a <= Late(f)
  <2> DEFINE m == Min(w)
             g == [f EXCEPT !.asks = @ + 1, !.askAge = m]
  <2>1. m \in w /\ \A y \in w : m <= y
    BY <1>3, MinIsIn
  <2>2. m <= Late(f) /\ m \in Nat
    <3>1. PICK a \in w : a <= Late(f)
      BY <1>3
    <3>2. m <= a /\ a \in Nat /\ m \in Nat /\ Late(f) \in Int
      BY <2>1, <3>1, LateIs
    <3> HIDE DEF m
    <3> QED  BY <3>1, <3>2
  <2>3. Climb(f, w) = g
    <3>1. Steps(f, m)
      BY <2>2, LateIs
    <3> QED  BY <2>1, <3>1 DEF Climb
  <2> HIDE DEF m
  <2>4. g.target = f.target /\ g.age = f.age /\ g.asks = f.asks + 1 /\ g.askAge = m
    BY <1>1 DEF Frame
  <2> HIDE DEF g
  <2>5. ASSUME Climbing(g)
        PROVE  Late(g) < m /\ g.age - AskAt[g.asks] <= f.age - AskAt[f.asks] /\ \A a \in w : ~(a <= Late(g))
    <3>1. AskAt[f.asks] <= AskAt[g.asks] /\ AskAt[g.asks] \in Nat /\ AskAt[f.asks] \in Nat /\ Late(g) \in Int
      BY <1>1, <2>4, <2>5, AskAtIs, LateIs
    <3>2. g.asks > 0
      BY <1>1, <2>4
    <3>3. Late(g) < m
      BY <1>1, <2>2, <2>4, <3>1, <3>2 DEF Late
    <3>4. g.age - AskAt[g.asks] <= f.age - AskAt[f.asks]
      BY <1>1, <2>4, <3>1
    <3>5. ASSUME NEW a \in w  PROVE ~(a <= Late(g))
      <4>1. m <= a /\ a \in Nat
        BY <2>1
      <4> QED  BY <2>2, <3>1, <3>3, <4>1
    <3> QED  BY <3>3, <3>4, <3>5
  <2> QED  BY <1>3, <2>1, <2>2, <2>3, <2>4, <2>5 DEF m
<1> QED  BY <1>2, <1>3

GatePass(p) == p \in [Targets -> 0 .. MinInterval]

\* The targets ahead of one are fewer than all.
LEMMA AheadIs ==
  ASSUME NEW t \in Targets, NEW p, NEW l, NEW c
  PROVE  LET n == Cardinality(Ahead(t, p, l, c)) IN
         /\ IsFiniteSet(Ahead(t, p, l, c)) /\ n \in Nat /\ n + 1 <= Cardinality(Targets)
<1> DEFINE A == Ahead(t, p, l, c)
<1>1. A \subseteq Targets \ {t}
  BY DEF Ahead
<1> HIDE DEF A
<1>2. IsFiniteSet(Targets \ {t}) /\ Cardinality(Targets \ {t}) = Cardinality(Targets) - 1
  BY GateConstants, FS_RemoveElement
<1>3. IsFiniteSet(A) /\ Cardinality(A) <= Cardinality(Targets \ {t}) /\ Cardinality(A) \in Nat
  BY <1>1, <1>2, FS_Subset, FS_CardinalityType
<1> QED  BY <1>2, <1>3, GateConstants DEF A

LEMMA AheadMore ==
  ASSUME NEW t \in Targets, NEW p, NEW q, NEW l, NEW m, NEW c, NEW d, Ahead(t, p, l, c) \subseteq Ahead(t, q, m, d)
  PROVE  Cardinality(Ahead(t, p, l, c)) <= Cardinality(Ahead(t, q, m, d))
BY AheadIs, FS_Subset

\* There are only so many to let pass.
LEMMA OutrunBound ==
  ASSUME NEW f, Climbing(f), NEW p, NEW l \in Nat, Outrun(f, p, l, 0)
  PROVE  Behind(f, l) < Cardinality(Targets) * GlobalMin
<1>1. Late(f) \in Int /\ f.target \in Targets
  BY LateIs
<1>2. Behind(f, l) \in Int
  BY <1>1, HeldConstants DEF Behind
<1>3. CASE Behind(f, l) < 0
  BY <1>2, <1>3, GateConstants
<1>4. CASE ~(Behind(f, l) < 0)
  <2>1. PICK j \in Nat : /\ Behind(f, l) < (j + 1) * GlobalMin
                         /\ Cardinality(Ahead(f.target, p, l, (j + 1) * GlobalMin)) >= j + 0
    BY <1>4 DEF Outrun
  <2> DEFINE n == Cardinality(Ahead(f.target, p, l, (j + 1) * GlobalMin))
  <2>2. n \in Nat /\ n + 1 <= Cardinality(Targets)
    BY <1>1, AheadIs
  <2>3. n >= j
    BY <2>1
  <2> HIDE DEF n
  <2>4. j + 1 \in Nat /\ j + 1 <= Cardinality(Targets)
    BY <2>2, <2>3, GateConstants
  <2>5. (j + 1) * GlobalMin <= Cardinality(Targets) * GlobalMin /\ (j + 1) * GlobalMin \in Nat
    BY <2>4, GateConstants, Times
  <2> QED  BY <1>2, <2>1, <2>5, GateConstants
<1> QED  BY <1>3, <1>4

\* A frame that is not late may wait.
LEMMA NotBehind ==
  ASSUME NEW f, NEW p, NEW any, NEW l, Behind(f, l) < 0
  PROVE  Waits(f, p, any, l)
BY DEF Waits, Outrun

\* A frame late by nothing, before the next look.
LEMMA BarelyBehind ==
  ASSUME NEW f, Climbing(f), NEW p, NEW any \in Nat, Behind(f, GlobalMin) < GlobalMin
  PROVE  Waits(f, p, any, GlobalMin)
<1>1. f.target \in Targets /\ Late(f) \in Int
  BY LateIs
<1>2. Behind(f, GlobalMin) \in Int /\ ~(any + GlobalMin < GlobalMin)
  BY <1>1, HeldConstants DEF Behind
<1>3. Cardinality(Ahead(f.target, p, GlobalMin, (0 + 1) * GlobalMin)) >= 0 + 0
  BY <1>1, AheadIs
<1>4. 0 * GlobalMin = 0 /\ (0 + 1) * GlobalMin = GlobalMin
  BY Times
<1>5. Outrun(f, p, GlobalMin, 0)
  <2>1. CASE Behind(f, GlobalMin) < 0
    BY <2>1 DEF Outrun
  <2>2. CASE ~(Behind(f, GlobalMin) < 0)
    <3>1. 0 * GlobalMin <= Behind(f, GlobalMin) /\ Behind(f, GlobalMin) < (0 + 1) * GlobalMin
      BY <1>2, <1>4, <2>2
    <3>2. 0 \in Nat
      OBVIOUS
    <3> QED  BY <1>3, <3>1, <3>2 DEF Outrun
  <2> QED  BY <2>1, <2>2
<1> QED  BY <1>2, <1>5 DEF Waits

\* Another target passes.
LEMMA OtherPasses ==
  ASSUME NEW f, Climbing(f), NEW p, GatePass(p), NEW u \in Targets \ {f.target}, p[u] >= MinInterval,
         NEW l \in Nat, Outrun(f, p, l, 0), l <= GlobalMin \/ Behind(f, l) < 0
  PROVE  LET r == [p EXCEPT ![u] = 0] IN
         Waits(f, r, 0, l) /\ (l < GlobalMin => Outrun(f, r, l, 1))
<1> DEFINE r == [p EXCEPT ![u] = 0]
           t == f.target
<1>1. t \in Targets /\ u # t /\ u \in Targets
  BY LateIs
<1>2. /\ r[u] = 0 /\ \A v \in Targets : v # u => r[v] = p[v]
      /\ \A v \in Targets : p[v] \in Nat /\ p[u] = MinInterval
  BY <1>1, HeldConstants DEF GatePass
<1> HIDE DEF r, t
<1>3. CASE Behind(f, l) < 0
  BY <1>3 DEF Waits, Outrun, r
<1>4. CASE ~(Behind(f, l) < 0)
  <2>1. PICK j \in Nat : /\ j * GlobalMin <= Behind(f, l) /\ Behind(f, l) < (j + 1) * GlobalMin
                         /\ Cardinality(Ahead(t, p, l, (j + 1) * GlobalMin)) >= j + 0
    BY <1>4 DEF Outrun, t
  <2> DEFINE c == (j + 1) * GlobalMin
             A == Ahead(t, p, l, c)
             B == Ahead(t, r, l, c)
  <2>2. /\ IsFiniteSet(A) /\ Cardinality(A) \in Nat /\ Cardinality(A) + 1 <= Cardinality(Targets)
        /\ IsFiniteSet(B) /\ Cardinality(B) \in Nat
    BY <1>1, AheadIs
  <2>3. Cardinality(A) >= j
    BY <2>1
  <2>4. j + 1 \in Nat /\ j + 1 <= Cardinality(Targets)
    <3> HIDE DEF A, B, c
    <3> QED  BY <2>2, <2>3, GateConstants
  <2>5. c \in Nat /\ c <= MinInterval /\ GlobalMin <= c
    <3>1. c <= Cardinality(Targets) * GlobalMin /\ c \in Nat
      BY <2>4, GateConstants, Times
    <3>2. c = j * GlobalMin + GlobalMin /\ j * GlobalMin \in Nat
      BY Times
    <3> HIDE DEF c
    <3> QED  BY <3>1, <3>2, GateConstants
  <2>6. u \notin A
    <3> HIDE DEF c
    <3>1. ~(p[u] + l < c)
      BY <1>2, <2>5, HeldConstants
    <3> QED  BY <3>1 DEF Ahead
  <2>7. A \subseteq B
    <3> HIDE DEF c
    <3> QED  BY <1>2, <2>6 DEF Ahead
  <2>8. l < GlobalMin => u \in B
    <3> HIDE DEF c
    <3>1. ASSUME l < GlobalMin  PROVE r[u] + l < c
      BY <1>2, <2>5, <3>1, GateConstants
    <3> QED  BY <1>1, <3>1 DEF Ahead
  <2> HIDE DEF A, B, c
  <2>9. Cardinality(A) <= Cardinality(B)
    BY <2>2, <2>7, FS_Subset
  <2>10. l < GlobalMin => Cardinality(B) >= j + 1
    <3>1. ASSUME l < GlobalMin  PROVE Cardinality(B) >= j + 1
      <4>1. A \cup {u} \subseteq B
        BY <2>7, <2>8, <3>1
      <4>2. Cardinality(A \cup {u}) = Cardinality(A) + 1
        BY <2>2, <2>6, FS_AddElement
      <4>3. Cardinality(A \cup {u}) <= Cardinality(B)
        BY <2>2, <4>1, FS_Subset
      <4> QED  BY <2>2, <2>3, <4>2, <4>3
    <3> QED  BY <3>1
  <2>11. Cardinality(B) >= j + 0
    BY <2>2, <2>3, <2>9
  <2>12. Outrun(f, r, l, 0) /\ (l < GlobalMin => Outrun(f, r, l, 1))
    BY <2>1, <2>10, <2>11 DEF Outrun, B, c, t
  <2>13. 0 + l = l
    OBVIOUS
  <2> QED  BY <2>12, <2>13 DEF Waits, r
<1> QED  BY <1>3, <1>4

\* The gate held the target back, and the timer is set again.
LEMMA LookAgain ==
  ASSUME NEW f, Climbing(f), NEW p, GatePass(p), NEW any \in Nat, Outrun(f, p, 0, 1)
  PROVE  Waits(f, p, any, GlobalMin)
<1>1. f.target \in Targets /\ Late(f) \in Int /\ GlobalMin \in Nat
  BY LateIs, HeldConstants
<1>2. Behind(f, 0) \in Int /\ Behind(f, GlobalMin) = Behind(f, 0) + GlobalMin
  BY <1>1, HeldConstants DEF Behind
<1>3. CASE Behind(f, 0) < 0
  <2>1. Behind(f, GlobalMin) < GlobalMin
    BY <1>1, <1>2, <1>3
  <2> QED  BY <2>1, BarelyBehind
<1>4. CASE ~(Behind(f, 0) < 0)
  <2>1. PICK j \in Nat : /\ j * GlobalMin <= Behind(f, 0) /\ Behind(f, 0) < (j + 1) * GlobalMin
                         /\ Cardinality(Ahead(f.target, p, 0, (j + 1) * GlobalMin)) >= j + 1
    BY <1>4 DEF Outrun
  <2> DEFINE k == j + 1
  <2>2. /\ k \in Nat /\ k * GlobalMin = j * GlobalMin + GlobalMin
        /\ (k + 1) * GlobalMin = k * GlobalMin + GlobalMin /\ j * GlobalMin \in Nat /\ k * GlobalMin \in Nat
    <3>1. k \in Nat
      OBVIOUS
    <3>2. k * GlobalMin = j * GlobalMin + GlobalMin /\ j * GlobalMin \in Nat
      BY Times
    <3> HIDE DEF k
    <3>3. (k + 1) * GlobalMin = k * GlobalMin + GlobalMin /\ k * GlobalMin \in Nat
      BY <3>1, Times
    <3> QED  BY <3>1, <3>2, <3>3
  <2> HIDE DEF k
  <2>3. k * GlobalMin <= Behind(f, GlobalMin) /\ Behind(f, GlobalMin) < (k + 1) * GlobalMin
    <3>1. Behind(f, 0) < k * GlobalMin
      BY <2>1 DEF k
    <3> QED  BY <1>1, <1>2, <2>1, <2>2, <3>1
  <2>4. Ahead(f.target, p, 0, k * GlobalMin) \subseteq Ahead(f.target, p, GlobalMin, (k + 1) * GlobalMin)
    <3>1. \A v \in Targets : p[v] \in Nat
      BY HeldConstants DEF GatePass
    <3>2. \A v \in Targets : p[v] + 0 < k * GlobalMin => p[v] + GlobalMin < (k + 1) * GlobalMin
      BY <1>1, <2>2, <3>1
    <3> QED  BY <3>2 DEF Ahead
  <2>5. Cardinality(Ahead(f.target, p, GlobalMin, (k + 1) * GlobalMin)) >= k + 0
    <3> DEFINE a == Cardinality(Ahead(f.target, p, 0, k * GlobalMin))
               b == Cardinality(Ahead(f.target, p, GlobalMin, (k + 1) * GlobalMin))
    <3>1. a <= b /\ a \in Nat /\ b \in Nat
      BY <1>1, <2>4, AheadIs, AheadMore
    <3>2. a >= k
      BY <2>1 DEF k
    <3> HIDE DEF a, b
    <3>3. b >= k + 0
      BY <2>2, <3>1, <3>2
    <3> QED  BY <3>3 DEF b
  <2>6. Outrun(f, p, GlobalMin, 0)
    BY <2>2, <2>3, <2>5 DEF Outrun
  <2>7. ~(any + GlobalMin < GlobalMin)
    BY <1>1
  <2> QED  BY <2>6, <2>7 DEF Waits
<1> QED  BY <1>3, <1>4

\* Time passes, and the timer comes nearer.
LEMMA WaitsOn ==
  ASSUME NEW f, Climbing(f), NEW g, Climbing(g), g.target = f.target, Late(g) = Late(f) + 1,
         NEW p, GatePass(p), NEW any \in 0 .. GlobalMin, NEW l \in Nat, l > 0, Waits(f, p, any, l)
  PROVE  Waits(g, [t \in Targets |-> Up(p[t], MinInterval)], Up(any, GlobalMin), l - 1)
<1> DEFINE r == [t \in Targets |-> Up(p[t], MinInterval)]
<1>1. f.target \in Targets /\ Late(f) \in Int /\ GlobalMin \in Nat /\ MinInterval \in Nat /\ l - 1 \in Nat
  BY LateIs, HeldConstants
<1>2. Behind(f, l) \in Int /\ Behind(g, l - 1) = Behind(f, l)
  BY <1>1 DEF Behind
<1>3. \A v \in Targets : p[v] \in Nat /\ r[v] \in Nat /\ r[v] <= p[v] + 1
  <2>1. \A v \in Targets : p[v] \in 0 .. MinInterval
    BY DEF GatePass
  <2>2. \A a \in 0 .. MinInterval : Up(a, MinInterval) \in Nat /\ Up(a, MinInterval) <= a + 1
    <3>1. ASSUME NEW a \in 0 .. MinInterval  PROVE Up(a, MinInterval) \in Nat /\ Up(a, MinInterval) <= a + 1
      <4>1. a \in Nat /\ a + 1 \in Nat
        BY <1>1
      <4> QED  BY <1>1, <4>1, MinOfTwo DEF Up
    <3> QED  BY <3>1
  <2> QED  BY <1>1, <2>1, <2>2
<1> HIDE DEF r
<1>4. \A c \in Nat : Cardinality(Ahead(f.target, p, l, c)) <= Cardinality(Ahead(f.target, r, l - 1, c))
  <2>1. ASSUME NEW c \in Nat  PROVE Ahead(f.target, p, l, c) \subseteq Ahead(f.target, r, l - 1, c)
    <3>1. \A v \in Targets : p[v] + l < c => r[v] + (l - 1) < c
      BY <1>1, <1>3
    <3> QED  BY <3>1 DEF Ahead
  <2> QED  BY <1>1, <2>1, AheadMore
<1>5. \A more \in {0, 1} : Outrun(f, p, l, more) => Outrun(g, r, l - 1, more)
  <2>1. ASSUME NEW more \in {0, 1}, Outrun(f, p, l, more), ~(Behind(f, l) < 0)
        PROVE  Outrun(g, r, l - 1, more)
    <3>1. PICK j \in Nat : /\ j * GlobalMin <= Behind(f, l) /\ Behind(f, l) < (j + 1) * GlobalMin
                           /\ Cardinality(Ahead(f.target, p, l, (j + 1) * GlobalMin)) >= j + more
      BY <2>1 DEF Outrun
    <3>2. (j + 1) * GlobalMin \in Nat
      BY <1>1
    <3> DEFINE a == Cardinality(Ahead(f.target, p, l, (j + 1) * GlobalMin))
               b == Cardinality(Ahead(f.target, r, l - 1, (j + 1) * GlobalMin))
    <3>3. a \in Nat /\ b \in Nat /\ a <= b /\ a >= j + more
      BY <1>1, <1>4, <3>1, <3>2, AheadIs
    <3> HIDE DEF a, b
    <3>4. b >= j + more
      BY <3>3
    <3> QED  BY <1>2, <3>1, <3>4 DEF Outrun, b
  <2>2. ASSUME NEW more \in {0, 1}, Behind(f, l) < 0
        PROVE  Outrun(g, r, l - 1, more)
    BY <1>2, <2>2 DEF Outrun
  <2> QED  BY <2>1, <2>2
<1>6. Up(any, GlobalMin) + (l - 1) < GlobalMin => any + l < GlobalMin
  <2>1. any + 1 \in Nat
    BY <1>1
  <2>2. Up(any, GlobalMin) = IF any + 1 <= GlobalMin THEN any + 1 ELSE GlobalMin
    BY <1>1, <2>1, MinOfTwo DEF Up
  <2> QED  BY <1>1, <2>2
<1> QED  BY <1>5, <1>6 DEF Waits, r

CountsIn(sl, t, a) == \E s \in RelaySlots : sl[s] # Empty /\ sl[s].target = t /\ sl[s].age >= a
\* What the gate let pass has gone out or is queued, as long as a frame could count it.
GateKeeps(p, any, w, q, sl) ==
  /\ q # NoTarget => any = 0 /\ p[q] = 0
  /\ \A t \in Targets : p[t] < MinInterval /\ (p[t] = 0 \/ CountsIn(sl, t, p[t])) => p[t] \in w[t] \/ q = t
AllPrompt(sl, p, any, w, q, l) == \A s \in RelaySlots : Climbing(sl[s]) => Prompt(sl[s], p, any, w, q, l)

\* The loop has asked for the frame, and has not set the timer again.
Served(g, p, any, w, q, l) ==
  /\ ~Went(g, w) /\ Armed(g, l)
  /\ \/ Late(g) + l < GlobalMin
     \/ /\ Late(g) >= 0
        /\ IF q = g.target THEN QueuedInTime(g, l)
           ELSE Waits(g, p, any, l) /\ (l = 0 => Outrun(g, p, 0, 1))

Passes(u) == /\ Allowed(u) /\ passed' = [passed EXCEPT ![u] = 0] /\ passedAny' = 0
             /\ went' = [went EXCEPT ![u] = @ \cup {0}]

\* maybe_preq_ for each in turn lets one pass or none.
LEMMA FirstIs ==
  ASSUME NEW sl, Filled(sl), NEW T \in SUBSET Slots, \A s \in T : sl[s] # Empty, AskFirst(sl, T), refused' = refused,
         refused \in Nat
  PROVE  \/ UNCHANGED <<passed, passedAny, went>> /\ \A s \in T : ~Allowed(sl[s].target)
         \/ \E u \in Targets : Passes(u)
<1> DEFINE pass == {s \in T : Allowed(sl[s].target)}
<1>1. CASE pass = {}
  BY <1>1 DEF AskFirst
<1>2. CASE pass # {}
  <2> DEFINE m == Min(pass)
             u == sl[m].target
  <2>1. m \in pass
    <3>1. pass \in SUBSET Nat
      BY SlotsAre
    <3> HIDE DEF pass
    <3> QED  BY <1>2, <3>1, MinIsIn
  <2>2. u \in Targets /\ Allowed(u)
    BY <2>1, SlotIs DEF Filled
  <2>3. Allow(u) /\ (Sent(u) \/ Refused)
    <3>1. AskFirst(sl, T) <=> IF pass = {} THEN UNCHANGED <<passed, passedAny, went, refused>>
                              ELSE Allow(u) /\ (Sent(u) \/ Refused)
      BY DEF AskFirst
    <3> HIDE DEF pass, u, m
    <3> QED  BY <1>2, <3>1
  <2> HIDE DEF u, m
  <2>4. Sent(u)
    BY <2>3 DEF Refused
  <2> QED  BY <2>2, <2>3, <2>4 DEF Allow, Sent, Passes
<1> QED  BY <1>1, <1>2

\* What is due is asked for, if it is held.
LEMMA AskIs ==
  ASSUME NEW sl, Filled(sl), GateOK, NEW S \in SUBSET Slots, \A s \in S : sl[s] # Empty, Ask(sl, S), refused' = refused
  PROVE  /\ \/ UNCHANGED <<passed, passedAny, went>> /\ \A s \in Due(sl) : ~Allowed(sl[s].target)
            \/ \E u \in Targets : Passes(u)
         /\ \A s \in RelaySlots : \/ slots'[s] = sl[s] /\ \A r \in Due(sl) : sl[r].target # sl[s].target
                                  \/ slots'[s] = Climb(sl[s], went'[sl[s].target])
<1>1. Due(sl) \in SUBSET Slots /\ \A s \in Due(sl) : sl[s] # Empty
  BY SlotsAre DEF Due
<1>2. AskFirst(sl, S \cup Due(sl))
  BY DEF Ask
<1>3. S \cup Due(sl) \in SUBSET Slots /\ \A s \in S \cup Due(sl) : sl[s] # Empty
  BY <1>1
<1>4. refused \in Nat
  BY HeldConstants DEF GateOK
<1>5. \/ UNCHANGED <<passed, passedAny, went>> /\ \A s \in S \cup Due(sl) : ~Allowed(sl[s].target)
      \/ \E u \in Targets : Passes(u)
  BY <1>2, <1>3, <1>4, FirstIs
<1>6. \A s \in RelaySlots : \/ slots'[s] = sl[s] /\ \A r \in Due(sl) : sl[r].target # sl[s].target
                            \/ slots'[s] = Climb(sl[s], went'[sl[s].target])
  BY SlotsAre DEF Ask
<1> QED  BY <1>5, <1>6

LEMMA FrameAsked ==
  ASSUME NEW sl, Filled(sl), GateOK, NEW S \in SUBSET Slots, \A r \in S : sl[r] # Empty, Ask(sl, S), refused' = refused,
         GateKeeps(passed, passedAny, went, later, sl), NEW l \in Nat, NEW s \in RelaySlots,
         Climbing(sl[s]), Climbing(slots'[s]), Prompt(sl[s], passed, passedAny, went, later, l)
  PROVE  Served(slots'[s], passed', passedAny', went', later, l)
<1> DEFINE f == sl[s]
           g == slots'[s]
           t == f.target
<1>1. Climbing(f) /\ Climbing(g) /\ Prompt(f, passed, passedAny, went, later, l) /\ Armed(f, l)
  BY DEF Prompt
<1>2. \/ UNCHANGED <<passed, passedAny, went>> /\ \A r \in Due(sl) : ~Allowed(sl[r].target)
      \/ \E u \in Targets : Passes(u)
  BY AskIs
<1>3. \/ g = f /\ \A r \in Due(sl) : sl[r].target # t
      \/ g = Climb(f, went'[t])
  BY AskIs
<1>4. /\ Late(f) \in Int /\ AskAt[f.asks] \in Nat /\ f.age \in Nat /\ t \in Targets
      /\ Late(f) <= f.age - AskAt[f.asks] /\ Late(f) <= f.age
      /\ Late(f) >= 0 => f.age >= AskAt[f.asks]
  <2> HIDE DEF f
  <2> QED  BY <1>1, LateIs
<1>5. Late(f) >= 0 => s \in Due(sl)
  <2>1. f # Empty /\ f.age < GiveUp /\ f.asks <= Retries
    BY <1>1, EmptyIs DEF Climbing
  <2> QED  BY <1>4, <2>1 DEF Due
<1>6. went'[t] \in SUBSET Nat /\ went[t] \in SUBSET Nat
  <2>1. went \in [Targets -> SUBSET Nat]
    BY Ages DEF GateOK
  <2> QED  BY <1>2, <1>4, <2>1 DEF Passes
<1>7. GatePass(passed) /\ passed[t] \in Nat /\ passedAny \in Nat /\ MinInterval \in Nat /\ GlobalMin \in Nat /\ GlobalMin > 0
  BY <1>4, HeldConstants DEF GateOK, GatePass
<1>8. GateKeeps(passed, passedAny, went, later, sl)
  OBVIOUS
<1>9. s \in RelaySlots /\ f = sl[s] /\ f.target = t /\ f # Empty
  BY <1>1, EmptyIs DEF Climbing
<1>10. f.age >= passed[t] => CountsIn(sl, t, passed[t])
  BY <1>9 DEF CountsIn
<1> HIDE DEF f, g, t
<1>11. CASE Late(f) < 0
  <2>1. ~(\E a \in went'[t] : a <= Late(f))
    BY <1>4, <1>6, <1>11
  <2>2. g = f
    BY <1>1, <1>3, <1>6, <2>1, ClimbIs
  <2>3. ~Went(f, went')
    BY <1>9, <2>1 DEF Went
  <2>4. Late(f) + l < GlobalMin
    BY <1>1, <1>4, <1>7, <1>11 DEF Armed
  <2> QED  BY <1>1, <2>2, <2>3, <2>4 DEF Served, g
<1>12. CASE ~(Late(f) < 0) /\ Went(f, went')
  <2>1. s \in Due(sl) /\ l <= GlobalMin
    BY <1>1, <1>4, <1>5, <1>7, <1>12 DEF Armed
  <2>2. \E a \in went'[t] : a <= Late(f)
    BY <1>9, <1>12 DEF Went
  <2>3. g = Climb(f, went'[t])
    BY <1>3, <1>9, <2>1
  <2> DEFINE m == Min(went'[t])
  <2>4. /\ m \in went'[t] /\ m <= Late(f) /\ g.target = t
        /\ Late(g) < m /\ g.age - AskAt[g.asks] <= f.age - AskAt[f.asks]
        /\ ~(\E a \in went'[t] : a <= Late(g))
    BY <1>1, <1>6, <1>9, <2>2, <2>3, ClimbIs
  <2> HIDE DEF m
  <2>5. ~Went(g, went')
    BY <2>4 DEF Went
  <2>6. Late(g) \in Int /\ AskAt[g.asks] \in Nat /\ g.age \in Nat /\ m \in Nat
    BY <1>1, <1>6, <2>4, LateIs
  <2>7. m + l <= GlobalMin
    <3>1. CASE m \in went[t]
      <4>1. Went(f, went)
        BY <1>9, <2>4, <3>1 DEF Went
      <4>2. WentInTime(f, went, l)
        BY <1>1, <4>1 DEF Prompt
      <4> QED  BY <1>9, <2>4, <3>1, <4>2 DEF WentInTime
    <3>2. CASE m \notin went[t]
      <4>1. m = 0
        BY <1>2, <1>4, <2>4, <3>2 DEF Passes, GateOK
      <4> QED  BY <2>1, <4>1
    <3> QED  BY <3>1, <3>2
  <2>8. Late(g) + l < GlobalMin
    BY <1>7, <2>4, <2>6, <2>7
  <2>9. Armed(g, l)
    BY <2>1 DEF Armed
  <2> QED  BY <2>5, <2>8, <2>9 DEF Served, g
<1>13. CASE ~(Late(f) < 0) /\ ~Went(f, went')
  <2>1. s \in Due(sl) /\ l <= GlobalMin /\ Late(f) >= 0
    BY <1>1, <1>4, <1>5, <1>7, <1>13 DEF Armed
  <2>2. ~(\E a \in went'[t] : a <= Late(f))
    BY <1>9, <1>13 DEF Went
  <2>3. g = f
    BY <1>1, <1>3, <1>6, <2>2, ClimbIs
  <2>4. \A u \in Targets : Passes(u) => u # t
    <3>1. ASSUME Passes(t)  PROVE FALSE
      <4>1. 0 \in went'[t]
        BY <1>4, <3>1 DEF Passes, GateOK
      <4> QED  BY <2>1, <2>2, <4>1
    <3> QED  BY <3>1
  <2>5. went'[t] = went[t] /\ ~Went(f, went)
    <3>1. went'[t] = went[t]
      BY <1>2, <1>4, <2>4 DEF Passes, GateOK
    <3> QED  BY <1>9, <2>2, <3>1 DEF Went
  <2>6. CASE later = t
    <3>1. QueuedInTime(f, l)
      BY <1>1, <1>9, <2>1, <2>5, <2>6 DEF Prompt, Queueing
    <3> QED  BY <1>1, <1>9, <1>13, <2>1, <2>3, <2>6, <3>1 DEF Served, g
  <2>7. CASE later # t
    <3>1. Waits(f, passed, passedAny, l)
      BY <1>1, <1>9, <2>5, <2>7 DEF Prompt, Queueing
    <3>2. Waits(f, passed', passedAny', l) /\ (l = 0 => Outrun(f, passed', 0, 1))
      <4>1. CASE \E u \in Targets : Passes(u)
        <5>1. PICK u \in Targets : Passes(u)
          BY <4>1
        <5>2. u \in Targets \ {f.target} /\ passed[u] >= MinInterval /\ Outrun(f, passed, l, 0)
          BY <1>9, <2>4, <3>1, <5>1 DEF Passes, Allowed, Waits
        <5>3. LET r == [passed EXCEPT ![u] = 0] IN Waits(f, r, 0, l) /\ (l < GlobalMin => Outrun(f, r, l, 1))
          BY <1>1, <1>7, <2>1, <5>2, OtherPasses
        <5> QED  BY <1>7, <5>1, <5>3 DEF Passes
      <4>2. CASE UNCHANGED <<passed, passedAny, went>> /\ ~Allowed(t)
        <5>1. ASSUME l = 0  PROVE Outrun(f, passed, 0, 1)
          <6>1. CASE passedAny < GlobalMin
            BY <1>7, <3>1, <5>1, <6>1 DEF Waits
          <6>2. CASE ~(passedAny < GlobalMin)
            <7>1. passed[t] < MinInterval
              BY <1>7, <4>2, <6>2 DEF Allowed
            <7>2. Late(f) < passed[t]
              <8>1. CASE passed[t] = 0 \/ f.age >= passed[t]
                <9>1. passed[t] \in went[t]
                  BY <1>4, <1>8, <1>10, <2>7, <7>1, <8>1 DEF GateKeeps
                <9> QED  BY <1>4, <1>7, <2>2, <2>5, <9>1
              <8>2. CASE ~(f.age >= passed[t])
                BY <1>4, <1>7, <8>2
              <8> QED  BY <8>1, <8>2
            <7>3. Behind(f, 0) < 0
              BY <1>4, <1>7, <7>1, <7>2 DEF Behind
            <7> QED  BY <7>3 DEF Outrun
          <6> QED  BY <6>1, <6>2
        <5> QED  BY <3>1, <4>2, <5>1
      <4> QED  BY <1>2, <1>9, <2>1, <4>1, <4>2
    <3> QED  BY <1>1, <1>9, <1>13, <2>1, <2>3, <2>7, <3>2 DEF Served, g
  <2> QED  BY <2>6, <2>7
<1> QED  BY <1>11, <1>12, <1>13

\* A frame that has just come.
LEMMA NewAsked ==
  ASSUME NEW sl, Filled(sl), GateOK, NEW S \in SUBSET Slots, \A r \in S : sl[r] # Empty, Ask(sl, S), refused' = refused,
         NEW s \in RelaySlots, Climbing(sl[s]), Climbing(slots'[s]), Late(sl[s]) = 0
  PROVE  ~Went(slots'[s], went') /\ Late(slots'[s]) <= 0
<1> DEFINE f == sl[s]
           g == slots'[s]
           t == f.target
<1>1. Climbing(f) /\ Climbing(g) /\ t \in Targets
  BY LateIs
<1>2. s \in Due(sl)
  <2>1. f # Empty /\ f.age < GiveUp /\ f.asks <= Retries /\ f.age >= AskAt[f.asks]
    BY <1>1, EmptyIs, LateIs DEF Climbing
  <2> QED  BY <2>1 DEF Due
<1>3. g = Climb(f, went'[t])
  BY <1>2, AskIs
<1>4. went'[t] \in SUBSET Nat
  <2>1. went \in [Targets -> SUBSET Nat]
    BY Ages DEF GateOK
  <2>2. UNCHANGED went \/ \E u \in Targets : Passes(u)
    BY AskIs
  <2> QED  BY <1>1, <2>1, <2>2 DEF Passes
<1>5. Late(f) = 0 /\ f.target = t
  OBVIOUS
<1> HIDE DEF f, g, t
<1>6. CASE ~(\E a \in went'[t] : a <= Late(f))
  <2>1. g = f
    BY <1>1, <1>3, <1>4, <1>6, ClimbIs
  <2> QED  BY <1>5, <1>6, <2>1 DEF Went, g
<1>7. CASE \E a \in went'[t] : a <= Late(f)
  <2>1. /\ Min(went'[t]) \in went'[t] /\ Min(went'[t]) <= Late(f) /\ g.target = t
        /\ Late(g) < Min(went'[t]) /\ ~(\E a \in went'[t] : a <= Late(g))
    BY <1>1, <1>3, <1>4, <1>5, <1>7, ClimbIs
  <2>2. Late(g) \in Int
    BY <1>1, LateIs
  <2> QED  BY <1>4, <1>5, <2>1, <2>2 DEF Went, g
<1> QED  BY <1>6, <1>7

\* The gate keeps what it let pass, through a request ...
LEMMA GateAsked ==
  ASSUME NEW sl, Filled(sl), GateOK, NEW S \in SUBSET Slots, \A r \in S : sl[r] # Empty, Ask(sl, S), refused' = refused,
         GateKeeps(passed, passedAny, went, later, sl), Stay(sl, slots'), later' = later
  PROVE  GateKeeps(passed', passedAny', went', later', slots')
<1>1. \/ UNCHANGED <<passed, passedAny, went>>
      \/ \E u \in Targets : Passes(u)
  BY AskIs
<1>2. \A t, a : CountsIn(slots', t, a) => CountsIn(sl, t, a)
  BY SlotsAre DEF CountsIn, Stay, Alike
<1>3. later # NoTarget => passedAny' = 0 /\ passed'[later] = 0
  <2>1. CASE \E u \in Targets : Passes(u)
    <3>1. PICK u \in Targets : Passes(u)
      BY <2>1
    <3>2. later = NoTarget
      BY <3>1, HeldConstants DEF Passes, Allowed, GateKeeps
    <3> QED  BY <3>2
  <2> QED  BY <1>1, <2>1 DEF GateKeeps
<1>4. ASSUME NEW t \in Targets, passed'[t] < MinInterval, passed'[t] = 0 \/ CountsIn(slots', t, passed'[t])
      PROVE  passed'[t] \in went'[t] \/ later = t
  <2>1. CASE UNCHANGED <<passed, passedAny, went>>
    BY <1>2, <1>4, <2>1 DEF GateKeeps
  <2>2. CASE \E u \in Targets : Passes(u)
    <3>1. PICK u \in Targets : Passes(u)
      BY <2>2
    <3>2. passed'[u] = 0 /\ went'[u] = went[u] \cup {0} /\ \A v \in Targets : v # u => passed'[v] = passed[v] /\ went'[v] = went[v]
      BY <3>1 DEF Passes, GateOK
    <3>3. CASE t = u
      BY <3>2, <3>3
    <3>4. CASE t # u
      <4>1. passed[t] < MinInterval /\ (passed[t] = 0 \/ CountsIn(sl, t, passed[t]))
        BY <1>2, <1>4, <3>2, <3>4
      <4>2. passed[t] \in went[t] \/ later = t
        BY <4>1 DEF GateKeeps
      <4> QED  BY <3>2, <3>4, <4>2
    <3> QED  BY <3>3, <3>4
  <2> QED  BY <1>1, <2>1, <2>2
<1> QED  BY <1>3, <1>4 DEF GateKeeps

\* relay_arm_: the timer waits for the gate when a step is due, and else for no step.
LEMMA ArmServes ==
  ASSUME Filled(slots'), NEW left \in 0 .. Off, Arm(left), NEW s \in RelaySlots, Climbing(slots'[s])
  PROVE  LET g == slots'[s] IN
         /\ alarm' \in Nat /\ alarm' <= left /\ (left > 0 => alarm' > 0)
         /\ g.age >= AskAt[g.asks] => alarm' = IF GlobalMin <= left THEN GlobalMin ELSE left
         /\ Armed(g, alarm')
<1> DEFINE nexts == {NextOf(slots'[r]) : r \in {r \in RelaySlots : slots'[r] # Empty}}
           m     == Min(nexts)
           d     == IF m = 0 THEN GlobalMin ELSE m
           g     == slots'[s]
           a     == AskAt[g.asks] - g.age
<1>1. alarm' = IF nexts = {} THEN left ELSE Min({d, left})
  BY DEF Arm
<1>2. nexts \in SUBSET Nat
  <2>1. ASSUME NEW r \in RelaySlots, slots'[r] # Empty  PROVE NextOf(slots'[r]) \in Nat
    <3>1. slots'[r] \in Frame
      BY <2>1, SlotsAre, SlotIs DEF Filled
    <3> QED  BY <3>1, NextIs
  <2> QED  BY <2>1
<1>3. NextOf(g) \in nexts
  BY EmptyIs DEF Climbing
<1>4. left \in Nat /\ GlobalMin \in Nat /\ GlobalMin > 0
  BY Ages, HeldConstants
<1>5. g.age \in Nat /\ AskAt[g.asks] \in Nat /\ g.asks \in Nat /\ GiveUp \in Nat /\ g.age < GiveUp /\ g.asks <= Retries
  <2>1. g.asks \in Nat
    BY FrameIs DEF Climbing
  <2> QED  BY <2>1, LateIs, Ages DEF Climbing
<1> HIDE DEF nexts, g
<1>6. NextOf(g) = IF a <= 0 THEN 0 ELSE a
  <2>1. a \in Int /\ ~(g.age >= GiveUp) /\ ~(g.asks > Retries)
    BY <1>5, HeldConstants
  <2>2. NextOf(g) = Max({a, 0})
    BY <2>1 DEF NextOf
  <2> HIDE DEF a
  <2> QED  BY <2>1, <2>2, MaxOfTwo
<1>7. m \in nexts /\ \A y \in nexts : m <= y
  BY <1>2, <1>3, MinIsIn
<1>8. m \in Nat /\ m <= NextOf(g)
  BY <1>2, <1>3, <1>7
<1> HIDE DEF m
<1>9. d \in Nat /\ d > 0
  BY <1>4, <1>8
<1>10. alarm' = IF d <= left THEN d ELSE left
  <2> HIDE DEF d
  <2> QED  BY <1>1, <1>3, <1>4, <1>9, MinOfTwo
<1>11. alarm' \in Nat /\ alarm' <= left /\ alarm' <= d /\ (left > 0 => alarm' > 0)
  <2> HIDE DEF d
  <2> QED  BY <1>4, <1>9, <1>10
<1>12. ASSUME g.age >= AskAt[g.asks]  PROVE alarm' = IF GlobalMin <= left THEN GlobalMin ELSE left
  <2>1. NextOf(g) = 0
    BY <1>5, <1>6, <1>12
  <2>2. d = GlobalMin
    BY <1>8, <2>1
  <2> QED  BY <1>10, <2>2
<1>13. Armed(g, alarm')
  <2>1. CASE m = 0
    BY <1>11, <2>1 DEF Armed
  <2>2. CASE m # 0
    <3>1. NextOf(g) = a /\ a \in Nat
      BY <1>5, <1>6, <1>8, <2>2
    <3>2. alarm' <= a
      <4> HIDE DEF a
      <4> QED  BY <1>8, <1>11, <2>2, <3>1
    <3> QED  BY <1>5, <1>11, <3>2 DEF Armed
  <2> QED  BY <2>1, <2>2
<1> QED  BY <1>11, <1>12, <1>13 DEF g

\* A frame late by nothing is served, whatever its target waits for.
LEMMA Early ==
  ASSUME NEW g, Climbing(g), NEW p, NEW any \in Nat, NEW w, NEW q, NEW l \in Nat, ~Went(g, w), Armed(g, l),
         Behind(g, l) < 0 \/ (l = GlobalMin /\ Behind(g, l) < GlobalMin)
  PROVE  Prompt(g, p, any, w, q, l)
<1>1. Waits(g, p, any, l)
  BY NotBehind, BarelyBehind
<1>2. Late(g) \in Int /\ g.target \in Targets
  BY LateIs
<1>3. GlobalMin <= Cardinality(Targets) * GlobalMin
  <2>1. 1 <= Cardinality(Targets)
    <3> DEFINE n == Cardinality(Ahead(g.target, p, l, 0))
    <3>1. n \in Nat /\ n + 1 <= Cardinality(Targets)
      BY <1>2, AheadIs
    <3> HIDE DEF n
    <3> QED  BY <3>1, GateConstants
  <2> QED  BY <2>1, GateConstants, Times
<1>4. Behind(g, l) < Cardinality(Targets) * GlobalMin
  BY <1>2, <1>3, GateConstants DEF Behind
<1> QED  BY <1>1, <1>4 DEF Prompt, QueuedInTime

\* The timer stays set, ...
LEMMA AskedUnset ==
  ASSUME NEW g, Climbing(g), NEW p, NEW any \in Nat, NEW w, NEW q, NEW l \in Nat, Served(g, p, any, w, q, l)
  PROVE  Prompt(g, p, any, w, q, l)
<1>1. Late(g) \in Int
  BY LateIs
<1>2. CASE Late(g) + l < GlobalMin
  <2>1. Behind(g, l) < 0
    BY <1>1, <1>2, GateConstants DEF Behind
  <2> QED  BY <2>1, Early DEF Served
<1>3. CASE ~(Late(g) + l < GlobalMin)
  BY <1>3 DEF Served, Prompt, Queueing
<1> QED  BY <1>2, <1>3

\* ... or has fired, ...
LEMMA AskedTimer ==
  ASSUME NEW g, Climbing(g), NEW p, GatePass(p), NEW any \in Nat, NEW w, NEW q, Served(g, p, any, w, q, 0),
         NEW l \in Nat, Armed(g, l), g.age >= AskAt[g.asks] => l = GlobalMin
  PROVE  Prompt(g, p, any, w, q, l)
<1>1. Late(g) \in Int /\ g.age \in Nat /\ AskAt[g.asks] \in Nat /\ Late(g) <= g.age - AskAt[g.asks]
      /\ (Late(g) >= 0 => g.age >= AskAt[g.asks])
  BY LateIs
<1>2. ~Went(g, w)
  BY DEF Served
<1>3. CASE Late(g) < 0
  <2>1. Behind(g, l) < 0
    BY <1>1, <1>3, GateConstants DEF Behind, Armed
  <2> QED  BY <1>2, <2>1, Early
<1>4. CASE ~(Late(g) < 0)
  <2>1. l = GlobalMin /\ Behind(g, l) = Behind(g, 0) + GlobalMin /\ Behind(g, 0) \in Int
    BY <1>1, <1>4, GateConstants DEF Behind
  <2>2. CASE Late(g) + 0 < GlobalMin
    <3>1. Behind(g, l) < GlobalMin
      BY <1>1, <2>1, <2>2, GateConstants DEF Behind
    <3> QED  BY <1>2, <2>1, <3>1, Early
  <2>3. CASE q = g.target /\ QueuedInTime(g, 0)
    <3>1. Behind(g, l) < (Cardinality(Targets) + 1) * GlobalMin /\ l > 0
      <4>1. Behind(g, 0) < Cardinality(Targets) * GlobalMin
        BY <2>3 DEF QueuedInTime
      <4> QED  BY <2>1, <4>1, GateConstants
    <3> QED  BY <1>2, <1>4, <2>3, <3>1, <1>1 DEF Prompt, QueuedInTime, Queueing
  <2>4. CASE q # g.target /\ Outrun(g, p, 0, 1)
    <3>1. Waits(g, p, any, l)
      BY <2>1, <2>4, LookAgain
    <3> QED  BY <1>2, <2>4, <3>1 DEF Prompt, Queueing
  <2> QED  BY <2>2, <2>3, <2>4 DEF Served
<1> QED  BY <1>3, <1>4

\* ... or is set sooner.
LEMMA AskedSooner ==
  ASSUME NEW g, Climbing(g), NEW p, NEW any \in Nat, NEW w, NEW q, NEW l \in Nat, Served(g, p, any, w, q, l),
         NEW m \in Nat, m <= l, Armed(g, m),
         g.age >= AskAt[g.asks] => m = IF GlobalMin <= l THEN GlobalMin ELSE l
  PROVE  Prompt(g, p, any, w, q, m)
<1>1. Late(g) \in Int /\ g.age \in Nat /\ AskAt[g.asks] \in Nat /\ (Late(g) >= 0 => g.age >= AskAt[g.asks])
  BY LateIs
<1>2. ~Went(g, w) /\ Armed(g, l)
  BY DEF Served
<1>3. CASE Late(g) + l < GlobalMin
  <2>1. Behind(g, m) < 0
    BY <1>1, <1>3, GateConstants DEF Behind
  <2> QED  BY <1>2, <2>1, Early
<1>4. CASE ~(Late(g) + l < GlobalMin)
  <2>1. Late(g) >= 0
    BY <1>4 DEF Served
  <2>2. l <= GlobalMin
    BY <1>1, <1>2, <2>1, GateConstants DEF Armed
  <2>3. m = l
    BY <1>1, <2>1, <2>2, GateConstants
  <2> QED  BY <2>3, AskedUnset
<1> QED  BY <1>3, <1>4

\* A frame that has just come has time before it.
LEMMA NewPrompt ==
  ASSUME NEW g, Climbing(g), NEW p, NEW any \in Nat, NEW w, NEW q, ~Went(g, w), Late(g) <= 0,
         NEW l \in Nat, Armed(g, l)
  PROVE  Prompt(g, p, any, w, q, l)
<1>1. Late(g) \in Int /\ g.age \in Nat /\ AskAt[g.asks] \in Nat /\ Late(g) <= g.age - AskAt[g.asks]
  BY LateIs
<1>2. Behind(g, l) < 0 \/ (l = GlobalMin /\ Behind(g, l) < GlobalMin)
  BY <1>1, GateConstants DEF Behind, Armed
<1> QED  BY <1>2, Early

\* The timer is off while it is served, and until a request is refused every frame is served in time.
Timely ==
  /\ stage \in {"timer", "timing"} => alarm = Off
  /\ refused = 0 => /\ GateKeeps(passed, passedAny, went, later, slots)
                    /\ AllPrompt(slots, passed, passedAny, went, later, Left)

\* What was refused stays counted.
LEMMA NoMoreRefused == ASSUME KeptInv, [HeldNext]_heldvars, refused' = 0  PROVE refused = 0
<1>1. refused \in Nat
  BY HeldConstants DEF KeptInv, GateOK
<1>2. refused' = refused \/ refused' = refused + 1
  <2>1. ASSUME NEW sl, NEW S, Ask(sl, S)  PROVE refused' = refused \/ refused' = refused + 1
    <3>1. \A t : Sent(t) \/ Refused => refused' = refused \/ refused' = refused + 1
      BY DEF Sent, Refused
    <3> QED  BY <2>1, <3>1 DEF Ask, AskFirst
  <2> QED  BY <2>1 DEF HeldNext, heldvars, gate, LookUp, Refresh, HwmpRx, HoldRelayed, PathLost, TxPending,
                       ServiceTick, RelayTimer, Take, FlushAsk, TimerAsk, SendLater, Sent, Refused, Pass
<1> QED  BY <1>1, <1>2

\* Steps that leave the relayed frames, or take them, and do not ask.
LEMMA TimelyStill ==
  ASSUME Timely, refused' = refused, UNCHANGED <<passed, passedAny, went, later>>, Left' = Left,
         \A s \in RelaySlots : slots'[s] = slots[s] \/ slots'[s] = Empty,
         (stage \in {"timer", "timing"} => alarm = Off)'
  PROVE  Timely'
<1> SUFFICES ASSUME refused' = 0
             PROVE  /\ GateKeeps(passed, passedAny, went, later, slots')
                    /\ AllPrompt(slots', passed, passedAny, went, later, Left)
  BY DEF Timely
<1>1. GateKeeps(passed, passedAny, went, later, slots) /\ AllPrompt(slots, passed, passedAny, went, later, Left)
  BY DEF Timely
<1>2. \A t, a : CountsIn(slots', t, a) => CountsIn(slots, t, a)
  BY DEF CountsIn
<1>3. GateKeeps(passed, passedAny, went, later, slots')
  BY <1>1, <1>2 DEF GateKeeps
<1>4. \A s \in RelaySlots : Climbing(slots'[s]) => slots'[s] = slots[s]
  BY EmptyIs DEF Climbing
<1> QED  BY <1>1, <1>3, <1>4 DEF AllPrompt

LEMMA TimelyOther ==
  ASSUME KeptInv, Timely,
         \/ \E t \in Targets : HwmpRx(t) \/ PathLost(t)
         \/ TxPending \/ ServiceTick \/ RelayTimer \/ Take \/ UNCHANGED heldvars
  PROVE  Timely'
<1>1. refused' = refused /\ UNCHANGED <<passed, passedAny, went, later>>
  BY DEF HwmpRx, PathLost, TxPending, ServiceTick, RelayTimer, Take, heldvars, gate
<1>2. Left' = Left /\ (stage \in {"timer", "timing"} => alarm = Off)'
  BY DEF HwmpRx, PathLost, TxPending, ServiceTick, RelayTimer, Take, heldvars, Left, Timely
<1>3. \A s \in RelaySlots : slots'[s] = slots[s] \/ slots'[s] = Empty
  <2>1. CASE TxPending
    <3>1. fresh \in Targets /\ pushed \in Nat /\ (Hold(fresh) => pushed + 1 <= MaxSteps)
      BY <2>1 DEF TxPending, KeptInv, Rest, Counted
    <3>2. CASE Hold(fresh)
      <4> DEFINE f == Own(fresh)
                 g == [f EXCEPT !.n = pushed + 1]
      <4>1. g \in Frame /\ g.askAge <= g.age
        BY <3>1, <3>2, NewOwn
      <4>2. slots' = Pushed(OwnSlots, f)
        BY <2>1, <3>2 DEF TxPending
      <4> HIDE DEF f
      <4>3. g \in Frame /\ g.askAge <= g.age /\ g = [f EXCEPT !.n = pushed + 1]
        BY <4>1
      <4> HIDE DEF g
      <4>4. \E v \in OwnSlots : \A s \in Slots \ {v} : Pushed(OwnSlots, f)[s] = slots[s]
        <5>1. Filled(slots) /\ OwnSlots \in {OwnSlots, RelaySlots}
          BY DEF KeptInv
        <5> QED  BY <4>3, <5>1, PushIs
      <4> QED  BY <4>2, <4>4, SlotsAre
    <3>3. CASE ~Hold(fresh)
      BY <2>1, <3>3 DEF TxPending
    <3> QED  BY <3>2, <3>3
  <2>2. CASE Take
    BY <2>2, SlotsAre DEF Take
  <2>3. CASE \/ \E t \in Targets : HwmpRx(t) \/ PathLost(t)
             \/ ServiceTick \/ RelayTimer \/ UNCHANGED heldvars
    BY <2>3 DEF HwmpRx, PathLost, ServiceTick, RelayTimer, heldvars
  <2> QED  BY <2>1, <2>2, <2>3
<1> QED  BY <1>1, <1>2, <1>3, TimelyStill

\* maybe_preq_ off the loop: the request is queued.
LEMMA TimelyLater ==
  ASSUME KeptInv, Timely, NEW u \in Targets, LookUp(u) \/ Refresh(u)
  PROVE  Timely'
<1>1. AskLater(u) /\ UNCHANGED <<slots, went, refused>> /\ Left' = Left /\ UNCHANGED <<stage, alarm>>
  BY DEF LookUp, Refresh, Left
<1>2. CASE ~Allowed(u)
  <2>1. UNCHANGED <<passed, passedAny, later>>
    BY <1>1, <1>2 DEF AskLater
  <2> QED  BY <1>1, <2>1, TimelyStill DEF Timely
<1>3. CASE Allowed(u)
  <2> SUFFICES ASSUME refused' = 0
               PROVE  /\ GateKeeps(passed', passedAny', went, later', slots)
                      /\ AllPrompt(slots, passed', passedAny', went, later', Left)
    BY <1>1 DEF Timely
  <2>1. /\ GateKeeps(passed, passedAny, went, later, slots)
        /\ AllPrompt(slots, passed, passedAny, went, later, Left)
    BY <1>1 DEF Timely
  <2>2. passed' = [passed EXCEPT ![u] = 0] /\ passedAny' = 0 /\ later' = u
    BY <1>1, <1>3 DEF AskLater, Allow
  <2>3. GatePass(passed) /\ passedAny \in Nat /\ passed[u] >= MinInterval /\ passedAny >= GlobalMin
    BY <1>3, HeldConstants DEF KeptInv, GateOK, GatePass, Allowed
  <2>4. later = NoTarget
    BY <2>1, <2>3, GateConstants DEF GateKeeps
  <2>5. passed'[u] = 0 /\ \A t \in Targets : t # u => passed'[t] = passed[t]
    BY <2>2, <2>3 DEF GatePass
  <2>6. GateKeeps(passed', passedAny', went, later', slots)
    <3>1. \A t \in Targets : t # u => t # later
      BY <2>4, HeldConstants
    <3> QED  BY <2>1, <2>2, <2>5, <3>1 DEF GateKeeps
  <2>7. Left \in Nat
    BY Ages DEF Left, KeptInv, Rest
  <2>8. ASSUME NEW s \in RelaySlots, Climbing(slots[s])
        PROVE  Prompt(slots[s], passed', passedAny', went, later', Left)
    <3> DEFINE f == slots[s]
    <3>1. Climbing(f) /\ Prompt(f, passed, passedAny, went, later, Left)
      BY <2>1, <2>8 DEF AllPrompt
    <3> HIDE DEF f
    <3>2. f.target \in Targets /\ Late(f) \in Int /\ AskAt[f.asks] \in Nat /\ f.age \in Nat
          /\ Late(f) <= f.age - AskAt[f.asks] /\ later # f.target
      BY <2>4, <3>1, LateIs, HeldConstants
    <3>3. CASE Went(f, went)
      BY <3>1, <3>3 DEF Prompt, f
    <3>4. CASE ~Went(f, went)
      <4>1. Waits(f, passed, passedAny, Left) /\ Outrun(f, passed, Left, 0) /\ Armed(f, Left)
        BY <3>1, <3>2, <3>4 DEF Prompt, Queueing, Waits
      <4>2. Left <= GlobalMin \/ Behind(f, Left) < 0
        BY <2>7, <3>2, <4>1, GateConstants DEF Armed, Behind
      <4>3. CASE u = f.target /\ Late(f) >= 0
        <5>1. QueuedInTime(f, Left)
          BY <2>7, <3>1, <4>1, OutrunBound DEF QueuedInTime
        <5> QED  BY <2>2, <3>4, <4>1, <4>3, <5>1 DEF Prompt, Queueing, f
      <4>4. CASE u = f.target /\ Late(f) < 0
        <5>1. Behind(f, Left) < 0
          BY <2>7, <3>2, <4>1, <4>4, GateConstants DEF Armed, Behind
        <5>2. 0 \in Nat
          OBVIOUS
        <5> QED  BY <2>2, <2>7, <3>1, <3>4, <4>1, <5>1, <5>2, Early DEF f
      <4>5. CASE u # f.target
        <5>1. u \in Targets \ {f.target}
          BY <4>5
        <5>2. Waits(f, [passed EXCEPT ![u] = 0], 0, Left)
          BY <2>3, <2>7, <3>1, <4>1, <4>2, <5>1, OtherPasses
        <5> QED  BY <2>2, <3>4, <4>1, <4>5, <5>2 DEF Prompt, Queueing, f
      <4> QED  BY <3>2, <4>3, <4>4, <4>5
    <3> QED  BY <3>3, <3>4 DEF f
  <2> QED  BY <2>6, <2>8 DEF AllPrompt
<1> QED  BY <1>2, <1>3

\* umac_mesh_fwd_glue_deferred_sent
LEMMA TimelySent == ASSUME KeptInv, Timely, SendLater  PROVE Timely'
<1>1. /\ later # NoTarget /\ later' = NoTarget /\ (Sent(later) \/ Refused) /\ Left' = Left
      /\ UNCHANGED <<slots, passed, passedAny, stage, alarm>>
  BY DEF SendLater, Left
<1> SUFFICES ASSUME refused' = 0
             PROVE  /\ GateKeeps(passed, passedAny, went', later', slots)
                    /\ AllPrompt(slots, passed, passedAny, went', later', Left)
  BY <1>1 DEF Timely
<1>2. refused = 0
  <2>1. SendLater => [HeldNext]_heldvars
    BY DEF HeldNext
  <2> QED  BY <2>1, NoMoreRefused
<1>3. GateKeeps(passed, passedAny, went, later, slots) /\ AllPrompt(slots, passed, passedAny, went, later, Left)
  BY <1>2 DEF Timely
<1>4. Sent(later) /\ later \in Targets
  BY <1>1, <1>2 DEF Refused, KeptInv, Rest
<1>5. went'[later] = went[later] \cup {0} /\ \A t \in Targets : t # later => went'[t] = went[t]
  BY <1>4 DEF Sent, KeptInv, GateOK
<1>6. GateKeeps(passed, passedAny, went', later', slots)
  <2>1. passed[later] = 0
    BY <1>1, <1>3 DEF GateKeeps
  <2> QED  BY <1>1, <1>3, <1>5, <2>1 DEF GateKeeps
<1>7. Left \in Nat
  BY Ages DEF Left, KeptInv, Rest
<1>8. ASSUME NEW s \in RelaySlots, Climbing(slots[s])
      PROVE  Prompt(slots[s], passed, passedAny, went', later', Left)
  <2> DEFINE f == slots[s]
  <2>1. Climbing(f) /\ Prompt(f, passed, passedAny, went, later, Left)
    BY <1>3, <1>8 DEF AllPrompt
  <2> HIDE DEF f
  <2>2. /\ f.target \in Targets /\ Late(f) \in Int /\ AskAt[f.asks] \in Nat /\ f.age \in Nat
        /\ Late(f) <= f.age - AskAt[f.asks] /\ later' # f.target
    BY <1>1, <2>1, LateIs, HeldConstants
  <2>3. CASE f.target # later
    <3>1. Went(f, went') <=> Went(f, went)
      BY <1>5, <2>2, <2>3 DEF Went
    <3>2. WentInTime(f, went, Left) => WentInTime(f, went', Left)
      BY <1>5, <2>2, <2>3 DEF WentInTime
    <3> QED  BY <2>1, <2>2, <2>3, <3>1, <3>2 DEF Prompt, Queueing, f
  <2>4. CASE f.target = later /\ Late(f) < 0
    <3>1. ~Went(f, went') /\ ~Went(f, went)
      <4>1. went[later] \in SUBSET Nat
        BY <1>4, Ages DEF KeptInv, GateOK
      <4> QED  BY <1>5, <2>2, <2>4, <4>1 DEF Went
    <3>2. Behind(f, Left) < 0
      BY <1>7, <2>1, <2>2, <2>4, GateConstants DEF Prompt, Armed, Behind
    <3>3. passedAny \in Nat
      BY HeldConstants DEF KeptInv, GateOK
    <3> QED  BY <1>7, <2>1, <3>1, <3>2, <3>3, Early DEF Prompt, f
  <2>5. CASE f.target = later /\ Late(f) >= 0
    <3>1. Left <= GlobalMin /\ Armed(f, Left)
      BY <1>7, <2>1, <2>2, <2>5, GateConstants DEF Prompt, Armed
    <3>2. Behind(f, Left) < (Cardinality(Targets) + 1) * GlobalMin
      <4>1. CASE Went(f, went)
        BY <2>1, <4>1 DEF Prompt, WentInTime
      <4>2. CASE ~Went(f, went)
        <5>1. QueuedInTime(f, Left)
          BY <2>1, <2>5, <4>2 DEF Prompt, Queueing
        <5>2. Behind(f, Left) \in Int
          BY <1>7, <2>2, GateConstants DEF Behind
        <5> QED  BY <5>1, <5>2, GateConstants DEF QueuedInTime
      <4> QED  BY <4>1, <4>2
    <3>3. \A a \in went'[f.target] : a <= Late(f) => a + Left <= GlobalMin
      <4>1. \A a \in went[f.target] : a <= Late(f) => a + Left <= GlobalMin
        BY <2>1 DEF Prompt, Went, WentInTime
      <4>2. 0 + Left <= GlobalMin
        BY <1>7, <3>1
      <4> QED  BY <1>5, <2>5, <4>1, <4>2
    <3>4. Went(f, went')
      <4>1. 0 \in went'[f.target]
        BY <1>5, <2>5
      <4> QED  BY <2>5, <4>1 DEF Went
    <3> QED  BY <3>1, <3>2, <3>3, <3>4 DEF Prompt, WentInTime, f
  <2> QED  BY <2>2, <2>3, <2>4, <2>5 DEF f
<1> QED  BY <1>6, <1>8 DEF AllPrompt

\* A request ends a ladder and starts none.
LEMMA StillClimbing ==
  ASSUME NEW sl, Filled(sl), GateOK, NEW S \in SUBSET Slots, \A r \in S : sl[r] # Empty, Ask(sl, S), refused' = refused,
         Stay(sl, slots'), NEW s \in RelaySlots, Climbing(slots'[s])
  PROVE  Climbing(sl[s])
<1> DEFINE f == sl[s]
           g == slots'[s]
<1>1. g \in Frame /\ g.age < GiveUp /\ g.asks <= Retries
  BY DEF Climbing
<1>2. g # Empty /\ s \in Slots
  BY <1>1, EmptyIs, SlotsAre
<1>3. f # Empty /\ f.age = g.age
  BY <1>2 DEF Stay, Alike
<1>4. f \in Frame
  BY <1>2, <1>3, SlotIs DEF Filled
<1>5. g = f \/ g = [f EXCEPT !.asks = @ + 1, !.askAge = Min(went'[f.target])]
  <2>1. g = f \/ g = Climb(f, went'[f.target])
    BY AskIs
  <2> QED  BY <2>1 DEF Climb
<1>6. f.asks \in Nat
  BY <1>4, FrameIs
<1> HIDE DEF f, g
<1>7. f.asks <= Retries
  <2>1. CASE g = f
    BY <1>1, <2>1
  <2>2. CASE g = [f EXCEPT !.asks = @ + 1, !.askAge = Min(went'[f.target])]
    <3>1. g.asks = f.asks + 1
      BY <1>4, <2>2 DEF Frame
    <3> QED  BY <1>1, <1>6, <3>1, HeldConstants
  <2> QED  BY <1>5, <2>1, <2>2
<1>8. Climbing(f)
  BY <1>1, <1>3, <1>4, <1>7 DEF Climbing
<1> QED  BY <1>8 DEF f

\* flush_pending_ and relay_timer_
LEMMA TimelyAsk == ASSUME KeptInv, Timely, FlushAsk \/ TimerAsk  PROVE Timely'
<1>1. PICK S \in SUBSET Slots : (\A r \in S : slots[r] # Empty) /\ Ask(slots, S)
  <2>1. Waiting(slots) \in SUBSET Slots /\ \A r \in Waiting(slots) : slots[r] # Empty
    BY SlotsAre DEF Waiting
  <2>2. {} \in SUBSET Slots /\ \A r \in {} : slots[r] # Empty
    OBVIOUS
  <2> QED  BY <2>1, <2>2 DEF FlushAsk, TimerAsk
<1>2. stage' = "idle" /\ later' = later /\ Left' = alarm'
  BY DEF FlushAsk, TimerAsk, Left
<1> SUFFICES ASSUME refused' = 0
             PROVE  /\ GateKeeps(passed', passedAny', went', later', slots')
                    /\ AllPrompt(slots', passed', passedAny', went', later', alarm')
  BY <1>2 DEF Timely
<1>3. refused = 0
  <2>1. [HeldNext]_heldvars
    BY DEF HeldNext
  <2> QED  BY <2>1, NoMoreRefused
<1>4. GateKeeps(passed, passedAny, went, later, slots) /\ AllPrompt(slots, passed, passedAny, went, later, Left)
  BY <1>3 DEF Timely
<1>5. Filled(slots) /\ GateOK /\ AllPaid(slots, went) /\ refused' = refused
  BY <1>3 DEF KeptInv
<1>6. GateOK' /\ Filled(slots') /\ Stay(slots, slots')
  BY <1>1, <1>5, AskedFor
<1>7. GateKeeps(passed', passedAny', went', later', slots')
  <2>1. GateKeeps(passed', passedAny', went', later', slots')
    BY <1>1, <1>2, <1>4, <1>5, <1>6, GateAsked
  <2> QED  BY <2>1
<1>8. Left \in Nat /\ alarm \in 0 .. Off /\ GatePass(passed') /\ passedAny' \in Nat
  BY <1>6, Ages, HeldConstants DEF Left, KeptInv, Rest, GateOK, GatePass
<1>9. ASSUME NEW s \in RelaySlots, Climbing(slots'[s])
      PROVE  Prompt(slots'[s], passed', passedAny', went', later', alarm')
  <2> DEFINE g == slots'[s]
  <2>1. Climbing(slots[s]) /\ Prompt(slots[s], passed, passedAny, went, later, Left)
    <3>1. Climbing(slots[s])
      BY <1>1, <1>5, <1>6, <1>9, StillClimbing
    <3> QED  BY <1>4, <3>1 DEF AllPrompt
  <2>2. Served(g, passed', passedAny', went', later, Left)
    BY <1>1, <1>4, <1>5, <1>8, <1>9, <2>1, FrameAsked
  <2>3. CASE FlushAsk
    <3>1. Left = alarm /\ alarm' = alarm
      BY <2>3 DEF FlushAsk, Left
    <3>2. Climbing(g)
      BY <1>9
    <3> HIDE DEF g
    <3>3. Prompt(g, passed', passedAny', went', later, Left)
      BY <1>8, <2>2, <3>2, AskedUnset
    <3> QED  BY <1>2, <3>1, <3>3 DEF g
  <2>4. CASE TimerAsk
    <3>1. Left = 0 /\ alarm = Off /\ Arm(alarm)
      BY <2>4 DEF TimerAsk, Left, Timely
    <3>2. GlobalMin <= Off
      BY Ages, AskAtIs, HeldConstants
    <3>3. alarm' \in Nat /\ Armed(g, alarm') /\ (g.age >= AskAt[g.asks] => alarm' = GlobalMin)
      BY <1>6, <1>8, <1>9, <3>1, <3>2, ArmServes
    <3>4. Climbing(g)
      BY <1>9
    <3> HIDE DEF g
    <3>5. Prompt(g, passed', passedAny', went', later, alarm')
      BY <1>8, <2>2, <3>1, <3>3, <3>4, AskedTimer
    <3> QED  BY <1>2, <3>5 DEF g
  <2> QED  BY <2>3, <2>4
<1> QED  BY <1>7, <1>9 DEF AllPrompt

\* hold_relayed_
LEMMA TimelyRelayed == ASSUME KeptInv, Timely, NEW t \in Targets, HoldRelayed(t)  PROVE Timely'
<1> DEFINE f == Relayed(t)
           g == [f EXCEPT !.n = pushed + 1]
           sl == Pushed(RelaySlots, f)
<1>1. /\ stage = "idle" /\ stage' = "idle" /\ Room /\ Ask(sl, {}) /\ Arm(alarm) /\ later' = later
      /\ Left = alarm /\ Left' = alarm'
  BY DEF HoldRelayed, Left
<1>2. pushed \in Nat /\ pushed + 1 <= MaxSteps
  BY <1>1, HeldConstants DEF Room, KeptInv, GateOK, Counted
<1>3. Joins(g, t)
  BY <1>2, NewRelayed DEF KeptInv
<1> HIDE DEF f
<1>4. Filled(sl) /\ \E v \in RelaySlots : sl[v] = g /\ \A s \in Slots \ {v} : sl[s] = slots[s]
  BY <1>3, PushIs DEF KeptInv, Joins
<1> HIDE DEF sl, g
<1>5. PICK v \in RelaySlots : sl[v] = g /\ \A s \in Slots \ {v} : sl[s] = slots[s]
  BY <1>4
<1>6. \A s \in RelaySlots : s # v => sl[s] = slots[s]
  BY <1>5, SlotsAre
<1>7. AllPaid(sl, went)
  BY <1>3, <1>5, <1>6 DEF KeptInv, AllPaid, Joins
<1>8. GateOK /\ GateOK' /\ Filled(slots') /\ Stay(sl, slots')
  BY <1>1, <1>4, <1>7, AskedFor DEF KeptInv
<1> SUFFICES ASSUME refused' = 0
             PROVE  /\ GateKeeps(passed', passedAny', went', later', slots')
                    /\ AllPrompt(slots', passed', passedAny', went', later', alarm')
  BY <1>1 DEF Timely
<1>9. refused = 0 /\ refused' = refused
  <2>1. [HeldNext]_heldvars
    BY DEF HeldNext
  <2> QED  BY <2>1, NoMoreRefused
<1>10. GateKeeps(passed, passedAny, went, later, slots) /\ AllPrompt(slots, passed, passedAny, went, later, alarm)
  BY <1>1, <1>9 DEF Timely
<1>11. \/ g.age = 0 /\ g.asks = 0
       \/ \E r \in RelaySlots : /\ slots[r] # Empty /\ slots[r].target = t /\ slots[r].age < GiveUp
                                /\ g.age = slots[r].age /\ g.asks = slots[r].asks /\ g.askAge = slots[r].askAge
  BY <1>3, SlotsAre DEF Joins, LiveFor, Live, LifeOf, InUse
<1>12. g \in Frame /\ g.target = t
  BY <1>3 DEF Joins
<1>13. GateKeeps(passed, passedAny, went, later, sl)
  <2>1. ASSUME NEW u \in Targets, CountsIn(sl, u, passed[u])  PROVE passed[u] = 0 \/ CountsIn(slots, u, passed[u])
    <3>1. PICK s \in RelaySlots : sl[s] # Empty /\ sl[s].target = u /\ sl[s].age >= passed[u]
      BY <2>1 DEF CountsIn
    <3>2. CASE s # v
      BY <1>6, <3>1, <3>2 DEF CountsIn
    <3>3. CASE s = v
      <4>1. passed[u] \in Nat
        BY HeldConstants, <1>8 DEF GateOK
      <4>2. CASE g.age = 0
        BY <1>5, <3>1, <3>3, <4>1, <4>2
      <4>3. CASE \E r \in RelaySlots : slots[r] # Empty /\ slots[r].target = t /\ g.age = slots[r].age
        BY <1>5, <1>12, <3>1, <3>3, <4>3 DEF CountsIn
      <4> QED  BY <1>11, <4>2, <4>3
    <3> QED  BY <3>2, <3>3
  <2> QED  BY <1>10, <2>1 DEF GateKeeps
<1>14. {} \in SUBSET Slots /\ \A r \in {} : sl[r] # Empty
  OBVIOUS
<1>15. GateKeeps(passed', passedAny', went', later', slots')
  BY <1>1, <1>4, <1>8, <1>9, <1>13, <1>14, GateAsked
<1>16. alarm \in 0 .. Off /\ alarm \in Nat /\ GatePass(passed') /\ passedAny' \in Nat
  BY <1>8, Ages, HeldConstants DEF KeptInv, Rest, GateOK, GatePass
<1>17. ASSUME NEW s \in RelaySlots, Climbing(sl[s])
       PROVE  Late(sl[s]) = 0 \/ Prompt(sl[s], passed, passedAny, went, later, alarm)
  <2>1. CASE s # v
    <3>1. sl[s] = slots[s]
      BY <1>6, <2>1
    <3> QED  BY <1>10, <1>17, <3>1 DEF AllPrompt
  <2>2. CASE s = v /\ g.age = 0 /\ g.asks = 0
    <3>1. Late(g) = 0
      BY <2>2, AskAtIs DEF Late
    <3> QED  BY <1>5, <2>2, <3>1
  <2>3. CASE s = v /\ ~(g.age = 0 /\ g.asks = 0)
    <3>1. PICK r \in RelaySlots : /\ slots[r] # Empty /\ slots[r].target = t /\ slots[r].age < GiveUp
                                  /\ g.age = slots[r].age /\ g.asks = slots[r].asks /\ g.askAge = slots[r].askAge
      BY <1>11, <2>3
    <3> DEFINE h == slots[r]
    <3>2. h \in Frame
      BY <3>1, SlotsAre, SlotIs DEF KeptInv, Filled
    <3>3. g.asks <= Retries
      BY <1>5, <1>17, <2>3 DEF Climbing
    <3>4. Climbing(h)
      BY <3>1, <3>2, <3>3 DEF Climbing
    <3>5. Prompt(h, passed, passedAny, went, later, alarm)
      BY <1>10, <3>4 DEF AllPrompt
    <3>6. h.age = g.age /\ h.asks = g.asks /\ h.askAge = g.askAge /\ h.target = g.target
      BY <1>12, <3>1
    <3> HIDE DEF h
    <3>7. Late(g) = Late(h)
      BY <3>6 DEF Late
    <3>8. Prompt(g, passed, passedAny, went, later, alarm)
      BY <3>5, <3>6, <3>7 DEF Prompt, Armed, Went, WentInTime, Queueing, QueuedInTime, Waits, Outrun, Behind
    <3> QED  BY <1>5, <2>3, <3>8
  <2> QED  BY <2>1, <2>2, <2>3
<1>18. ASSUME NEW s \in RelaySlots, Climbing(slots'[s])
       PROVE  Prompt(slots'[s], passed', passedAny', went', later', alarm')
  <2> DEFINE h == slots'[s]
  <2>1. Climbing(sl[s])
    BY <1>1, <1>4, <1>8, <1>9, <1>14, <1>18, StillClimbing
  <2>2. /\ alarm' \in Nat /\ alarm' <= alarm /\ Armed(h, alarm')
        /\ h.age >= AskAt[h.asks] => alarm' = IF GlobalMin <= alarm THEN GlobalMin ELSE alarm
    BY <1>1, <1>8, <1>16, <1>18, ArmServes
  <2>3. CASE Late(sl[s]) = 0
    <3>1. ~Went(h, went') /\ Late(h) <= 0
      BY <1>1, <1>4, <1>8, <1>9, <1>14, <1>18, <2>1, <2>3, NewAsked
    <3>2. Climbing(h)
      BY <1>18
    <3> HIDE DEF h
    <3>3. Prompt(h, passed', passedAny', went', later', alarm')
      BY <1>16, <2>2, <3>1, <3>2, NewPrompt
    <3> QED  BY <3>3 DEF h
  <2>4. CASE Prompt(sl[s], passed, passedAny, went, later, alarm)
    <3>1. Served(h, passed', passedAny', went', later, alarm)
      BY <1>1, <1>4, <1>8, <1>9, <1>13, <1>14, <1>16, <1>18, <2>1, <2>4, FrameAsked
    <3>2. Climbing(h)
      BY <1>18
    <3> HIDE DEF h
    <3>3. Prompt(h, passed', passedAny', went', later, alarm')
      BY <1>16, <2>2, <3>1, <3>2, AskedSooner
    <3> QED  BY <1>1, <3>3 DEF h
  <2> QED  BY <1>17, <2>1, <2>3, <2>4
<1> QED  BY <1>15, <1>18 DEF AllPrompt

\* A step of the clock: every frame is late by one more, and the timer nearer by one.
LEMMA TimelyPass == ASSUME KeptInv, Timely, Pass  PROVE Timely'
<1>1. /\ stage = "idle" /\ stage' = "idle" /\ later = NoTarget /\ later' = NoTarget /\ refused' = refused /\ alarm > 0
      /\ passed' = [t \in Targets |-> Up(passed[t], MinInterval)] /\ passedAny' = Up(passedAny, GlobalMin)
      /\ went' = [t \in Targets |-> {a + 1 : a \in {b \in went[t] : Counts(t, b)}}]
      /\ alarm' = (IF alarm = Off THEN Off ELSE alarm - 1) /\ Left = alarm /\ Left' = alarm'
      /\ slots' = [s \in Slots |-> IF InUse(s)
                                   THEN [slots[s] EXCEPT !.age = Up(@, Old), !.askAge = Up(@, Old)]
                                   ELSE Empty]
  BY DEF Pass, Left
<1> SUFFICES ASSUME refused = 0
             PROVE  /\ GateKeeps(passed', passedAny', went', later', slots')
                    /\ AllPrompt(slots', passed', passedAny', went', later', alarm')
  BY <1>1 DEF Timely
<1>2. GateKeeps(passed, passedAny, went, later, slots) /\ AllPrompt(slots, passed, passedAny, went, later, alarm)
  BY <1>1 DEF Timely
<1>3. /\ GatePass(passed) /\ \A t \in Targets : passed[t] \in Nat /\ went[t] \in SUBSET Nat
      /\ passedAny \in 0 .. GlobalMin /\ alarm \in Nat /\ alarm <= Off
  BY Ages, HeldConstants DEF KeptInv, Rest, GateOK, GatePass
<1>4. \A s \in Slots : slots'[s] # Empty => slots[s] # Empty
  BY <1>1 DEF InUse
<1>5. ASSUME NEW t \in Targets, NEW a \in went[t]
      PROVE  (CountsIn(slots, t, a) => a + 1 \in went'[t])
  BY <1>1, <1>5 DEF CountsIn, Counts, InUse
<1>6. GateKeeps(passed', passedAny', went', later', slots')
  <2>1. ASSUME NEW t \in Targets, passed'[t] < MinInterval, passed'[t] = 0 \/ CountsIn(slots', t, passed'[t])
        PROVE  passed'[t] \in went'[t]
    <3>1. passed[t] < MinInterval /\ passed'[t] = passed[t] + 1
      <4>1. passed'[t] = Up(passed[t], MinInterval) /\ passed[t] \in 0 .. MinInterval
        BY <1>1, <1>3 DEF GatePass
      <4>2. passed[t] # MinInterval
        <5>1. Up(MinInterval, MinInterval) = MinInterval
          BY HeldConstants, MinOfTwo DEF Up
        <5> QED  BY <2>1, <4>1, <5>1, HeldConstants
      <4>3. passed[t] \in Nat /\ MinInterval \in Nat /\ passed[t] < MinInterval
        BY <4>1, <4>2, HeldConstants
      <4>4. Up(passed[t], MinInterval) = passed[t] + 1
        BY <4>3, UpIs
      <4> QED  BY <4>1, <4>3, <4>4
    <3>2. CountsIn(slots, t, passed[t])
      <4>1. PICK s \in RelaySlots : slots'[s] # Empty /\ slots'[s].target = t /\ slots'[s].age >= passed'[t]
        BY <1>3, <2>1, <3>1 DEF CountsIn
      <4>2. s \in Slots /\ slots[s] # Empty
        BY <1>4, <4>1, SlotsAre
      <4>3. slots'[s].target = slots[s].target /\ slots'[s].age = slots[s].age + 1 /\ slots[s].age \in Nat
        BY <4>2, Older, Young, FrameIs
      <4>4. slots[s].age >= passed[t]
        BY <1>3, <3>1, <4>1, <4>3
      <4> QED  BY <4>1, <4>2, <4>3, <4>4 DEF CountsIn
    <3>3. passed[t] \in went[t]
      BY <1>1, <1>2, <3>1, <3>2, HeldConstants DEF GateKeeps
    <3> QED  BY <1>5, <3>1, <3>2, <3>3
  <2> QED  BY <1>1, <2>1 DEF GateKeeps
<1>7. ASSUME NEW s \in RelaySlots, Climbing(slots'[s])
      PROVE  Prompt(slots'[s], passed', passedAny', went', later', alarm')
  <2> DEFINE f == slots[s]
             g == slots'[s]
  <2>1. s \in Slots /\ f # Empty /\ s \notin OwnSlots
    BY <1>4, <1>7, EmptyIs, SlotsAre DEF Climbing
  <2>2. f \in Frame /\ g.target = f.target /\ g.age = f.age + 1 /\ g.asks = f.asks /\ g.askAge = f.askAge + 1
    BY <2>1, Older, Young
  <2>3. f.age \in Nat /\ f.askAge \in Nat /\ f.asks \in Nat /\ GiveUp \in Nat /\ g.age < GiveUp /\ g.asks <= Retries
    BY <1>7, <2>2, FrameIs, Ages DEF Climbing
  <2>4. Climbing(f) /\ Climbing(g)
    BY <1>7, <2>2, <2>3 DEF Climbing
  <2>5. alarm' = alarm - 1 /\ alarm - 1 \in Nat
    <3>1. alarm # Off
      BY <1>1, <2>1 DEF KeptInv, InTime, InUse, RelayedInTime
    <3>2. alarm > 0 /\ alarm \in Nat /\ alarm' = (IF alarm = Off THEN Off ELSE alarm - 1)
      BY <1>1, <1>3
    <3>3. alarm' = alarm - 1
      BY <3>1, <3>2
    <3> QED  BY <3>2, <3>3
  <2>6. Prompt(f, passed, passedAny, went, later, alarm)
    BY <1>2, <2>4 DEF AllPrompt
  <2>8. \A a \in Nat : a <= f.age => CountsIn(slots, f.target, a)
    BY <2>1, <2>3 DEF CountsIn
  <2> HIDE DEF f, g
  <2>9. /\ f.target \in Targets /\ Late(f) \in Int /\ AskAt[f.asks] \in Nat /\ Late(f) <= f.age
    BY <2>4, LateIs
  <2>10. Late(g) = Late(f) + 1
    BY <2>2, <2>3, <2>9 DEF Late
  <2>11. Armed(g, alarm')
    BY <1>3, <2>2, <2>3, <2>5, <2>6, <2>9, GateConstants DEF Prompt, Armed
  <2>12. Behind(g, alarm') = Behind(f, alarm)
    BY <1>3, <2>5, <2>9, <2>10, GateConstants DEF Behind
  <2>13. went'[f.target] = {a + 1 : a \in {b \in went[f.target] : Counts(f.target, b)}} /\ went[f.target] \in SUBSET Nat
    BY <1>1, <1>3, <2>9
  <2>14. CASE Went(f, went)
    <3>1. Went(g, went')
      <4>1. PICK a \in went[f.target] : a <= Late(f)
        BY <2>14 DEF Went
      <4>2. a \in Nat /\ a <= f.age
        BY <2>3, <2>9, <2>13, <4>1
      <4>3. a + 1 \in went'[f.target] /\ a + 1 <= Late(g)
        BY <1>5, <2>8, <2>9, <2>10, <4>1, <4>2
      <4> QED  BY <2>2, <4>3 DEF Went
    <3>2. WentInTime(g, went', alarm')
      <4>1. WentInTime(f, went, alarm)
        BY <2>6, <2>14 DEF Prompt
      <4>2. ASSUME NEW b \in went'[g.target], b <= Late(g)  PROVE b + alarm' <= GlobalMin
        <5>1. PICK a \in went[f.target] : b = a + 1
          BY <2>2, <2>13, <4>2
        <5>2. a \in Nat /\ a <= Late(f)
          BY <2>9, <2>10, <2>13, <4>2, <5>1
        <5>3. a + alarm <= GlobalMin
          BY <4>1, <5>1, <5>2 DEF WentInTime
        <5> QED  BY <1>3, <2>5, <5>1, <5>2, <5>3
      <4> QED  BY <2>12, <4>1, <4>2 DEF WentInTime
    <3> QED  BY <2>11, <3>1, <3>2 DEF Prompt, g
  <2>15. CASE ~Went(f, went)
    <3>1. ~Went(g, went')
      <4>1. ASSUME NEW b \in went'[g.target], b <= Late(g)  PROVE FALSE
        <5>1. PICK a \in went[f.target] : b = a + 1
          BY <2>2, <2>13, <4>1
        <5>2. a \in Nat /\ a <= Late(f)
          BY <2>9, <2>10, <2>13, <4>1, <5>1
        <5> QED  BY <2>15, <5>1, <5>2 DEF Went
      <4> QED  BY <4>1 DEF Went
    <3>2. later # f.target /\ later' # g.target
      BY <1>1, <2>2, <2>9, HeldConstants
    <3>3. Waits(f, passed, passedAny, alarm)
      BY <2>6, <2>15, <3>2 DEF Prompt, Queueing
    <3>4. Waits(g, [t \in Targets |-> Up(passed[t], MinInterval)], Up(passedAny, GlobalMin), alarm - 1)
      BY <1>1, <1>3, <2>2, <2>4, <2>10, <3>3, WaitsOn
    <3>5. Waits(g, passed', passedAny', alarm')
      BY <1>1, <2>5, <3>4
    <3> QED  BY <2>11, <3>1, <3>2, <3>5 DEF Prompt, Queueing, g
  <2> QED  BY <2>14, <2>15
<1> QED  BY <1>6, <1>7, <1>1 DEF AllPrompt

LEMMA TimelyStart == HeldInit => Timely
<1> SUFFICES ASSUME HeldInit PROVE Timely
  OBVIOUS
<1>1. \A s \in RelaySlots : slots[s] = Empty
  BY SlotsAre DEF HeldInit
<1>2. AllPrompt(slots, passed, passedAny, went, later, Left)
  BY <1>1, EmptyIs DEF AllPrompt, Climbing
<1>3. GateKeeps(passed, passedAny, went, later, slots)
  BY HeldConstants DEF HeldInit, GateKeeps
<1> QED  BY <1>2, <1>3 DEF HeldInit, Timely

LEMMA TimelyStep == KeptInv /\ Timely /\ [HeldNext]_heldvars => Timely'
<1> SUFFICES ASSUME KeptInv, Timely, [HeldNext]_heldvars PROVE Timely'
  OBVIOUS
<1> QED  BY TimelyOther, TimelyLater, TimelySent, TimelyAsk, TimelyRelayed, TimelyPass DEF HeldNext

LEMMA TimelyGives == KeptInv /\ Timely => OnTime
<1> SUFFICES ASSUME KeptInv, Timely, stage = "idle", refused = 0,
                    NEW s \in RelaySlots, Live(s), slots[s].asks <= Retries
             PROVE  Late(slots[s]) < Slack
  BY DEF OnTime
<1> DEFINE f == slots[s]
           n == Cardinality(Targets) * GlobalMin
<1>1. Climbing(f)
  <2>1. s \in Slots /\ f # Empty /\ f.age < GiveUp
    BY SlotsAre DEF Live, InUse, LifeOf
  <2>2. f \in Frame
    BY <2>1, Young
  <2> QED  BY <2>1, <2>2 DEF Climbing
<1>2. Prompt(f, passed, passedAny, went, later, alarm) /\ alarm \in Nat
  BY <1>1, Ages DEF Timely, AllPrompt, Left, KeptInv, Rest
<1> HIDE DEF f
<1>3. Behind(f, alarm) < n + GlobalMin
  <2>1. Late(f) \in Int
    BY <1>1, LateIs
  <2>2. Behind(f, alarm) \in Int
    BY <1>2, <2>1, GateConstants DEF Behind
  <2>3. ~Went(f, went) /\ ~Queueing(f, later) => Behind(f, alarm) < n
    BY <1>1, <1>2, OutrunBound DEF Prompt, Waits
  <2> QED  BY <1>2, <2>2, <2>3, GateConstants DEF Prompt, WentInTime, QueuedInTime
<1>4. Late(f) < MinInterval + (n + GlobalMin) - 1
  <2>1. Late(f) \in Int /\ n \in Nat
    BY <1>1, LateIs, GateConstants
  <2> HIDE DEF n
  <2> QED  BY <1>2, <1>3, <2>1, GateConstants DEF Behind
<1>5. Slack = MinInterval + (n + GlobalMin) - 1
  BY GateConstants DEF Slack
<1> QED  BY <1>4, <1>5 DEF f

\* Until a request is refused, no step of the ladder of a relayed frame (umac_mesh_pending_asked)
\* is late by MIN_INTERVAL and GLOBAL_MIN for every target and one more: relay_timer_ is set for
\* it, and the gate (maybe_preq_) holds its target back for the others once each.
THEOREM DiscoveriesOnTime == HeldSpec => []OnTime
<1>1. KeptInv /\ Timely /\ [HeldNext]_heldvars => (KeptInv /\ Timely)'
  BY KeptStep, TimelyStep
<1> QED  BY <1>1, KeptStart, TimelyStart, TimelyGives, PTL DEF HeldSpec

-----------------------------------------------------------------------------
(***************************************************************************)
(* The clock.  An entry's age is the time since it was made, as its expiry *)
(* tells it; until idle passes Half it is the one time that it can be.     *)
(***************************************************************************)
Age(i) == (clock + Keep - bucket[i].exp) % ClockWrap
Clocks == 0 .. ClockWrap - 1

LEMMA ClockFacts ==
  /\ ClockWrap \in Nat /\ Keep \in Nat /\ Keep > 0 /\ Queue \in Nat /\ Queue > 0
  /\ Half \in Nat /\ ClockWrap = Half + Half /\ Keep < Half
BY SeenAssumption DEF SeenAssumption, Half

LEMMA Wraps ==
  ASSUME NEW x \in Int, -ClockWrap <= x, x < ClockWrap + ClockWrap
  PROVE  x % ClockWrap = IF x < 0 THEN x + ClockWrap ELSE IF x < ClockWrap THEN x ELSE x - ClockWrap
<1>1. ClockWrap \in Nat /\ ClockWrap > 0
  BY ClockFacts
<1>2. CASE x < 0
  BY <1>1, <1>2
<1>3. CASE 0 <= x /\ x < ClockWrap
  BY <1>1, <1>3
<1>4. CASE ClockWrap <= x
  <2>1. \A y \in 0 .. ClockWrap - 1 : (y + ClockWrap) % ClockWrap = y
    BY <1>1
  <2>2. x - ClockWrap \in 0 .. ClockWrap - 1 /\ (x - ClockWrap) + ClockWrap = x
    BY <1>1, <1>4
  <2>3. ((x - ClockWrap) + ClockWrap) % ClockWrap = x - ClockWrap
    BY <2>1, <2>2
  <2>4. x % ClockWrap = x - ClockWrap
    BY <2>2, <2>3
  <2> QED  BY <1>1, <1>4, <2>4
<1> QED  BY <1>1, <1>2, <1>3, <1>4

\* What the age says of the expiry against the clock.
LEMMA PastByAge ==
  ASSUME NEW c \in Clocks, NEW e \in Clocks, (c + Keep - e) % ClockWrap < Half + Keep
  PROVE  Past(c, e) <=> (c + Keep - e) % ClockWrap >= Keep
<1>1. c \in Int /\ e \in Int /\ 0 <= c /\ c < ClockWrap /\ 0 <= e /\ e < ClockWrap
  BY ClockFacts DEF Clocks
<1> DEFINE x == c - e
           y == c + Keep - e
<1>2. x \in Int /\ y \in Int /\ y = x + Keep /\ -ClockWrap < x /\ x < ClockWrap
  BY <1>1, ClockFacts
<1>3. (Past(c, e) <=> x % ClockWrap < Half) /\ y % ClockWrap < Half + Keep
  BY DEF Past
<1> HIDE DEF x, y
<1>4. y % ClockWrap = IF y < 0 THEN y + ClockWrap ELSE IF y < ClockWrap THEN y ELSE y - ClockWrap
  <2>1. y \in Int /\ -ClockWrap <= y /\ y < ClockWrap + ClockWrap
    BY <1>2, ClockFacts
  <2> QED  BY <2>1, Wraps
<1>5. x % ClockWrap = IF x < 0 THEN x + ClockWrap ELSE IF x < ClockWrap THEN x ELSE x - ClockWrap
  <2>1. x \in Int /\ -ClockWrap <= x /\ x < ClockWrap + ClockWrap
    BY <1>2, ClockFacts
  <2> QED  BY <2>1, Wraps
<1>6. x % ClockWrap < Half <=> y % ClockWrap >= Keep
  BY <1>2, <1>3, <1>4, <1>5, ClockFacts
<1> QED  BY <1>3, <1>6 DEF y

\* Of two entries that are not old, the one that expires first is the older.
LEMMA PastByAges ==
  ASSUME NEW c \in Clocks, NEW e \in Clocks, NEW f \in Clocks,
         (c + Keep - e) % ClockWrap < Keep, (c + Keep - f) % ClockWrap < Keep
  PROVE  Past(e, f) <=> (c + Keep - e) % ClockWrap <= (c + Keep - f) % ClockWrap
<1>1. /\ c \in Int /\ e \in Int /\ f \in Int
      /\ 0 <= c /\ c < ClockWrap /\ 0 <= e /\ e < ClockWrap /\ 0 <= f /\ f < ClockWrap
  BY ClockFacts DEF Clocks
<1> DEFINE x == e - f
           y == c + Keep - e
           z == c + Keep - f
<1>2. /\ x = z - y /\ x \in Int /\ y \in Int /\ z \in Int
      /\ -ClockWrap < x /\ x < ClockWrap
      /\ -ClockWrap < y /\ y < ClockWrap + ClockWrap /\ -ClockWrap < z /\ z < ClockWrap + ClockWrap
  BY <1>1, ClockFacts
<1>3. /\ y % ClockWrap < Keep /\ z % ClockWrap < Keep
      /\ Past(e, f) <=> x % ClockWrap < Half
  BY DEF Past
<1> HIDE DEF x, y, z
<1>4. y % ClockWrap = IF y < 0 THEN y + ClockWrap ELSE IF y < ClockWrap THEN y ELSE y - ClockWrap
  <2>1. y \in Int /\ -ClockWrap <= y /\ y < ClockWrap + ClockWrap
    BY <1>2, ClockFacts
  <2> QED  BY <2>1, Wraps
<1>5. z % ClockWrap = IF z < 0 THEN z + ClockWrap ELSE IF z < ClockWrap THEN z ELSE z - ClockWrap
  <2>1. z \in Int /\ -ClockWrap <= z /\ z < ClockWrap + ClockWrap
    BY <1>2, ClockFacts
  <2> QED  BY <2>1, Wraps
<1>6. x % ClockWrap = IF x < 0 THEN x + ClockWrap ELSE IF x < ClockWrap THEN x ELSE x - ClockWrap
  <2>1. x \in Int /\ -ClockWrap <= x /\ x < ClockWrap + ClockWrap
    BY <1>2, ClockFacts
  <2> QED  BY <2>1, Wraps
<1>7. x % ClockWrap < Half <=> y % ClockWrap <= z % ClockWrap
  BY <1>2, <1>3, <1>4, <1>5, <1>6, ClockFacts
<1> QED  BY <1>3, <1>7 DEF y, z

\* A tick makes an entry a tick older, up to the clock's period.
LEMMA AgeTicks ==
  ASSUME NEW c \in Clocks, NEW e \in Clocks, (c + Keep - e) % ClockWrap < ClockWrap - 1
  PROVE  /\ (c + 1) % ClockWrap \in Clocks
         /\ (((c + 1) % ClockWrap) + Keep - e) % ClockWrap = ((c + Keep - e) % ClockWrap) + 1
<1>1. c \in Int /\ e \in Int /\ 0 <= c /\ c < ClockWrap /\ 0 <= e /\ e < ClockWrap
  BY ClockFacts DEF Clocks
<1> DEFINE d == (c + 1) % ClockWrap
           y == c + Keep - e
           z == d + Keep - e
<1>2. d = IF c + 1 < ClockWrap THEN c + 1 ELSE 0
  <2>1. c + 1 \in Int /\ -ClockWrap <= c + 1 /\ c + 1 < ClockWrap + ClockWrap /\ ~(c + 1 < 0)
    BY <1>1, ClockFacts
  <2> DEFINE b == c + 1
  <2>2. b \in Int /\ -ClockWrap <= b /\ b < ClockWrap + ClockWrap
    BY <2>1
  <2>3. b % ClockWrap = d
    OBVIOUS
  <2> HIDE DEF b, d
  <2>4. b % ClockWrap = IF b < 0 THEN b + ClockWrap ELSE IF b < ClockWrap THEN b ELSE b - ClockWrap
    BY <2>2, Wraps
  <2>5. b = c + 1
    BY DEF b
  <2> QED  BY <1>1, <2>1, <2>3, <2>4, <2>5, ClockFacts
<1> HIDE DEF d
<1>3. d \in Int /\ 0 <= d /\ d < ClockWrap
  BY <1>1, <1>2, ClockFacts
<1>4. /\ y \in Int /\ z \in Int
      /\ z = IF c + 1 < ClockWrap THEN y + 1 ELSE y + 1 - ClockWrap
      /\ -ClockWrap < y /\ y < ClockWrap + Keep /\ -ClockWrap < z /\ z < ClockWrap + Keep
      /\ c + 1 >= ClockWrap => y = ClockWrap - 1 + Keep - e
  BY <1>1, <1>2, <1>3, ClockFacts
<1>5. y % ClockWrap < ClockWrap - 1
  OBVIOUS
<1> HIDE DEF y, z
<1>6. y % ClockWrap = IF y < 0 THEN y + ClockWrap ELSE IF y < ClockWrap THEN y ELSE y - ClockWrap
  <2>1. y \in Int /\ -ClockWrap <= y /\ y < ClockWrap + ClockWrap
    BY <1>4, ClockFacts
  <2> QED  BY <2>1, Wraps
<1>7. z % ClockWrap = IF z < 0 THEN z + ClockWrap ELSE IF z < ClockWrap THEN z ELSE z - ClockWrap
  <2>1. z \in Int /\ -ClockWrap <= z /\ z < ClockWrap + ClockWrap
    BY <1>4, ClockFacts
  <2> QED  BY <2>1, Wraps
<1>8. z % ClockWrap = (y % ClockWrap) + 1
  BY <1>1, <1>4, <1>5, <1>6, <1>7, ClockFacts
<1> QED  BY <1>3, <1>8, ClockFacts DEF d, y, z, Clocks

\* A new entry's age is none.
LEMMA AgeNew ==
  ASSUME NEW c \in Clocks, NEW d, d = (c + Keep) % ClockWrap
  PROVE  d \in Clocks /\ (c + Keep - d) % ClockWrap = 0
<1>1. c \in Int /\ 0 <= c /\ c < ClockWrap
  BY ClockFacts DEF Clocks
<1> DEFINE x == c + Keep
<1>2. x \in Int /\ 0 <= x /\ x < ClockWrap + ClockWrap
  BY <1>1, ClockFacts
<1> HIDE DEF x
<1>3. d = IF x < ClockWrap THEN x ELSE x - ClockWrap
  <2>1. x \in Int /\ -ClockWrap <= x /\ x < ClockWrap + ClockWrap
    BY <1>2, ClockFacts
  <2>2. x % ClockWrap = IF x < 0 THEN x + ClockWrap ELSE IF x < ClockWrap THEN x ELSE x - ClockWrap
    BY <2>1, Wraps
  <2>3. d = x % ClockWrap
    BY DEF x
  <2> QED  BY <1>2, <2>2, <2>3
<1>4. d \in Int /\ 0 <= d /\ d < ClockWrap /\ (x - d = 0 \/ x - d = ClockWrap)
  BY <1>2, <1>3, ClockFacts
<1>5. 0 % ClockWrap = 0 /\ ClockWrap % ClockWrap = 0
  <2>1. ClockWrap \in Int /\ 0 <= ClockWrap /\ ClockWrap < ClockWrap + ClockWrap /\ ClockWrap - ClockWrap = 0
    BY ClockFacts
  <2>2. ClockWrap % ClockWrap = 0
    BY <2>1, Wraps, ClockFacts
  <2> QED  BY <2>2, ClockFacts
<1>6. (x - d) % ClockWrap = 0
  BY <1>4, <1>5
<1> QED  BY <1>4, <1>6, ClockFacts DEF x, Clocks

-----------------------------------------------------------------------------
(***************************************************************************)
(* The bucket.                                                             *)
(***************************************************************************)
Used(i) == bucket[i] # NoEntry
Names(i, f) == Used(i) /\ bucket[i].frame = f

\* The history: what is beside a frame is what was passed on as late, or later.
Beside ==
  \A f \in Copied :
    beside[f] = IF since[f] < Keep THEN {h \in Copied \ {f} : since[h] <= since[f]} ELSE {}

\* Until the bucket has been idle for half the clock's period, an entry's age is the time
\* since its frame was passed on, each frame has one entry, and one that has lost its own
\* has as many others beside it as there are entries.
Dated ==
  \A i \in Entries : Used(i) =>
    /\ Age(i) \in idle .. idle + Keep - 1
    /\ since[bucket[i].frame] = IF Age(i) < Keep THEN Age(i) ELSE Keep
Single == \A i, j \in Entries : Used(i) /\ Names(j, bucket[i].frame) => i = j
Displaced ==
  \A f \in Copied : since[f] < Keep =>
    (\E i \in Entries : Names(i, f)) \/ Cardinality(beside[f]) >= Queue

SeenIInv == SeenTypeOK /\ Beside /\ (idle <= Half => Dated /\ Single /\ Displaced)

LEMMA BucketFacts ==
  ASSUME SeenTypeOK
  PROVE  /\ clock \in Clocks /\ idle \in Nat
         /\ bucket = [i \in Entries |-> bucket[i]]
         /\ \A i \in Entries : Used(i) => bucket[i].frame \in Copied /\ bucket[i].exp \in Clocks
         /\ since = [f \in Copied |-> since[f]] /\ \A f \in Copied : since[f] \in Nat /\ since[f] <= Keep
BY ClockFacts DEF SeenTypeOK, Clocks, Used

\* An entry reads as live while it is young.
LEMMA AliveIsYoung ==
  ASSUME SeenTypeOK, NEW i \in Entries, Used(i) => Age(i) < Half + Keep
  PROVE  Alive(i) <=> Used(i) /\ Age(i) < Keep
<1>1. CASE ~Used(i)
  BY <1>1 DEF Alive, Used
<1>2. CASE Used(i)
  <2>1. clock \in Clocks /\ bucket[i].exp \in Clocks
    BY <1>2, BucketFacts
  <2>2. Past(clock, bucket[i].exp) <=> Age(i) >= Keep
    BY <1>2, <2>1, PastByAge DEF Age
  <2>3. Age(i) \in Int /\ Keep \in Int
    <3>1. \A x \in Int : x % ClockWrap \in 0 .. ClockWrap - 1
      BY ClockFacts
    <3>2. clock + Keep - bucket[i].exp \in Int
      BY <2>1, ClockFacts DEF Clocks
    <3> QED  BY <3>1, <3>2, ClockFacts DEF Age
  <2> QED  BY <1>2, <2>2, <2>3 DEF Alive, Used
<1> QED  BY <1>1, <1>2

LEMMA YoungOnes ==
  ASSUME SeenTypeOK, Dated, idle <= Half
  PROVE  /\ \A i \in Entries : Alive(i) <=> Used(i) /\ Age(i) < Keep
         /\ \A i \in Entries : Alive(i) => since[bucket[i].frame] = Age(i)
<1>1. \A i \in Entries : Used(i) => Age(i) < Half + Keep
  BY BucketFacts, ClockFacts DEF Dated
<1>2. \A i \in Entries : Alive(i) <=> Used(i) /\ Age(i) < Keep
  BY <1>1, AliveIsYoung
<1> QED  BY <1>2 DEF Dated

\* What SeenInv says, of such a bucket.
LEMMA SeenFollows == SeenIInv => SeenInv
<1> SUFFICES ASSUME SeenIInv, idle <= Half PROVE Remembered /\ TakenForNew
  BY DEF SeenIInv, SeenInv
<1>1. /\ \A i \in Entries : Alive(i) <=> Used(i) /\ Age(i) < Keep
      /\ \A i \in Entries : Alive(i) => since[bucket[i].frame] = Age(i)
      /\ Dated /\ Displaced /\ SeenTypeOK
  BY YoungOnes DEF SeenIInv
<1>2. ASSUME NEW f \in Copied, since[f] < Keep, Cardinality(beside[f]) < Queue
      PROVE  Holding(f) # {}
  <2>1. IsFiniteSet(beside[f])
    BY <1>1, FS_Subset, SeenAssumption DEF SeenAssumption, SeenTypeOK
  <2>2. Cardinality(beside[f]) \in Nat
    BY <2>1, FS_CardinalityType
  <2>3. PICK i \in Entries : Names(i, f)
    BY <1>1, <1>2, <2>2, ClockFacts DEF Displaced
  <2>4. Used(i) /\ bucket[i].frame = f
    BY <2>3 DEF Names
  <2>5. Age(i) < Keep
    BY <1>1, <1>2, <2>4, ClockFacts DEF Dated
  <2> QED  BY <1>1, <2>4, <2>5 DEF Holding
<1>3. ASSUME NEW f \in Copied, since[f] = Keep, NEW i \in Holding(f)  PROVE FALSE
  <2>1. i \in Entries /\ Alive(i) /\ bucket[i].frame = f
    BY DEF Holding
  <2>2. Age(i) < Keep /\ Age(i) = Keep
    BY <1>1, <1>3, <2>1
  <2> QED  BY <2>2, ClockFacts
<1> QED  BY <1>2, <1>3 DEF Remembered, TakenForNew

LEMMA SeenStart == SeenInit => SeenIInv
<1> SUFFICES ASSUME SeenInit PROVE SeenIInv
  OBVIOUS
<1>1. SeenTypeOK
  BY ClockFacts DEF SeenInit, SeenTypeOK
<1>2. \A i \in Entries : ~Used(i)
  BY DEF SeenInit, Used
<1>3. \A f \in Copied : ~(since[f] < Keep) /\ beside[f] = {}
  BY ClockFacts DEF SeenInit
<1>4. Dated /\ Single
  BY <1>2 DEF Dated, Single
<1>5. Beside /\ Displaced
  BY <1>3 DEF Beside, Displaced
<1> QED  BY <1>1, <1>4, <1>5 DEF SeenIInv

\* A walk that clears entries past their time takes nothing from what is remembered.
LEMMA Cleared ==
  ASSUME SeenIInv, UNCHANGED <<clock, idle, since, beside>>,
         bucket' = [i \in Entries |-> bucket'[i]],
         \A i \in Entries : bucket'[i] = bucket[i] \/ (bucket'[i] = NoEntry /\ ~Alive(i))
  PROVE  SeenIInv'
<1>0. SeenTypeOK /\ Beside
  BY DEF SeenIInv
<1>1. SeenTypeOK'
  <2>1. bucket' \in [Entries -> [frame : Copied, exp : 0 .. ClockWrap - 1] \cup {NoEntry}]
    BY <1>0 DEF SeenTypeOK
  <2> QED  BY <1>0, <2>1 DEF SeenTypeOK
<1>2. Beside'
  BY <1>0 DEF Beside
<1>3. ASSUME idle <= Half  PROVE Dated' /\ Single' /\ Displaced'
  <2>1. Dated /\ Single /\ Displaced
    BY <1>3 DEF SeenIInv
  <2>2. \A i \in Entries : Alive(i) <=> Used(i) /\ Age(i) < Keep
    BY <1>0, <1>3, <2>1, YoungOnes
  <2>3. \A i \in Entries : Used(i)' => Used(i) /\ bucket'[i] = bucket[i] /\ Age(i)' = Age(i)
    BY DEF Used, Age
  <2>4. Dated'
    BY <2>1, <2>3 DEF Dated
  <2>5. Single'
    BY <2>1, <2>3 DEF Single, Names
  <2>6. ASSUME NEW f \in Copied, since[f] < Keep, NEW i \in Entries, Names(i, f)
        PROVE  Names(i, f)'
    <3>1. Age(i) < Keep
      BY <1>0, <2>1, <2>6, BucketFacts, ClockFacts DEF Dated, Names
    <3>2. bucket'[i] = bucket[i]
      BY <2>2, <2>6, <3>1 DEF Names
    <3> QED  BY <2>6, <3>2 DEF Names, Used
  <2>7. Displaced'
    BY <2>1, <2>6 DEF Displaced
  <2> QED  BY <2>4, <2>5, <2>7
<1> QED  BY <1>1, <1>2, <1>3 DEF SeenIInv

LEMMA SweptOnes ==
  ASSUME NEW n
  PROVE  /\ Swept(n) = [i \in Entries |-> Swept(n)[i]]
         /\ \A i \in Entries : Swept(n)[i] = bucket[i] \/ (Swept(n)[i] = NoEntry /\ ~Alive(i))
         /\ n = Queue => \A i \in Entries : Swept(n)[i] = IF Alive(i) THEN bucket[i] ELSE NoEntry
BY ClockFacts DEF Swept, Entries

LEMMA CopySeen == ASSUME SeenIInv, NEW f \in Copied, Duplicate(f)  PROVE SeenIInv'
<1> DEFINE n == Min(Holding(f))
<1>1. bucket' = Swept(n) /\ UNCHANGED <<clock, idle, since, beside>>
  BY DEF Duplicate
<1> HIDE DEF n
<1>2. bucket' = [i \in Entries |-> bucket'[i]]
      /\ \A i \in Entries : bucket'[i] = bucket[i] \/ (bucket'[i] = NoEntry /\ ~Alive(i))
  BY <1>1, SweptOnes
<1> QED  BY <1>1, <1>2, Cleared

LEMMA TimePasses == ASSUME SeenIInv, Later  PROVE SeenIInv'
<1>0. SeenTypeOK /\ Beside
  BY DEF SeenIInv
<1>1. /\ clock' = (clock + 1) % ClockWrap /\ bucket' = bucket
      /\ idle' = IF idle + 1 <= Half + 1 THEN idle + 1 ELSE Half + 1
      /\ since' = [f \in Copied |-> IF since[f] + 1 <= Keep THEN since[f] + 1 ELSE Keep]
      /\ beside' = [f \in Copied |-> IF since'[f] = Keep THEN {} ELSE beside[f]]
  <2>1. \A f \in Copied : Min({since[f] + 1, Keep}) = IF since[f] + 1 <= Keep THEN since[f] + 1 ELSE Keep
    BY <1>0, BucketFacts, ClockFacts, MinOfTwo
  <2>2. Min({idle + 1, Half + 1}) = IF idle + 1 <= Half + 1 THEN idle + 1 ELSE Half + 1
    <3>1. idle + 1 \in Nat /\ Half + 1 \in Nat
      BY <1>0, BucketFacts, ClockFacts
    <3> QED  BY <3>1, MinOfTwo
  <2> QED  BY <2>1, <2>2 DEF Later
<1>2. \A f \in Copied : since'[f] = IF since[f] < Keep THEN since[f] + 1 ELSE Keep
  BY <1>0, <1>1, BucketFacts, ClockFacts
<1>3. clock' \in Clocks
  <2>1. clock + 1 \in Int
    BY <1>0, BucketFacts DEF Clocks
  <2>2. \A x \in Int : x % ClockWrap \in 0 .. ClockWrap - 1
    BY ClockFacts
  <2> QED  BY <1>1, <2>1, <2>2 DEF Clocks
<1>4. SeenTypeOK'
  <2>1. since' \in [Copied -> 0 .. Keep]
    BY <1>0, <1>1, BucketFacts, ClockFacts
  <2>2. beside' \in [Copied -> SUBSET Copied]
    BY <1>0, <1>1 DEF SeenTypeOK
  <2>3. idle' \in 0 .. Half + 1
    BY <1>0, <1>1, BucketFacts, ClockFacts
  <2>4. bucket' \in [Entries -> [frame : Copied, exp : 0 .. ClockWrap - 1] \cup {NoEntry}]
    BY <1>0, <1>1 DEF SeenTypeOK
  <2> QED  BY <1>3, <2>1, <2>2, <2>3, <2>4 DEF SeenTypeOK, Clocks
<1>5. Beside'
  <2>1. ASSUME NEW f \in Copied
        PROVE  beside'[f] = IF since'[f] < Keep THEN {h \in Copied \ {f} : since'[h] <= since'[f]} ELSE {}
    <3>1. CASE since'[f] < Keep
      <4>1. since[f] < Keep /\ since'[f] = since[f] + 1
        BY <1>0, <1>2, <3>1, BucketFacts, ClockFacts
      <4>2. \A h \in Copied : since'[h] <= since'[f] <=> since[h] <= since[f]
        BY <1>0, <1>2, <3>1, <4>1, BucketFacts, ClockFacts
      <4>3. since'[f] # Keep
        BY <1>0, <3>1, <4>1, BucketFacts, ClockFacts
      <4> QED  BY <1>0, <1>1, <3>1, <4>1, <4>2, <4>3 DEF Beside
    <3>2. CASE ~(since'[f] < Keep)
      <4>1. since'[f] = Keep
        BY <1>0, <1>2, <3>2, BucketFacts, ClockFacts
      <4> QED  BY <1>1, <3>2, <4>1
    <3> QED  BY <3>1, <3>2
  <2> QED  BY <2>1 DEF Beside
<1>6. ASSUME idle' <= Half  PROVE Dated' /\ Single' /\ Displaced'
  <2>1. idle < Half /\ idle' = idle + 1 /\ Dated /\ Single /\ Displaced
    BY <1>0, <1>1, <1>6, BucketFacts, ClockFacts DEF SeenIInv
  <2>2. \A i \in Entries : Used(i)' <=> Used(i)
    BY <1>1 DEF Used
  <2>3. ASSUME NEW i \in Entries, Used(i)  PROVE Age(i)' = Age(i) + 1 /\ Age(i) \in idle .. idle + Keep - 1
    <3>1. Age(i) \in idle .. idle + Keep - 1
      BY <2>1, <2>3 DEF Dated
    <3>2. Age(i) < ClockWrap - 1
      BY <1>0, <2>1, <3>1, BucketFacts, ClockFacts
    <3>3. clock \in Clocks /\ bucket[i].exp \in Clocks
      BY <1>0, <2>3, BucketFacts
    <3>4. (clock + Keep - bucket[i].exp) % ClockWrap < ClockWrap - 1
      BY <3>2 DEF Age
    <3>5. (((clock + 1) % ClockWrap) + Keep - bucket[i].exp) % ClockWrap
            = ((clock + Keep - bucket[i].exp) % ClockWrap) + 1
      BY <3>3, <3>4, AgeTicks
    <3> QED  BY <1>1, <3>1, <3>5 DEF Age
  <2>4. Dated'
    <3>1. ASSUME NEW i \in Entries, Used(i)
          PROVE  /\ Age(i)' \in idle' .. idle' + Keep - 1
                 /\ since'[bucket'[i].frame] = IF Age(i)' < Keep THEN Age(i)' ELSE Keep
      <4>1. Age(i)' = Age(i) + 1 /\ Age(i) \in Int /\ idle <= Age(i) /\ Age(i) <= idle + Keep - 1
        BY <1>0, <2>3, <3>1, BucketFacts, ClockFacts
      <4>2. since[bucket[i].frame] = IF Age(i) < Keep THEN Age(i) ELSE Keep
        BY <2>1, <3>1 DEF Dated
      <4>3. bucket[i].frame \in Copied
        BY <1>0, <3>1, BucketFacts
      <4>4. since'[bucket[i].frame] = IF since[bucket[i].frame] < Keep THEN since[bucket[i].frame] + 1 ELSE Keep
        BY <1>2, <4>3
      <4>5. since'[bucket[i].frame] = IF Age(i) + 1 < Keep THEN Age(i) + 1 ELSE Keep
        BY <4>1, <4>2, <4>4, ClockFacts
      <4>6. Age(i) + 1 \in idle + 1 .. idle + 1 + Keep - 1
        BY <1>0, <4>1, BucketFacts, ClockFacts
      <4> QED  BY <1>1, <2>1, <4>1, <4>5, <4>6
    <3> QED  BY <2>2, <3>1 DEF Dated
  <2>5. Single'
    BY <1>1, <2>1, <2>2 DEF Single, Names
  <2>6. Displaced'
    <3>1. ASSUME NEW f \in Copied, since'[f] < Keep
          PROVE  (\E i \in Entries : Names(i, f)') \/ Cardinality(beside'[f]) >= Queue
      <4>1. since[f] < Keep /\ since'[f] # Keep
        BY <1>0, <1>2, <3>1, BucketFacts, ClockFacts
      <4>2. beside'[f] = beside[f]
        BY <1>1, <4>1
      <4> QED  BY <1>1, <2>1, <2>2, <4>1, <4>2 DEF Displaced, Names
    <3> QED  BY <3>1 DEF Displaced
  <2> QED  BY <2>4, <2>5, <2>6
<1> QED  BY <1>4, <1>5, <1>6 DEF SeenIInv

\* When no entry is free, the oldest gives way, and no other was passed on before its frame.
LEMMA OldestGives ==
  ASSUME SeenTypeOK, Dated, idle <= Half, \A i \in Entries : Alive(i)
  PROVE  /\ OldestOne \in Entries
         /\ \A j \in Entries : since[bucket[j].frame] <= since[bucket[OldestOne].frame]
<1>1. \A i \in Entries : /\ Used(i) /\ bucket[i].exp \in Clocks
                         /\ Age(i) \in Nat /\ Age(i) < Keep /\ since[bucket[i].frame] = Age(i)
  BY YoungOnes, BucketFacts, ClockFacts DEF Dated
<1>2. clock \in Clocks
  BY BucketFacts
<1>3. \A i, j \in Entries : Past(bucket[j].exp, bucket[i].exp) <=> Age(j) <= Age(i)
  <2> SUFFICES ASSUME NEW i \in Entries, NEW j \in Entries
               PROVE  Past(bucket[j].exp, bucket[i].exp) <=> Age(j) <= Age(i)
    OBVIOUS
  <2>1. (clock + Keep - bucket[j].exp) % ClockWrap < Keep /\ (clock + Keep - bucket[i].exp) % ClockWrap < Keep
    BY <1>1 DEF Age
  <2> QED  BY <1>1, <1>2, <2>1, PastByAges DEF Age
<1> DEFINE Oldests == {i \in Entries : \A j \in Entries : Past(bucket[j].exp, bucket[i].exp)}
           Lefts   == {Keep - Age(i) : i \in Entries}
<1>4. Oldests # {}
  <2>1. Lefts \in SUBSET Nat /\ Lefts # {}
    <3>1. \A i \in Entries : Keep - Age(i) \in Nat
      BY <1>1, ClockFacts
    <3>2. 1 \in Entries
      BY ClockFacts DEF Entries
    <3> QED  BY <3>1, <3>2
  <2>5. Min(Lefts) \in Lefts /\ \A y \in Lefts : Min(Lefts) <= y
    BY <2>1, MinIsIn
  <2>2. PICK i \in Entries : \A y \in Lefts : Keep - Age(i) <= y
    BY <2>5
  <2>3. \A j \in Entries : Age(j) <= Age(i)
    <3>1. \A j \in Entries : Keep - Age(i) <= Keep - Age(j)
      BY <2>2
    <3> QED  BY <1>1, <3>1, ClockFacts
  <2>4. i \in Oldests
    BY <1>3, <2>3
  <2> QED  BY <2>4
<1>5. Oldests \in SUBSET Nat
  BY DEF Entries
<1>6. OldestOne \in Oldests
  <2>1. Min(Oldests) \in Oldests
    BY <1>4, <1>5, MinIsIn
  <2> QED  BY <2>1 DEF OldestOne
<1>7. OldestOne \in Entries /\ \A j \in Entries : Past(bucket[j].exp, bucket[OldestOne].exp)
  BY <1>6
<1> QED  BY <1>1, <1>3, <1>7

\* A free entry is taken if there is one.
LEMMA SlotTaken ==
  ASSUME SeenTypeOK, Dated, idle <= Half
  PROVE  /\ Slot \in Entries
         /\ Alive(Slot) =>
              \A i \in Entries : Alive(i) /\ since[bucket[i].frame] <= since[bucket[Slot].frame]
<1> DEFINE free == {i \in Entries : ~Alive(i)}
<1>1. CASE free # {}
  <2>1. free \in SUBSET Nat
    BY DEF Entries
  <2>2. Min(free) \in free
    BY <1>1, <2>1, MinIsIn
  <2>3. Slot = Min(free)
    BY <1>1 DEF Slot
  <2> QED  BY <2>2, <2>3
<1>2. CASE free = {}
  <2>1. \A i \in Entries : Alive(i)
    BY <1>2
  <2>2. Slot = OldestOne
    BY <1>2 DEF Slot
  <2> QED  BY <2>1, <2>2, OldestGives
<1> QED  BY <1>1, <1>2

LEMMA FramePassed == ASSUME SeenIInv, NEW f \in Copied, PassOn(f)  PROVE SeenIInv'
<1> DEFINE new == [frame |-> f, exp |-> (clock + Keep) % ClockWrap]
           w   == Slot
<1>0. SeenTypeOK /\ Beside /\ clock \in Clocks
  BY BucketFacts DEF SeenIInv
<1>1. /\ Holding(f) = {} /\ clock' = clock
      /\ bucket' = [Swept(Queue) EXCEPT ![w] = new]
      /\ idle' = IF idle > Half THEN idle ELSE 0
      /\ since' = [since EXCEPT ![f] = 0]
      /\ beside' = [g \in Copied |-> IF g = f THEN {h \in Copied \ {f} : since[h] = 0}
                                     ELSE IF since[g] < Keep THEN beside[g] \cup {f} ELSE {}]
  BY DEF PassOn
<1>2. new.frame = f /\ new.exp \in Clocks /\ (clock + Keep - new.exp) % ClockWrap = 0
  BY <1>0, AgeNew
<1>3. new # NoEntry /\ new \in [frame : Copied, exp : 0 .. ClockWrap - 1]
  BY <1>2 DEF NoEntry, Clocks
<1>4. \A i \in Entries : bucket'[i] = IF i = w THEN new ELSE IF Alive(i) THEN bucket[i] ELSE NoEntry
  <2> HIDE DEF new, w
  <2> QED  BY <1>1, SweptOnes
<1>5. \A g \in Copied : since'[g] = IF g = f THEN 0 ELSE since[g]
  BY <1>0, <1>1 DEF SeenTypeOK
<1> HIDE DEF new, w
<1>6. SeenTypeOK'
  <2>1. bucket' \in [Entries -> [frame : Copied, exp : 0 .. ClockWrap - 1] \cup {NoEntry}]
    <3>1. bucket' = [i \in Entries |-> bucket'[i]]
      BY <1>1, SweptOnes
    <3>2. \A i \in Entries : bucket'[i] \in [frame : Copied, exp : 0 .. ClockWrap - 1] \cup {NoEntry}
      BY <1>0, <1>3, <1>4 DEF SeenTypeOK
    <3> QED  BY <3>1, <3>2
  <2>2. since' \in [Copied -> 0 .. Keep]
    BY <1>0, <1>1, ClockFacts DEF SeenTypeOK
  <2>3. beside' \in [Copied -> SUBSET Copied]
    BY <1>0, <1>1 DEF SeenTypeOK
  <2>4. idle' \in 0 .. Half + 1
    BY <1>0, <1>1, ClockFacts DEF SeenTypeOK
  <2> QED  BY <1>0, <1>1, <2>1, <2>2, <2>3, <2>4 DEF SeenTypeOK
<1>7. Beside'
  <2>1. ASSUME NEW g \in Copied
        PROVE  beside'[g] = IF since'[g] < Keep THEN {h \in Copied \ {g} : since'[h] <= since'[g]} ELSE {}
    <3>1. \A h \in Copied : since[h] \in Nat
      BY <1>0, BucketFacts
    <3>2. CASE g = f
      <4>1. since'[g] = 0 /\ 0 < Keep
        BY <1>5, <3>2, ClockFacts
      <4>2. \A h \in Copied \ {f} : since'[h] <= 0 <=> since[h] = 0
        BY <1>5, <3>1
      <4> QED  BY <1>1, <3>2, <4>1, <4>2
    <3>3. CASE g # f
      <4>1. since'[g] = since[g]
        BY <1>5, <3>3
      <4>2. since[g] < Keep => beside[g] = {h \in Copied \ {g} : since[h] <= since[g]}
        BY <1>0 DEF Beside
      <4>3. \A h \in Copied : since'[h] <= since'[g] <=> h = f \/ since[h] <= since[g]
        BY <1>5, <3>1, <4>1
      <4> QED  BY <1>1, <3>3, <4>1, <4>2, <4>3
    <3> QED  BY <3>2, <3>3
  <2> QED  BY <2>1 DEF Beside
<1>8. ASSUME idle' <= Half  PROVE Dated' /\ Single' /\ Displaced'
  <2>1. idle <= Half /\ idle' = 0 /\ Dated /\ Single /\ Displaced
    BY <1>0, <1>1, <1>8, BucketFacts, ClockFacts DEF SeenIInv
  <2>2. /\ w \in Entries
        /\ Alive(w) => \A i \in Entries : Alive(i) /\ since[bucket[i].frame] <= since[bucket[w].frame]
    BY <1>0, <2>1, SlotTaken DEF w
  <2>3. \A i \in Entries : /\ Alive(i) <=> Used(i) /\ Age(i) < Keep
                           /\ Alive(i) => since[bucket[i].frame] = Age(i)
    BY <1>0, <2>1, YoungOnes
  <2>4. \A i \in Entries : Alive(i) => Used(i) /\ bucket[i].frame \in Copied /\ bucket[i].frame # f
    BY <1>0, <1>1, <2>3, BucketFacts DEF Holding
  <2>5. \A i \in Entries : i = w => Used(i)' /\ bucket'[i].frame = f /\ Age(i)' = 0
    <3>1. bucket'[w] = new
      BY <1>4, <2>2
    <3>4. clock' = clock /\ (clock + Keep - bucket'[w].exp) % ClockWrap = 0
      BY <1>1, <1>2, <3>1
    <3> QED  BY <1>2, <1>3, <3>1, <3>4 DEF Used, Age
  <2>6. \A i \in Entries : i # w => (Used(i)' <=> Alive(i))
                                    /\ (Alive(i) => bucket'[i] = bucket[i] /\ Age(i)' = Age(i))
    BY <1>1, <1>4, <2>4 DEF Used, Age
  <2>7. Dated'
    <3>1. ASSUME NEW i \in Entries, Used(i)'
          PROVE  /\ Age(i)' \in 0 .. Keep - 1
                 /\ since'[bucket'[i].frame] = Age(i)'
      <4>1. CASE i = w
        <5>1. bucket'[i].frame = f /\ Age(i)' = 0
          BY <2>5, <4>1
        <5>2. since'[f] = 0 /\ 0 \in 0 .. Keep - 1
          BY <1>5, ClockFacts
        <5> QED  BY <5>1, <5>2
      <4>2. CASE i # w
        <5>1. Alive(i) /\ bucket'[i] = bucket[i] /\ Age(i)' = Age(i)
          BY <2>6, <3>1, <4>2
        <5>2. Age(i) \in Nat /\ Age(i) < Keep
          BY <1>0, <2>1, <2>3, <5>1, BucketFacts, ClockFacts DEF Dated
        <5> QED  BY <1>5, <2>3, <2>4, <5>1, <5>2, ClockFacts
      <4> QED  BY <4>1, <4>2
    <3>2. ASSUME NEW i \in Entries, Used(i)'
          PROVE  /\ Age(i)' \in idle' .. idle' + Keep - 1
                 /\ since'[bucket'[i].frame] = IF Age(i)' < Keep THEN Age(i)' ELSE Keep
      BY <2>1, <3>1, <3>2, ClockFacts
    <3> QED  BY <3>2 DEF Dated
  <2>8. Single'
    <3>1. ASSUME NEW i \in Entries, NEW j \in Entries, Used(i)', Used(j)', bucket'[j].frame = bucket'[i].frame
          PROVE  i = j
      <4>1. CASE i = w /\ j # w
        BY <2>4, <2>5, <2>6, <3>1, <4>1
      <4>2. CASE j = w /\ i # w
        BY <2>4, <2>5, <2>6, <3>1, <4>2
      <4>3. CASE i # w /\ j # w
        BY <2>1, <2>4, <2>6, <3>1, <4>3 DEF Single, Names
      <4> QED  BY <4>1, <4>2, <4>3
    <3> QED  BY <3>1 DEF Single, Names
  <2>9. ASSUME NEW g \in Copied, since'[g] < Keep
        PROVE  (\E i \in Entries : Names(i, g)') \/ Cardinality(beside'[g]) >= Queue
    <3>1. CASE g = f
      <4>1. \A i \in Entries : i = w => Names(i, g)'
        BY <2>5, <3>1 DEF Names
      <4>2. \E i \in Entries : i = w
        BY <2>2
      <4> QED  BY <4>1, <4>2
    <3>2. CASE g # f
      <4>0. since[g] < Keep /\ beside'[g] = beside[g] \cup {f}
        BY <1>1, <1>5, <2>9, <3>2
      <4>1. IsFiniteSet(beside[g]) /\ IsFiniteSet(beside'[g])
        BY <1>0, <1>6, FS_Subset, SeenAssumption DEF SeenAssumption, SeenTypeOK
      <4>2. CASE \A i \in Entries : ~Names(i, g)
        <5>1. Cardinality(beside[g]) >= Queue
          BY <2>1, <4>0, <4>2 DEF Displaced
        <5>2. Cardinality(beside[g]) <= Cardinality(beside'[g])
          BY <4>0, <4>1, FS_Subset
        <5>3. Cardinality(beside[g]) \in Nat /\ Cardinality(beside'[g]) \in Nat
          BY <4>1, FS_CardinalityType
        <5> QED  BY <5>1, <5>2, <5>3, ClockFacts
      <4>3. ASSUME NEW i \in Entries, Names(i, g)
            PROVE  (\E j \in Entries : Names(j, g)') \/ Cardinality(beside'[g]) >= Queue
        <5>1. Alive(i) /\ bucket[i].frame = g
          <6>1. Used(i) /\ bucket[i].frame = g
            BY <4>3 DEF Names
          <6>2. Age(i) < Keep
            BY <1>0, <2>1, <4>0, <6>1, BucketFacts, ClockFacts DEF Dated
          <6> QED  BY <2>3, <6>1, <6>2
        <5>2. CASE i # w
          BY <2>6, <5>1, <5>2 DEF Names
        <5>3. CASE i = w
          <6>1. \A j \in Entries : Alive(j) /\ since[bucket[j].frame] <= since[g]
            BY <2>2, <5>1, <5>3
          <6>2. \A j, k \in Entries : bucket[j].frame = bucket[k].frame => j = k
            BY <2>1, <2>4, <6>1 DEF Single, Names
          <6>3. beside[g] = {h \in Copied \ {g} : since[h] <= since[g]}
            BY <1>0, <4>0 DEF Beside
          <6> DEFINE put == [j \in Entries |-> IF j = w THEN f ELSE bucket[j].frame]
          <6>4. ASSUME NEW j \in Entries  PROVE put[j] \in beside'[g]
            <7>1. CASE j = w
              BY <4>0, <7>1
            <7>2. CASE j # w
              <8>1. bucket[j].frame # g
                BY <2>2, <5>1, <5>3, <6>2, <7>2
              <8> QED  BY <2>4, <4>0, <6>1, <6>3, <7>2, <8>1
            <7> QED  BY <7>1, <7>2
          <6>5. \A j, k \in Entries : put[j] = put[k] => j = k
            BY <2>4, <6>1, <6>2
          <6>6. put \in Injection(Entries, beside'[g])
            <7>1. put \in [Entries -> beside'[g]]
              BY <6>4
            <7> HIDE DEF put
            <7> QED  BY <6>5, <7>1 DEF Injection, IsInjective
          <6>7. Cardinality(Entries) <= Cardinality(beside'[g])
            BY <4>1, <6>6, FS_Injection
          <6>8. Cardinality(Entries) = Queue
            <7>1. 1 \in Int /\ Queue \in Int /\ ~(1 > Queue) /\ Queue - 1 + 1 = Queue
              BY ClockFacts
            <7> QED  BY <7>1, FS_Interval DEF Entries
          <6>9. Cardinality(beside'[g]) \in Nat
            BY <4>1, FS_CardinalityType
          <6> QED  BY <6>7, <6>8, <6>9, ClockFacts
        <5> QED  BY <5>2, <5>3
      <4> QED  BY <4>2, <4>3
    <3> QED  BY <3>1, <3>2
  <2> QED  BY <2>7, <2>8, <2>9 DEF Displaced
<1> QED  BY <1>6, <1>7, <1>8 DEF SeenIInv

LEMMA SeenStep == SeenIInv /\ [SeenNext]_seenvars => SeenIInv'
<1> SUFFICES ASSUME SeenIInv, [SeenNext]_seenvars PROVE SeenIInv'
  OBVIOUS
<1>1. CASE UNCHANGED seenvars
  <2>1. UNCHANGED <<clock, idle, since, beside>> /\ bucket' = bucket
    BY <1>1 DEF seenvars
  <2>2. bucket' = [i \in Entries |-> bucket'[i]]
    BY <2>1, BucketFacts DEF SeenIInv
  <2> QED  BY <2>1, <2>2, Cleared
<1> QED  BY <1>1, CopySeen, FramePassed, TimePasses DEF SeenNext

\* A group frame whose copy comes within its time is known, unless as many others as the bucket
\* has entries were passed on since; one that was not passed on in that time is taken for new.
\* So for any bucket, time to keep and clock that wraps, as long as half the clock's period
\* never goes by without a new frame in the bucket (umac_mesh_rmc_check).
THEOREM SeenAreKnown == SeenSpec => []SeenInv
BY SeenStart, SeenStep, SeenFollows, PTL DEF SeenSpec
=============================================================================
