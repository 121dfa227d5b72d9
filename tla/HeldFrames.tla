----------------------------- MODULE HeldFrames -----------------------------
(* Frames held while a path is sought (umac_mesh_fwd.c, its glue): our own, *)
(* pushed by the netif task, and those we relay, pushed by the event loop.  *)
(*                                                                          *)
(* Our own are asked for again by every flush: after each path selection    *)
(* frame and by the service tick.  Relayed ones climb a ladder of their     *)
(* own, driven by one timer.  Every PREQ passes one gate.  A frame leaves   *)
(* when a path is installed, when it has waited too long, or when a newer   *)
(* one needs its slot.                                                      *)
(*                                                                          *)
(* The lock makes each push, each take and each walk of the slots one step; *)
(* frames are sent outside it, one by one.  The tasks serve what is due     *)
(* before time goes on.  Times are ages.  With at most as many targets as   *)
(* the gate has entries, none loses its own.                                *)
EXTENDS Integers, FiniteSets, FiniteSetsExt

CONSTANTS
  Targets, NoTarget,
  OwnMax,       \* UMAC_MESH_PENDING_MAX
  RelayMax,     \* UMAC_MESH_PENDING_RELAY_MAX
  PerTarget,    \* UMAC_MESH_PENDING_PER_TARGET
  OwnLife,      \* UMAC_MESH_PENDING_MS
  FirstGap,     \* UMAC_MESH_RELAY_DISC_FIRST_MS
  GapCap,       \* UMAC_MESH_RELAY_DISC_CAP_MS
  Retries,      \* UMAC_MESH_RELAY_PREQ_RETRIES
  MinInterval,  \* UMAC_MESH_PREQ_MIN_INTERVAL_MS
  GlobalMin,    \* UMAC_MESH_PREQ_GLOBAL_MIN_MS
  Every,        \* period of the service tick
  MaxRefused,   \* bound: PREQs the radio refuses
  MaxSteps     \* bound: frames ever held and PREQs refused

ASSUME HeldAssumption ==
  /\ {OwnMax, RelayMax, PerTarget, OwnLife, FirstGap, GapCap, MinInterval, GlobalMin, Every}
       \subseteq Nat \ {0}
  /\ {Retries, MaxRefused, MaxSteps} \subseteq Nat
  /\ PerTarget <= OwnMax /\ PerTarget <= RelayMax
  /\ MinInterval <= FirstGap /\ GlobalMin <= MinInterval /\ NoTarget \notin Targets

\* As many targets as the gate has entries are let pass one by one within the interval.
ASSUME GateAssumption ==
  /\ IsFiniteSet(Targets) /\ Cardinality(Targets) * GlobalMin <= MinInterval
  /\ 2 * GlobalMin <= MinInterval

VARIABLES
  slots,    \* s_pend.e: the held frames
  pushed,   \* s_pend.order: how many have ever been held
  paths,    \* the targets that there is a path to, of those that a frame is for
  passed,    \* the gate, of every target: how long ago it let one pass
  passedAny, \* the same of any target
  went,     \* the ages of the PREQs that went out; the gate keeps the last
  stage,    \* what the event loop is in
  out,      \* frames taken by it and not yet sent
  later,    \* the target of the PREQ queued for the event loop (s_grp_out)
  fresh,    \* the target of the frame that the netif task found no path for
  tick, alarm,  \* until the service tick, until the relay timer
  refused
heldvars == <<slots, pushed, paths, passed, passedAny, went, stage, out, later, fresh,
              tick, alarm, refused>>
gate == <<passed, passedAny, went, later, refused>>

-----------------------------------------------------------------------------
Gap[k \in 0 .. Retries] == IF k = 0 THEN FirstGap ELSE Min({2 * Gap[k - 1], GapCap})

\* umac_mesh_relay_ask_ms
AskAt[k \in 0 .. Retries + 1] == IF k = 0 THEN 0 ELSE AskAt[k - 1] + Gap[k - 1]
GiveUp == AskAt[Retries + 1]

OwnSlots   == 1 .. OwnMax
RelaySlots == OwnMax + 1 .. OwnMax + RelayMax
Slots      == OwnSlots \cup RelaySlots
LifeOf(s)  == IF s \in OwnSlots THEN OwnLife ELSE GiveUp

\* No frame gets this old: its timer is late by less than GlobalMin.
Old == Max({GiveUp + GlobalMin, OwnLife + Every + 1})
Off == GiveUp + 1  \* no timer is registered

Empty == [n |-> 0, target |-> NoTarget, age |-> 0, asks |-> 0, askAge |-> 0]
InUse(s)   == slots[s] # Empty
Live(s)    == InUse(s) /\ slots[s].age < LifeOf(s)
LiveFor(S, t) == {s \in S : Live(s) /\ slots[s].target = t}

HeldInit ==
  /\ slots = [s \in Slots |-> Empty] /\ pushed = 0
  /\ paths = {}
  /\ passed = [t \in Targets |-> MinInterval] /\ passedAny = GlobalMin
  /\ went = [t \in Targets |-> {}]
  /\ stage = "idle" /\ out = <<>> /\ later = NoTarget /\ fresh = NoTarget
  /\ tick = Every /\ alarm = Off /\ refused = 0

-----------------------------------------------------------------------------
\* pend_put_
Oldest(S) == CHOOSE s \in S : \A r \in S : slots[s].n <= slots[r].n
Victim(S, t) ==
  LET same == LiveFor(S, t)
      gone == {s \in S : ~Live(s)}
  IN  IF Cardinality(same) >= PerTarget THEN Oldest(same)
      ELSE IF gone # {} THEN Min(gone)
      ELSE Oldest(S)

Pushed(S, f) == [slots EXCEPT ![Victim(S, f.target)] = [f EXCEPT !.n = pushed + 1]]

\* umac_mesh_pending_push
Own(t) == [Empty EXCEPT !.target = t]

\* umac_mesh_pending_push_relayed: it joins the discovery under way.
Relayed(t) == LET same == LiveFor(RelaySlots, t)
              IN  IF same = {} THEN Own(t) ELSE slots[Min(same)]

-----------------------------------------------------------------------------
\* umac_mesh_preq_gate_allow, for a target that passes it
Allowed(t) == passed[t] >= MinInterval /\ passedAny >= GlobalMin
Allow(t) == passed' = [passed EXCEPT ![t] = 0] /\ passedAny' = 0

Room == pushed + refused + (IF fresh = NoTarget THEN 0 ELSE 1) < MaxSteps

\* umac_mesh_preq_gate_sent, or the radio refused it
Sent(t) == went' = [went EXCEPT ![t] = @ \cup {0}] /\ UNCHANGED refused
Refused == Room /\ refused < MaxRefused /\ refused' = refused + 1 /\ UNCHANGED went

\* umac_mesh_pending_targets and umac_mesh_pending_ask_due, of the slots sl
Waiting(sl) == {s \in OwnSlots : sl[s] # Empty /\ sl[s].age < OwnLife}
Due(sl) == {s \in RelaySlots : /\ sl[s] # Empty /\ sl[s].age < GiveUp
                               /\ sl[s].asks <= Retries /\ sl[s].age >= AskAt[sl[s].asks]}

\* A PREQ held back starts the wait again.
AskFirstAnew(sl, S) ==
  LET pass == {s \in S : Allowed(sl[s].target)} IN
  IF pass = {}
  THEN /\ passed' = [t \in Targets |-> IF \E s \in S : sl[s].target = t THEN 0 ELSE passed[t]]
       /\ UNCHANGED <<passedAny, went, refused>>
  ELSE LET t == sl[Min(pass)].target IN Allow(t) /\ (Sent(t) \/ Refused)

\* maybe_preq_ for each in turn: the first that passes the gate closes it to the others.
AskFirst(sl, S) ==
  LET pass == {s \in S : Allowed(sl[s].target)} IN
  IF pass = {} THEN UNCHANGED <<passed, passedAny, went, refused>>
  ELSE LET t == sl[Min(pass)].target IN Allow(t) /\ (Sent(t) \/ Refused)

\* Each PREQ may take many.
StepsAgain(f, age) ==
  f.age - age < GiveUp /\ f.asks <= Retries /\ f.age >= AskAt[f.asks]

\* umac_mesh_pending_asked: the PREQ of that age takes a step.
Steps(f, age) ==
  /\ f.age - age < GiveUp /\ f.asks <= Retries /\ f.age - age >= AskAt[f.asks]
  /\ f.asks = 0 \/ age < f.askAge

Climb(f, last) == IF last # {} /\ Steps(f, Min(last))
                  THEN [f EXCEPT !.asks = @ + 1, !.askAge = Min(last)] ELSE f

\* maybe_preq_ for the targets waiting in S; then relay_ask_.
Ask(sl, S) ==
  /\ AskFirst(sl, S \cup Due(sl))
  /\ LET due == {sl[s].target : s \in Due(sl)} IN
     slots' = [s \in Slots |-> IF s \in RelaySlots /\ sl[s].target \in due
                               THEN Climb(sl[s], went'[sl[s].target]) ELSE sl[s]]

\* umac_mesh_pending_next_ms, of one frame
NextOf(f) == IF f.age >= GiveUp THEN 0
             ELSE IF f.asks > Retries THEN GiveUp - f.age
             ELSE Max({AskAt[f.asks] - f.age, 0})

\* relay_arm_, given what is left of the timer
Arm(left) ==
  LET nexts == {NextOf(slots'[s]) : s \in {r \in RelaySlots : slots'[r] # Empty}}
      d     == IF Min(nexts) = 0 THEN GlobalMin ELSE Min(nexts)
  IN  alarm' = IF nexts = {} THEN left ELSE Min({d, left})

-----------------------------------------------------------------------------
\* A path that no frame is for is not followed: when one comes, it may be there or not.
Sought(t)   == fresh = t \/ \E s \in Slots : slots[s].target = t
Followed(S) == {t \in S : Sought(t)}

(* The netif task.                                                          *)

\* maybe_preq_ off the loop: the PREQ is queued for it.
AskLater(t) == IF Allowed(t) THEN Allow(t) /\ later' = t
               ELSE UNCHANGED <<passed, passedAny, later>>

\* umac_mesh_fwd_glue_next_hop finds none.
LookUp(t) ==
  /\ fresh = NoTarget /\ t \notin paths /\ Room
  /\ fresh' = t /\ AskLater(t)
  /\ UNCHANGED <<slots, pushed, paths, went, stage, out, tick, alarm, refused>>

\* umac_mesh_fwd_glue_next_hop finds a path about to lapse, and the frame goes.
Refresh(t) ==
  /\ fresh = NoTarget /\ (Sought(t) => t \in paths) /\ Allowed(t) /\ AskLater(t)
  /\ UNCHANGED <<slots, pushed, paths, went, stage, out, fresh, tick, alarm, refused>>

\* held, as the lookup said
HoldAnyway(t) == TRUE

\* umac_mesh_fwd_glue_tx_pending: held, unless a path has come meanwhile.
Hold(t) == t \notin paths

TxPending ==
  /\ fresh # NoTarget /\ fresh' = NoTarget
  /\ IF Hold(fresh) THEN slots' = Pushed(OwnSlots, Own(fresh)) /\ pushed' = pushed + 1
     ELSE UNCHANGED <<slots, pushed>>
  /\ UNCHANGED <<paths, gate, stage, out, tick, alarm>>

-----------------------------------------------------------------------------
(* The event loop.                                                          *)

\* umac_mesh_fwd_glue_hwmp_rx: a path comes or goes, or neither.
HwmpRx(t) ==
  /\ stage = "idle" /\ Sought(t) /\ stage' = "flush"
  /\ paths' \in {paths, paths \cup {t}, paths \ {t}}
  /\ UNCHANGED <<slots, pushed, gate, out, fresh, tick, alarm>>

\* umac_mesh_fwd_glue_tick
ServiceTick ==
  /\ stage = "idle" /\ tick = 0
  /\ stage' = "flush" /\ tick' = Every
  /\ UNCHANGED <<slots, pushed, paths, gate, out, fresh, alarm>>

\* relay_timer_
RelayTimer ==
  /\ stage = "idle" /\ alarm = 0
  /\ stage' = "timer" /\ alarm' = Off
  /\ UNCHANGED <<slots, pushed, paths, gate, out, fresh, tick>>

\* umac_mesh_pending_take: what may go or has waited too long, oldest first
Taken == {s \in Slots : InUse(s) /\ (Live(s) => slots[s].target \in paths)}
AsTheyLie(s, r) == s < r
OldestFirst(s, r) == slots[s].n < slots[r].n
Sorted(S) == CHOOSE in \in [1 .. Cardinality(S) -> S] :
               \A i, j \in DOMAIN in : i < j => OldestFirst(in[i], in[j])
Frames(S) == LET in == Sorted(S) IN
             [i \in DOMAIN in |-> [n |-> slots[in[i]].n, target |-> slots[in[i]].target,
                                   own |-> in[i] \in OwnSlots]]

Take ==
  /\ stage \in {"flush", "timer"}
  /\ out' = Frames(Taken)
  /\ slots' = [s \in Slots |-> IF s \in Taken THEN Empty ELSE slots[s]]
  /\ stage' = IF stage = "flush" THEN "flushing" ELSE "timing"
  /\ UNCHANGED <<pushed, paths, gate, fresh, tick, alarm>>

\* release_pending_ sends each to its next hop, or drops it; flush_pending_ asks again.
FlushAsk ==
  /\ stage = "flushing" /\ stage' = "idle" /\ out' = <<>> /\ paths' = Followed(paths)
  /\ Ask(slots, Waiting(slots))
  /\ UNCHANGED <<pushed, later, fresh, tick, alarm>>

\* the same of relay_timer_
TimerAsk ==
  /\ stage = "timing" /\ stage' = "idle" /\ out' = <<>> /\ paths' = Followed(paths)
  /\ Ask(slots, {}) /\ Arm(alarm)
  /\ UNCHANGED <<pushed, later, fresh, tick>>

\* hold_relayed_: a frame to relay and nowhere to send it.
HoldRelayed(t) ==
  /\ stage = "idle" /\ t \notin paths /\ Room
  /\ pushed' = pushed + 1
  /\ Ask(Pushed(RelaySlots, Relayed(t)), {}) /\ Arm(alarm)
  /\ UNCHANGED <<paths, stage, out, later, fresh, tick>>

\* mesh_grp_out_evt_, then umac_mesh_fwd_glue_deferred_sent
SendLater ==
  /\ stage = "idle" /\ later # NoTarget /\ later' = NoTarget
  /\ Sent(later) \/ Refused
  /\ UNCHANGED <<slots, pushed, paths, passed, passedAny, stage, out, fresh, tick, alarm>>

\* A path lapses or its next hop is lost.
PathLost(t) ==
  /\ stage = "idle" /\ t \in paths /\ paths' = paths \ {t}
  /\ UNCHANGED <<slots, pushed, gate, stage, out, fresh, tick, alarm>>

\* Time goes on when nothing is due.  A PREQ older than every frame that it may count for
\* is forgotten.
Counts(t, a) == \E s \in RelaySlots : InUse(s) /\ slots[s].target = t /\ slots[s].age >= a
Up(age, max) == Min({age + 1, max})
Pass ==
  /\ stage = "idle" /\ later = NoTarget /\ fresh = NoTarget /\ tick > 0 /\ alarm > 0
  /\ slots' = [s \in Slots |-> IF InUse(s)
                               THEN [slots[s] EXCEPT !.age = Up(@, Old), !.askAge = Up(@, Old)]
                               ELSE Empty]
  /\ passed' = [t \in Targets |-> Up(passed[t], MinInterval)] /\ passedAny' = Up(passedAny, GlobalMin)
  /\ went' = [t \in Targets |-> {a + 1 : a \in {b \in went[t] : Counts(t, b)}}]
  /\ tick' = tick - 1 /\ alarm' = IF alarm = Off THEN Off ELSE alarm - 1
  /\ UNCHANGED <<pushed, paths, stage, out, later, fresh, refused>>

HeldNext ==
  \/ \E t \in Targets : LookUp(t) \/ Refresh(t) \/ HwmpRx(t) \/ HoldRelayed(t) \/ PathLost(t)
  \/ TxPending \/ ServiceTick \/ RelayTimer \/ Take \/ FlushAsk \/ TimerAsk
  \/ SendLater \/ Pass

HeldSpec == HeldInit /\ [][HeldNext]_heldvars

-----------------------------------------------------------------------------
Frame == [n : 1 .. MaxSteps, target : Targets, age : 0 .. Old, asks : 0 .. Retries + 1, askAge : 0 .. Old]
HeldTypeOK ==
  /\ slots \in [Slots -> Frame \cup {Empty}] /\ pushed \in 0 .. MaxSteps
  /\ paths \subseteq Targets
  /\ passed \in [Targets -> 0 .. MinInterval] /\ passedAny \in 0 .. GlobalMin
  /\ went \in [Targets -> SUBSET (0 .. Old)]
  /\ stage \in {"idle", "flush", "flushing", "timer", "timing"}
  /\ {later, fresh} \subseteq Targets \cup {NoTarget}
  /\ tick \in 0 .. Every /\ alarm \in 0 .. Off /\ refused \in 0 .. MaxRefused

\* No frame is held while there is a path for it and the loop has done its work: whichever
\* of the netif task and the loop comes second, the push or the installed path, sees the other.
NoneStranded ==
  stage = "idle" => \A s \in Slots : InUse(s) => slots[s].target \notin paths

\* A flow leaves as it came, whatever slots its frames were given.
InOrder ==
  \A i \in DOMAIN out :
    /\ \A j \in DOMAIN out :
         (i < j /\ out[i].target = out[j].target /\ out[i].own = out[j].own) => out[i].n < out[j].n
    /\ \A s \in Slots : (slots[s].target = out[i].target /\ out[i].own = (s \in OwnSlots))
                        => out[i].n < slots[s].n

\* No frame keeps its buffer longer than it should: ours goes with the first tick after its
\* time, a relayed one with its timer, which a closed gate puts off by GlobalMin.
NoneOverdue ==
  \A s \in Slots : InUse(s) =>
    IF s \in OwnSlots THEN slots[s].age <= OwnLife + Every ELSE slots[s].age < GiveUp + GlobalMin

\* A step of the ladder stands for a PREQ of its own, ...
Honest ==
  \A s \in RelaySlots : InUse(s) =>
    slots[s].asks <= Cardinality({a \in went[slots[s].target] : a <= slots[s].age})

\* ... and is taken soon after it falls due and the last PREQ is out, when the radio refuses
\* none: the gate, which our own traffic and the other targets close too, and the timer, which
\* waits for it, delay it by no more.
Late(f) == LET due == f.age - AskAt[f.asks] IN
           IF f.asks > 0 /\ f.askAge <= due THEN f.askAge - 1 ELSE due
Slack == MinInterval + (Cardinality(Targets) + 1) * GlobalMin - 1
OnTime ==
  (stage = "idle" /\ refused = 0) =>
    \A s \in RelaySlots : (Live(s) /\ slots[s].asks <= Retries) => Late(slots[s]) < Slack

HeldInv == HeldTypeOK /\ InOrder /\ NoneOverdue /\ Honest
=============================================================================
