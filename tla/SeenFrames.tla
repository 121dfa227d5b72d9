----------------------------- MODULE SeenFrames -----------------------------
(* The cache of group frames seen (umac_mesh_rmc.c): one bucket, which the  *)
(* numbers of other buckets do not touch.  A frame is its source and its    *)
(* number; copies of it come by several neighbours.                         *)
EXTENDS Integers, FiniteSets, FiniteSetsExt

CONSTANTS
  Copied,     \* the frames whose copies come
  Queue,      \* UMAC_MESH_RMC_QUEUE
  Keep,       \* UMAC_MESH_RMC_TIMEOUT_MS
  ClockWrap   \* 2^32: the milliseconds wrap

ASSUME SeenAssumption ==
  /\ {Queue, Keep} \subseteq Nat \ {0}
  /\ ClockWrap \in Nat /\ ClockWrap % 2 = 0 /\ 2 * Keep < ClockWrap
  /\ IsFiniteSet(Copied)

VARIABLES
  clock,   \* now_ms
  bucket,  \* rmc->e[bucket_(seq)]
  idle,    \* history: how long no new frame came; half the clock's period is remembered
  since,   \* history, of every frame: how long since it was passed on; Keep: longer, or never
  beside   \* history, of every frame: the others passed on in that millisecond or later
seenvars == <<clock, bucket, idle, since, beside>>

Entries == 1 .. Queue
NoEntry == [exp |-> 0]
Half == ClockWrap \div 2

SeenInit ==
  /\ clock \in {0, ClockWrap - 1} /\ idle = 0
  /\ bucket = [i \in Entries |-> NoEntry]
  /\ since = [f \in Copied |-> Keep] /\ beside = [f \in Copied |-> {}]

\* past_
Past(now, t) == (now - t) % ClockWrap < Half

Alive(i)   == bucket[i] # NoEntry /\ ~Past(clock, bucket[i].exp)
Holding(f) == {i \in Entries : Alive(i) /\ bucket[i].frame = f}

\* the entry that makes room
FirstOne == 1
OldestOne == Min({i \in Entries : \A j \in Entries : Past(bucket[j].exp, bucket[i].exp)})
Slot == LET free == {i \in Entries : ~Alive(i)} IN IF free # {} THEN Min(free) ELSE OldestOne

\* What the walk up to entry n has cleared.
Swept(n) == [i \in Entries |-> IF i <= n /\ ~Alive(i) THEN NoEntry ELSE bucket[i]]

\* umac_mesh_rmc_check: seen, ...
Duplicate(f) ==
  /\ Holding(f) # {}
  /\ bucket' = Swept(Min(Holding(f)))
  /\ UNCHANGED <<clock, idle, since, beside>>

\* ... or not, and the frame is delivered and passed on.
PassOn(f) ==
  /\ Holding(f) = {}
  /\ bucket' = [Swept(Queue) EXCEPT ![Slot] = [frame |-> f, exp |-> (clock + Keep) % ClockWrap]]
  /\ idle' = IF idle > Half THEN idle ELSE 0
  /\ since' = [since EXCEPT ![f] = 0]
  /\ beside' = [g \in Copied |-> IF g = f THEN {h \in Copied \ {f} : since[h] = 0}
                                 ELSE IF since[g] < Keep THEN beside[g] \cup {f} ELSE {}]
  /\ UNCHANGED clock

Later ==
  /\ clock' = (clock + 1) % ClockWrap
  /\ idle' = Min({idle + 1, Half + 1})
  /\ since' = [f \in Copied |-> Min({since[f] + 1, Keep})]
  /\ beside' = [f \in Copied |-> IF since'[f] = Keep THEN {} ELSE beside[f]]
  /\ UNCHANGED bucket

SeenNext == (\E f \in Copied : Duplicate(f) \/ PassOn(f)) \/ Later
SeenSpec == SeenInit /\ [][SeenNext]_seenvars

-----------------------------------------------------------------------------
SeenTypeOK ==
  /\ clock \in 0 .. ClockWrap - 1 /\ idle \in 0 .. Half + 1
  /\ bucket \in [Entries -> [frame : Copied, exp : 0 .. ClockWrap - 1] \cup {NoEntry}]
  /\ since \in [Copied -> 0 .. Keep] /\ beside \in [Copied -> SUBSET Copied]

\* A frame is passed on a second time only after its time, or after as many others as the
\* bucket has entries.
Remembered ==
  \A f \in Copied : (since[f] < Keep /\ Cardinality(beside[f]) < Queue) => Holding(f) # {}

\* A frame that was not passed on for that time is never taken for a copy.
TakenForNew ==
  \A f \in Copied : since[f] = Keep => Holding(f) = {}

\* Both, until a bucket has had no new frame for half the clock's period: nothing else clears
\* an entry, and one left that long after its time reads as live again.
SeenInv == SeenTypeOK /\ (idle <= Half => Remembered /\ TakenForNew)
=============================================================================
