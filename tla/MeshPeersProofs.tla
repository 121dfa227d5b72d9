-------------------------- MODULE MeshPeersProofs --------------------------
(***************************************************************************)
(* Proofs about the mesh peer table for every number of slots, heap        *)
(* blocks, reader tasks and neighbours: the types, the inductive invariant *)
(* IInv of MeshPeers, and from it that no reader follows a freed pointer.  *)
(***************************************************************************)
EXTENDS MeshPeers, FiniteSetTheorems, TLAPS

(***************************************************************************)
(* mesh_reclaim_locked_ on any well-typed arguments.                       *)
(***************************************************************************)
\* It detaches records of dying and nothing else, and leaves every slot either as it was
\* or empty.
LEMMA ReclaimType ==
  ASSUME NEW rd \in [Sides -> Nat], NEW c \in Sides,
         NEW d \in [Slots -> Pointer], NEW o \in [Slots -> BOOLEAN]
  PROVE  LET res == Reclaim(rd, c, d, o) IN
         /\ res.cur \in Sides
         /\ res.dying \in [Slots -> Pointer]
         /\ res.old \in [Slots -> BOOLEAN]
         /\ res.out \in SUBSET Records
  BY DEF Reclaim, Sides, Pointer, Waiting, OldOnes

\* What it detaches was retired in a slot it empties, and what it empties it detaches.
LEMMA ReclaimMoves ==
  ASSUME NEW rd \in [Sides -> Nat], NEW c \in Sides,
         NEW d \in [Slots -> Pointer], NEW o \in [Slots -> BOOLEAN]
  PROVE  LET res == Reclaim(rd, c, d, o) IN
         /\ \A i \in Slots : res.dying[i] \in {d[i], None}
         /\ \A p \in res.out : \E i \in Slots : d[i] = p /\ p # None /\ res.dying[i] = None
         /\ \A i \in Slots : d[i] # None /\ res.dying[i] = None => d[i] \in res.out
  BY DEF Reclaim, Sides, Pointer, Waiting, OldOnes

\* A record is detached when nobody is inside, or when it is old and its side has drained.
LEMMA ReclaimGrace ==
  ASSUME NEW rd \in [Sides -> Nat], NEW c \in Sides,
         NEW d \in [Slots -> Pointer], NEW o \in [Slots -> BOOLEAN],
         NEW i \in Slots, d[i] # None, Reclaim(rd, c, d, o).dying[i] = None
  PROVE  rd[1 - c] = 0 /\ (rd[c] = 0 \/ o[i])
  BY DEF Reclaim, Sides, Pointer, Waiting, OldOnes

\* A record that stays old was old already on the same sides, or the drained side is the
\* one new readers join from now on.
LEMMA ReclaimOld ==
  ASSUME NEW rd \in [Sides -> Nat], NEW c \in Sides,
         NEW d \in [Slots -> Pointer], NEW o \in [Slots -> BOOLEAN],
         NEW i \in Slots, Reclaim(rd, c, d, o).dying[i] # None,
         Reclaim(rd, c, d, o).old[i]
  PROVE  \/ o[i] /\ Reclaim(rd, c, d, o).cur = c
         \/ rd[1 - c] = 0 /\ Reclaim(rd, c, d, o).cur = 1 - c
  BY DEF Reclaim, Sides, Pointer, Waiting, OldOnes

\* What it leaves waiting waits for a reader on the side that drains.
LEMMA ReclaimStrandsNone ==
  ASSUME NEW rd \in [Sides -> Nat], NEW c \in Sides,
         NEW d \in [Slots -> Pointer], NEW o \in [Slots -> BOOLEAN],
         NEW i \in Slots, Reclaim(rd, c, d, o).dying[i] # None
  PROVE  rd[1 - Reclaim(rd, c, d, o).cur] > 0
  BY DEF Reclaim, Sides, Pointer, Waiting, OldOnes

\* The loop and its closed form.
LEMMA TwoTurnsEnd ==
  ASSUME NEW rd \in [Sides -> Nat], NEW c \in Sides,
         NEW d \in [Slots -> Pointer], NEW o \in [Slots -> BOOLEAN]
  PROVE  LET l == TwoTurns(rd, c, d, o) IN
         ~l.going /\ Reclaim(rd, c, d, o) = [cur |-> l.cur, dying |-> l.dying, old |-> l.old, out |-> l.out]
<1> DEFINE b == [cur |-> c, dying |-> d, old |-> o, out |-> {}, going |-> TRUE]
           h == Turn(rd, b)
           l == Turn(rd, h)
           w == Waiting(d, o)
           g == OldOnes(d, o)
           d1 == [i \in Slots |-> IF i \in g THEN None ELSE d[i]]
           o1 == [i \in Slots |-> o[i] \/ i \in w]
           out1 == {d[i] : i \in g}
<1>1. l = TwoTurns(rd, c, d, o)
  BY DEF TwoTurns
<1>2. CASE rd[1 - c] # 0
  <2>1. h = [cur |-> c, dying |-> d, old |-> o, out |-> {}, going |-> FALSE]
    BY <1>2 DEF Turn
  <2>2. Reclaim(rd, c, d, o) = [cur |-> c, dying |-> d, old |-> o, out |-> {}]
    <3>1. /\ \A i \in Slots : (IF i \in {} THEN None ELSE d[i]) = d[i]
          /\ \A i \in Slots : (o[i] \/ (FALSE /\ i \in w)) = o[i]
      OBVIOUS
    <3>2. d = [i \in Slots |-> d[i]] /\ o = [i \in Slots |-> o[i]]
      OBVIOUS
    <3> QED  BY <1>2, <3>1, <3>2 DEF Reclaim
  <2> HIDE DEF h
  <2>3. l = [cur |-> c, dying |-> d, old |-> o, out |-> {}, going |-> FALSE]
    BY <2>1 DEF Turn
  <2> HIDE DEF l
  <2> QED  BY <1>1, <2>2, <2>3
<1>3. CASE rd[1 - c] = 0
  <2>1. h = [cur |-> IF w = {} THEN c ELSE 1 - c, dying |-> d1, old |-> o1, out |-> out1, going |-> w # {}]
    BY <1>3 DEF Turn
  <2>2. h.cur = (IF w = {} THEN c ELSE 1 - c) /\ h.dying = d1 /\ h.old = o1 /\ h.out = out1 /\ (h.going <=> w # {})
    <3> HIDE DEF h, d1, o1, out1, w
    <3> QED  BY <2>1
  <2>3. CASE w = {} \/ rd[c] # 0
    <3>1. ~h.going \/ rd[1 - h.cur] # 0
      <4> HIDE DEF h, w
      <4>1. 1 - (1 - c) = c
        BY DEF Sides
      <4> QED  BY <2>2, <2>3, <4>1
    <3>2. l = [h EXCEPT !.going = FALSE]
      BY <3>1 DEF Turn
    <3> HIDE DEF h, l
    <3>3. ~l.going /\ l.cur = h.cur /\ l.dying = d1 /\ l.old = o1 /\ l.out = out1
      BY <2>1, <2>2, <3>2
    <3>4. Reclaim(rd, c, d, o) = [cur |-> h.cur, dying |-> d1, old |-> o1, out |-> out1]
      <4>1. CASE rd[c] # 0
        BY <1>3, <2>2, <4>1 DEF Reclaim
      <4>2. CASE rd[c] = 0
        <5>1. w = {} /\ g = {i \in Slots : d[i] # None}
          BY <2>3, <4>2 DEF Waiting, OldOnes
        <5> QED  BY <1>3, <2>2, <4>2, <5>1 DEF Reclaim
      <4> QED  BY <4>1, <4>2
    <3> QED  BY <1>1, <3>3, <3>4
  <2>4. CASE w # {} /\ rd[c] = 0
    <3> DEFINE d2 == [i \in Slots |-> IF i \in w THEN None ELSE d1[i]]
               o2 == [i \in Slots |-> o1[i] \/ i \in {}]
               out2 == out1 \cup {d1[i] : i \in w}
    <3>1. Waiting(d1, o1) = {} /\ OldOnes(d1, o1) = w
      BY DEF Waiting, OldOnes
    <3>2. h.going /\ h.cur = 1 - c /\ rd[1 - h.cur] = 0
      <4> HIDE DEF h, w
      <4>1. 1 - (1 - c) = c
        BY DEF Sides
      <4> QED  BY <2>2, <2>4, <4>1
    <3> HIDE DEF h, d1, o1, out1
    <3>3. l = [cur |-> 1 - c, dying |-> d2, old |-> o2, out |-> out2, going |-> FALSE]
      <4> DEFINE v == Waiting(h.dying, h.old)
                 u == OldOnes(h.dying, h.old)
      <4>1. l = [cur |-> IF v = {} THEN h.cur ELSE 1 - h.cur,
                 dying |-> [i \in Slots |-> IF i \in u THEN None ELSE h.dying[i]],
                 old |-> [i \in Slots |-> h.old[i] \/ i \in v],
                 out |-> h.out \cup {h.dying[i] : i \in u}, going |-> v # {}]
        BY <3>2 DEF Turn
      <4>2. v = {} /\ u = w
        BY <2>2, <3>1
      <4> HIDE DEF l, v, u, w
      <4> QED  BY <2>2, <3>2, <4>1, <4>2
    <3> HIDE DEF l
    <3>4. Reclaim(rd, c, d, o) = [cur |-> 1 - c, dying |-> d2, old |-> o2, out |-> out2]
      <4> DEFINE a == {i \in Slots : d[i] # None}
      <4>1. Reclaim(rd, c, d, o) = [cur |-> 1 - c, dying |-> [i \in Slots |-> IF i \in a THEN None ELSE d[i]],
                                    old |-> o1, out |-> {d[i] : i \in a}]
        BY <1>3, <2>4 DEF Reclaim, o1
      <4>2. a = g \cup w /\ g \cap w = {} /\ a \subseteq Slots
        BY DEF Waiting, OldOnes
      <4> HIDE DEF a, g, w
      <4>3. d2 = [i \in Slots |-> IF i \in a THEN None ELSE d[i]]
        BY <4>2 DEF d1
      <4>4. o2 = o1
        BY DEF o1
      <4>5. out2 = {d[i] : i \in a}
        BY <4>2 DEF d1, out1
      <4> HIDE DEF d2, o2, out2
      <4> QED  BY <4>1, <4>3, <4>4, <4>5
    <3> HIDE DEF d2, o2, out2
    <3> QED  BY <1>1, <3>3, <3>4
  <2> QED  BY <2>3, <2>4
<1> QED  BY <1>2, <1>3

-----------------------------------------------------------------------------
\* Type correctness: in particular the counts of s_readers never fall below zero.  The
\* step of read_end needs the exact counts, so the two are proved together.
LoopInTable == loop.pc \in {"add", "unlinked"} => loop.slot \in Slots
TypedCounts == TypeOK /\ Counted /\ LoopInTable

\* The record of one more, one fewer reader on a side.
LEMMA InsideFinite == ASSUME NEW s PROVE IsFiniteSet(Inside(s))
  BY FS_Subset, ConstantsAssumption DEF Inside

LEMMA ReadBeginCounts ==
  ASSUME TypedCounts, NEW r \in Readers, ReadBegin(r)
  PROVE  Counted'
<1>1. \A s \in Sides : Inside(s)' = IF s = cur THEN Inside(s) \cup {r} ELSE Inside(s)
  BY DEF TypedCounts, TypeOK, ReadBegin, Inside, Sides, Out
<1>2. r \notin Inside(cur)
  BY DEF ReadBegin, Inside, TypedCounts, TypeOK, Sides, Out
<1>3. Cardinality(Inside(cur) \cup {r}) = Cardinality(Inside(cur)) + 1
  BY <1>2, InsideFinite, FS_AddElement
<1>4. readers' = [readers EXCEPT ![cur] = @ + 1] /\ cur \in Sides /\ readers \in [Sides -> Nat]
  BY DEF ReadBegin, TypedCounts, TypeOK
<1> QED
  BY <1>1, <1>3, <1>4 DEF Counted, TypedCounts

LEMMA ReadEndCounts ==
  ASSUME TypedCounts, NEW r \in Readers, ReadEnd(r)
  PROVE  /\ Counted'
         /\ [readers EXCEPT ![side[r]] = @ - 1] \in [Sides -> Nat]
         /\ readers' = [readers EXCEPT ![side[r]] = @ - 1]
<1>1. side[r] \in Sides /\ r \in Inside(side[r])
  BY DEF TypedCounts, TypeOK, ReadEnd, Inside
<1>2. \A s \in Sides : Inside(s)' = IF s = side[r] THEN Inside(s) \ {r} ELSE Inside(s)
  BY <1>1 DEF TypedCounts, TypeOK, ReadEnd, Inside, Sides, Out
<1>3. Cardinality(Inside(side[r]) \ {r}) = Cardinality(Inside(side[r])) - 1
  BY <1>1, InsideFinite, FS_RemoveElement
<1>4. Cardinality(Inside(side[r]) \ {r}) \in Nat
  BY InsideFinite, FS_RemoveElement, FS_CardinalityType
<1>5. readers' = [readers EXCEPT ![side[r]] = @ - 1] /\ readers \in [Sides -> Nat]
  BY DEF ReadEnd, Detach, TypedCounts, TypeOK
<1>6. readers[side[r]] = Cardinality(Inside(side[r]))
  BY <1>1 DEF TypedCounts, Counted
<1>7. Counted'
  BY <1>1, <1>2, <1>3, <1>5, <1>6 DEF Counted, TypedCounts
<1> QED
  BY <1>1, <1>3, <1>4, <1>5, <1>6, <1>7

\* A critical section that ends in mesh_reclaim_locked_ keeps the types.
LEMMA DetachType ==
  ASSUME TypeOK, NEW t \in Tasks, NEW rd \in [Sides -> Nat],
         NEW d \in [Slots -> Pointer], NEW o \in [Slots -> BOOLEAN],
         Detach(t, rd, d, o)
  PROVE  /\ readers' \in [Sides -> Nat] /\ cur' \in Sides
         /\ dying' \in [Slots -> Pointer] /\ old' \in [Slots -> BOOLEAN]
         /\ done' \in [Tasks -> SUBSET Records]
<1> DEFINE res == Reclaim(rd, cur, d, o)
<1>1. cur \in Sides /\ done \in [Tasks -> SUBSET Records]
  BY DEF TypeOK
<1>2. res.cur \in Sides /\ res.dying \in [Slots -> Pointer]
      /\ res.old \in [Slots -> BOOLEAN] /\ res.out \in SUBSET Records
  BY <1>1, ReclaimType
<1> QED
  BY <1>1, <1>2 DEF Detach

LEMMA TypedCountsInit == Init => TypedCounts
<1> SUFFICES ASSUME Init PROVE TypedCounts
  OBVIOUS
<1>1. TypeOK
  BY ConstantsAssumption DEF Init, TypeOK, Pointer, Sides, Out, Idle, LoopState, Slots
<1>2. \A s \in Sides : Inside(s) = {}
  BY DEF Init, Inside, Sides, Out
<1>3. Counted
  BY <1>2, FS_EmptySet DEF Init, Counted
<1>4. LoopInTable
  BY DEF Init, Idle, LoopInTable
<1> QED
  BY <1>1, <1>3, <1>4 DEF TypedCounts

LEMMA TypedCountsNext == TypedCounts /\ [Next]_vars => TypedCounts'
<1> SUFFICES ASSUME TypedCounts, [Next]_vars PROVE TypedCounts'
  OBVIOUS
<1> USE ConstantsAssumption
<1>1. ASSUME NEW r \in Readers, ReadBegin(r) PROVE TypedCounts'
  <2>1. TypeOK'
    BY <1>1 DEF TypedCounts, TypeOK, ReadBegin, table, retired, Sides
  <2> QED
    BY <1>1, <2>1, ReadBeginCounts DEF TypedCounts, LoopInTable, ReadBegin
<1>2. ASSUME NEW r \in Readers, ReadEnd(r) PROVE TypedCounts'
  <2>1. [readers EXCEPT ![side[r]] = @ - 1] \in [Sides -> Nat] /\ Counted'
    BY <1>2, ReadEndCounts
  <2>2. r \in Tasks /\ dying \in [Slots -> Pointer] /\ old \in [Slots -> BOOLEAN] /\ TypeOK
    BY DEF Tasks, TypedCounts, TypeOK
  <2>3. Detach(r, [readers EXCEPT ![side[r]] = @ - 1], dying, old)
    BY <1>2 DEF ReadEnd
  <2>4. /\ readers' \in [Sides -> Nat] /\ cur' \in Sides
        /\ dying' \in [Slots -> Pointer] /\ old' \in [Slots -> BOOLEAN]
        /\ done' \in [Tasks -> SUBSET Records]
    BY <2>1, <2>2, <2>3, DetachType
  <2>5. TypeOK'
    BY <1>2, <2>2, <2>4 DEF ReadEnd, TypeOK, table
  <2> QED
    BY <1>2, <2>1, <2>5 DEF TypedCounts, LoopInTable, ReadEnd
<1>3. ASSUME NEW r \in Readers, NEW i \in Slots, Load(r, i) PROVE TypedCounts'
  BY <1>3 DEF TypedCounts, LoopInTable, TypeOK, Counted, Inside, Load, table, retired, counts, Pointer
<1>4. ASSUME NEW t \in Tasks, NEW p \in Records, FreeRetired(t, p) PROVE TypedCounts'
  BY <1>4 DEF TypedCounts, LoopInTable, TypeOK, Counted, Inside, FreeRetired, table, retired, counts, tasks
<1>5. ASSUME NEW a \in Addrs, NEW p \in Records, AddAlloc(a, p) PROVE TypedCounts'
  BY <1>5 DEF TypedCounts, LoopInTable, TypeOK, Counted, Inside, AddAlloc, table, retired, counts, tasks,
              LoopState, Pointer, Record, Slots
<1>6. CASE AddPublish
  BY <1>6 DEF TypedCounts, LoopInTable, TypeOK, Counted, Inside, AddPublish, retired, counts, tasks,
              LoopState, Pointer, Idle, Slots
<1>7. ASSUME NEW a \in Addrs, SetPeerKey(a) PROVE TypedCounts'
  BY <1>7 DEF TypedCounts, LoopInTable, TypeOK, Counted, Inside, SetPeerKey, retired, counts, tasks
<1>8. ASSUME NEW target \in Addrs \cup {AllPeers}, DelStart(target) PROVE TypedCounts'
  BY <1>8 DEF TypedCounts, LoopInTable, TypeOK, Counted, Inside, DelStart, table, retired, counts, tasks,
              LoopState, Pointer
<1>9. CASE DelUnlink
  BY <1>9 DEF TypedCounts, LoopInTable, TypeOK, Counted, Inside, DelUnlink, retired, counts, tasks,
              LoopState, Pointer, Slots
<1>10. CASE DelRetire
  <2> DEFINE d == [dying EXCEPT ![loop.slot] = loop.rec]
             o == [old EXCEPT ![loop.slot] = FALSE]
  <2>1. Detach(Loop, readers, d, o) /\ loop.slot \in Slots
    BY <1>10 DEF DelRetire, TypedCounts, LoopInTable
  <2>2. d \in [Slots -> Pointer] /\ o \in [Slots -> BOOLEAN] /\ readers \in [Sides -> Nat]
        /\ TypeOK /\ Loop \in Tasks
    BY DEF TypedCounts, TypeOK, LoopState, Tasks
  <2>3. /\ readers' \in [Sides -> Nat] /\ cur' \in Sides
        /\ dying' \in [Slots -> Pointer] /\ old' \in [Slots -> BOOLEAN]
        /\ done' \in [Tasks -> SUBSET Records]
    BY <2>1, <2>2, DetachType
  <2>4. loop' \in LoopState
    BY <1>10, <2>1, <2>2 DEF DelRetire, TypeOK, LoopState, Pointer, Slots
  <2>5. TypeOK'
    BY <1>10, <2>2, <2>3, <2>4 DEF DelRetire, TypeOK, table, tasks
  <2>6. Counted'
    BY <1>10, <2>1 DEF DelRetire, TypedCounts, Counted, Inside, tasks, Detach
  <2> QED
    BY <1>10, <2>5, <2>6 DEF TypedCounts, LoopInTable, DelRetire
<1>11. CASE DelReturn
  BY <1>11 DEF TypedCounts, LoopInTable, TypeOK, Counted, Inside, DelReturn, table, retired, counts, tasks,
               LoopState, Pointer, Idle
<1>12. CASE UNCHANGED vars
  BY <1>12 DEF TypedCounts, LoopInTable, TypeOK, Counted, Inside, vars, table, retired, counts, tasks
<1> QED
  BY <1>1, <1>2, <1>3, <1>4, <1>5, <1>6, <1>7, <1>8, <1>9, <1>10, <1>11, <1>12
     DEF Next, ReaderStep, LoopStep, LoopProgress, Freeing

\* The types hold, whatever the numbers of slots, blocks, tasks and neighbours.
THEOREM TypeCorrect == Spec => []TypeOK
<1>1. Spec => []TypedCounts
  BY TypedCountsInit, TypedCountsNext, PTL DEF Spec
<1>2. TypedCounts => TypeOK
  BY DEF TypedCounts
<1> QED
  BY <1>1, <1>2, PTL

-----------------------------------------------------------------------------
(***************************************************************************)
(* The ownership of the records and the grace period.                      *)
(***************************************************************************)
Safe == Owned /\ HeldKept /\ NothingLost /\ NoneStranded

\* What a critical section that ends in mesh_reclaim_locked_ does to the retired records.
LEMMA DetachFacts ==
  ASSUME TypeOK, NEW t \in Tasks, NEW rd \in [Sides -> Nat],
         NEW d \in [Slots -> Pointer], NEW o \in [Slots -> BOOLEAN],
         Detach(t, rd, d, o)
  PROVE  /\ \A i \in Slots : dying'[i] \in {d[i], None}
         /\ \A p \in done'[t] : \E i \in Slots : d[i] = p /\ p # None /\ dying'[i] = None
         /\ \A u \in Tasks : u # t => done'[u] = done[u]
         /\ \A i \in Slots : d[i] # None /\ dying'[i] = None =>
              /\ d[i] \in done'[t]
              /\ rd[1 - cur] = 0 /\ (rd[cur] = 0 \/ o[i])
         /\ \A i \in Slots : dying'[i] # None /\ old'[i] =>
              \/ o[i] /\ cur' = cur
              \/ rd[1 - cur] = 0 /\ cur' = 1 - cur
         /\ \A i \in Slots : dying'[i] # None => readers'[1 - cur'] > 0
         /\ readers' = rd
<1> DEFINE res == Reclaim(rd, cur, d, o)
<1>1. cur \in Sides /\ done \in [Tasks -> SUBSET Records]
  BY DEF TypeOK
<1>2. /\ readers' = rd /\ cur' = res.cur /\ dying' = res.dying /\ old' = res.old
      /\ done' = [done EXCEPT ![t] = res.out]
  BY DEF Detach
<1>3. done'[t] = res.out /\ \A u \in Tasks : u # t => done'[u] = done[u]
  BY <1>1, <1>2
<1>4. /\ \A i \in Slots : res.dying[i] \in {d[i], None}
      /\ \A p \in res.out : \E i \in Slots : d[i] = p /\ p # None /\ res.dying[i] = None
      /\ \A i \in Slots : d[i] # None /\ res.dying[i] = None => d[i] \in res.out
  BY <1>1, ReclaimMoves
<1>5. \A i \in Slots : d[i] # None /\ res.dying[i] = None =>
        rd[1 - cur] = 0 /\ (rd[cur] = 0 \/ o[i])
  BY <1>1, ReclaimGrace
<1>6. \A i \in Slots : res.dying[i] # None /\ res.old[i] =>
        \/ o[i] /\ res.cur = cur
        \/ rd[1 - cur] = 0 /\ res.cur = 1 - cur
  BY <1>1, ReclaimOld
<1>7. \A i \in Slots : res.dying[i] # None => rd[1 - res.cur] > 0
  BY <1>1, ReclaimStrandsNone
<1> HIDE DEF res
<1> QED
  BY <1>2, <1>3, <1>4, <1>5, <1>6, <1>7

\* A count of zero: no task is inside on that side.
LEMMA NobodyInside ==
  ASSUME NEW sd, NEW s, Cardinality({r \in Readers : sd[r] = s}) = 0
  PROVE  \A r \in Readers : sd[r] # s
<1>1. IsFiniteSet({r \in Readers : sd[r] = s})
  BY FS_Subset, ConstantsAssumption
<1> QED
  BY <1>1, FS_EmptySet

LEMMA SafeInit == Init => Safe
<1> SUFFICES ASSUME Init PROVE Safe
  OBVIOUS
<1>1. Owned
  BY DEF Init, Owned, Idle, LoopHas
<1>2. HeldKept
  BY DEF Init, HeldKept
<1>3. NothingLost
  BY DEF Init, NothingLost, Allocated, Tasks
<1>4. NoneStranded
  BY DEF Init, NoneStranded
<1> QED
  BY <1>1, <1>2, <1>3, <1>4 DEF Safe

LEMMA SafeReadBegin ==
  ASSUME TypedCounts, Safe, NEW r \in Readers, ReadBegin(r)
  PROVE  Safe'
<1>1. Owned' /\ NothingLost'
  BY DEF Safe, ReadBegin, Owned, NothingLost, Allocated, LoopHas, table, retired, TypedCounts, TypeOK
<1>2. holds[r] = {}
  BY DEF Safe, HeldKept, ReadBegin, TypedCounts, TypeOK
<1>3. HeldKept'
  BY <1>2 DEF Safe, ReadBegin, HeldKept, Allocated, table, retired, TypedCounts, TypeOK
<1>4. NoneStranded'
  BY DEF Safe, ReadBegin, NoneStranded, retired, TypedCounts, TypeOK, Sides
<1> QED
  BY <1>1, <1>3, <1>4 DEF Safe

LEMMA SafeLoad ==
  ASSUME TypedCounts, Safe, NEW r \in Readers, NEW i \in Slots, Load(r, i)
  PROVE  Safe'
<1>1. Owned' /\ NothingLost' /\ NoneStranded'
  BY DEF Safe, Load, Owned, NothingLost, NoneStranded, Allocated, LoopHas, table, retired, counts
<1>2. Allocated(peers[i]) /\ heap[peers[i]].slot = i /\ peers[i] \in Records
  BY DEF Safe, Owned, Load, TypedCounts, TypeOK, Pointer
<1>3. HeldKept'
  BY <1>2 DEF Safe, Load, HeldKept, Allocated, table, retired, counts, TypedCounts, TypeOK
<1> QED
  BY <1>1, <1>3 DEF Safe

LEMMA SafeReadEnd ==
  ASSUME TypedCounts, TypedCounts', Safe, NEW r \in Readers, ReadEnd(r)
  PROVE  Safe'
<1> DEFINE rd == [readers EXCEPT ![side[r]] = @ - 1]
<1>0. /\ peers' = peers /\ heap' = heap /\ loop' = loop
      /\ side' = [side EXCEPT ![r] = Out] /\ holds' = [holds EXCEPT ![r] = {}]
      /\ side[r] # Out
  BY DEF ReadEnd, table
<1>1. rd \in [Sides -> Nat] /\ readers' = rd
  BY ReadEndCounts
<1>2. TypeOK /\ r \in Tasks /\ dying \in [Slots -> Pointer] /\ old \in [Slots -> BOOLEAN]
      /\ Detach(r, rd, dying, old)
  BY DEF TypedCounts, TypeOK, Tasks, ReadEnd
<1> HIDE DEF rd
<1>3. /\ \A i \in Slots : dying'[i] \in {dying[i], None}
      /\ \A p \in done'[r] : \E i \in Slots : dying[i] = p /\ p # None /\ dying'[i] = None
      /\ \A u \in Tasks : u # r => done'[u] = done[u]
      /\ \A i \in Slots : dying[i] # None /\ dying'[i] = None =>
           /\ dying[i] \in done'[r]
           /\ rd[1 - cur] = 0 /\ (rd[cur] = 0 \/ old[i])
      /\ \A i \in Slots : dying'[i] # None /\ old'[i] =>
           \/ old[i] /\ cur' = cur
           \/ rd[1 - cur] = 0 /\ cur' = 1 - cur
      /\ \A i \in Slots : dying'[i] # None => readers'[1 - cur'] > 0
  BY <1>1, <1>2, DetachFacts
<1>4. ASSUME NEW s \in Sides, rd[s] = 0 PROVE \A q \in Readers : side'[q] # s
  <2>1. Cardinality({q \in Readers : side'[q] = s}) = 0
    BY <1>1, <1>4 DEF TypedCounts, Counted, Inside
  <2> QED
    BY <2>1, NobodyInside
<1>5. Owned'
  <2>1. \A i \in Slots : peers'[i] # None =>
          heap'[peers'[i]] # None /\ heap'[peers'[i]].slot = i /\ dying'[i] = None
    BY <1>0, <1>3 DEF Safe, Owned, Allocated
  <2>2. \A i \in Slots : dying'[i] # None => heap'[dying'[i]] # None /\ heap'[dying'[i]].slot = i
    BY <1>0, <1>3 DEF Safe, Owned, Allocated
  <2>3. /\ loop'.rec # None <=> loop'.pc \in {"add", "unlinked"}
        /\ loop'.rec # None =>
             /\ loop'.slot \in Slots
             /\ heap'[loop'.rec] # None /\ heap'[loop'.rec].slot = loop'.slot
             /\ peers'[loop'.slot] = None /\ dying'[loop'.slot] = None
    BY <1>0, <1>3 DEF Safe, Owned, Allocated
  <2>4. ASSUME NEW t \in Tasks, NEW p \in done'[t]
        PROVE  /\ heap'[p] # None /\ ~(loop'.rec = p /\ p # None)
               /\ peers'[heap'[p].slot] # p /\ dying'[heap'[p].slot] # p
               /\ \A u \in Tasks : p \in done'[u] => u = t
    <3>1. CASE t = r
      <4>1. PICK i \in Slots : dying[i] = p /\ p # None /\ dying'[i] = None
        BY <1>3, <2>4, <3>1
      <4>2. heap[p] # None /\ heap[p].slot = i /\ peers[i] # p /\ ~(loop.rec = p)
        BY <4>1 DEF Safe, Owned, Allocated
      <4>3. \A u \in Tasks : p \notin done[u]
        BY <4>1, <4>2 DEF Safe, Owned
      <4> QED
        BY <1>0, <1>3, <3>1, <4>1, <4>2, <4>3
    <3>2. CASE t # r
      <4>1. p \in done[t] /\ heap[p] # None /\ ~(loop.rec = p /\ p # None)
            /\ peers[heap[p].slot] # p /\ dying[heap[p].slot] # p
            /\ \A u \in Tasks : p \in done[u] => u = t
        BY <1>3, <2>4, <3>2 DEF Safe, Owned, Allocated, LoopHas
      <4>2. p \in Records /\ heap[p].slot \in Slots
        BY <4>1 DEF TypedCounts, TypeOK, Record
      <4>3. p \notin done'[r]
        BY <1>3, <4>1 DEF Safe, Owned
      <4> QED
        BY <1>0, <1>3, <4>1, <4>2, <4>3, ConstantsAssumption
    <3> QED
      BY <3>1, <3>2
  <2> QED
    BY <2>1, <2>2, <2>3, <2>4 DEF Owned, Allocated, LoopHas
<1>6. HeldKept'
  <2> SUFFICES ASSUME NEW q \in Readers, NEW p \in holds'[q]
               PROVE  /\ side'[q] # Out /\ heap'[p] # None
                      /\ \/ peers'[heap'[p].slot] = p
                         \/ loop'.pc = "unlinked" /\ loop'.rec = p
                         \/ /\ dying'[heap'[p].slot] = p
                            /\ old'[heap'[p].slot] => side'[q] = 1 - cur'
    BY DEF HeldKept, Allocated
  <2>1. q # r /\ p \in holds[q] /\ side'[q] = side[q] /\ side[q] \in Sides /\ p \in Records
    BY <1>0 DEF Safe, HeldKept, TypedCounts, TypeOK
  <2>2. heap[p] # None /\ heap[p].slot \in Slots
    BY <2>1, ConstantsAssumption DEF Safe, HeldKept, TypedCounts, TypeOK, Record, Allocated
  <2>3. CASE dying[heap[p].slot] = p /\ (old[heap[p].slot] => side[q] = 1 - cur)
    <3> DEFINE i == heap[p].slot
    <3>1. rd[side[q]] # 0
      BY <1>4, <2>1
    <3>2. dying'[i] = p
      BY <1>3, <2>1, <2>2, <2>3, <3>1, ConstantsAssumption DEF Sides, TypedCounts, TypeOK
    <3>3. old'[i] => side[q] = 1 - cur'
      BY <1>3, <2>1, <2>2, <2>3, <3>1, <3>2, ConstantsAssumption DEF Sides, TypedCounts, TypeOK
    <3> QED
      BY <1>0, <2>1, <2>2, <3>2, <3>3 DEF Sides, Out
  <2> QED
    BY <1>0, <2>1, <2>2, <2>3 DEF Safe, HeldKept, Sides, Out
<1>7. NothingLost'
  <2>1. ASSUME NEW p \in Records, heap'[p] # None
        PROVE  \/ peers'[heap'[p].slot] = p \/ dying'[heap'[p].slot] = p
               \/ loop'.rec = p \/ \E t \in Tasks : p \in done'[t]
    <3>1. heap[p].slot \in Slots /\ p # None
      BY <1>0, <2>1, ConstantsAssumption DEF TypedCounts, TypeOK, Record
    <3>2. done[r] = {}
      BY <1>0 DEF Safe, NothingLost
    <3>3. CASE dying[heap[p].slot] = p
      BY <1>0, <1>2, <1>3, <3>1, <3>3
    <3>4. CASE \E t \in Tasks : p \in done[t]
      BY <1>3, <3>2, <3>4
    <3> QED
      BY <1>0, <2>1, <3>3, <3>4 DEF Safe, NothingLost, Allocated
  <2>2. \A q \in Readers : side'[q] # Out => done'[q] = {}
    BY <1>0, <1>3 DEF Safe, NothingLost, TypedCounts, TypeOK, Tasks
  <2>3. loop'.pc # "scan" => done'[Loop] = {}
    BY <1>0, <1>3, ConstantsAssumption DEF Safe, NothingLost, Tasks
  <2> QED
    BY <2>1, <2>2, <2>3 DEF NothingLost, Allocated
<1>8. NoneStranded'
  BY <1>3 DEF NoneStranded
<1> QED
  BY <1>5, <1>6, <1>7, <1>8 DEF Safe

LEMMA SafeFreeRetired ==
  ASSUME TypedCounts, Safe, NEW t \in Tasks, NEW p \in Records, FreeRetired(t, p)
  PROVE  Safe'
<1>0. /\ heap' = [heap EXCEPT ![p] = None] /\ done' = [done EXCEPT ![t] = @ \ {p}]
      /\ UNCHANGED <<peers, dying, old, readers, cur, side, holds, loop>>
      /\ p \in done[t]
  BY DEF FreeRetired, table, retired, counts, tasks
<1>1. /\ \A i \in Slots : peers[i] # p /\ dying[i] # p
      /\ loop.rec # p
      /\ \A u \in Tasks : p \in done[u] => u = t
      /\ \A r \in Readers : p \notin holds[r]
  BY <1>0, ConstantsAssumption DEF Safe, Owned, HeldKept, LoopHas
<1>2. Owned'
  <2>1. /\ \A i \in Slots : peers'[i] # None =>
             heap'[peers'[i]] # None /\ heap'[peers'[i]].slot = i /\ dying'[i] = None
        /\ \A i \in Slots : dying'[i] # None => heap'[dying'[i]] # None /\ heap'[dying'[i]].slot = i
    BY <1>0, <1>1 DEF Safe, Owned, Allocated, TypedCounts, TypeOK, Pointer
  <2>2. /\ loop'.rec # None <=> loop'.pc \in {"add", "unlinked"}
        /\ loop'.rec # None =>
             /\ loop'.slot \in Slots
             /\ heap'[loop'.rec] # None /\ heap'[loop'.rec].slot = loop'.slot
             /\ peers'[loop'.slot] = None /\ dying'[loop'.slot] = None
    BY <1>0, <1>1 DEF Safe, Owned, Allocated, TypedCounts, TypeOK, LoopState, Pointer
  <2>3. ASSUME NEW u \in Tasks, NEW q \in done'[u]
        PROVE  /\ heap'[q] # None /\ ~(loop'.rec = q /\ q # None)
               /\ peers'[heap'[q].slot] # q /\ dying'[heap'[q].slot] # q
               /\ \A v \in Tasks : q \in done'[v] => v = u
    <3>1. q # p /\ q \in done[u] /\ q \in Records
      BY <1>0, <1>1, <2>3 DEF TypedCounts, TypeOK
    <3> QED
      BY <1>0, <3>1 DEF Safe, Owned, Allocated, LoopHas, TypedCounts, TypeOK
  <2> QED
    BY <2>1, <2>2, <2>3 DEF Owned, Allocated, LoopHas
<1>3. HeldKept'
  BY <1>0, <1>1 DEF Safe, HeldKept, Allocated, TypedCounts, TypeOK
<1>4. NothingLost'
  <2>1. ASSUME NEW q \in Records, heap'[q] # None
        PROVE  \/ peers'[heap'[q].slot] = q \/ dying'[heap'[q].slot] = q
               \/ loop'.rec = q \/ \E u \in Tasks : q \in done'[u]
    <3>1. q # p /\ heap'[q] = heap[q]
      BY <1>0, <2>1 DEF TypedCounts, TypeOK
    <3> QED
      BY <1>0, <2>1, <3>1 DEF Safe, NothingLost, Allocated, TypedCounts, TypeOK
  <2> QED
    BY <1>0, <2>1 DEF Safe, NothingLost, Allocated, TypedCounts, TypeOK, Tasks
<1>5. NoneStranded'
  BY <1>0 DEF Safe, NoneStranded
<1> QED
  BY <1>2, <1>3, <1>4, <1>5 DEF Safe

LEMMA SafeAddAlloc ==
  ASSUME TypedCounts, Safe, NEW a \in Addrs, NEW p \in Records, AddAlloc(a, p)
  PROVE  Safe'
<1>0. PICK i \in Slots :
        /\ peers[i] = None /\ dying[i] = None
        /\ heap' = [heap EXCEPT ![p] = [addr |-> a, slot |-> i]]
        /\ loop' = [pc |-> "add", slot |-> i, rec |-> p, target |-> a]
  BY DEF AddAlloc, IsFirst, FreeSlots
<1>1. /\ UNCHANGED <<peers, dying, old, readers, cur, side, holds, done>>
      /\ loop.rec = None /\ loop.pc = "idle" /\ heap[p] = None
  BY DEF AddAlloc, table, retired, counts, tasks, Idle, Allocated
<1>2. /\ \A j \in Slots : peers[j] # p /\ dying[j] # p
      /\ \A t \in Tasks : p \notin done[t]
      /\ \A r \in Readers : p \notin holds[r]
  BY <1>1, ConstantsAssumption DEF Safe, Owned, HeldKept, Allocated
<1>3. [addr |-> a, slot |-> i] # None /\ p # None
  BY ConstantsAssumption DEF Slots
<1>4. Owned'
  <2>1. /\ \A j \in Slots : peers'[j] # None =>
             heap'[peers'[j]] # None /\ heap'[peers'[j]].slot = j /\ dying'[j] = None
        /\ \A j \in Slots : dying'[j] # None => heap'[dying'[j]] # None /\ heap'[dying'[j]].slot = j
    BY <1>0, <1>1, <1>2 DEF Safe, Owned, Allocated, TypedCounts, TypeOK, Pointer
  <2>2. /\ loop'.rec # None <=> loop'.pc \in {"add", "unlinked"}
        /\ loop'.rec # None =>
             /\ loop'.slot \in Slots
             /\ heap'[loop'.rec] # None /\ heap'[loop'.rec].slot = loop'.slot
             /\ peers'[loop'.slot] = None /\ dying'[loop'.slot] = None
    BY <1>0, <1>1, <1>3 DEF TypedCounts, TypeOK
  <2>3. ASSUME NEW u \in Tasks, NEW q \in done'[u]
        PROVE  /\ heap'[q] # None /\ ~(loop'.rec = q /\ q # None)
               /\ peers'[heap'[q].slot] # q /\ dying'[heap'[q].slot] # q
               /\ \A v \in Tasks : q \in done'[v] => v = u
    BY <1>0, <1>1, <1>2, <2>3 DEF Safe, Owned, Allocated, LoopHas, TypedCounts, TypeOK
  <2> QED
    BY <2>1, <2>2, <2>3 DEF Owned, Allocated, LoopHas
<1>5. HeldKept'
  BY <1>0, <1>1, <1>2 DEF Safe, HeldKept, Allocated, TypedCounts, TypeOK
<1>6. NothingLost'
  <2>1. ASSUME NEW q \in Records, heap'[q] # None
        PROVE  \/ peers'[heap'[q].slot] = q \/ dying'[heap'[q].slot] = q
               \/ loop'.rec = q \/ \E u \in Tasks : q \in done'[u]
    <3>1. CASE q = p
      BY <1>0, <3>1
    <3>2. CASE q # p
      <4>1. heap'[q] = heap[q] /\ q # None
        BY <1>0, <3>2, ConstantsAssumption DEF TypedCounts, TypeOK
      <4> QED
        BY <1>1, <2>1, <4>1 DEF Safe, NothingLost, Allocated
    <3> QED
      BY <3>1, <3>2
  <2> QED
    BY <1>0, <1>1, <2>1 DEF Safe, NothingLost, Allocated
<1>7. NoneStranded'
  BY <1>1 DEF Safe, NoneStranded
<1> QED
  BY <1>4, <1>5, <1>6, <1>7 DEF Safe

LEMMA SafeAddPublish ==
  ASSUME TypedCounts, Safe, AddPublish
  PROVE  Safe'
<1>0. /\ loop.pc = "add" /\ loop.slot \in Slots /\ loop.rec # None /\ loop.rec \in Records
      /\ peers[loop.slot] = None /\ dying[loop.slot] = None
      /\ heap[loop.rec] # None /\ heap[loop.rec].slot = loop.slot
  BY DEF AddPublish, Safe, Owned, Allocated, TypedCounts, TypeOK, LoopState, Pointer
<1>1. /\ peers' = [peers EXCEPT ![loop.slot] = loop.rec]
      /\ loop'.rec = None /\ loop'.pc = "idle"
      /\ UNCHANGED <<dying, old, readers, cur, heap, side, holds, done>>
  BY DEF AddPublish, retired, counts, tasks, Idle
<1>2. Owned'
  <2>1. /\ \A j \in Slots : peers'[j] # None =>
             heap'[peers'[j]] # None /\ heap'[peers'[j]].slot = j /\ dying'[j] = None
        /\ \A j \in Slots : dying'[j] # None => heap'[dying'[j]] # None /\ heap'[dying'[j]].slot = j
    BY <1>0, <1>1 DEF Safe, Owned, Allocated, TypedCounts, TypeOK
  <2>2. ASSUME NEW u \in Tasks, NEW q \in done'[u]
        PROVE  /\ heap'[q] # None
               /\ peers'[heap'[q].slot] # q /\ dying'[heap'[q].slot] # q
               /\ \A v \in Tasks : q \in done'[v] => v = u
    BY <1>0, <1>1, <2>2 DEF Safe, Owned, Allocated, LoopHas, TypedCounts, TypeOK
  <2> QED
    BY <1>1, <2>1, <2>2 DEF Owned, Allocated, LoopHas
<1>3. HeldKept'
  <2> SUFFICES ASSUME NEW r \in Readers, NEW p \in holds[r]
               PROVE  /\ side[r] # Out /\ heap[p] # None
                      /\ \/ peers'[heap[p].slot] = p
                         \/ /\ dying[heap[p].slot] = p
                            /\ old[heap[p].slot] => side[r] = 1 - cur
    BY <1>1 DEF HeldKept, Allocated
  <2>1. /\ side[r] # Out /\ heap[p] # None /\ p \in Records /\ p # None
        /\ \/ peers[heap[p].slot] = p
           \/ /\ dying[heap[p].slot] = p
              /\ old[heap[p].slot] => side[r] = 1 - cur
    BY <1>0, ConstantsAssumption DEF Safe, HeldKept, Allocated, TypedCounts, TypeOK
  <2>2. peers[heap[p].slot] = p => heap[p].slot # loop.slot
    BY <1>0, <2>1
  <2> QED
    BY <1>0, <1>1, <2>1, <2>2 DEF TypedCounts, TypeOK
<1>4. NothingLost'
  <2>1. ASSUME NEW q \in Records, heap[q] # None
        PROVE  \/ peers'[heap[q].slot] = q \/ dying[heap[q].slot] = q
               \/ \E u \in Tasks : q \in done[u]
    <3>1. CASE q = loop.rec
      BY <1>0, <1>1, <3>1 DEF TypedCounts, TypeOK
    <3>2. CASE q # loop.rec
      <4>1. q # None /\ heap[q].slot \in Slots
        BY <2>1, ConstantsAssumption DEF TypedCounts, TypeOK, Record
      <4>2. peers[heap[q].slot] = q => heap[q].slot # loop.slot
        BY <1>0, <4>1
      <4>3. peers[heap[q].slot] = q \/ dying[heap[q].slot] = q \/ \E u \in Tasks : q \in done[u]
        BY <2>1, <3>2 DEF Safe, NothingLost, Allocated
      <4> QED
        BY <1>1, <4>1, <4>2, <4>3 DEF TypedCounts, TypeOK
    <3> QED
      BY <3>1, <3>2
  <2> QED
    BY <1>0, <1>1, <2>1 DEF Safe, NothingLost, Allocated
<1>5. NoneStranded'
  BY <1>1 DEF Safe, NoneStranded
<1> QED
  BY <1>2, <1>3, <1>4, <1>5 DEF Safe

LEMMA SafeDelUnlink ==
  ASSUME TypedCounts, Safe, DelUnlink
  PROVE  Safe'
<1>0. PICK i \in Slots :
        /\ peers[i] # None
        /\ peers' = [peers EXCEPT ![i] = None]
        /\ loop'  = [pc |-> "unlinked", slot |-> i, rec |-> peers[i], target |-> loop.target]
  BY DEF DelUnlink, IsFirst, Remaining, Matching
<1>1. /\ UNCHANGED <<dying, old, readers, cur, heap, side, holds, done>>
      /\ loop.pc = "scan" /\ done[Loop] = {}
  BY DEF DelUnlink, retired, counts, tasks
<1>2. /\ heap[peers[i]] # None /\ heap[peers[i]].slot = i /\ dying[i] = None
      /\ peers[i] \in Records /\ loop.rec = None
  BY <1>0, <1>1 DEF Safe, Owned, Allocated, TypedCounts, TypeOK, Pointer
<1>3. Owned'
  <2>1. /\ \A j \in Slots : peers'[j] # None =>
             heap'[peers'[j]] # None /\ heap'[peers'[j]].slot = j /\ dying'[j] = None
        /\ \A j \in Slots : dying'[j] # None => heap'[dying'[j]] # None /\ heap'[dying'[j]].slot = j
    BY <1>0, <1>1, <1>2 DEF Safe, Owned, Allocated, TypedCounts, TypeOK
  <2>2. ASSUME NEW u \in Tasks, NEW q \in done'[u]
        PROVE  /\ heap'[q] # None /\ ~(loop'.rec = q /\ q # None)
               /\ peers'[heap'[q].slot] # q /\ dying'[heap'[q].slot] # q
               /\ \A v \in Tasks : q \in done'[v] => v = u
    <3>1. q \in done[u] /\ heap[q] # None /\ peers[heap[q].slot] # q /\ q \in Records /\ q # None
      BY <1>1, <2>2, ConstantsAssumption DEF Safe, Owned, Allocated, TypedCounts, TypeOK
    <3> QED
      BY <1>0, <1>1, <1>2, <3>1 DEF Safe, Owned, Allocated, LoopHas, TypedCounts, TypeOK
  <2> QED
    BY <1>0, <1>1, <1>2, <2>1, <2>2 DEF Owned, Allocated, LoopHas, TypedCounts, TypeOK
<1>4. HeldKept'
  BY <1>0, <1>1, <1>2 DEF Safe, HeldKept, Allocated, TypedCounts, TypeOK
<1>5. NothingLost'
  <2>1. ASSUME NEW q \in Records, heap[q] # None
        PROVE  \/ peers'[heap[q].slot] = q \/ dying[heap[q].slot] = q
               \/ peers[i] = q \/ \E u \in Tasks : q \in done[u]
    <3>1. q # None /\ heap[q].slot \in Slots
      BY <2>1, ConstantsAssumption DEF TypedCounts, TypeOK, Record
    <3>2. peers[heap[q].slot] = q \/ dying[heap[q].slot] = q \/ \E u \in Tasks : q \in done[u]
      BY <1>2, <2>1, <3>1 DEF Safe, NothingLost, Allocated
    <3> QED
      BY <1>0, <3>1, <3>2 DEF TypedCounts, TypeOK
  <2> QED
    BY <1>0, <1>1, <2>1 DEF Safe, NothingLost, Allocated
<1>6. NoneStranded'
  BY <1>1 DEF Safe, NoneStranded
<1> QED
  BY <1>3, <1>4, <1>5, <1>6 DEF Safe

LEMMA SafeDelRetire ==
  ASSUME TypedCounts, TypedCounts', Safe, DelRetire
  PROVE  Safe'
<1> DEFINE d == [dying EXCEPT ![loop.slot] = loop.rec]
           o == [old EXCEPT ![loop.slot] = FALSE]
<1>0. /\ loop.pc = "unlinked" /\ loop.slot \in Slots /\ loop.rec # None /\ loop.rec \in Records
      /\ peers[loop.slot] = None /\ dying[loop.slot] = None /\ done[Loop] = {}
      /\ heap[loop.rec] # None /\ heap[loop.rec].slot = loop.slot
  BY DEF DelRetire, Safe, Owned, NothingLost, Allocated, TypedCounts, TypeOK, LoopState, Pointer
<1>1. /\ UNCHANGED <<peers, heap, side, holds>>
      /\ loop'.rec = None /\ loop'.pc = "scan"
  BY DEF DelRetire, table, tasks
<1>2. /\ TypeOK /\ Loop \in Tasks /\ readers \in [Sides -> Nat]
      /\ d \in [Slots -> Pointer] /\ o \in [Slots -> BOOLEAN]
      /\ Detach(Loop, readers, d, o)
  BY DEF TypedCounts, TypeOK, Tasks, DelRetire, LoopState
<1>3. /\ d[loop.slot] = loop.rec /\ ~o[loop.slot]
      /\ \A i \in Slots : i # loop.slot => d[i] = dying[i] /\ o[i] = old[i]
  BY <1>0 DEF TypedCounts, TypeOK
<1> HIDE DEF d, o
<1>4. /\ \A i \in Slots : dying'[i] \in {d[i], None}
      /\ \A p \in done'[Loop] : \E i \in Slots : d[i] = p /\ p # None /\ dying'[i] = None
      /\ \A u \in Tasks : u # Loop => done'[u] = done[u]
      /\ \A i \in Slots : d[i] # None /\ dying'[i] = None =>
           /\ d[i] \in done'[Loop]
           /\ readers[1 - cur] = 0 /\ (readers[cur] = 0 \/ o[i])
      /\ \A i \in Slots : dying'[i] # None /\ old'[i] =>
           \/ o[i] /\ cur' = cur
           \/ readers[1 - cur] = 0 /\ cur' = 1 - cur
      /\ \A i \in Slots : dying'[i] # None => readers'[1 - cur'] > 0
      /\ readers' = readers
  BY <1>2, DetachFacts
<1>5. ASSUME NEW s \in Sides, readers[s] = 0 PROVE \A q \in Readers : side[q] # s
  <2>1. Cardinality({q \in Readers : side[q] = s}) = 0
    BY <1>5 DEF TypedCounts, Counted, Inside
  <2> QED
    BY <2>1, NobodyInside
<1>6. \A i \in Slots : d[i] # None => heap[d[i]] # None /\ heap[d[i]].slot = i /\ peers[i] = None
  BY <1>0, <1>3 DEF Safe, Owned, Allocated
<1>7. Owned'
  <2>1. \A i \in Slots : peers'[i] # None =>
          heap'[peers'[i]] # None /\ heap'[peers'[i]].slot = i /\ dying'[i] = None
    BY <1>1, <1>4, <1>6 DEF Safe, Owned, Allocated
  <2>2. \A i \in Slots : dying'[i] # None => heap'[dying'[i]] # None /\ heap'[dying'[i]].slot = i
    BY <1>1, <1>4, <1>6
  <2>3. ASSUME NEW t \in Tasks, NEW p \in done'[t]
        PROVE  /\ heap'[p] # None
               /\ peers'[heap'[p].slot] # p /\ dying'[heap'[p].slot] # p
               /\ \A u \in Tasks : p \in done'[u] => u = t
    <3>1. CASE t = Loop
      <4>1. PICK i \in Slots : d[i] = p /\ p # None /\ dying'[i] = None
        BY <1>4, <2>3, <3>1
      <4>2. heap[p] # None /\ heap[p].slot = i /\ peers[i] = None
        BY <1>6, <4>1
      <4>3. \A u \in Tasks : p \notin done[u]
        BY <1>0, <1>3, <4>1, <4>2 DEF Safe, Owned, LoopHas
      <4> QED
        BY <1>1, <1>4, <3>1, <4>1, <4>2, <4>3
    <3>2. CASE t # Loop
      <4>1. p \in done[t] /\ heap[p] # None /\ ~(loop.rec = p /\ p # None)
            /\ peers[heap[p].slot] # p /\ dying[heap[p].slot] # p
            /\ \A u \in Tasks : p \in done[u] => u = t
        BY <1>4, <2>3, <3>2 DEF Safe, Owned, Allocated, LoopHas
      <4>2. p \in Records /\ heap[p].slot \in Slots /\ p # None
        BY <4>1, ConstantsAssumption DEF TypedCounts, TypeOK, Record
      <4>3. d[heap[p].slot] # p
        BY <1>3, <4>1, <4>2
      <4>4. p \notin done'[Loop]
        BY <1>4, <1>6, <4>3
      <4> QED
        BY <1>1, <1>4, <4>1, <4>2, <4>3, <4>4
    <3> QED
      BY <3>1, <3>2
  <2> QED
    BY <1>1, <2>1, <2>2, <2>3 DEF Owned, Allocated, LoopHas
<1>8. HeldKept'
  <2> SUFFICES ASSUME NEW q \in Readers, NEW p \in holds[q]
               PROVE  /\ side[q] # Out /\ heap[p] # None
                      /\ \/ peers[heap[p].slot] = p
                         \/ /\ dying'[heap[p].slot] = p
                            /\ old'[heap[p].slot] => side[q] = 1 - cur'
    BY <1>1 DEF HeldKept, Allocated
  <2>1. side[q] \in Sides /\ side[q] # Out /\ heap[p] # None /\ heap[p].slot \in Slots
        /\ p \in Records /\ p # None
    BY ConstantsAssumption DEF Safe, HeldKept, TypedCounts, TypeOK, Record, Allocated
  <2>2. CASE d[heap[p].slot] = p /\ (o[heap[p].slot] => side[q] = 1 - cur)
    <3> DEFINE i == heap[p].slot
    <3>1. readers[side[q]] # 0
      BY <1>5, <2>1
    <3>2. dying'[i] = p
      BY <1>4, <2>1, <2>2, <3>1 DEF Sides, TypedCounts, TypeOK
    <3>3. old'[i] => side[q] = 1 - cur'
      BY <1>4, <2>1, <2>2, <3>1, <3>2 DEF Sides, TypedCounts, TypeOK
    <3> QED
      BY <2>1, <3>2, <3>3
  <2>3. \/ peers[heap[p].slot] = p
        \/ d[heap[p].slot] = p /\ (o[heap[p].slot] => side[q] = 1 - cur)
    BY <1>0, <1>3, <2>1 DEF Safe, HeldKept
  <2> QED
    BY <2>1, <2>2, <2>3
<1>9. NothingLost'
  <2>1. ASSUME NEW p \in Records, heap[p] # None
        PROVE  \/ peers[heap[p].slot] = p \/ dying'[heap[p].slot] = p
               \/ \E t \in Tasks : p \in done'[t]
    <3>1. heap[p].slot \in Slots /\ p # None
      BY <2>1, ConstantsAssumption DEF TypedCounts, TypeOK, Record
    <3>2. CASE d[heap[p].slot] = p
      BY <1>2, <1>4, <3>1, <3>2
    <3>3. CASE \E t \in Tasks : p \in done[t]
      BY <1>0, <1>4, <3>3
    <3> QED
      BY <1>0, <1>3, <2>1, <3>1, <3>2, <3>3 DEF Safe, NothingLost, Allocated
  <2>2. \A q \in Readers : side'[q] # Out => done'[q] = {}
    BY <1>1, <1>4, ConstantsAssumption DEF Safe, NothingLost, Tasks
  <2> QED
    BY <1>1, <2>1, <2>2 DEF NothingLost, Allocated
<1>10. NoneStranded'
  BY <1>4 DEF NoneStranded
<1> QED
  BY <1>7, <1>8, <1>9, <1>10 DEF Safe

\* The steps of the event loop that touch no record.
LEMMA SafeOthers ==
  ASSUME TypedCounts, Safe,
         \/ \E a \in Addrs : SetPeerKey(a)
         \/ \E target \in Addrs \cup {AllPeers} : DelStart(target)
         \/ DelReturn
         \/ UNCHANGED vars
  PROVE  Safe'
<1>1. /\ UNCHANGED <<peers, dying, old, readers, cur, heap, side, holds, done>>
      /\ loop'.rec = loop.rec /\ (loop.rec # None => loop' = loop)
      /\ loop'.pc \in {"add", "unlinked"} <=> loop.pc \in {"add", "unlinked"}
      /\ loop'.pc # "scan" => done[Loop] = {}
      /\ loop.pc = "unlinked" => loop' = loop
  BY DEF SetPeerKey, DelStart, DelReturn, vars, table, retired, counts, tasks, Idle, Safe, Owned,
         NothingLost
<1>2. Owned'
  BY <1>1 DEF Safe, Owned, Allocated, LoopHas
<1>3. HeldKept'
  BY <1>1 DEF Safe, HeldKept, Allocated
<1>4. NothingLost'
  BY <1>1 DEF Safe, NothingLost, Allocated
<1>5. NoneStranded'
  BY <1>1 DEF Safe, NoneStranded
<1> QED
  BY <1>2, <1>3, <1>4, <1>5 DEF Safe

LEMMA SafeNext == TypedCounts /\ TypedCounts' /\ Safe /\ [Next]_vars => Safe'
<1> SUFFICES ASSUME TypedCounts, TypedCounts', Safe, [Next]_vars PROVE Safe'
  OBVIOUS
<1>1. CASE \E r \in Readers : ReaderStep(r)
  BY <1>1, SafeReadBegin, SafeReadEnd, SafeLoad DEF ReaderStep
<1>2. CASE LoopStep
  BY <1>2, SafeAddAlloc, SafeAddPublish, SafeDelUnlink, SafeDelRetire, SafeOthers
     DEF LoopStep, LoopProgress
<1>3. CASE Freeing
  BY <1>3, SafeFreeRetired DEF Freeing
<1>4. CASE UNCHANGED vars
  BY <1>4, SafeOthers
<1> QED
  BY <1>1, <1>2, <1>3, <1>4 DEF Next

\* The inductive invariant holds of every behaviour of the table.
THEOREM Invariance == Spec => []IInv
<1>1. Init => TypedCounts /\ Safe
  BY TypedCountsInit, SafeInit
<1>2. TypedCounts /\ Safe /\ [Next]_vars => TypedCounts' /\ Safe'
  BY TypedCountsNext, SafeNext
<1>3. TypedCounts /\ Safe => IInv
  BY DEF TypedCounts, Safe, IInv
<1> QED
  BY <1>1, <1>2, <1>3, PTL DEF Spec

\* No reader follows a pointer into freed memory: a record one of them found stays allocated
\* until that reader has left.
THEOREM NoUseAfterFree == Spec => []HeldAllocated
<1>1. IInv => HeldAllocated
  BY DEF IInv, HeldKept, HeldAllocated
<1> QED
  BY <1>1, Invariance, PTL

\* While a reader holds a record, its slot belongs to that record: no other record is put in
\* it, retired in it or about to be published in it.
THEOREM SlotsNotReused == Spec => []SlotNotReused
<1>1. IInv => SlotNotReused
  <2> SUFFICES ASSUME IInv, NEW r \in Readers, NEW p \in holds[r]
               PROVE  /\ Allocated(p)
                      /\ peers[heap[p].slot] \in {p, None}
                      /\ dying[heap[p].slot] \in {p, None}
                      /\ loop.pc = "add" => loop.slot # heap[p].slot
    BY DEF SlotNotReused
  <2>1. Allocated(p) /\ heap[p].slot \in Slots /\ p # None
    BY ConstantsAssumption DEF IInv, HeldKept, TypeOK, Record, Allocated
  <2> QED
    BY <2>1 DEF IInv, HeldKept, Owned
<1> QED
  BY <1>1, Invariance, PTL

\* A retired record marked old can be held only by readers counted on the side that drains,
\* and every retired record has such a reader left to free it.
THEOREM GracePeriod == Spec => [](OldHeldOnOtherSide /\ NoneStranded)
<1>1. IInv => OldHeldOnOtherSide
  <2> SUFFICES ASSUME IInv, NEW i \in Slots, NEW r \in Readers,
                      dying[i] # None, old[i], dying[i] \in holds[r]
               PROVE  side[r] = 1 - cur
    BY DEF OldHeldOnOtherSide
  <2>1. heap[dying[i]].slot = i /\ peers[i] # dying[i] /\ loop.rec # dying[i]
    BY DEF IInv, Owned
  <2> QED
    BY <2>1 DEF IInv, HeldKept
<1>2. IInv => NoneStranded
  BY DEF IInv
<1> QED
  BY <1>1, <1>2, Invariance, PTL

\* No record is freed twice, lost, or left in the table after its memory is freed.
THEOREM OneOwnerEach == Spec => []OneOwner
<1>1. IInv => OneOwner
  <2> SUFFICES ASSUME IInv, NEW p \in Records
               PROVE  Cardinality(Owners(p)) = IF Allocated(p) THEN 1 ELSE 0
    BY DEF OneOwner
  <2>0. p # None
    BY ConstantsAssumption
  <2>1. CASE ~Allocated(p)
    <3>1. Owners(p) = {}
      BY <2>0, <2>1 DEF IInv, Owned, Owners, Allocated
    <3> QED
      BY <2>1, <3>1, FS_EmptySet
  <2>2. CASE Allocated(p)
    <3>1. heap[p].slot \in Slots
      BY <2>2 DEF IInv, TypeOK, Record, Allocated
    <3>2. CASE peers[heap[p].slot] = p
      <4>1. Owners(p) = {<<"peers", heap[p].slot>>}
        BY <2>0, <3>1, <3>2 DEF IInv, Owned, Owners, LoopHas
      <4> QED
        BY <2>2, <4>1, FS_Singleton
    <3>3. CASE dying[heap[p].slot] = p
      <4>1. Owners(p) = {<<"dying", heap[p].slot>>}
        BY <2>0, <3>1, <3>3 DEF IInv, Owned, Owners, LoopHas
      <4> QED
        BY <2>2, <4>1, FS_Singleton
    <3>4. CASE loop.rec = p
      <4>1. Owners(p) = {<<"loop", p>>}
        BY <2>0, <3>1, <3>4 DEF IInv, Owned, Owners, LoopHas
      <4> QED
        BY <2>2, <4>1, FS_Singleton
    <3>5. CASE \E t \in Tasks : p \in done[t]
      <4>1. PICK t \in Tasks : p \in done[t]
        BY <3>5
      <4>2. Owners(p) = {<<"done", t>>}
        BY <2>0, <3>1, <4>1 DEF IInv, Owned, Owners, LoopHas
      <4> QED
        BY <2>2, <4>2, FS_Singleton
    <3> QED
      BY <2>2, <3>2, <3>3, <3>4, <3>5 DEF IInv, NothingLost
  <2> QED
    BY <2>1, <2>2
<1> QED
  BY <1>1, Invariance, PTL

-----------------------------------------------------------------------------
(***************************************************************************)
(* The table implements PeerReclaim.                                       *)
(***************************************************************************)
LEMMA SameStatus ==
  ASSUME peers' = peers, heap' = heap,
         \A p \in Records : (loop.pc = "add" /\ loop.rec = p) <=> (loop'.pc = "add" /\ loop'.rec = p)
  PROVE  StatusMap' = StatusMap
  BY DEF StatusMap, Status, Linked, Allocated

\* Every step of the table is a step of PeerReclaim or leaves it alone.
LEMMA StepRefines ==
  ASSUME IInv, [Next]_vars
  PROVE  [Reclaimed!Next]_(Reclaimed!vars)
<1> USE DEF Reclaimed!Next, Reclaimed!vars
<1>0. StatusMap \in [Records -> {"free", "new", "linked", "retired"}]
  BY DEF StatusMap, Status
<1>1. ASSUME NEW r \in Readers, ReadBegin(r) PROVE UNCHANGED Reclaimed!vars
  BY <1>1, SameStatus DEF ReadBegin, table, retired
<1>2. ASSUME NEW r \in Readers, NEW i \in Slots, Load(r, i) PROVE Reclaimed!Next
  <2>1. peers[i] \in Records /\ StatusMap[peers[i]] = "linked"
    BY <1>2 DEF Load, IInv, TypeOK, Owned, Pointer, StatusMap, Status, Linked
  <2>2. StatusMap' = StatusMap
    BY <1>2, SameStatus DEF Load, table
  <2>3. Reclaimed!Hold(r, peers[i])
    BY <1>2, <2>1, <2>2 DEF Load, Reclaimed!Hold
  <2> QED
    BY <2>1, <2>3
<1>3. ASSUME NEW r \in Readers, ReadEnd(r) PROVE Reclaimed!Next
  <2>1. StatusMap' = StatusMap
    BY <1>3, SameStatus DEF ReadEnd, table
  <2> QED
    BY <1>3, <2>1 DEF ReadEnd, Reclaimed!Leave
<1>4. ASSUME NEW t \in Tasks, NEW p \in Records, FreeRetired(t, p) PROVE Reclaimed!Next
  <2>1. p \in done[t] /\ heap' = [heap EXCEPT ![p] = None]
        /\ UNCHANGED <<peers, holds, loop>>
    BY <1>4 DEF FreeRetired, table, tasks
  <2>2. StatusMap[p] = "retired" /\ ~Reclaimed!Held(p)
    BY <2>1, ConstantsAssumption DEF IInv, TypeOK, Owned, HeldKept, LoopHas, StatusMap, Status,
       Linked, Reclaimed!Held
  <2>3. StatusMap' = [StatusMap EXCEPT ![p] = "free"]
    BY <2>1 DEF StatusMap, Status, Linked, Allocated, IInv, TypeOK
  <2> QED
    BY <2>1, <2>2, <2>3 DEF Reclaimed!Free, Reclaimed!Move
<1>5. ASSUME NEW a \in Addrs, NEW p \in Records, AddAlloc(a, p) PROVE Reclaimed!Next
  <2>1. PICK i \in Slots : heap' = [heap EXCEPT ![p] = [addr |-> a, slot |-> i]]
                          /\ loop' = [pc |-> "add", slot |-> i, rec |-> p, target |-> a]
    BY <1>5 DEF AddAlloc
  <2>2. UNCHANGED <<peers, holds>> /\ heap[p] = None /\ loop.pc = "idle"
    BY <1>5 DEF AddAlloc, table, tasks, Allocated, Idle
  <2>3. ~Linked(p) /\ [addr |-> a, slot |-> i] # None
    BY <2>2, ConstantsAssumption DEF Linked, IInv, Owned, Allocated, Slots
  <2>4. StatusMap[p] = "free"
    BY <2>2 DEF StatusMap, Status, Allocated
  <2>5. StatusMap' = [StatusMap EXCEPT ![p] = "new"]
    BY <2>1, <2>2, <2>3 DEF StatusMap, Status, Linked, Allocated, IInv, TypeOK
  <2> QED
    BY <2>2, <2>4, <2>5 DEF Reclaimed!Alloc, Reclaimed!Move
<1>6. CASE AddPublish
  <2> DEFINE p == loop.rec
  <2>1. p \in Records /\ p # None /\ loop.slot \in Slots /\ loop.pc = "add" /\ heap[p] # None
        /\ heap[p].slot = loop.slot /\ peers[loop.slot] = None
    BY <1>6 DEF AddPublish, IInv, TypeOK, LoopState, Pointer, Owned, Allocated
  <2>2. peers' = [peers EXCEPT ![loop.slot] = p] /\ loop'.pc = "idle" /\ UNCHANGED <<heap, holds>>
    BY <1>6 DEF AddPublish, tasks, Idle
  <2>3. ~Linked(p)
    BY <2>1 DEF Linked, IInv, Owned
  <2>4. StatusMap[p] = "new"
    BY <2>1, <2>3 DEF StatusMap, Status, Allocated
  <2>5. \A q \in Records : Linked(q)' <=> q = p \/ Linked(q)
    BY <2>1, <2>2, ConstantsAssumption DEF Linked, IInv, TypeOK
  <2>6. StatusMap' = [StatusMap EXCEPT ![p] = "linked"]
    BY <2>1, <2>2, <2>5 DEF StatusMap, Status, Allocated
  <2> QED
    BY <2>1, <2>2, <2>4, <2>6 DEF Reclaimed!Publish, Reclaimed!Move
<1>7. CASE DelUnlink
  <2>1. PICK i \in Slots :
          /\ peers[i] # None
          /\ peers' = [peers EXCEPT ![i] = None]
          /\ loop'  = [pc |-> "unlinked", slot |-> i, rec |-> peers[i], target |-> loop.target]
    BY <1>7 DEF DelUnlink, IsFirst, Remaining, Matching
  <2> DEFINE p == peers[i]
  <2>2. p \in Records /\ heap[p] # None /\ UNCHANGED <<heap, holds>> /\ loop.pc = "scan"
    BY <1>7, <2>1 DEF DelUnlink, IInv, TypeOK, Pointer, Owned, Allocated, tasks
  <2>3. StatusMap[p] = "linked"
    BY <2>2 DEF StatusMap, Status, Linked, Allocated
  <2>4. \A q \in Records : Linked(q)' <=> q # p /\ Linked(q)
    BY <2>1, ConstantsAssumption DEF Linked, IInv, TypeOK, Owned
  <2>5. StatusMap' = [StatusMap EXCEPT ![p] = "retired"]
    BY <2>1, <2>2, <2>4 DEF StatusMap, Status, Allocated
  <2> QED
    BY <2>2, <2>3, <2>5 DEF Reclaimed!Unlink, Reclaimed!Move
<1>8. CASE DelRetire
  BY <1>8, SameStatus DEF DelRetire, table, tasks
<1>9. CASE \/ \E a \in Addrs : SetPeerKey(a)
           \/ \E target \in Addrs \cup {AllPeers} : DelStart(target)
           \/ DelReturn
           \/ UNCHANGED vars
  <2>1. /\ UNCHANGED <<peers, heap, holds>>
        /\ (loop.pc # "add" /\ loop'.pc # "add") \/ loop' = loop
    BY <1>9 DEF SetPeerKey, DelStart, DelReturn, vars, table, tasks, Idle
  <2> QED
    BY <2>1, SameStatus
<1> HIDE DEF Reclaimed!Next, Reclaimed!vars
<1>10. CASE \E r \in Readers : ReaderStep(r)
  BY <1>1, <1>2, <1>3, <1>10 DEF ReaderStep
<1>11. CASE LoopStep
  BY <1>5, <1>6, <1>7, <1>8, <1>9, <1>11 DEF LoopStep, LoopProgress
<1>12. CASE Freeing
  BY <1>4, <1>12 DEF Freeing
<1> QED
  BY <1>9, <1>10, <1>11, <1>12 DEF Next

\* The slot table with its two reader counts keeps the promise made without them: a record
\* goes back to the heap once, after it was unlinked, and when no reader holds it.
THEOREM Refinement == Spec => Reclaimed!Spec
<1>1. Init => Reclaimed!Init
  BY DEF Init, Reclaimed!Init, StatusMap, Status, Allocated
<1>2. IInv /\ [Next]_vars => [Reclaimed!Next]_(Reclaimed!vars)
  BY StepRefines
<1> QED
  BY <1>1, <1>2, Invariance, PTL DEF Spec, Reclaimed!Spec

\* mesh_reclaim_locked_ runs inside a critical section: whenever it is called, its loop has
\* ended after two turns, and what it computed is the closed form the actions use.
THEOREM ReclaimEnds == Spec => []ReclaimIsTheLoop
<1>1. ASSUME IInv  PROVE ReclaimIsTheLoop
  <2>1. /\ readers \in [Sides -> Nat] /\ cur \in Sides /\ dying \in [Slots -> Pointer] /\ old \in [Slots -> BOOLEAN]
        /\ loop.rec \in Pointer
    BY <1>1 DEF IInv, TypeOK, LoopState
  <2>2. ASSUME NEW rd \in [Sides -> Nat], NEW d \in [Slots -> Pointer], NEW o \in [Slots -> BOOLEAN]
        PROVE  IsTheLoop(rd, d, o)
    BY <2>1, TwoTurnsEnd DEF IsTheLoop
  <2>3. \A s \in Sides : readers[s] > 0 => [readers EXCEPT ![s] = @ - 1] \in [Sides -> Nat]
    BY <2>1
  <2>4. /\ [dying EXCEPT ![loop.slot] = loop.rec] \in [Slots -> Pointer]
        /\ [old EXCEPT ![loop.slot] = FALSE] \in [Slots -> BOOLEAN]
    BY <2>1
  <2> QED  BY <2>1, <2>2, <2>3, <2>4 DEF ReclaimIsTheLoop
<1> QED  BY <1>1, Invariance, PTL
============================================================================
