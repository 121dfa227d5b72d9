----------------------------- MODULE MeshPeers -----------------------------
(***************************************************************************)
(* The mesh peer table of datapath/umac_datapath_mesh.c.  Peers are added  *)
(* and deleted on the umac event loop alone.  Other tasks (lwIP's, the     *)
(* batman engine's, the chip driver's) resolve peer records as readers,    *)
(* between read_begin and read_end, and take no lock while they do.  A     *)
(* record del_peer unlinks is freed once no reader can hold it: readers    *)
(* count themselves in on one of two sides, and a record waits for the     *)
(* side it was unlinked under to drain.                                    *)
(*                                                                         *)
(* A critical section of the code is one step; so is a load of one slot of *)
(* s_peers and a call of mmosal_free.                                      *)
(***************************************************************************)
EXTENDS Naturals, FiniteSets

CONSTANTS MaxPeers,  \* MESH_MAX_PEERS
          Records,   \* heap blocks a record may be allocated in, reused after a free
          Readers,   \* tasks off the event loop
          Addrs,     \* MAC addresses of neighbours
          Sae,       \* the mesh runs SAE: a peer is established by its key
          None,      \* a NULL pointer
          AllPeers,  \* the argument of del_peer(NULL)
          Loop       \* the event loop, as a task that frees records

Out == 2             \* the side of a task outside any read section

ASSUME ConstantsAssumption ==
  /\ MaxPeers \in Nat \ {0}
  /\ None \notin Records
  /\ None \notin [addr : Addrs, slot : 0 .. MaxPeers - 1]
  /\ AllPeers \notin Addrs
  /\ Loop \notin Readers
  /\ IsFiniteSet(Readers)
  /\ Sae \in BOOLEAN

Slots == 0 .. MaxPeers - 1
Sides == {0, 1}
Tasks == Readers \cup {Loop}

VARIABLES
  peers,     \* s_peers
  estab,     \* s_peer_estab
  dying,     \* s_dying
  old,       \* s_dying_old
  readers,   \* s_readers
  cur,       \* s_readers_cur
  heap,      \* of every block: the record in it (peer address, aid - 1), or None
  side,      \* of every reader: the side read_begin gave it, or Out
  holds,     \* of every reader: the records it loaded from the table since
  done,      \* of every task: the records it detached and has not freed yet
  loop       \* where the event loop is in add_peer or del_peer

table   == <<peers, estab>>
retired == <<dying, old>>
counts  == <<readers, cur>>
tasks   == <<side, holds>>
vars    == <<table, retired, counts, heap, tasks, done, loop>>

Idle == [pc |-> "idle", slot |-> 0, rec |-> None, target |-> AllPeers]

Init ==
  /\ peers   = [i \in Slots |-> None]
  /\ estab   = [i \in Slots |-> FALSE]
  /\ dying   = [i \in Slots |-> None]
  /\ old     = [i \in Slots |-> FALSE]
  /\ readers = [s \in Sides |-> 0]
  /\ cur     = 0
  /\ heap    = [p \in Records |-> None]
  /\ side    = [r \in Readers |-> Out]
  /\ holds   = [r \in Readers |-> {}]
  /\ done    = [t \in Tasks |-> {}]
  /\ loop    = Idle

Allocated(p) == heap[p] # None

(***************************************************************************)
(* mesh_reclaim_locked_ on the reader counts rd and the retired records    *)
(* d, o: the counts' new side, what is left of d and o, and the records    *)
(* detached.  The code loops; a second round is the last, since the first  *)
(* left nothing that is not old.                                           *)
(***************************************************************************)
Waiting(d, o) == {i \in Slots : d[i] # None /\ ~o[i]}
OldOnes(d, o) == {i \in Slots : d[i] # None /\ o[i]}

\* Mutant of Reclaim: one round of the loop only.
ReclaimOneRound(rd, c, d, o) ==
  LET gone == IF rd[1 - c] = 0 THEN OldOnes(d, o) ELSE {} IN
  [cur |-> IF rd[1 - c] = 0 /\ Waiting(d, o) # {} THEN 1 - c ELSE c,
   dying |-> [i \in Slots |-> IF i \in gone THEN None ELSE d[i]],
   old |-> [i \in Slots |-> o[i] \/ (rd[1 - c] = 0 /\ i \in Waiting(d, o))],
   out |-> {d[i] : i \in gone}]

Reclaim(rd, c, d, o) ==
  LET waiting == Waiting(d, o)
      drained == rd[1 - c] = 0
      both    == drained /\ rd[c] = 0
      gone    == IF both THEN {i \in Slots : d[i] # None}
                 ELSE IF drained THEN OldOnes(d, o) ELSE {}
  IN [cur   |-> IF drained /\ waiting # {} THEN 1 - c ELSE c,
      dying |-> [i \in Slots |-> IF i \in gone THEN None ELSE d[i]],
      old   |-> [i \in Slots |-> o[i] \/ (drained /\ i \in waiting)],
      out   |-> {d[i] : i \in gone}]

\* The loop itself, a turn at a time; going is whether it goes on.
Turn(rd, l) ==
  IF ~l.going \/ rd[1 - l.cur] # 0 THEN [l EXCEPT !.going = FALSE]
  ELSE LET waiting == Waiting(l.dying, l.old)
           gone    == OldOnes(l.dying, l.old)
       IN [cur   |-> IF waiting = {} THEN l.cur ELSE 1 - l.cur,
           dying |-> [i \in Slots |-> IF i \in gone THEN None ELSE l.dying[i]],
           old   |-> [i \in Slots |-> l.old[i] \/ i \in waiting],
           out   |-> l.out \cup {l.dying[i] : i \in gone},
           going |-> waiting # {}]
TwoTurns(rd, c, d, o) ==
  Turn(rd, Turn(rd, [cur |-> c, dying |-> d, old |-> o, out |-> {}, going |-> TRUE]))

\* The critical section's outcome, the detached records left to task t to free.
Detach(t, rd, d, o) ==
  LET res == Reclaim(rd, cur, d, o) IN
  /\ readers' = rd
  /\ cur'   = res.cur
  /\ dying' = res.dying
  /\ old'   = res.old
  /\ done'  = [done EXCEPT ![t] = res.out]

(***************************************************************************)
(* Readers.                                                                *)
(***************************************************************************)
\* Mutant: new readers join the same count whatever waits.
ReadBeginFixedSide(r) ==
  /\ side[r] = Out /\ done[r] = {}
  /\ side'    = [side EXCEPT ![r] = 0]
  /\ readers' = [readers EXCEPT ![0] = @ + 1]
  /\ UNCHANGED <<table, retired, cur, heap, holds, done, loop>>

ReadBegin(r) ==
  /\ side[r] = Out
  /\ done[r] = {}
  /\ side'    = [side EXCEPT ![r] = cur]
  /\ readers' = [readers EXCEPT ![cur] = @ + 1]
  /\ UNCHANGED <<table, retired, cur, heap, holds, done, loop>>

\* One load of s_peers[i], in any of the lookups a reader makes.
Load(r, i) ==
  /\ side[r] # Out
  /\ peers[i] # None
  /\ holds' = [holds EXCEPT ![r] = @ \cup {peers[i]}]
  /\ UNCHANGED <<table, retired, counts, heap, side, done, loop>>

\* Mutants: the count new readers join taken down; the last reader frees nothing.
ReadEndCurSide(r) ==
  /\ side[r] # Out
  /\ side'  = [side EXCEPT ![r] = Out]
  /\ holds' = [holds EXCEPT ![r] = {}]
  /\ Detach(r, [readers EXCEPT ![cur] = @ - 1], dying, old)
  /\ UNCHANGED <<table, heap, loop>>
ReadEndNoReclaim(r) ==
  /\ side[r] # Out
  /\ side'    = [side EXCEPT ![r] = Out]
  /\ holds'   = [holds EXCEPT ![r] = {}]
  /\ readers' = [readers EXCEPT ![side[r]] = @ - 1]
  /\ UNCHANGED <<table, retired, cur, heap, done, loop>>

ReadEnd(r) ==
  /\ side[r] # Out
  /\ side'  = [side EXCEPT ![r] = Out]
  /\ holds' = [holds EXCEPT ![r] = {}]
  /\ Detach(r, [readers EXCEPT ![side[r]] = @ - 1], dying, old)
  /\ UNCHANGED <<table, heap, loop>>

\* mesh_free_retired_, out of the critical section: one mmosal_free.
FreeRetired(t, p) ==
  /\ p \in done[t]
  /\ heap' = [heap EXCEPT ![p] = None]
  /\ done' = [done EXCEPT ![t] = @ \ {p}]
  /\ UNCHANGED <<table, retired, counts, tasks, loop>>

(***************************************************************************)
(* The event loop.                                                         *)
(***************************************************************************)
\* Mutant: a slot counts as free while its old record is still retired.
FreeSlotsPeersOnly == {i \in Slots : peers[i] = None}
FreeSlots == {i \in Slots : peers[i] = None /\ dying[i] = None}
Matching(target) ==
  {i \in Slots : peers[i] # None /\ (target = AllPeers \/ heap[peers[i]].addr = target)}
IsFirst(i, S) == i \in S /\ \A j \in S : i <= j

\* add_peer's checks and its allocation: the first free slot, a block of the heap.
\* Re-adding a peer, a full table and an empty heap return early and change nothing.
AddAlloc(a, p) ==
  /\ loop = Idle
  /\ Matching(a) = {}
  /\ ~Allocated(p)
  /\ \E i \in Slots :
       /\ IsFirst(i, FreeSlots)
       /\ heap' = [heap EXCEPT ![p] = [addr |-> a, slot |-> i]]
       /\ loop' = [pc |-> "add", slot |-> i, rec |-> p, target |-> a]
  /\ UNCHANGED <<table, retired, counts, tasks, done>>

\* Its last store makes the record visible to readers.
AddPublish ==
  /\ loop.pc = "add"
  /\ estab' = [estab EXCEPT ![loop.slot] = ~Sae]
  /\ peers' = [peers EXCEPT ![loop.slot] = loop.rec]
  /\ loop'  = Idle
  /\ UNCHANGED <<retired, counts, heap, tasks, done>>

\* set_peer_key with a pairwise key: under SAE the link is established by it.
SetPeerKey(a) ==
  /\ loop = Idle
  /\ Sae
  /\ \E i \in Slots : IsFirst(i, Matching(a)) /\ estab' = [estab EXCEPT ![i] = TRUE]
  /\ UNCHANGED <<peers, retired, counts, heap, tasks, done, loop>>

DelStart(target) ==
  /\ loop = Idle
  /\ loop' = [pc |-> "scan", slot |-> 0, rec |-> None, target |-> target]
  /\ UNCHANGED <<table, retired, counts, heap, tasks, done>>

Remaining == {i \in Matching(loop.target) : i >= loop.slot}

\* The critical section that takes the record out of its slot.
DelUnlink ==
  /\ loop.pc = "scan" /\ done[Loop] = {}
  /\ \E i \in Slots :
       /\ IsFirst(i, Remaining)
       /\ peers' = [peers EXCEPT ![i] = None]
       /\ loop'  = [pc |-> "unlinked", slot |-> i, rec |-> peers[i], target |-> loop.target]
  /\ UNCHANGED <<estab, retired, counts, heap, tasks, done>>

\* The chip station and the timeouts torn down, mesh_retire_ hands the record over.
\* Mutant: the event loop waits for the readers to leave.
DelRetireWaits ==
  /\ loop.pc = "unlinked"
  /\ \A s \in Sides : readers[s] = 0
  /\ Detach(Loop, readers, [dying EXCEPT ![loop.slot] = loop.rec],
                           [old EXCEPT ![loop.slot] = FALSE])
  /\ loop' = [pc |-> "scan", slot |-> loop.slot + 1, rec |-> None, target |-> loop.target]
  /\ UNCHANGED <<table, heap, tasks>>

DelRetire ==
  /\ loop.pc = "unlinked"
  /\ Detach(Loop, readers, [dying EXCEPT ![loop.slot] = loop.rec],
                           [old EXCEPT ![loop.slot] = FALSE])
  /\ loop' = [pc |-> "scan", slot |-> loop.slot + 1, rec |-> None, target |-> loop.target]
  /\ UNCHANGED <<table, heap, tasks>>

DelReturn ==
  /\ loop.pc = "scan" /\ done[Loop] = {}
  /\ Remaining = {}
  /\ loop' = Idle
  /\ UNCHANGED <<table, retired, counts, heap, tasks, done>>

ReaderStep(r) == ReadBegin(r) \/ ReadEnd(r) \/ \E i \in Slots : Load(r, i)
LoopProgress  == AddPublish \/ DelUnlink \/ DelRetire \/ DelReturn
LoopStep == \/ \E a \in Addrs : SetPeerKey(a) \/ \E p \in Records : AddAlloc(a, p)
            \/ \E target \in Addrs \cup {AllPeers} : DelStart(target)
            \/ LoopProgress
Freeing == \E t \in Tasks, p \in Records : FreeRetired(t, p)

Next == (\E r \in Readers : ReaderStep(r)) \/ LoopStep \/ Freeing

Spec == Init /\ [][Next]_vars

(***************************************************************************)
(* The event loop goes on with what it is doing; nobody has to call        *)
(* add_peer, del_peer or read_begin again, and a reader may stay inside.   *)
(***************************************************************************)
Fairness == WF_vars(LoopProgress) /\ \A p \in Records : WF_vars(FreeRetired(Loop, p))
FairSpec == Spec /\ Fairness

\* A reader that is inside leaves, and frees what it detached.
ReadersLeave ==
  \A r \in Readers : WF_vars(ReadEnd(r)) /\ \A p \in Records : WF_vars(FreeRetired(r, p))

-----------------------------------------------------------------------------
(* The types: the counts are numbers of tasks (uint16_t in the code). *)
Record   == [addr : Addrs, slot : Slots]
Pointer  == Records \cup {None}
LoopState == [pc : {"idle", "add", "scan", "unlinked"}, slot : 0 .. MaxPeers,
              rec : Pointer, target : Addrs \cup {AllPeers}]

TypeOK ==
  /\ peers   \in [Slots -> Pointer]
  /\ estab   \in [Slots -> BOOLEAN]
  /\ dying   \in [Slots -> Pointer]
  /\ old     \in [Slots -> BOOLEAN]
  /\ readers \in [Sides -> Nat]
  /\ cur     \in Sides
  /\ heap    \in [Records -> Record \cup {None}]
  /\ side    \in [Readers -> Sides \cup {Out}]
  /\ holds   \in [Readers -> SUBSET Records]
  /\ done    \in [Tasks -> SUBSET Records]
  /\ loop    \in LoopState

\* "a record a reader found stays allocated ... until the reader is done": no reader
\* ever follows a pointer into a block that went back to the heap.
HeldAllocated == \A r \in Readers : \A p \in holds[r] : Allocated(p)

\* Every allocated record has one owner, a slot, the event loop, a slot's retired record or
\* a task about to free it, and a free block has none: nothing is freed twice or leaked.
Owners(p) == {<<"peers", i>> : i \in {j \in Slots : peers[j] = p}}
        \cup {<<"dying", i>> : i \in {j \in Slots : dying[j] = p}}
        \cup {<<"done", t>>  : t \in {u \in Tasks : p \in done[u]}}
        \cup {<<"loop", x>>  : x \in {loop.rec} \cap {p}}
OneOwner == \A p \in Records : Cardinality(Owners(p)) = IF Allocated(p) THEN 1 ELSE 0

\* A slot is not reused while a reader may hold the record that was in it, so what the
\* reader reads by the record's slot (s_peer_estab, s_peer_mfp, the AID) is that record's.
SlotNotReused ==
  \A r \in Readers : \A p \in holds[r] :
    /\ Allocated(p)
    /\ peers[heap[p].slot] \in {p, None}
    /\ dying[heap[p].slot] \in {p, None}
    /\ loop.pc = "add" => loop.slot # heap[p].slot

\* "old: every reader that can hold it is counted on the side new readers no longer join".
OldHeldOnOtherSide ==
  \A i \in Slots, r \in Readers :
    dying[i] # None /\ old[i] /\ dying[i] \in holds[r] => side[r] = 1 - cur

\* A retired record always has a reader still to leave that will reclaim it or pass it on:
\* read_end is the only call that frees it later, so without one it would stay forever.
NoneStranded == (\E i \in Slots : dying[i] # None) => readers[1 - cur] > 0

\* The critical section is short: the loop has ended after two turns, and the closed form
\* computes what it computes, here and with any one reader gone or the record just unlinked.
IsTheLoop(rd, d, o) ==
  LET l == TwoTurns(rd, cur, d, o) IN
  ~l.going /\ Reclaim(rd, cur, d, o) = [cur |-> l.cur, dying |-> l.dying, old |-> l.old, out |-> l.out]
ReclaimIsTheLoop ==
  /\ IsTheLoop(readers, dying, old)
  /\ \A s \in Sides : readers[s] > 0 => IsTheLoop([readers EXCEPT ![s] = @ - 1], dying, old)
  /\ loop.pc = "unlinked" =>
       IsTheLoop(readers, [dying EXCEPT ![loop.slot] = loop.rec], [old EXCEPT ![loop.slot] = FALSE])

\* A reader on another task never holds up the deletion of a peer ("Nobody waits on
\* anybody"): del_peer returns though no reader ever leaves.
DelPeerReturns == loop # Idle ~> loop = Idle

\* If no reader stays inside for ever, a slot whose record is retired becomes free, whatever
\* stream of readers comes by.
SlotComesBack == ReadersLeave => \A i \in Slots : dying[i] # None ~> dying[i] = None

\* The table keeps the promise of PeerReclaim: its steps are PeerReclaim's steps, and if no
\* reader stays inside for ever each retired record is freed.
Linked(p) == \E i \in Slots : peers[i] = p
Status(p) == IF ~Allocated(p) THEN "free"
             ELSE IF Linked(p) THEN "linked"
             ELSE IF loop.pc = "add" /\ loop.rec = p THEN "new" ELSE "retired"
StatusMap == [p \in Records |-> Status(p)]
Reclaimed == INSTANCE PeerReclaim WITH status <- StatusMap
ImplementsPeerReclaim == Reclaimed!Spec /\ (ReadersLeave => Reclaimed!Fairness)

-----------------------------------------------------------------------------
(***************************************************************************)
(* The inductive invariant behind them.                                    *)
(***************************************************************************)
\* s_readers[s] is the number of tasks inside on side s.
Inside(s) == {r \in Readers : side[r] = s}
Counted == \A s \in Sides : readers[s] = Cardinality(Inside(s))

\* Where the record of slot i is.  The event loop holds one only while the slot is empty.
LoopHas(p) == loop.rec = p /\ p # None
Owned ==
  /\ \A i \in Slots : peers[i] # None =>
       Allocated(peers[i]) /\ heap[peers[i]].slot = i /\ dying[i] = None
  /\ \A i \in Slots : dying[i] # None => Allocated(dying[i]) /\ heap[dying[i]].slot = i
  /\ loop.rec # None <=> loop.pc \in {"add", "unlinked"}
  /\ loop.rec # None =>
       /\ loop.slot \in Slots
       /\ Allocated(loop.rec) /\ heap[loop.rec].slot = loop.slot
       /\ peers[loop.slot] = None /\ dying[loop.slot] = None
  /\ \A t \in Tasks : \A p \in done[t] :
       /\ Allocated(p) /\ ~LoopHas(p)
       /\ peers[heap[p].slot] # p /\ dying[heap[p].slot] # p
       /\ \A u \in Tasks : p \in done[u] => u = t

\* A record a reader holds is linked, being torn down, or retired; retired and old, its
\* reader is on the side being drained.
HeldKept ==
  \A r \in Readers : \A p \in holds[r] :
    /\ side[r] # Out /\ Allocated(p)
    /\ \/ peers[heap[p].slot] = p
       \/ loop.pc = "unlinked" /\ loop.rec = p
       \/ dying[heap[p].slot] = p /\ (old[heap[p].slot] => side[r] = 1 - cur)

\* No allocated record is without an owner, and a task holds detached records only
\* between a critical section and the frees after it.
NothingLost ==
  /\ \A p \in Records : Allocated(p) =>
       \/ peers[heap[p].slot] = p \/ dying[heap[p].slot] = p
       \/ loop.rec = p \/ \E t \in Tasks : p \in done[t]
  /\ \A r \in Readers : side[r] # Out => done[r] = {}
  /\ loop.pc # "scan" => done[Loop] = {}

IInv == TypeOK /\ Counted /\ Owned /\ HeldKept /\ NothingLost /\ NoneStranded
============================================================================
