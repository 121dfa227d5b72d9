---------------------------- MODULE PeerReclaim ----------------------------
(***************************************************************************)
(* What umac_datapath_mesh.c promises about a mesh peer record, said       *)
(* without slots, counts or sides (comment "Readers off the event loop"):  *)
(* a record is published, some readers get hold of it, it is unlinked, and *)
(* its memory goes back to the heap once, when nobody holds it.            *)
(***************************************************************************)
CONSTANTS Records,   \* the heap blocks a record can be allocated in
          Readers    \* the tasks off the event loop that look records up

VARIABLES status,    \* of every block: "free", "new", "linked" or "retired"
          holds      \* holds[r]: the records reader r has a pointer to

vars == <<status, holds>>

Init == /\ status = [p \in Records |-> "free"]
        /\ holds  = [r \in Readers |-> {}]

Held(p) == \E r \in Readers : p \in holds[r]

Move(p, from, to) == /\ status[p] = from
                     /\ status' = [status EXCEPT ![p] = to]
                     /\ UNCHANGED holds

Alloc(p)   == Move(p, "free", "new")
Publish(p) == Move(p, "new", "linked")
Unlink(p)  == Move(p, "linked", "retired")

\* A reader finds only what is published.
Hold(r, p) == /\ status[p] = "linked"
              /\ holds' = [holds EXCEPT ![r] = @ \cup {p}]
              /\ UNCHANGED status

Leave(r) == /\ holds' = [holds EXCEPT ![r] = {}]
            /\ UNCHANGED status

Free(p) == /\ ~Held(p)
           /\ Move(p, "retired", "free")

Next == \/ \E p \in Records : Alloc(p) \/ Publish(p) \/ Unlink(p) \/ Free(p)
        \/ \E r \in Readers : Leave(r) \/ \E p \in Records : Hold(r, p)

Spec == Init /\ [][Next]_vars

\* "a steady stream of readers cannot hold one forever"
Fairness == \A p \in Records : WF_vars(Free(p))
FairSpec == Spec /\ Fairness
============================================================================
