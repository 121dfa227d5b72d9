------------------------------- MODULE MCKeys -------------------------------
(* Numbers that no one may take for new twice: our group key's packet      *)
(* numbers, a peer's group key, batman-adv's broadcasts.  The first two    *)
(* share the epoch allocator only, which GroupPn moves by itself (KeyPeer);*)
(* the third shares nothing: the states of one run are those of each.      *)
EXTENDS GroupPn, PeerGtk, BatBcast

CONSTANTS k1, k2
VARIABLE part

\* The parts that stand still have one state; of the broadcasts the second wraps.
KeysInit == /\ PnInit /\ GtkInit /\ BcastInit
            /\ part \in {"own", "peer", "bcast"} /\ seq = 14

OwnNext  == part = "own" /\ PnNext /\ UNCHANGED <<part, vars, bcvars>>
PeerNext == part = "peer" /\ GtkNext /\ UNCHANGED <<part, pnvars, bcvars>>
NumNext  == part = "bcast" /\ BcastNext /\ UNCHANGED <<part, pnvars, vars>>

KeysSpec == KeysInit /\ [][OwnNext \/ PeerNext \/ NumNext]_<<part, pnvars, vars, bcvars>>
=============================================================================
