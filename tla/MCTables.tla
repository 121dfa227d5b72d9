------------------------------ MODULE MCTables ------------------------------
(* Two tables that nodes keep of their neighbours: the peerings of an open *)
(* mesh, with three nodes, and batman-adv's clients.  They share no state: *)
(* the states of one run are those of the one and those of the other.      *)
EXTENDS MCMpm, BatTT

VARIABLE part

TablesInit == part \in {"peerings", "clients"} /\ Init /\ TTInit

PeeringsNext == part = "peerings" /\ Next /\ UNCHANGED <<part, ttvars>>
ClientsNext  == part = "clients" /\ TTNext /\ UNCHANGED <<part, vars>>

TablesSpec == TablesInit /\ [][PeeringsNext \/ ClientsNext]_<<part, vars, ttvars>>

TablesSymmetry == Symmetry \cup Permutations(Origs)
=============================================================================
