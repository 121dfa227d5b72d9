------------------------------ MODULE MCGuards ------------------------------
(* The boot guard and the hang guard share no state: an abort of the one   *)
(* is a panic to the other.  The states of one run are those of each.  The *)
(* fairness is of the boot guard's part, where Settles is about it.        *)
EXTENDS BootGuard, HangGuard

\* One task at a time, but for the two that the event loop runs.
WatchedSets == {{"loop", "health"}, {"tcpip"}, {"usb"}, {"timer"}}

VARIABLE part

\* The part that stands still has one state.
GuardsInit ==
  /\ Init /\ HangInit
  /\ \/ part = "boot" /\ now = 0 /\ watched = {"usb"}
     \/ part = "hang" /\ crash_boots = 0 /\ marks = {"hang"}

BootNext == part = "boot" /\ Next /\ UNCHANGED <<part, hangvars>>
TaskNext == part = "hang" /\ HangNext /\ UNCHANGED <<part, vars>>

GuardsSpec == GuardsInit /\ [][BootNext \/ TaskNext]_<<part, vars, hangvars>> /\ Fairness
=============================================================================
