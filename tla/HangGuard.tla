----------------------------- MODULE HangGuard -----------------------------
(***************************************************************************)
(* The hang guard (main/hang_guard.c, hang_guard_core.c): every second     *)
(* app_main's loop asks five tasks for an answer and aborts, by which the  *)
(* board resets, on the one that has been silent longest past its limit.   *)
(*                                                                         *)
(* The loop, tcpip and USB tasks are asked by one message at most in their *)
(* queues, which may be full.  tcpip beats besides, from its first answer  *)
(* on, and the timer task beats only.  The health check wakes by itself,   *)
(* on the event loop.  A task may stop for any time and go on; one that    *)
(* does not answers within Lag of being asked, or of its next beat.  Time  *)
(* is in ticks of a wrapping clock; a tick comes at most MaxLate after the *)
(* one before, or the task watchdog resets the board.                      *)
(***************************************************************************)
EXTENDS Integers, Sequences, FiniteSets, FiniteSetsExt

CONSTANTS Limit,     \* WARTHOG_HANG_LIMIT_S
          Slack,     \* WARTHOG_HANG_HEALTH_SLACK_S
          Interval,  \* of the health check
          Lag,       \* within which a task that runs answers
          MaxLate,   \* WARTHOG_HANG_TWDT_S
          Wrap,      \* the modulus of the clock
          MaxStray,  \* bound: messages of ours in the queue of an event loop that stops
          Watches    \* bound: the sets of probes of which one is watched: the others are off throughout

Names  == <<"loop", "tcpip", "usb", "timer", "health">>
Probes == {Names[i] : i \in 1 .. 5}

ASSUME HangAssumption ==
  /\ {Limit, Slack, Interval, Lag, MaxLate, Wrap, MaxStray} \subseteq Nat \ {0}
  /\ Lag + 2 * MaxLate <= Limit /\ Lag < Slack
  /\ Wrap >= Limit + MaxLate /\ Wrap >= Interval + Slack + MaxLate
  /\ Watches \subseteq SUBSET Probes

VARIABLES
  watched,   \* the probes that started
  now,       \* xTaskGetTickCount
  late,      \* how long ago the last tick was
  probe,     \* s_probe: on and since_ms
  counted,   \* whose answer count (g_warthog_loop_pongs, s_tcpip_pongs, s_pongs,
             \* s_timer_beats, wakes) is not the one its probe has seen
  pending,   \* s_loop_ping_queued, s_tcpip_pending, s_ping_pending
  queued,    \* messages of ours in the queue of each
  beating,   \* whether tcpip's beat was started
  down,      \* of loop and health: those that are stopped
  stuck,     \* tasks that do not run
  named,     \* the probe the guard aborted on, or "none"
  silent,    \* history: time since the last answer, or since the probe was off
  hung       \* history: probes whose task was stuck in that time
tasks    == <<counted, pending, queued, beating>>
hangvars == <<watched, now, late, probe, tasks, down, stuck, named, silent, hung>>

Asked == {"loop", "tcpip", "usb"}
Off   == down \cup (Probes \ watched)
\* The health check wakes on the event loop.
Runner(p) == IF p = "health" THEN "loop" ELSE p
Runs(p) == named = "none" /\ p \notin Off /\ Runner(p) \notin stuck /\ Runner(p) \notin down

\* warthog_hang_health_limit_ms.
LimitOf(p) == IF p = "health" /\ Interval + Slack > Limit THEN Interval + Slack ELSE Limit

Horizon == Limit + Interval + Slack + 2 * MaxLate
Quiet   == [on |-> FALSE, since |-> 0]

HangInit ==
  /\ watched \in Watches
  /\ now \in {0, Wrap - 1} /\ late = 0
  /\ probe = [p \in Probes |-> Quiet]
  /\ counted = {} /\ pending = {} /\ queued = [p \in Asked |-> 0]
  /\ beating = FALSE /\ down = {} /\ stuck = {} /\ named = "none"
  /\ silent = [p \in Probes |-> 0] /\ hung = {}

(***************************************************************************)
(* The tasks.                                                              *)
(***************************************************************************)
Counts(p) ==
  /\ counted' = counted \cup {p}
  /\ silent' = [silent EXCEPT ![p] = 0] /\ hung' = hung \ {p}

\* A ping's handler: loop_ping_evt_handler, tcpip_pong_ (which starts the beat), un_pong_.
Pong(p) ==
  /\ Runs(p) /\ queued[p] > 0
  /\ queued' = [queued EXCEPT ![p] = @ - 1] /\ pending' = pending \ {p}
  /\ beating' = (beating \/ p = "tcpip")
  /\ Counts(p)
  /\ UNCHANGED <<watched, now, late, probe, down, stuck, named>>

\* tcpip_beat_, timer_beat_; the health check's timeout.
Beats(p) == p \in {"timer", "health"} \/ (p = "tcpip" /\ beating)
Beat(p) ==
  /\ Runs(p) /\ Beats(p) /\ silent[p] > 0
  /\ Counts(p)
  /\ UNCHANGED <<watched, now, late, probe, pending, queued, beating, down, stuck, named>>

Stick(t) ==
  /\ Runs(t) /\ t # "health"
  /\ stuck' = stuck \cup {t}
  /\ hung' = hung \cup {p \in watched \ down : Runner(p) = t}
  /\ UNCHANGED <<watched, now, late, probe, tasks, down, named, silent>>

GoOn(t) ==
  /\ named = "none" /\ t \in stuck /\ stuck' = stuck \ {t}
  /\ UNCHANGED <<watched, now, late, probe, tasks, down, named, silent, hung>>

\* The health check is vetoed or stops, the event loop stops after it, and they start again, once
\* a tick saw it (the radio takes seconds).  What is in the event loop's queue stays there.
Stop(p) ==
  /\ Runs(p)
  /\ p = "health" \/ (p = "loop" /\ "health" \in Off /\ queued[p] <= MaxStray)
  /\ down' = down \cup {p}
  /\ silent' = [silent EXCEPT ![p] = 0] /\ hung' = hung \ {p}
  /\ UNCHANGED <<watched, now, late, probe, tasks, stuck, named>>

StartAgain(p) ==
  /\ named = "none" /\ p \in down /\ ~probe[p].on /\ (p = "loop" \/ Runner(p) \notin stuck \cup down)
  /\ down' = down \ {p}
  /\ UNCHANGED <<watched, now, late, probe, tasks, stuck, named, silent, hung>>

\* Time passes; a task that runs has answered what it can: a ping comes at most MaxLate after the
\* last answer, or later by the ticks that found the queue full.
Patience(p) == IF p = "health" THEN Interval + Lag ELSE IF p = "timer" THEN Lag ELSE MaxLate + Lag
Prompt(p) == silent[p] < Patience(p)
Pass ==
  /\ named = "none" /\ late < MaxLate
  /\ \A p \in Probes :
       Runs(p) /\ (Beats(p) \/ (p \in Asked /\ queued[p] > 0)) => Prompt(p)
  /\ now' = (now + 1) % Wrap /\ late' = late + 1
  /\ silent' = [p \in Probes |-> IF p \in Off \/ silent[p] > Horizon THEN silent[p] ELSE silent[p] + 1]
  /\ UNCHANGED <<watched, probe, tasks, down, stuck, named, hung>>

(***************************************************************************)
(* warthog_hang_guard_tick.                                                *)
(***************************************************************************)
\* Whose queue can be full (un_ping looks in an empty one only: main cannot run while TinyUSB can).
CanBeFull(p) == Runs(p) => (p = "loop" /\ Prompt(p)) \/ (p = "tcpip" /\ (beating \/ Prompt(p)))

\* umac_loop_ping_request, tcpip_post_ and warthog_usb_net_ping, where full is the set of queues
\* that have no room: whose post is refused, and which pings are pending then.
Refused(full) == {p \in Asked \ (Off \cup pending) : p \in full}
Cleared == IF "loop" \in down THEN pending \ {"loop"} ELSE pending
Pending(full) == Cleared \cup (Asked \ (Off \cup full))

\* warthog_hang_step.  Mutants: a wait goes on where the probe was off; a refused post restarts it.
StepOn(p, r) == [on |-> TRUE, since |-> IF p \in counted THEN now ELSE probe[p].since]
StepFull(p, r) ==
  [on |-> TRUE, since |-> IF ~probe[p].on \/ p \in counted \/ r THEN now ELSE probe[p].since]
Step(p, r) ==
  [on |-> TRUE, since |-> IF ~probe[p].on \/ p \in counted THEN now ELSE probe[p].since]

Age(q) == (now - q.since) % Wrap

\* warthog_hang_stalled: the longest wait of those past their limits, the first of equals.
Past(ps) == {i \in 1 .. 5 : ps[Names[i]].on /\ Age(ps[Names[i]]) >= LimitOf(Names[i])}
Stalled(ps) ==
  IF Past(ps) = {} THEN "none"
  ELSE Names[CHOOSE i \in Past(ps) :
               \A j \in Past(ps) : \/ Age(ps[Names[i]]) > Age(ps[Names[j]])
                                   \/ Age(ps[Names[i]]) = Age(ps[Names[j]]) /\ i <= j]

GuardTick ==
  /\ named = "none" /\ late > 0 /\ late' = 0
  /\ \E full \in SUBSET {p \in Asked \ (Off \cup pending) : CanBeFull(p)} :
       /\ queued' = [p \in Asked |-> IF p \in Pending(full) \ Cleared THEN queued[p] + 1 ELSE queued[p]]
       /\ pending' = Pending(full)
       /\ probe' = [p \in Probes |-> IF p \in Off THEN [probe[p] EXCEPT !.on = FALSE]
                                     ELSE Step(p, p \in Refused(full))]
       /\ counted' = {}
  /\ named' = Stalled(probe')
  /\ UNCHANGED <<watched, now, beating, down, stuck, silent, hung>>

\* esp_system_abort: the board starts again.
Reboots ==
  /\ named # "none" /\ named' = "none"
  /\ now' \in {0, Wrap - 1} /\ late' = 0
  /\ probe' = [p \in Probes |-> Quiet]
  /\ counted' = {} /\ pending' = {} /\ queued' = [p \in Asked |-> 0]
  /\ beating' = FALSE /\ down' = {} /\ stuck' = {}
  /\ silent' = [p \in Probes |-> 0] /\ hung' = {}
  /\ UNCHANGED watched

HangNext ==
  \/ \E p \in Asked : Pong(p)
  \/ \E p \in Probes : Beat(p) \/ Stick(p) \/ GoOn(p)
  \/ \E p \in {"loop", "health"} : Stop(p) \/ StartAgain(p)
  \/ Pass \/ GuardTick \/ Reboots

HangSpec == HangInit /\ [][HangNext]_hangvars

-----------------------------------------------------------------------------
\* The types.
HangTypeOK ==
  /\ watched \subseteq Probes /\ now \in 0 .. Wrap - 1 /\ late \in 0 .. MaxLate
  /\ probe \in [Probes -> [on : BOOLEAN, since : 0 .. Wrap - 1]]
  /\ counted \subseteq Probes /\ pending \subseteq Asked
  /\ queued \in [Asked -> 0 .. MaxStray + 1] /\ silent \in [Probes -> 0 .. Horizon + 1]
  /\ down \subseteq {"loop", "health"} /\ stuck \subseteq Probes /\ hung \subseteq Probes
  /\ named \in Probes \cup {"none"}

\* "A probe unanswered this long aborts", and nothing else does: the guard names a probe only if
\* it was silent for its whole limit and its task stood still meanwhile, through full queues,
\* stops and starts, late ticks and the wrap of the clock (hang_guard_core.h, the limit).
NamesTheHung == named # "none" => silent[named] >= LimitOf(named) /\ named \in hung

\* And every such task is found: none is silent much past its limit on a board that is up.
HungIsFound ==
  named = "none" => \A p \in watched : silent[p] < LimitOf(p) + 2 * MaxLate

\* The types and that.
HangInv == HangTypeOK /\ HungIsFound
=============================================================================
