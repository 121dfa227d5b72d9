---------------------------- MODULE GuardProofs ----------------------------
(***************************************************************************)
(* The boot guard: safe mode comes after SafeAfter crashes in a row,       *)
(* whatever the numbers: the marks a boot leaves tell the next one what    *)
(* ended it.                                                               *)
(***************************************************************************)
EXTENDS BootGuard, HangGuard, TLAPS

\* What the next boot will count is what happened; a boot under way has counted it.
Counted ==
  /\ at = "start" => CountNow = crashes
  /\ at # "start" => crash_boots = crashes /\ ("safe" \in is <=> crashes >= SafeAfter)
  /\ at # "start" /\ "cleared" \in is => crash_boots = 0

\* The marks of a boot under way: one it leaves is one the next boot reads right.
Marked ==
  /\ at # "start" => Valid
  /\ at # "start" => ("dl" \in marks <=> at = "download")
  /\ Running => ("usb_fail" \in marks <=> at = "loop" /\ "armed" \in is)
  /\ Running /\ at # "loop" => "armed" \in is

BootIInv == TypeOK /\ Counted /\ Marked

LEMMA InitBootIInv == Init => BootIInv
<1> SUFFICES ASSUME Init PROVE BootIInv
  OBVIOUS
<1>1. TypeOK
  BY BootAssumption DEF BootAssumption, Init, Marks, Crash, TypeOK
<1>2. CountNow = 0
  BY DEF Init, CountNow, DlBack, UsbRetry, Valid, NextCount, Crash
<1> QED
  BY <1>1, <1>2 DEF Init, BootIInv, Counted, Marked, Running

LEMMA NextBootIInv == BootIInv /\ [Next]_vars => BootIInv'
<1> SUFFICES ASSUME BootIInv, [Next]_vars PROVE BootIInv'
  OBVIOUS
<1> USE BootAssumption DEF BootAssumption, BootIInv, TypeOK, Counted, Marked, Running
<1>1. CASE Start
  <2>1. CountNow \in 0 .. CountMax /\ RetriesNow \in 0 .. UsbRetries
    BY DEF CountNow, NextCount, RetriesNow
  <2> QED
    BY <1>1, <2>1 DEF Start, Valid, Marks, Facts
<1>2. CASE HalowUp
  BY <1>2, SMTT(30) DEF HalowUp, kept, Valid
<1>3. CASE UsbUp
  <2>0. is' \subseteq Facts
    BY <1>3 DEF UsbUp, Facts
  <2>1. TypeOK'
    BY <1>3, <2>0 DEF UsbUp
  <2>2. "armed" \notin is' /\ ("safe" \in is' <=> "safe" \in is) /\ ("cleared" \in is' <=> "cleared" \in is)
    BY <1>3, SMTT(30) DEF UsbUp
  <2> QED
    BY <1>3, <2>1, <2>2, SMTT(30) DEF UsbUp, Valid
<1>4. CASE UsbFailed
  <2>1. CASE usb_retries >= UsbRetries /\ is' = is \ {"armed"} /\ UNCHANGED <<usb_retries, marks>>
    BY <1>4, <2>1, SMTT(30) DEF UsbFailed, Valid
  <2>2. CASE usb_retries < UsbRetries /\ usb_retries' = usb_retries + 1 /\ marks' = marks \cup {"usb_fail"}
             /\ UNCHANGED is
    BY <1>4, <2>2, SMTT(30) DEF UsbFailed, Valid, Marks
  <2> QED
    BY <1>4, <2>1, <2>2 DEF UsbFailed
<1>5. CASE Tick
  <2>1. CASE Due
    <3>0. is' = is \cup {"cleared"}
      BY <1>5, <2>1 DEF Tick
    <3>1. is' \subseteq Facts /\ ("armed" \in is' <=> "armed" \in is) /\ ("safe" \in is' <=> "safe" \in is)
      BY <3>0 DEF Facts
    <3>2. at = "loop" /\ crash_boots' = 0 /\ crashes' = 0 /\ UNCHANGED <<usb_retries, marks, rr, at, events>>
      BY <1>5, <2>1 DEF Tick, Due, Well
    <3>3. "safe" \notin is
      BY <2>1 DEF Due
    <3> QED
      BY <3>1, <3>2, <3>3 DEF Valid
  <2>2. CASE ~Due
    <3>1. at = "loop" /\ UNCHANGED <<crash_boots, is, usb_retries, marks, rr, at, events>>
      BY <1>5, <2>2 DEF Tick
    <3>2. crashes' = crashes
      <4>1. CASE Well
        BY <1>5, <2>2, <3>1, <4>1 DEF Tick, Due, Well
      <4> QED
        BY <1>5, <4>1 DEF Tick
    <3> QED
      BY <3>1, <3>2 DEF Valid
  <2> QED
    BY <2>1, <2>2
<1>6. CASE Minute
  BY <1>6 DEF Minute, kept, Valid, Facts
<1>7. CASE Expired
  BY <1>7 DEF Expired, ResetAs, kept, CrashAgain, CountNow, DlBack, UsbRetry, Valid, NextCount, Crash
<1>8. CASE Panicked
  BY <1>8, SMTT(30) DEF Panicked, Event, ResetAs, kept, CrashAgain, CountNow, DlBack, UsbRetry, Valid, NextCount, Crash
<1>9. CASE Clean
  <2>1. CASE UNCHANGED kept
    BY <1>9, <2>1, SMTT(30) DEF Clean, Event, ResetAs, kept, CountNow, DlBack, UsbRetry, Valid, NextCount, Crash
  <2>2. CASE Garbage(crash_boots', usb_retries', marks')
    <3>1. "magic" \notin marks' /\ marks' \subseteq Marks
      BY <2>2 DEF Garbage, Marks
    <3> QED
      BY <1>9, <2>2, <3>1, SMTT(30) DEF Clean, Garbage, Event, ResetAs, CountNow, DlBack, UsbRetry, Valid,
         NextCount, Crash
  <2> QED
    BY <1>9, <2>1, <2>2 DEF Clean
<1>10. CASE ArmHang
  BY <1>10 DEF ArmHang, Commands, Event, ResetAs, CrashAgain, CountNow, DlBack, UsbRetry, Valid, NextCount,
     Crash, Marks
<1>11. CASE EnterDownload
  BY <1>11 DEF EnterDownload, Commands, Event, Valid, Marks
<1>12. CASE LeaveDownload
  BY <1>12 DEF LeaveDownload, ResetAs, kept, CountNow, DlBack, UsbRetry, Valid, NextCount, Crash
<1>13. CASE UNCHANGED vars
  BY <1>13 DEF vars, kept, CountNow, DlBack, UsbRetry, Valid, NextCount
<1> QED
  BY <1>1, <1>2, <1>3, <1>4, <1>5, <1>6, <1>7, <1>8, <1>9, <1>10, <1>11, <1>12, <1>13 DEF Next

\* The counts of the record stay in their range (they saturate and no retry is overspent), and
\* safe mode comes exactly after SafeAfter crashes in a row: for every limit and number of events.
THEOREM SafeMode == Spec => []BootInv
<1>1. BootIInv => TypeOK
  BY DEF BootIInv
<1>2. BootIInv => SafeAfterCrashes
  BY DEF BootIInv, Counted, SafeAfterCrashes, Running
<1>3. BootIInv => BootInv
  BY <1>1, <1>2 DEF BootInv
<1> QED
  BY <1>3, InitBootIInv, NextBootIInv, PTL DEF Spec

-----------------------------------------------------------------------------
(***************************************************************************)
(* The hang guard.  What a probe times is not its task's silence: the wait *)
(* starts at the tick that saw the last answer, or saw the probe come on,  *)
(* so it is shorter than the silence by at most the time between ticks.    *)
(* The limits leave room for that, for a ping that comes late and for one  *)
(* that found the queue full.                                              *)
(***************************************************************************)

\* A wait under way is the silence less the time before the tick it started at, and short of its
\* limit at the last tick; else the silence began since that tick.
Waits ==
  \A p \in Probes \ Off :
    IF probe[p].on /\ p \notin counted
    THEN /\ Age(probe[p]) <= silent[p] /\ silent[p] <= Age(probe[p]) + MaxLate
         /\ Age(probe[p]) < LimitOf(p) + late
    ELSE silent[p] <= late

\* A task that is stuck is known to be.
Blamed == \A p \in watched \ down : Runner(p) \in stuck => p \in hung

\* The radio stops whole, and its loop not while stuck.
Radio ==
  /\ \A p \in Off : silent[p] = 0
  /\ "loop" \in down => "health" \in Off /\ "loop" \notin stuck

\* A ping that is pending is in its queue, and only strays are beside it.
Queues ==
  \A p \in Asked : /\ p \in pending => queued[p] > 0
                   /\ p \notin pending \/ p \in down => queued[p] <= MaxStray

\* A task that did not stand still answered in time; one that only answers may yet wait to be asked.
Prompted ==
  \A p \in Probes \ (Off \cup hung) :
    /\ Beats(p) => silent[p] <= Patience(p)
    /\ ~Beats(p) => silent[p] < Patience(p) + (IF queued[p] = 0 THEN late ELSE MaxLate)

HangIInv ==
  /\ HangTypeOK /\ NamesTheHung
  /\ named = "none" => Waits /\ Blamed /\ Radio /\ Queues /\ Prompted

-----------------------------------------------------------------------------
\* The probes, their tasks and limits.
LEMMA ProbesAre == Probes = {"loop", "tcpip", "usb", "timer", "health"}
<1>1. /\ Names[1] = "loop" /\ Names[2] = "tcpip" /\ Names[3] = "usb"
      /\ Names[4] = "timer" /\ Names[5] = "health"
  BY DEF Names
<1>2. 1 .. 5 = {1, 2, 3, 4, 5}
  OBVIOUS
<1> QED  BY <1>1, <1>2 DEF Probes

LEMMA ProbeKinds ==
  /\ Asked \subseteq Probes /\ "none" \notin Probes
  /\ \A p \in Probes : Runner(p) \in Probes /\ Runner(Runner(p)) = Runner(p)
  /\ \A p \in Probes : ~Beats(p) => p \in Asked
BY ProbesAre DEF Asked, Runner, Beats

LEMMA Bounds ==
  /\ Wrap \in Nat /\ Wrap > 0 /\ MaxLate \in Nat /\ MaxLate > 0 /\ MaxStray \in Nat /\ MaxStray > 0
  /\ Horizon \in Nat
  /\ \A p \in Probes : /\ LimitOf(p) \in Nat /\ Patience(p) \in Nat
                       /\ LimitOf(p) + MaxLate <= Wrap /\ LimitOf(p) + 2 * MaxLate <= Horizon
                       /\ 0 < Patience(p) /\ Patience(p) < LimitOf(p)
                       /\ p \in Asked => Patience(p) + MaxLate <= LimitOf(p)
BY HangAssumption, ProbesAre DEF HangAssumption, Horizon, LimitOf, Patience, Asked

-----------------------------------------------------------------------------
\* The clock's arithmetic.
LEMMA Wraps ==
  ASSUME NEW x \in Int, -Wrap <= x, x < Wrap + Wrap
  PROVE  x % Wrap = IF x < 0 THEN x + Wrap ELSE IF x < Wrap THEN x ELSE x - Wrap
<1>1. Wrap \in Nat /\ Wrap > 0
  BY Bounds
<1>2. CASE x < 0
  BY <1>1, <1>2
<1>3. CASE 0 <= x /\ x < Wrap
  BY <1>1, <1>3
<1>4. CASE Wrap <= x
  <2>1. \A y \in 0 .. Wrap - 1 : (y + Wrap) % Wrap = y
    BY <1>1
  <2>2. x - Wrap \in 0 .. Wrap - 1 /\ (x - Wrap) + Wrap = x
    BY <1>1, <1>4
  <2>3. ((x - Wrap) + Wrap) % Wrap = x - Wrap
    BY <2>1, <2>2
  <2>4. x % Wrap = x - Wrap
    BY <2>2, <2>3
  <2> QED  BY <1>1, <1>4, <2>4
<1> QED  BY <1>1, <1>2, <1>3, <1>4

\* A wait that is short of the clock's period is a tick longer when the clock has ticked.
LEMMA AgeTicks ==
  ASSUME NEW c \in 0 .. Wrap - 1, NEW s \in 0 .. Wrap - 1, NEW d, d = (c + 1) % Wrap,
         ((c - s) % Wrap) + 1 < Wrap
  PROVE  d \in 0 .. Wrap - 1 /\ (d - s) % Wrap = ((c - s) % Wrap) + 1
<1>1. Wrap \in Nat /\ Wrap > 0 /\ c \in Int /\ s \in Int /\ 0 <= c /\ c < Wrap /\ 0 <= s /\ s < Wrap
  BY Bounds
<1> DEFINE x == c + 1
           y == c - s
<1>2. /\ x \in Int /\ -Wrap <= x /\ x < Wrap + Wrap /\ x = c + 1
      /\ y \in Int /\ -Wrap <= y /\ y < Wrap + Wrap /\ y = c - s
  BY <1>1
<1>3. d = x % Wrap /\ (y % Wrap) + 1 < Wrap
  OBVIOUS
<1> HIDE DEF x, y
<1>4. x % Wrap = IF x < 0 THEN x + Wrap ELSE IF x < Wrap THEN x ELSE x - Wrap
  BY <1>2, Wraps
<1>5. y % Wrap = IF y < 0 THEN y + Wrap ELSE IF y < Wrap THEN y ELSE y - Wrap
  BY <1>2, Wraps
<1>6. d \in Int /\ 0 <= d /\ d < Wrap
  BY <1>1, <1>2, <1>3, <1>4
<1> DEFINE z == d - s
<1>7. z \in Int /\ -Wrap <= z /\ z < Wrap + Wrap /\ z = d - s
  BY <1>1, <1>6
<1> HIDE DEF z
<1>8. z % Wrap = IF z < 0 THEN z + Wrap ELSE IF z < Wrap THEN z ELSE z - Wrap
  BY <1>7, Wraps
<1>9. z % Wrap = (y % Wrap) + 1
  BY <1>1, <1>2, <1>3, <1>4, <1>5, <1>7, <1>8
<1>10. d \in 0 .. Wrap - 1
  BY <1>1, <1>6
<1>11. (d - s) % Wrap = ((c - s) % Wrap) + 1
  BY <1>9 DEF z, y
<1> QED  BY <1>10, <1>11

LEMMA AgeOfNow == ASSUME NEW c \in 0 .. Wrap - 1  PROVE (c - c) % Wrap = 0
<1> DEFINE x == c - c
<1>1. x = 0 /\ -Wrap <= x /\ x < Wrap + Wrap
  BY Bounds
<1> HIDE DEF x
<1>2. x % Wrap = 0
  BY <1>1, Wraps, Bounds
<1> QED  BY <1>2 DEF x

LEMMA AgeRange ==
  ASSUME NEW c \in 0 .. Wrap - 1, NEW s \in 0 .. Wrap - 1  PROVE (c - s) % Wrap \in 0 .. Wrap - 1
BY Bounds

-----------------------------------------------------------------------------
\* No silence is much longer than its wait.
LEMMA HangFollows == HangIInv => HangInv
<1> SUFFICES ASSUME HangIInv, named = "none", NEW p \in watched
             PROVE  silent[p] < LimitOf(p) + 2 * MaxLate
  BY DEF HangIInv, HangInv, HungIsFound
<1>1. p \in Probes /\ silent[p] \in Nat /\ late \in 0 .. MaxLate /\ now \in 0 .. Wrap - 1 /\ Waits /\ Radio
  BY Bounds DEF HangIInv, HangTypeOK
<1>2. LimitOf(p) \in Nat /\ LimitOf(p) > 0 /\ MaxLate \in Nat /\ MaxLate > 0
  BY <1>1, Bounds
<1>3. CASE p \in Off
  BY <1>1, <1>2, <1>3 DEF Radio
<1>4. CASE p \notin Off
  <2>1. CASE probe[p].on /\ p \notin counted
    <3>1. /\ silent[p] <= Age(probe[p]) + MaxLate /\ Age(probe[p]) < LimitOf(p) + late
      BY <1>1, <1>4, <2>1 DEF Waits
    <3>2. probe[p].since \in 0 .. Wrap - 1
      BY <1>1 DEF HangIInv, HangTypeOK
    <3>3. Age(probe[p]) \in 0 .. Wrap - 1
      BY <1>1, <3>2, AgeRange DEF Age
    <3> HIDE DEF HangIInv
    <3> QED  BY <1>1, <1>2, <3>1, <3>3, Bounds
  <2>2. CASE ~(probe[p].on /\ p \notin counted)
    <3>1. silent[p] <= late
      BY <1>1, <1>4, <2>2 DEF Waits
    <3> QED  BY <1>1, <1>2, <3>1
  <2> QED  BY <2>1, <2>2
<1> QED  BY <1>3, <1>4

LEMMA HangStart == HangInit => HangIInv
<1> SUFFICES ASSUME HangInit  PROVE HangIInv
  OBVIOUS
<1>1. watched \subseteq Probes /\ Horizon \in Nat /\ Wrap \in Nat /\ Wrap > 0
  BY Bounds, HangAssumption DEF HangAssumption, HangInit
<1>2. HangTypeOK
  BY <1>1, Bounds DEF HangInit, HangTypeOK, Quiet
<1>3. Waits /\ Blamed /\ Radio /\ Queues /\ NamesTheHung
  BY <1>1, Bounds DEF HangInit, Waits, Blamed, Radio, Queues, NamesTheHung, Quiet, Off
<1>4. Prompted
  BY <1>1, Bounds DEF HangInit, Prompted
<1> QED  BY <1>2, <1>3, <1>4 DEF HangIInv

-----------------------------------------------------------------------------
\* An answer, of either kind, ends a silence.
LEMMA AnswerCounts ==
  ASSUME HangIInv, NEW p \in Probes, Runs(p), Counts(p), Queues', queued' \in [Asked -> 0 .. MaxStray + 1],
         \A q \in Asked \ {p} : queued'[q] = queued[q],
         pending' \subseteq Asked, \A q \in Probes \ {p} : Beats(q)' <=> Beats(q),
         UNCHANGED <<watched, now, late, probe, down, stuck, named>>
  PROVE  HangIInv'
<1>1. named = "none" /\ p \notin Off /\ Runner(p) \notin stuck
  BY DEF Runs
<1>2. HangTypeOK /\ Waits /\ Blamed /\ Radio /\ Queues /\ Prompted
  BY <1>1 DEF HangIInv
<1>3. /\ \A q \in Probes : silent'[q] = IF q = p THEN 0 ELSE silent[q]
      /\ silent' \in [Probes -> 0 .. Horizon + 1]
  BY <1>2, Bounds DEF Counts, HangTypeOK
<1>4. HangTypeOK'
  BY <1>2, <1>3 DEF HangTypeOK, Counts
<1>5. Off' = Off /\ (late \in Nat)'
  BY <1>2, Bounds DEF Off, HangTypeOK
<1>6. Waits'
  <2> SUFFICES ASSUME NEW q \in Probes \ Off
               PROVE  (IF probe[q].on /\ q \notin counted
                       THEN /\ Age(probe[q]) <= silent[q] /\ silent[q] <= Age(probe[q]) + MaxLate
                            /\ Age(probe[q]) < LimitOf(q) + late
                       ELSE silent[q] <= late)'
    BY <1>5 DEF Waits
  <2>1. CASE q = p
    BY <1>3, <1>5, <2>1 DEF Counts
  <2>2. CASE q # p
    BY <1>2, <1>3, <2>2 DEF Counts, Waits, Age, LimitOf
  <2> QED  BY <2>1, <2>2
<1>7. Blamed'
  BY <1>1, <1>2 DEF Blamed, Counts, Runner
<1>8. Radio'
  BY <1>2, <1>3, <1>5, ProbesAre DEF Radio, Off, HangTypeOK
<1>9. Prompted'
  <2> SUFFICES ASSUME NEW q \in Probes \ (Off \cup hung')
               PROVE  (/\ Beats(q) => silent[q] <= Patience(q)
                       /\ ~Beats(q) => silent[q] < Patience(q) + (IF queued[q] = 0 THEN late ELSE MaxLate))'
    BY <1>5 DEF Prompted
  <2>1. CASE q = p
    BY <1>3, <1>5, <2>1, Bounds DEF Patience
  <2>2. CASE q # p
    <3>1. /\ q \in Probes \ (Off \cup hung) /\ silent'[q] = silent[q]
          /\ (Beats(q)' <=> Beats(q)) /\ Patience(q)' = Patience(q)
      BY <1>3, <2>2 DEF Counts, Patience
    <3>2. ~Beats(q) => queued'[q] = queued[q]
      BY <2>2, ProbeKinds
    <3>3. late' = late /\ (Beats(q) => silent[q] <= Patience(q))
      BY <1>2, <3>1 DEF Prompted
    <3>4. ~Beats(q) => silent[q] < Patience(q) + (IF queued[q] = 0 THEN late ELSE MaxLate)
      BY <1>2, <3>1 DEF Prompted
    <3> QED  BY <3>1, <3>2, <3>3, <3>4, Zenon
  <2> QED  BY <2>1, <2>2
<1>10. NamesTheHung'
  BY <1>1 DEF NamesTheHung
<1> QED  BY <1>4, <1>6, <1>7, <1>8, <1>9, <1>10 DEF HangIInv

\* A post leaves one message at most beside the strays: the queue is as long as that.
LEMMA Ponged == ASSUME HangIInv, NEW p \in Asked, Pong(p)  PROVE HangIInv'
<1>1. p \in Probes /\ Runs(p) /\ Counts(p) /\ named = "none" /\ p \notin down
  BY ProbeKinds DEF Pong, Runs, Off
<1>2. HangTypeOK /\ Queues
  BY <1>1 DEF HangIInv
<1>3. /\ queued' = [queued EXCEPT ![p] = @ - 1] /\ pending' = pending \ {p} /\ queued[p] > 0
      /\ beating' = (beating \/ p = "tcpip")
      /\ UNCHANGED <<watched, now, late, probe, down, stuck, named>>
  BY DEF Pong
<1>4. queued' \in [Asked -> 0 .. MaxStray + 1] /\ \A q \in Asked \ {p} : queued'[q] = queued[q]
  BY <1>2, <1>3, Bounds DEF HangTypeOK
<1>5. Queues'
  BY <1>1, <1>2, <1>3, Bounds DEF Queues, HangTypeOK
<1>6. pending' \subseteq Asked
  BY <1>2, <1>3 DEF HangTypeOK
<1>7. \A q \in Probes \ {p} : Beats(q)' <=> Beats(q)
  <2> SUFFICES ASSUME NEW q \in Probes \ {p}  PROVE Beats(q)' <=> Beats(q)
    OBVIOUS
  <2>1. CASE q = "tcpip"
    <3>1. p # "tcpip"
      BY <2>1
    <3> QED  BY <1>3, <3>1, Zenon DEF Beats
  <2>2. CASE q # "tcpip"
    BY <2>2, Zenon DEF Beats
  <2> QED  BY <2>1, <2>2
<1> QED  BY <1>1, <1>3, <1>4, <1>5, <1>6, <1>7, AnswerCounts

LEMMA Beaten == ASSUME HangIInv, NEW p \in Probes, Beat(p)  PROVE HangIInv'
<1>1. Runs(p) /\ Counts(p) /\ named = "none"
  BY DEF Beat, Runs
<1>2. HangTypeOK /\ Queues
  BY <1>1 DEF HangIInv
<1>3. UNCHANGED <<watched, now, late, probe, pending, queued, beating, down, stuck, named>>
  BY DEF Beat
<1>4. Queues' /\ queued' \in [Asked -> 0 .. MaxStray + 1] /\ pending' \subseteq Asked
  BY <1>2, <1>3 DEF Queues, HangTypeOK
<1>5. \A q \in Probes \ {p} : Beats(q)' <=> Beats(q)
  BY <1>3 DEF Beats
<1> QED  BY <1>1, <1>3, <1>4, <1>5, AnswerCounts

LEMMA Stuck == ASSUME HangIInv, NEW t \in Probes, Stick(t)  PROVE HangIInv'
<1>1. named = "none" /\ t \notin Off /\ t # "health" /\ Runner(t) \notin down
  BY DEF Stick, Runs
<1>2. HangTypeOK /\ Waits /\ Blamed /\ Radio /\ Queues /\ Prompted
  BY <1>1 DEF HangIInv
<1>3. /\ stuck' = stuck \cup {t} /\ hung' = hung \cup {p \in watched \ down : Runner(p) = t}
      /\ UNCHANGED <<watched, now, late, probe, counted, pending, queued, beating, down, named, silent>>
  BY DEF Stick, tasks
<1>4. HangTypeOK'
  BY <1>2, <1>3 DEF HangTypeOK
<1>5. Waits' /\ Queues' /\ NamesTheHung'
  BY <1>1, <1>2, <1>3 DEF Waits, Queues, NamesTheHung, Off, Age, LimitOf
<1>6. Blamed'
  BY <1>2, <1>3 DEF Blamed, Runner
<1>7. Radio'
  BY <1>1, <1>2, <1>3 DEF Radio, Off, Runner
<1>8. Prompted'
  BY <1>2, <1>3 DEF Prompted, Off, Beats, Patience
<1> QED  BY <1>4, <1>5, <1>6, <1>7, <1>8 DEF HangIInv

LEMMA WentOn == ASSUME HangIInv, NEW t \in Probes, GoOn(t)  PROVE HangIInv'
<1>1. named = "none"
  BY DEF GoOn
<1>2. HangTypeOK /\ Waits /\ Blamed /\ Radio /\ Queues /\ Prompted
  BY <1>1 DEF HangIInv
<1>3. /\ stuck' = stuck \ {t}
      /\ UNCHANGED <<watched, now, late, probe, counted, pending, queued, beating, down, named, silent, hung>>
  BY DEF GoOn, tasks
<1>4. HangTypeOK'
  BY <1>2, <1>3 DEF HangTypeOK
<1>5. Waits' /\ Queues' /\ NamesTheHung'
  BY <1>1, <1>2, <1>3 DEF Waits, Queues, NamesTheHung, Off, Age, LimitOf
<1>6. Blamed' /\ Radio'
  BY <1>2, <1>3 DEF Blamed, Runner, Radio, Off
<1>7. Prompted'
  BY <1>2, <1>3 DEF Prompted, Off, Beats, Patience
<1> QED  BY <1>4, <1>5, <1>6, <1>7 DEF HangIInv

LEMMA Stopped == ASSUME HangIInv, NEW p \in {"loop", "health"}, Stop(p)  PROVE HangIInv'
<1>1. /\ named = "none" /\ p \notin Off /\ p \in Probes /\ Runner(p) \notin stuck
      /\ p = "loop" => "health" \in Off /\ queued[p] <= MaxStray
  BY ProbesAre DEF Stop, Runs
<1>2. HangTypeOK /\ Waits /\ Blamed /\ Radio /\ Queues /\ Prompted
  BY <1>1 DEF HangIInv
<1>3. /\ down' = down \cup {p} /\ silent' = [silent EXCEPT ![p] = 0] /\ hung' = hung \ {p}
      /\ UNCHANGED <<watched, now, late, probe, counted, pending, queued, beating, stuck, named>>
  BY DEF Stop, tasks
<1>4. /\ \A q \in Probes : silent'[q] = IF q = p THEN 0 ELSE silent[q]
      /\ silent' \in [Probes -> 0 .. Horizon + 1]
  BY <1>1, <1>2, <1>3, Bounds DEF HangTypeOK
<1>5. HangTypeOK'
  BY <1>2, <1>3, <1>4 DEF HangTypeOK
<1>6. Off' = Off \cup {p}
  BY <1>3 DEF Off
<1>7. Waits' /\ NamesTheHung'
  BY <1>1, <1>2, <1>3, <1>4, <1>6 DEF Waits, NamesTheHung, Age, LimitOf
<1>8. Blamed'
  BY <1>2, <1>3 DEF Blamed, Runner
<1>9. Radio'
  <2>1. Off \subseteq Probes
    BY <1>2, ProbesAre DEF Off, HangTypeOK
  <2> QED  BY <1>1, <1>2, <1>3, <1>4, <1>6, <2>1 DEF Radio, Runner
<1>10. Queues'
  BY <1>1, <1>2, <1>3 DEF Queues, Asked
<1>11. Prompted'
  BY <1>2, <1>3, <1>4, <1>6 DEF Prompted, Beats, Patience
<1> QED  BY <1>5, <1>7, <1>8, <1>9, <1>10, <1>11 DEF HangIInv

LEMMA Started == ASSUME HangIInv, NEW p \in {"loop", "health"}, StartAgain(p)  PROVE HangIInv'
<1>1. /\ named = "none" /\ p \in down /\ ~probe[p].on /\ p \in Probes
      /\ (p = "loop" \/ Runner(p) \notin stuck \cup down)
  BY ProbesAre DEF StartAgain
<1>2. HangTypeOK /\ Waits /\ Blamed /\ Radio /\ Queues /\ Prompted
  BY <1>1 DEF HangIInv
<1>3. /\ down' = down \ {p}
      /\ UNCHANGED <<watched, now, late, probe, counted, pending, queued, beating, stuck, named, silent, hung>>
  BY DEF StartAgain, tasks
<1>4. HangTypeOK'
  BY <1>2, <1>3 DEF HangTypeOK
<1>5. Off' \subseteq Off /\ Off \subseteq Off' \cup {p} /\ silent[p] = 0 /\ Off \subseteq Probes
  BY <1>1, <1>2, <1>3, ProbesAre DEF Off, Radio, HangTypeOK
<1>6. Waits' /\ NamesTheHung'
  BY <1>1, <1>2, <1>3, <1>5, Bounds DEF Waits, NamesTheHung, Age, LimitOf, HangTypeOK
<1>7. Blamed'
  BY <1>1, <1>2, <1>3 DEF Blamed, Runner, Radio
<1>8. Radio'
  BY <1>1, <1>2, <1>3, <1>5 DEF Radio, Runner, Off
<1>9. Queues'
  BY <1>1, <1>2, <1>3 DEF Queues
<1>10. Prompted'
  <2> SUFFICES ASSUME NEW q \in Probes \ (Off' \cup hung)
               PROVE  /\ Beats(q) => silent[q] <= Patience(q)
                      /\ ~Beats(q) => silent[q] < Patience(q) + (IF queued[q] = 0 THEN late ELSE MaxLate)
    BY <1>3 DEF Prompted, Beats, Patience
  <2>1. CASE q = p
    BY <1>2, <1>5, <2>1, Bounds DEF HangTypeOK
  <2>2. CASE q # p
    BY <1>2, <1>5, <2>2 DEF Prompted
  <2> QED  BY <2>1, <2>2
<1> QED  BY <1>4, <1>6, <1>7, <1>8, <1>9, <1>10 DEF HangIInv

LEMMA Rebooted == ASSUME HangIInv, Reboots  PROVE HangIInv'
<1>1. watched' = watched /\ watched \subseteq Probes /\ Horizon \in Nat /\ Wrap \in Nat /\ Wrap > 0
  BY Bounds DEF HangIInv, HangTypeOK, Reboots
<1>2. HangTypeOK'
  BY <1>1, Bounds DEF Reboots, HangTypeOK, Quiet
<1>3. (Waits /\ Blamed /\ Radio /\ Queues /\ NamesTheHung)'
  BY <1>1, Bounds DEF Reboots, Waits, Blamed, Radio, Queues, NamesTheHung, Quiet, Off
<1>4. Prompted'
  BY <1>1, Bounds DEF Reboots, Prompted, Patience
<1> QED  BY <1>2, <1>3, <1>4 DEF HangIInv

LEMMA TimeGoesOn == ASSUME HangIInv, Pass  PROVE HangIInv'
<1>1. /\ named = "none" /\ late < MaxLate
      /\ \A p \in Probes : Runs(p) /\ (Beats(p) \/ (p \in Asked /\ queued[p] > 0)) => Prompt(p)
      /\ now' = (now + 1) % Wrap /\ late' = late + 1
      /\ silent' = [p \in Probes |-> IF p \in Off \/ silent[p] > Horizon THEN silent[p] ELSE silent[p] + 1]
      /\ UNCHANGED <<watched, probe, counted, pending, queued, beating, down, stuck, named, hung>>
  BY DEF Pass, tasks
<1>2. HangTypeOK /\ Waits /\ Blamed /\ Radio /\ Queues /\ Prompted
  BY <1>1 DEF HangIInv
<1>3. Off' = Off /\ late \in Nat /\ late' \in 0 .. MaxLate /\ now \in 0 .. Wrap - 1
  BY <1>1, <1>2, Bounds DEF Off, HangTypeOK
<1>4. \A p \in Probes \ Off : silent[p] \in Nat /\ silent[p] < LimitOf(p) + 2 * MaxLate
  BY <1>1, <1>2, HangFollows DEF HangInv, HungIsFound, Off, HangTypeOK
<1>5. \A p \in Probes \ Off : silent'[p] = silent[p] + 1
  BY <1>1, <1>4, Bounds
<1>6. silent' \in [Probes -> 0 .. Horizon + 1]
  <2> SUFFICES ASSUME NEW p \in Probes  PROVE silent'[p] \in 0 .. Horizon + 1
    BY <1>1
  <2>1. silent[p] \in 0 .. Horizon + 1
    BY <1>2 DEF HangTypeOK
  <2> QED  BY <1>1, <2>1, Bounds
<1>7. \A p \in Probes \ Off : probe[p].on /\ p \notin counted =>
        /\ now' \in 0 .. Wrap - 1 /\ Age(probe[p]) \in Nat
        /\ Age(probe[p])' = Age(probe[p]) + 1
  <2> SUFFICES ASSUME NEW p \in Probes \ Off, probe[p].on, p \notin counted
               PROVE  /\ now' \in 0 .. Wrap - 1 /\ Age(probe[p]) \in Nat
                      /\ Age(probe[p])' = Age(probe[p]) + 1
    OBVIOUS
  <2>1. probe[p].since \in 0 .. Wrap - 1 /\ probe'[p] = probe[p]
    BY <1>1, <1>2 DEF HangTypeOK
  <2>2. Age(probe[p]) \in 0 .. Wrap - 1
    BY <1>3, <2>1, AgeRange DEF Age
  <2>3. Age(probe[p]) < LimitOf(p) + late
    BY <1>2 DEF Waits
  <2>4. Age(probe[p]) + 1 < Wrap
    BY <1>1, <1>3, <2>2, <2>3, Bounds
  <2>5. ((now - probe[p].since) % Wrap) + 1 < Wrap
    BY <2>4 DEF Age
  <2>6. now' \in 0 .. Wrap - 1 /\ (now' - probe[p].since) % Wrap = ((now - probe[p].since) % Wrap) + 1
    BY <1>1, <1>3, <2>1, <2>5, AgeTicks
  <2> QED  BY <2>1, <2>2, <2>6, Bounds DEF Age
<1>8. now' \in 0 .. Wrap - 1
  BY <1>1, <1>3, Bounds
<1>9. HangTypeOK'
  BY <1>1, <1>2, <1>3, <1>6, <1>8 DEF HangTypeOK
<1>10. Waits'
  <2> SUFFICES ASSUME NEW p \in Probes \ Off
               PROVE  (IF probe[p].on /\ p \notin counted
                       THEN /\ Age(probe[p]) <= silent[p] /\ silent[p] <= Age(probe[p]) + MaxLate
                            /\ Age(probe[p]) < LimitOf(p) + late
                       ELSE silent[p] <= late)'
    BY <1>3 DEF Waits
  <2>1. /\ silent[p] \in Nat /\ silent'[p] = silent[p] + 1 /\ late' = late + 1
        /\ probe'[p] = probe[p] /\ counted' = counted
    BY <1>1, <1>4, <1>5
  <2>2. CASE probe[p].on /\ p \notin counted
    <3>1. /\ Age(probe[p]) <= silent[p] /\ silent[p] <= Age(probe[p]) + MaxLate
          /\ Age(probe[p]) < LimitOf(p) + late
      BY <1>2, <2>2 DEF Waits
    <3>2. Age(probe[p]) \in Nat /\ Age(probe[p])' = Age(probe[p]) + 1 /\ LimitOf(p)' = LimitOf(p) /\ LimitOf(p) \in Nat
      BY <1>7, <2>2, Bounds DEF LimitOf
    <3> DEFINE a == Age(probe[p])
               b == Age(probe[p])'
               l == LimitOf(p)
    <3>3. a <= silent[p] /\ silent[p] <= a + MaxLate /\ a < l + late /\ a \in Nat /\ b = a + 1 /\ l \in Nat /\ LimitOf(p)' = l
      BY <3>1, <3>2
    <3> HIDE DEF a, b, l
    <3>4. b <= silent'[p] /\ silent'[p] <= b + MaxLate /\ b < l + late'
      BY <1>3, <2>1, <3>3, Bounds
    <3> QED  BY <2>1, <2>2, <3>3, <3>4 DEF b
  <2>3. CASE ~(probe[p].on /\ p \notin counted)
    <3>1. silent[p] <= late
      BY <1>2, <2>3 DEF Waits
    <3>2. silent'[p] <= late'
      BY <1>3, <2>1, <3>1
    <3> QED  BY <2>1, <2>3, <3>2
  <2> QED  BY <2>2, <2>3
<1>11. Blamed' /\ Queues' /\ NamesTheHung'
  BY <1>1, <1>2 DEF Blamed, Runner, Queues, NamesTheHung
<1>12. Radio'
  <2>1. Off \subseteq Probes
    BY <1>2, ProbesAre DEF Off, HangTypeOK
  <2> QED  BY <1>1, <1>2, <1>3, <2>1 DEF Radio
<1>13. Prompted'
  <2> SUFFICES ASSUME NEW p \in Probes \ (Off \cup hung)
               PROVE  (/\ Beats(p) => silent[p] <= Patience(p)
                       /\ ~Beats(p) => silent[p] < Patience(p) + (IF queued[p] = 0 THEN late ELSE MaxLate))'
    BY <1>1, <1>3 DEF Prompted
  <2>1. Runs(p)
    BY <1>1, <1>2 DEF Runs, Blamed, Radio, Off, Runner
  <2>2. /\ Beats(p)' = Beats(p) /\ Patience(p)' = Patience(p) /\ queued' = queued
        /\ silent'[p] = silent[p] + 1 /\ silent[p] \in Nat /\ Patience(p) \in Nat
    BY <1>1, <1>4, <1>5, Bounds DEF Beats, Patience
  <2>3. CASE Beats(p)
    <3>1. silent[p] < Patience(p)
      BY <1>1, <2>1, <2>3 DEF Prompt
    <3> QED  BY <2>2, <2>3, <3>1
  <2>4. CASE ~Beats(p)
    <3>1. p \in Asked /\ queued[p] \in Nat
      BY <1>2, <2>4, ProbeKinds, Bounds DEF HangTypeOK
    <3>2. CASE queued[p] = 0
      <4>1. silent[p] < Patience(p) + late
        BY <1>2, <2>4, <3>2 DEF Prompted
      <4>2. silent'[p] < Patience(p) + late'
        BY <1>1, <1>3, <2>2, <4>1
      <4> QED  BY <2>2, <2>4, <3>2, <4>2
    <3>3. CASE queued[p] # 0
      <4>1. silent[p] < Patience(p)
        BY <1>1, <2>1, <3>1, <3>3 DEF Prompt
      <4>2. silent'[p] < Patience(p) + MaxLate
        BY <2>2, <4>1, Bounds
      <4> QED  BY <2>2, <2>4, <3>3, <4>2, Bounds
    <3> QED  BY <3>2, <3>3
  <2> QED  BY <2>3, <2>4
<1> QED  BY <1>9, <1>10, <1>11, <1>12, <1>13 DEF HangIInv

-----------------------------------------------------------------------------
\* One of the waits is the longest.
LEMMA Longest ==
  ASSUME NEW S \in SUBSET (1 .. 5), S # {}, NEW a, \A i \in 1 .. 5 : a[i] \in Int
  PROVE  \E i \in S : \A j \in S : a[i] > a[j] \/ (a[i] = a[j] /\ i <= j)
<1> DEFINE Best(i, k) == i \in S /\ i <= k /\ \A j \in S : j <= k => a[i] > a[j] \/ (a[i] = a[j] /\ i <= j)
           None(k) == \A j \in S : j > k
<1>1. None(0)
  OBVIOUS
<1>2. ASSUME NEW k \in 0 .. 4, None(k) \/ \E i \in 1 .. 5 : Best(i, k)
      PROVE  None(k + 1) \/ \E i \in 1 .. 5 : Best(i, k + 1)
  <2>1. CASE k + 1 \notin S
    BY <1>2, <2>1
  <2>2. CASE k + 1 \in S /\ None(k)
    <3>1. Best(k + 1, k + 1)
      BY <2>2
    <3> QED  BY <2>2, <3>1
  <2>3. CASE k + 1 \in S /\ \E i \in 1 .. 5 : Best(i, k)
    <3>1. PICK i \in 1 .. 5 : Best(i, k)
      BY <2>3
    <3>2. CASE a[i] >= a[k + 1]
      <4>1. Best(i, k + 1)
        BY <2>3, <3>1, <3>2
      <4> QED  BY <4>1
    <3>3. CASE a[i] < a[k + 1]
      <4>1. Best(k + 1, k + 1)
        BY <2>3, <3>1, <3>3
      <4> QED  BY <2>3, <4>1
    <3> QED  BY <2>3, <3>2, <3>3
  <2> QED  BY <1>2, <2>1, <2>2, <2>3
<1>3. None(5) \/ \E i \in 1 .. 5 : Best(i, 5)
  <2> HIDE DEF Best, None
  <2>1. None(1) \/ \E i \in 1 .. 5 : Best(i, 1)
    BY <1>1, <1>2
  <2>2. None(2) \/ \E i \in 1 .. 5 : Best(i, 2)
    BY <2>1, <1>2
  <2>3. None(3) \/ \E i \in 1 .. 5 : Best(i, 3)
    BY <2>2, <1>2
  <2>4. None(4) \/ \E i \in 1 .. 5 : Best(i, 4)
    BY <2>3, <1>2
  <2> QED  BY <2>4, <1>2
<1>4. \A j \in S : j \in 1 .. 5 /\ j <= 5 /\ ~(j > 5)
  OBVIOUS
<1>5. PICK i \in 1 .. 5 : Best(i, 5)
  BY <1>3, <1>4
<1> QED  BY <1>4, <1>5

\* The pick is a probe past its limit, if there is one.
LEMMA StalledIsPast ==
  ASSUME NEW ps, \A p \in Probes : Age(ps[p]) \in Int
  PROVE  /\ Past(ps) = {} => Stalled(ps) = "none"
         /\ Past(ps) # {} => /\ Stalled(ps) \in Probes /\ ps[Stalled(ps)].on
                             /\ Age(ps[Stalled(ps)]) >= LimitOf(Stalled(ps))
<1>1. Past(ps) = {} => Stalled(ps) = "none"
  BY DEF Stalled
<1>2. ASSUME Past(ps) # {}
      PROVE  \E i \in Past(ps) : Stalled(ps) = Names[i]
  <2> DEFINE a == [i \in 1 .. 5 |-> Age(ps[Names[i]])]
             Longer(i, j) == \/ Age(ps[Names[i]]) > Age(ps[Names[j]])
                             \/ Age(ps[Names[i]]) = Age(ps[Names[j]]) /\ i <= j
  <2>1. Past(ps) \in SUBSET (1 .. 5)
    BY DEF Past
  <2>2. \A i \in 1 .. 5 : a[i] \in Int /\ a[i] = Age(ps[Names[i]])
    BY DEF Probes
  <2> HIDE DEF a
  <2>3. \E i \in Past(ps) : \A j \in Past(ps) : a[i] > a[j] \/ (a[i] = a[j] /\ i <= j)
    BY <1>2, <2>1, <2>2, Longest
  <2>4. \E i \in Past(ps) : \A j \in Past(ps) : Longer(i, j)
    BY <2>1, <2>2, <2>3
  <2>5. Stalled(ps) = Names[CHOOSE i \in Past(ps) : \A j \in Past(ps) : Longer(i, j)]
    BY <1>2 DEF Stalled
  <2> HIDE DEF Longer
  <2> QED  BY <2>4, <2>5, Zenon
<1>3. ASSUME Past(ps) # {}
      PROVE  /\ Stalled(ps) \in Probes /\ ps[Stalled(ps)].on
             /\ Age(ps[Stalled(ps)]) >= LimitOf(Stalled(ps))
  <2>1. PICK i \in Past(ps) : Stalled(ps) = Names[i]
    BY <1>2, <1>3
  <2> QED  BY <2>1 DEF Past, Probes
<1> QED  BY <1>1, <1>3

LEMMA NotPast ==
  ASSUME NEW ps, Past(ps) = {}, NEW p \in Probes, ps[p].on, Age(ps[p]) \in Int
  PROVE  Age(ps[p]) < LimitOf(p)
<1>1. PICK i \in 1 .. 5 : p = Names[i]
  BY DEF Probes
<1>2. LimitOf(p) \in Nat
  BY Bounds
<1> QED  BY <1>1, <1>2 DEF Past

LEMMA Ticked == ASSUME HangIInv, GuardTick  PROVE HangIInv'
<1>1. /\ named = "none" /\ late > 0 /\ late' = 0 /\ named' = Stalled(probe') /\ counted' = {}
      /\ probe' = [p \in Probes |-> IF p \in Off THEN [probe[p] EXCEPT !.on = FALSE]
                       ELSE [on |-> TRUE, since |-> IF ~probe[p].on \/ p \in counted THEN now ELSE probe[p].since]]
      /\ UNCHANGED <<watched, now, beating, down, stuck, silent, hung>>
  BY DEF GuardTick, Step
<1>2. HangTypeOK /\ Waits /\ Blamed /\ Radio /\ Queues /\ Prompted
  BY <1>1 DEF HangIInv
<1>3. PICK full \in SUBSET {p \in Asked \ (Off \cup pending) : CanBeFull(p)} :
        /\ queued' = [p \in Asked |-> IF p \in Pending(full) \ Cleared THEN queued[p] + 1 ELSE queued[p]]
        /\ pending' = Pending(full)
  BY DEF GuardTick
<1>4. Off' = Off /\ Off \subseteq Probes /\ late \in Nat /\ late <= MaxLate /\ now \in 0 .. Wrap - 1 /\ now' = now
  BY <1>1, <1>2, ProbesAre, Bounds DEF Off, HangTypeOK
<1>5. Cleared \subseteq pending /\ Pending(full) \subseteq Asked /\ ("loop" \in down => "loop" \notin Cleared)
  BY <1>2 DEF Cleared, Pending, HangTypeOK
<1>6. \A p \in Asked : p \in Pending(full) \ Cleared => p \notin Off /\ p \notin pending
  BY <1>2 DEF Cleared, Pending, HangTypeOK, Off
<1>7. queued' \in [Asked -> 0 .. MaxStray + 1] /\ Queues'
  <2> SUFFICES ASSUME NEW p \in Asked
               PROVE  /\ queued'[p] \in 0 .. MaxStray + 1
                      /\ p \in pending' => queued'[p] > 0
                      /\ p \notin pending' \/ p \in down => queued'[p] <= MaxStray
    BY <1>1, <1>3 DEF Queues
  <2>1. /\ queued[p] \in 0 .. MaxStray + 1 /\ (p \in pending => queued[p] > 0)
        /\ (p \notin pending \/ p \in down => queued[p] <= MaxStray)
    BY <1>2 DEF HangTypeOK, Queues
  <2>2. CASE p \in Pending(full) \ Cleared
    BY <1>3, <1>6, <2>1, <2>2, Bounds DEF Off
  <2>3. CASE p \notin Pending(full) \ Cleared
    <3>1. queued'[p] = queued[p]
      BY <1>3, <2>3
    <3>2. p \notin Pending(full) => p \notin pending \/ p \in down
      BY DEF Pending, Cleared
    <3> QED  BY <1>3, <1>5, <2>1, <2>3, <3>1, <3>2
  <2> QED  BY <2>2, <2>3
<1>8. \A p \in Probes :
        /\ probe'[p] \in [on : BOOLEAN, since : 0 .. Wrap - 1]
        /\ probe'[p].on <=> p \notin Off
        /\ p \notin Off => probe'[p].since = IF ~probe[p].on \/ p \in counted THEN now ELSE probe[p].since
  BY <1>1, <1>2, <1>4 DEF HangTypeOK
<1>9. \A p \in Probes : Age(probe'[p]) \in 0 .. Wrap - 1
  BY <1>4, <1>8, AgeRange DEF Age
<1>10. \A p \in Probes \ Off :
         \/ /\ probe[p].on /\ p \notin counted /\ Age(probe'[p]) = Age(probe[p])
            /\ Age(probe'[p]) <= silent[p] /\ silent[p] <= Age(probe'[p]) + MaxLate
         \/ Age(probe'[p]) = 0 /\ silent[p] <= late
  <2> SUFFICES ASSUME NEW p \in Probes \ Off
               PROVE  \/ /\ probe[p].on /\ p \notin counted /\ Age(probe'[p]) = Age(probe[p])
                         /\ Age(probe'[p]) <= silent[p] /\ silent[p] <= Age(probe'[p]) + MaxLate
                      \/ Age(probe'[p]) = 0 /\ silent[p] <= late
    OBVIOUS
  <2>1. CASE probe[p].on /\ p \notin counted
    <3>1. Age(probe'[p]) = Age(probe[p])
      BY <1>8, <2>1 DEF Age
    <3> QED  BY <1>2, <2>1, <3>1 DEF Waits
  <2>2. CASE ~(probe[p].on /\ p \notin counted)
    <3>1. probe'[p].since = now
      BY <1>8, <2>2
    <3>2. Age(probe'[p]) = 0
      BY <1>4, <3>1, AgeOfNow DEF Age
    <3> QED  BY <1>2, <2>2, <3>2 DEF Waits
  <2> QED  BY <2>1, <2>2
<1>11. \A p \in Probes \ (Off \cup hung) : silent[p] < LimitOf(p)
  <2> SUFFICES ASSUME NEW p \in Probes \ (Off \cup hung)  PROVE silent[p] < LimitOf(p)
    OBVIOUS
  <2>1. silent[p] \in Nat /\ LimitOf(p) \in Nat /\ Patience(p) \in Nat /\ Patience(p) < LimitOf(p)
    BY <1>2, Bounds DEF HangTypeOK
  <2>2. CASE Beats(p)
    <3>1. silent[p] <= Patience(p)
      BY <1>2, <2>2 DEF Prompted
    <3> QED  BY <2>1, <3>1
  <2>3. CASE ~Beats(p)
    <3>1. silent[p] < Patience(p) + late \/ silent[p] < Patience(p) + MaxLate
      BY <1>2, <2>3 DEF Prompted
    <3>2. Patience(p) + MaxLate <= LimitOf(p)
      BY <2>3, ProbeKinds, Bounds
    <3> QED  BY <1>4, <2>1, <3>1, <3>2, Bounds
  <2> QED  BY <2>2, <2>3
<1>12. /\ Past(probe') = {} => named' = "none"
       /\ Past(probe') # {} => /\ named' \in Probes /\ probe'[named'].on
                               /\ Age(probe'[named']) >= LimitOf(named')
  <2>1. \A p \in Probes : Age(probe'[p]) \in Int
    BY <1>9
  <2> QED  BY <1>1, <2>1, StalledIsPast
<1>13. HangTypeOK'
  <2>1. probe' \in [Probes -> [on : BOOLEAN, since : 0 .. Wrap - 1]]
    BY <1>1, <1>8
  <2>2. named' \in Probes \cup {"none"}
    BY <1>12
  <2>3. late' \in 0 .. MaxLate /\ counted' \subseteq Probes /\ pending' \subseteq Asked
    BY <1>1, <1>3, <1>5, Bounds
  <2> QED  BY <1>1, <1>2, <1>7, <2>1, <2>2, <2>3 DEF HangTypeOK
<1>14. NamesTheHung'
  <2> SUFFICES ASSUME named' # "none"
               PROVE  silent[named'] >= LimitOf(named') /\ named' \in hung
    BY <1>1 DEF NamesTheHung, LimitOf
  <2>1. named' \in Probes \ Off /\ Age(probe'[named']) >= LimitOf(named')
    BY <1>8, <1>12
  <2>2. LimitOf(named') \in Nat /\ LimitOf(named') > 0 /\ silent[named'] \in Nat /\ Age(probe'[named']) \in Int
    BY <1>2, <1>9, <2>1, Bounds DEF HangTypeOK
  <2>3. silent[named'] >= LimitOf(named')
    BY <1>10, <2>1, <2>2
  <2> QED  BY <1>11, <2>1, <2>2, <2>3
<1>15. ASSUME named' = "none"  PROVE Waits'
  <2>1. Past(probe') = {}
    BY <1>12, <1>15, ProbeKinds
  <2> SUFFICES ASSUME NEW p \in Probes \ Off
               PROVE  /\ Age(probe'[p]) <= silent[p] /\ silent[p] <= Age(probe'[p]) + MaxLate
                      /\ Age(probe'[p]) < LimitOf(p) + 0
    BY <1>1, <1>4, <1>8 DEF Waits, Age, LimitOf
  <2>2. Age(probe'[p]) \in Int /\ silent[p] \in Nat /\ LimitOf(p) \in Nat
    BY <1>2, <1>9, Bounds DEF HangTypeOK
  <2>3. Age(probe'[p]) < LimitOf(p)
    BY <1>8, <2>1, <2>2, NotPast
  <2> QED  BY <1>4, <1>10, <2>2, <2>3, Bounds
<1>16. Blamed' /\ Radio'
  BY <1>1, <1>2, <1>4 DEF Blamed, Radio, Runner
<1>17. Prompted'
  <2> SUFFICES ASSUME NEW p \in Probes \ (Off \cup hung)
               PROVE  (/\ Beats(p) => silent[p] <= Patience(p)
                       /\ ~Beats(p) => silent[p] < Patience(p) + (IF queued[p] = 0 THEN late ELSE MaxLate))'
    BY <1>1, <1>4 DEF Prompted
  <2>1. /\ Beats(p)' = Beats(p) /\ Patience(p)' = Patience(p) /\ silent'[p] = silent[p]
        /\ silent[p] \in Nat /\ Patience(p) \in Nat
    BY <1>1, <1>2, Bounds DEF Beats, Patience, HangTypeOK
  <2>2. CASE Beats(p)
    BY <1>2, <2>1, <2>2 DEF Prompted
  <2>3. CASE ~Beats(p)
    <3>1. p \in Asked /\ queued[p] \in 0 .. MaxStray + 1
      BY <1>2, <2>3, ProbeKinds DEF HangTypeOK
    <3>2. silent[p] < Patience(p) + MaxLate
      <4>1. silent[p] < Patience(p) + late \/ silent[p] < Patience(p) + MaxLate
        BY <1>2, <2>3 DEF Prompted
      <4> QED  BY <1>4, <2>1, <4>1, Bounds
    <3>3. ASSUME queued'[p] = 0  PROVE silent[p] < Patience(p)
      <4>1. p \notin Pending(full) \ Cleared /\ queued[p] = 0
        BY <1>3, <3>1, <3>3, Bounds
      <4>2. p \notin pending
        BY <1>2, <3>1, <4>1 DEF Queues
      <4>3. p \in full
        BY <1>5, <3>1, <4>1, <4>2 DEF Pending
      <4>4. CanBeFull(p) /\ Runs(p)
        BY <1>1, <1>2, <1>3, <4>3 DEF Runs, Blamed, Radio, Off, Runner
      <4> QED  BY <2>3, <4>4 DEF CanBeFull, Prompt, Beats
    <3> QED  BY <1>1, <2>1, <2>3, <3>2, <3>3
  <2> QED  BY <2>2, <2>3
<1> QED  BY <1>7, <1>13, <1>14, <1>15, <1>16, <1>17 DEF HangIInv

LEMMA HangStep == HangIInv /\ [HangNext]_hangvars => HangIInv'
<1> SUFFICES ASSUME HangIInv, [HangNext]_hangvars  PROVE HangIInv'
  OBVIOUS
<1>1. CASE \E p \in Asked : Pong(p)
  BY <1>1, Ponged
<1>2. CASE \E p \in Probes : Beat(p) \/ Stick(p) \/ GoOn(p)
  BY <1>2, Beaten, Stuck, WentOn
<1>3. CASE \E p \in {"loop", "health"} : Stop(p) \/ StartAgain(p)
  BY <1>3, Stopped, Started
<1>4. CASE Pass \/ GuardTick \/ Reboots
  BY <1>4, TimeGoesOn, Ticked, Rebooted
<1>5. CASE UNCHANGED hangvars
  BY <1>5 DEF hangvars, tasks, HangIInv, HangTypeOK, NamesTheHung, Waits, Blamed, Radio, Queues, Prompted,
     Off, Age, LimitOf, Beats, Patience, Runner
<1> QED  BY <1>1, <1>2, <1>3, <1>4, <1>5 DEF HangNext

\* The guard resets the board only for a task that stood still and was silent for its whole limit,
\* whatever full queues, stops and starts, late ticks and wraps of the clock came before: for every
\* limit, slack and health check interval, if a ping is answered within Limit - 2 * MaxLate.
THEOREM OnlyTheHung == HangSpec => []NamesTheHung
<1>1. HangIInv => NamesTheHung
  BY DEF HangIInv
<1> QED  BY <1>1, HangStart, HangStep, PTL DEF HangSpec

\* And it resets the board for every one that does: no probe of a board that is up is silent for its
\* limit and two late ticks.
THEOREM EveryHung == HangSpec => []HangInv
<1> QED  BY HangFollows, HangStart, HangStep, PTL DEF HangSpec
=============================================================================
