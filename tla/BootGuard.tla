----------------------------- MODULE BootGuard -----------------------------
(***************************************************************************)
(* The boot guard (main/boot_guard.c) as app_main drives it (main/main.c). *)
(* A record in .noinit memory outlives every reset but a loss of power.    *)
(* From it a boot tells a crash from the two resets that are none: the RTC *)
(* watchdog retrying a failed USB start, and the one that ends a download  *)
(* mode nobody used.  After SafeAfter crash boots in a row the board       *)
(* starts in safe mode, without the HaLow chip.                            *)
(*                                                                         *)
(* A boot is reset at any point after warthog_boot_guard_start.  HaLow may *)
(* never come up and USB may fail to start in any boot.  The minute of     *)
(* WARTHOG_BOOT_WDT_S and WARTHOG_BOOT_OK_S passes at any moment but while *)
(* USB starts.  Panics, commands and clean resets are MaxEvents in a       *)
(* behaviour.                                                              *)
(***************************************************************************)
EXTENDS Naturals

CONSTANTS SafeAfter,   \* WARTHOG_BOOT_SAFE_AFTER
          UsbRetries,  \* WARTHOG_BOOT_USB_RETRIES
          CountMax,    \* the count saturates (255)
          MaxEvents

ASSUME BootAssumption ==
  /\ SafeAfter \in Nat \ {0} /\ UsbRetries \in Nat /\ MaxEvents \in Nat
  /\ CountMax \in Nat /\ CountMax >= SafeAfter

VARIABLES
  crash_boots, usb_retries,  \* s_boot, in .noinit: its counts,
  marks,    \* and which of magic, hang, usb_fail and dl hold BOOT_GUARD_MAGIC
  rr,       \* esp_reset_reason: "panic", "wdt" or "clean"
  at,       \* app_main: "start", "halow", "hang", "usb", "loop", or "download"
  is,       \* what is so of this boot: "safe", "cleared", "armed" (the RTC watchdog), "usb"
            \* (it has started), "old" (up a minute)
  events,
  crashes   \* history: crashes in a row since the board was last well

kept == <<crash_boots, usb_retries, marks>>
vars == <<kept, rr, at, is, events, crashes>>

Crash == {"panic", "wdt"}
Marks == {"magic", "hang", "usb_fail", "dl"}
Facts == {"safe", "cleared", "armed", "usb", "old"}

\* Power comes: memory holds anything, but the magic.
Garbage(c, u, m) == c \in {0, CountMax} /\ u = UsbRetries /\ m \in {Marks \ {"magic"}, {"hang"}}

Init ==
  /\ crash_boots \in {0, CountMax} /\ usb_retries = UsbRetries
  /\ marks \in {Marks \ {"magic"}, {"hang"}}
  /\ rr = "clean" /\ at = "start" /\ is = {}
  /\ events = 0 /\ crashes = 0

(***************************************************************************)
(* warthog_boot_guard_start.                                               *)
(***************************************************************************)
Valid    == "magic" \in marks
DlBack   == Valid /\ rr = "wdt" /\ "dl" \in marks
UsbRetry == Valid /\ rr = "wdt" /\ "usb_fail" \in marks

NextCount(n, r) ==
  LET k == IF Valid THEN n ELSE 0
  IN IF r \notin Crash THEN 0 ELSE IF k < CountMax THEN k + 1 ELSE k

\* Mutant: no reset keeps the retries that are spent.
RetriesNowLost == 0

RetriesNow == IF ~Valid \/ rr \notin Crash \/ DlBack THEN 0 ELSE usb_retries
CountNow   == IF DlBack \/ UsbRetry THEN crash_boots ELSE NextCount(crash_boots, rr)

Start ==
  /\ at = "start"
  /\ crash_boots' = CountNow /\ usb_retries' = RetriesNow
  /\ is' = {"armed"} \cup (IF CountNow >= SafeAfter THEN {"safe"} ELSE {})
  /\ \/ /\ CountNow >= SafeAfter
        /\ at' = "usb" /\ marks' = {"magic"}
     \/ /\ CountNow < SafeAfter /\ Valid /\ CountNow # 0 /\ "hang" \in marks
        /\ at' = "hang" /\ marks' = {"magic", "hang"}
     \/ /\ CountNow < SafeAfter /\ ~(Valid /\ CountNow # 0 /\ "hang" \in marks)
        /\ at' = "halow" /\ marks' = {"magic"}
  /\ UNCHANGED <<rr, events, crashes>>

\* warthog_halow_start and the wait for a link return, if they do.
HalowUp ==
  /\ at = "halow" /\ at' = "usb"
  /\ UNCHANGED <<kept, rr, is, events, crashes>>

(***************************************************************************)
(* USB starts (or safe mode goes on without it), or fails.                 *)
(***************************************************************************)
UsbUp ==
  /\ at = "usb" /\ at' = "loop"
  /\ \/ is' = (is \ {"armed"}) \cup {"usb"}
     \/ "safe" \in is /\ is' = is \ {"armed"}
  /\ usb_retries' = 0
  /\ UNCHANGED <<crash_boots, marks, rr, events, crashes>>

UsbFailed ==
  /\ at = "usb" /\ "safe" \notin is /\ at' = "loop"
  /\ \/ /\ usb_retries >= UsbRetries
        /\ is' = is \ {"armed"}
        /\ UNCHANGED <<usb_retries, marks>>
     \/ /\ usb_retries < UsbRetries
        /\ usb_retries' = usb_retries + 1 /\ marks' = marks \cup {"usb_fail"}
        /\ UNCHANGED is
  /\ UNCHANGED <<crash_boots, rr, events, crashes>>

(***************************************************************************)
(* warthog_boot_guard_tick.  The history too: a board that ran a minute    *)
(* with nothing left to reset it is well.                                  *)
(***************************************************************************)
\* Mutant: with the watchdog still to expire.
DueArmed == "old" \in is /\ "safe" \notin is /\ "cleared" \notin is
Due == "old" \in is /\ "safe" \notin is /\ "cleared" \notin is /\ "armed" \notin is

Well == "old" \in is /\ "safe" \notin is /\ "armed" \notin is

Tick ==
  /\ at = "loop"
  /\ IF Due THEN crash_boots' = 0 /\ is' = is \cup {"cleared"} ELSE UNCHANGED <<crash_boots, is>>
  /\ crashes' = IF Well THEN 0 ELSE crashes
  /\ UNCHANGED <<usb_retries, marks, rr, at, events>>

\* HaLow takes its time, and a board that runs; the rest of a boot is short.
Minute ==
  /\ at \in {"halow", "hang", "loop"} /\ "old" \notin is
  /\ is' = is \cup {"old"}
  /\ UNCHANGED <<kept, rr, at, events, crashes>>

(***************************************************************************)
(* Resets.                                                                 *)
(***************************************************************************)
Event == events < MaxEvents /\ events' = events + 1
Running == at \notin {"start", "download"}
CrashAgain == IF crashes < CountMax THEN crashes + 1 ELSE crashes

ResetAs(r) == is' = {} /\ rr' = r /\ at' = "start"

\* The boot watchdog: a crash, but for a boot it was left to retry.
Expired ==
  /\ Running /\ "armed" \in is /\ "old" \in is
  /\ ResetAs("wdt")
  /\ crashes' = IF at = "loop" THEN crashes ELSE CrashAgain
  /\ UNCHANGED <<kept, events>>

Panicked ==
  /\ Event /\ Running
  /\ ResetAs("panic")
  /\ crashes' = CrashAgain
  /\ UNCHANGED kept

Clean ==
  /\ Event /\ ResetAs("clean") /\ crashes' = 0
  /\ UNCHANGED kept \/ Garbage(crash_boots', usb_retries', marks')

(***************************************************************************)
(* Commands, over USB.                                                     *)
(***************************************************************************)
Commands == at = "loop" /\ "usb" \in is

\* AT+ASSERTTEST=hang: the next boots stop before HaLow, and this one asserts.
ArmHang ==
  /\ Commands /\ Event
  /\ marks' = marks \cup {"hang"}
  /\ ResetAs("panic")
  /\ crashes' = CrashAgain
  /\ UNCHANGED <<crash_boots, usb_retries>>

\* warthog_enter_download, and the watchdog's reset when nobody came.
EnterDownload ==
  /\ Commands /\ Event
  /\ marks' = marks \cup {"magic", "dl"}
  /\ at' = "download"
  /\ UNCHANGED <<crash_boots, usb_retries, rr, is, crashes>>

LeaveDownload ==
  /\ at = "download"
  /\ ResetAs("wdt")
  /\ UNCHANGED <<kept, events, crashes>>

Next ==
  \/ Start \/ HalowUp \/ UsbUp \/ UsbFailed \/ Tick \/ Minute
  \/ Expired \/ Panicked \/ Clean
  \/ ArmHang \/ EnterDownload \/ LeaveDownload

Spec == Init /\ [][Next]_vars

\* Code that runs goes on and time passes; nothing says that HaLow starts.
Fairness ==
  /\ WF_vars(Start) /\ WF_vars(UsbUp \/ UsbFailed) /\ WF_vars(Minute)
  /\ WF_vars(Expired) /\ WF_vars(LeaveDownload)
FairSpec == Spec /\ Fairness

-----------------------------------------------------------------------------
\* The types.
TypeOK ==
  /\ crash_boots \in 0 .. CountMax /\ usb_retries \in 0 .. UsbRetries
  /\ marks \subseteq Marks /\ is \subseteq Facts
  /\ rr \in Crash \cup {"clean"}
  /\ at \in {"start", "halow", "hang", "usb", "loop", "download"}
  /\ events \in 0 .. MaxEvents /\ crashes \in 0 .. CountMax

\* "Consecutive crash boots (after a panic or watchdog reset) that start safe mode": a boot is
\* safe exactly when the board crashed SafeAfter times with no well boot, clean reset or loss
\* of power between, whatever USB retries and download modes there were between.
SafeAfterCrashes == Running => ("safe" \in is <=> crashes >= SafeAfter)

\* The types and that.
BootInv == TypeOK /\ SafeAfterCrashes

\* The retries outlive the resets they cause: however HaLow hangs and USB fails, a board left
\* alone ends up running with the watchdog off - with USB, in safe mode, or "running without
\* USB".
Settles == <>[](at = "loop" /\ "armed" \notin is)
=============================================================================
