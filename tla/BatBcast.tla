------------------------------ MODULE BatBcast ------------------------------
(***************************************************************************)
(* batman-adv broadcasts (main/bat/bat_bcast.c): an originator numbers     *)
(* them and sends several copies of each, spaced, out of a few slots; a    *)
(* node that hears them takes each once, by a window of numbers that gives *)
(* way to an originator that starts anew, but seldom.                      *)
(*                                                                         *)
(* What is on the air may be lost, and may arrive at any time and again:   *)
(* other nodes repeat it.  The originator boots with its kept numbers or   *)
(* draws new ones.  The window's stamp is an age that wraps.  One tick is  *)
(* seconds, in which the air and the slots empty.                          *)
(***************************************************************************)
EXTENDS Integers, FiniteSets

CONSTANTS
  NumMod,      \* the modulus of a broadcast number (2^32)
  SeqWindow,   \* BAT_SEQ_WINDOW
  MaxJump,     \* BAT_SEQ_MAX_JUMP
  Margin,      \* BAT_SEQ_MARGIN
  RestartGap,     \* BAT_RESTART_MS, in ticks
  StampClear,  \* BAT_STAMP_CLEAR_MS, in ticks
  AgeWrap,     \* the modulus of an age (2^32 ms), in ticks
  Copies,      \* cfg.bcast_copies, 2 or 3
  Slots,       \* BAT_BC_COPY_SLOTS
  OrdMod,      \* the modulus of the arrival counter (2^32)
  Draws,       \* bound: the numbers rand32 draws
  MaxBcasts,   \* bound: broadcasts
  MaxBoots,    \* bound: boots that keep the numbers
  MaxDraws     \* bound: boots that draw new ones

ASSUME BcastAssumption ==
  /\ {NumMod, SeqWindow, MaxJump, Margin, RestartGap, StampClear, AgeWrap} \subseteq Nat
  /\ {Copies, Slots, OrdMod, MaxBcasts, MaxBoots, MaxDraws} \subseteq Nat
  /\ 0 < SeqWindow /\ SeqWindow < MaxJump /\ 2 * MaxJump <= NumMod
  /\ RestartGap < StampClear /\ StampClear + 1 < AgeWrap
  /\ Copies \in 2 .. 3 /\ 0 < Slots /\ Slots < OrdMod /\ 2 * (Slots - 1) < OrdMod
  /\ Draws \subseteq 0 .. NumMod - 1
  \* The numbers a listener can miss within the bounds are no jump.
  /\ MaxBcasts - 1 + Margin * MaxBoots < MaxJump /\ 2 * (MaxBcasts + SeqWindow) <= NumMod

Numbers == 0 .. NumMod - 1
Slot    == 1 .. Slots

VARIABLES
  seq,      \* bcast_seq
  keep,     \* the bcast word of seq_keep
  copy,     \* bc_copy, with what each slot carries
  ord,      \* bc_ord
  spaced,   \* ~bat_grp_held: the last group frame is BAT_BC_COPY_MS old
  onair,    \* the frames on the air
  window,   \* the listener's bcast window of this originator
  count,    \* history: how many broadcasts there were, which names them
  taken,    \* history: the broadcasts that got a slot
  tried,    \* history: those of which a copy was handed out
  got,      \* history: those the listener took
  stale,    \* history: the window's bits set before the numbers were drawn
  follows,  \* history: of the numbers drawn last, the window took "none", "some", its "newest"
  strayed,  \* history: a frame came SeqWindow or more behind the newest
  since,    \* history: ticks since the window was last reset, at most RestartGap
  boots     \* history: boots with numbers kept, and with numbers drawn
sender   == <<seq, keep, copy, ord, spaced, count, taken, tried, boots>>
listener == <<window, got, stale, follows, strayed, since>>
bcvars   == <<sender, onair, listener>>

\* (int32_t)(x - y)
Signed(d, m) == LET r == d % m IN IF 2 * r >= m THEN r - m ELSE r

Empty     == [left |-> 0, ord |-> 0, id |-> 0, num |-> 0]
NewWindow == [last |-> 0, bits |-> {}, valid |-> FALSE, age |-> 0]

BcastInit ==
  /\ seq \in Draws /\ keep = (seq + 1) % NumMod
  /\ copy = [s \in Slot |-> Empty] /\ ord = 0 /\ spaced = TRUE
  /\ onair = {} /\ window = NewWindow
  /\ count = 0 /\ taken = {} /\ tried = {} /\ got = {} /\ stale = {}
  /\ follows = "none" /\ strayed = FALSE /\ since = RestartGap
  /\ boots = <<0, 0>>

-----------------------------------------------------------------------------
(* The originator. *)

Waiting == {s \in Slot : copy[s].left > 0}
Older(s, t) == Signed(copy[s].ord - copy[t].ord, OrdMod) < 0

\* Most copies left, the oldest on a tie.
Before(s, t) == copy[s].left > copy[t].left \/ (copy[s].left = copy[t].left /\ Older(s, t))
NextCopy(s)  == s \in Waiting /\ \A t \in Waiting \ {s} : Before(s, t)

\* Those that may give up their other copies, and the one sent most, the oldest on a tie.
Spare     == {s \in Waiting : copy[s].left < Copies}
Gives(s)  == s \in Spare /\ \A t \in Spare \ {s} :
               copy[s].left < copy[t].left \/ (copy[s].left = copy[t].left /\ Older(s, t))
SlotGet(s) == IF Waiting # Slot THEN s \notin Waiting ELSE Gives(s)
Dropped    == Waiting = Slot /\ Spare = {}

\* bat_link_tx of a copy out of slots cs: the port takes it, and the spacing runs, or not.
SendCopy(cs, s) ==
  /\ copy'  = [cs EXCEPT ![s].left = @ - 1]
  /\ tried' = tried \cup {cs[s].id}
  /\ \/ spaced' = FALSE /\ onair' = onair \cup {[id |-> cs[s].id, num |-> cs[s].num]}
     \/ UNCHANGED <<spaced, onair>>

\* bat_bcast_tx_own: a number is taken, and kept, before there is a slot.
TakeNumber ==
  /\ count < MaxBcasts /\ count' = count + 1
  /\ seq' = (seq + 1) % NumMod /\ keep' = (seq + 2) % NumMod
  /\ UNCHANGED boots

Broadcast ==
  /\ TakeNumber
  /\ \E s \in Slot :
       LET cs == [copy EXCEPT ![s] = [left |-> Copies, ord |-> ord, id |-> count', num |-> seq']]
       IN /\ SlotGet(s)
          /\ taken' = taken \cup {count'} /\ ord' = (ord + 1) % OrdMod
          /\ IF Waiting = {} /\ spaced
             THEN SendCopy(cs, s)
             ELSE copy' = cs /\ UNCHANGED <<spaced, tried, onair>>
  /\ UNCHANGED listener

BroadcastDropped ==
  /\ TakeNumber /\ Dropped
  /\ UNCHANGED <<copy, ord, spaced, taken, tried, onair, listener>>

\* bat_bcast_copies, of every bat_tick.
NextCopyGoes ==
  /\ spaced
  /\ \E s \in Slot : NextCopy(s) /\ SendCopy(copy, s)
  /\ UNCHANGED <<seq, keep, ord, count, taken, boots, listener>>

\* Another group frame goes, an ELP or an OGM; or the time of spacing is over.
Spacing ==
  /\ spaced' = ~spaced
  /\ UNCHANGED <<seq, keep, copy, ord, count, taken, tried, boots, onair, listener>>

\* bat_init, seconds after the last frame: the slots are empty, the numbers resumed or drawn.
Reset(first) ==
  /\ seq' = first /\ keep' = (first + 1) % NumMod
  /\ copy' = [s \in Slot |-> Empty] /\ ord' = 0 /\ spaced' = TRUE
  /\ taken' = tried /\ onair' = {}
  /\ UNCHANGED <<count, tried>>

BootKept ==
  /\ boots[1] < MaxBoots /\ boots' = [boots EXCEPT ![1] = @ + 1]
  /\ Reset((keep + Margin - 1) % NumMod)
  /\ UNCHANGED listener

BootDrawn ==
  /\ boots[2] < MaxDraws /\ boots' = [boots EXCEPT ![2] = @ + 1]
  /\ \E n \in Draws : Reset(n)
  /\ follows' = "none" /\ strayed' = FALSE /\ stale' = window.bits
  /\ UNCHANGED <<window, got, since>>

-----------------------------------------------------------------------------
(* The listener. *)

NewestLess(w, n) == Signed(w.last - n, NumMod)
Ahead(w, n)  == Signed(n - w.last, NumMod)
Far(w, n)    == Ahead(w, n) <= -SeqWindow \/ Ahead(w, n) >= MaxJump
Dup(w, n)    == NewestLess(w, n) \in w.bits
Blocked(w, n) == ~Dup(w, n) /\ Far(w, n) /\ w.valid /\ w.age < RestartGap
Accepts(w, n) == ~Dup(w, n) /\ ~Blocked(w, n)

\* What is left of bits when the window moves on to n.
Shifted(w, bits, n) ==
  LET g == Ahead(w, n)
  IN IF g >= 0 THEN {b + g : b \in {c \in bits : c + g < SeqWindow}} ELSE {}

\* The window once it took n.
Moved(w, n) ==
  LET stamped == IF Far(w, n) THEN [w EXCEPT !.valid = TRUE, !.age = 0] ELSE w
  IN IF NewestLess(w, n) \in 0 .. SeqWindow - 1
     THEN [stamped EXCEPT !.bits = @ \cup {NewestLess(w, n)}]
     ELSE [stamped EXCEPT !.last = n, !.bits = {0} \cup Shifted(w, w.bits, n)]

\* A frame a whole window behind the newest taken: the code takes it for a new start.
Stray(f) == follows # "none" /\ NewestLess(window, f.num) >= SeqWindow

\* bat_bcast_rx of an originator it knows.
BcastRx(f) ==
  /\ strayed' = (strayed \/ Stray(f))
  /\ IF Accepts(window, f.num)
     THEN /\ window' = Moved(window, f.num)
          /\ got' = got \cup {f.id}
          /\ stale' = IF window'.last = window.last THEN stale ELSE Shifted(window, stale, f.num)
          /\ follows' = IF follows = "newest" \/ window'.last = f.num THEN "newest" ELSE "some"
          /\ since' = IF Far(window, f.num) THEN 0 ELSE since
     ELSE UNCHANGED <<window, got, stale, follows, since>>
  /\ UNCHANGED <<sender, onair>>

\* Lost; or none of it arrives again.
LoseFrame(f) ==
  /\ onair' = onair \ {f}
  /\ UNCHANGED <<sender, listener>>

Quiet == onair = {} /\ Waiting = {}

\* Time passes, and bat_orig_purge clears an old stamp.  Mutant: it clears none.
NoPurge(w) == [w EXCEPT !.age = IF w.valid THEN (w.age + 1) % AgeWrap ELSE 0]

Purged(w) ==
  LET age == (w.age + 1) % AgeWrap
  IN IF w.valid /\ age <= StampClear
     THEN [w EXCEPT !.age = age]
     ELSE [w EXCEPT !.valid = FALSE, !.age = 0]

BcastTick ==
  /\ Quiet
  /\ window' = Purged(window)
  /\ since' = IF since < RestartGap THEN since + 1 ELSE RestartGap
  /\ UNCHANGED <<sender, onair, got, stale, follows, strayed>>

\* orig_free, of an originator not heard of for minutes, or that has to make room.
Forget ==
  /\ Quiet
  /\ window' = NewWindow /\ since' = RestartGap /\ stale' = {}
  /\ follows' = "none" /\ strayed' = FALSE
  /\ UNCHANGED <<sender, onair, got>>

BcastNext ==
  \/ Broadcast \/ BroadcastDropped \/ NextCopyGoes \/ Spacing \/ BootKept \/ BootDrawn
  \/ \E f \in onair : BcastRx(f) \/ LoseFrame(f)
  \/ BcastTick \/ Forget

BcastSpec == BcastInit /\ [][BcastNext]_bcvars

-----------------------------------------------------------------------------
(* Properties.                                                               *)

BcastTypeOK ==
  /\ {seq, keep, window.last} \subseteq Numbers
  /\ \A s \in Slot : copy[s].left \in 0 .. Copies /\ copy[s].ord \in 0 .. OrdMod - 1
  /\ stale \subseteq window.bits /\ window.bits \subseteq 0 .. SeqWindow - 1
  /\ window.age \in 0 .. StampClear /\ since \in 0 .. RestartGap
  /\ tried \subseteq taken /\ got \subseteq tried

\* A broadcast taken once is refused however often, and however late, it comes again, unless
\* the originator's later numbers have passed it by a whole window.
OnceOnly ==
  ~strayed => \A f \in onair : f.id \in got /\ ~Stray(f) => ~Accepts(window, f.num)

\* While the listener follows the current numbers, across every boot that kept them, each
\* broadcast is taken the first time it arrives: it is neither shut out nor, unless a number
\* from before they were drawn says so, a duplicate.
HeardAtOnce ==
  ~strayed /\ follows = "newest" /\ stale = {} =>
    \A f \in onair : f.id \notin got /\ ~Stray(f) => Accepts(window, f.num)

\* Whatever numbers an originator draws, it is shut out for RestartGap at most after it was let
\* through: the stamp is cleared before its age can wrap and shut it out again.
ShutOutBriefly == \A n \in Numbers : Blocked(window, n) => since < RestartGap

\* A broadcast that got a slot is given up for a newer one only after a copy of it was handed
\* out, and the first copies are handed out in the order the broadcasts came, also when the
\* arrival counter wraps.
NoneUnsent   == taken \ tried \subseteq {copy[s].id : s \in Waiting}
FirstInOrder == \A i, j \in taken : i < j /\ j \in tried => i \in tried

\* The slots and the window as a whole: a broadcast given a slot is handed out, in order, and a
\* listener takes it once, at once, unless it is shut out, and never shut out for long.
BcastInv == /\ BcastTypeOK /\ NoneUnsent /\ FirstInOrder
            /\ OnceOnly /\ HeardAtOnce /\ ShutOutBriefly
=============================================================================
