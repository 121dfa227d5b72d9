------------------------------- MODULE BatTT -------------------------------
(* The translation table of the batman-adv engine (src/main/bat/bat_tt.c):   *)
(* originators announce the client addresses behind them as a numbered       *)
(* table, in their OGMs, and one node keeps a copy of every table.           *)
(*                                                                           *)
(* An OGM carries the table's number (TTVN, modulo 256), a checksum of the   *)
(* whole table and, for the commit and three repeats, the changes since the  *)
(* number before.  OGMs get lost.  A node whose copy does not follow asks    *)
(* for the full table, over a unicast packet that gets lost or comes late.   *)
(*                                                                           *)
(* Abstractions.  A table is the set of its addresses: one VLAN, and the XOR *)
(* of CRC-32Cs of crc_check is equality of sets.  The address of originator  *)
(* o's own bat0 is o itself.  The rows are kept as the announced ones (held) *)
(* and the temporary ones in the order of their creation (temps).  A request *)
(* has waited long enough (req_wait) whenever Waited says so.  The builder's *)
(* branches for a tail that does not fit 512 bytes cannot be reached with    *)
(* BAT_TT_LOCAL_MAX and BAT_TT_CHANGES_MAX (136 bytes at most).  This board  *)
(* adds one address, in bat_tt_init; the additions and removals after it are *)
(* the engine's hooks (bat_tt.h), and stand for an originator with clients.  *)
EXTENDS Integers, FiniteSets, Sequences, SequencesExt

CONSTANTS
  Origs,        \* the originators announcing tables
  Clients,      \* the client addresses behind them
  Rows,         \* BAT_TT_ROWS, the rows of the node that listens
  TempMax,      \* BAT_TT_TEMP_MAX
  LocalMax,     \* BAT_TT_LOCAL_MAX
  ChangesMax,   \* BAT_TT_CHANGES_MAX
  Wrap,         \* the modulus of a TTVN (256)
  Resends,      \* BAT_TT_RESENDS
  MaxEvents,    \* bound: clients added, removed or learned from data, routes
                \* lost, originators purged or restarted
  MaxAnswers    \* bound: answers in flight from one originator

ASSUME TTAssumption ==
  /\ IsFiniteSet(Origs) /\ IsFiniteSet(Clients)
  /\ {Rows, TempMax, LocalMax, ChangesMax, Resends} \subseteq Nat
  /\ {MaxEvents, MaxAnswers} \subseteq Nat
  /\ Wrap \in Nat /\ Wrap >= 2 /\ LocalMax >= 1 /\ ChangesMax >= 1 /\ TempMax >= 1

VARIABLES
  local,     \* [o][mac]: no, new, on or del (struct bat_tt_local)
  changes,   \* [o]: the events queued since the last commit
  ttvn,      \* [o]: the number of the table it announced last
  resend,    \* [o]: repeats of the last commit still to go
  last_tvlv, \* [o]: what those repeats carry (NoTail once unread)
  ogm,       \* [o]: the tail of its newest OGM on its way, or NoTail
  asked,     \* originators a request is on its way to
  answers,   \* [o]: full tables on their way back
  held,      \* [o]: the announced rows of o at the node
  temps,     \* the temporary rows at the node, oldest first
  tt,        \* [o]: ttvn, known and req_pending of struct bat_tt_orig
  spoiled,   \* history: originators whose copy lost its thread (see Exact)
  events     \* how many of what MaxEvents bounds
ttvars == <<local, changes, ttvn, resend, last_tvlv, ogm, asked, answers, held, temps,
          tt, spoiled, events>>
owner == <<local, changes, ttvn, resend, last_tvlv>>

Happens == events < MaxEvents /\ events' = events + 1

NoTail == [ttvn |-> 0, table |-> {}, diff |-> <<>>, is |-> FALSE]
MacsOf(o) == Clients \cup {o}
Macs == Clients \cup Origs

\* committed: what the checksum and a full table cover
Committed(o) == {m \in MacsOf(o) : local[o][m] \in {"on", "del"}}

\* what the next commit announces
Announced(o) == {m \in MacsOf(o) : local[o][m] \in {"new", "on"}}

Event(m, del) == [mac |-> m, del |-> del]

TTInit ==
  /\ local = [o \in Origs |-> [m \in MacsOf(o) |-> IF m = o THEN "new" ELSE "no"]]
  /\ changes = [o \in Origs |-> <<Event(o, FALSE)>>]
  /\ ttvn = [o \in Origs |-> 0]
  /\ resend = [o \in Origs |-> 0]
  /\ last_tvlv = [o \in Origs |-> NoTail]
  /\ ogm = [o \in Origs |-> NoTail]
  /\ asked = {}
  /\ answers = [o \in Origs |-> {}]
  /\ held = [o \in Origs |-> {}]
  /\ temps = <<>>
  /\ tt = [o \in Origs |-> [ttvn |-> 0, known |-> FALSE, pending |-> FALSE]]
  /\ spoiled = {}
  /\ events = 0

-----------------------------------------------------------------------------
(* The originator: its own table.                                            *)

\* queue_event: an opposite event waiting cancels both; QueueFull when no room
Opposite(q, e) == {i \in 1..Len(q) : q[i].mac = e.mac /\ q[i].del # e.del}
QueueFull(q, e) == Opposite(q, e) = {} /\ Len(q) >= ChangesMax

\* mutant: an opposite event is queued behind the first
QueuedBoth(q, e) == Append(q, e)

Queued(q, e) ==
  IF Opposite(q, e) # {} THEN RemoveAt(q, CHOOSE i \in Opposite(q, e) : TRUE)
  ELSE Append(q, e)

\* bat_tt_local_add of a new address, or of one whose removal is not announced
LocalAdd(o, m) ==
  LET was == local[o][m]
      e == Event(m, FALSE)
      used == {x \in MacsOf(o) : local[o][x] # "no"}
  IN /\ Happens
     /\ was \in {"no", "del"} /\ ~QueueFull(changes[o], e)
     /\ was = "no" => Cardinality(used) < LocalMax
     /\ local' = [local EXCEPT ![o][m] = IF was = "no" THEN "new" ELSE "on"]
     /\ changes' = [changes EXCEPT ![o] = Queued(@, e)]
     /\ UNCHANGED <<ttvn, resend, last_tvlv, ogm, asked, answers, held, temps, tt,
                    spoiled>>

\* bat_tt_local_del
LocalDel(o, m) ==
  LET was == local[o][m]
      e == Event(m, TRUE)
  IN /\ Happens
     /\ was \in {"new", "on"} /\ ~QueueFull(changes[o], e)
     /\ local' = [local EXCEPT ![o][m] = IF was = "new" THEN "no" ELSE "del"]
     /\ changes' = [changes EXCEPT ![o] = Queued(@, e)]
     /\ UNCHANGED <<ttvn, resend, last_tvlv, ogm, asked, answers, held, temps, tt,
                    spoiled>>

\* a TTVN is eight bits
Next1(n) == (n + 1) % Wrap

\* n comes round again while an earlier n is held or on its way
Lapped(o, n) == n = tt[o].ttvn \/ (ogm[o].is /\ n = ogm[o].ttvn)
                  \/ n \in {a.ttvn : a \in answers[o]}

\* bat_tt_ogm_tvlv_build with changes queued: the commit
Commit(o) ==
  LET n == Next1(ttvn[o])
      sent == [ttvn |-> n, table |-> Announced(o), diff |-> changes[o], is |-> TRUE]
  IN /\ changes[o] # <<>>
     /\ local' = [local EXCEPT ![o] = [m \in MacsOf(o) |->
                    IF m \in Announced(o) THEN "on" ELSE "no"]]
     /\ ttvn' = [ttvn EXCEPT ![o] = n]
     /\ resend' = [resend EXCEPT ![o] = Resends]
     /\ last_tvlv' = [last_tvlv EXCEPT ![o] = sent]
     /\ ogm' = [ogm EXCEPT ![o] = sent]
     /\ changes' = [changes EXCEPT ![o] = <<>>]
     /\ spoiled' = IF Lapped(o, n) THEN spoiled \cup {o} ELSE spoiled
     /\ UNCHANGED <<asked, answers, held, temps, tt, events>>

\* without changes: a repeat of the last tail, then the number and checksum only
Repeat(o) ==
  /\ changes[o] = <<>> /\ resend[o] > 0
  /\ resend' = [resend EXCEPT ![o] = @ - 1]
  /\ ogm' = [ogm EXCEPT ![o] = last_tvlv[o]]
  /\ last_tvlv' = IF resend[o] = 1 THEN [last_tvlv EXCEPT ![o] = NoTail] ELSE last_tvlv
  /\ UNCHANGED <<local, changes, ttvn, asked, answers, held, temps, tt,
                 spoiled, events>>

Announce(o) ==
  LET sent == [ttvn |-> ttvn[o], table |-> Committed(o), diff |-> <<>>, is |-> TRUE]
  IN /\ changes[o] = <<>> /\ resend[o] = 0
     /\ ogm' = [ogm EXCEPT ![o] = sent]
     /\ UNCHANGED <<local, changes, ttvn, resend, last_tvlv, asked, answers, held, temps, tt,
                    spoiled, events>>

\* bat_ogm_own: an OGM nobody received yet is lost behind the new one
OwnOgm(o) == Commit(o) \/ Repeat(o) \/ Announce(o)

\* answer: always the full table as committed
AnswerTx(o) ==
  /\ o \in asked
  /\ asked' = asked \ {o}
  /\ Cardinality(answers[o]) < MaxAnswers
  /\ answers' = [answers EXCEPT ![o] = @ \cup
                  {[ttvn |-> ttvn[o], table |-> Committed(o)]}]
  /\ UNCHANGED <<owner, ogm, held, temps, tt, spoiled, events>>

-----------------------------------------------------------------------------
(* The node that listens: the rows.                                          *)

RowsUsed(h, t) == Len(t) + Cardinality(UNION {{<<o, m>> : m \in h[o]} : o \in Origs})

\* the rows of t without those of some addresses from some originators
Without(t, macs, origs) ==
  LET left[i \in 0..Len(t)] ==
        IF i = 0 THEN <<>>
        ELSE IF t[i].mac \in macs /\ t[i].orig \in origs THEN left[i - 1]
        ELSE Append(left[i - 1], t[i])
  IN left[Len(t)]

\* row_add: temporary rows of the address go; when full the oldest one goes
RowAdd(s, o, m) ==
  LET t == Without(s.temps, {m}, Origs)
      add == [s.held EXCEPT ![o] = @ \cup {m}]
  IN IF m \in s.held[o] \/ RowsUsed(s.held, t) < Rows
     THEN [held |-> add, temps |-> t, ok |-> TRUE]
     ELSE IF t # <<>> THEN [held |-> add, temps |-> Tail(t), ok |-> TRUE]
     ELSE [held |-> s.held, temps |-> t, ok |-> FALSE]

\* the removal of a change: row_find, row_free
RowDel(s, o, m) ==
  [s EXCEPT !.held[o] = @ \ {m},
            !.temps = Without(@, {m}, {o})]

\* one change; none after an add that found no row
Applied(s, o, e) ==
  IF ~s.ok THEN s ELSE IF e.del THEN RowDel(s, o, e.mac) ELSE RowAdd(s, o, e.mac)

\* apply: in order
Apply(h, t, o, diff) ==
  LET after[i \in 0..Len(diff)] ==
        IF i = 0 THEN [held |-> h, temps |-> t, ok |-> TRUE]
        ELSE Applied(after[i - 1], o, diff[i])
  IN after[Len(diff)]

\* mutant: a table no shorter than the announced one passes
MatchesCount(h, o, table) == Cardinality(h[o]) >= Cardinality(table)

\* crc_check
Matches(h, o, table) == h[o] = table

\* mutant: the changes of any newer number are applied
FollowsAhead(g, r) == ~r.known \/ g.ttvn # r.ttvn

\* bat_tt_ogm_rx: the tail g on copy r of o's table; ask is tt_request's call
Follows(g, r) == (~r.known /\ g.ttvn = 1) \/ g.ttvn = Next1(r.ttvn)

TakeTail(h, t, o, r, g) ==
  LET s == Apply(h, t, o, g.diff)
  IN IF Follows(g, r) /\ g.diff # <<>>
     THEN [held |-> s.held, temps |-> s.temps, ok |-> s.ok,
           tt |-> [r EXCEPT !.ttvn = g.ttvn, !.known = s.ok],
           ask |-> ~Matches(s.held, o, g.table)]
     ELSE [held |-> h, temps |-> t, ok |-> TRUE, tt |-> r,
           ask |-> Follows(g, r) \/ ~r.known \/ g.ttvn # r.ttvn
                     \/ ~Matches(h, o, g.table)]

\* tt_request: one outstanding request per originator
OgmRx(o) ==
  LET s == TakeTail(held, temps, o, tt[o], ogm[o])
  IN /\ ogm[o].is
     /\ ogm' = [ogm EXCEPT ![o] = NoTail]
     /\ held' = s.held /\ temps' = s.temps
     /\ tt' = [tt EXCEPT ![o] = [s.tt EXCEPT !.pending = @ \/ s.ask]]
     /\ asked' = IF s.ask /\ ~tt[o].pending THEN asked \cup {o} ELSE asked
     /\ spoiled' = IF s.ok THEN spoiled ELSE spoiled \cup {o}
     /\ UNCHANGED <<owner, answers, events>>

\* response with the full table, in the owner's order; stall makes the next
\* request wait when rows ran out
TakeTable(h, t, o, n, order) ==
  LET s == Apply([h EXCEPT ![o] = {}], Without(t, Macs, {o}), o,
                 [i \in 1..Len(order) |-> Event(order[i], FALSE)])
  IN [held |-> s.held, temps |-> s.temps, ok |-> s.ok,
      tt |-> [ttvn |-> n, known |-> s.ok, pending |-> ~s.ok]]

AnswerRx(o) ==
  \E a \in answers[o] : \E order \in SetToSeqs(a.table) :
    LET s == TakeTable(held, temps, o, a.ttvn, order)
    IN /\ answers' = [answers EXCEPT ![o] = @ \ {a}]
       /\ held' = s.held /\ temps' = s.temps
       /\ tt' = [tt EXCEPT ![o] = s.tt]
       /\ spoiled' = IF s.ok THEN spoiled ELSE spoiled \cup {o}
       /\ UNCHANGED <<owner, ogm, asked, events>>

\* req_wait is over: tt_request and bat_tt_purge no longer see it pending
Waited(o) ==
  /\ tt[o].pending
  /\ tt' = [tt EXCEPT ![o].pending = FALSE]
  /\ UNCHANGED <<owner, ogm, asked, answers, held, temps, spoiled, events>>

\* bat_tt_learn_temp: a frame of client m was delivered from o
Learn(o, m) ==
  LET new == [mac |-> m, orig |-> o]
      at == {i \in 1..Len(temps) : temps[i].mac = m}
      evict == temps # <<>> /\ (Len(temps) >= TempMax \/ RowsUsed(held, temps) >= Rows)
      room == IF evict THEN Tail(temps) ELSE temps
  IN /\ Happens
     /\ \A p \in Origs : m \notin held[p]
     /\ temps' = IF at # {} THEN [i \in 1..Len(temps) |->
                                    IF i \in at THEN new ELSE temps[i]]
                 ELSE IF RowsUsed(held, room) < Rows THEN Append(room, new) ELSE room
     /\ UNCHANGED <<owner, ogm, asked, answers, held, tt, spoiled>>

\* bat_tt_purge: a temporary row past BAT_TT_TEMP_MS
TempAge ==
  /\ temps # <<>> /\ temps' = Tail(temps)
  /\ UNCHANGED <<owner, ogm, asked, answers, held, tt, spoiled, events>>

-----------------------------------------------------------------------------
(* Faults.                                                                   *)

Gone(o, n) ==
  /\ Happens
  /\ held' = [held EXCEPT ![o] = {}]
  /\ temps' = Without(temps, Macs, {o})
  /\ tt' = [tt EXCEPT ![o] = [ttvn |-> n, known |-> FALSE, pending |-> FALSE]]
  /\ spoiled' = spoiled \cup {o}
  /\ UNCHANGED <<owner, ogm, asked, answers>>

\* bat_orig_recompute finds no route left: the record stays, with its ttvn
RouteLost(o) == Gone(o, tt[o].ttvn)

\* bat_orig_purge frees the record
OrigPurged(o) == Gone(o, 0)

\* the originator starts over (bat_tt_init)
Reboot(o) ==
  /\ Happens
  /\ local' = [local EXCEPT ![o] =
                 [m \in MacsOf(o) |-> IF m = o THEN "new" ELSE "no"]]
  /\ changes' = [changes EXCEPT ![o] = <<Event(o, FALSE)>>]
  /\ ttvn' = [ttvn EXCEPT ![o] = 0]
  /\ resend' = [resend EXCEPT ![o] = 0]
  /\ last_tvlv' = [last_tvlv EXCEPT ![o] = NoTail]
  /\ spoiled' = spoiled \cup {o}
  /\ UNCHANGED <<ogm, asked, answers, held, temps, tt>>

\* A request lost is one never answered: the next one joins it.
LoseAnswer(o) ==
  \E a \in answers[o] :
    /\ answers' = [answers EXCEPT ![o] = @ \ {a}]
    /\ UNCHANGED <<owner, ogm, asked, held, temps, tt, spoiled, events>>

-----------------------------------------------------------------------------
TTNext ==
  \/ \E o \in Origs : \/ \E m \in Clients : LocalAdd(o, m) \/ LocalDel(o, m)
                      \/ \E m \in MacsOf(o) : Learn(o, m)
                      \/ OwnOgm(o) \/ AnswerTx(o) \/ OgmRx(o) \/ AnswerRx(o) \/ Waited(o)
                      \/ RouteLost(o) \/ OrigPurged(o) \/ Reboot(o)
                      \/ LoseAnswer(o)
  \/ TempAge

TTSpec == TTInit /\ [][TTNext]_ttvars

-----------------------------------------------------------------------------
(* Properties.                                                               *)

Version == 0..Wrap - 1

\* Types: a TTVN stays in its width, on both sides.
TTTypeOK ==
  /\ \A o \in Origs : /\ local[o] \in [MacsOf(o) -> {"no", "new", "on", "del"}]
                      /\ Len(changes[o]) <= ChangesMax
                      /\ ttvn[o] \in Version /\ resend[o] \in 0..Resends
                      /\ held[o] \subseteq MacsOf(o)
                      /\ tt[o] \in [ttvn : Version, known : BOOLEAN, pending : BOOLEAN]
  /\ asked \subseteq Origs /\ spoiled \subseteq Origs

\* The events queued turn the table announced last into the one the next OGM
\* announces, each address named once, whatever adds and removals came and
\* whichever of them cancelled (queue_event beside the states new, on, del).
Toggled(table, diff) ==
  LET after[i \in 0..Len(diff)] ==
        IF i = 0 THEN table
        ELSE IF diff[i].del THEN after[i - 1] \ {diff[i].mac} ELSE after[i - 1] \cup {diff[i].mac}
  IN after[Len(diff)]

QueueExact ==
  \A o \in Origs :
    /\ Toggled(Committed(o), changes[o]) = Announced(o)
    /\ \A i, j \in 1..Len(changes[o]) :
         changes[o][i].mac = changes[o][j].mac => i = j

\* A copy with the number the originator announces is the table it announces,
\* through lost and repeated OGMs, late and stale answers: the number alone
\* says so, before any checksum.  Only a copy that lost its thread is excused:
\* rows ran out, the route went, the originator restarted or lapped the number.
Exact ==
  \A o \in Origs \ spoiled :
    tt[o].known /\ tt[o].ttvn = ttvn[o] => held[o] = Committed(o)

\* The rows never pass their number nor the temporary ones theirs, and an
\* address has one temporary row at most, and none beside an announced one: a
\* row learned from data never outlives or shadows an announcement.
TempsApart ==
  /\ RowsUsed(held, temps) <= Rows /\ Len(temps) <= TempMax
  /\ \A i, j \in 1..Len(temps) : temps[i].mac = temps[j].mac => i = j
  /\ \A i \in 1..Len(temps), o \in Origs : temps[i].mac \notin held[o]

\* The types, the rows' limits and the queue of events.
TTInv == TTTypeOK /\ TempsApart /\ QueueExact

\* One exchange that is not lost mends any copy: from every state, once the
\* wait is over, an OGM without changes either finds the copy right or draws a
\* request, and the full table that answers it makes the copy the announced one,
\* when the rows the other tables leave are enough.
Mended(o) ==
  LET bare == [ttvn |-> ttvn[o], table |-> Committed(o), diff |-> <<>>, is |-> TRUE]
      s == TakeTail(held, temps, o, [tt[o] EXCEPT !.pending = FALSE], bare)
      full == TakeTable(s.held, s.temps, o, ttvn[o], SetToSeq(Committed(o)))
      done == IF s.ask THEN full ELSE s
  IN done.tt.known /\ done.tt.ttvn = ttvn[o] /\ done.held[o] = Committed(o)

OneExchange ==
  \A o \in Origs :
    RowsUsed([held EXCEPT ![o] = Committed(o)], <<>>) <= Rows => Mended(o)

=============================================================================
