---------------------------- MODULE TimeWindows ----------------------------
(***************************************************************************)
(* The time windows of one port in the data plane                          *)
(* (time_windows_data_query.p4).                                           *)
(*                                                                         *)
(* A packet is recorded in the first window, in the cell its trimmed time  *)
(* stamp names.  The record it evicts moves on to the next window, whose   *)
(* cells are 2^ALPHA times longer, if it is exactly one cycle older, and   *)
(* is lost otherwise.  A poll retires the quarter in use and leaves its    *)
(* records where they are: they are evicted when it is used again.         *)
(*                                                                         *)
(* Abstractions.  The flow ID of a packet is the moment it was dequeued,   *)
(* never overflowed: nothing here looks at it, and properties tell packets *)
(* apart by it.  The half the registers are in never changes; that queries *)
(* and polls read what one quarter held is the matter of DataPlaneQuery.   *)
(***************************************************************************)
EXTENDS Integers, FiniteSets

CONSTANTS
  k,         \* a window has 2^k cells
  T,         \* the number of windows
  ALPHA,     \* a cell of a window lasts 2^ALPHA cells of the one before
  TW0_TB,    \* the bits of a time stamp that the first window trims
  TsBits,    \* the bits of a time stamp
  Starts,    \* when the first packet may come
  Duration,  \* bounds the moments modelled
  Polls,     \* how long after a poll the next one may come
  Spells,    \* how long the port may be silent between two packets
  MaxSpells  \* bounds how often it is

ASSUME WindowsAssumption ==
  /\ k \in Nat \ {0} /\ T \in Nat \ {0} /\ ALPHA \in Nat \ {0}
  /\ TW0_TB \in Nat \ {0} /\ TsBits \in Nat
  /\ TsBits > TW0_TB + k + ALPHA * (T - 1)
  /\ Starts \subseteq Nat /\ Starts # {} /\ Duration \in Nat
  /\ Polls \subseteq Nat \ {0} /\ Polls # {}
  /\ Spells \subseteq Nat \ {0} /\ MaxSpells \in Nat

VARIABLES
  start,           \* of the use of the quarter in use
  due,             \* when it is polled
  now,             \* the present moment, as if it never overflowed
  silences,        \* the moments at which the port fell silent
  tw_r,            \* per quarter, window and index: a cell
  second_highest   \* the quarter in use

windowVars == <<start, due, now, silences, tw_r, second_highest>>

Windows  == 0 .. T - 1
Indices  == 0 .. 2^k - 1
Quarters == {0, 1}

NoFID == -1
Empty == [tts |-> 0, FID |-> NoFID]

WindowInit ==
  /\ now \in Starts
  /\ start = now
  /\ \E d \in Polls \cup {0} : due = now + d  \* the first packet may come late
  /\ silences = {}
  /\ tw_r = [q \in Quarters |-> [i \in Windows |-> [j \in Indices |-> Empty]]]
  /\ second_highest = 0

----------------------------------------------------------------------------
\* What enters a window from outside: a packet, in the first.
Record(ts) == [tts |-> (ts % 2^TsBits) \div 2^TW0_TB, FID |-> ts]

\* The test of the cycle left out.
Passes_AnyCycle(new, old) == old.tts # 0

\* tts_delta = 0 and tts_r # 0.  The subtraction wraps at the width of a time
\* stamp, which no trimmed one fills: a cycle back over an overflow matches none.
Passes(new, old) ==
  /\ (new.tts - 2^k) % 2^TsBits = old.tts
  /\ old.tts # 0

\* The index of a record taken from its own cell instead of the next window's.
NextRecord_SameCell(old) == [tts |-> old.tts, FID |-> old.FID]

NextRecord(old) == [tts |-> old.tts \div 2^ALPHA, FID |-> old.FID]

\* The records that enter the windows when new enters the first, Empty where
\* none does.  TW0_md and TW1_md describe every other window in turn.
Entering(windows, new) ==
  LET entering[i \in Windows] ==
        IF i = 0 THEN new
        ELSE LET e   == entering[i - 1]
                 old == windows[i - 1][e.tts % 2^k]
             IN IF e # Empty /\ Passes(e, old) THEN NextRecord(old) ELSE Empty
  IN entering

Packet ==
  /\ now < due /\ now < Duration
  /\ LET entering == Entering(tw_r[second_highest], Record(now))
     IN tw_r' = [tw_r EXCEPT ![second_highest] =
                   [i \in Windows |->
                      [j \in Indices |->
                         IF entering[i] # Empty /\ entering[i].tts % 2^k = j
                           THEN entering[i] ELSE @[i][j]]]]
  /\ now' = now + 2^TW0_TB
  /\ UNCHANGED <<start, due, silences, second_highest>>

Silence ==
  /\ now < due /\ now < Duration
  /\ Cardinality(silences) < MaxSpells
  /\ silences' = silences \cup {now}
  /\ \E d \in Spells : now' = now + d
  /\ UNCHANGED <<start, due, tw_r, second_highest>>

\* The control plane retires the quarter in use when its time is up.
Retire ==
  /\ now >= due
  /\ second_highest' = 1 - second_highest
  /\ start' = now
  /\ \E d \in Polls : due' = now + d
  /\ UNCHANGED <<now, silences, tw_r>>

----------------------------------------------------------------------------
(* Properties.                                                             *)

\* The bits that window i trims of a time stamp.
TrimmedBits(i) == TW0_TB + ALPHA * i

\* Wherever a record was moved, its cell holds the time stamp of its packet, as
\* far as the window has trimmed it, and is the one that stamp names.
RecordsTrue ==
  \A q \in Quarters, i \in Windows, j \in Indices :
    LET c == tw_r[q][i][j] IN
    c # Empty => /\ c.tts = (c.FID % 2^TsBits) \div 2^TrimmedBits(i)
                 /\ c.tts % 2^k = j

\* The cell of window i that a packet falls into, counted from moment zero.
CellOf(i, FID) == FID \div 2^TrimmedBits(i)

\* A record is at least one cycle older than another in the window before, in a
\* quarter that is being used for the first time as in one that holds the records
\* of earlier uses: windows do not overlap.
RecordsFollow ==
  \A q \in Quarters, i \in Windows, j \in Indices :
    LET d == tw_r[q][i][j] IN
    i > 0 /\ d # Empty =>
      \E l \in Indices :
        LET c == tw_r[q][i - 1][l] IN
        /\ c # Empty
        /\ CellOf(i - 1, c.FID) >= CellOf(i - 1, d.FID) + 2^k

=============================================================================
