------------------------ MODULE TimeWindowController ------------------------
(***************************************************************************)
(* The analysis of what the polls of TimeWindows read (TimeWindows.py):    *)
(* which records of a set are of the last cycle of their window, and how   *)
(* often their time stamps have overflowed.  The sets are analysed in the  *)
(* order of their polls, and here as each is polled.                       *)
(***************************************************************************)
EXTENDS TimeWindows

VARIABLES
  wrapping, pre_largest_tts,  \* carried from one set to the next
  TW_result,                  \* the cells retained of the last set, {} if not loaded
  used_since,                 \* when the use of its quarter began
  origin                      \* the overflows before wrapping counts them

vars == <<windowVars, wrapping, pre_largest_tts, TW_result, used_since, origin>>

NoOrigin == -1

tts_bit       == TsBits - TW0_TB
threshold_bit == (tts_bit + k) \div 2

\* Any time stamp below the one before it is taken for an overflow.
Overflowed_Below(from, to) == to < from

\* A jump of less than the threshold, up to an overflow, is taken for one.
Overflowed(from, to) == 2^tts_bit + to - from < 2^threshold_bit

\* The scan without a thought for overflows.
LargestCell_NoOverflow(TW0) ==
  LET idx == CHOOSE j \in Indices : \A l \in Indices : TW0[l].tts <= TW0[j].tts
  IN [tts |-> TW0[idx].tts, idx |-> idx, wraps |-> 0]

\* The largest time stamp of the first window, from index 0 up.  wraps counts
\* the overflows the scan met.
LargestCell(TW0) ==
  LET scan[j \in Indices] ==
        IF j = 0 THEN [tts |-> TW0[0].tts, idx |-> 0, wraps |-> 0]
        ELSE LET best == scan[j - 1]
                 tts  == TW0[j].tts
             IN IF tts > best.tts
                  THEN IF 2^tts_bit + best.tts - tts > 2^threshold_bit
                         THEN [best EXCEPT !.tts = tts, !.idx = j] ELSE best
                  ELSE IF Overflowed(best.tts, tts)
                         THEN [tts |-> tts, idx |-> j, wraps |-> best.wraps + 1]
                         ELSE best
  IN scan[2^k - 1]

\* The time stamp of the latest record that window i can hold: the one the
\* latest of the window before replaced.
LargestTts(largest) ==
  LET l[i \in Windows] ==
        IF i = 0 THEN largest ELSE (l[i - 1] - 2^k) \div 2^ALPHA
  IN l

\* The cycle of a time stamp, and of window i as many bits as it has.
CID(tts) == tts \div 2^k
CIDMask(i, c) == c % 2^(tts_bit - k - i * ALPHA)

\* No filter: whatever a cell holds is retained.
Retained_All(window, i, latest, idx, wraps) ==
  {[FID |-> window[j].FID, tts |-> window[j].tts, twid |-> i, wrap |-> wraps] :
     j \in {j \in Indices : window[j].FID # NoFID}}

\* The cells of window i that the filter retains: up to the latest, those of its
\* cycle, and after it, those of the cycle before.
Retained(window, i, latest, idx, wraps) ==
  LET upTo  == {j \in 0 .. idx : /\ window[j].FID # NoFID
                                 /\ CID(window[j].tts) = CID(latest)}
      after == {j \in idx + 1 .. 2^k - 1 :
                  /\ window[j].FID # NoFID
                  /\ CIDMask(i, CID(window[j].tts) + 1) = CIDMask(i, CID(latest))}
  IN {[FID |-> window[j].FID, tts |-> window[j].tts, twid |-> i,
       wrap |-> IF j \in after /\ CID(window[j].tts) > CID(latest)
                  THEN wraps - 1 ELSE wraps] : j \in upTo \cup after}

ControllerInit ==
  /\ WindowInit
  /\ wrapping = 0
  /\ pre_largest_tts = 0
  /\ TW_result = {}
  /\ used_since = start
  /\ origin = NoOrigin

\* One set, polled and filtered.  A set of nothing but zeros is not loaded.
Poll ==
  LET registers == tw_r[second_highest]
      largest   == LargestCell(registers[0])
      l         == LargestTts(largest.tts)
      across    == largest.wraps = 0 /\ Overflowed(pre_largest_tts, largest.tts)
  IN
  /\ Retire
  /\ used_since' = start
  /\ IF \A i \in Windows, j \in Indices : registers[i][j].FID = NoFID
       THEN /\ TW_result' = {}
            /\ UNCHANGED <<wrapping, pre_largest_tts, origin>>
       ELSE /\ wrapping' = wrapping + largest.wraps + (IF across THEN 1 ELSE 0)
            /\ pre_largest_tts' = largest.tts
            /\ TW_result' = UNION {
                 Retained(registers[i], i, l[i],
                          IF i = 0 THEN largest.idx ELSE l[i] % 2^k,
                          wrapping') : i \in Windows}
            /\ origin' = IF origin # NoOrigin THEN origin
                         ELSE registers[0][largest.idx].FID \div 2^TsBits
                                - wrapping'

Traffic ==
  /\ Packet \/ Silence
  /\ UNCHANGED <<wrapping, pre_largest_tts, TW_result, used_since, origin>>

Next == Traffic \/ Poll

Spec == ControllerInit /\ [][Next]_vars

----------------------------------------------------------------------------
\* Every retained record is given the time of its packet, counted from the same
\* overflow in every set: the windows shift the right bits, the filter rejects
\* records of older cycles, and overflows are counted once.
RetainedTrue ==
  \A c \in TW_result :
    c.FID \div 2^TrimmedBits(c.twid)
      = c.tts + (c.wrap + origin) * 2^(TsBits - TrimmedBits(c.twid))

\* The windows of a set are in order: what an older window retains is older.
WindowsOrdered ==
  \A c, d \in TW_result : c.twid < d.twid => d.FID < c.FID

\* Limited traffic: registers that no packet updates keep the records of earlier uses,
\* and a quarter that is idle for a whole use is filtered as it was left.

\* No register holds a record for so long that its stamp, as its window trims it,
\* could be taken for that of a packet a period later.
Current ==
  \A q \in Quarters, i \in Windows, j \in Indices :
    tw_r[q][i][j] # Empty =>
      now - tw_r[q][i][j].FID <= 2^TsBits - 2^TrimmedBits(i)

\* Every cell of the first window holds a packet of less than the threshold ago.
StampsTell ==
  \A j \in Indices :
    LET c == tw_r[second_highest][0][j]
    IN c # Empty /\ now - c.FID <= 2^(TW0_TB + threshold_bit) - 2^TW0_TB

\* From the beginning of the use before this one to the latest packet of this, more
\* time has passed than all the windows cover.
Outlasts ==
  \E j \in Indices : tw_r[second_highest][0][j].FID - used_since
                        >= 2^(TrimmedBits(T - 1) + k + 1)

\* What the set last filtered retains is of that use of its quarter.
Fresh == \A c \in TW_result : c.FID >= used_since

\* However the traffic was spread over the uses before, a set retains no record of an
\* earlier use of its quarter, if its stamps tell their cycles and its last packet came
\* late enough: registers are never cleared, and the filter knows no other way to tell.
SetFresh == [][Poll /\ Current /\ StampsTell /\ Outlasts => Fresh']_vars

\* A fall of the latest stamp is an overflow: no set counts more of them than there
\* were.
OverflowsReal == origin # NoOrigin => wrapping + origin <= now \div 2^TsBits

\* Nothing is missing: if no silence fell in the use of the quarter, the first
\* window retains all its cells, over an overflow too, and if no overflow did
\* either, every window retains a record for every cell up to its latest.
Complete ==
  LET latest    == LargestTts(pre_largest_tts)
      Kept(i)   == {c.tts : c \in {d \in TW_result : d.twid = i}}
      Wanted(i) == {v \in latest[i] - 2^k + 1 .. latest[i] :
                      v * 2^TrimmedBits(i) >= used_since % 2^TsBits}
  IN TW_result # {} /\ (\A s \in silences : s \notin used_since .. start)
     => /\ \A v \in latest[0] - 2^k + 1 .. latest[0] : v % 2^tts_bit \in Kept(0)
        /\ used_since \div 2^TsBits = start \div 2^TsBits
           => \A i \in Windows : Wanted(i) \subseteq Kept(i)

=============================================================================
