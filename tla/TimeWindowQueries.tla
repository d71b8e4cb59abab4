------------------------- MODULE TimeWindowQueries -------------------------
(***************************************************************************)
(* What TimeWindowController answers from the sets it has filtered: the    *)
(* bounds of a set, where a signal of the data plane lies, and which cells *)
(* a query counts and as how many packets; and the filter and the queries  *)
(* of the earlier format (TimeWindowController_stale).                     *)
(***************************************************************************)
EXTENDS TimeWindowController, SequencesExt

CONSTANTS
  CLOSE_THRESHOLD,  \* a cell this near tells how often a signal's stamp overflowed
  TW0_z,            \* that a cell of the first window holds a record: <<n, of>>
  QueueDelays       \* how long a packet of a signal was queued

ASSUME QueriesAssumption ==
  /\ CLOSE_THRESHOLD \in Nat /\ TW0_TB > 0
  /\ TW0_z \in (Nat \ {0}) \X (Nat \ {0}) /\ TW0_z[1] <= TW0_z[2]
  /\ QueueDelays \subseteq 1 .. 2^TsBits - 1

VARIABLE TW_registers  \* the sets loaded so far: their cells and their bounds

queryVars == <<vars, TW_registers>>

NoCell == [FID |-> NoFID, tts |-> 0, twid |-> 0, wrap |-> 0]

----------------------------------------------------------------------------
\* A cell in moments: its first, its last, and the middle that stands for it.
cell_duration(tts, twid) ==
  LET TB == TrimmedBits(twid)
  IN <<tts * 2^TB, tts * 2^TB + 2^TB - 1, tts * 2^TB + 2^(TB - 1)>>

Moment(cell) == cell_duration(cell.tts, cell.twid)[3] + cell.wrap * 2^TsBits

\* Whichever cell the deepest window holds at the lowest index.
SmallestCell_Index(cells, idx, smallest) ==
  IF cells = {} THEN smallest
  ELSE LET oldest == {c \in cells : c.twid = Max({d.twid : d \in cells})}
       IN CHOOSE c \in oldest : \A d \in oldest : c.tts % 2^k <= d.tts % 2^k

\* The oldest cell retained, idx[i] the latest index of window i, in the order
\* of the filter's loops: cells after the latest are of the cycle before.
SmallestCell(cells, idx, smallest) ==
  IF cells = {} THEN smallest
  ELSE LET oldest == {c \in cells : c.twid = Max({d.twid : d \in cells})}
           after  == {c \in oldest : c.tts % 2^k > idx[c.twid]}
           first  == IF after # {} THEN after ELSE oldest
       IN CHOOSE c \in first : \A d \in first : c.tts % 2^k <= d.tts % 2^k

Bounds(registers, cells, wraps, smallest) ==
  LET largest == LargestCell(registers[0])
      l       == LargestTts(largest.tts)
      idx     == [i \in Windows |-> IF i = 0 THEN largest.idx ELSE l[i] % 2^k]
      cell    == SmallestCell(cells, idx, smallest)
  IN [sts |-> Moment(cell), lts |-> cell_duration(largest.tts, 0)[3] + wraps * 2^TsBits,
      smallest |-> cell, TW_result |-> cells]

QueriesInit == ControllerInit /\ TW_registers = <<>>

\* The last smallest_cell is kept by a set that retains none.
LoadSet ==
  /\ Poll
  /\ LET registers == tw_r[second_highest]
         smallest  == IF TW_registers = <<>> THEN NoCell
                      ELSE TW_registers[Len(TW_registers)].smallest
     IN TW_registers' =
          IF \A i \in Windows, j \in Indices : registers[i][j].FID = NoFID
            THEN TW_registers
            ELSE Append(TW_registers, Bounds(registers, TW_result', wrapping', smallest))

Fill == Traffic /\ UNCHANGED TW_registers

QueriesNext == Fill \/ LoadSet

QueriesSpec == QueriesInit /\ [][QueriesNext]_queryVars

----------------------------------------------------------------------------
\* A nearness across the overflow of the stamps.
Near_Across(cell, dequeue_ts) ==
  LET bits  == TsBits - TrimmedBits(cell.twid)
      delta == (dequeue_ts \div 2^TrimmedBits(cell.twid) - cell.tts) % 2^bits
  IN delta < CLOSE_THRESHOLD \/ delta > 2^bits - CLOSE_THRESHOLD

\* A cell near a stamp, in the cells of its window.
Near(cell, dequeue_ts) ==
  LET delta == dequeue_ts \div 2^TrimmedBits(cell.twid) - cell.tts
  IN delta < CLOSE_THRESHOLD /\ delta > -CLOSE_THRESHOLD

\* Where a signal of the last set may be found: at the first near cell of the
\* set, or else of the one before.  Any near cell is allowed to be the first.
poll_signals(enqueue_ts, dequeue_ts) ==
  LET tw_idx    == Len(TW_registers)
      NearOf(i) == {c \in TW_registers[i].TW_result : Near(c, dequeue_ts)}
      near      == IF NearOf(tw_idx) = {} /\ tw_idx > 1
                     THEN NearOf(tw_idx - 1) ELSE NearOf(tw_idx)
  IN {[dequeue |-> dequeue_ts + c.wrap * 2^TsBits,
       enqueue |-> enqueue_ts + (IF enqueue_ts < dequeue_ts THEN c.wrap ELSE c.wrap - 1)
                                  * 2^TsBits] : c \in near}

----------------------------------------------------------------------------
\* The share of one window for the next, not of all windows up to it.
calculate_coefficient_Once(z, alpha, t) ==
  [i \in 0 .. t - 1 |-> [co |-> IF i = 0 THEN <<1, 1>> ELSE <<1, 2^alpha>>]]

\* How many cells of window i remain of one packet, over and over: <<n, of>>.
calculate_coefficient(z, alpha, t) ==
  LET map == 2^alpha
      co[i \in 0 .. t - 1] ==
        IF i = 0 THEN [z |-> z, co |-> <<1, 1>>]
        ELSE LET n == co[i - 1].z[1]
                 d == co[i - 1].z[2]
                 \* p = 1 - z * z, and z becomes 1 - p^map
                 next == <<(d * d)^map - (d * d - n * n)^map, (d * d)^map>>
             IN [z |-> next,
                 co |-> <<co[i - 1].co[1] * next[1] * d,
                          co[i - 1].co[2] * next[2] * n * map>>]
  IN co

Estimate(number, co) == (number * co[2]) \div co[1]

\* A query that stays where it began when it is cut.
Cuts_SameStart(ts, te) ==
  LET n == Len(TW_registers)
      In(i) == TW_registers[i].sts <= ts /\ ts <= TW_registers[i].lts
      sets  == SetToSeq({i \in 1 .. n : In(i)})
  IN [ts |-> ts, found |-> \E i \in 1 .. n : In(i) /\ te <= TW_registers[i].lts,
      cuts |-> [j \in DOMAIN sets |->
                  [set |-> sets[j], from |-> ts, to |-> Min({te, TW_registers[sets[j]].lts})]]]

\* The cuts of a query: the sets it falls in, and which part of it in each.
\* It fails if it outlasts the last set, and finds none if it starts in no set.
Cuts(ts, te) ==
  LET n == Len(TW_registers)
      cut[i \in 0 .. n] ==
        IF i = 0 THEN [ts |-> ts, cuts |-> <<>>, found |-> FALSE, failed |-> FALSE]
        ELSE LET q == cut[i - 1]
                 s == TW_registers[i]
             IN IF q.found \/ q.failed \/ ~(s.sts <= q.ts /\ q.ts <= s.lts) THEN q
                ELSE IF te <= s.lts
                  THEN [q EXCEPT !.found = TRUE,
                                 !.cuts = Append(@, [set |-> i, from |-> q.ts, to |-> te])]
                ELSE IF i = n THEN [q EXCEPT !.failed = TRUE]
                ELSE [q EXCEPT !.ts = Max({s.lts, TW_registers[i + 1].sts}),
                               !.cuts = Append(@, [set |-> i, from |-> q.ts, to |-> s.lts])]
  IN cut[n]

\* What a query counts: the cells of each cut whose moment lies in it.
Counted(cuts) ==
  UNION {{<<i, c>> : c \in {d \in TW_registers[cuts[i].set].TW_result :
                              /\ cuts[i].from <= Moment(d)
                              /\ Moment(d) <= cuts[i].to}} : i \in DOMAIN cuts}

\* How many packets a query of one set estimates in all, each cell a flow of its
\* own.
retrieve2(ts, te, cells) ==
  LET co == calculate_coefficient(TW0_z, ALPHA, T)
      N(i) == Cardinality({c \in cells : /\ c.twid = i
                                         /\ ts <= Moment(c) /\ Moment(c) <= te})
      result[i \in Windows] ==
        (IF i = 0 THEN 0 ELSE result[i - 1]) + N(i) * Estimate(1, co[i].co)
  IN result[T - 1]

----------------------------------------------------------------------------
\* ... of the latest cycle only, on both sides of the latest.
RetainedStale_OneCycle(registers) ==
  LET largest == Max({registers[0][j].tts : j \in Indices})
      l       == LargestTts(largest)
  IN UNION {{[FID |-> registers[i][j].FID, tts |-> registers[i][j].tts, twid |-> i] :
               j \in {j \in Indices : /\ registers[i][j].tts # 0
                                      /\ CID(registers[i][j].tts) = CID(l[i])}} :
              i \in Windows}

\* The filter of the earlier format: no overflow, no wrap, and the time stamp
\* zero for an empty cell.
RetainedStale(registers) ==
  LET TW0 == registers[0]
      largest == IF \A j \in Indices : TW0[j].tts = 0 THEN 0
                 ELSE CHOOSE j \in Indices : /\ \A l \in Indices : TW0[l].tts <= TW0[j].tts
                                             /\ \A l \in 0 .. j - 1 : TW0[l].tts < TW0[j].tts
      l   == LargestTts(TW0[largest].tts)
      idx == [i \in Windows |-> IF i = 0 THEN largest ELSE l[i] % 2^k]
  IN UNION {{[FID |-> registers[i][j].FID, tts |-> registers[i][j].tts, twid |-> i] :
               j \in {j \in Indices :
                        /\ registers[i][j].tts # 0
                        /\ CID(registers[i][j].tts) + (IF j > idx[i] THEN 1 ELSE 0)
                             = CID(l[i])}} : i \in Windows}

\* From the start of the first cell to the end of the last.
TW_start_end_timestamp_Spans(cells, i) ==
  LET tts == {c.tts : c \in {d \in cells : d.twid = i}}
  IN <<cell_duration(Min(tts), i)[1], cell_duration(Max(tts), i)[2]>>

\* The moments of the first and the last cell of a window, and what a query
\* between them counts.
TW_start_end_timestamp(cells, i) ==
  LET tts == {c.tts : c \in {d \in cells : d.twid = i}}
  IN <<cell_duration(Min(tts), i)[3], cell_duration(Max(tts), i)[3]>>

RetrieveStale(cells, ts, te) ==
  {c \in cells : /\ ts <= cell_duration(c.tts, c.twid)[3]
                 /\ cell_duration(c.tts, c.twid)[3] <= te}

----------------------------------------------------------------------------
JustPolled == now = start /\ TW_result # {}
Sets       == {s \in {Len(TW_registers) - 1, Len(TW_registers)} : s > 0}

\* By how much the middle of a cell of window i may be after that of the cell that
\* follows it in the window before: the wider the cells of a window are than those
\* of the one before, the more.
Behind(i) ==
  IF i = 0 THEN 0
  ELSE Max({0, 2^(TrimmedBits(i) - 1) - 3 * 2^(TrimmedBits(i - 1) - 1)})

\* sts and lts bound what a set retained, sts but for Behind: a query that lies in
\* the set by them finds there whatever was retained of its interval.
SetBounds ==
  JustPolled => LET s == TW_registers[Len(TW_registers)]
                IN \A c \in s.TW_result :
                     /\ s.sts <= Moment(c) + Behind(s.smallest.twid)
                     /\ Moment(c) <= s.lts

\* TimeWindows.py:261: "'sts': smallest timestamp of the set".
SmallestFirst ==
  JustPolled => LET s == TW_registers[Len(TW_registers)]
                IN \A c \in s.TW_result : s.sts <= Moment(c)

\* The cells near a signal tell how often its stamps have overflowed, wherever
\* in the use of the quarter its packet was dequeued.
SignalsLocated ==
  JustPolled =>
    \A i \in Sets : \A c \in TW_registers[i].TW_result : \A delay \in QueueDelays :
      c.FID >= used_since =>
        LET e == c.FID - delay IN
        \A s \in poll_signals(e % 2^TsBits, c.FID % 2^TsBits) :
          s = [dequeue |-> c.FID - origin * 2^TsBits, enqueue |-> e - origin * 2^TsBits]

\* A query over two sets is cut where the first ends: no cell is counted twice,
\* and none of its interval is left out but one whose moment is before the sts of
\* its set, or before the end of the set before, though its packets came after.
CountedOnce ==
  JustPolled /\ Len(TW_registers) > 1 =>
    LET n == Len(TW_registers)
        Cells(i) == TW_registers[i].TW_result
    IN \A from \in Cells(n - 1), to \in Cells(n) :
         TW_registers[n - 1].sts <= Moment(from) =>
         LET q       == Cuts(Moment(from), Moment(to))
             counted == Counted(q.cuts)
             Within(i) == {c \in Cells(i) :
                             /\ Moment(from) <= Moment(c) /\ Moment(c) <= Moment(to)
                             /\ TW_registers[i].sts <= Moment(c)
                             /\ i > 1 => Moment(c) >= TW_registers[i - 1].lts}
         IN /\ q.found
            /\ Cardinality({p[2] : p \in counted}) = Cardinality(counted)
            /\ Within(n - 1) \cup Within(n) \subseteq {p[2] : p \in counted}

\* Of a fresh set without a silence or an overflow in its use of the quarter, a query
\* estimates all the packets of its interval, and too many by less than a cell of
\* one window more: the coefficients make up for what the windows have passed over.
EstimateTrue ==
  JustPolled /\ Fresh =>
    \A from, to \in TW_result :
      /\ \A s \in silences : s \notin used_since .. start
      /\ used_since \div 2^TsBits = start \div 2^TsBits
      /\ Moment(from) <= Moment(to)
      => LET packets == retrieve2(Moment(from), Moment(to), TW_result) * 2^TW0_TB
             span    == Moment(to) - Moment(from)
         IN /\ packets >= span
            /\ packets < span + 2^TrimmedBits(T)

\* The earlier filter retains the same as long as no overflow falls in a set.
StaleAgrees ==
  JustPolled =>
    LET registers == tw_r[1 - second_highest]
        FIDs == {registers[i][j].FID : i \in Windows, j \in Indices} \ {NoFID}
    IN (\A f, g \in FIDs : f \div 2^TsBits = g \div 2^TsBits)
       => RetainedStale(registers)
            = {[FID |-> c.FID, tts |-> c.tts, twid |-> c.twid] :
                 c \in {d \in TW_result : d.tts # 0}}

\* The query of TopK between the first and the last moment of a window counts the
\* cells of that window, and those of no other.
WindowAlone ==
  JustPolled =>
    LET registers == tw_r[1 - second_highest]
        FIDs  == {registers[i][j].FID : i \in Windows, j \in Indices} \ {NoFID}
        cells == RetainedStale(registers)
        Of(i) == {c \in cells : c.twid = i}
    IN \A i \in Windows :
         /\ \A f, g \in FIDs : f \div 2^TsBits = g \div 2^TsBits
         /\ Of(i) # {}
         => LET ends == TW_start_end_timestamp(cells, i)
            IN RetrieveStale(cells, ends[1], ends[2]) = Of(i)
=============================================================================
