------------------------------- MODULE Series -------------------------------
(***************************************************************************)
(* The plots of the ground truth (GroundTruth.py): how many packets, in    *)
(* all and of each flow, enter the queue in each of n_period periods.  A   *)
(* moment t of a period is kept as 2 * n_period * t, an integer: only the  *)
(* rounding of floating-point numbers is left out.                         *)
(***************************************************************************)
EXTENDS Integers, Sequences, FiniteSets, Functions

CONSTANTS
  n_period,    \* how many periods there are
  Lengths,     \* the numbers of packets that are loaded
  EGaps,       \* how long after a packet the next may enter
  SeriesFlows  \* the flows

ASSUME SeriesAssumption ==
  /\ n_period \in Nat \ {0} /\ Lengths \subseteq Nat \ {0} /\ EGaps \subseteq Nat

VARIABLES
  enqueue_ts_array, FID_array,  \* loaded so far
  filter_list                   \* the flows plotted, all if {}

seriesVars == <<enqueue_ts_array, FID_array, filter_list>>

SeriesInit ==
  /\ \E f \in SeriesFlows : FID_array = <<f>>
  /\ enqueue_ts_array = <<0>>
  /\ filter_list \in SUBSET SeriesFlows

LoadPacket ==
  /\ \E n \in Lengths : Len(FID_array) < n
  /\ \E gap \in EGaps :
       enqueue_ts_array' = Append(enqueue_ts_array,
                                  enqueue_ts_array[Len(enqueue_ts_array)] + gap)
  /\ \E f \in SeriesFlows : FID_array' = Append(FID_array, f)
  /\ UNCHANGED filter_list

----------------------------------------------------------------------------
first_ets     == enqueue_ts_array[1]
last_ets      == enqueue_ts_array[Len(enqueue_ts_array)]
enqueue_total == last_ets - first_ets
Scale         == 2 * n_period

\* The middle of the j-th period, times Scale; the first is rounded down.
Middle(j) == Scale * ((Scale * first_ets + enqueue_total) \div Scale)
               + 2 * (j - 1) * enqueue_total

\* The periods that begin before the last packet.  Without time between the
\* first and the last there are none.
Periods == {j \in 1 .. 2 * n_period : enqueue_total > 0 /\ Middle(j) < Scale * last_ets}

\* Where the packets of a period end.
End(j) == (Middle(j) + enqueue_total) \div Scale

\* The packets counted in period j: from where the one before ended.
Counted(j) == {i \in DOMAIN FID_array :
                 /\ enqueue_ts_array[i] < End(j)
                 /\ \A l \in 1 .. j - 1 : enqueue_ts_array[i] >= End(l)}

draw_total_distribution == [j \in Periods |-> Cardinality(Counted(j))]

\* The first series of a flow without the zeros of the periods before.
draw_flow_distribution_Unpadded ==
  LET tmp(j, f)  == Cardinality({i \in Counted(j) : FID_array[i] = f})
      plotted    == {f \in SeriesFlows : /\ filter_list # {} => f \in filter_list
                                         /\ \E j \in Periods : tmp(j, f) > 0}
      since(f)   == CHOOSE j \in Periods : /\ tmp(j, f) > 0
                                           /\ \A l \in 1 .. j - 1 : tmp(l, f) = 0
  IN [f \in plotted |-> [j \in 1 .. Cardinality(Periods) - since(f) + 1 |->
                           tmp(j + since(f) - 1, f)]]

\* The series of each flow plotted, built a period at a time: a flow met for the
\* first time is given the zeros of the periods before.
draw_flow_distribution ==
  LET tmp(j, f) == Cardinality({i \in Counted(j) : FID_array[i] = f})
      New(j, old) == {f \in SeriesFlows \ DOMAIN old :
                        tmp(j, f) > 0 /\ (filter_list # {} => f \in filter_list)}
      series[j \in 0 .. Cardinality(Periods)] ==
        IF j = 0 THEN [f \in {} |-> <<>>]
        ELSE LET old == series[j - 1]
             IN [f \in DOMAIN old \cup New(j, old) |->
                   IF f \in DOMAIN old THEN Append(old[f], tmp(j, f))
                   ELSE [l \in 1 .. j |-> IF l = j THEN tmp(j, f) ELSE 0]]
  IN series[Cardinality(Periods)]

----------------------------------------------------------------------------
\* The series of the flows say what the total says: of one period each, for as
\* many periods, and they add up to it; and only packets of the last moment, or
\* the one before, are in none.
SeriesAgree ==
  FID_array # <<>> =>
  LET flows == draw_flow_distribution IN
  /\ \A f \in DOMAIN flows : DOMAIN flows[f] = Periods
  /\ filter_list = {} =>
       \A j \in Periods : draw_total_distribution[j]
                            = SumFunction([f \in DOMAIN flows |-> flows[f][j]])
  /\ \A f \in DOMAIN flows : \A j \in Periods :
       flows[f][j] = Cardinality({i \in Counted(j) : FID_array[i] = f})
  /\ \A i \in DOMAIN FID_array :
       \/ \E j \in Periods : i \in Counted(j)
       \/ enqueue_ts_array[i] >= last_ets - 1

=============================================================================
