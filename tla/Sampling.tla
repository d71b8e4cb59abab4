------------------------------ MODULE Sampling ------------------------------
(***************************************************************************)
(* How Comparison and timer pick the packets they query for                *)
(* (GroundTruth.py): packets are put into levels by the queue they met,    *)
(* and of each level as many as packet_sample_number are drawn at random,  *)
(* drawing again whenever one is drawn twice.  A packet is its index.      *)
(***************************************************************************)
EXTENDS Naturals, Sequences, FiniteSets

CONSTANTS
  threshold,             \* the depths at which levels begin, rising
  packet_sample_number,  \* how many packets of a level are drawn
  pkt_num,               \* how many there are in all
  Depths                 \* the queues a packet may have met

Levels == 1 .. Len(threshold)
Pkts   == 1 .. pkt_num

ASSUME SamplingAssumption ==
  /\ threshold \in Seq(Nat) /\ threshold # <<>>
  /\ \A i, j \in Levels : i < j => threshold[i] < threshold[j]
  /\ packet_sample_number \in Nat \ {0} /\ pkt_num \in Nat /\ Depths \subseteq Nat

VARIABLES
  queue_len_array,  \* the depth of the queue each packet met
  level,            \* of which packets are drawn
  sample_pkts,      \* drawn of each level
  sampler           \* "drawing", "sampled", or "failed" with an exception

samplingVars == <<queue_len_array, level, sample_pkts, sampler>>

\* Each threshold the beginning of a level, not the end of the one before.
packet_experiencing_high_delay2_From(depth) ==
  IF depth < threshold[1] THEN {}
  ELSE {CHOOSE i \in Levels : /\ depth >= threshold[i]
                              /\ \A j \in Levels : j > i => depth < threshold[j]}

\* The level of a packet, if any: the first whose bounds it lies in, the last if
\* it lies in none.
packet_experiencing_high_delay2(depth) ==
  LET Between == {j \in Levels \ {Len(threshold)} :
                    depth > threshold[j] /\ depth <= threshold[j + 1]}
  IN IF depth < threshold[1] THEN {}
     ELSE IF Between # {} THEN Between ELSE {Len(threshold)}

PktsOf(i) == {p \in Pkts : i \in packet_experiencing_high_delay2(queue_len_array[p])}

SamplingInit ==
  /\ queue_len_array \in [Pkts -> Depths]
  /\ level = 1
  /\ sample_pkts = [i \in Levels |-> {}]
  /\ sampler = "drawing"

\* A range that ends before the last packet.
Draw_Short(p) ==
  /\ sampler = "drawing" /\ Cardinality(sample_pkts[level]) < packet_sample_number
  /\ p \in PktsOf(level) /\ \E q \in PktsOf(level) : q > p
  /\ sample_pkts' = [sample_pkts EXCEPT ![level] = @ \cup {p}]
  /\ UNCHANGED <<queue_len_array, level, sampler>>

\* randint draws any packet of the level: one drawn before changes nothing.
Draw(p) ==
  /\ sampler = "drawing" /\ Cardinality(sample_pkts[level]) < packet_sample_number
  /\ p \in PktsOf(level)
  /\ sample_pkts' = [sample_pkts EXCEPT ![level] = @ \cup {p}]
  /\ UNCHANGED <<queue_len_array, level, sampler>>

\* There is no number between 0 and -1.
DrawFromNone ==
  /\ sampler = "drawing" /\ PktsOf(level) = {}
  /\ sampler' = "failed"
  /\ UNCHANGED <<queue_len_array, level, sample_pkts>>

NextLevel ==
  /\ sampler = "drawing" /\ Cardinality(sample_pkts[level]) = packet_sample_number
  /\ IF level < Len(threshold)
       THEN level' = level + 1 /\ UNCHANGED sampler
       ELSE sampler' = "sampled" /\ UNCHANGED level
  /\ UNCHANGED <<queue_len_array, sample_pkts>>

SamplingNext == (\E p \in Pkts : Draw(p)) \/ DrawFromNone \/ NextLevel

\* Every packet is drawn in the end, with probability one.
SamplingFairness ==
  /\ \A p \in Pkts : WF_samplingVars(Draw(p))
  /\ WF_samplingVars(DrawFromNone) /\ WF_samplingVars(NextLevel)

----------------------------------------------------------------------------
Enough == \A i \in Levels : Cardinality(PktsOf(i)) >= packet_sample_number

\* The loop at :457-467 draws for as long as it takes.  It ends if every level
\* has packets enough.
SamplingEnds == Enough ~> sampler = "sampled"

\* GroundTruth.py:137: the packets drawn of a level met queues "within [A, B],
\* [B,C], [C,D] ... >Z", and there are as many as asked for, though a depth of
\* exactly A counts as more than Z.
SampleTrue ==
  /\ sampler = "sampled" =>
       \A i \in Levels : Cardinality(sample_pkts[i]) = packet_sample_number
  /\ \A i \in Levels : \A p \in sample_pkts[i] :
       LET depth == queue_len_array[p] IN
       depth # threshold[1] =>
         /\ depth > threshold[i]
         /\ i < Len(threshold) => depth <= threshold[i + 1]

=============================================================================
