------------------------------ MODULE Sketches ------------------------------
(***************************************************************************)
(* The algorithms that time windows are compared with, as they are         *)
(* simulated (TimeWindows.py), over a trace of packets and any hash        *)
(* functions, and the scores that compare them (precision_and_recall).     *)
(*                                                                         *)
(* A trace is a sequence of flows.  An answer, {FID: number} in descending *)
(* order, is a sequence of flows with numbers, for the scores leave out    *)
(* its last.  XOR of flow IDs is kept as the set of flows in it.           *)
(***************************************************************************)
EXTENDS Integers, SequencesExt

CONSTANTS
  Flows,        \* of the trace, numbers in the order of their IDs
  MaxPackets,   \* bounds the packets of a trace
  Hashes,       \* the lists of hash functions
  cell_number,  \* of a stage, a row and the cells of FlowRadar
  stages        \* of HashPipe, and rows of Count-Min

ASSUME SketchesAssumption ==
  /\ Flows \subseteq Nat /\ MaxPackets \in Nat
  /\ cell_number \in Nat \ {0} /\ stages \in Nat \ {0, 1}
  /\ \A hash \in Hashes : hash \in Seq([Flows -> Nat]) /\ Len(hash) >= 3 /\ Len(hash) >= stages

Cells       == 0 .. cell_number - 1
hash_number == 3
NoFlow      == -1

VARIABLES
  hash,    \* the list of hash functions
  traces,  \* the packets so far
  tables   \* of HashPipe: per stage and cell, a flow and its number

sketchVars == <<hash, traces, tables>>

h(i, FID) == hash[i][FID] % cell_number

SketchesInit ==
  /\ hash \in Hashes
  /\ traces = <<>>
  /\ tables = [i \in 1 .. stages |-> [j \in Cells |-> [FID |-> NoFlow, n |-> 0]]]

----------------------------------------------------------------------------
\* A number swapped out that is added to whatever flow is in the cell.
swap_Blind(old, i, carried) ==
  LET idx  == h(i, carried.FID)
      cell == old[i][idx]
  IN IF cell.FID = NoFlow \/ cell.n >= carried.n
       THEN [tables |-> [old EXCEPT ![i][idx] =
                           [FID |-> IF cell.FID = NoFlow THEN carried.FID ELSE cell.FID,
                            n |-> cell.n + carried.n]],
             carried |-> [FID |-> NoFlow, n |-> 0]]
       ELSE [tables |-> [old EXCEPT ![i][idx] = carried], carried |-> cell]

\* What is carried from stage to stage: added to its flow, put into an empty
\* cell, swapped with a smaller number, or carried on.
swap(old, i, carried) ==
  LET idx  == h(i, carried.FID)
      cell == old[i][idx]
      none == [FID |-> NoFlow, n |-> 0]
  IN IF cell.FID = carried.FID
       THEN [tables |-> [old EXCEPT ![i][idx].n = @ + carried.n], carried |-> none]
     ELSE IF cell.FID = NoFlow
       THEN [tables |-> [old EXCEPT ![i][idx] = carried], carried |-> none]
     ELSE IF cell.n < carried.n
       THEN [tables |-> [old EXCEPT ![i][idx] = carried], carried |-> cell]
     ELSE [tables |-> old, carried |-> carried]

\* A packet always enters the first stage; what the last stage does not take is
\* lost.
hash_pipe(old, pkt) ==
  LET idx  == h(1, pkt)
      cell == old[1][idx]
      pipe[i \in 1 .. stages] ==
        IF i = 1 THEN [tables  |-> [old EXCEPT ![1][idx] = [FID |-> pkt, n |-> 1]],
                       carried |-> cell]
        ELSE LET before == pipe[i - 1]
             IN IF before.carried.FID = NoFlow THEN before
                ELSE swap(before.tables, i, before.carried)
  IN IF cell.FID = pkt THEN [old EXCEPT ![1][idx].n = @ + 1] ELSE pipe[stages].tables

Packet(pkt) ==
  /\ Len(traces) < MaxPackets
  /\ traces' = Append(traces, pkt)
  /\ tables' = hash_pipe(tables, pkt)
  /\ UNCHANGED hash

SketchesNext == \E pkt \in Flows : Packet(pkt)

----------------------------------------------------------------------------
Number(FID) == Cardinality({i \in DOMAIN traces : traces[i] = FID})

First(s, FID) == CHOOSE i \in DOMAIN s : s[i] = FID /\ \A j \in 1 .. i - 1 : s[j] # FID

\* An answer of some items, each a flow, its number and when it entered the
\* dictionary: in descending order of the numbers, those with the same as they entered.
Before(a, b) == a[2] > b[2] \/ (a[2] = b[2] /\ a[3] < b[3])

Descending(items) ==
  [l \in 1 .. Cardinality(items) |->
     CHOOSE a \in items : Cardinality({b \in items : Before(b, a)}) = l - 1]

\* The flows of the trace and their packets (GroundTruth.retrieve).
retrieve == Descending({<<f, Number(f), First(traces, f)>> : f \in ToSet(traces)})

\* What the cells of all stages say of a flow.
Held(old, FID) ==
  SumFunction([c \in (1 .. stages) \X Cells |->
                 IF old[c[1]][c[2]].FID = FID THEN old[c[1]][c[2]].n ELSE 0])

RetrievePipe ==
  LET cells == [l \in 1 .. stages * cell_number |->
                  tables[(l - 1) \div cell_number + 1][(l - 1) % cell_number].FID]
  IN Descending({<<f, Held(tables, f), First(cells, f)>> : f \in ToSet(cells) \ {NoFlow}})

----------------------------------------------------------------------------
\* Count-Min, each flow of the trace added to one cell of a row.
CountMinTable(i, j) ==
  SumFunction([f \in ToSet(traces) |-> IF h(i, f) = j THEN Number(f) ELSE 0])

\* A query that never leaves the first row.
Smallest_FirstRow(FID) == CountMinTable(1, h(1, FID))

Smallest(FID) ==
  LET row[i \in 1 .. stages] ==
        LET n == CountMinTable(i, h(i, FID))
        IN IF i = 1 \/ n < row[i - 1] THEN n ELSE row[i - 1]
  IN row[stages]

\* The flows asked for are those of the answer retrieve, in its order.
Count_Min ==
  LET gt == retrieve
  IN Descending({<<gt[l][1], Smallest(gt[l][1]), l>> : l \in DOMAIN gt})

----------------------------------------------------------------------------
\* FlowRadar: a flow is new unless all its cells were of others before; the
\* flows come in the order of the answer retrieve.
RadarEmpty ==
  [bits |-> {}, cells |-> [j \in Cells |-> [fn |-> 0, pn |-> 0, FIDXOR |-> {}]]]

Change(cells, idx, df, dp, FIDs) ==
  [cells EXCEPT ![idx] = [fn |-> @.fn + df, pn |-> @.pn + dp,
                          FIDXOR |-> (@.FIDXOR \ FIDs) \cup (FIDs \ @.FIDXOR)]]

\* sum is the bits that were set when they were looked at, one after another.
RadarAdd(radar, FID, n) ==
  LET old == \A i \in 1 .. hash_number :
               h(i, FID) \in radar.bits \/ \E l \in 1 .. i - 1 : h(l, FID) = h(i, FID)
      cells[i \in 0 .. hash_number] ==
        IF i = 0 THEN radar.cells
        ELSE Change(cells[i - 1], h(i, FID), IF old THEN 0 ELSE 1, n,
                    IF old THEN {} ELSE {FID})
  IN [bits  |-> radar.bits \cup {h(i, FID) : i \in 1 .. hash_number},
      cells |-> cells[hash_number]]

Radar ==
  LET gt == retrieve
      radar[l \in 0 .. Len(gt)] ==
        IF l = 0 THEN RadarEmpty
        ELSE RadarAdd(radar[l - 1], gt[l][1], gt[l][2])
  IN radar[Len(gt)].cells

The(FIDs) == CHOOSE f \in FIDs : TRUE

\* A flow that is taken out of its first cell only.
RadarTake_First(cells, i, FIDs) == Change(cells, h(1, The(FIDs)), -1, -cells[i].pn, FIDs)

\* A cell with one flow gives it away, and it is taken out of all its cells, with
\* what the cell then says of its packets: nothing, once the cell itself is done.
RadarTake(cells, i, FIDs) ==
  LET FID == The(FIDs)
      taken[j \in 0 .. hash_number] ==
        IF j = 0 THEN cells
        ELSE Change(taken[j - 1], h(j, FID), -1, -taken[j - 1][i].pn, FIDs)
  IN taken[hash_number]

\* The cells are scanned over and over, until a scan finds none: more often than
\* there are flows it never does.
Scans == cell_number * (Len(retrieve) + 1)

Flow_Radar ==
  LET scan[n \in 0 .. Scans] ==
        IF n = 0 THEN [cells |-> Radar, ret |-> <<>>]
        ELSE LET before == scan[n - 1]
                 i      == (n - 1) % cell_number
                 cell   == before.cells[i]
             IN IF cell.fn # 1 \/ Cardinality(cell.FIDXOR) # 1 THEN before
                ELSE [cells |-> RadarTake(before.cells, i, cell.FIDXOR),
                      ret   |-> Append(before.ret, <<The(cell.FIDXOR), cell.pn>>)]
  IN scan[Scans]

----------------------------------------------------------------------------
Total(answer, FIDs) ==
  SumFunction([i \in DOMAIN answer |-> IF answer[i][1] \in FIDs THEN answer[i][2] ELSE 0])
FIDsOf(answer) == {answer[i][1] : i \in DOMAIN answer}
NumberIn(answer, FID) == Total(answer, {FID})

\* Every number of the answer a hit, if its flow is in the ground truth.
precision_and_recall_packet_number_Flows(gt, tw) ==
  LET g == SubSeq(gt, 1, Len(gt) - 1)
      t == SubSeq(tw, 1, Len(tw) - 1)
  IN [hit |-> Total(t, FIDsOf(g)), precision |-> Total(t, FIDsOf(t)),
      recall |-> Total(g, FIDsOf(g))]

\* The score of an answer against the ground truth, both without their last: hits,
\* and what they are divided by.
precision_and_recall_packet_number(gt, tw) ==
  LET g == SubSeq(gt, 1, Len(gt) - 1)
      t == SubSeq(tw, 1, Len(tw) - 1)
      Less(a, b) == IF a < b THEN a ELSE b
  IN [hit |-> SumFunction([i \in DOMAIN t |-> Less(t[i][2], NumberIn(g, t[i][1]))]),
      precision |-> Total(t, FIDsOf(t)), recall |-> Total(g, FIDsOf(g))]

----------------------------------------------------------------------------
\* hash_pipe (:811-865) never counts more packets of a flow than there are, counts
\* a flow that shares its first cell with none exactly, and has counted the last
\* packet.
PipeBelow ==
  LET answer == RetrievePipe
      seen   == ToSet(traces)
  IN \A f \in seen :
       /\ NumberIn(answer, f) <= Number(f)
       /\ (\A g \in seen \ {f} : h(1, g) # h(1, f)) => NumberIn(answer, f) = Number(f)
       /\ traces[Len(traces)] = f => NumberIn(answer, f) > 0

\* Count_Min (:723-750) never counts less of a flow than there is, and counts it
\* exactly if in one row it shares its cell with none.
CountMinAbove ==
  LET seen == ToSet(traces) IN
  \A f \in seen :
    /\ NumberIn(Count_Min, f) >= Number(f)
    /\ (\E i \in 1 .. stages : \A g \in seen \ {f} : h(i, g) # h(i, f))
         => NumberIn(Count_Min, f) = Number(f)

\* Flow_Radar (:753-808) finds flows of the trace only, each once, and its loop
\* ends: a cell with one flow left always holds the ID of that flow.  Their numbers
\* are another matter: :801-803 take none out of the cells after the one in which
\* a flow was found.
RadarReal ==
  LET decoded == Flow_Radar
  IN /\ \A j \in Cells : decoded.cells[j].fn # 1
     /\ FIDsOf(decoded.ret) \subseteq ToSet(traces)
     /\ Cardinality(FIDsOf(decoded.ret)) = Len(decoded.ret)

\* What the scores say of the answers compared (GroundTruth.py:443-547): HashPipe,
\* that never exceeds the truth, loses precision only by the flow that the ground
\* truth leaves out, and Count-Min, that never falls below it, recall only by the
\* flow that itself leaves out.
ScoresTrue ==
  LET gt == retrieve
      Kept(answer) == FIDsOf(SubSeq(answer, 1, Len(answer) - 1))
      Score(answer) == precision_and_recall_packet_number(gt, answer)
      pipe == Score(RetrievePipe)
      cm   == Score(Count_Min)
  IN traces # <<>> =>
       /\ pipe.hit <= pipe.recall
       /\ pipe.precision - pipe.hit = Total(SubSeq(RetrievePipe, 1, Len(RetrievePipe) - 1),
                                            Kept(RetrievePipe) \ Kept(gt))
       /\ cm.recall - cm.hit = Total(SubSeq(gt, 1, Len(gt) - 1),
                                     Kept(gt) \ Kept(Count_Min))
       /\ cm.hit <= cm.precision
=============================================================================
