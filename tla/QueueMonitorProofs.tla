------------------------- MODULE QueueMonitorProofs -------------------------
(***************************************************************************)
(* What is proved of QueueMonitor, for every depth of the queue, every     *)
(* width of the sequence number and any number of packets and polls: no    *)
(* step of the switch, the thread or the main loop erases a record that    *)
(* was not read, and without a mishap the filter returns the stack that    *)
(* the packets made.                                                       *)
(***************************************************************************)
EXTENDS QueueMonitor, SequenceTheorems, FiniteSetTheorems, Recursion

----------------------------------------------------------------------------
(* The inductive invariant.                                                *)

Cells   == [Depths -> Nat]
Signals == {DataQuery, SeqOverflow}
Slots   == [type : {0, DataQuery, SeqOverflow}, ts : Nat, h : Bits, s : Bits]

\* Every variable that a record passes through, or that addresses one, has its
\* type.
MonitorTypes ==
  /\ highest_bit_r \in Bits /\ second_highest_tb \in Bits
  /\ highest \in Bits /\ second_highest \in Bits
  /\ qm_r \in [Bits -> [Bits -> Cells]]
  /\ wire \in Seq(Signals)
  /\ slot \in Slots
  /\ data_signal \in Seq(Slots)
  /\ mpc \in {"loop", "toggle", "index", "read", "reset", "store"}
  /\ bank \in [h : Bits, s : Bits]
  /\ buffer \in Cells /\ data_query_buffer \in Cells /\ last \in Cells
  /\ data_query_start \in 0 .. MaxQdepth
  /\ clock \in Nat /\ packets \in Nat

\* The bank of a poll is the retired quarter from its index to its reset, the
\* buffer holds it until then and nothing before, and a query has read nothing
\* from data_query_start on: what a read overwrites was stored or is empty.
ReadInv ==
  /\ second_highest_tb = IF mpc = "toggle" THEN second_highest
                                           ELSE 1 - second_highest
  /\ mpc \in {"read", "reset"} => bank.s = second_highest
  /\ mpc = "reset" => buffer = qm_r[bank.h][bank.s]
  /\ mpc \notin {"reset", "store"} => buffer = NoCells
  /\ \A d \in Depths : d >= data_query_start => data_query_buffer[d] = NoPacket

MonitorInv == MonitorTypes /\ ReadInv /\ NoRecordLost

----------------------------------------------------------------------------
(* Types.                                                                  *)

LEMMA Empty ==
  /\ NoCells \in Cells
  /\ \A d \in Depths : NoCells[d] = NoPacket
  /\ NoSlot \in Slots /\ NoBank \in [h : Bits, s : Bits]
  /\ MaxQdepth \in Nat \ {0} /\ SeqBits \in Nat
  BY FilterAssumption
  DEF Cells, NoCells, NoPacket, Slots, NoSlot, NoBank, Bits, DataQuery,
      SeqOverflow

LEMMA BitFlip ==
  ASSUME NEW b \in Bits
  PROVE  1 - b \in Bits /\ 1 - b # b /\ 1 - (1 - b) = b
  BY DEF Bits

LEMMA InitTypes == Init => MonitorTypes
  <1> SUFFICES ASSUME Init PROVE MonitorTypes
    OBVIOUS
  <1>1. wire \in Seq(Signals) /\ data_signal \in Seq(Slots)
    BY DEF Init
  <1>2. qm_r \in [Bits -> [Bits -> Cells]]
    BY Empty DEF Init
  <1> QED
    BY <1>1, <1>2, Empty DEF Init, MonitorTypes, Bits

LEMMA PacketTypes ==
  ASSUME MonitorTypes, NEW depth \in Depths, NEW threshold \in Thresholds,
         Packet(depth, threshold)
  PROVE  MonitorTypes'
  <1>1. highest_bit_r' \in Bits /\ packets' \in Nat
    <2>1. /\ highest_bit_r' = highest_bit_r \/ highest_bit_r' = 1 - highest_bit_r
          /\ packets' = packets + 1
      BY DEF Packet
    <2> QED
      BY <2>1, BitFlip DEF MonitorTypes
  <1>2. wire' \in Seq(Signals)
    <2>1. \/ wire' = wire
          \/ wire' = Append(wire, SeqOverflow)
          \/ wire' = Append(wire, DataQuery)
      BY DEF Packet
    <2>2. wire \in Seq(Signals) /\ SeqOverflow \in Signals /\ DataQuery \in Signals
      BY DEF MonitorTypes, Signals
    <2> QED
      BY <2>1, <2>2, AppendProperties
  <1>3. qm_r' \in [Bits -> [Bits -> Cells]] /\ last' \in Cells
    <2>1. CASE depth = stack_top_r
      <3>1. UNCHANGED <<qm_r, last>>
        BY <2>1 DEF Packet
      <3> QED
        BY <3>1 DEF MonitorTypes
    <2>2. CASE depth # stack_top_r
      <3>1. /\ qm_r' = [qm_r EXCEPT
                          ![highest_bit_r'][second_highest_tb][depth] = packets']
            /\ last' = [last EXCEPT ![depth] = packets']
        BY <2>2 DEF Packet
      <3>2. second_highest_tb \in Bits /\ qm_r \in [Bits -> [Bits -> Cells]]
            /\ last \in Cells
        BY DEF MonitorTypes
      <3> QED
        BY <1>1, <3>1, <3>2 DEF Cells
    <2> QED
      BY <2>1, <2>2
  <1> QED
    BY <1>1, <1>2, <1>3 DEF MonitorTypes, Packet, shared, poll, answer

LEMMA ThreadTypes ==
  ASSUME MonitorTypes, Receive \/ FlipHighest
  PROVE  MonitorTypes'
  <1>1. CASE Receive
    <2>1. Head(wire) \in Signals /\ wire' \in Seq(Signals)
      BY <1>1, HeadTailProperties DEF MonitorTypes, Receive
    <2>2. clock' \in Nat
      <3>1. clock' = clock + 1
        BY <1>1 DEF Receive, Stamp
      <3> QED
        BY <3>1 DEF MonitorTypes
    <2>3. slot' \in Slots
      BY <1>1, <2>1, <2>2 DEF Receive, Signals, Slots, NoSlot, Bits
    <2> QED
      BY <1>1, <2>1, <2>2, <2>3 DEF MonitorTypes, Receive, poll, answer, past
  <1>2. CASE FlipHighest
    <2>1. highest' \in Bits /\ 1 - second_highest \in Bits
      BY <1>2, BitFlip DEF MonitorTypes, FlipHighest
    <2>2. [slot EXCEPT !.h = highest, !.s = 1 - second_highest] \in Slots
      BY <2>1 DEF MonitorTypes, Slots
    <2>3. data_signal' \in Seq(Slots)
      BY <1>2, <2>2, AppendProperties DEF MonitorTypes, FlipHighest
    <2>4. slot' \in Slots
      BY <1>2, Empty DEF FlipHighest
    <2> QED
      BY <1>2, <2>1, <2>3, <2>4
      DEF MonitorTypes, FlipHighest, switch, poll, answer, past
  <1> QED
    BY <1>1, <1>2

LEMMA PollTypes ==
  ASSUME MonitorTypes,
         \/ SetSecondHighest \/ ToggleSecondHighest \/ ComputeIndex
         \/ ReadRegisters \/ ResetRegisters \/ StorePoll
  PROVE  MonitorTypes'
  <1>1. CASE SetSecondHighest
    <2>1. clock' = clock + 1 /\ mpc' = "toggle" /\ second_highest_tb' = second_highest
      BY <1>1 DEF SetSecondHighest, Stamp
    <2>2. UNCHANGED <<highest_bit_r, qm_r, wire, slot, shared, bank, buffer,
                      answer, packets, last>>
      BY <1>1 DEF SetSecondHighest
    <2> QED
      BY <2>1, <2>2 DEF MonitorTypes, shared, answer
  <1>2. CASE ToggleSecondHighest
    BY <1>2, BitFlip DEF MonitorTypes, ToggleSecondHighest, switch, answer, past
  <1>3. CASE ComputeIndex
    BY <1>3 DEF MonitorTypes, ComputeIndex, switch, shared, answer, past
  <1>4. CASE ReadRegisters
    BY <1>4 DEF MonitorTypes, ReadRegisters, switch, shared, answer, past
  <1>5. CASE ResetRegisters
    <2>1. qm_r' \in [Bits -> [Bits -> Cells]]
      BY <1>5, Empty DEF MonitorTypes, ResetRegisters
    <2> QED
      BY <1>5, <2>1, Empty DEF MonitorTypes, ResetRegisters, shared, answer, past
  <1>6. CASE StorePoll
    BY <1>6, Empty DEF MonitorTypes, StorePoll, switch, answer, past
  <1> QED
    BY <1>1, <1>2, <1>3, <1>4, <1>5, <1>6

LEMMA QueryTypes ==
  ASSUME MonitorTypes,
         (\E n \in 1 .. MaxQdepth : ReadChunk(n)) \/ StoreQuery
  PROVE  MonitorTypes'
  <1>1. data_signal # <<>> => Head(data_signal) \in Slots
    BY HeadTailProperties DEF MonitorTypes
  <1>2. ASSUME NEW n \in 1 .. MaxQdepth, ReadChunk(n)
        PROVE  MonitorTypes'
    <2> DEFINE q == Head(data_signal)
               chunk == data_query_start .. data_query_start + n - 1
    <2>1. q.h \in Bits /\ q.s \in Bits
      BY <1>1, <1>2 DEF ReadChunk, Slots
    <2>2. data_query_start' \in 0 .. MaxQdepth
      <3>1. /\ data_query_start' = data_query_start + n
            /\ n <= MaxQdepth - data_query_start
        BY <1>2 DEF ReadChunk
      <3> QED
        BY <3>1, Empty DEF MonitorTypes
    <2>3. qm_r[q.h][q.s] \in Cells
      BY <2>1 DEF MonitorTypes
    <2>4. data_query_buffer' \in Cells
      BY <1>2, <2>3 DEF MonitorTypes, ReadChunk, Cells
    <2>5. qm_r' \in [Bits -> [Bits -> Cells]]
      <3>1. [d \in Depths |-> IF d \in chunk THEN NoPacket
                                ELSE qm_r[q.h][q.s][d]] \in Cells
        BY <2>3 DEF Cells, NoPacket
      <3> QED
        BY <1>2, <2>1, <3>1 DEF MonitorTypes, ReadChunk
    <2> QED
      BY <1>2, <2>2, <2>4, <2>5 DEF MonitorTypes, ReadChunk, shared, poll, past
  <1>3. CASE StoreQuery
    <2>1. data_signal' \in Seq(Slots)
      BY <1>3, HeadTailProperties DEF MonitorTypes, StoreQuery
    <2>2. data_query_start' = 0 /\ data_query_buffer' = NoCells
      BY <1>3 DEF StoreQuery
    <2>3. data_query_start' \in 0 .. MaxQdepth
      BY <2>2, Empty
    <2> QED
      BY <1>3, <2>1, <2>2, <2>3, Empty DEF MonitorTypes, StoreQuery, poll, past
  <1> QED
    BY <1>2, <1>3

LEMMA NextTypes == MonitorTypes /\ [Next]_vars => MonitorTypes'
  <1>1. MonitorTypes /\ UNCHANGED vars => MonitorTypes'
    BY DEF MonitorTypes, vars, switch, shared, poll, answer, past
  <1> QED
    BY <1>1, PacketTypes, ThreadTypes, PollTypes, QueryTypes DEF Next

THEOREM MonitorTyped == Spec => []MonitorTypes
  BY InitTypes, NextTypes, PTL DEF Spec

----------------------------------------------------------------------------
(* Reads.                                                                  *)

LEMMA InitRead == Init => ReadInv
  BY Empty DEF Init, ReadInv

\* A packet is recorded in the quarter that no poll reads.
LEMMA PacketRead ==
  ASSUME MonitorTypes, ReadInv, NEW depth \in Depths,
         NEW threshold \in Thresholds, Packet(depth, threshold)
  PROVE  ReadInv'
  <1>1. /\ UNCHANGED <<second_highest_tb, second_highest, mpc, bank, buffer,
                       data_query_start, data_query_buffer>>
        /\ \/ qm_r' = qm_r
           \/ \E half \in Bits :
                qm_r' = [qm_r EXCEPT
                           ![half][second_highest_tb][depth] = packets']
    <2>1. highest_bit_r' \in Bits
      BY PacketTypes DEF MonitorTypes
    <2>2. UNCHANGED <<second_highest_tb, second_highest, mpc, bank, buffer,
                      data_query_start, data_query_buffer>>
      BY DEF Packet, shared, poll, answer
    <2>3. \/ qm_r' = qm_r
          \/ qm_r' = [qm_r EXCEPT
                        ![highest_bit_r'][second_highest_tb][depth] = packets']
      BY DEF Packet
    <2> QED
      BY <2>1, <2>2, <2>3
  <1>2. ASSUME mpc = "reset"
        PROVE  qm_r'[bank.h][bank.s] = qm_r[bank.h][bank.s]
    <2>1. bank.h \in Bits /\ bank.s \in Bits /\ bank.s # second_highest_tb
      BY <1>2, BitFlip DEF MonitorTypes, ReadInv
    <2> QED
      BY <1>1, <2>1 DEF MonitorTypes
  <1> QED
    BY <1>1, <1>2 DEF ReadInv

LEMMA PollRead ==
  ASSUME MonitorTypes, ReadInv,
         \/ SetSecondHighest \/ ToggleSecondHighest \/ ComputeIndex
         \/ ReadRegisters \/ ResetRegisters \/ StorePoll
  PROVE  ReadInv'
  <1>1. CASE SetSecondHighest
    <2>1. /\ second_highest_tb' = second_highest
          /\ mpc = "loop" /\ mpc' = "toggle"
          /\ UNCHANGED <<qm_r, second_highest, bank, buffer, data_query_start,
                         data_query_buffer>>
      BY <1>1 DEF SetSecondHighest, shared, answer
    <2> QED
      BY <2>1 DEF ReadInv
  <1>2. CASE ToggleSecondHighest
    <2>1. /\ second_highest' = 1 - second_highest
          /\ mpc = "toggle" /\ mpc' = "index"
          /\ UNCHANGED <<qm_r, second_highest_tb, bank, buffer, data_query_start,
                         data_query_buffer>>
      BY <1>2 DEF ToggleSecondHighest, switch, answer
    <2>2. second_highest_tb' = 1 - second_highest'
      BY <2>1, BitFlip DEF ReadInv, MonitorTypes
    <2> QED
      BY <2>1, <2>2 DEF ReadInv
  <1>3. CASE ComputeIndex
    BY <1>3 DEF ReadInv, ComputeIndex, switch, shared, answer
  <1>4. CASE ReadRegisters
    BY <1>4 DEF ReadInv, ReadRegisters, switch, shared, answer
  <1>5. CASE ResetRegisters
    <2>1. /\ mpc = "reset" /\ mpc' = "store"
          /\ UNCHANGED <<second_highest_tb, second_highest, buffer,
                         data_query_start, data_query_buffer>>
      BY <1>5 DEF ResetRegisters, shared, answer
    <2> QED
      BY <2>1 DEF ReadInv
  <1>6. CASE StorePoll
    BY <1>6 DEF ReadInv, StorePoll, switch, answer
  <1> QED
    BY <1>1, <1>2, <1>3, <1>4, <1>5, <1>6

LEMMA QueryRead ==
  ASSUME MonitorTypes, ReadInv,
         (\E n \in 1 .. MaxQdepth : ReadChunk(n)) \/ StoreQuery
  PROVE  ReadInv'
  <1>1. ASSUME NEW n \in 1 .. MaxQdepth, ReadChunk(n)
        PROVE  ReadInv'
    <2>1. /\ mpc = "loop"
          /\ data_query_start' = data_query_start + n
          /\ UNCHANGED <<second_highest_tb, second_highest, mpc, bank, buffer>>
      BY <1>1 DEF ReadChunk, shared, poll
    <2>2. ASSUME NEW d \in Depths, d >= data_query_start'
          PROVE  data_query_buffer'[d] = NoPacket
      <3>1. d \in Nat /\ data_query_start \in Nat
        BY <2>2, Empty DEF Depths, MonitorTypes
      <3>2. d >= data_query_start
            /\ d \notin data_query_start .. data_query_start + n - 1
        BY <2>1, <2>2, <3>1
      <3>3. data_query_buffer'[d] = data_query_buffer[d]
        BY <1>1, <3>2 DEF ReadChunk
      <3> QED
        BY <3>2, <3>3 DEF ReadInv
    <2> QED
      BY <2>1, <2>2 DEF ReadInv
  <1>2. CASE StoreQuery
    <2>1. /\ mpc = "loop" /\ data_query_buffer' = NoCells
          /\ UNCHANGED <<second_highest_tb, second_highest, mpc, bank, buffer>>
      BY <1>2 DEF StoreQuery, poll
    <2> QED
      BY <2>1, Empty DEF ReadInv
  <1> QED
    BY <1>1, <1>2

LEMMA NextRead == MonitorTypes /\ ReadInv /\ [Next]_vars => ReadInv'
  <1>1. ASSUME ReadInv, Receive \/ FlipHighest \/ UNCHANGED vars
        PROVE  ReadInv'
    <2>1. UNCHANGED <<qm_r, second_highest_tb, second_highest, mpc, bank, buffer,
                      data_query_start, data_query_buffer>>
      BY <1>1 DEF Receive, FlipHighest, vars, switch, shared, poll, answer
    <2> QED
      BY <1>1, <2>1 DEF ReadInv
  <1> QED
    BY <1>1, PacketRead, PollRead, QueryRead DEF Next

----------------------------------------------------------------------------
(* Records.                                                                *)

\* A record stays where it is unless its bank, its buffer or the whole files
\* change.
LEMMA StaysRecorded ==
  ASSUME NEW d \in Depths, Recorded(d),
         UNCHANGED <<qm_r, last, buffer, data_query_buffer, files>>
  PROVE  Recorded(d)'
  BY DEF Recorded

LEMMA PacketRecord ==
  ASSUME MonitorTypes, MonitorTypes', NoRecordLost, NEW depth \in Depths,
         NEW threshold \in Thresholds, Packet(depth, threshold)
  PROVE  NoRecordLost'
  <1>1. UNCHANGED <<second_highest_tb, buffer, data_query_buffer, files>>
    BY DEF Packet, poll, answer
  <1>2. CASE depth = stack_top_r
    <2>1. UNCHANGED <<qm_r, last>>
      BY <1>2 DEF Packet
    <2> QED
      BY <1>1, <2>1, StaysRecorded DEF NoRecordLost
  <1>3. CASE depth # stack_top_r
    <2> DEFINE h1 == highest_bit_r'
               s1 == second_highest_tb
    <2>1. /\ qm_r' = [qm_r EXCEPT ![h1][s1][depth] = packets']
          /\ last' = [last EXCEPT ![depth] = packets']
      BY <1>3 DEF Packet
    <2>2. h1 \in Bits /\ s1 \in Bits /\ last \in Cells
          /\ qm_r \in [Bits -> [Bits -> Cells]]
      BY DEF MonitorTypes
    <2>3. qm_r'[h1][s1][depth] = last'[depth]
      BY <2>1, <2>2 DEF Cells
    <2>4. Recorded(depth)'
      BY <2>2, <2>3 DEF Recorded
    <2>5. ASSUME NEW d \in Depths, d # depth, last'[d] # NoPacket
          PROVE  Recorded(d)'
      <3>1. last'[d] = last[d]
        BY <2>1, <2>2, <2>5 DEF Cells
      <3>2. \A h \in Bits, s \in Bits : qm_r'[h][s][d] = qm_r[h][s][d]
        BY <2>1, <2>2, <2>5 DEF Cells
      <3>3. Recorded(d)
        BY <2>5, <3>1 DEF NoRecordLost
      <3> QED
        BY <1>1, <3>1, <3>2, <3>3 DEF Recorded
    <2> QED
      BY <2>4, <2>5 DEF NoRecordLost
  <1> QED
    BY <1>2, <1>3

\* What a poll reads stays in its buffer until it is in a file.
LEMMA PollRecord ==
  ASSUME MonitorTypes, ReadInv, NoRecordLost,
         \/ SetSecondHighest \/ ToggleSecondHighest \/ ComputeIndex
         \/ ReadRegisters \/ ResetRegisters \/ StorePoll
  PROVE  NoRecordLost'
  <1>1. CASE SetSecondHighest \/ ToggleSecondHighest \/ ComputeIndex
    <2>1. UNCHANGED <<qm_r, last, buffer, data_query_buffer, files>>
      BY <1>1 DEF SetSecondHighest, ToggleSecondHighest, ComputeIndex, switch,
                  answer, past
    <2> QED
      BY <2>1, StaysRecorded DEF NoRecordLost
  <1>2. CASE ReadRegisters
    <2>1. UNCHANGED <<qm_r, last, data_query_buffer, files>> /\ mpc = "read"
      BY <1>2 DEF ReadRegisters, switch, answer, past
    <2>2. \A d \in Depths : buffer[d] = NoPacket
      BY <2>1, Empty DEF ReadInv
    <2> QED
      BY <2>1, <2>2 DEF NoRecordLost, Recorded
  <1>3. CASE ResetRegisters
    <2>1. /\ qm_r' = [qm_r EXCEPT ![bank.h][bank.s] = NoCells]
          /\ buffer = qm_r[bank.h][bank.s]
          /\ UNCHANGED <<last, buffer, data_query_buffer, files>>
      BY <1>3 DEF ResetRegisters, ReadInv, answer, past
    <2>2. ASSUME NEW d \in Depths, NEW h \in Bits, NEW s \in Bits
          PROVE  qm_r'[h][s][d] = qm_r[h][s][d] \/ buffer[d] = qm_r[h][s][d]
      <3>1. bank.h \in Bits /\ bank.s \in Bits
            /\ qm_r \in [Bits -> [Bits -> Cells]]
        BY DEF MonitorTypes
      <3>2. CASE h = bank.h /\ s = bank.s
        BY <2>1, <3>2
      <3>3. CASE h # bank.h \/ s # bank.s
        BY <2>1, <3>1, <3>3
      <3> QED
        BY <3>2, <3>3
    <2> QED
      BY <2>1, <2>2 DEF NoRecordLost, Recorded
  <1>4. CASE StorePoll
    <2>1. /\ files' = files \cup {File(poll_ts, wrap, buffer, TRUE)}
          /\ buffer' = NoCells
          /\ UNCHANGED <<qm_r, last, data_query_buffer>>
      BY <1>4 DEF StorePoll, switch, answer, past
    <2>2. File(poll_ts, wrap, buffer, TRUE).qm = buffer
      BY DEF File
    <2> QED
      BY <2>1, <2>2 DEF NoRecordLost, Recorded
  <1> QED
    BY <1>1, <1>2, <1>3, <1>4

\* What a query reads stays in its buffer, chunk after chunk, until it is in a
\* file.
LEMMA QueryRecord ==
  ASSUME MonitorTypes, ReadInv, NoRecordLost,
         (\E n \in 1 .. MaxQdepth : ReadChunk(n)) \/ StoreQuery
  PROVE  NoRecordLost'
  <1>1. ASSUME NEW n \in 1 .. MaxQdepth, ReadChunk(n)
        PROVE  NoRecordLost'
    <2> DEFINE q == Head(data_signal)
               chunk == data_query_start .. data_query_start + n - 1
               rest == [d \in Depths |-> IF d \in chunk THEN NoPacket
                                         ELSE qm_r[q.h][q.s][d]]
    <2>1. /\ data_query_buffer' =
               [d \in Depths |-> IF d \in chunk THEN qm_r[q.h][q.s][d]
                                                ELSE data_query_buffer[d]]
          /\ qm_r' = [qm_r EXCEPT ![q.h][q.s] = rest]
          /\ UNCHANGED <<last, buffer, files>>
      BY <1>1 DEF ReadChunk, poll, past
    <2>2. q.h \in Bits /\ q.s \in Bits /\ qm_r \in [Bits -> [Bits -> Cells]]
      <3>1. q \in Slots
        BY <1>1, HeadTailProperties DEF ReadChunk, MonitorTypes
      <3> QED
        BY <3>1 DEF MonitorTypes, Slots
    <2>3. ASSUME NEW d \in Depths, d \in chunk
          PROVE  /\ data_query_buffer[d] = NoPacket
                 /\ data_query_buffer'[d] = qm_r[q.h][q.s][d]
                 /\ \A h \in Bits, s \in Bits :
                      (h = q.h /\ s = q.s) \/ qm_r'[h][s][d] = qm_r[h][s][d]
      <3>1. d \in Nat /\ d >= data_query_start
        BY <2>3, Empty DEF Depths, MonitorTypes
      <3>2. data_query_buffer[d] = NoPacket
        BY <3>1 DEF ReadInv
      <3> HIDE DEF rest
      <3> QED
        BY <2>1, <2>2, <2>3, <3>2
    <2>4. ASSUME NEW d \in Depths, d \notin chunk
          PROVE  /\ data_query_buffer'[d] = data_query_buffer[d]
                 /\ \A h \in Bits, s \in Bits : qm_r'[h][s][d] = qm_r[h][s][d]
      <3>1. rest[d] = qm_r[q.h][q.s][d]
        BY <2>4
      <3> HIDE DEF rest
      <3> QED
        BY <2>1, <2>2, <2>4, <3>1
    <2>5. ASSUME NEW d \in Depths, last[d] # NoPacket
          PROVE  Recorded(d)'
      <3> HIDE DEF q, chunk, rest
      <3>1. Recorded(d)
        BY <2>5 DEF NoRecordLost
      <3>2. CASE d \in chunk
        BY <2>1, <2>3, <2>5, <3>1, <3>2 DEF Recorded
      <3>3. CASE d \notin chunk
        BY <2>1, <2>4, <3>1, <3>3 DEF Recorded
      <3> QED
        BY <3>2, <3>3
    <2> QED
      BY <2>1, <2>5 DEF NoRecordLost
  <1>2. CASE StoreQuery
    <2> DEFINE f == File(Head(data_signal).ts, FALSE, data_query_buffer, FALSE)
    <2>1. /\ files' = files \cup {f}
          /\ UNCHANGED <<qm_r, last, buffer>>
      BY <1>2 DEF StoreQuery, poll, past
    <2>2. f.qm = data_query_buffer
      BY DEF File
    <2> HIDE DEF f
    <2> QED
      BY <2>1, <2>2 DEF NoRecordLost, Recorded
  <1> QED
    BY <1>1, <1>2

LEMMA NextRecord ==
  MonitorTypes /\ MonitorTypes' /\ ReadInv /\ NoRecordLost /\ [Next]_vars
    => NoRecordLost'
  <1>1. ASSUME NoRecordLost, Receive \/ FlipHighest \/ UNCHANGED vars
        PROVE  NoRecordLost'
    <2>1. UNCHANGED <<qm_r, last, buffer, data_query_buffer, files>>
      BY <1>1 DEF Receive, FlipHighest, vars, switch, poll, answer, past
    <2> QED
      BY <1>1, <2>1, StaysRecorded DEF NoRecordLost
  <1> QED
    BY <1>1, PacketRecord, PollRecord, QueryRecord DEF Next

----------------------------------------------------------------------------
(* Theorems.                                                               *)

\* A poll resets what it has read and nothing else, although packets go on
\* between the two, and a query overwrites no cell of its buffer that it read.
THEOREM ReadsSafe == Spec => []ReadInv
  BY InitTypes, NextTypes, InitRead, NextRead, PTL DEF Spec

\* The last packet that changed the queue to a depth is never lost: reset
\* registers were read, whatever the order of polls, queries, signals and
\* packets, for any depth of the queue.
THEOREM RecordsSafe == Spec => []NoRecordLost
  <1>1. Init => NoRecordLost
    BY Empty DEF Init, NoRecordLost
  <1> QED
    BY <1>1, MonitorTyped, ReadsSafe, NextRecord, PTL DEF Spec

----------------------------------------------------------------------------
(* The pieces.                                                             *)

\* A signal is on its way or being put into the ring.
Signalled == wire # <<>> \/ slot # NoSlot

\* The cells packets are recorded in, and those they were until the signal.
Current == qm_r[highest_bit_r][second_highest_tb]
Frozen  == qm_r[1 - highest_bit_r][second_highest_tb]

\* The cells of the query being answered, what was read of them and what was not.
Asked == Head(data_signal)
AskedCells ==
  [d \in Depths |-> IF d < data_query_start THEN data_query_buffer[d]
                                            ELSE qm_r[Asked.h][Asked.s][d]]

\* The cells of the poll, wherever they are.
Polling == mpc # "loop"
PollBank ==
  IF mpc \in {"toggle", "index"} THEN [h |-> highest, s |-> 1 - second_highest_tb]
                                 ELSE bank
PolledCells ==
  IF mpc \in {"reset", "store"} THEN buffer ELSE qm_r[PollBank.h][PollBank.s]

\* What is no longer recorded in: the files there are and those there will be, by
\* their time stamps.  A signal on its way is received before anything else is
\* stamped, without a mishap.
Piece(ts, qm) == [ts |-> ts, qm |-> qm]
FilePieces  == {Piece(f.ts, f.qm) : f \in files}
AskedPieces == IF data_signal = <<>> THEN {} ELSE {Piece(Asked.ts, AskedCells)}
PollPieces  == IF Polling THEN {Piece(poll_ts, PolledCells)} ELSE {}
WirePieces  == IF wire = <<>> THEN {} ELSE {Piece(clock + 1, Frozen)}
SlotPieces  == IF slot = NoSlot THEN {} ELSE {Piece(slot.ts, Frozen)}
Pieces == FilePieces \cup AskedPieces \cup PollPieces \cup WirePieces \cup SlotPieces

Single(s) == s = <<>> \/ s = <<Head(s)>>

\* A locked port has one signal at most, and the half of a query is not recorded
\* in until it is answered.
SignalInv ==
  /\ data_query_lock_r = 0 => ~Signalled /\ data_signal = <<>>
  /\ Single(wire) /\ Single(data_signal)
  /\ wire # <<>> => slot = NoSlot
  /\ Signalled => data_signal = <<>>
  /\ highest = IF Signalled THEN 1 - highest_bit_r ELSE highest_bit_r
  /\ data_signal = <<>> => data_query_start = 0

AskedInv ==
  data_signal # <<>> =>
    /\ Asked.h = 1 - highest_bit_r
    /\ mpc \in {"read", "reset"} => bank.h # Asked.h \/ bank.s # Asked.s
    /\ \A d \in Depths :
         d < data_query_start => qm_r[Asked.h][Asked.s][d] = NoPacket

\* Banks that are in none of these uses are empty.
InUse(h, s) ==
  \/ h = highest_bit_r /\ s = second_highest_tb
  \/ Signalled /\ h = 1 - highest_bit_r /\ s = second_highest_tb
  \/ data_signal # <<>> /\ h = Asked.h /\ s = Asked.s
  \/ /\ mpc \in {"toggle", "index", "read", "reset"}
     /\ h = PollBank.h /\ s = PollBank.s
CleanInv == \A h \in Bits, s \in Bits : InUse(h, s) \/ qm_r[h][s] = NoCells

\* Time stamps differ and were given.
StampInv ==
  /\ \A f \in files : f.ts <= clock /\ f.qm # NoCells
  /\ \A f, g \in files : f.ts = g.ts => f = g
  /\ Polling => poll_ts <= clock /\ \A f \in files : f.ts < poll_ts
  /\ data_signal # <<>> => Asked.ts <= clock /\ \A f \in files : f.ts # Asked.ts
  /\ data_signal # <<>> /\ Polling => Asked.ts # poll_ts
  /\ slot # NoSlot => /\ slot.ts <= clock
                      /\ Polling => poll_ts < slot.ts
                      /\ \A f \in files : f.ts < slot.ts

\* A piece is older than what is recorded, and of two pieces one is.
Ordered(P, cells) ==
  /\ \A u, v \in P : u.ts = v.ts => u = v
  /\ \A u, v \in P, d, e \in Depths :
       u.ts < v.ts /\ v.qm[e] # NoPacket => u.qm[d] < v.qm[e]
  /\ \A u \in P, d, e \in Depths : cells[e] # NoPacket => u.qm[d] < cells[e]
OrderInv == Ordered(Pieces, Current)

\* The last packets of all depths, by what was recorded in S.
Newest(m, S) ==
  \A d \in Depths : /\ \A cells \in S : cells[d] <= m[d]
                    /\ m[d] # NoPacket => \E cells \in S : cells[d] = m[d]
CellsOf(P) == {u.qm : u \in P}
LastInv ==
  /\ Newest(last, CellsOf(Pieces) \cup {Current})
  /\ \A d \in Depths : last[d] <= packets

\* The overflows that count for a file of that time stamp.
OverflowFiles(t) == {f \in files : f.overflow /\ f.ts <= t}
WrapFrom  == IF Polling THEN poll_ts ELSE clock + 1
Before(t) == Cardinality(OverflowFiles(t)) + (IF wrap /\ WrapFrom <= t THEN 1 ELSE 0)

\* They are the multiples of the sequence numbers that came before its records.
SeqOf(cells, n) ==
  \A d \in Depths : cells[d] # NoPacket => cells[d] \div 2^SeqBits = n
WrapInv ==
  /\ seq_num_r = packets % 2^SeqBits
  /\ \A u \in Pieces : SeqOf(u.qm, Before(u.ts))
  /\ SeqOf(Current, packets \div 2^SeqBits)
  /\ packets \div 2^SeqBits =
       Before(clock + 1) + (IF wire = <<SeqOverflow>> THEN 1 ELSE 0)

\* The stack of the last poll is that of the pieces until then.
LastPoll(t) ==
  IF Polling THEN t = poll_ts
  ELSE \E f \in files : /\ f.poll /\ f.ts = t
                        /\ \A g \in files : g.poll => g.ts <= t
Latest(S) ==
  [d \in Depths |-> CHOOSE p \in {cells[d] : cells \in S} \cup {NoPacket} :
                      \A cells \in S : cells[d] <= p]
Until(P, t) == {u \in P : u.ts <= t}
StackInv ==
  \A t \in 0 .. clock :
    LastPoll(t) => stack = Stack(Latest(CellsOf(Until(Pieces, t))))

PiecesInv ==
  mishap = "none" =>
    /\ SignalInv /\ AskedInv /\ CleanInv /\ StampInv
    /\ OrderInv /\ LastInv /\ WrapInv /\ StackInv

FileTypes ==
  /\ files \subseteq [ts : Nat, overflow : BOOLEAN, qm : Cells, poll : BOOLEAN]
  /\ IsFiniteSet(files)
  /\ wrap \in BOOLEAN /\ poll_ts \in Nat

StackTypes == MonitorTypes /\ ReadInv /\ FileTypes

----------------------------------------------------------------------------
(* What the steps do when nothing goes amiss.                              *)

LEMMA One ==
  ASSUME NEW x
  PROVE  /\ Append(<<>>, x) = <<x>> /\ Head(<<x>>) = x /\ Tail(<<x>>) = <<>>
         /\ <<x>> # <<>> /\ Single(<<x>>) /\ Single(<<>>)
  BY DEF Single

LEMMA PacketDoes ==
  ASSUME mishap' = "none", NEW depth \in Depths, NEW threshold \in Thresholds,
         Packet(depth, threshold)
  PROVE  /\ mishap = "none"
         /\ packets' = packets + 1
         /\ seq_num_r' = (seq_num_r + 1) % 2^SeqBits
         /\ UNCHANGED <<second_highest_tb, slot, highest, second_highest,
                        data_signal, wrap, mpc, bank, buffer, poll_ts,
                        data_query_start, data_query_buffer, files, clock, stack>>
         /\ \/ /\ UNCHANGED <<highest_bit_r, wire>>
               /\ data_query_lock_r' = 0 => data_query_lock_r = 0
               /\ seq_num_r' # 0
            \/ /\ data_query_lock_r = 0 /\ data_query_lock_r' # 0
               /\ highest_bit_r' = 1 - highest_bit_r
               /\ \/ wire' = Append(wire, SeqOverflow) /\ seq_num_r' = 0
                  \/ wire' = Append(wire, DataQuery) /\ seq_num_r' # 0
         /\ \/ UNCHANGED <<qm_r, last>>
            \/ /\ qm_r' = [qm_r EXCEPT
                             ![highest_bit_r'][second_highest_tb][depth] = packets']
               /\ last' = [last EXCEPT ![depth] = packets']
  BY DEF Packet, Mishap, shared, poll, answer

LEMMA ReceiveDoes ==
  ASSUME mishap' = "none", Receive
  PROVE  /\ mishap = "none"
         /\ slot = NoSlot /\ wire # <<>> /\ wire' = Tail(wire)
         /\ clock' = clock + 1
         /\ slot' = [NoSlot EXCEPT !.type = Head(wire), !.ts = clock']
         /\ ~wrap /\ (wrap' <=> Head(wire) = SeqOverflow)
         /\ Head(wire) = SeqOverflow => mpc = "loop"
         /\ UNCHANGED <<data_query_lock_r, highest_bit_r, second_highest_tb, qm_r,
                        seq_num_r, highest, second_highest, data_signal, mpc, bank,
                        buffer, poll_ts, data_query_start, data_query_buffer,
                        files, packets, last, stack>>
  BY DEF Receive, Mishap, Stamp, poll, answer, past

LEMMA FlipHighestDoes ==
  ASSUME mishap' = "none", FlipHighest
  PROVE  /\ mishap = "none"
         /\ slot # NoSlot /\ slot' = NoSlot
         /\ data_signal' = Append(data_signal, [slot EXCEPT !.h = highest,
                                                  !.s = 1 - second_highest])
         /\ highest' = 1 - highest
         /\ mpc \notin {"toggle", "index"}
         /\ UNCHANGED <<data_query_lock_r, highest_bit_r, second_highest_tb, qm_r,
                        seq_num_r, wire, second_highest, wrap, mpc, bank, buffer,
                        poll_ts, data_query_start, data_query_buffer, files, clock,
                        packets, last, stack>>
  BY DEF FlipHighest, Mishap, switch, poll, answer, past

LEMMA SetSecondHighestDoes ==
  ASSUME mishap' = "none", SetSecondHighest
  PROVE  /\ mishap = "none"
         /\ ~Signalled
         /\ second_highest_tb' = second_highest
         /\ clock' = clock + 1 /\ poll_ts' = clock'
         /\ mpc = "loop" /\ mpc' = "toggle"
         /\ stack' = Stack(last)
         /\ UNCHANGED <<data_query_lock_r, highest_bit_r, qm_r, seq_num_r, wire,
                        slot, highest, second_highest, data_signal, wrap, bank,
                        buffer, data_query_start, data_query_buffer, files,
                        packets, last>>
  BY DEF SetSecondHighest, Mishap, Stamp, Signalled, shared, answer

\* The steps of a poll after its first, until it is stored.
PollStep == ToggleSecondHighest \/ ComputeIndex \/ ReadRegisters \/ ResetRegisters

LEMMA PollStepDoes ==
  ASSUME mishap' = "none", PollStep
  PROVE  /\ mishap = "none"
         /\ mpc # "loop" /\ mpc' # "loop" /\ mpc' # "toggle"
         /\ UNCHANGED <<data_query_lock_r, highest_bit_r, second_highest_tb,
                        seq_num_r, wire, slot, highest, data_signal, wrap, poll_ts,
                        data_query_start, data_query_buffer, files, clock, packets,
                        last, stack>>
         /\ ~ResetRegisters => UNCHANGED qm_r
  BY DEF PollStep, ToggleSecondHighest, ComputeIndex, ReadRegisters,
         ResetRegisters, switch, shared, answer, past

LEMMA StorePollDoes ==
  ASSUME mishap' = "none", StorePoll
  PROVE  /\ mishap = "none"
         /\ mpc = "store" /\ mpc' = "loop"
         /\ files' = files \cup {File(poll_ts, wrap, buffer, TRUE)}
         /\ buffer # NoCells
         /\ ~wrap'
         /\ UNCHANGED <<data_query_lock_r, highest_bit_r, second_highest_tb, qm_r,
                        seq_num_r, wire, slot, highest, second_highest, data_signal,
                        bank, data_query_start, data_query_buffer, clock, packets,
                        last, stack>>
  BY DEF StorePoll, Mishap, switch, answer, past

LEMMA ReadChunkDoes ==
  ASSUME mishap' = "none", NEW n \in 1 .. MaxQdepth, ReadChunk(n)
  PROVE  /\ mishap = "none"
         /\ mpc = "loop" /\ data_signal # <<>>
         /\ data_query_start' = data_query_start + n
         /\ UNCHANGED <<data_query_lock_r, highest_bit_r, second_highest_tb,
                        seq_num_r, wire, slot, highest, second_highest, data_signal,
                        wrap, mpc, bank, buffer, poll_ts, files, clock, packets,
                        last, stack>>
  BY DEF ReadChunk, shared, poll, past

LEMMA StoreQueryDoes ==
  ASSUME mishap' = "none", StoreQuery
  PROVE  /\ mishap = "none"
         /\ mpc = "loop" /\ data_signal # <<>> /\ data_signal' = Tail(data_signal)
         /\ data_query_start = MaxQdepth /\ data_query_start' = 0
         /\ files' = files \cup {File(Asked.ts, FALSE, data_query_buffer, FALSE)}
         /\ data_query_buffer # NoCells
         /\ UNCHANGED <<highest_bit_r, second_highest_tb, qm_r, seq_num_r, wire,
                        slot, highest, second_highest, wrap, mpc, bank, buffer,
                        poll_ts, clock, packets, last, stack>>
  BY DEF StoreQuery, Mishap, Asked, poll, past

----------------------------------------------------------------------------
(* Types.                                                                  *)

LEMMA InitFileTypes == Init => FileTypes
  <1>1. IsFiniteSet({})
    BY FS_EmptySet
  <1>2. {} \subseteq [ts : Nat, overflow : BOOLEAN, qm : Cells, poll : BOOLEAN]
    OBVIOUS
  <1>3. SUFFICES ASSUME Init PROVE FileTypes
    OBVIOUS
  <1>4. files = {} /\ wrap = FALSE /\ poll_ts = 0
    BY <1>3 DEF Init
  <1>5. wrap \in BOOLEAN /\ poll_ts \in Nat
    BY <1>4
  <1> QED
    BY <1>1, <1>2, <1>4, <1>5 DEF FileTypes

LEMMA AddedFile ==
  ASSUME FileTypes, NEW f \in [ts : Nat, overflow : BOOLEAN, qm : Cells,
                                poll : BOOLEAN],
         files' = files \cup {f}, wrap' \in BOOLEAN, poll_ts' \in Nat
  PROVE  FileTypes'
  <1>1. IsFiniteSet(files \cup {f})
    BY FS_AddElement DEF FileTypes
  <1> QED
    BY <1>1 DEF FileTypes

LEMMA NextFileTypes ==
  ASSUME MonitorTypes, FileTypes, [Next]_vars
  PROVE  FileTypes'
  <1>1. CASE Receive
    <2>1. wrap' = (wrap \/ Head(wire) = SeqOverflow) /\ UNCHANGED <<files, poll_ts>>
      BY <1>1 DEF Receive, poll
    <2> QED
      BY <2>1 DEF FileTypes
  <1>2. CASE SetSecondHighest
    <2>1. poll_ts' = clock + 1 /\ UNCHANGED <<files, wrap>>
      BY <1>2 DEF SetSecondHighest, Stamp, shared
    <2>2. poll_ts' \in Nat
      BY <2>1 DEF MonitorTypes
    <2> QED
      BY <2>1, <2>2 DEF FileTypes
  <1>3. CASE StorePoll
    <2>1. /\ files' = files \cup {File(poll_ts, wrap, buffer, TRUE)}
          /\ wrap' = FALSE /\ poll_ts' = 0
      BY <1>3 DEF StorePoll
    <2>2. File(poll_ts, wrap, buffer, TRUE)
            \in [ts : Nat, overflow : BOOLEAN, qm : Cells, poll : BOOLEAN]
      BY DEF File, FileTypes, MonitorTypes
    <2> QED
      BY <2>1, <2>2, AddedFile
  <1>4. CASE StoreQuery
    <2>1. /\ files' = files \cup
                        {File(Head(data_signal).ts, FALSE, data_query_buffer, FALSE)}
          /\ data_signal # <<>>
          /\ UNCHANGED <<wrap, poll_ts>>
      BY <1>4 DEF StoreQuery, poll
    <2>2. Head(data_signal) \in Slots
      BY <2>1, HeadTailProperties DEF MonitorTypes
    <2>3. File(Head(data_signal).ts, FALSE, data_query_buffer, FALSE)
            \in [ts : Nat, overflow : BOOLEAN, qm : Cells, poll : BOOLEAN]
      BY <2>2 DEF File, MonitorTypes, Slots
    <2>4. wrap' \in BOOLEAN /\ poll_ts' \in Nat
      BY <2>1 DEF FileTypes
    <2> QED
      BY <2>1, <2>3, <2>4, AddedFile
  <1>5. ASSUME ~Receive, ~SetSecondHighest, ~StorePoll, ~StoreQuery
        PROVE  UNCHANGED <<files, wrap, poll_ts>>
    BY <1>5
    DEF Next, vars, Packet, FlipHighest, ToggleSecondHighest, ComputeIndex,
        ReadRegisters, ResetRegisters, ReadChunk, shared, poll
  <1> QED
    BY <1>1, <1>2, <1>3, <1>4, <1>5 DEF FileTypes

LEMMA Typed ==
  ASSUME StackTypes
  PROVE  /\ highest_bit_r \in Bits /\ second_highest_tb \in Bits
         /\ highest \in Bits /\ second_highest \in Bits
         /\ \A h \in Bits, s \in Bits : qm_r[h][s] \in Cells
         /\ Current \in Cells /\ Frozen \in Cells
         /\ data_signal # <<>> => /\ Asked \in Slots
                                  /\ Asked.h \in Bits /\ Asked.s \in Bits
                                  /\ Asked.ts \in Nat
         /\ wire # <<>> => Head(wire) \in Signals
         /\ PollBank.h \in Bits /\ PollBank.s \in Bits
         /\ PolledCells \in Cells
         /\ data_signal # <<>> => AskedCells \in Cells
  <1>1. /\ highest_bit_r \in Bits /\ second_highest_tb \in Bits
        /\ highest \in Bits /\ second_highest \in Bits
        /\ qm_r \in [Bits -> [Bits -> Cells]]
        /\ wire \in Seq(Signals) /\ data_signal \in Seq(Slots)
        /\ bank \in [h : Bits, s : Bits]
        /\ buffer \in Cells /\ data_query_buffer \in Cells
    BY DEF StackTypes, MonitorTypes
  <1>2. \A h \in Bits, s \in Bits : qm_r[h][s] \in Cells
    BY <1>1
  <1>3. 1 - highest_bit_r \in Bits /\ 1 - second_highest_tb \in Bits
    BY <1>1, BitFlip
  <1>4. Current \in Cells /\ Frozen \in Cells
    BY <1>1, <1>2, <1>3 DEF Current, Frozen
  <1>5. /\ data_signal # <<>> => /\ Asked \in Slots
                                 /\ Asked.h \in Bits /\ Asked.s \in Bits
                                 /\ Asked.ts \in Nat
        /\ wire # <<>> => Head(wire) \in Signals
    <2>1. /\ data_signal # <<>> => Asked \in Slots
          /\ wire # <<>> => Head(wire) \in Signals
      BY <1>1, HeadTailProperties DEF Asked
    <2> QED
      BY <2>1 DEF Slots
  <1>6. PollBank.h \in Bits /\ PollBank.s \in Bits
    BY <1>1, <1>3 DEF PollBank
  <1>7. PolledCells \in Cells
    BY <1>1, <1>2, <1>6 DEF PolledCells
  <1>8. data_signal # <<>> => AskedCells \in Cells
    <2>1. SUFFICES ASSUME data_signal # <<>> PROVE AskedCells \in Cells
      OBVIOUS
    <2>2. qm_r[Asked.h][Asked.s] \in Cells
      BY <1>2, <1>5, <2>1
    <2> QED
      BY <1>1, <2>2 DEF AskedCells, Cells
  <1> QED
    BY <1>1, <1>2, <1>4, <1>5, <1>6, <1>7, <1>8

LEMMA PiecesTyped ==
  ASSUME StackTypes
  PROVE  Pieces \subseteq [ts : Nat, qm : Cells]
  <1>1. FilePieces \subseteq [ts : Nat, qm : Cells]
    BY DEF StackTypes, FileTypes, FilePieces, Piece
  <1>2. AskedPieces \subseteq [ts : Nat, qm : Cells]
    BY Typed DEF AskedPieces, Piece
  <1>3. PollPieces \subseteq [ts : Nat, qm : Cells]
    BY Typed DEF StackTypes, FileTypes, PollPieces, Piece
  <1>4. WirePieces \subseteq [ts : Nat, qm : Cells]
    BY Typed DEF StackTypes, MonitorTypes, WirePieces, Piece
  <1>5. SlotPieces \subseteq [ts : Nat, qm : Cells]
    BY Typed DEF StackTypes, MonitorTypes, Slots, SlotPieces, Piece
  <1> QED
    BY <1>1, <1>2, <1>3, <1>4, <1>5 DEF Pieces

----------------------------------------------------------------------------
(* Signals and banks.                                                      *)

\* The steps, by what they do to the pieces.
Packets == \E depth \in Depths, threshold \in Thresholds : Packet(depth, threshold)
ReadStep == \E n \in 1 .. MaxQdepth : ReadChunk(n)
OtherStep ==
  Receive \/ FlipHighest \/ PollStep \/ StorePoll \/ ReadStep \/ StoreQuery

LEMMA Steps ==
  ASSUME [Next]_vars
  PROVE  Packets \/ SetSecondHighest \/ OtherStep \/ UNCHANGED vars
  BY DEF Next, Packets, OtherStep, PollStep, ReadStep

LEMMA PacketSignal ==
  ASSUME StackTypes, mishap' = "none", SignalInv, Packets
  PROVE  SignalInv'
  <1>1. PICK depth \in Depths, threshold \in Thresholds : Packet(depth, threshold)
    BY DEF Packets
  <1>2. UNCHANGED <<slot, highest, data_signal, data_query_start>>
    BY <1>1, PacketDoes
  <1>3. \/ UNCHANGED <<highest_bit_r, wire>>
           /\ (data_query_lock_r' = 0 => data_query_lock_r = 0)
        \/ /\ data_query_lock_r = 0 /\ data_query_lock_r' # 0
           /\ highest_bit_r' = 1 - highest_bit_r
           /\ \E type \in Signals : wire' = Append(wire, type)
    BY <1>1, PacketDoes DEF Signals
  <1>4. CASE UNCHANGED <<highest_bit_r, wire>>
             /\ (data_query_lock_r' = 0 => data_query_lock_r = 0)
    BY <1>2, <1>4 DEF SignalInv, Signalled
  <1>5. CASE /\ data_query_lock_r = 0 /\ data_query_lock_r' # 0
             /\ highest_bit_r' = 1 - highest_bit_r
             /\ \E type \in Signals : wire' = Append(wire, type)
    <2>1. /\ wire = <<>> /\ slot = NoSlot /\ data_signal = <<>>
          /\ highest = highest_bit_r /\ data_query_start = 0
      BY <1>5 DEF SignalInv, Signalled
    <2>2. PICK type : wire' = <<type>>
      BY <1>5, <2>1, One
    <2>3. wire' # <<>> /\ Single(wire') /\ Single(<<>>)
      BY <2>2, One
    <2>4. highest = 1 - highest_bit_r'
      BY <1>5, <2>1, BitFlip, Typed
    <2> QED
      BY <1>2, <1>5, <2>1, <2>3, <2>4 DEF SignalInv, Signalled
  <1> QED
    BY <1>3, <1>4, <1>5

LEMMA ReceiveSlot ==
  ASSUME StackTypes, mishap' = "none", SignalInv, Receive
  PROVE  wire' = <<>> /\ slot' # NoSlot /\ slot'.ts = clock + 1
  <1>1. /\ slot = NoSlot /\ wire # <<>> /\ wire' = Tail(wire)
        /\ slot' = [NoSlot EXCEPT !.type = Head(wire), !.ts = clock']
        /\ clock' = clock + 1
    BY ReceiveDoes
  <1>2. wire' = <<>>
    <2>1. wire = <<Head(wire)>>
      BY <1>1 DEF SignalInv, Single
    <2> QED
      BY <1>1, <2>1, One
  <1>3. Head(wire) \in Signals /\ slot'.type = Head(wire) /\ slot'.ts = clock'
    BY <1>1, Typed DEF NoSlot
  <1>4. Head(wire) # NoSlot.type
    BY <1>3 DEF Signals, NoSlot, DataQuery, SeqOverflow
  <1> QED
    BY <1>1, <1>2, <1>3, <1>4

LEMMA OtherSignal ==
  ASSUME StackTypes, mishap' = "none", SignalInv, SetSecondHighest \/ OtherStep
  PROVE  SignalInv'
  <1>1. CASE Receive
    <2>1. /\ slot = NoSlot /\ wire # <<>> /\ wire' = Tail(wire)
          /\ slot' = [NoSlot EXCEPT !.type = Head(wire), !.ts = clock']
          /\ UNCHANGED <<data_query_lock_r, highest_bit_r, highest, data_signal,
                         data_query_start>>
      BY <1>1, ReceiveDoes
    <2>2. wire' = <<>> /\ slot' # NoSlot
      BY <1>1, ReceiveSlot
    <2> QED
      BY <2>1, <2>2, One DEF SignalInv, Signalled
  <1>2. CASE FlipHighest
    <2>1. /\ slot # NoSlot /\ slot' = NoSlot
          /\ data_signal' = Append(data_signal, [slot EXCEPT !.h = highest,
                                                   !.s = 1 - second_highest])
          /\ highest' = 1 - highest
          /\ UNCHANGED <<data_query_lock_r, highest_bit_r, wire, data_query_start>>
      BY <1>2, FlipHighestDoes
    <2>2. data_signal = <<>> /\ wire = <<>> /\ highest = 1 - highest_bit_r
      BY <2>1 DEF SignalInv, Signalled
    <2>3. data_signal' # <<>> /\ Single(data_signal')
      BY <2>1, <2>2, One
    <2>4. highest' = highest_bit_r
      BY <2>1, <2>2, BitFlip, Typed
    <2> QED
      BY <2>1, <2>2, <2>3, <2>4 DEF SignalInv, Signalled
  <1>3. CASE StoreQuery
    <2>1. /\ data_signal # <<>> /\ data_signal' = Tail(data_signal)
          /\ data_query_start' = 0
          /\ UNCHANGED <<highest_bit_r, wire, slot, highest>>
      BY <1>3, StoreQueryDoes
    <2>2. data_signal' = <<>>
      <3>1. data_signal = <<Head(data_signal)>>
        BY <2>1 DEF SignalInv, Single
      <3> QED
        BY <2>1, <3>1, One
    <2> QED
      BY <2>1, <2>2, One DEF SignalInv, Signalled
  <1>4. CASE ReadStep
    <2>1. data_signal # <<>>
          /\ UNCHANGED <<data_query_lock_r, highest_bit_r, wire, slot, highest,
                         data_signal>>
      BY <1>4, ReadChunkDoes DEF ReadStep
    <2> QED
      BY <2>1 DEF SignalInv, Signalled
  <1>5. CASE SetSecondHighest \/ PollStep \/ StorePoll
    <2>1. UNCHANGED <<data_query_lock_r, highest_bit_r, wire, slot, highest,
                      data_signal, data_query_start>>
      BY <1>5, SetSecondHighestDoes, PollStepDoes, StorePollDoes
    <2> QED
      BY <2>1 DEF SignalInv, Signalled
  <1> QED
    BY <1>1, <1>2, <1>3, <1>4, <1>5 DEF OtherStep

\* The bank a packet is recorded in is not that of a query or a poll.
LEMMA Apart ==
  ASSUME StackTypes, SignalInv, AskedInv
  PROVE  /\ 1 - highest_bit_r # highest_bit_r /\ 1 - highest_bit_r \in Bits
         /\ data_signal # <<>> => Asked.h # highest_bit_r
         /\ mpc \in {"toggle", "index", "read", "reset"} =>
              PollBank.s # second_highest_tb
         /\ mpc \in {"toggle", "index", "read", "reset"} /\ data_signal # <<>> =>
              PollBank.h # Asked.h \/ PollBank.s # Asked.s
  <1>1. 1 - highest_bit_r # highest_bit_r /\ 1 - highest_bit_r \in Bits
        /\ 1 - second_highest_tb # second_highest_tb
        /\ 1 - second_highest # second_highest
    BY BitFlip, Typed
  <1>2. data_signal # <<>> => /\ Asked.h = 1 - highest_bit_r
                              /\ highest = highest_bit_r
    BY DEF SignalInv, AskedInv
  <1>3. CASE mpc \in {"toggle", "index"}
    BY <1>1, <1>2, <1>3 DEF PollBank
  <1>4. CASE mpc \in {"read", "reset"}
    <2>1. bank.s = second_highest /\ second_highest_tb = 1 - second_highest
          /\ PollBank = bank
      BY <1>4 DEF StackTypes, ReadInv, PollBank
    <2> QED
      BY <1>1, <1>2, <1>4, <2>1 DEF AskedInv
  <1> QED
    BY <1>1, <1>2, <1>3, <1>4

LEMMA PacketAsked ==
  ASSUME StackTypes, mishap' = "none", SignalInv, AskedInv, Packets
  PROVE  AskedInv'
  <1>1. PICK depth \in Depths, threshold \in Thresholds : Packet(depth, threshold)
    BY DEF Packets
  <1>2. SUFFICES ASSUME data_signal' # <<>> PROVE AskedInv'
    BY DEF AskedInv
  <1>3. UNCHANGED <<second_highest_tb, data_signal, mpc, bank, data_query_start>>
    BY <1>1, PacketDoes
  <1>4. data_signal # <<>> /\ Asked' = Asked
    BY <1>2, <1>3 DEF Asked
  <1>5. UNCHANGED highest_bit_r
    BY <1>1, <1>4, PacketDoes DEF SignalInv
  <1>6. qm_r'[Asked.h][Asked.s] = qm_r[Asked.h][Asked.s]
    <2>1. /\ qm_r \in [Bits -> [Bits -> Cells]] /\ highest_bit_r # Asked.h
          /\ Asked.h \in Bits /\ Asked.s \in Bits
      BY <1>4, Apart, Typed DEF StackTypes, MonitorTypes
    <2>2. \/ qm_r' = qm_r
          \/ qm_r' = [qm_r EXCEPT
                        ![highest_bit_r][second_highest_tb][depth] = packets']
      BY <1>1, <1>5, PacketDoes
    <2> QED
      BY <2>1, <2>2
  <1> QED
    BY <1>3, <1>4, <1>5, <1>6 DEF AskedInv

LEMMA OtherAsked ==
  ASSUME StackTypes, mishap' = "none", SignalInv, AskedInv,
         SetSecondHighest \/ OtherStep
  PROVE  AskedInv'
  <1>1. CASE Receive
    <2>1. data_signal' = <<>>
      BY <1>1, ReceiveDoes DEF SignalInv, Signalled
    <2> QED
      BY <2>1 DEF AskedInv
  <1>2. CASE FlipHighest
    <2>1. /\ slot # NoSlot
          /\ data_signal' = Append(data_signal, [slot EXCEPT !.h = highest,
                                                   !.s = 1 - second_highest])
          /\ UNCHANGED <<highest_bit_r, second_highest, mpc, bank,
                         data_query_start>>
      BY <1>2, FlipHighestDoes
    <2>2. data_signal = <<>> /\ highest = 1 - highest_bit_r /\ data_query_start = 0
      BY <2>1 DEF SignalInv, Signalled
    <2>3. Asked' = [slot EXCEPT !.h = highest, !.s = 1 - second_highest]
      BY <2>1, <2>2, One DEF Asked
    <2>4. Asked'.h = 1 - highest_bit_r' /\ Asked'.s = 1 - second_highest
      BY <2>1, <2>2, <2>3 DEF StackTypes, MonitorTypes, Slots
    <2>5. mpc' \in {"read", "reset"} => bank'.s # Asked'.s
      BY <2>1, <2>4, BitFlip, Typed DEF StackTypes, ReadInv
    <2>6. \A d \in Depths : ~(d < data_query_start')
      BY <2>1, <2>2, Empty DEF Depths
    <2> QED
      BY <2>4, <2>5, <2>6 DEF AskedInv
  <1>3. CASE StoreQuery
    <2>1. /\ data_signal # <<>> /\ data_signal' = Tail(data_signal)
      BY <1>3, StoreQueryDoes
    <2>2. data_signal = <<Head(data_signal)>>
      BY <2>1 DEF SignalInv, Single
    <2>3. data_signal' = <<>>
      BY <2>1, <2>2, One
    <2> QED
      BY <2>3 DEF AskedInv
  <1>4. CASE ReadStep
    <2>1. PICK n \in 1 .. MaxQdepth : ReadChunk(n)
      BY <1>4 DEF ReadStep
    <2>2. /\ data_signal # <<>> /\ mpc = "loop"
          /\ data_query_start' = data_query_start + n
          /\ UNCHANGED <<highest_bit_r, data_signal, mpc, bank>>
      BY <2>1, ReadChunkDoes
    <2>3. Asked' = Asked
      BY <2>2 DEF Asked
    <2>4. /\ qm_r \in [Bits -> [Bits -> Cells]]
          /\ Asked.h \in Bits /\ Asked.s \in Bits
      BY <2>2, Typed DEF StackTypes, MonitorTypes
    <2> DEFINE chunk == data_query_start .. data_query_start + n - 1
               read == [d \in Depths |-> IF d \in chunk THEN NoPacket
                                         ELSE qm_r[Asked.h][Asked.s][d]]
    <2>5. qm_r'[Asked.h][Asked.s] = read
      <3>1. qm_r' = [qm_r EXCEPT ![Asked.h][Asked.s] = read]
        BY <2>1, <2>4 DEF ReadChunk, Asked
      <3> HIDE DEF read
      <3> QED
        BY <2>4, <3>1
    <2>6. ASSUME NEW d \in Depths, d < data_query_start'
          PROVE  read[d] = NoPacket
      <3>1. d \in Nat /\ data_query_start \in Nat
        BY <2>6, Empty DEF Depths, StackTypes, MonitorTypes
      <3>2. d < data_query_start \/ d \in chunk
        BY <2>2, <2>6, <3>1
      <3> QED
        BY <2>2, <3>2 DEF AskedInv
    <2> HIDE DEF read
    <2> QED
      BY <2>2, <2>3, <2>5, <2>6 DEF AskedInv
  <1>5. CASE SetSecondHighest \/ PollStep \/ StorePoll
    <2>1. SUFFICES ASSUME data_signal' # <<>> PROVE AskedInv'
      BY DEF AskedInv
    <2>2. UNCHANGED <<highest_bit_r, highest, data_signal, data_query_start>>
      BY <1>5, SetSecondHighestDoes, PollStepDoes, StorePollDoes
    <2>3. Asked' = Asked /\ data_signal # <<>>
      BY <2>1, <2>2 DEF Asked
    <2>4. mpc' \in {"read", "reset"} => bank'.h # Asked.h \/ bank'.s # Asked.s
      <3>1. CASE ComputeIndex
        <4>1. bank'.h = highest
          BY <3>1 DEF ComputeIndex
        <4>2. highest # Asked.h
          BY <2>3, Apart DEF SignalInv
        <4> QED
          BY <4>1, <4>2
      <3>2. CASE ReadRegisters
        BY <2>3, <3>2 DEF ReadRegisters, AskedInv
      <3>3. CASE SetSecondHighest \/ ToggleSecondHighest \/ ResetRegisters
                 \/ StorePoll
        BY <3>3 DEF SetSecondHighest, ToggleSecondHighest, ResetRegisters, StorePoll
      <3> QED
        BY <1>5, <3>1, <3>2, <3>3 DEF PollStep
    <2>5. ASSUME NEW d \in Depths, d < data_query_start
          PROVE  qm_r'[Asked.h][Asked.s][d] = NoPacket
      <3>1. /\ qm_r \in [Bits -> [Bits -> Cells]]
            /\ Asked.h \in Bits /\ Asked.s \in Bits
        BY <2>3, Typed DEF StackTypes, MonitorTypes
      <3>2. qm_r[Asked.h][Asked.s][d] = NoPacket
        BY <2>3, <2>5 DEF AskedInv
      <3>3. qm_r' = qm_r \/ qm_r' = [qm_r EXCEPT ![bank.h][bank.s] = NoCells]
        BY <1>5, SetSecondHighestDoes, PollStepDoes, StorePollDoes
        DEF ResetRegisters
      <3>4. NoCells[d] = NoPacket
        BY Empty
      <3> QED
        BY <3>1, <3>2, <3>3, <3>4
    <2> QED
      BY <2>2, <2>3, <2>4, <2>5 DEF AskedInv
  <1> QED
    BY <1>1, <1>2, <1>3, <1>4, <1>5 DEF OtherStep

\* A packet that triggers a signal turns to a bank that is empty.
LEMMA PacketClean ==
  ASSUME StackTypes, mishap' = "none", SignalInv, AskedInv, CleanInv, Packets
  PROVE  CleanInv'
  <1>1. PICK depth \in Depths, threshold \in Thresholds : Packet(depth, threshold)
    BY DEF Packets
  <1>2. UNCHANGED <<second_highest_tb, highest, slot, data_signal, mpc, bank>>
    BY <1>1, PacketDoes
  <1>3. Asked' = Asked /\ PollBank' = PollBank
    BY <1>2 DEF Asked, PollBank
  <1>4. SUFFICES ASSUME NEW h \in Bits, NEW s \in Bits, ~InUse(h, s)'
                 PROVE  qm_r'[h][s] = NoCells
    BY DEF CleanInv
  <1>5. h # highest_bit_r' \/ s # second_highest_tb
    BY <1>2, <1>4 DEF InUse
  <1>6. qm_r'[h][s] = qm_r[h][s]
    <2>1. \/ qm_r' = qm_r
          \/ qm_r' = [qm_r EXCEPT
                        ![highest_bit_r'][second_highest_tb][depth] = packets']
      BY <1>1, PacketDoes
    <2>2. qm_r \in [Bits -> [Bits -> Cells]]
      BY DEF StackTypes, MonitorTypes
    <2> QED
      BY <1>5, <2>1, <2>2
  <1>7. ~InUse(h, s)
    <2>1. CASE UNCHANGED <<highest_bit_r, wire>>
      BY <1>2, <1>3, <1>4, <2>1 DEF InUse, Signalled
    <2>2. CASE /\ data_query_lock_r = 0
               /\ highest_bit_r' = 1 - highest_bit_r
               /\ \E type \in Signals : wire' = Append(wire, type)
      <3>1. ~Signalled /\ data_signal = <<>>
        BY <2>2 DEF SignalInv
      <3>2. wire' # <<>>
        <4>1. wire = <<>>
          BY <3>1 DEF Signalled
        <4> QED
          BY <2>2, <4>1, One
      <3>3. 1 - highest_bit_r' = highest_bit_r
        BY <2>2, BitFlip, Typed
      <3>4. h # highest_bit_r \/ s # second_highest_tb
        BY <1>2, <1>4, <3>2, <3>3 DEF InUse, Signalled
      <3> QED
        BY <1>2, <1>3, <1>4, <3>1, <3>4 DEF InUse
    <2> QED
      BY <1>1, <2>1, <2>2, PacketDoes DEF Signals
  <1> QED
    BY <1>4, <1>6, <1>7 DEF CleanInv

LEMMA OtherClean ==
  ASSUME StackTypes, mishap' = "none", SignalInv, AskedInv, CleanInv,
         SetSecondHighest \/ OtherStep
  PROVE  CleanInv'
  <1> SUFFICES ASSUME NEW h \in Bits, NEW s \in Bits, ~InUse(h, s)'
               PROVE  qm_r'[h][s] = NoCells
    BY DEF CleanInv
  <1>1. InUse(h, s) \/ qm_r[h][s] = NoCells
    BY DEF CleanInv
  <1>2. CASE Receive
    <2>1. UNCHANGED <<highest_bit_r, second_highest_tb, highest, qm_r, data_signal,
                      mpc, bank>>
      BY <1>2, ReceiveDoes
    <2>2. Asked' = Asked /\ PollBank' = PollBank
      BY <2>1 DEF Asked, PollBank
    <2>3. Signalled'
      <3>1. slot' # NoSlot
        BY <1>2, ReceiveSlot
      <3> QED
        BY <3>1 DEF Signalled
    <2> QED
      BY <1>1, <2>1, <2>2, <2>3 DEF InUse
  <1>3. CASE FlipHighest
    <2>1. /\ slot # NoSlot
          /\ data_signal' = Append(data_signal, [slot EXCEPT !.h = highest,
                                                   !.s = 1 - second_highest])
          /\ mpc \notin {"toggle", "index"}
          /\ UNCHANGED <<highest_bit_r, second_highest_tb, second_highest, qm_r,
                         mpc, bank>>
      BY <1>3, FlipHighestDoes
    <2>2. data_signal = <<>> /\ highest = 1 - highest_bit_r
      BY <2>1 DEF SignalInv, Signalled
    <2>3. /\ data_signal' # <<>>
          /\ Asked' = [slot EXCEPT !.h = highest, !.s = 1 - second_highest]
      BY <2>1, <2>2, One DEF Asked
    <2>4. Asked'.h = 1 - highest_bit_r /\ Asked'.s = second_highest_tb
      BY <2>1, <2>2, <2>3
      DEF StackTypes, MonitorTypes, ReadInv, Slots
    <2>5. PollBank' = PollBank
      BY <2>1 DEF PollBank
    <2> QED
      BY <1>1, <2>1, <2>2, <2>3, <2>4, <2>5 DEF InUse
  <1>4. CASE StoreQuery
    <2>1. /\ data_signal # <<>> /\ data_query_start = MaxQdepth
          /\ UNCHANGED <<highest_bit_r, second_highest_tb, highest, wire, slot,
                         qm_r, mpc, bank>>
      BY <1>4, StoreQueryDoes
    <2>2. PollBank' = PollBank /\ Signalled' = Signalled
      BY <2>1 DEF PollBank, Signalled
    <2>3. CASE h = Asked.h /\ s = Asked.s
      <3>1. \A d \in Depths : d < MaxQdepth
        BY Empty DEF Depths
      <3>2. \A d \in Depths : qm_r[h][s][d] = NoPacket
        BY <2>1, <2>3, <3>1 DEF AskedInv
      <3>3. qm_r[h][s] \in Cells
        BY Typed
      <3> QED
        BY <2>1, <3>2, <3>3 DEF Cells, NoCells
    <2>4. CASE h # Asked.h \/ s # Asked.s
      BY <1>1, <2>1, <2>2, <2>4 DEF InUse
    <2> QED
      BY <2>3, <2>4
  <1>5. CASE ReadStep
    <2>1. PICK n \in 1 .. MaxQdepth : ReadChunk(n)
      BY <1>5 DEF ReadStep
    <2>2. /\ data_signal # <<>>
          /\ UNCHANGED <<highest_bit_r, second_highest_tb, highest, wire, slot,
                         data_signal, mpc, bank>>
      BY <2>1, ReadChunkDoes
    <2>3. Asked' = Asked /\ PollBank' = PollBank /\ Signalled' = Signalled
      BY <2>2 DEF Asked, PollBank, Signalled
    <2>4. ~InUse(h, s) /\ (h # Asked.h \/ s # Asked.s)
      BY <2>2, <2>3 DEF InUse
    <2>5. \E cells : qm_r' = [qm_r EXCEPT ![Asked.h][Asked.s] = cells]
      BY <2>1 DEF ReadChunk, Asked
    <2>6. qm_r \in [Bits -> [Bits -> Cells]]
      BY DEF StackTypes, MonitorTypes
    <2>7. qm_r'[h][s] = qm_r[h][s]
      BY <2>4, <2>5, <2>6
    <2> QED
      BY <1>1, <2>4, <2>7
  <1>6. CASE SetSecondHighest
    <2>1. /\ ~Signalled /\ mpc = "loop" /\ mpc' = "toggle"
          /\ second_highest_tb' = second_highest
          /\ UNCHANGED <<highest_bit_r, highest, wire, slot, data_signal, qm_r>>
      BY <1>6, SetSecondHighestDoes
    <2>2. highest = highest_bit_r
      BY <2>1 DEF SignalInv
    <2>3. second_highest_tb = 1 - second_highest'
          /\ UNCHANGED second_highest
      BY <1>6, <2>1, SetSecondHighestDoes DEF StackTypes, ReadInv
    <2>4. PollBank' = [h |-> highest_bit_r, s |-> second_highest_tb]
      BY <2>1, <2>2, <2>3 DEF PollBank
    <2>5. Asked' = Asked /\ Signalled' = Signalled
      BY <2>1 DEF Asked, Signalled
    <2> QED
      BY <1>1, <2>1, <2>4, <2>5 DEF InUse
  <1>7. CASE StorePoll
    <2>1. /\ mpc = "store"
          /\ UNCHANGED <<highest_bit_r, second_highest_tb, wire, slot, data_signal,
                         qm_r>>
      BY <1>7, StorePollDoes
    <2>2. Asked' = Asked /\ Signalled' = Signalled
      BY <2>1 DEF Asked, Signalled
    <2> QED
      BY <1>1, <2>1, <2>2 DEF InUse
  <1>8. CASE PollStep
    <2>1. UNCHANGED <<highest_bit_r, second_highest_tb, highest, wire, slot,
                      data_signal>>
      BY <1>8, PollStepDoes
    <2>2. Asked' = Asked /\ Signalled' = Signalled
      BY <2>1 DEF Asked, Signalled
    <2>3. CASE ResetRegisters
      <3>1. mpc = "reset" /\ qm_r' = [qm_r EXCEPT ![bank.h][bank.s] = NoCells]
        BY <2>3 DEF ResetRegisters
      <3>2. PollBank = bank
        BY <3>1 DEF PollBank
      <3>3. qm_r \in [Bits -> [Bits -> Cells]]
        BY DEF StackTypes, MonitorTypes
      <3>4. CASE h = bank.h /\ s = bank.s
        BY <3>1, <3>3, <3>4
      <3>5. CASE h # bank.h \/ s # bank.s
        <4>1. ~InUse(h, s)
          BY <2>1, <2>2, <3>2, <3>5 DEF InUse
        <4>2. qm_r'[h][s] = qm_r[h][s]
          BY <3>1, <3>3, <3>5
        <4> QED
          BY <1>1, <4>1, <4>2
      <3> QED
        BY <3>4, <3>5
    <2>4. CASE ~ResetRegisters
      <3>1. UNCHANGED qm_r
        BY <1>8, <2>4, PollStepDoes
      <3>2. PollBank' = PollBank
        <4>1. CASE ToggleSecondHighest
          BY <2>1, <4>1 DEF ToggleSecondHighest, PollBank
        <4>2. CASE ComputeIndex
          <5>1. mpc = "index" /\ mpc' = "read"
                /\ bank' = [h |-> highest, s |-> second_highest]
            BY <4>2 DEF ComputeIndex
          <5>2. second_highest = 1 - second_highest_tb
            BY <5>1, BitFlip, Typed DEF StackTypes, ReadInv
          <5> QED
            BY <5>1, <5>2 DEF PollBank
        <4>3. CASE ReadRegisters
          BY <4>3 DEF ReadRegisters, PollBank
        <4> QED
          BY <1>8, <2>4, <4>1, <4>2, <4>3 DEF PollStep
      <3>3. mpc \in {"toggle", "index", "read"}
            /\ mpc' \in {"toggle", "index", "read", "reset"}
        BY <1>8, <2>4
        DEF PollStep, ToggleSecondHighest, ComputeIndex, ReadRegisters
      <3> QED
        BY <1>1, <2>1, <2>2, <3>1, <3>2, <3>3 DEF InUse
    <2> QED
      BY <2>3, <2>4
  <1> QED
    BY <1>2, <1>3, <1>4, <1>5, <1>6, <1>7, <1>8 DEF OtherStep

----------------------------------------------------------------------------
(* Only packets record, and only signals and polls cut.                    *)

\* What was recorded in so far becomes a piece.
Cut == Pieces \cup {Piece(clock + 1, Current)}

LEMMA AddedPiece ==
  ASSUME NEW f, files' = files \cup {f}
  PROVE  FilePieces' = FilePieces \cup {Piece(f.ts, f.qm)}
  BY DEF FilePieces

LEMMA SetSecondHighestPieces ==
  ASSUME StackTypes, mishap' = "none", SignalInv, AskedInv, CleanInv,
         SetSecondHighest
  PROVE  Pieces' = Cut /\ Current' = NoCells
  <1>1. /\ ~Signalled /\ mpc = "loop" /\ mpc' = "toggle"
        /\ second_highest_tb' = second_highest
        /\ poll_ts' = clock + 1
        /\ UNCHANGED <<highest_bit_r, highest, wire, slot, data_signal, qm_r,
                       data_query_start, data_query_buffer, files>>
    BY SetSecondHighestDoes
  <1>2. highest = highest_bit_r
    BY <1>1 DEF SignalInv
  <1>3. second_highest_tb = 1 - second_highest /\ 1 - second_highest # second_highest
    BY <1>1, BitFlip, Typed DEF StackTypes, ReadInv
  <1>4. FilePieces' = FilePieces /\ AskedPieces' = AskedPieces
    BY <1>1 DEF FilePieces, AskedPieces, AskedCells, Asked
  <1>5. /\ PollPieces = {} /\ PollPieces' = {Piece(clock + 1, Current)}
    <2>1. PollBank' = [h |-> highest_bit_r, s |-> second_highest_tb]
      BY <1>1, <1>2, <1>3 DEF PollBank
    <2>2. PolledCells' = Current
      BY <1>1, <2>1 DEF PolledCells, Current
    <2> QED
      BY <1>1, <2>2 DEF PollPieces, Polling
  <1>6. WirePieces = {} /\ SlotPieces = {} /\ WirePieces' = {} /\ SlotPieces' = {}
    BY <1>1 DEF WirePieces, SlotPieces, Signalled
  <1>7. Current' = NoCells
    <2>1. ~InUse(highest_bit_r, second_highest)
      BY <1>1, <1>3, Apart DEF InUse
    <2> QED
      BY <1>1, <2>1, Typed DEF CleanInv, Current
  <1> QED
    BY <1>4, <1>5, <1>6, <1>7 DEF Pieces, Cut

\* The steps of the thread and the main loop move pieces, and read and reset what
\* is one.
LEMMA OtherPieces ==
  ASSUME StackTypes, mishap' = "none", SignalInv, AskedInv, OtherStep
  PROVE  Pieces' = Pieces /\ Current' = Current
  <1>1. CASE Receive
    <2>1. /\ slot = NoSlot /\ wire # <<>>
          /\ UNCHANGED <<highest_bit_r, second_highest_tb, highest, qm_r,
                         data_signal, mpc, bank, buffer, poll_ts, data_query_start,
                         data_query_buffer, files>>
      BY <1>1, ReceiveDoes
    <2>2. /\ FilePieces' = FilePieces /\ AskedPieces' = AskedPieces
          /\ PollPieces' = PollPieces /\ Current' = Current /\ Frozen' = Frozen
      BY <2>1
      DEF FilePieces, AskedPieces, AskedCells, Asked, PollPieces, PolledCells,
          PollBank, Polling, Current, Frozen
    <2>3. SlotPieces = {} /\ WirePieces = {Piece(clock + 1, Frozen)}
      BY <2>1 DEF SlotPieces, WirePieces
    <2>4. WirePieces' = {} /\ SlotPieces' = {Piece(clock + 1, Frozen)}
      BY <1>1, <2>2, ReceiveSlot DEF SlotPieces, WirePieces
    <2> QED
      BY <2>2, <2>3, <2>4 DEF Pieces
  <1>2. CASE FlipHighest
    <2>1. /\ slot # NoSlot /\ slot' = NoSlot
          /\ data_signal' = Append(data_signal, [slot EXCEPT !.h = highest,
                                                   !.s = 1 - second_highest])
          /\ mpc \notin {"toggle", "index"}
          /\ UNCHANGED <<highest_bit_r, second_highest_tb, second_highest, qm_r,
                         wire, mpc, bank, buffer, poll_ts, data_query_start,
                         data_query_buffer, files, clock>>
      BY <1>2, FlipHighestDoes
    <2>2. /\ data_signal = <<>> /\ highest = 1 - highest_bit_r
          /\ data_query_start = 0 /\ wire = <<>>
      BY <2>1 DEF SignalInv, Signalled
    <2>3. /\ data_signal' # <<>>
          /\ Asked' = [slot EXCEPT !.h = highest, !.s = 1 - second_highest]
      BY <2>1, <2>2, One DEF Asked
    <2>4. /\ Asked'.h = 1 - highest_bit_r /\ Asked'.s = second_highest_tb
          /\ Asked'.ts = slot.ts
      BY <2>1, <2>2, <2>3 DEF StackTypes, MonitorTypes, ReadInv, Slots
    <2>5. AskedCells' = Frozen
      <3>1. Frozen \in Cells /\ \A d \in Depths : ~(d < 0)
        BY Typed, Empty DEF Depths
      <3>2. AskedCells' = [d \in Depths |-> IF d < 0 THEN data_query_buffer[d]
                                                     ELSE Frozen[d]]
        BY <2>1, <2>2, <2>4 DEF AskedCells, Frozen
      <3>3. AskedCells' = [d \in Depths |-> Frozen[d]]
        BY <3>1, <3>2
      <3> QED
        BY <3>1, <3>3 DEF Cells
    <2>6. AskedPieces = {} /\ AskedPieces' = {Piece(slot.ts, Frozen)}
      BY <2>2, <2>3, <2>4, <2>5 DEF AskedPieces
    <2>7. SlotPieces = {Piece(slot.ts, Frozen)} /\ SlotPieces' = {}
      BY <2>1 DEF SlotPieces
    <2>8. WirePieces = {} /\ WirePieces' = {}
      BY <2>1, <2>2 DEF WirePieces
    <2>9. /\ FilePieces' = FilePieces /\ PollPieces' = PollPieces
          /\ Current' = Current
      BY <2>1 DEF FilePieces, PollPieces, PolledCells, PollBank, Polling, Current
    <2> QED
      BY <2>6, <2>7, <2>8, <2>9 DEF Pieces
  <1>3. CASE PollStep
    <2>1. /\ Polling /\ Polling'
          /\ UNCHANGED <<highest_bit_r, second_highest_tb, highest, wire, slot,
                         data_signal, poll_ts, data_query_start, data_query_buffer,
                         files, clock>>
      BY <1>3, PollStepDoes DEF Polling
    <2>2. CASE ResetRegisters
      <3>1. /\ mpc = "reset" /\ mpc' = "store"
            /\ qm_r' = [qm_r EXCEPT ![bank.h][bank.s] = NoCells]
            /\ buffer' = buffer
        BY <2>2 DEF ResetRegisters
      <3>2. /\ PollBank = bank /\ bank.s # second_highest_tb
            /\ data_signal # <<>> => bank.h # Asked.h \/ bank.s # Asked.s
        BY <3>1, Apart DEF PollBank
      <3>3. /\ qm_r \in [Bits -> [Bits -> Cells]]
            /\ highest_bit_r \in Bits /\ second_highest_tb \in Bits
            /\ 1 - highest_bit_r \in Bits
            /\ bank.h \in Bits /\ bank.s \in Bits
            /\ data_signal # <<>> => Asked.h \in Bits /\ Asked.s \in Bits
        BY Typed, Apart DEF StackTypes, MonitorTypes
      <3>4. \A h \in Bits, s \in Bits :
              h # bank.h \/ s # bank.s => qm_r'[h][s] = qm_r[h][s]
        BY <3>1, <3>3
      <3>5. Current' = Current /\ Frozen' = Frozen
        BY <2>1, <3>2, <3>3, <3>4 DEF Current, Frozen
      <3>6. AskedPieces' = AskedPieces
        <4>1. CASE data_signal = <<>>
          BY <2>1, <4>1 DEF AskedPieces
        <4>2. CASE data_signal # <<>>
          <5>1. qm_r'[Asked.h][Asked.s] = qm_r[Asked.h][Asked.s]
            BY <3>2, <3>3, <3>4, <4>2
          <5>2. AskedCells' = AskedCells /\ Asked' = Asked
            BY <2>1, <5>1 DEF AskedCells, Asked
          <5> QED
            BY <2>1, <5>2 DEF AskedPieces
        <4> QED
          BY <4>1, <4>2
      <3>7. PolledCells' = PolledCells
        BY <3>1 DEF PolledCells
      <3> QED
        BY <2>1, <3>5, <3>6, <3>7
        DEF Pieces, FilePieces, PollPieces, WirePieces, SlotPieces
    <2>3. CASE ~ResetRegisters
      <3>1. UNCHANGED qm_r
        BY <1>3, <2>3, PollStepDoes
      <3>2. PolledCells' = PolledCells
        <4>1. CASE ToggleSecondHighest
          BY <2>1, <3>1, <4>1 DEF ToggleSecondHighest, PolledCells, PollBank
        <4>2. CASE ComputeIndex
          <5>1. mpc = "index" /\ mpc' = "read"
                /\ bank' = [h |-> highest, s |-> second_highest]
            BY <4>2 DEF ComputeIndex
          <5>2. second_highest = 1 - second_highest_tb
            BY <5>1, BitFlip, Typed DEF StackTypes, ReadInv
          <5>3. PollBank' = PollBank
            BY <5>1, <5>2 DEF PollBank
          <5> QED
            BY <3>1, <5>1, <5>3 DEF PolledCells
        <4>3. CASE ReadRegisters
          BY <4>3 DEF ReadRegisters, PolledCells, PollBank
        <4> QED
          BY <1>3, <2>3, <4>1, <4>2, <4>3 DEF PollStep
      <3> QED
        BY <2>1, <3>1, <3>2
        DEF Pieces, FilePieces, AskedPieces, AskedCells, Asked, PollPieces,
            WirePieces, SlotPieces, Current, Frozen
    <2> QED
      BY <2>2, <2>3
  <1>4. CASE StorePoll
    <2>1. /\ mpc = "store" /\ mpc' = "loop"
          /\ files' = files \cup {File(poll_ts, wrap, buffer, TRUE)}
          /\ UNCHANGED <<highest_bit_r, second_highest_tb, qm_r, wire, slot,
                         data_signal, data_query_start, data_query_buffer, clock>>
      BY <1>4, StorePollDoes
    <2>2. FilePieces' = FilePieces \cup {Piece(poll_ts, buffer)}
      <3>1. PICK f : f = File(poll_ts, wrap, buffer, TRUE)
        OBVIOUS
      <3>2. f.ts = poll_ts /\ f.qm = buffer
        BY <3>1 DEF File
      <3>3. FilePieces' = FilePieces \cup {Piece(f.ts, f.qm)}
        BY <2>1, <3>1, AddedPiece
      <3> QED
        BY <3>2, <3>3
    <2>3. PollPieces = {Piece(poll_ts, buffer)} /\ PollPieces' = {}
      BY <2>1 DEF PollPieces, PolledCells, Polling
    <2>4. /\ AskedPieces' = AskedPieces /\ WirePieces' = WirePieces
          /\ SlotPieces' = SlotPieces /\ Current' = Current
      BY <2>1 DEF AskedPieces, AskedCells, Asked, WirePieces, SlotPieces, Current,
                  Frozen
    <2> QED
      BY <2>2, <2>3, <2>4 DEF Pieces
  <1>5. CASE ReadStep
    <2>1. PICK n \in 1 .. MaxQdepth : ReadChunk(n)
      BY <1>5 DEF ReadStep
    <2>2. /\ mpc = "loop" /\ data_signal # <<>>
          /\ data_query_start' = data_query_start + n
          /\ UNCHANGED <<highest_bit_r, second_highest_tb, wire, slot, data_signal,
                         mpc, files, clock>>
      BY <2>1, ReadChunkDoes
    <2>3. wire = <<>> /\ slot = NoSlot
      BY <2>2 DEF SignalInv, Signalled
    <2>4. /\ qm_r \in [Bits -> [Bits -> Cells]]
          /\ Asked.h \in Bits /\ Asked.s \in Bits /\ Asked.h # highest_bit_r
          /\ highest_bit_r \in Bits /\ second_highest_tb \in Bits
      BY <2>2, Typed, Apart DEF StackTypes, MonitorTypes
    <2> DEFINE chunk == data_query_start .. data_query_start + n - 1
               rest == [d \in Depths |-> IF d \in chunk THEN NoPacket
                                         ELSE qm_r[Asked.h][Asked.s][d]]
    <2>5. qm_r' = [qm_r EXCEPT ![Asked.h][Asked.s] = rest]
      BY <2>1, <2>4 DEF ReadChunk, Asked
    <2>6. data_query_buffer' =
            [d \in Depths |-> IF d \in chunk THEN qm_r[Asked.h][Asked.s][d]
                              ELSE data_query_buffer[d]]
      BY <2>1 DEF ReadChunk, Asked
    <2>7. Asked' = Asked
      BY <2>2 DEF Asked
    <2>8. qm_r'[Asked.h][Asked.s] = rest /\ Current' = Current
      <3> HIDE DEF rest
      <3> QED
        BY <2>2, <2>4, <2>5 DEF Current
    <2>9. AskedCells' = AskedCells
      <3>1. ASSUME NEW d \in Depths
            PROVE  (IF d < data_query_start' THEN data_query_buffer'[d] ELSE rest[d])
                     = (IF d < data_query_start THEN data_query_buffer[d]
                                                ELSE qm_r[Asked.h][Asked.s][d])
        <4>1. d \in Nat /\ data_query_start \in Nat
          BY Empty DEF Depths, StackTypes, MonitorTypes
        <4>2. d < data_query_start' <=> d < data_query_start \/ d \in chunk
          BY <2>2, <4>1
        <4>3. d \in chunk => ~(d < data_query_start)
          BY <4>1
        <4> HIDE DEF chunk
        <4> QED
          BY <2>6, <4>2, <4>3
      <3>2. AskedCells' =
              [d \in Depths |-> IF d < data_query_start' THEN data_query_buffer'[d]
                                                         ELSE rest[d]]
        <4> HIDE DEF rest
        <4> QED
          BY <2>7, <2>8 DEF AskedCells
      <3> HIDE DEF rest
      <3> QED
        BY <3>1, <3>2 DEF AskedCells
    <2>10. FilePieces' = FilePieces /\ AskedPieces' = AskedPieces
      BY <2>2, <2>7, <2>9 DEF FilePieces, AskedPieces
    <2>11. /\ PollPieces = {} /\ WirePieces = {} /\ SlotPieces = {}
           /\ PollPieces' = {} /\ WirePieces' = {} /\ SlotPieces' = {}
      BY <2>2, <2>3 DEF PollPieces, Polling, WirePieces, SlotPieces
    <2> QED
      BY <2>8, <2>10, <2>11 DEF Pieces
  <1>6. CASE StoreQuery
    <2>1. /\ mpc = "loop" /\ data_signal # <<>>
          /\ data_signal' = Tail(data_signal)
          /\ data_query_start = MaxQdepth
          /\ files' = files \cup {File(Asked.ts, FALSE, data_query_buffer, FALSE)}
          /\ UNCHANGED <<highest_bit_r, second_highest_tb, qm_r, wire, slot, mpc,
                         clock>>
      BY <1>6, StoreQueryDoes
    <2>2. data_signal' = <<>>
      <3>1. data_signal = <<Head(data_signal)>>
        BY <2>1 DEF SignalInv, Single
      <3> QED
        BY <2>1, <3>1, One
    <2>3. AskedCells = data_query_buffer
      <3>1. \A d \in Depths : d < MaxQdepth
        BY Empty DEF Depths
      <3>2. data_query_buffer = [d \in Depths |-> data_query_buffer[d]]
        BY DEF StackTypes, MonitorTypes, Cells
      <3> QED
        BY <2>1, <3>1, <3>2 DEF AskedCells
    <2>4. FilePieces' = FilePieces \cup {Piece(Asked.ts, data_query_buffer)}
      <3>1. PICK f : f = File(Asked.ts, FALSE, data_query_buffer, FALSE)
        OBVIOUS
      <3>2. f.ts = Asked.ts /\ f.qm = data_query_buffer
        BY <3>1 DEF File
      <3>3. FilePieces' = FilePieces \cup {Piece(f.ts, f.qm)}
        BY <2>1, <3>1, AddedPiece
      <3> QED
        BY <3>2, <3>3
    <2>5. AskedPieces = {Piece(Asked.ts, data_query_buffer)} /\ AskedPieces' = {}
      BY <2>1, <2>2, <2>3 DEF AskedPieces
    <2>6. /\ PollPieces = {} /\ PollPieces' = {}
          /\ WirePieces' = WirePieces /\ SlotPieces' = SlotPieces
          /\ Current' = Current
      BY <2>1 DEF PollPieces, Polling, WirePieces, SlotPieces, Current, Frozen
    <2> QED
      BY <2>4, <2>5, <2>6 DEF Pieces
  <1> QED
    BY <1>1, <1>2, <1>3, <1>4, <1>5, <1>6 DEF OtherStep

\* A packet is recorded in these cells or in none.
RecordsIn(cells, depth) ==
  \/ Current' = cells /\ last' = last
  \/ /\ Current' = [cells EXCEPT ![depth] = packets + 1]
     /\ last' = [last EXCEPT ![depth] = packets + 1]

LEMMA PacketPieces ==
  ASSUME StackTypes, mishap' = "none", SignalInv, AskedInv, CleanInv,
         NEW depth \in Depths, NEW threshold \in Thresholds,
         Packet(depth, threshold)
  PROVE  \/ /\ UNCHANGED wire /\ seq_num_r' # 0
            /\ Pieces' = Pieces /\ RecordsIn(Current, depth)
         \/ /\ ~Signalled
            /\ \/ wire' = <<SeqOverflow>> /\ seq_num_r' = 0
               \/ wire' = <<DataQuery>> /\ seq_num_r' # 0
            /\ Pieces' = Cut /\ RecordsIn(NoCells, depth)
  <1>1. /\ packets' = packets + 1
        /\ UNCHANGED <<second_highest_tb, slot, highest, data_signal, mpc, bank,
                       buffer, poll_ts, data_query_start, data_query_buffer, files,
                       clock>>
    BY PacketDoes
  <1>2. /\ qm_r \in [Bits -> [Bits -> Cells]] /\ last \in Cells
        /\ highest_bit_r \in Bits /\ second_highest_tb \in Bits
        /\ 1 - highest_bit_r \in Bits /\ 1 - highest_bit_r # highest_bit_r
        /\ PollBank.h \in Bits /\ PollBank.s \in Bits
        /\ data_signal # <<>> => Asked.h \in Bits /\ Asked.s \in Bits
        /\ 1 - (1 - highest_bit_r) = highest_bit_r
    BY Typed, Apart, BitFlip DEF StackTypes, MonitorTypes
  <1>3. highest_bit_r' \in Bits
    <2>1. highest_bit_r' \in {highest_bit_r, 1 - highest_bit_r}
      BY PacketDoes
    <2> QED
      BY <1>2, <2>1
  <1>4. /\ \A h \in Bits, s \in Bits :
             h # highest_bit_r' \/ s # second_highest_tb =>
               qm_r'[h][s] = qm_r[h][s]
        /\ \/ /\ qm_r'[highest_bit_r'][second_highest_tb]
                   = qm_r[highest_bit_r'][second_highest_tb]
              /\ last' = last
           \/ /\ qm_r'[highest_bit_r'][second_highest_tb]
                   = [qm_r[highest_bit_r'][second_highest_tb]
                        EXCEPT ![depth] = packets + 1]
              /\ last' = [last EXCEPT ![depth] = packets + 1]
    <2>1. CASE UNCHANGED <<qm_r, last>>
      BY <2>1
    <2>2. CASE /\ qm_r' = [qm_r EXCEPT
                             ![highest_bit_r'][second_highest_tb][depth] = packets']
               /\ last' = [last EXCEPT ![depth] = packets']
      BY <1>1, <1>2, <1>3, <2>2
    <2> QED
      BY <2>1, <2>2, PacketDoes
  <1>5. FilePieces' = FilePieces
    BY <1>1 DEF FilePieces
  <1>6. PollPieces' = PollPieces
    <2>1. CASE mpc \in {"toggle", "index", "read"}
      <3>1. PollBank' = PollBank /\ PollBank.s # second_highest_tb
        BY <1>1, <2>1, Apart DEF PollBank
      <3>2. qm_r'[PollBank.h][PollBank.s] = qm_r[PollBank.h][PollBank.s]
        BY <1>2, <1>4, <3>1
      <3> QED
        BY <1>1, <3>1, <3>2 DEF PollPieces, PolledCells, Polling
    <2>2. CASE mpc \notin {"toggle", "index", "read"}
      <3>1. mpc \in {"loop", "reset", "store"}
        BY <2>2 DEF StackTypes, MonitorTypes
      <3> QED
        BY <1>1, <3>1 DEF PollPieces, PolledCells, Polling
    <2> QED
      BY <2>1, <2>2
  <1>7. CASE UNCHANGED <<highest_bit_r, wire>> /\ seq_num_r' # 0
    <2>1. Frozen' = Frozen
      BY <1>1, <1>2, <1>4, <1>7 DEF Frozen
    <2>2. WirePieces' = WirePieces /\ SlotPieces' = SlotPieces
      BY <1>1, <1>7, <2>1 DEF WirePieces, SlotPieces
    <2>3. AskedPieces' = AskedPieces
      <3>1. CASE data_signal = <<>>
        BY <1>1, <3>1 DEF AskedPieces
      <3>2. CASE data_signal # <<>>
        <4>1. Asked.h # highest_bit_r /\ Asked' = Asked
          BY <1>1, <3>2, Apart DEF Asked
        <4>2. qm_r'[Asked.h][Asked.s] = qm_r[Asked.h][Asked.s]
          BY <1>2, <1>4, <1>7, <3>2, <4>1
        <4> QED
          BY <1>1, <4>1, <4>2 DEF AskedPieces, AskedCells
      <3> QED
        BY <3>1, <3>2
    <2>4. RecordsIn(Current, depth)
      BY <1>1, <1>4, <1>7 DEF RecordsIn, Current
    <2> QED
      BY <1>5, <1>6, <1>7, <2>2, <2>3, <2>4 DEF Pieces
  <1>8. CASE /\ data_query_lock_r = 0
             /\ highest_bit_r' = 1 - highest_bit_r
             /\ \/ wire' = Append(wire, SeqOverflow) /\ seq_num_r' = 0
                \/ wire' = Append(wire, DataQuery) /\ seq_num_r' # 0
    <2>1. ~Signalled /\ wire = <<>> /\ slot = NoSlot /\ data_signal = <<>>
      BY <1>8 DEF SignalInv, Signalled
    <2>2. /\ \/ wire' = <<SeqOverflow>> /\ seq_num_r' = 0
             \/ wire' = <<DataQuery>> /\ seq_num_r' # 0
          /\ wire' # <<>>
      BY <1>8, <2>1, One
    <2>3. Frozen' = Current
      BY <1>1, <1>2, <1>4, <1>8 DEF Frozen, Current
    <2>4. WirePieces = {} /\ WirePieces' = {Piece(clock + 1, Current)}
      BY <1>1, <2>1, <2>2, <2>3 DEF WirePieces
    <2>5. SlotPieces' = SlotPieces /\ AskedPieces' = AskedPieces
      BY <1>1, <2>1 DEF SlotPieces, AskedPieces
    <2>6. qm_r[highest_bit_r'][second_highest_tb] = NoCells
      <3>1. ~InUse(1 - highest_bit_r, second_highest_tb)
        BY <1>2, <2>1, Apart DEF InUse
      <3> QED
        BY <1>2, <1>8, <3>1 DEF CleanInv
    <2>7. RecordsIn(NoCells, depth)
      BY <1>1, <1>4, <2>6 DEF RecordsIn, Current
    <2> QED
      BY <1>5, <1>6, <2>1, <2>2, <2>4, <2>5, <2>7 DEF Pieces, Cut
  <1> QED
    BY <1>7, <1>8, PacketDoes

----------------------------------------------------------------------------
(* Order.                                                                  *)

PieceSet == [ts : Nat, qm : Cells]

\* What is no longer recorded in, cut from the rest.
LEMMA CutOrdered ==
  ASSUME NEW P \in SUBSET PieceSet, NEW cells \in Cells, NEW t \in Nat,
         Ordered(P, cells), \A u \in P : u.ts < t
  PROVE  Ordered(P \cup {Piece(t, cells)}, NoCells)
  <1> DEFINE w == Piece(t, cells)
             Q == P \cup {w}
  <1>1. w.ts = t /\ w.qm = cells
    BY DEF Piece
  <1>2. \A u \in P : u.ts \in Nat
    BY DEF PieceSet
  <1> HIDE DEF w
  <1>3. ASSUME NEW u \in Q, NEW v \in Q, u.ts = v.ts
        PROVE  u = v
    BY <1>1, <1>2, <1>3 DEF Ordered
  <1>4. ASSUME NEW u \in Q, NEW v \in Q, NEW d \in Depths, NEW e \in Depths,
               u.ts < v.ts, v.qm[e] # NoPacket
        PROVE  u.qm[d] < v.qm[e]
    <2>1. u \in P
      BY <1>1, <1>2, <1>4
    <2> QED
      BY <1>1, <1>4, <2>1 DEF Ordered
  <1>5. \A e \in Depths : NoCells[e] = NoPacket
    BY Empty
  <1> HIDE DEF Q
  <1>6. Ordered(Q, NoCells)
    BY <1>3, <1>4, <1>5 DEF Ordered
  <1> QED
    BY <1>6 DEF Q, w

\* A packet is later than all before it.
LEMMA RecordOrdered ==
  ASSUME NEW P \in SUBSET PieceSet, NEW cells \in Cells, NEW depth \in Depths,
         NEW n \in Nat, Ordered(P, cells),
         \A u \in P, d \in Depths : u.qm[d] <= n
  PROVE  Ordered(P, [cells EXCEPT ![depth] = n + 1])
  <1> DEFINE new == [cells EXCEPT ![depth] = n + 1]
  <1>1. ASSUME NEW u \in P, NEW d \in Depths, NEW e \in Depths, new[e] # NoPacket
        PROVE  u.qm[d] < new[e]
    <2>1. u.qm[d] \in Nat
      BY DEF PieceSet, Cells
    <2>2. CASE e = depth
      <3>1. new[e] = n + 1
        BY <2>2 DEF Cells
      <3> QED
        BY <2>1, <3>1
    <2>3. CASE e # depth
      <3>1. new[e] = cells[e]
        BY <2>3 DEF Cells
      <3> QED
        BY <1>1, <3>1 DEF Ordered
    <2> QED
      BY <2>2, <2>3
  <1> HIDE DEF new
  <1>2. Ordered(P, new)
    BY <1>1 DEF Ordered
  <1> QED
    BY <1>2 DEF new

LEMMA RecordNewest ==
  ASSUME NEW S \in SUBSET Cells, NEW cells \in Cells, NEW m \in Cells,
         NEW depth \in Depths, NEW n \in Nat,
         Newest(m, S \cup {cells}), \A d \in Depths : m[d] <= n
  PROVE  Newest([m EXCEPT ![depth] = n + 1],
                S \cup {[cells EXCEPT ![depth] = n + 1]})
  <1> DEFINE new == [cells EXCEPT ![depth] = n + 1]
             top == [m EXCEPT ![depth] = n + 1]
  <1> SUFFICES ASSUME NEW d \in Depths
               PROVE  /\ \A c \in S \cup {new} : c[d] <= top[d]
                      /\ top[d] # NoPacket =>
                           \E c \in S \cup {new} : c[d] = top[d]
    BY DEF Newest
  <1>1. CASE d = depth
    <2>1. new[d] = n + 1 /\ top[d] = n + 1
      BY <1>1 DEF Cells
    <2>2. \A c \in S : c[d] \in Nat /\ m[d] \in Nat /\ c[d] <= m[d] /\ m[d] <= n
      BY DEF Newest, Cells
    <2> HIDE DEF new, top
    <2> QED
      BY <2>1, <2>2
  <1>2. CASE d # depth
    <2>1. new[d] = cells[d] /\ top[d] = m[d]
      BY <1>2 DEF Cells
    <2> HIDE DEF new, top
    <2> QED
      BY <2>1 DEF Newest
  <1> QED
    BY <1>1, <1>2

\* The time stamps of pieces, which were given or will be next.
LEMMA PieceTimes ==
  ASSUME StackTypes, StampInv
  PROVE  /\ \A u \in Pieces : u.ts <= clock \/ (Signalled /\ u.ts = clock + 1)
         /\ \A u \in Pieces : u.ts <= clock + 1
         /\ ~Signalled => \A u \in Pieces : u.ts < clock + 1
  <1>0. clock \in Nat
    BY DEF StackTypes, MonitorTypes
  <1>1. \A u \in FilePieces : u.ts <= clock
    BY DEF FilePieces, Piece, StampInv
  <1>2. \A u \in AskedPieces : u.ts <= clock
    BY DEF AskedPieces, Piece, StampInv
  <1>3. \A u \in PollPieces : u.ts <= clock
    BY DEF PollPieces, Piece, StampInv
  <1>4. \A u \in SlotPieces : u.ts <= clock
    BY DEF SlotPieces, Piece, StampInv
  <1>5. \A u \in WirePieces : Signalled /\ u.ts = clock + 1
    BY DEF WirePieces, Piece, Signalled
  <1>6. \A u \in Pieces : u.ts \in Nat
    BY PiecesTyped
  <1>7. \A u \in Pieces : u.ts <= clock \/ (Signalled /\ u.ts = clock + 1)
    BY <1>1, <1>2, <1>3, <1>4, <1>5 DEF Pieces
  <1> QED
    BY <1>0, <1>6, <1>7

LEMMA CutNewest ==
  ASSUME NEW P, NEW cells, NEW m \in Cells, NEW t,
         Newest(m, CellsOf(P) \cup {cells})
  PROVE  Newest(m, CellsOf(P \cup {Piece(t, cells)}) \cup {NoCells})
  <1>1. CellsOf(P \cup {Piece(t, cells)}) = CellsOf(P) \cup {cells}
    <2>1. Piece(t, cells).qm = cells
      BY DEF Piece
    <2> QED
      BY <2>1 DEF CellsOf
  <1>2. \A d \in Depths : NoCells[d] <= m[d]
    BY Empty DEF Cells, NoPacket
  <1>3. Newest(m, (CellsOf(P) \cup {cells}) \cup {NoCells})
    BY <1>2 DEF Newest
  <1> QED
    BY <1>1, <1>3

LEMMA CellsTyped ==
  ASSUME NEW P \in SUBSET PieceSet
  PROVE  CellsOf(P) \subseteq Cells
  BY DEF CellsOf, PieceSet

\* Whatever it is recorded in, a packet leaves the pieces in order and is the last.
LEMMA RecordedOrder ==
  ASSUME StackTypes, NEW P \in SUBSET PieceSet, NEW cells \in Cells,
         NEW depth \in Depths, Ordered(P, cells),
         Newest(last, CellsOf(P) \cup {cells}),
         \A d \in Depths : last[d] <= packets,
         RecordsIn(cells, depth)
  PROVE  /\ Ordered(P, Current') /\ Newest(last', CellsOf(P) \cup {Current'})
         /\ \A d \in Depths : last'[d] <= packets + 1
  <1>1. packets \in Nat /\ last \in Cells /\ CellsOf(P) \in SUBSET Cells
    BY CellsTyped DEF StackTypes, MonitorTypes
  <1>2. \A d \in Depths : last[d] \in Nat
    BY <1>1 DEF Cells
  <1>3. ASSUME NEW u \in P, NEW d \in Depths
        PROVE  u.qm[d] <= packets
    <2>1. u.qm \in CellsOf(P) /\ u.qm[d] \in Nat
      BY DEF CellsOf, PieceSet, Cells
    <2>2. u.qm[d] <= last[d]
      BY <2>1 DEF Newest
    <2> QED
      BY <1>1, <1>2, <2>1, <2>2
  <1>4. CASE Current' = cells /\ last' = last
    <2>1. \A d \in Depths : last[d] <= packets + 1
      BY <1>1, <1>2
    <2> QED
      BY <1>4, <2>1
  <1>5. CASE /\ Current' = [cells EXCEPT ![depth] = packets + 1]
             /\ last' = [last EXCEPT ![depth] = packets + 1]
    <2>1. Ordered(P, Current')
      BY <1>1, <1>3, <1>5, RecordOrdered
    <2>2. Newest(last', CellsOf(P) \cup {Current'})
      BY <1>1, <1>5, RecordNewest
    <2>3. \A d \in Depths : last'[d] <= packets + 1
      <3> SUFFICES ASSUME NEW d \in Depths PROVE last'[d] <= packets + 1
        OBVIOUS
      <3>1. last'[d] = IF d = depth THEN packets + 1 ELSE last[d]
        BY <1>1, <1>5 DEF Cells
      <3> QED
        BY <1>1, <1>2, <3>1
    <2> QED
      BY <2>1, <2>2, <2>3
  <1> QED
    BY <1>4, <1>5 DEF RecordsIn

LEMMA CutInvariants ==
  ASSUME StackTypes, StampInv, OrderInv, LastInv, ~Signalled
  PROVE  /\ Cut \subseteq PieceSet
         /\ Ordered(Cut, NoCells) /\ Newest(last, CellsOf(Cut) \cup {NoCells})
  <1>1. Pieces \in SUBSET PieceSet /\ Current \in Cells /\ clock + 1 \in Nat
        /\ last \in Cells
    BY PiecesTyped, Typed DEF PieceSet, StackTypes, MonitorTypes
  <1>2. Ordered(Cut, NoCells)
    <2>1. \A u \in Pieces : u.ts < clock + 1
      BY PieceTimes
    <2> QED
      BY <1>1, <2>1, CutOrdered DEF OrderInv, Cut
  <1>3. Newest(last, CellsOf(Cut) \cup {NoCells})
    BY <1>1, CutNewest DEF LastInv, Cut
  <1> QED
    BY <1>1, <1>2, <1>3 DEF Cut, Piece, PieceSet

LEMMA NextOrder ==
  ASSUME StackTypes, mishap' = "none", SignalInv, AskedInv, CleanInv, StampInv,
         OrderInv, LastInv, [Next]_vars
  PROVE  OrderInv' /\ LastInv'
  <1>1. Pieces \in SUBSET PieceSet /\ Current \in Cells /\ NoCells \in Cells
    BY PiecesTyped, Typed, Empty DEF PieceSet
  <1>2. CASE Packets
    <2>1. PICK depth \in Depths, threshold \in Thresholds :
            Packet(depth, threshold)
      BY <1>2 DEF Packets
    <2>2. packets' = packets + 1
      BY <2>1, PacketDoes
    <2>3. CASE Pieces' = Pieces /\ RecordsIn(Current, depth)
      <3>1. /\ Ordered(Pieces, Current')
            /\ Newest(last', CellsOf(Pieces) \cup {Current'})
            /\ \A d \in Depths : last'[d] <= packets + 1
        BY <1>1, <2>3, RecordedOrder DEF OrderInv, LastInv
      <3> QED
        BY <2>2, <2>3, <3>1 DEF OrderInv, LastInv
    <2>4. CASE ~Signalled /\ Pieces' = Cut /\ RecordsIn(NoCells, depth)
      <3>1. /\ Cut \in SUBSET PieceSet
            /\ Ordered(Cut, NoCells) /\ Newest(last, CellsOf(Cut) \cup {NoCells})
        BY <2>4, CutInvariants
      <3>2. /\ Ordered(Cut, Current')
            /\ Newest(last', CellsOf(Cut) \cup {Current'})
            /\ \A d \in Depths : last'[d] <= packets + 1
        BY <1>1, <2>4, <3>1, RecordedOrder DEF LastInv
      <3> QED
        BY <2>2, <2>4, <3>2 DEF OrderInv, LastInv
    <2> QED
      BY <2>1, <2>3, <2>4, PacketPieces
  <1>3. CASE SetSecondHighest
    <2>1. Pieces' = Cut /\ Current' = NoCells
      BY <1>3, SetSecondHighestPieces
    <2>2. ~Signalled /\ UNCHANGED <<packets, last>>
      BY <1>3, SetSecondHighestDoes
    <2>3. Ordered(Cut, NoCells) /\ Newest(last, CellsOf(Cut) \cup {NoCells})
      BY <2>2, CutInvariants
    <2> QED
      BY <2>1, <2>2, <2>3 DEF OrderInv, LastInv
  <1>4. CASE OtherStep \/ UNCHANGED vars
    <2>1. Pieces' = Pieces /\ Current' = Current /\ UNCHANGED <<packets, last>>
      <3>1. CASE OtherStep
        <4>1. UNCHANGED <<packets, last>>
          BY <3>1, ReceiveDoes, FlipHighestDoes, PollStepDoes, StorePollDoes,
             ReadChunkDoes, StoreQueryDoes
          DEF OtherStep, ReadStep
        <4> QED
          BY <3>1, <4>1, OtherPieces
      <3>2. CASE UNCHANGED vars
        BY <3>2 DEF vars, switch, shared, poll, answer, past, Pieces, FilePieces,
           AskedPieces, AskedCells, Asked, PollPieces, PolledCells, PollBank,
           Polling, WirePieces, SlotPieces, Current, Frozen
      <3> QED
        BY <1>4, <3>1, <3>2
    <2> QED
      BY <2>1 DEF OrderInv, LastInv
  <1> QED
    BY <1>2, <1>3, <1>4, Steps

----------------------------------------------------------------------------
(* Time stamps.                                                            *)

LEMMA NextStamps ==
  ASSUME StackTypes, mishap' = "none", SignalInv, StampInv, Next
  PROVE  StampInv'
  <1>1. /\ clock \in Nat /\ poll_ts \in Nat /\ slot.ts \in Nat
        /\ \A f \in files : f.ts \in Nat
        /\ data_signal # <<>> => Asked.ts \in Nat
    BY Typed DEF StackTypes, MonitorTypes, FileTypes, Slots
  <1>2. CASE Packets
    <2>1. UNCHANGED <<slot, data_signal, mpc, poll_ts, files, clock>>
      BY <1>2, PacketDoes DEF Packets
    <2> QED
      BY <2>1 DEF StampInv, Polling, Asked
  <1>3. CASE Receive
    <2>1. /\ clock' = clock + 1
          /\ UNCHANGED <<data_signal, mpc, poll_ts, files>>
      BY <1>3, ReceiveDoes
    <2>2. data_signal = <<>>
      BY <1>3, ReceiveDoes DEF SignalInv, Signalled
    <2>3. slot'.ts = clock + 1
      BY <1>3, ReceiveSlot
    <2>4. /\ \A f \in files : f.ts <= clock + 1 /\ f.ts < clock + 1
          /\ Polling => poll_ts <= clock + 1 /\ poll_ts < clock + 1
      BY <1>1 DEF StampInv
    <2> QED
      BY <2>1, <2>2, <2>3, <2>4 DEF StampInv, Polling
  <1>4. CASE FlipHighest
    <2>1. /\ slot # NoSlot /\ slot' = NoSlot
          /\ data_signal' = Append(data_signal, [slot EXCEPT !.h = highest,
                                                   !.s = 1 - second_highest])
          /\ UNCHANGED <<mpc, poll_ts, files, clock>>
      BY <1>4, FlipHighestDoes
    <2>2. data_signal = <<>>
      BY <2>1 DEF SignalInv, Signalled
    <2>3. Asked' = [slot EXCEPT !.h = highest, !.s = 1 - second_highest]
      BY <2>1, <2>2, One DEF Asked
    <2>4. Asked'.ts = slot.ts
      BY <2>3 DEF StackTypes, MonitorTypes, Slots
    <2>5. /\ slot.ts <= clock /\ \A f \in files : f.ts # slot.ts
          /\ Polling => slot.ts # poll_ts
      BY <1>1, <2>1 DEF StampInv
    <2> QED
      BY <2>1, <2>4, <2>5 DEF StampInv, Polling
  <1>5. CASE SetSecondHighest
    <2>1. /\ ~Signalled /\ clock' = clock + 1 /\ poll_ts' = clock + 1
          /\ UNCHANGED <<slot, data_signal, files>>
      BY <1>5, SetSecondHighestDoes
    <2>2. slot = NoSlot
      BY <2>1 DEF Signalled
    <2>3. Asked' = Asked
      BY <2>1 DEF Asked
    <2>4. /\ \A f \in files : f.ts <= clock + 1 /\ f.ts < clock + 1
          /\ data_signal # <<>> => Asked.ts <= clock + 1 /\ Asked.ts # clock + 1
      BY <1>1 DEF StampInv
    <2> QED
      BY <1>1, <2>1, <2>2, <2>3, <2>4 DEF StampInv
  <1>6. CASE PollStep \/ ReadStep
    <2>1. /\ UNCHANGED <<slot, data_signal, poll_ts, files, clock>>
          /\ Polling' = Polling
      BY <1>6, PollStepDoes, ReadChunkDoes DEF ReadStep, Polling
    <2> QED
      BY <2>1 DEF StampInv, Asked
  <1>7. CASE StorePoll
    <2>1. /\ Polling /\ ~Polling' /\ buffer # NoCells
          /\ files' = files \cup {File(poll_ts, wrap, buffer, TRUE)}
          /\ UNCHANGED <<slot, data_signal, clock>>
      BY <1>7, StorePollDoes DEF Polling
    <2>2. PICK f : f = File(poll_ts, wrap, buffer, TRUE)
      OBVIOUS
    <2>3. f.ts = poll_ts /\ f.qm = buffer
      BY <2>2 DEF File
    <2>4. /\ poll_ts <= clock /\ \A g \in files : g.ts < poll_ts /\ g.ts # poll_ts
          /\ data_signal # <<>> => Asked.ts # poll_ts
          /\ slot # NoSlot => poll_ts < slot.ts
      BY <1>1, <2>1 DEF StampInv
    <2>5. Asked' = Asked /\ files' = files \cup {f}
      BY <2>1, <2>2 DEF Asked
    <2> QED
      BY <2>1, <2>3, <2>4, <2>5 DEF StampInv
  <1>8. CASE StoreQuery
    <2>1. /\ mpc = "loop" /\ data_signal # <<>> /\ data_signal' = Tail(data_signal)
          /\ data_query_buffer # NoCells
          /\ files' = files \cup {File(Asked.ts, FALSE, data_query_buffer, FALSE)}
          /\ UNCHANGED <<slot, mpc, clock>>
      BY <1>8, StoreQueryDoes
    <2>2. slot = NoSlot
      BY <2>1 DEF SignalInv, Signalled
    <2>3. data_signal = <<Head(data_signal)>>
      BY <2>1 DEF SignalInv, Single
    <2>4. data_signal' = <<>>
      BY <2>1, <2>3, One
    <2>5. PICK f : f = File(Asked.ts, FALSE, data_query_buffer, FALSE)
      OBVIOUS
    <2>6. f.ts = Asked.ts /\ f.qm = data_query_buffer
      BY <2>5 DEF File
    <2>7. Asked.ts <= clock /\ \A g \in files : g.ts # Asked.ts
      BY <2>1 DEF StampInv
    <2>8. files' = files \cup {f} /\ ~Polling'
      BY <2>1, <2>5 DEF Polling
    <2> QED
      BY <2>1, <2>2, <2>4, <2>6, <2>7, <2>8 DEF StampInv
  <1> QED
    BY <1>2, <1>3, <1>4, <1>5, <1>6, <1>7, <1>8, Steps
    DEF OtherStep, Next, Packets, PollStep, ReadStep

----------------------------------------------------------------------------
(* Sequence numbers.                                                       *)

Period == 2^SeqBits

\* Arithmetic that the provers do not have: they know exponentiation by name
\* only.
PowerOfTwo == Period \in Nat \ {0}

\* A sequence number that comes round is 0.
LEMMA NextSeq ==
  ASSUME NEW n \in Nat, NEW b \in Nat \ {0}
  PROVE  /\ ((n % b) + 1) % b = (n + 1) % b
         /\ (n + 1) % b = 0 => (n + 1) \div b = n \div b + 1
         /\ (n + 1) % b # 0 => (n + 1) \div b = n \div b
  <1> DEFINE q == n \div b
             r == n % b
  <1>1. q \in Nat /\ r \in Nat /\ r < b /\ n = q * b + r
    BY Divided
  <1> HIDE DEF q, r
  <1>2. CASE r + 1 = b
    <2>1. (q + 1) * b = q * b + b /\ (q + 2) * b = (q + 1) * b + b
      BY <1>1
    <2>2. (n + 1) \div b = q + 1 /\ (n + 1) % b = n + 1 - (q + 1) * b
      <3>1. PICK c \in Int, m \in Int : c = q + 1 /\ m = n + 1
        BY <1>1
      <3>2. c * b <= m /\ m < (c + 1) * b
        BY <1>1, <1>2, <3>1
      <3>3. m \div b = c /\ m % b = m - c * b
        BY <3>2, DivIs
      <3> QED
        BY <3>1, <3>3
    <2>3. (r + 1) % b = 0
      <3>1. 1 * b <= r + 1 /\ r + 1 < (1 + 1) * b
        BY <1>1, <1>2
      <3>2. (r + 1) % b = r + 1 - 1 * b
        BY <1>1, <3>1, DivIs
      <3> QED
        BY <1>1, <1>2, <3>2
    <2> QED
      BY <1>1, <1>2, <2>1, <2>2, <2>3 DEF q, r
  <1>3. CASE r + 1 # b
    <2>1. (q + 1) * b = q * b + b
      BY <1>1
    <2>2. (n + 1) \div b = q /\ (n + 1) % b = n + 1 - q * b
      <3>1. q * b <= n + 1 /\ n + 1 < (q + 1) * b
        BY <1>1, <1>3, <2>1
      <3> QED
        BY <1>1, <3>1, DivIs
    <2>3. (r + 1) % b = r + 1
      <3>1. r + 1 \in Nat /\ r + 1 < b
        BY <1>1, <1>3
      <3> QED
        BY <3>1, ModSmall
    <2> QED
      BY <1>1, <1>3, <2>2, <2>3 DEF q, r
  <1> QED
    BY <1>2, <1>3

\* What counts for a file does not change by what does not touch it.
LEMMA SameBefore ==
  ASSUME UNCHANGED <<files, wrap>>, NEW t, (wrap => WrapFrom' = WrapFrom)
  PROVE  Before(t)' = Before(t)
  BY DEF Before, OverflowFiles

LEMMA LaterSame ==
  ASSUME StackTypes, StampInv, NEW t \in Nat, clock < t
  PROVE  OverflowFiles(t) = {f \in files : f.overflow}
  <1>1. \A f \in files : f.ts \in Nat /\ f.ts <= clock /\ clock \in Nat
    BY DEF StackTypes, FileTypes, MonitorTypes, StampInv
  <1> QED
    BY <1>1 DEF OverflowFiles

LEMMA CountTyped ==
  ASSUME StackTypes, NEW t
  PROVE  /\ IsFiniteSet(OverflowFiles(t)) /\ Cardinality(OverflowFiles(t)) \in Nat
         /\ Before(t) \in Nat
  <1>1. IsFiniteSet(OverflowFiles(t))
    BY FS_Subset DEF StackTypes, FileTypes, OverflowFiles
  <1>2. Cardinality(OverflowFiles(t)) \in Nat
    BY <1>1, FS_CardinalityType
  <1> QED
    BY <1>1, <1>2 DEF Before

LEMMA PacketSeq ==
  ASSUME PowerOfTwo, StackTypes, mishap' = "none", SignalInv, AskedInv, CleanInv, StampInv,
         WrapInv, Packets
  PROVE  WrapInv'
  <1>1. PICK depth \in Depths, threshold \in Thresholds : Packet(depth, threshold)
    BY DEF Packets
  <1>2. packets \in Nat /\ Period \in Nat \ {0} /\ clock \in Nat
    BY DEF PowerOfTwo, StackTypes, MonitorTypes
  <1>3. /\ packets' = packets + 1 /\ seq_num_r' = (seq_num_r + 1) % Period
        /\ UNCHANGED <<wrap, mpc, poll_ts, files, clock>>
    BY <1>1, PacketDoes DEF Period
  <1>4. \A t : Before(t)' = Before(t)
    BY <1>3, SameBefore DEF WrapFrom, Polling
  <1>5. seq_num_r = packets % Period
    BY DEF WrapInv, Period
  <1>6. /\ seq_num_r' = packets' % Period
        /\ seq_num_r' = 0 => packets' \div Period = packets \div Period + 1
        /\ seq_num_r' # 0 => packets' \div Period = packets \div Period
    BY <1>2, <1>3, <1>5, NextSeq
  <1>7. ASSUME NEW cells \in Cells, RecordsIn(cells, depth),
               SeqOf(cells, packets' \div Period)
        PROVE  SeqOf(Current', packets' \div Period)
    <2>1. CASE Current' = cells
      BY <1>7, <2>1
    <2>2. CASE Current' = [cells EXCEPT ![depth] = packets + 1]
      <3> SUFFICES ASSUME NEW d \in Depths, Current'[d] # NoPacket
                   PROVE  Current'[d] \div Period = packets' \div Period
        BY DEF SeqOf, Period
      <3>1. Current'[d] = IF d = depth THEN packets + 1 ELSE cells[d]
        BY <2>2 DEF Cells
      <3>2. CASE d = depth
        BY <1>3, <3>1, <3>2
      <3>3. CASE d # depth
        BY <1>7, <3>1, <3>3 DEF SeqOf, Period
      <3> QED
        BY <3>2, <3>3
    <2> QED
      BY <1>7, <2>1, <2>2 DEF RecordsIn
  <1>8. /\ \A u \in Pieces : SeqOf(u.qm, Before(u.ts))
        /\ SeqOf(Current, packets \div Period)
        /\ packets \div Period =
             Before(clock + 1) + (IF wire = <<SeqOverflow>> THEN 1 ELSE 0)
    BY DEF WrapInv, Period
  <1>9. Current \in Cells /\ NoCells \in Cells
    BY Typed, Empty
  <1>10. CASE /\ UNCHANGED wire /\ seq_num_r' # 0
              /\ Pieces' = Pieces /\ RecordsIn(Current, depth)
    <2>1. packets' \div Period = packets \div Period
      BY <1>6, <1>10
    <2>2. SeqOf(Current', packets' \div Period)
      BY <1>7, <1>8, <1>9, <1>10, <2>1
    <2>3. \A u \in Pieces' : SeqOf(u.qm, Before(u.ts)')
      BY <1>4, <1>8, <1>10
    <2> QED
      BY <1>3, <1>4, <1>6, <1>8, <1>10, <2>1, <2>2, <2>3 DEF WrapInv, Period
  <1>11. CASE /\ ~Signalled
              /\ \/ wire' = <<SeqOverflow>> /\ seq_num_r' = 0
                 \/ wire' = <<DataQuery>> /\ seq_num_r' # 0
              /\ Pieces' = Cut /\ RecordsIn(NoCells, depth)
    <2>1. wire # <<SeqOverflow>>
      BY <1>11, One DEF Signalled
    <2>2. packets \div Period = Before(clock + 1)
      <3>1. Before(clock + 1) \in Nat
        BY CountTyped
      <3> QED
        BY <1>8, <2>1, <3>1
    <2>3. packets' \div Period =
            Before(clock + 1) + (IF wire' = <<SeqOverflow>> THEN 1 ELSE 0)
      <3>1. <<DataQuery>> # <<SeqOverflow>>
        <4>1. Head(<<DataQuery>>) = DataQuery /\ Head(<<SeqOverflow>>) = SeqOverflow
          BY One
        <4>2. DataQuery # SeqOverflow
          BY DEF DataQuery, SeqOverflow
        <4> QED
          BY <4>1, <4>2
      <3>2. Before(clock + 1) \in Nat
        BY CountTyped
      <3> QED
        BY <1>6, <1>11, <2>2, <3>1, <3>2
    <2>4. SeqOf(Current', packets' \div Period)
      <3>1. SeqOf(NoCells, packets' \div Period)
        BY Empty DEF SeqOf
      <3> QED
        BY <1>7, <1>9, <1>11, <3>1
    <2>5. \A u \in Pieces' : SeqOf(u.qm, Before(u.ts)')
      <3>1. /\ Piece(clock + 1, Current).ts = clock + 1
            /\ Piece(clock + 1, Current).qm = Current
        BY DEF Piece
      <3> QED
        BY <1>4, <1>8, <1>11, <2>2, <3>1 DEF Cut
    <2> QED
      BY <1>3, <1>4, <1>6, <2>3, <2>4, <2>5 DEF WrapInv, Period
  <1> QED
    BY <1>1, <1>10, <1>11, PacketPieces

\* A file that says it followed an overflow counts for what was not yet stored.
LEMMA StoredBefore ==
  ASSUME StackTypes, mishap' = "none", StampInv, StorePoll, NEW t \in Nat
  PROVE  Before(t)' = Before(t)
  <1>1. /\ Polling /\ ~wrap'
        /\ files' = files \cup {File(poll_ts, wrap, buffer, TRUE)}
    BY StorePollDoes DEF Polling
  <1>2. PICK f : f = File(poll_ts, wrap, buffer, TRUE)
    OBVIOUS
  <1>3. f.ts = poll_ts /\ f.overflow = wrap
    BY <1>2 DEF File
  <1>4. f \notin files
    <2>1. /\ poll_ts \in Nat /\ \A g \in files : g.ts \in Nat
          /\ \A g \in files : g.ts < poll_ts
      BY <1>1 DEF StackTypes, FileTypes, StampInv
    <2> QED
      BY <1>3, <2>1
  <1>5. /\ IsFiniteSet(OverflowFiles(t)) /\ Cardinality(OverflowFiles(t)) \in Nat
        /\ f \notin OverflowFiles(t)
    BY <1>4, CountTyped DEF OverflowFiles
  <1>6. Before(t)' = Cardinality(OverflowFiles(t)')
    <2>1. Cardinality(OverflowFiles(t)') \in Nat
      <3>1. OverflowFiles(t)' \subseteq OverflowFiles(t) \cup {f}
        BY <1>1, <1>2 DEF OverflowFiles
      <3>2. IsFiniteSet(OverflowFiles(t) \cup {f})
        BY <1>5, FS_AddElement
      <3> QED
        BY <3>1, <3>2, FS_Subset, FS_CardinalityType
    <2> QED
      BY <1>1, <2>1 DEF Before
  <1>7. CASE wrap /\ poll_ts <= t
    <2>1. OverflowFiles(t)' = OverflowFiles(t) \cup {f}
      BY <1>1, <1>2, <1>3, <1>7 DEF OverflowFiles
    <2>2. Cardinality(OverflowFiles(t) \cup {f}) = Cardinality(OverflowFiles(t)) + 1
      BY <1>5, FS_AddElement
    <2>3. Before(t) = Cardinality(OverflowFiles(t)) + 1
      BY <1>1, <1>7 DEF Before, WrapFrom
    <2> QED
      BY <1>6, <2>1, <2>2, <2>3
  <1>8. CASE ~(wrap /\ poll_ts <= t)
    <2>1. OverflowFiles(t)' = OverflowFiles(t)
      BY <1>1, <1>2, <1>3, <1>8 DEF OverflowFiles
    <2>2. Before(t) = Cardinality(OverflowFiles(t))
      BY <1>1, <1>5, <1>8 DEF Before, WrapFrom
    <2> QED
      BY <1>6, <2>1, <2>2
  <1> QED
    BY <1>7, <1>8

LEMMA OtherSeq ==
  ASSUME StackTypes, mishap' = "none", SignalInv, AskedInv, StampInv, WrapInv,
         OtherStep
  PROVE  WrapInv'
  <1>1. /\ Pieces' = Pieces /\ Current' = Current
        /\ UNCHANGED <<packets, seq_num_r>>
    <2>1. UNCHANGED <<packets, seq_num_r>>
      BY ReceiveDoes, FlipHighestDoes, PollStepDoes, StorePollDoes, ReadChunkDoes,
         StoreQueryDoes
      DEF OtherStep, ReadStep
    <2> QED
      BY <2>1, OtherPieces
  <1>2. clock \in Nat /\ Pieces \subseteq PieceSet
    BY PiecesTyped DEF StackTypes, MonitorTypes, PieceSet
  <1>3. \A u \in Pieces : u.ts \in Nat /\ u.ts <= clock + 1
    BY <1>2, PieceTimes DEF PieceSet
  <1>4. CASE Receive
    <2>1. /\ wire # <<>> /\ clock' = clock + 1
          /\ ~wrap /\ (wrap' <=> Head(wire) = SeqOverflow)
          /\ Head(wire) = SeqOverflow => mpc = "loop"
          /\ UNCHANGED <<mpc, poll_ts, files>>
      BY <1>4, ReceiveDoes
    <2>2. wire' = <<>>
      BY <1>4, ReceiveSlot
    <2>3. wire = <<SeqOverflow>> <=> wrap'
      <3>1. wire = <<Head(wire)>>
        BY <2>1 DEF SignalInv, Single
      <3>2. Head(<<SeqOverflow>>) = SeqOverflow
        BY One
      <3> QED
        BY <2>1, <3>1, <3>2
    <2>4. wrap' => WrapFrom' = clock + 2
      <3>1. wrap' => ~Polling'
        BY <2>1 DEF Polling
      <3> QED
        BY <1>2, <2>1, <3>1 DEF WrapFrom
    <2>5. \A t : OverflowFiles(t)' = OverflowFiles(t)
      BY <2>1 DEF OverflowFiles
    <2>6. \A t : Cardinality(OverflowFiles(t)) \in Nat
      BY CountTyped
    <2>7. \A t : Before(t) = Cardinality(OverflowFiles(t))
      BY <2>1, <2>6 DEF Before
    <2>8. ASSUME NEW t \in Nat, t <= clock + 1
          PROVE  Before(t)' = Before(t)
      <3>1. ~(wrap' /\ WrapFrom' <= t)
        BY <1>2, <2>4, <2>8
      <3> QED
        BY <2>5, <2>6, <2>7, <3>1 DEF Before
    <2>9. Before(clock + 1)' = Before(clock + 1) + (IF wrap' THEN 1 ELSE 0)
      <3>1. PICK t \in Nat : t = clock + 2
        BY <1>2
      <3>2. t = clock' + 1 /\ clock < t /\ clock < clock + 1 /\ clock + 1 \in Nat
        BY <1>2, <2>1, <3>1
      <3>3. wrap' => WrapFrom' <= t
        BY <1>2, <2>4, <3>1
      <3>4. OverflowFiles(t) = OverflowFiles(clock + 1)
        BY <3>2, LaterSame
      <3>5. Before(clock + 1)' = Before(t)'
        BY <3>2 DEF Before, OverflowFiles
      <3>6. Before(t)' = Cardinality(OverflowFiles(t)) + (IF wrap' THEN 1 ELSE 0)
        BY <2>5, <3>2, <3>3 DEF Before
      <3> QED
        BY <2>7, <3>4, <3>5, <3>6
    <2>10. wire' # <<SeqOverflow>>
      BY <2>2, One
    <2>11. \A u \in Pieces' : SeqOf(u.qm, Before(u.ts)')
      BY <1>1, <1>3, <2>8 DEF WrapInv
    <2>12. packets \div Period = Before(clock + 1)'
      BY <2>3, <2>9 DEF WrapInv, Period
    <2>13. packets \div Period =
             Before(clock + 1)' + (IF wire' = <<SeqOverflow>> THEN 1 ELSE 0)
      <3>1. Before(clock + 1)' \in Nat
        <4>1. Before(clock + 1) \in Nat
          BY CountTyped
        <4> QED
          BY <2>9, <4>1
      <3> QED
        BY <2>10, <2>12, <3>1
    <2> QED
      BY <1>1, <2>11, <2>13 DEF WrapInv, Period
  <1>5. CASE FlipHighest \/ PollStep \/ StorePoll \/ ReadStep \/ StoreQuery
    <2>1. UNCHANGED <<wire, clock>>
      BY <1>5, FlipHighestDoes, PollStepDoes, StorePollDoes, ReadChunkDoes,
         StoreQueryDoes
      DEF ReadStep
    <2>2. ASSUME NEW t \in Nat
          PROVE  Before(t)' = Before(t)
      <3>1. CASE FlipHighest \/ PollStep \/ ReadStep
        <4>1. /\ UNCHANGED <<files, wrap, poll_ts, clock>>
              /\ Polling' = Polling
          BY <3>1, FlipHighestDoes, PollStepDoes, ReadChunkDoes
          DEF ReadStep, Polling
        <4> QED
          BY <4>1, SameBefore DEF WrapFrom
      <3>2. CASE StorePoll
        BY <3>2, StoredBefore
      <3>3. CASE StoreQuery
        <4>1. /\ files' = files \cup
                            {File(Asked.ts, FALSE, data_query_buffer, FALSE)}
              /\ UNCHANGED <<wrap, mpc, poll_ts, clock>>
          BY <3>3, StoreQueryDoes
        <4>2. PICK f : f = File(Asked.ts, FALSE, data_query_buffer, FALSE)
          OBVIOUS
        <4>3. f.overflow = FALSE
          BY <4>2 DEF File
        <4>4. OverflowFiles(t)' = OverflowFiles(t)
          BY <4>1, <4>2, <4>3 DEF OverflowFiles
        <4>5. WrapFrom' = WrapFrom
          BY <4>1 DEF WrapFrom, Polling
        <4> QED
          BY <4>1, <4>4, <4>5 DEF Before
      <3> QED
        BY <1>5, <3>1, <3>2, <3>3
    <2>3. \A u \in Pieces' : SeqOf(u.qm, Before(u.ts)')
      BY <1>1, <1>3, <2>2 DEF WrapInv
    <2>4. Before(clock + 1)' = Before(clock + 1)
      <3>1. PICK t \in Nat : t = clock + 1
        BY <1>2
      <3>2. Before(clock + 1)' = Before(t)'
        BY <2>1, <3>1 DEF Before, OverflowFiles
      <3> QED
        BY <2>2, <3>1, <3>2
    <2> QED
      BY <1>1, <2>1, <2>3, <2>4 DEF WrapInv
  <1> QED
    BY <1>4, <1>5 DEF OtherStep

LEMMA SetSecondHighestSeq ==
  ASSUME StackTypes, mishap' = "none", SignalInv, AskedInv, CleanInv, StampInv,
         WrapInv, SetSecondHighest
  PROVE  WrapInv'
  <1>1. /\ ~Signalled /\ mpc = "loop" /\ mpc' = "toggle"
        /\ clock' = clock + 1 /\ poll_ts' = clock + 1
        /\ UNCHANGED <<packets, seq_num_r, wire, wrap, files>>
    BY SetSecondHighestDoes
  <1>2. Pieces' = Cut /\ Current' = NoCells
    BY SetSecondHighestPieces
  <1>3. clock \in Nat
    BY DEF StackTypes, MonitorTypes
  <1>4. WrapFrom = clock + 1 /\ WrapFrom' = clock + 1
    BY <1>1 DEF WrapFrom, Polling
  <1>5. \A t : Before(t)' = Before(t)
    BY <1>1, <1>4, SameBefore
  <1>6. packets \div Period = Before(clock + 1) /\ wire # <<SeqOverflow>>
    <2>1. wire # <<SeqOverflow>>
      BY <1>1, One DEF Signalled
    <2>2. Before(clock + 1) \in Nat
      BY CountTyped
    <2> QED
      BY <2>1, <2>2 DEF WrapInv, Period
  <1>7. Before(clock + 1)' = Before(clock + 1)
    <2>1. PICK t \in Nat : t = clock + 2
      BY <1>3
    <2>2. t = clock' + 1 /\ clock < t /\ clock < clock + 1 /\ clock + 1 \in Nat
          /\ clock + 1 <= t
      BY <1>1, <1>3, <2>1
    <2>3. OverflowFiles(t) = OverflowFiles(clock + 1)
      BY <2>2, LaterSame
    <2>4. Before(t) = Before(clock + 1)
      BY <1>4, <2>2, <2>3 DEF Before
    <2>5. Before(clock + 1)' = Before(t)'
      BY <2>2 DEF Before, OverflowFiles
    <2> QED
      BY <1>5, <2>4, <2>5
  <1>8. \A u \in Pieces' : SeqOf(u.qm, Before(u.ts)')
    <2>1. /\ Piece(clock + 1, Current).ts = clock + 1
          /\ Piece(clock + 1, Current).qm = Current
      BY DEF Piece
    <2>2. /\ \A u \in Pieces : SeqOf(u.qm, Before(u.ts))
          /\ SeqOf(Current, Before(clock + 1))
      BY <1>6 DEF WrapInv, Period
    <2> QED
      BY <1>2, <1>5, <2>1, <2>2 DEF Cut
  <1>9. SeqOf(Current', packets' \div Period)
    BY <1>2, Empty DEF SeqOf
  <1>10. packets' \div Period = Before(clock + 1)' + 0
    <2>1. Before(clock + 1) \in Nat
      BY CountTyped
    <2> QED
      BY <1>1, <1>6, <1>7, <2>1
  <1> QED
    BY <1>1, <1>6, <1>8, <1>9, <1>10 DEF WrapInv, Period

----------------------------------------------------------------------------
(* The stack of the last poll.                                             *)

LEMMA LatestIs ==
  ASSUME NEW S \in SUBSET Cells, NEW m \in Cells, Newest(m, S \cup {NoCells})
  PROVE  Latest(S) = m
  <1>1. ASSUME NEW d \in Depths
        PROVE  m[d] = CHOOSE p \in {cells[d] : cells \in S} \cup {NoPacket} :
                        \A cells \in S : cells[d] <= p
    <2> DEFINE V == {cells[d] : cells \in S} \cup {NoPacket}
    <2>1. m[d] \in Nat /\ V \subseteq Nat
      BY DEF Cells, NoPacket
    <2>2. NoCells[d] = NoPacket
      BY Empty
    <2>3. m[d] \in V
      BY <2>2 DEF Newest
    <2>4. \A p \in V : p <= m[d]
      <3>1. NoPacket <= m[d]
        BY <2>1 DEF NoPacket
      <3> QED
        BY <3>1 DEF Newest
    <2>5. \A cells \in S : cells[d] \in V
      OBVIOUS
    <2>6. ASSUME NEW p \in V, \A cells \in S : cells[d] <= p
          PROVE  p = m[d]
      <3>1. p <= m[d] /\ p \in Nat
        BY <2>1, <2>4
      <3>2. m[d] <= p
        BY <2>1, <2>3, <2>6, <3>1 DEF NoPacket
      <3> QED
        BY <2>1, <3>1, <3>2
    <2>7. \A cells \in S : cells[d] <= m[d]
      BY <2>4, <2>5
    <2> HIDE DEF V
    <2>8. m[d] = CHOOSE p \in V : \A cells \in S : cells[d] <= p
      BY <2>3, <2>6, <2>7
    <2> QED
      BY <2>8 DEF V
  <1>2. m = [d \in Depths |-> m[d]]
    BY DEF Cells
  <1>3. [d \in Depths |-> m[d]]
          = [d \in Depths |-> CHOOSE p \in {cells[d] : cells \in S} \cup {NoPacket} :
                                \A cells \in S : cells[d] <= p]
    BY <1>1
  <1> QED
    BY <1>2, <1>3 DEF Latest

LEMMA LastPollTime ==
  ASSUME StampInv, NEW t, LastPoll(t)
  PROVE  t <= clock
  BY DEF StampInv, LastPoll

LEMMA NextStack ==
  ASSUME StackTypes, mishap' = "none", SignalInv, AskedInv, CleanInv, StampInv,
         LastInv, StackInv, StackTypes', StampInv', LastInv', [Next]_vars
  PROVE  StackInv'
  <1>0. /\ clock \in Nat /\ clock' \in Nat
        /\ \A u \in Pieces : u.ts \in Nat
    BY PiecesTyped DEF StackTypes, MonitorTypes
  <1>1. SUFFICES ASSUME NEW t \in 0 .. clock', LastPoll(t)'
                 PROVE  stack' = Stack(Latest(CellsOf(Until(Pieces', t))))
    BY DEF StackInv
  <1>2. CASE SetSecondHighest
    <2>1. /\ ~Signalled /\ mpc' = "toggle"
          /\ clock' = clock + 1 /\ poll_ts' = clock + 1
          /\ stack' = Stack(last) /\ last' = last
      BY <1>2, SetSecondHighestDoes
    <2>2. Pieces' = Cut /\ Current' = NoCells
      BY <1>2, SetSecondHighestPieces
    <2>3. t = clock + 1
      BY <1>1, <2>1 DEF LastPoll, Polling
    <2>4. Until(Pieces', t) = Pieces'
      <3>1. \A u \in Pieces : u.ts <= t
        BY <2>1, <2>3, PieceTimes
      <3>2. Piece(clock + 1, Current).ts <= t
        BY <1>0, <2>3 DEF Piece
      <3> QED
        BY <2>2, <3>1, <3>2 DEF Until, Cut
    <2>5. Latest(CellsOf(Pieces')) = last
      <3>1. CellsOf(Pieces') \in SUBSET Cells /\ last \in Cells
        <4>1. Cut \subseteq PieceSet
          <5>1. Current \in Cells /\ clock + 1 \in Nat
            BY <1>0, Typed
          <5> QED
            BY <5>1, PiecesTyped DEF Cut, Piece, PieceSet
        <4> QED
          BY <2>2, <4>1, CellsTyped DEF StackTypes, MonitorTypes
      <3>2. Newest(last, CellsOf(Pieces') \cup {NoCells})
        BY <2>1, <2>2 DEF LastInv
      <3> QED
        BY <3>1, <3>2, LatestIs
    <2> QED
      BY <2>1, <2>4, <2>5
  <1>3. CASE Packets \/ OtherStep \/ UNCHANGED vars
    <2>1. stack' = stack
      BY <1>3, PacketDoes, ReceiveDoes, FlipHighestDoes, PollStepDoes,
         StorePollDoes, ReadChunkDoes, StoreQueryDoes
      DEF Packets, OtherStep, ReadStep, vars, past
    <2>2. LastPoll(t)
      <3>1. CASE UNCHANGED <<mpc, poll_ts, files>>
        BY <1>1, <3>1 DEF LastPoll, Polling
      <3>2. CASE PollStep
        <4>1. Polling /\ Polling' /\ poll_ts' = poll_ts
          BY <3>2, PollStepDoes DEF Polling
        <4> QED
          BY <1>1, <4>1 DEF LastPoll
      <3>3. CASE StorePoll
        <4>1. /\ Polling /\ ~Polling'
              /\ files' = files \cup {File(poll_ts, wrap, buffer, TRUE)}
          BY <3>3, StorePollDoes DEF Polling
        <4>2. PICK new : new = File(poll_ts, wrap, buffer, TRUE)
          OBVIOUS
        <4>3. new.ts = poll_ts /\ new.poll = TRUE
          BY <4>2 DEF File
        <4>4. PICK f \in files' : /\ f.ts = t
                                  /\ \A g \in files' : g.poll => g.ts <= t
          BY <1>1, <4>1 DEF LastPoll
        <4>5. poll_ts <= t
          BY <4>1, <4>2, <4>3, <4>4
        <4>6. /\ \A g \in files : g.ts < poll_ts /\ g.ts \in Nat
              /\ poll_ts \in Nat
          BY <4>1 DEF StampInv, StackTypes, FileTypes
        <4>7. t = poll_ts
          <5>1. f \in files \/ f = new
            BY <4>1, <4>2, <4>4
          <5>2. CASE f \in files
            BY <4>4, <4>5, <4>6, <5>2
          <5> QED
            BY <4>3, <4>4, <5>1, <5>2
        <4> QED
          BY <4>1, <4>7 DEF LastPoll
      <3>4. CASE StoreQuery
        <4>1. /\ ~Polling /\ ~Polling'
              /\ files' = files \cup
                            {File(Asked.ts, FALSE, data_query_buffer, FALSE)}
          BY <3>4, StoreQueryDoes DEF Polling
        <4>2. PICK new : new = File(Asked.ts, FALSE, data_query_buffer, FALSE)
          OBVIOUS
        <4>3. new.poll = FALSE
          BY <4>2 DEF File
        <4> QED
          BY <1>1, <4>1, <4>2, <4>3 DEF LastPoll
      <3>5. UNCHANGED <<mpc, poll_ts, files>> \/ PollStep \/ StorePoll \/ StoreQuery
        BY <1>3, PacketDoes, ReceiveDoes, FlipHighestDoes, ReadChunkDoes
        DEF Packets, OtherStep, ReadStep, vars, poll
      <3> QED
        BY <3>1, <3>2, <3>3, <3>4, <3>5
    <2>3. t <= clock
      BY <2>2, LastPollTime
    <2>4. Until(Pieces', t) = Until(Pieces, t)
      <3>1. CASE Pieces' = Pieces
        BY <3>1
      <3>2. CASE Pieces' = Cut
        <4>1. ~(Piece(clock + 1, Current).ts <= t)
          BY <1>0, <2>3 DEF Piece
        <4> QED
          BY <3>2, <4>1 DEF Cut, Until
      <3>3. Pieces' = Pieces \/ Pieces' = Cut
        <4>1. CASE Packets
          BY <4>1, PacketPieces DEF Packets
        <4>2. CASE OtherStep
          BY <4>2, OtherPieces
        <4>3. CASE UNCHANGED vars
          BY <4>3 DEF vars, switch, shared, poll, answer, Pieces, FilePieces,
             AskedPieces, AskedCells, Asked, PollPieces, PolledCells, PollBank,
             Polling, WirePieces, SlotPieces, Frozen
        <4> QED
          BY <1>3, <4>1, <4>2, <4>3
      <3> QED
        BY <3>1, <3>2, <3>3
    <2>5. t \in 0 .. clock
      BY <1>0, <2>3
    <2> QED
      BY <2>1, <2>2, <2>4, <2>5 DEF StackInv
  <1> QED
    BY <1>2, <1>3, Steps

----------------------------------------------------------------------------
(* The invariant of the pieces.                                            *)

StackIInv == StackTypes /\ PiecesInv

LEMMA InitPieces == PowerOfTwo /\ Init => StackIInv
  <1> SUFFICES ASSUME PowerOfTwo, Init PROVE StackIInv
    OBVIOUS
  <1>1. StackTypes
    BY InitTypes, InitRead, InitFileTypes DEF StackTypes
  <1>2. /\ highest_bit_r = 0 /\ second_highest_tb = 0 /\ highest = 0
        /\ wire = <<>> /\ slot = NoSlot /\ data_signal = <<>>
        /\ mpc = "loop" /\ files = {} /\ data_query_start = 0
        /\ wrap = FALSE /\ packets = 0 /\ seq_num_r = 0 /\ clock = 0
        /\ last = NoCells
    BY DEF Init
  <1>3. \A h \in Bits, s \in Bits : qm_r[h][s] = NoCells
    BY DEF Init
  <1>4. ~Signalled /\ ~Polling /\ wire # <<SeqOverflow>>
    BY <1>2, One DEF Signalled, Polling
  <1>5. SignalInv
    BY <1>2, <1>4, One DEF SignalInv
  <1>6. AskedInv /\ CleanInv /\ StampInv
    BY <1>2, <1>3, <1>4 DEF AskedInv, CleanInv, StampInv
  <1>7. Pieces = {} /\ Current = NoCells
    <2>1. FilePieces = {} /\ AskedPieces = {} /\ PollPieces = {}
          /\ WirePieces = {} /\ SlotPieces = {}
      BY <1>2, <1>4
      DEF FilePieces, AskedPieces, PollPieces, WirePieces, SlotPieces
    <2>2. highest_bit_r \in Bits /\ second_highest_tb \in Bits
      BY <1>2 DEF Bits
    <2> QED
      BY <1>3, <2>1, <2>2 DEF Pieces, Current
  <1>8. OrderInv
    BY <1>7, Empty DEF OrderInv, Ordered
  <1>9. LastInv
    <2>1. \A d \in Depths : NoCells[d] = 0
      BY Empty DEF NoPacket
    <2> QED
      BY <1>2, <1>7, <2>1 DEF LastInv, Newest, CellsOf, NoPacket
  <1>10. WrapInv
    <2>1. packets % Period = 0 /\ packets \div Period = 0
      <3>1. 0 \in Nat /\ Period \in Nat \ {0} /\ 0 < Period
        BY DEF PowerOfTwo
      <3> QED
        BY <1>2, <3>1, ModSmall
    <2>2. Before(clock + 1) = 0
      <3>1. OverflowFiles(clock + 1) = {}
        BY <1>2 DEF OverflowFiles
      <3>2. Cardinality({}) = 0
        BY FS_EmptySet
      <3>3. ~wrap
        BY <1>2
      <3> QED
        BY <3>1, <3>2, <3>3 DEF Before
    <2>3. SeqOf(Current, packets \div Period)
      BY <1>7, Empty DEF SeqOf
    <2> QED
      BY <1>2, <1>4, <1>7, <2>1, <2>2, <2>3 DEF WrapInv, Period
  <1>11. StackInv
    BY <1>2, <1>4 DEF StackInv, LastPoll
  <1> QED
    BY <1>1, <1>5, <1>6, <1>8, <1>9, <1>10, <1>11 DEF StackIInv, PiecesInv

LEMMA NextPieces == PowerOfTwo /\ StackIInv /\ [Next]_vars => StackIInv'
  <1> SUFFICES ASSUME PowerOfTwo, StackIInv, [Next]_vars PROVE StackIInv'
    OBVIOUS
  <1>1. StackTypes /\ StackTypes'
    BY NextTypes, NextRead, NextFileTypes DEF StackIInv, StackTypes
  <1>2. SUFFICES ASSUME mishap' = "none"
                 PROVE  /\ SignalInv' /\ AskedInv' /\ CleanInv' /\ StampInv'
                        /\ OrderInv' /\ LastInv' /\ WrapInv' /\ StackInv'
    BY <1>1 DEF StackIInv, PiecesInv
  <1>3. mishap = "none"
    BY <1>2, PacketDoes, ReceiveDoes, FlipHighestDoes, SetSecondHighestDoes,
       PollStepDoes, StorePollDoes, ReadChunkDoes, StoreQueryDoes, Steps
    DEF Packets, OtherStep, ReadStep, vars
  <1>4. /\ SignalInv /\ AskedInv /\ CleanInv /\ StampInv
        /\ OrderInv /\ LastInv /\ WrapInv /\ StackInv
    BY <1>3 DEF StackIInv, PiecesInv
  <1>5. CASE Next
    <2>1. Packets \/ SetSecondHighest \/ OtherStep
      BY <1>5 DEF Next, Packets, OtherStep, PollStep, ReadStep
    <2>2. SignalInv' /\ AskedInv' /\ CleanInv'
      BY <1>1, <1>2, <1>4, <2>1, PacketSignal, OtherSignal, PacketAsked, OtherAsked,
         PacketClean, OtherClean
    <2>3. StampInv'
      BY <1>1, <1>2, <1>4, <1>5, NextStamps
    <2>4. OrderInv' /\ LastInv'
      BY <1>1, <1>2, <1>4, <1>5, NextOrder
    <2>5. WrapInv'
      BY <1>1, <1>2, <1>4, <2>1, PacketSeq, OtherSeq, SetSecondHighestSeq
    <2>6. StackInv'
      BY <1>1, <1>2, <1>4, <1>5, <2>3, <2>4, NextStack
    <2> QED
      BY <2>2, <2>3, <2>4, <2>5, <2>6
  <1>6. CASE UNCHANGED vars
    <2>1. UNCHANGED <<switch, slot, shared, poll, answer, files, clock, past>>
      BY <1>6 DEF vars
    <2>2. /\ Pieces' = Pieces /\ Current' = Current /\ Asked' = Asked
          /\ Signalled' = Signalled /\ PollBank' = PollBank /\ Polling' = Polling
      BY <2>1
      DEF switch, shared, poll, answer, past, Pieces, FilePieces,
          AskedPieces, AskedCells, Asked, PollPieces, PolledCells, PollBank, Polling,
          WirePieces, SlotPieces, Current, Frozen, Signalled
    <2>3. SignalInv' /\ AskedInv' /\ CleanInv' /\ StampInv'
      BY <1>4, <2>1, <2>2
      DEF switch, shared, poll, answer, SignalInv, AskedInv, CleanInv, InUse, StampInv
    <2>4. OrderInv' /\ LastInv'
      BY <1>1, <1>2, <1>4, <1>6, NextOrder
    <2>5. WrapInv'
      <3>1. UNCHANGED <<wrap, files, clock, poll_ts, packets, seq_num_r, wire>>
        BY <2>1 DEF switch, shared, poll, past
      <3> QED
        BY <1>4, <2>2, <3>1 DEF WrapInv, Before, OverflowFiles, WrapFrom
    <2>6. StackInv'
      BY <1>1, <1>2, <1>4, <1>6, <2>3, <2>4, NextStack
    <2> QED
      BY <2>3, <2>4, <2>5, <2>6
  <1> QED
    BY <1>5, <1>6

\* Until something goes amiss, the files there are and those there will be hold the
\* packets in order, counted by the overflows before them.
THEOREM PiecesInOrder ==
  ASSUME PowerOfTwo
  PROVE  Spec => []PiecesInv
  <1>1. Init => StackIInv
    BY InitPieces
  <1>2. StackIInv /\ [Next]_vars => StackIInv'
    BY NextPieces
  <1>3. StackIInv => PiecesInv
    BY DEF StackIInv
  <1> QED
    BY <1>1, <1>2, <1>3, PTL DEF Spec

----------------------------------------------------------------------------
(* Files in the order of their time stamps.                                *)

FileSet == [ts : Nat, overflow : BOOLEAN, qm : Cells, poll : BOOLEAN]
Distinct(F) == \A f, g \in F : f.ts = g.ts => f = g
Increasing(seq, n) == \A i, j \in 1 .. n : i < j => seq[i].ts < seq[j].ts

LEMMA OrderExists ==
  ASSUME NEW F \in SUBSET FileSet, IsFiniteSet(F), Distinct(F)
  PROVE  \E seq \in [1 .. Cardinality(F) -> F] : Increasing(seq, Cardinality(F))
  <1> DEFINE n == Cardinality(F)
             upto(f) == {g \in F : g.ts <= f.ts}
             rank == [f \in F |-> Cardinality(upto(f))]
  <1>1. n \in Nat /\ \A f \in F : f.ts \in Nat
    BY FS_CardinalityType DEF FileSet
  <1>2. \A f \in F : IsFiniteSet(upto(f))
    BY FS_Subset
  <1>3. ASSUME NEW f \in F
        PROVE  Cardinality(upto(f)) \in 1 .. n
    <2>1. f \in upto(f) /\ upto(f) \subseteq F
      BY <1>1
    <2>2. Cardinality(upto(f)) <= n /\ Cardinality(upto(f)) \in Nat
      BY <1>2, <2>1, FS_Subset, FS_CardinalityType
    <2>3. Cardinality(upto(f)) # 0
      BY <1>2, <2>1, FS_EmptySet
    <2> QED
      BY <1>1, <2>2, <2>3
  <1>4. ASSUME NEW f \in F, NEW g \in F, f.ts < g.ts
        PROVE  Cardinality(upto(f)) < Cardinality(upto(g))
    <2>1. upto(f) \subseteq upto(g) /\ g \in upto(g) /\ g \notin upto(f)
      BY <1>1, <1>4
    <2>2. upto(f) # upto(g)
      BY <2>1
    <2>3. /\ Cardinality(upto(f)) <= Cardinality(upto(g))
          /\ Cardinality(upto(f)) # Cardinality(upto(g))
      BY <1>2, <2>1, <2>2, FS_Subset
    <2>4. Cardinality(upto(f)) \in Nat /\ Cardinality(upto(g)) \in Nat
      BY <1>2, FS_CardinalityType
    <2> QED
      BY <2>3, <2>4
  <1>5. rank \in [F -> 1 .. n]
    BY <1>3
  <1>6. \A f, g \in F : f.ts < g.ts => rank[f] < rank[g]
    BY <1>4
  <1> HIDE DEF rank, upto
  <1>7. \A f, g \in F : rank[f] = rank[g] => f = g
    <2> SUFFICES ASSUME NEW f \in F, NEW g \in F, rank[f] = rank[g], f # g
                 PROVE  FALSE
      OBVIOUS
    <2>1. rank[f] \in Nat /\ f.ts \in Nat /\ g.ts \in Nat
      BY <1>1, <1>5
    <2>2. f.ts # g.ts
      BY DEF Distinct
    <2> QED
      BY <1>6, <2>1, <2>2
  <1>8. \A i \in 1 .. n : \E f \in F : rank[f] = i
    <2>1. IsFiniteSet(1 .. n) /\ Cardinality(1 .. n) = n
      BY <1>1, FS_Interval
    <2>2. rank \in Injection(F, 1 .. n)
      BY <1>5, <1>7 DEF Injection, IsInjective
    <2>3. rank \in Surjection(F, 1 .. n)
      BY <2>1, <2>2, FS_Injection
    <2> QED
      BY <2>3 DEF Surjection
  <1> DEFINE seq == [i \in 1 .. n |-> CHOOSE f \in F : rank[f] = i]
  <1>9. seq \in [1 .. n -> F] /\ \A i \in 1 .. n : rank[seq[i]] = i
    BY <1>8
  <1>10. ASSUME NEW i \in 1 .. n, NEW j \in 1 .. n, i < j
         PROVE  seq[i].ts < seq[j].ts
    <2> HIDE DEF seq
    <2>1. seq[i] \in F /\ seq[j] \in F /\ rank[seq[i]] = i /\ rank[seq[j]] = j
      BY <1>9
    <2>2. ~(seq[j].ts < seq[i].ts)
      BY <1>1, <1>6, <1>10, <2>1
    <2>3. seq[i] # seq[j]
      BY <1>10, <2>1
    <2>4. seq[i].ts # seq[j].ts
      BY <2>1, <2>3 DEF Distinct
    <2> QED
      BY <1>1, <2>1, <2>2, <2>4
  <1> HIDE DEF seq
  <1> QED
    BY <1>9, <1>10 DEF Increasing

LEMMA Ordering ==
  ASSUME NEW F \in SUBSET FileSet, IsFiniteSet(F), Distinct(F)
  PROVE  /\ InOrder(F) \in [1 .. Cardinality(F) -> F]
         /\ Increasing(InOrder(F), Cardinality(F))
         /\ \A f \in F : \E i \in 1 .. Cardinality(F) : InOrder(F)[i] = f
  <1> DEFINE n == Cardinality(F)
             seq == InOrder(F)
  <1>1. n \in Nat /\ \A f \in F : f.ts \in Nat
    BY FS_CardinalityType DEF FileSet
  <1>2. seq \in [1 .. n -> F] /\ Increasing(seq, n)
    BY OrderExists DEF InOrder, Increasing
  <1> HIDE DEF seq
  <1>3. \A i, j \in 1 .. n : seq[i] = seq[j] => i = j
    <2> SUFFICES ASSUME NEW i \in 1 .. n, NEW j \in 1 .. n, seq[i] = seq[j], i < j
                 PROVE  FALSE
      BY <1>1
    <2>1. seq[i].ts < seq[j].ts /\ seq[i].ts \in Nat
      BY <1>1, <1>2 DEF Increasing
    <2> QED
      BY <2>1
  <1>4. seq \in Surjection(1 .. n, F)
    <2>1. IsFiniteSet(1 .. n) /\ Cardinality(1 .. n) = n
      BY <1>1, FS_Interval
    <2>2. seq \in Injection(1 .. n, F)
      BY <1>2, <1>3 DEF Injection, IsInjective
    <2> QED
      BY <2>1, <2>2, FS_Injection
  <1> QED
    BY <1>2, <1>4 DEF seq, Surjection

----------------------------------------------------------------------------
(* The filter, file by file.                                               *)

\* What FilterQM does with a file after n overflows.
SeqNumbers(qm, n) == [d \in Depths |-> (qm[d] % 2^SeqBits) + n * 2^SeqBits]
Newer(qm, n, prev) ==
  {d \in Depths : qm[d] # NoPacket /\ SeqNumbers(qm, n)[d] > prev.current_seq}
After(qm, n, prev) ==
  LET seq    == SeqNumbers(qm, n)
      newer  == Newer(qm, n, prev)
      rising == Rising(seq, newer)
  IN IF qm = NoCells THEN [prev EXCEPT !.stack = {}]
     ELSE [current_seq |->
             IF newer = {} THEN prev.current_seq
             ELSE CHOOSE s \in {seq[d] : d \in rising} :
                    \A d \in rising : seq[d] <= s,
           stack |-> Kept(prev.stack, newer) \cup {<<d, qm[d]>> : d \in rising}]

WrapIs(fs, w) ==
  w = [i \in 0 .. Len(fs) |->
         IF i = 0 THEN 0 ELSE w[i - 1] + (IF fs[i].overflow THEN 1 ELSE 0)]
RetIs(fs, w, r) ==
  r = [i \in 0 .. Len(fs) |->
         IF i = 0 THEN [current_seq |-> -1, stack |-> {}]
         ELSE After(fs[i].qm, w[i], r[i - 1])]

LEMMA FilterIs ==
  ASSUME NEW fs
  PROVE  FilterQM(fs) =
           (CHOOSE r : RetIs(fs, CHOOSE w : WrapIs(fs, w), r))[Len(fs)].stack
  BY Zenon DEF FilterQM, RetIs, WrapIs, After, Newer, SeqNumbers

LEMMA Remainder ==
  ASSUME PowerOfTwo, NEW a \in Nat
  PROVE  a % Period \in Int
  <1>1. Period \in Nat \ {0}
    BY DEF PowerOfTwo
  <1>2. a % Period \in Nat
    BY <1>1, Divided
  <1> QED
    BY <1>2

Rets == [current_seq : Int, stack : SUBSET (Depths \X Nat)]

\* Of the cells in question the shallowest rises, and there is a last that does.
LEMMA RisingLast ==
  ASSUME NEW seq \in [Depths -> Int], NEW in \in SUBSET Depths, in # {}
  PROVE  \E d \in Rising(seq, in) : \A e \in Rising(seq, in) : seq[e] <= seq[d]
  <1>1. MaxQdepth - 1 \in Nat /\ Depths = 0 .. MaxQdepth - 1
    BY Empty DEF Depths
  <1>2. PICK m \in in : \A d \in in : m <= d
    <2>1. in \in SUBSET Nat
      BY <1>1
    <2> QED
      BY <2>1, Least
  <1>3. m \in Rising(seq, in) /\ Rising(seq, in) \subseteq in
    BY <1>1, <1>2 DEF Rising
  <1>4. PICK d \in Rising(seq, in) : \A e \in Rising(seq, in) : e <= d
    <2>1. Rising(seq, in) \in SUBSET (0 .. MaxQdepth - 1)
      BY <1>1, <1>3
    <2> QED
      BY <1>1, <1>3, <2>1, Greatest
  <1>5. ASSUME NEW e \in Rising(seq, in)
        PROVE  seq[e] <= seq[d]
    <2>1. e \in Depths /\ d \in Depths /\ e \in in /\ e <= d
      BY <1>3, <1>4
    <2>2. CASE e = d
      BY <2>1, <2>2
    <2>3. CASE e < d
      <3>1. seq[e] < seq[d]
        BY <2>1, <2>3 DEF Rising
      <3> QED
        BY <2>1, <3>1
    <2> QED
      BY <1>1, <2>1, <2>2, <2>3
  <1> QED
    BY <1>5

LEMMA AfterTyped ==
  ASSUME PowerOfTwo, NEW qm \in Cells, NEW n \in Int, NEW prev \in Rets
  PROVE  /\ SeqNumbers(qm, n) \in [Depths -> Int]
         /\ After(qm, n, prev) \in Rets
  <1> DEFINE seq == SeqNumbers(qm, n)
             newer == Newer(qm, n, prev)
             rising == Rising(seq, newer)
             s == CHOOSE x \in {seq[d] : d \in rising} :
                    \A d \in rising : seq[d] <= x
             new == {<<d, qm[d]>> : d \in rising}
  <1>1. seq \in [Depths -> Int]
    <2>1. \A d \in Depths : qm[d] % 2^SeqBits \in Int
      <3>1. \A d \in Depths : qm[d] \in Nat
        BY DEF Cells
      <3>2. \A a \in Nat : a % Period \in Int
        BY Remainder
      <3> QED
        BY <3>1, <3>2 DEF Period
    <2>2. n * 2^SeqBits \in Int
      BY DEF PowerOfTwo, Period
    <2> QED
      BY <2>1, <2>2 DEF SeqNumbers
  <1>2. newer \subseteq Depths /\ rising \subseteq newer
    BY DEF Newer, Rising
  <1>3. newer # {} => s \in Int
    <2>1. SUFFICES ASSUME newer # {} PROVE s \in Int
      OBVIOUS
    <2> HIDE DEF seq, newer
    <2>2. PICK d \in rising : \A e \in rising : seq[e] <= seq[d]
      BY <1>1, <1>2, <2>1, RisingLast
    <2>3. s \in {seq[e] : e \in rising}
      BY <2>2
    <2> QED
      BY <1>1, <1>2, <2>3
  <1>4. Kept(prev.stack, newer) \subseteq Depths \X Nat
    BY DEF Kept, Rets
  <1>5. new \subseteq Depths \X Nat
    BY <1>2 DEF Cells
  <1>6. prev.current_seq \in Int /\ [prev EXCEPT !.stack = {}] \in Rets
    BY DEF Rets
  <1>7. After(qm, n, prev) =
          IF qm = NoCells THEN [prev EXCEPT !.stack = {}]
          ELSE [current_seq |-> IF newer = {} THEN prev.current_seq ELSE s,
                stack |-> Kept(prev.stack, newer) \cup new]
    BY Zenon DEF After
  <1> HIDE DEF seq, newer, rising, s, new
  <1> QED
    BY <1>1, <1>3, <1>4, <1>5, <1>6, <1>7 DEF Rets, seq

Merged(m, qm) == [d \in Depths |-> IF qm[d] # NoPacket THEN qm[d] ELSE m[d]]

\* A file whose packets are later than all before: what it says replaces what was
\* said of its depths, and of those above until it says less.
LEMMA AfterStack ==
  ASSUME PowerOfTwo, NEW qm \in Cells, qm # NoCells, NEW n \in Nat, SeqOf(qm, n),
         NEW prev \in Rets, NEW m \in Cells, prev.stack = Stack(m),
         \A d, e \in Depths : qm[e] # NoPacket => m[d] < qm[e],
         \A e \in Depths : qm[e] # NoPacket => prev.current_seq < qm[e]
  PROVE  /\ After(qm, n, prev).stack = Stack(Merged(m, qm))
         /\ \E e \in Depths : /\ qm[e] # NoPacket
                              /\ After(qm, n, prev).current_seq = qm[e]
  <1> DEFINE seq == SeqNumbers(qm, n)
             newer == Newer(qm, n, prev)
             rising == Rising(seq, newer)
             s == CHOOSE x \in {seq[d] : d \in rising} :
                    \A d \in rising : seq[d] <= x
             new == {<<d, qm[d]>> : d \in rising}
             top == Merged(m, qm)
             there == {d \in Depths : top[d] # NoPacket}
             was == {d \in Depths : m[d] # NoPacket}
  <1>1. /\ \A d \in Depths : qm[d] \in Nat /\ m[d] \in Nat
        /\ Depths \subseteq Nat /\ prev.current_seq \in Int
        /\ NoPacket = 0
    BY Empty DEF Cells, Rets, Depths, NoPacket
  <1>2. \A d \in Depths : qm[d] # NoPacket => seq[d] = qm[d]
    <2> SUFFICES ASSUME NEW d \in Depths, qm[d] # NoPacket
                 PROVE  seq[d] = qm[d]
      OBVIOUS
    <2>1. qm[d] \div Period = n
      BY DEF SeqOf, Period
    <2>2. qm[d] = (qm[d] \div Period) * Period + (qm[d] % Period)
      <3>1. qm[d] \in Nat /\ Period \in Nat \ {0}
        BY <1>1 DEF PowerOfTwo
      <3> QED
        BY <3>1, Divided
    <2>3. qm[d] % Period \in Int /\ n * Period \in Int
      <3>1. qm[d] % Period \in Int
        BY <1>1, Remainder
      <3> QED
        BY <3>1 DEF PowerOfTwo
    <2>4. seq[d] = (qm[d] % Period) + n * Period
      BY DEF SeqNumbers, Period
    <2> QED
      BY <2>1, <2>2, <2>3, <2>4
  <1>3. seq \in [Depths -> Int]
    BY AfterTyped
  <1>4. newer = {d \in Depths : qm[d] # NoPacket}
    <2> HIDE DEF seq
    <2>1. \A d \in Depths : qm[d] # NoPacket => seq[d] > prev.current_seq
      BY <1>1, <1>2
    <2> QED
      BY <2>1 DEF Newer, seq
  <1>5. newer # {}
    <2>1. PICK d \in Depths : qm[d] # NoPacket
      BY DEF Cells, NoCells
    <2> QED
      BY <1>4, <2>1
  <1>6. After(qm, n, prev) =
          [current_seq |-> s, stack |-> Kept(prev.stack, newer) \cup new]
    <2>1. After(qm, n, prev) =
            IF qm = NoCells THEN [prev EXCEPT !.stack = {}]
            ELSE [current_seq |-> IF newer = {} THEN prev.current_seq ELSE s,
                  stack |-> Kept(prev.stack, newer) \cup new]
      BY Zenon DEF After
    <2> HIDE DEF newer, s, new
    <2> QED
      BY <1>5, <2>1
  <1> HIDE DEF seq, newer
  <1>7. \E e \in Depths : qm[e] # NoPacket /\ s = qm[e]
    <2>1. PICK d \in rising : \A e \in rising : seq[e] <= seq[d]
      BY <1>3, <1>4, <1>5, RisingLast
    <2>2. s \in {seq[e] : e \in rising}
      BY <2>1
    <2>3. PICK e \in rising : s = seq[e]
      BY <2>2
    <2>4. e \in newer
      BY <2>3 DEF Rising
    <2> QED
      BY <1>2, <1>4, <2>3, <2>4
  <1>8. rising = Rising(qm, newer)
    BY <1>2, <1>4 DEF Rising
  <1>9. \A d \in Depths : top[d] = IF d \in newer THEN qm[d] ELSE m[d]
    BY <1>4 DEF Merged
  <1>10. there = newer \cup was
    BY <1>4, <1>9
  <1> HIDE DEF top, there, was, rising
  <1>11. \A d \in Depths : d \in Rising(top, there) <=>
           \/ d \in rising
           \/ d \in Rising(m, was) /\ \A e \in newer : d < e
    <2> SUFFICES ASSUME NEW d \in Depths
                 PROVE  d \in Rising(top, there) <=>
                          \/ d \in rising
                          \/ d \in Rising(m, was) /\ \A e \in newer : d < e
      OBVIOUS
    <2>1. /\ newer \subseteq Depths /\ was \subseteq Depths
          /\ \A a \in Depths, b \in newer : m[a] < qm[b]
          /\ \A a \in was : m[a] # 0
          /\ \A a \in Depths \ was : m[a] = 0
      BY <1>1, <1>4 DEF was
    <2>2. CASE d \in newer
      <3>1. d \in there /\ top[d] = qm[d] /\ ~(\A e \in newer : d < e)
        BY <1>1, <1>9, <1>10, <2>2
      <3>2. d \in Rising(top, there) <=>
              \A e \in newer \cup was : e < d => top[e] < qm[d]
        BY <1>10, <3>1 DEF Rising
      <3>3. d \in rising <=> \A e \in newer : e < d => qm[e] < qm[d]
        BY <1>8, <2>2 DEF Rising
      <3>4. \A e \in was : e \notin newer => top[e] < qm[d]
        BY <1>9, <2>1, <2>2
      <3>5. \A e \in newer : top[e] = qm[e]
        BY <1>9, <2>1
      <3> QED
        BY <3>1, <3>2, <3>3, <3>4, <3>5
    <2>3. CASE d \notin newer /\ d \in was
      <3>1. d \in there /\ top[d] = m[d] /\ d \notin rising
        BY <1>8, <1>9, <1>10, <2>3 DEF Rising
      <3>2. d \in Rising(top, there) <=>
              \A e \in newer \cup was : e < d => top[e] < m[d]
        BY <1>10, <3>1 DEF Rising
      <3>3. d \in Rising(m, was) <=> \A e \in was : e < d => m[e] < m[d]
        BY <2>3 DEF Rising
      <3>4. \A e \in newer : top[e] = qm[e] /\ ~(qm[e] < m[d])
        BY <1>1, <1>9, <2>1
      <3>5. \A e \in was \ newer : top[e] = m[e]
        BY <1>9, <2>1
      <3>6. \A e \in newer : e < d \/ d < e
        BY <1>1, <2>1, <2>3
      <3>7. \A e \in newer : e < d => ~(d < e)
        BY <1>1, <2>1
      <3>8. (\A e \in newer \cup was : e < d => top[e] < m[d])
              <=> (\A e \in newer : d < e) /\ (\A e \in was : e < d => m[e] < m[d])
        BY <3>4, <3>5, <3>6, <3>7
      <3> QED
        BY <3>1, <3>2, <3>3, <3>8
    <2>4. CASE d \notin newer /\ d \notin was
      BY <1>8, <1>10, <2>4 DEF Rising
    <2> QED
      BY <2>2, <2>3, <2>4
  <1>12. Stack(top) = Kept(Stack(m), newer) \cup new
    <2>1. Stack(top) = {<<d, top[d]>> : d \in Rising(top, there)}
          /\ Stack(m) = {<<d, m[d]>> : d \in Rising(m, was)}
      BY DEF Stack, there, was
    <2>2. /\ Rising(top, there) \subseteq Depths /\ rising \subseteq newer
          /\ Rising(m, was) \subseteq Depths /\ newer \subseteq Depths
      BY <1>4, <1>8 DEF Rising, there, was
    <2>3. Kept(Stack(m), newer) =
            {<<d, m[d]>> : d \in {a \in Rising(m, was) : \A e \in newer : a < e}}
      BY <2>1 DEF Kept
    <2>4. \A d \in rising : top[d] = qm[d]
      BY <1>9, <2>2
    <2>5. \A a \in Depths : (\A e \in newer : a < e) => top[a] = m[a]
      BY <1>1, <1>9
    <2>6. Rising(top, there) =
            rising \cup {a \in Rising(m, was) : \A e \in newer : a < e}
      BY <1>11, <2>2
    <2> QED
      BY <2>1, <2>2, <2>3, <2>4, <2>5, <2>6
  <1> HIDE DEF s, new
  <1> QED
    BY <1>6, <1>7, <1>12 DEF top

OverflowsOf(F, t) == {f \in F : f.overflow /\ f.ts <= t}

LEMMA OrderLen ==
  ASSUME NEW F, NEW n \in Nat, NEW fs \in [1 .. n -> F]
  PROVE  Len(fs) = n
  <1>1. fs \in Seq(F)
    OBVIOUS
  <1>2. DOMAIN fs = 1 .. Len(fs) /\ Len(fs) \in Nat /\ DOMAIN fs = 1 .. n
    BY <1>1
  <1> QED
    BY <1>2

\* Overflows are counted in the order of the files.
LEMMA WrapTrue ==
  ASSUME NEW F \in SUBSET FileSet, IsFiniteSet(F), NEW n \in Nat,
         NEW fs \in [1 .. n -> F], Increasing(fs, n),
         \A f \in F : \E i \in 1 .. n : fs[i] = f
  PROVE  LET w == CHOOSE w : WrapIs(fs, w)
         IN \A i \in 1 .. n : w[i] = Cardinality(OverflowsOf(F, fs[i].ts))
  <1> DEFINE w == CHOOSE x : WrapIs(fs, x)
             step == [p \in Nat \X Nat |->
                        p[2] + (IF fs[p[1]].overflow THEN 1 ELSE 0)]
  <1>1. Len(fs) = n
    BY OrderLen
  <1>2. WrapIs(fs, w)
    <2>1. step \in [Nat \X Nat -> Nat]
      OBVIOUS
    <2>2. PICK f \in [0 .. n -> Nat] : RecursionUpTo(n, f, 0, step)
      <3>1. 0 \in Nat
        OBVIOUS
      <3> HIDE DEF step
      <3> QED
        BY <2>1, <3>1, Recursion, Zenon
    <2>3. ASSUME NEW i \in 0 .. n
          PROVE  f[i] = IF i = 0 THEN 0
                        ELSE f[i - 1] + (IF fs[i].overflow THEN 1 ELSE 0)
      <3>1. CASE i = 0
        BY <2>2, <3>1 DEF RecursionUpTo
      <3>2. CASE i # 0
        <4>1. i \in 1 .. n /\ i \in Nat /\ i - 1 \in 0 .. n
          BY <3>2
        <4>2. f[i] = step[<<i, f[i - 1]>>]
          <5> HIDE DEF step
          <5> QED
            BY <2>2, <4>1 DEF RecursionUpTo
        <4>3. <<i, f[i - 1]>> \in Nat \X Nat
          BY <2>2, <4>1
        <4>4. step[<<i, f[i - 1]>>] = f[i - 1] + (IF fs[i].overflow THEN 1 ELSE 0)
          BY <4>3
        <4> QED
          BY <3>2, <4>2, <4>4
      <3> QED
        BY <3>1, <3>2
    <2>4. WrapIs(fs, f)
      BY <1>1, <2>2, <2>3 DEF WrapIs
    <2> QED
      BY <2>4
  <1> HIDE DEF w
  <1>3. /\ w[0] = 0
        /\ \A i \in 1 .. n : w[i] = w[i - 1] + (IF fs[i].overflow THEN 1 ELSE 0)
    BY <1>1, <1>2 DEF WrapIs
  <1> DEFINE first(i) == {f \in F : f.overflow /\ \E j \in 1 .. i : fs[j] = f}
             S == {i \in 0 .. n : w[i] = Cardinality(first(i))}
  <1>4. \A i \in 0 .. n : IsFiniteSet(first(i)) /\ Cardinality(first(i)) \in Nat
    BY FS_Subset, FS_CardinalityType
  <1>5. 0 \in S
    <2>1. first(0) = {}
      OBVIOUS
    <2>2. Cardinality({}) = 0
      BY FS_EmptySet
    <2>3. w[0] = Cardinality(first(0)) /\ 0 \in 0 .. n
      <3>1. 0 \in 0 .. n
        OBVIOUS
      <3>2. w[0] = 0
        BY <1>3
      <3> HIDE DEF first
      <3> QED
        BY <2>1, <2>2, <3>1, <3>2
    <2> QED
      BY <2>3
  <1>6. ASSUME NEW i \in 1 .. n, i - 1 \in S
        PROVE  i \in S
    <2>1. i - 1 \in 0 .. n /\ w[i - 1] = Cardinality(first(i - 1))
      BY <1>6
    <2>2. fs[i] \in F /\ fs[i] \notin first(i - 1)
      <3>1. ASSUME NEW j \in 1 .. i - 1, fs[j] = fs[i]
            PROVE  FALSE
        <4>1. j \in 1 .. n /\ j < i
          OBVIOUS
        <4>2. fs[j].ts < fs[i].ts /\ fs[i].ts \in Nat
          BY <4>1 DEF Increasing, FileSet
        <4> QED
          BY <3>1, <4>2
      <3> QED
        BY <3>1
    <2>3. CASE fs[i].overflow
      <3>1. first(i) = first(i - 1) \cup {fs[i]}
        BY <2>2, <2>3
      <3>2. Cardinality(first(i - 1) \cup {fs[i]}) = Cardinality(first(i - 1)) + 1
        BY <1>4, <2>1, <2>2, FS_AddElement
      <3>3. w[i] = w[i - 1] + 1
        BY <1>3, <2>3
      <3>4. w[i] = Cardinality(first(i))
        <4> HIDE DEF first
        <4> QED
          BY <2>1, <3>1, <3>2, <3>3
      <3> QED
        BY <3>4
    <2>4. CASE ~fs[i].overflow
      <3>1. first(i) = first(i - 1)
        BY <2>2, <2>4
      <3>2. Cardinality(first(i - 1)) \in Nat
        BY <1>4, <2>1
      <3>3. w[i] = w[i - 1] + 0
        BY <1>3, <2>4
      <3>4. w[i] = Cardinality(first(i))
        <4> HIDE DEF first
        <4> QED
          BY <2>1, <3>1, <3>2, <3>3
      <3> QED
        BY <3>4
    <2> QED
      BY <2>3, <2>4
  <1>7. \A i \in 0 .. n : i \in S
    <2> HIDE DEF S
    <2> QED
      BY <1>5, <1>6, InductionUpTo
  <1>8. ASSUME NEW i \in 1 .. n
        PROVE  first(i) = OverflowsOf(F, fs[i].ts)
    <2>1. \A j \in 1 .. n : fs[j].ts \in Nat
      BY DEF FileSet
    <2>2. \A j \in 1 .. n : fs[j].ts <= fs[i].ts <=> j \in 1 .. i
      <3> SUFFICES ASSUME NEW j \in 1 .. n
                   PROVE  fs[j].ts <= fs[i].ts <=> j \in 1 .. i
        OBVIOUS
      <3>1. i < j => fs[i].ts < fs[j].ts
        BY DEF Increasing
      <3>2. j < i => fs[j].ts < fs[i].ts
        BY DEF Increasing
      <3>3. j = i \/ i < j \/ j < i
        OBVIOUS
      <3> QED
        BY <2>1, <3>1, <3>2, <3>3
    <2>3. 1 .. i \subseteq 1 .. n
      OBVIOUS
    <2> QED
      BY <2>2, <2>3 DEF OverflowsOf
  <1>9. \A i \in 1 .. n : w[i] = Cardinality(OverflowsOf(F, fs[i].ts))
    <2> SUFFICES ASSUME NEW i \in 1 .. n
                 PROVE  w[i] = Cardinality(OverflowsOf(F, fs[i].ts))
      OBVIOUS
    <2>1. w[i] = Cardinality(first(i))
      BY <1>7
    <2> HIDE DEF first
    <2> QED
      BY <1>8, <2>1
  <1> QED
    BY <1>9 DEF w

LEMMA MergedNewest ==
  ASSUME NEW S \in SUBSET Cells, NEW m \in Cells, NEW qm \in Cells, Newest(m, S),
         \A d, e \in Depths : qm[e] # NoPacket => m[d] < qm[e]
  PROVE  Merged(m, qm) \in Cells /\ Newest(Merged(m, qm), S \cup {qm})
  <1>1. \A d \in Depths : /\ m[d] \in Nat /\ qm[d] \in Nat
                          /\ \A c \in S : c[d] \in Nat
    BY DEF Cells
  <1>2. \A d \in Depths : Merged(m, qm)[d] = IF qm[d] # NoPacket THEN qm[d] ELSE m[d]
    BY DEF Merged
  <1>3. Merged(m, qm) \in Cells
    BY <1>1 DEF Merged, Cells
  <1>4. ASSUME NEW d \in Depths
        PROVE  /\ \A c \in S \cup {qm} : c[d] <= Merged(m, qm)[d]
               /\ Merged(m, qm)[d] # NoPacket =>
                    \E c \in S \cup {qm} : c[d] = Merged(m, qm)[d]
    <2>1. \A c \in S : c[d] <= m[d]
      BY DEF Newest
    <2>2. CASE qm[d] # NoPacket
      BY <1>1, <1>2, <2>1, <2>2
    <2>3. CASE qm[d] = NoPacket
      <3>1. qm[d] <= m[d]
        BY <1>1, <2>3 DEF NoPacket
      <3> QED
        BY <1>1, <1>2, <2>1, <2>3, <3>1 DEF Newest
    <2> QED
      BY <2>2, <2>3
  <1> QED
    BY <1>3, <1>4 DEF Newest

\* What the filter needs of the files: none of zeros, every packet in one that
\* comes after as many overflows as its number has, the later ones in later ones.
Sequenced(F) ==
  /\ \A f \in F :
       f.qm # NoCells /\ SeqOf(f.qm, Cardinality(OverflowsOf(F, f.ts)))
  /\ \A f, g \in F, d, e \in Depths :
       f.ts < g.ts /\ g.qm[e] # NoPacket => f.qm[d] < g.qm[e]

\* What holds of the filter after the first i files.
UpTo(fs, i)     == {fs[j].qm : j \in 1 .. i}
Reached(fs, i, ret) ==
  /\ ret \in Rets
  /\ IF i = 0 THEN ret.current_seq = -1
     ELSE \E e \in Depths :
            fs[i].qm[e] # NoPacket /\ ret.current_seq = fs[i].qm[e]
  /\ \E m \in Cells : Newest(m, UpTo(fs, i)) /\ ret.stack = Stack(m)

LEMMA FirstReached ==
  ASSUME NEW fs
  PROVE  Reached(fs, 0, [current_seq |-> -1, stack |-> {}])
  <1> DEFINE ret == [current_seq |-> -1, stack |-> {}]
  <1>1. ret \in Rets
    BY DEF Rets
  <1>2. NoCells \in Cells /\ \A d \in Depths : NoCells[d] = NoPacket
    BY DEF NoCells, NoPacket, Cells
  <1>3. {d \in Depths : NoCells[d] # NoPacket} = {}
    BY <1>2
  <1>4. Stack(NoCells) = {}
    BY <1>3 DEF Stack, Rising
  <1>5. UpTo(fs, 0) = {}
    BY DEF UpTo
  <1>6. Newest(NoCells, UpTo(fs, 0))
    BY <1>2, <1>5 DEF Newest
  <1> QED
    BY <1>1, <1>2, <1>4, <1>6 DEF Reached

LEMMA NextReached ==
  ASSUME PowerOfTwo, NEW F \in SUBSET FileSet, Sequenced(F), NEW n \in Nat,
         NEW fs \in [1 .. n -> F], Increasing(fs, n),
         NEW i \in 1 .. n, NEW w \in Nat, SeqOf(fs[i].qm, w),
         NEW prev, Reached(fs, i - 1, prev)
  PROVE  Reached(fs, i, After(fs[i].qm, w, prev))
  <1> DEFINE qm == fs[i].qm
             next == After(qm, w, prev)
  <1>1. fs[i] \in F /\ qm \in Cells /\ qm # NoCells
    BY DEF Sequenced, FileSet
  <1>2. \A d \in Depths : qm[d] \in Nat
    BY <1>1 DEF Cells
  <1>3. PICK m \in Cells : Newest(m, UpTo(fs, i - 1)) /\ prev.stack = Stack(m)
    BY DEF Reached
  <1>4. \A j \in 1 .. i - 1 : /\ j \in 1 .. n /\ fs[j] \in F /\ fs[j].qm \in Cells
                              /\ fs[j].ts < fs[i].ts
    <2>1. \A j \in 1 .. i - 1 : j \in 1 .. n /\ j < i
      OBVIOUS
    <2> QED
      BY <2>1 DEF Increasing, FileSet
  <1>5. \A j \in 1 .. i - 1, d, e \in Depths :
          qm[e] # NoPacket => fs[j].qm[d] < qm[e]
    BY <1>1, <1>4 DEF Sequenced
  <1>6. UpTo(fs, i - 1) \in SUBSET Cells
    BY <1>4 DEF UpTo
  <1>7. ASSUME NEW d \in Depths, NEW e \in Depths, qm[e] # NoPacket
        PROVE  m[d] < qm[e]
    <2>1. CASE m[d] = NoPacket
      BY <1>2, <1>7, <2>1 DEF NoPacket
    <2>2. CASE m[d] # NoPacket
      <3>1. PICK c \in UpTo(fs, i - 1) : c[d] = m[d]
        BY <1>3, <2>2 DEF Newest
      <3>2. PICK j \in 1 .. i - 1 : c = fs[j].qm
        BY <3>1 DEF UpTo
      <3> QED
        BY <1>5, <1>7, <3>1, <3>2
    <2> QED
      BY <2>1, <2>2
  <1>8. prev \in Rets
    BY DEF Reached
  <1>9. ASSUME NEW e \in Depths, qm[e] # NoPacket
        PROVE  prev.current_seq < qm[e]
    <2>1. CASE i - 1 = 0
      <3>1. prev.current_seq = -1
        BY <2>1 DEF Reached
      <3> QED
        BY <1>2, <3>1
    <2>2. CASE i - 1 # 0
      <3>1. PICK d \in Depths : prev.current_seq = fs[i - 1].qm[d]
        BY <2>2 DEF Reached
      <3>2. i - 1 \in 1 .. i - 1
        BY <2>2
      <3> QED
        BY <1>5, <1>9, <3>1, <3>2
    <2> QED
      BY <2>1, <2>2
  <1> HIDE DEF qm
  <1>10. /\ next.stack = Stack(Merged(m, qm))
         /\ \E e \in Depths : qm[e] # NoPacket /\ next.current_seq = qm[e]
    <2>1. SeqOf(qm, w)
      BY DEF qm
    <2>2. \A d, e \in Depths : qm[e] # NoPacket => m[d] < qm[e]
      BY <1>7
    <2>3. \A e \in Depths : qm[e] # NoPacket => prev.current_seq < qm[e]
      BY <1>9
    <2>4. prev.stack = Stack(m)
      BY <1>3
    <2> QED
      BY <1>1, <1>8, <2>1, <2>2, <2>3, <2>4, AfterStack
  <1>11. next \in Rets
    <2>1. w \in Int
      OBVIOUS
    <2> QED
      BY <1>1, <1>8, <2>1, AfterTyped
  <1>12. UpTo(fs, i) = UpTo(fs, i - 1) \cup {qm}
    <2>1. 1 .. i = (1 .. i - 1) \cup {i}
      OBVIOUS
    <2> QED
      BY <2>1 DEF UpTo, qm
  <1>13. Merged(m, qm) \in Cells /\ Newest(Merged(m, qm), UpTo(fs, i))
    <2>1. \A d, e \in Depths : qm[e] # NoPacket => m[d] < qm[e]
      BY <1>7
    <2> QED
      BY <1>1, <1>3, <1>6, <1>12, <2>1, MergedNewest
  <1> HIDE DEF next
  <1>14. i # 0
    OBVIOUS
  <1>15. Reached(fs, i, next)
    BY <1>10, <1>11, <1>13, <1>14 DEF Reached, qm
  <1> QED
    BY <1>15 DEF next, qm

LEMMA FilterTrue ==
  ASSUME PowerOfTwo, NEW F \in SUBSET FileSet, IsFiniteSet(F), Distinct(F),
         Sequenced(F)
  PROVE  FilterQM(InOrder(F)) = Stack(Latest(CellsOf(F)))
  <1> DEFINE n == Cardinality(F)
             fs == InOrder(F)
             w == CHOOSE x : WrapIs(fs, x)
             r == CHOOSE x : RetIs(fs, w, x)
             v == [current_seq |-> -1, stack |-> {}]
             step == [p \in Nat \X Rets |->
                        IF p[1] \in 1 .. n THEN After(fs[p[1]].qm, w[p[1]], p[2])
                        ELSE p[2]]
  <1>1. n \in Nat
    BY FS_CardinalityType
  <1>2. /\ fs \in [1 .. n -> F] /\ Increasing(fs, n)
        /\ \A f \in F : \E i \in 1 .. n : fs[i] = f
    BY Ordering
  <1> HIDE DEF n, fs
  <1>3. \A i \in 1 .. n : w[i] = Cardinality(OverflowsOf(F, fs[i].ts))
    BY <1>1, <1>2, WrapTrue
  <1> HIDE DEF w
  <1>4. \A i \in 1 .. n : fs[i] \in F /\ fs[i].qm \in Cells /\ SeqOf(fs[i].qm, w[i])
    BY <1>2, <1>3 DEF Sequenced, FileSet
  <1>5. \A i \in 1 .. n : w[i] \in Nat
    <2> SUFFICES ASSUME NEW i \in 1 .. n
                 PROVE  w[i] \in Nat
      OBVIOUS
    <2>1. OverflowsOf(F, fs[i].ts) \in SUBSET F
      BY DEF OverflowsOf
    <2>2. Cardinality(OverflowsOf(F, fs[i].ts)) \in Nat
      BY <2>1, FS_Subset, FS_CardinalityType
    <2> QED
      BY <1>3, <2>2
  <1>6. Len(fs) = n
    BY <1>1, <1>2, OrderLen
  <1>7. RetIs(fs, w, r)
    <2>1. v \in Rets
      BY DEF Rets
    <2>2. step \in [Nat \X Rets -> Rets]
      <3>1. ASSUME NEW p \in Nat \X Rets, p[1] \in 1 .. n
            PROVE  After(fs[p[1]].qm, w[p[1]], p[2]) \in Rets
        <4>1. p[2] \in Rets /\ w[p[1]] \in Int /\ fs[p[1]].qm \in Cells
          BY <1>4, <1>5, <3>1
        <4> QED
          BY <4>1, AfterTyped
      <3> QED
        BY <3>1
    <2>3. PICK f \in [0 .. n -> Rets] : RecursionUpTo(n, f, v, step)
      <3> HIDE DEF step, v
      <3> QED
        BY <1>1, <2>1, <2>2, Recursion, Zenon
    <2>4. ASSUME NEW i \in 0 .. n
          PROVE  f[i] = IF i = 0 THEN v ELSE After(fs[i].qm, w[i], f[i - 1])
      <3>1. CASE i = 0
        BY <2>3, <3>1 DEF RecursionUpTo
      <3>2. CASE i # 0
        <4>1. i \in 1 .. n /\ i \in Nat /\ i - 1 \in 0 .. n
          BY <1>1, <3>2
        <4>2. f[i] = step[<<i, f[i - 1]>>]
          <5> HIDE DEF step, v
          <5> QED
            BY <2>3, <4>1 DEF RecursionUpTo
        <4>3. <<i, f[i - 1]>> \in Nat \X Rets
          BY <2>3, <4>1
        <4>4. step[<<i, f[i - 1]>>] = After(fs[i].qm, w[i], f[i - 1])
          BY <4>1, <4>3
        <4> QED
          BY <3>2, <4>2, <4>4
      <3> QED
        BY <3>1, <3>2
    <2>5. f = [i \in 0 .. n |->
                 IF i = 0 THEN v ELSE After(fs[i].qm, w[i], f[i - 1])]
      <3> HIDE DEF v
      <3> QED
        BY <2>3, <2>4
    <2>6. RetIs(fs, w, f)
      BY <1>6, <2>5, Zenon DEF RetIs
    <2> QED
      BY <2>6
  <1> HIDE DEF r
  <1>8. r = [i \in 0 .. n |->
               IF i = 0 THEN v ELSE After(fs[i].qm, w[i], r[i - 1])]
    BY <1>6, <1>7, Zenon DEF RetIs
  <1> HIDE DEF v
  <1>9. /\ 0 \in 0 .. n => r[0] = v
        /\ \A i \in 1 .. n : i \in 0 .. n /\ i # 0
                               => r[i] = After(fs[i].qm, w[i], r[i - 1])
    BY <1>8
  <1> DEFINE S == {i \in 0 .. n : Reached(fs, i, r[i])}
  <1>10. 0 \in S
    <2>1. 0 \in 0 .. n
      BY <1>1
    <2>2. Reached(fs, 0, v)
      BY FirstReached DEF v
    <2> QED
      BY <1>9, <2>1, <2>2
  <1>11. ASSUME NEW i \in 1 .. n, i - 1 \in S
         PROVE  i \in S
    <2>1. i \in 0 .. n /\ i # 0
      BY <1>1
    <2>2. r[i] = After(fs[i].qm, w[i], r[i - 1])
      BY <1>9, <2>1
    <2>3. Reached(fs, i - 1, r[i - 1])
      BY <1>11
    <2>4. SeqOf(fs[i].qm, w[i]) /\ w[i] \in Nat
      BY <1>4, <1>5
    <2>5. Reached(fs, i, After(fs[i].qm, w[i], r[i - 1]))
      BY <1>1, <1>2, <2>3, <2>4, NextReached
    <2> QED
      BY <2>1, <2>2, <2>5
  <1>12. n \in S
    <2>1. \A i \in 0 .. n : i \in S
      <3> HIDE DEF S
      <3> QED
        BY <1>1, <1>10, <1>11, InductionUpTo
    <2>2. n \in 0 .. n
      BY <1>1
    <2> QED
      BY <2>1, <2>2
  <1>13. PICK m \in Cells : Newest(m, UpTo(fs, n)) /\ r[n].stack = Stack(m)
    BY <1>12 DEF Reached
  <1>14. UpTo(fs, n) = CellsOf(F)
    BY <1>2 DEF UpTo, CellsOf
  <1>15. Latest(CellsOf(F)) = m
    <2>1. CellsOf(F) \in SUBSET Cells
      BY DEF CellsOf, FileSet
    <2>2. Newest(m, CellsOf(F) \cup {NoCells})
      <3>1. \A d \in Depths : m[d] \in Nat /\ NoCells[d] = 0
        BY DEF Cells, NoCells, NoPacket
      <3>2. \A d \in Depths : NoCells[d] <= m[d]
        BY <3>1
      <3> QED
        BY <1>13, <1>14, <3>2 DEF Newest
    <2> QED
      BY <2>1, <2>2, LatestIs
  <1>16. FilterQM(fs) = r[n].stack
    BY <1>6, FilterIs DEF r, w
  <1> QED
    BY <1>13, <1>15, <1>16 DEF fs

\* Once all is stored, the files are the pieces.
LEMMA StackRebuilt == PowerOfTwo /\ StackIInv => StackTrue
  <1> SUFFICES ASSUME PowerOfTwo, StackIInv, Settled, mishap = "none"
               PROVE  FilterQM(InOrder(files)) = stack
    BY DEF StackTrue
  <1>1. StackTypes /\ StampInv /\ OrderInv /\ WrapInv /\ StackInv
    BY DEF StackIInv, PiecesInv
  <1>2. /\ wire = <<>> /\ slot = NoSlot /\ data_signal = <<>> /\ mpc = "loop"
        /\ ~Polling /\ ~Signalled
    BY DEF Settled, Polling, Signalled
  <1>3. Pieces = FilePieces
    <2>1. AskedPieces = {} /\ PollPieces = {} /\ WirePieces = {} /\ SlotPieces = {}
      BY <1>2 DEF AskedPieces, PollPieces, WirePieces, SlotPieces
    <2> QED
      BY <2>1 DEF Pieces
  <1>4. files \in SUBSET FileSet /\ IsFiniteSet(files) /\ wrap \in BOOLEAN
    BY <1>1 DEF StackTypes, FileTypes, FileSet
  <1>5. Distinct(files) /\ \A f \in files : f.ts <= clock /\ f.qm # NoCells
    BY <1>1 DEF StampInv, Distinct
  <1>6. clock \in Nat
    BY <1>1 DEF StackTypes, MonitorTypes
  <1>7. \A f \in files : Piece(f.ts, f.qm) \in Pieces
    BY <1>3 DEF FilePieces
  <1>8. \A f \in files : SeqOf(f.qm, Cardinality(OverflowsOf(files, f.ts)))
    <2> SUFFICES ASSUME NEW f \in files
                 PROVE  SeqOf(f.qm, Cardinality(OverflowsOf(files, f.ts)))
      OBVIOUS
    <2>1. SeqOf(f.qm, Before(f.ts))
      BY <1>1, <1>7 DEF WrapInv, Piece
    <2>2. ~(wrap /\ WrapFrom <= f.ts)
      <3>1. WrapFrom = clock + 1 /\ f.ts <= clock /\ f.ts \in Nat
        BY <1>2, <1>4, <1>5 DEF WrapFrom, FileSet
      <3> QED
        BY <1>6, <3>1
    <2>3. Cardinality(OverflowFiles(f.ts)) \in Nat
      BY <1>1, CountTyped
    <2>4. Before(f.ts) = Cardinality(OverflowFiles(f.ts))
      BY <2>2, <2>3 DEF Before
    <2> QED
      BY <2>1, <2>4 DEF OverflowFiles, OverflowsOf
  <1>9. ASSUME NEW f \in files, NEW g \in files, NEW d \in Depths, NEW e \in Depths,
               f.ts < g.ts, g.qm[e] # NoPacket
        PROVE  f.qm[d] < g.qm[e]
    BY <1>1, <1>7, <1>9 DEF OrderInv, Ordered, Piece
  <1>10. Sequenced(files)
    BY <1>5, <1>8, <1>9 DEF Sequenced
  <1>11. FilterQM(InOrder(files)) = Stack(Latest(CellsOf(files)))
    BY <1>4, <1>5, <1>10, FilterTrue
  <1>12. PICK f \in files : f.poll /\ \A g \in files : g.ts <= f.ts
    BY DEF Settled
  <1>13. LastPoll(f.ts) /\ f.ts \in 0 .. clock
    BY <1>2, <1>4, <1>5, <1>6, <1>12 DEF LastPoll, FileSet
  <1>14. stack = Stack(Latest(CellsOf(Until(Pieces, f.ts))))
    BY <1>1, <1>13 DEF StackInv
  <1>15. CellsOf(Until(Pieces, f.ts)) = CellsOf(files)
    <2>1. \A g \in files : /\ Piece(g.ts, g.qm).ts = g.ts
                          /\ Piece(g.ts, g.qm).qm = g.qm
      BY DEF Piece
    <2>2. Until(FilePieces, f.ts) = FilePieces
      BY <1>12, <2>1 DEF Until, FilePieces
    <2>3. CellsOf(FilePieces) = CellsOf(files)
      BY <2>1 DEF CellsOf, FilePieces
    <2> QED
      BY <1>3, <2>2, <2>3
  <1> QED
    BY <1>11, <1>14, <1>15

\* The filter returns the stack the packets made by the time of the last poll,
\* for every number of depths, packets and polls, every width of the sequence
\* number and every set of thresholds.
THEOREM StackFiltered ==
  ASSUME PowerOfTwo
  PROVE  Spec => []StackTrue
  <1>1. StackIInv => StackTrue
    BY StackRebuilt
  <1>2. Init => StackIInv
    BY InitPieces
  <1>3. StackIInv /\ [Next]_vars => StackIInv'
    BY NextPieces
  <1> QED
    BY <1>1, <1>2, <1>3, PTL DEF Spec
=============================================================================
