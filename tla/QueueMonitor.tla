---------------------------- MODULE QueueMonitor ----------------------------
(***************************************************************************)
(* The queue-monitor build of PrintQueue, for one port: the pipeline of    *)
(* queue_monitor.p4, the signal-receiving thread and the main loop of      *)
(* PrintQueue.c that polls and resets the registers.                       *)
(*                                                                         *)
(* A packet that finds another queue depth than the one before is recorded *)
(* in the cell of its depth.  The registers have four banks, as those of   *)
(* the time windows have; a bank is reset when it was read, so that files  *)
(* hold what is new.  Both a deep queue and the overflow of the sequence   *)
(* number turn to the other half and send a signal, unless the port is     *)
(* locked.                                                                 *)
(*                                                                         *)
(* Abstractions.  What the two threads do to the ring and its flags is the *)
(* matter of DataPlaneQuery: here the thread publishes a signal with its   *)
(* flip of highest, and the main loop stores, unlocks and pops in one      *)
(* step.  A poll reads its bank in one step and resets it in another, and  *)
(* tests and clears wrap in one; a query reads and resets chunk by chunk.  *)
(* Timers are choices.                                                     *)
(***************************************************************************)
EXTENDS QueueFilter

CONSTANTS
  Thresholds,  \* qdepth_threshold, the depths that flows trigger queries at
  MaxPackets,  \* bounds the packets
  MaxPolls     \* bounds the polls

ASSUME MonitorAssumption ==
  Thresholds \subseteq Nat /\ MaxPackets \in Nat /\ MaxPolls \in Nat

VARIABLES
  \* the switch
  stack_top_r, seq_num_r, data_query_lock_r, highest_bit_r, second_highest_tb,
  qm_r,               \* per half and quarter: the packet recorded at each depth
  wire,               \* the types of signals on their way
  \* the thread
  slot,               \* the signal it is putting into the ring
  \* shared
  highest, second_highest, data_signal, wrap,
  \* the main loop
  mpc, bank, buffer, poll_ts, data_query_start, data_query_buffer,
  files,              \* what was stored, by time stamp
  \* the past
  clock,              \* the last time stamp
  packets,            \* how many came
  last,               \* per depth: the last packet recorded
  stack,              \* the stack when the last poll began
  at_poll,            \* how many packets had come by then
  mishap              \* the first thing the filter cannot make up for

switch == <<stack_top_r, seq_num_r, data_query_lock_r, highest_bit_r,
            second_highest_tb, qm_r, wire>>
shared == <<highest, second_highest, data_signal, wrap>>
poll   == <<mpc, bank, buffer, poll_ts>>
answer == <<data_query_start, data_query_buffer>>
past   == <<packets, last, stack, at_poll>>
vars   == <<switch, slot, shared, poll, answer, files, clock, past, mishap>>

Bits == {0, 1}

\* Bitmap of signal types.
DataQuery   == 1
SeqOverflow == 2

NoSlot == [type |-> 0, ts |-> 0, h |-> 0, s |-> 0]
NoBank == [h |-> 0, s |-> 0]

Init ==
  /\ stack_top_r = 0 /\ seq_num_r = 0 /\ data_query_lock_r = 0
  /\ highest_bit_r = 0 /\ second_highest_tb = 0
  /\ qm_r = [h \in Bits |-> [s \in Bits |-> NoCells]]
  /\ wire = <<>>
  /\ slot = NoSlot
  /\ highest = 0 /\ second_highest = 1
  /\ data_signal = <<>> /\ wrap = FALSE
  /\ mpc = "loop" /\ bank = NoBank /\ buffer = NoCells /\ poll_ts = 0
  /\ data_query_start = 0 /\ data_query_buffer = NoCells
  /\ files = {}
  /\ clock = 0 /\ packets = 0 /\ last = NoCells /\ stack = {} /\ at_poll = 0
  /\ mishap = "none"

\* Time stamps of files differ: they are microseconds apart.
Stamp == clock' = clock + 1

Mishap(happened, what) ==
  mishap' = IF happened /\ mishap = "none" THEN what ELSE mishap

----------------------------------------------------------------------------
(* The egress pipeline.                                                    *)

\* The depth compared with the threshold of a packet is that of the packet before,
\* in pre_pkt_qdepth_r, which always equals stack_top_r.
\* No more packets come between two polls than there are sequence numbers.
Packet(depth, threshold) ==
  LET exceed  == stack_top_r >= threshold
      seq     == (seq_num_r + 1) % 2^SeqBits
      asks    == exceed \/ seq = 0
      trigger == asks /\ data_query_lock_r = 0
      half    == IF trigger THEN 1 - highest_bit_r ELSE highest_bit_r
  IN
  /\ packets < MaxPackets
  /\ packets - at_poll < 2^SeqBits
  /\ packets' = packets + 1
  /\ stack_top_r' = depth
  /\ seq_num_r' = seq
  /\ data_query_lock_r' = IF asks THEN 1 ELSE data_query_lock_r
  /\ highest_bit_r' = half
  /\ wire' = IF trigger
               THEN Append(wire, IF seq = 0 THEN SeqOverflow ELSE DataQuery)
               ELSE wire
  /\ IF depth # stack_top_r
       THEN /\ qm_r' = [qm_r EXCEPT ![half][second_highest_tb][depth] = packets']
            /\ last' = [last EXCEPT ![depth] = packets']
       ELSE UNCHANGED <<qm_r, last>>
  /\ Mishap(seq = 0 /\ ~trigger, "overflow while locked")
  /\ UNCHANGED <<second_highest_tb, slot, shared, poll, answer, files, clock,
                 stack, at_poll>>

----------------------------------------------------------------------------
(* The signal-receiving thread.                                            *)

Receive ==
  /\ slot = NoSlot
  /\ wire # <<>>
  /\ wire' = Tail(wire)
  /\ Stamp
  /\ slot' = [NoSlot EXCEPT !.type = Head(wire), !.ts = clock']
  /\ wrap' = (wrap \/ Head(wire) = SeqOverflow)
  /\ Mishap(wrap \/ (Head(wire) = SeqOverflow /\ mpc # "loop"),
            IF wrap THEN "query after overflow" ELSE "signal during poll")
  /\ UNCHANGED <<stack_top_r, seq_num_r, data_query_lock_r, highest_bit_r,
                 second_highest_tb, qm_r, highest, second_highest, data_signal,
                 poll, answer, files, past>>

FlipHighest ==
  /\ slot # NoSlot
  /\ data_signal' = Append(data_signal, [slot EXCEPT !.h = highest,
                                                     !.s = 1 - second_highest])
  /\ highest' = 1 - highest
  /\ slot' = NoSlot
  /\ Mishap(mpc \in {"toggle", "index"}, "signal during poll")
  /\ UNCHANGED <<switch, second_highest, wrap, poll, answer, files, clock, past>>

----------------------------------------------------------------------------
(* The main loop: periodic reads.                                          *)

SetSecondHighest ==
  /\ mpc = "loop"
  /\ Cardinality({f \in files : f.poll}) < MaxPolls
  /\ second_highest_tb' = second_highest
  /\ Stamp
  /\ poll_ts' = clock'
  /\ mpc' = "toggle"
  /\ stack' = Stack(last)
  /\ at_poll' = packets
  /\ Mishap(wire # <<>> \/ slot # NoSlot, "signal during poll")
  /\ UNCHANGED <<stack_top_r, seq_num_r, data_query_lock_r, highest_bit_r, qm_r,
                 wire, slot, shared, bank, buffer, answer, files, packets, last>>

ToggleSecondHighest ==
  /\ mpc = "toggle"
  /\ second_highest' = 1 - second_highest
  /\ mpc' = "index"
  /\ UNCHANGED <<switch, slot, highest, data_signal, wrap, bank, buffer, poll_ts,
                 answer, files, clock, past, mishap>>

\* The index of the bank in use.
ComputeIndex_BankInUse ==
  /\ mpc = "index"
  /\ bank' = [h |-> highest, s |-> 1 - second_highest]
  /\ mpc' = "read"
  /\ UNCHANGED <<switch, slot, shared, buffer, poll_ts, answer, files, clock,
                 past, mishap>>

ComputeIndex ==
  /\ mpc = "index"
  /\ bank' = [h |-> highest, s |-> second_highest]
  /\ mpc' = "read"
  /\ UNCHANGED <<switch, slot, shared, buffer, poll_ts, answer, files, clock,
                 past, mishap>>

ReadRegisters ==
  /\ mpc = "read"
  /\ buffer' = qm_r[bank.h][bank.s]
  /\ mpc' = "reset"
  /\ UNCHANGED <<switch, slot, shared, bank, poll_ts, answer, files, clock, past,
                 mishap>>

ResetRegisters ==
  /\ mpc = "reset"
  /\ qm_r' = [qm_r EXCEPT ![bank.h][bank.s] = NoCells]
  /\ bank' = NoBank
  /\ mpc' = "store"
  /\ UNCHANGED <<stack_top_r, seq_num_r, data_query_lock_r, highest_bit_r,
                 second_highest_tb, wire, slot, shared, buffer, poll_ts, answer,
                 files, clock, past, mishap>>

File(ts, overflow, qm, p) ==
  [ts |-> ts, overflow |-> overflow, qm |-> qm, poll |-> p]

\* A mark that is not taken back once it was written.
StorePoll_KeepsWrap ==
  /\ mpc = "store"
  /\ files' = files \cup {File(poll_ts, wrap, buffer, TRUE)}
  /\ buffer' = NoCells
  /\ poll_ts' = 0
  /\ mpc' = "loop"
  /\ Mishap(buffer = NoCells, "empty file")
  /\ UNCHANGED <<switch, slot, shared, bank, answer, clock, past>>

StorePoll ==
  /\ mpc = "store"
  /\ files' = files \cup {File(poll_ts, wrap, buffer, TRUE)}
  /\ wrap' = FALSE
  /\ buffer' = NoCells
  /\ poll_ts' = 0
  /\ mpc' = "loop"
  /\ Mishap(buffer = NoCells, "empty file")
  /\ UNCHANGED <<switch, slot, highest, second_highest, data_signal, bank, answer,
                 clock, past>>

----------------------------------------------------------------------------
(* The main loop: the data plane query.                                    *)

\* A query waits for the first round of polls.
Polled == \E f \in files : f.poll

\* n cells from data_query_start on are read and reset.
ReadChunk(n) ==
  LET q     == Head(data_signal)
      chunk == data_query_start .. data_query_start + n - 1
  IN
  /\ mpc = "loop"
  /\ data_signal # <<>>
  /\ Polled
  /\ n <= MaxQdepth - data_query_start
  /\ data_query_start' = data_query_start + n
  /\ data_query_buffer' = [d \in Depths |-> IF d \in chunk THEN qm_r[q.h][q.s][d]
                                            ELSE data_query_buffer[d]]
  /\ qm_r' = [qm_r EXCEPT ![q.h][q.s] =
                [d \in Depths |-> IF d \in chunk THEN NoPacket ELSE @[d]]]
  /\ UNCHANGED <<stack_top_r, seq_num_r, data_query_lock_r, highest_bit_r,
                 second_highest_tb, wire, slot, shared, poll, files, clock, past,
                 mishap>>

\* The file is named after the receipt of the signal, and never for an overflow.
StoreQuery ==
  /\ mpc = "loop"
  /\ data_signal # <<>>
  /\ data_query_start = MaxQdepth
  /\ files' = files \cup
                {File(Head(data_signal).ts, FALSE, data_query_buffer, FALSE)}
  /\ data_query_lock_r' = 0
  /\ data_signal' = Tail(data_signal)
  /\ data_query_start' = 0
  /\ data_query_buffer' = NoCells
  /\ Mishap(data_query_buffer = NoCells, "empty file")
  /\ UNCHANGED <<stack_top_r, seq_num_r, highest_bit_r, second_highest_tb, qm_r,
                 wire, slot, highest, second_highest, wrap, poll, clock, past>>

Next ==
  \/ \E depth \in Depths, threshold \in Thresholds : Packet(depth, threshold)
  \/ Receive \/ FlipHighest
  \/ SetSecondHighest \/ ToggleSecondHighest \/ ComputeIndex
  \/ ReadRegisters \/ ResetRegisters \/ StorePoll
  \/ (\E n \in 1 .. MaxQdepth : ReadChunk(n)) \/ StoreQuery

Spec == Init /\ [][Next]_vars

----------------------------------------------------------------------------
(* Properties.                                                             *)

\* A register, a buffer or a file holds the last packet of the depth.
Recorded(d) ==
  \/ \E h \in Bits, s \in Bits : qm_r[h][s][d] = last[d]
  \/ last[d] \in {buffer[d], data_query_buffer[d]}
  \/ \E f \in files : f.qm[d] = last[d]

\* No record is erased unread, however polls, queries and packets interleave.
NoRecordLost == \A d \in Depths : last[d] # NoPacket => Recorded(d)

\* Every signal was answered and the last file is of a poll.
Settled ==
  /\ wire = <<>> /\ slot = NoSlot /\ data_signal = <<>> /\ mpc = "loop"
  /\ \E f \in files : f.poll /\ \A g \in files : g.ts <= f.ts

InOrder(fs) ==
  CHOOSE seq \in [1 .. Cardinality(fs) -> fs] :
    \A i, j \in 1 .. Cardinality(fs) : i < j => seq[i].ts < seq[j].ts

\* The filter returns the stack the packets made by the time of the last poll,
\* over data plane queries and overflows of the sequence number, unless a signal
\* crossed a poll, a query followed an overflow before the poll did, a file was
\* empty or an overflow came while the port was locked.
StackTrue ==
  Settled /\ mishap = "none" => FilterQM(InOrder(files)) = stack

\* QueueMonitor.py:54: "wrap is the overflow times of the seq number", and :58,
\* "if C == 1, then the seq num overflows", from which it is counted: a file for
\* each overflow, signals that cross a poll apart.
OverflowsCounted ==
  Settled /\ mishap # "signal during poll" => Cardinality({f \in files : f.overflow}) = at_poll \div 2^SeqBits
=============================================================================
