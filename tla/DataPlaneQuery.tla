--------------------------- MODULE DataPlaneQuery ---------------------------
(***************************************************************************)
(* The time-windows build of PrintQueue: the egress pipeline of the        *)
(* switch, the thread that receives its signals and the main loop that     *)
(* reads its registers (PrintQueue.c and time_windows_data_query.p4).      *)
(*                                                                         *)
(* Every port owns four banks of registers, named by two bits.  The        *)
(* control plane changes the second highest bit to retire the bank it is   *)
(* about to poll; the data plane changes the highest bit, and locks        *)
(* itself, when a packet asks for a data plane query.  The bank a query    *)
(* has frozen is read in chunks between polls.  Both threads keep copies   *)
(* of the two bits, without a mutex, and this module is about what those   *)
(* copies are worth when the three actors interleave.                      *)
(*                                                                         *)
(* Abstractions.  A bank has one content, which any packet recorded in it  *)
(* replaces: reads only have to tell whether a bank changed under them.    *)
(* Timers are choices: a due poll may happen once a round for each port    *)
(* (polled), and an available_interval test may go either way.  A packet   *)
(* crosses the pipeline in one step, since every register is met in one    *)
(* stage and in packet order.  A port, its isolation_id and its row in     *)
(* port_table are one number.                                              *)
(***************************************************************************)
EXTENDS Integers, Sequences, FiniteSets

CONSTANTS
  NumPorts,    \* port_entry_num, the rows of port_isolation.csv
  MaxPortNum,  \* MAX_PORT_NUM, the rows the tables and registers have
  CellNumber,  \* cell_number, the cells of one bank
  Contents,    \* what the registers of a bank may hold
  NoContent,   \* no file was written yet, or its parts disagree
  StoreOrder,  \* where the compiler puts the store to new_signal
  FlagReload,  \* whether the outer loop of the thread reloads signal_flag
  Prompt,      \* whether the thread's last stores come closer than a query
  Events       \* what may happen besides traffic and one SIGUSR1

ASSUME PortsAssumption ==
  /\ NumPorts \in Nat \ {0}
  /\ MaxPortNum \in Nat
  /\ NumPorts <= MaxPortNum
  /\ CellNumber \in Nat \ {0}

ASSUME BuildAssumption ==
  /\ StoreOrder \in {"program", "flag first"}
  /\ FlagReload \in BOOLEAN
  /\ Prompt \in BOOLEAN
  /\ Events \subseteq {"stop", "lost signal", "read error"}

ASSUME ContentsAssumption ==
  /\ Contents # {}
  /\ NoContent \notin Contents

VARIABLES
  \* the switch
  data_query_lock_r,  \* per port: 1 while a data plane query is unanswered
  highest_bit_r,      \* per port: the half being written
  second_highest_tb,  \* per port: action data of prepare_TW0
  tw_r,               \* per port, half and quarter: the time windows
  wire,               \* signals cloned to the CPU and not yet received
  \* the signal-receiving thread
  lpc, rcv_buf, slot,
  \* shared by the two threads and the signal handler
  highest, second_highest, data_signal, new_signal, loop_flag, signal_flag,
  \* the main loop
  mpc, bank, buffer, polled, per_round_count,
  finish_last, query, data_query_start, data_query_buffer,
  tw_data             \* per port: the file of the last data plane query

switch   == <<data_query_lock_r, highest_bit_r, second_highest_tb, tw_r, wire>>
thread   == <<lpc, rcv_buf, slot>>
flags    == <<loop_flag, signal_flag>>
shared   == <<highest, second_highest, data_signal, new_signal, flags>>
poll     == <<bank, buffer, polled, per_round_count>>
answer   == <<finish_last, query, data_query_start, data_query_buffer, tw_data>>
main     == <<mpc, poll, answer>>
vars     == <<switch, thread, shared, main>>

Ports     == 0 .. NumPorts - 1
Bits      == {0, 1}

\* A ring that only allows for the slot its full test keeps empty.
RingSlots_OnePerPort == MaxPortNum + 1

RingSlots == MaxPortNum + 2

\* The port and the two bits that address a bank.  A slot of the data_signal
\* ring holds the same three.
Banks == [port : Ports, h : Bits, s : Bits]
Bank(p, h, s) == [port |-> p, h |-> h, s |-> s]
NoBank == Bank(0, 0, 0)
ReadBank(b) == tw_r[b.port][b.h][b.s]

NoFrame == -1   \* nothing to parse in rcv_buf

----------------------------------------------------------------------------
Init ==
  /\ data_query_lock_r = [p \in Ports |-> 0]
  /\ highest_bit_r = [p \in Ports |-> 0]
  /\ second_highest_tb = [p \in Ports |-> 0]
  /\ tw_r \in [Ports -> [Bits -> [Bits -> Contents]]]
  /\ wire = <<>>
  /\ lpc = "test"
  /\ rcv_buf = NoFrame
  /\ slot = NoBank
  /\ highest = [p \in Ports |-> 0]
  /\ second_highest = [p \in Ports |-> 1]
  /\ data_signal = <<>>
  /\ new_signal = FALSE
  /\ loop_flag = FALSE
  /\ signal_flag = FALSE
  /\ mpc = "idle"
  /\ bank = NoBank
  /\ buffer = {}
  /\ polled = {}
  /\ per_round_count = 0
  /\ finish_last = TRUE
  /\ query = NoBank
  /\ data_query_start = 0
  /\ data_query_buffer = {}
  /\ tw_data = [p \in Ports |-> NoContent]

----------------------------------------------------------------------------
(* The egress pipeline, for one packet of port p.                          *)

\* The clone a trigger emits may be dropped on its way to the CPU.
Signal(p) ==
  \/ wire' = Append(wire, p)
  \/ "lost signal" \in Events /\ wire' = wire

\* A lock that is set and never looked at.
Packet_IgnoresLock(p, exceed, c) ==
  LET half == IF exceed THEN 1 - highest_bit_r[p] ELSE highest_bit_r[p] IN
  /\ data_query_lock_r' = [data_query_lock_r EXCEPT
                             ![p] = IF exceed THEN 1 ELSE @]
  /\ IF exceed /\ data_query_lock_r[p] = 0 THEN Signal(p) ELSE wire' = wire
  /\ highest_bit_r' = [highest_bit_r EXCEPT ![p] = half]
  /\ tw_r' = [tw_r EXCEPT ![p][half][second_highest_tb[p]] = c]
  /\ UNCHANGED <<second_highest_tb, thread, shared, main>>

Packet(p, exceed, c) ==
  LET trigger == exceed /\ data_query_lock_r[p] = 0
      half    == IF trigger THEN 1 - highest_bit_r[p] ELSE highest_bit_r[p]
  IN
  /\ IF trigger
       THEN /\ data_query_lock_r' = [data_query_lock_r EXCEPT ![p] = 1]
            /\ Signal(p)
       ELSE UNCHANGED <<data_query_lock_r, wire>>
  /\ highest_bit_r' = [highest_bit_r EXCEPT ![p] = half]
  /\ tw_r' = [tw_r EXCEPT ![p][half][second_highest_tb[p]] = c]
  /\ UNCHANGED <<second_highest_tb, thread, shared, main>>

----------------------------------------------------------------------------
(* The signal-receiving thread.                                            *)

\* signal_flag tested once, whatever the build.
TestSignalFlag_Once ==
  /\ lpc = "test"
  /\ lpc' = IF signal_flag THEN "recv" ELSE "spin"
  /\ UNCHANGED <<switch, rcv_buf, slot, shared, main>>

\* while(running_flag) while(signal_flag): a build that does not reload the
\* flag stays in the outer loop once it has seen it cleared.
TestSignalFlag ==
  /\ lpc = "test"
  /\ \/ signal_flag /\ lpc' = "recv"
     \/ ~signal_flag /\ ~FlagReload /\ lpc' = "spin"
  /\ UNCHANGED <<switch, rcv_buf, slot, shared, main>>

Receive ==
  /\ lpc = "recv"
  /\ wire # <<>>
  /\ rcv_buf' = Head(wire)
  /\ wire' = Tail(wire)
  /\ lpc' = "check"
  /\ UNCHANGED <<data_query_lock_r, highest_bit_r, second_highest_tb, tw_r,
                 slot, shared, main>>

\* A caught signal interrupts recvfrom while it waits (sa_flags is 0).  The -1 it
\* returns is not less than 14 in an unsigned n, and the frame of the last call
\* is parsed again.
ReceiveFails ==
  /\ "read error" \in Events
  /\ lpc = "recv"
  /\ wire = <<>>
  /\ lpc' = IF rcv_buf = NoFrame THEN "test" ELSE "check"
  /\ UNCHANGED <<switch, rcv_buf, slot, shared, main>>

\* (The variants of a definition, named after it with an underscore, are bugs a
\* property of this module is known to catch.)
RingFull == Len(data_signal) = RingSlots - 1

\* The slot at the tail is filled, except for what FlipHighest and ReadSecond
\* copy into it.  The frame stays in rcv_buf, where only a failed call finds it.
FillSlot ==
  /\ lpc = "check"
  /\ IF RingFull
       THEN /\ lpc' = "test"
            /\ UNCHANGED slot
       ELSE /\ lpc' = IF StoreOrder = "program" THEN "flip" ELSE "flag"
            /\ slot' = Bank(rcv_buf, 0, 0)
  /\ rcv_buf' = IF "read error" \in Events THEN rcv_buf ELSE NoFrame
  /\ UNCHANGED <<switch, shared, main>>

\* The bit saved after it was flipped.
FlipHighest_SavesNew ==
  /\ lpc = "flip"
  /\ slot' = [slot EXCEPT !.h = 1 - highest[slot.port]]
  /\ highest' = [highest EXCEPT ![slot.port] = 1 - @]
  /\ lpc' = "second"
  /\ UNCHANGED <<switch, rcv_buf, second_highest, data_signal, new_signal,
                 flags, main>>

\* The bit saved and not flipped.
FlipHighest_OnlySaves ==
  /\ lpc = "flip"
  /\ slot' = [slot EXCEPT !.h = highest[slot.port]]
  /\ lpc' = "second"
  /\ UNCHANGED <<switch, rcv_buf, shared, main>>

FlipHighest ==
  /\ lpc = "flip"
  /\ slot' = [slot EXCEPT !.h = highest[slot.port]]
  /\ highest' = [highest EXCEPT ![slot.port] = 1 - @]
  /\ lpc' = "second"
  /\ UNCHANGED <<switch, rcv_buf, second_highest, data_signal, new_signal,
                 flags, main>>

ReadSecond ==
  /\ lpc = "second"
  /\ slot' = [slot EXCEPT !.s = 1 - second_highest[slot.port]]
  /\ lpc' = "publish"
  /\ UNCHANGED <<switch, rcv_buf, shared, main>>

Publish ==
  /\ lpc = "publish"
  /\ data_signal' = Append(data_signal, slot)
  /\ slot' = NoBank
  /\ lpc' = IF StoreOrder = "program" THEN "flag" ELSE "test"
  /\ UNCHANGED <<switch, rcv_buf, highest, second_highest, new_signal,
                 flags, main>>

SetNewSignal ==
  /\ lpc = "flag"
  /\ new_signal' = TRUE
  /\ lpc' = IF StoreOrder = "program" THEN "test" ELSE "flip"
  /\ UNCHANGED <<switch, rcv_buf, slot, highest, second_highest, data_signal,
                 flags, main>>

Thread ==
  \/ TestSignalFlag \/ Receive \/ FillSlot \/ FlipHighest
  \/ ReadSecond \/ Publish \/ SetNewSignal

----------------------------------------------------------------------------
(* The main loop: control.                                                 *)

TestLoopFlag ==
  /\ mpc \in {"idle", "top"}
  /\ mpc' = IF loop_flag THEN "body" ELSE "idle"
  /\ mpc' # mpc
  /\ polled' = IF mpc = "idle" THEN {} ELSE polled
  /\ UNCHANGED <<switch, thread, shared, bank, buffer, per_round_count,
                 answer>>

\* The rest of an iteration has nothing to do, or too little time to do it.
Continue ==
  /\ mpc = "body"
  /\ mpc' = "top"
  /\ UNCHANGED <<switch, thread, shared, poll, answer>>

\* The experiment has lasted duration seconds: two stores.
DurationEnds ==
  /\ "stop" \in Events
  /\ mpc = "body"
  /\ loop_flag' = FALSE
  /\ mpc' = "end"
  /\ UNCHANGED <<switch, thread, highest, second_highest, data_signal,
                 new_signal, signal_flag, poll, answer>>

StopThread ==
  /\ mpc = "end"
  /\ signal_flag' = FALSE
  /\ mpc' = "top"
  /\ UNCHANGED <<switch, thread, highest, second_highest, data_signal,
                 new_signal, loop_flag, poll, answer>>

----------------------------------------------------------------------------
(* The main loop: the periodic read of port p.  A variable the code writes *)
(* before it reads it again is forgotten: bank after StorePoll, the query  *)
(* and its chunks after Pop.                                               *)

\* Bounds per_round_count, which only stopping and starting again can take
\* past 2 * NumPorts - 1.
RoundBound == 2 * NumPorts

SetSecondHighest(p) ==
  /\ mpc = "body"
  /\ p \notin polled
  /\ p # 0 => per_round_count < RoundBound
  /\ polled' = IF polled \cup {p} = Ports THEN {} ELSE polled \cup {p}
  /\ per_round_count' = IF p = 0 THEN 0 ELSE per_round_count
  /\ second_highest_tb' = [second_highest_tb EXCEPT ![p] = second_highest[p]]
  /\ bank' = Bank(p, 0, 0)
  /\ mpc' = "toggle"
  /\ UNCHANGED <<data_query_lock_r, highest_bit_r, tw_r, wire, thread, shared,
                 buffer, answer>>

\* An increment for the exclusive or.
ToggleSecondHighest_Adds ==
  /\ mpc = "toggle"
  /\ second_highest' = [second_highest EXCEPT ![bank.port] = @ + 1]
  /\ mpc' = "index"
  /\ UNCHANGED <<switch, thread, highest, data_signal, new_signal, flags,
                 poll, answer>>

ToggleSecondHighest ==
  /\ mpc = "toggle"
  /\ second_highest' = [second_highest EXCEPT ![bank.port] = 1 - @]
  /\ mpc' = "index"
  /\ UNCHANGED <<switch, thread, highest, data_signal, new_signal, flags,
                 poll, answer>>

\* The index of the bank in use instead of the retired one.
ComputeIndex_BankInUse ==
  /\ mpc = "index"
  /\ bank' = [bank EXCEPT !.h = highest[bank.port],
                         !.s = 1 - second_highest[bank.port]]
  /\ mpc' = "read"
  /\ UNCHANGED <<switch, thread, shared, buffer, polled, per_round_count,
                 answer>>

ComputeIndex ==
  /\ mpc = "index"
  /\ bank' = [bank EXCEPT !.h = highest[bank.port],
                         !.s = second_highest[bank.port]]
  /\ mpc' = "read"
  /\ UNCHANGED <<switch, thread, shared, buffer, polled, per_round_count,
                 answer>>

\* The range read takes one register after another, while packets go on.
ReadRegisters ==
  /\ mpc = "read"
  /\ buffer' = buffer \cup {ReadBank(bank)}
  /\ UNCHANGED <<switch, thread, shared, mpc, bank, polled, per_round_count,
                 answer>>

StorePoll ==
  /\ mpc = "read"
  /\ buffer # {}
  /\ buffer' = {}
  /\ bank' = NoBank
  /\ per_round_count' = per_round_count + 1
  /\ mpc' = "body"
  /\ UNCHANGED <<switch, thread, shared, polled, answer>>

----------------------------------------------------------------------------
(* The main loop: the data plane query.                                    *)

AllPolled == mpc = "body" /\ per_round_count = NumPorts

\* The thread has done one of the stores to data_signal_tail and to new_signal
\* and not yet the other.
BetweenStores ==
  IF StoreOrder = "program" THEN lpc = "flag"
                            ELSE lpc \in {"flip", "second", "publish"}

\* data_signal[data_signal_head], published or not.  A slot that was never used
\* is all zeros but for what the thread has written; one that an older signal
\* used holds the bits of that signal instead, which this leaves out.
FirstSlot == IF data_signal = <<>> THEN slot ELSE Head(data_signal)

\* A control plane that unlocks a port as soon as it takes up its signal.
StartQuery_Unlocks ==
  /\ AllPolled
  /\ finish_last
  /\ new_signal
  /\ finish_last' = FALSE
  /\ query' = FirstSlot
  /\ data_query_start' = 0
  /\ data_query_buffer' = {}
  /\ data_query_lock_r' = [data_query_lock_r EXCEPT ![FirstSlot.port] = 0]
  /\ UNCHANGED <<highest_bit_r, second_highest_tb, tw_r, wire, thread, shared,
                 mpc, poll, tw_data>>

StartQuery ==
  /\ AllPolled
  /\ finish_last
  /\ new_signal
  /\ finish_last' = FALSE
  /\ query' = FirstSlot
  /\ data_query_start' = 0
  /\ data_query_buffer' = {}
  /\ UNCHANGED <<switch, thread, shared, mpc, poll, tw_data>>

\* One chunk of n cells; the code takes as many as the time left allows.
ReadChunk(n) ==
  /\ AllPolled
  /\ ~finish_last
  /\ n <= CellNumber - data_query_start
  /\ data_query_start' = data_query_start + n
  /\ data_query_buffer' = data_query_buffer \cup {ReadBank(query)}
  /\ UNCHANGED <<switch, thread, shared, mpc, poll, finish_last, query,
                 tw_data>>

\* A file whose chunks were not taken from one content has none.  Where the
\* thread is Prompt, the driver calls and the file of a query outlast the
\* instructions between its two stores.
StoreQuery ==
  /\ AllPolled
  /\ ~finish_last
  /\ data_query_start = CellNumber
  /\ Prompt => ~BetweenStores
  /\ tw_data' = [tw_data EXCEPT ![query.port] =
                   IF \E c \in Contents : data_query_buffer = {c}
                     THEN CHOOSE c \in Contents : data_query_buffer = {c}
                     ELSE NoContent]
  /\ mpc' = "unlock"
  /\ UNCHANGED <<switch, thread, shared, poll, finish_last, query,
                 data_query_start, data_query_buffer>>

\* Every port unlocked, where the code resets the lock of one.
Unlock_All ==
  /\ mpc = "unlock"
  /\ data_query_lock_r' = [p \in Ports |-> 0]
  /\ mpc' = "pop"
  /\ UNCHANGED <<highest_bit_r, second_highest_tb, tw_r, wire, thread, shared,
                 poll, answer>>

Unlock ==
  /\ mpc = "unlock"
  /\ data_query_lock_r' = [data_query_lock_r EXCEPT ![query.port] = 0]
  /\ mpc' = "pop"
  /\ UNCHANGED <<highest_bit_r, second_highest_tb, tw_r, wire, thread, shared,
                 poll, answer>>

\* finish_last set only when the ring is found empty.
Pop_OnlyEmptyFinishes ==
  /\ mpc = "pop"
  /\ data_signal # <<>>
  /\ data_signal' = Tail(data_signal)
  /\ query' = NoBank
  /\ data_query_start' = 0
  /\ data_query_buffer' = {}
  /\ IF Tail(data_signal) = <<>>
       THEN mpc' = "clear"
       ELSE mpc' = "body"
  /\ UNCHANGED <<switch, thread, highest, second_highest, new_signal, flags,
                 poll, finish_last, tw_data>>

\* The ring is advanced and found empty or not.  (The head never passes the
\* tail where the thread is Prompt; what it does after that is not modelled.)
Pop ==
  /\ mpc = "pop"
  /\ data_signal # <<>>
  /\ data_signal' = Tail(data_signal)
  /\ query' = NoBank
  /\ data_query_start' = 0
  /\ data_query_buffer' = {}
  /\ IF Tail(data_signal) = <<>>
       THEN mpc' = "clear" /\ UNCHANGED finish_last
       ELSE mpc' = "body" /\ finish_last' = TRUE
  /\ UNCHANGED <<switch, thread, highest, second_highest, new_signal, flags,
                 poll, tw_data>>

ClearNewSignal ==
  /\ mpc = "clear"
  /\ new_signal' = FALSE
  /\ finish_last' = TRUE
  /\ mpc' = "body"
  /\ UNCHANGED <<switch, thread, highest, second_highest, data_signal, flags,
                 poll, query, data_query_start, data_query_buffer, tw_data>>

QueryStep ==
  StartQuery \/ (\E n \in 1 .. CellNumber : ReadChunk(n)) \/ StoreQuery

Main ==
  \/ TestLoopFlag \/ Continue \/ StopThread
  \/ \E p \in Ports : SetSecondHighest(p)
  \/ ToggleSecondHighest \/ ComputeIndex \/ ReadRegisters \/ StorePoll
  \/ QueryStep \/ Unlock \/ Pop \/ ClearNewSignal

----------------------------------------------------------------------------
(* The operator: SIGUSR1.                                                  *)

USR1 ==
  /\ loop_flag => "stop" \in Events
  /\ loop_flag' = ~loop_flag
  /\ signal_flag' = ~loop_flag
  /\ UNCHANGED <<switch, thread, highest, second_highest, data_signal,
                 new_signal, main>>

Traffic == \E p \in Ports, exceed \in BOOLEAN, c \in Contents :
             Packet(p, exceed, c)

Next == Traffic \/ Thread \/ ReceiveFails \/ Main \/ DurationEnds \/ USR1

Spec == Init /\ [][Next]_vars

\* The scheduler runs both threads, and an iteration of the main loop finds
\* every timer of it elapsed again and again.
Fairness ==
  /\ WF_vars(Thread)
  /\ WF_vars(Main)
  /\ \A p \in Ports : SF_vars(SetSecondHighest(p))
  /\ SF_vars(QueryStep)

FairSpec == Spec /\ Fairness

----------------------------------------------------------------------------
(* Properties.                                                             *)

\* Every variable has its type: bits stay bits, counters stay in their ranges.
TypeOK ==
  /\ data_query_lock_r \in [Ports -> Bits]
  /\ highest_bit_r \in [Ports -> Bits]
  /\ second_highest_tb \in [Ports -> Bits]
  /\ tw_r \in [Ports -> [Bits -> [Bits -> Contents]]]
  /\ wire \in Seq(Ports)
  /\ lpc \in {"test", "spin", "recv", "check", "flip", "second", "publish",
              "flag"}
  /\ rcv_buf \in Ports \cup {NoFrame}
  /\ slot \in Banks
  /\ highest \in [Ports -> Bits]
  /\ second_highest \in [Ports -> Bits]
  /\ data_signal \in Seq(Banks)
  /\ new_signal \in BOOLEAN
  /\ loop_flag \in BOOLEAN
  /\ signal_flag \in BOOLEAN
  /\ mpc \in {"idle", "top", "body", "end", "toggle", "index", "read",
              "unlock", "pop", "clear"}
  /\ bank \in Banks
  /\ buffer \in SUBSET Contents
  /\ polled \in SUBSET Ports
  /\ per_round_count \in 0 .. RoundBound
  /\ finish_last \in BOOLEAN
  /\ query \in Banks
  /\ data_query_start \in 0 .. CellNumber
  /\ data_query_buffer \in SUBSET Contents
  /\ tw_data \in [Ports -> Contents \cup {NoContent}]

\* Where a signal of port p may be.
OnWire(p)   == {j \in 1 .. Len(wire) : wire[j] = p}
InRing(p)   == {j \in 1 .. Len(data_signal) : data_signal[j].port = p}
InThread(p) == \/ lpc = "check" /\ rcv_buf = p
               \/ lpc \in {"flag", "flip", "second", "publish"}
                  /\ slot.port = p
                  /\ ~(StoreOrder = "program" /\ lpc = "flag")

\* The first slot of the ring once its port is unlocked.
Answered(p) == mpc = "pop" /\ data_signal # <<>> /\ Head(data_signal).port = p

SignalsOf(p) ==
  Cardinality(OnWire(p)) + Cardinality(InRing(p))
    + (IF InThread(p) THEN 1 ELSE 0) - (IF Answered(p) THEN 1 ELSE 0)

\* The lock of a port and its unanswered signal come and go together: no signal
\* outlives the lock, none is counted twice on its way from the wire to the
\* ring, and a locked port has one that will be answered.
OneSignalPerLock == \A p \in Ports : SignalsOf(p) = data_query_lock_r[p]

\* The same when the wire may lose signals: a port may then stay locked with
\* none, and still never has two.
AtMostOneSignal == \A p \in Ports : SignalsOf(p) <= data_query_lock_r[p]

\* The warning "data signal queue overflows!" (PrintQueue.c:594) is never
\* printed: MAX_PORT_NUM + 2 slots hold one signal per port and the one more
\* that a port sends between its unlocking and the move of the head.
RingNeverOverflows == lpc = "check" => ~RingFull

\* The copy of the highest bit differs from the register exactly while a signal
\* of the port has left the switch and its flip was not done.
HighestFollows ==
  \A p \in Ports :
    (highest[p] # highest_bit_r[p])
      <=> \/ OnWire(p) # {}
          \/ InThread(p) /\ lpc \in {"check", "flip"}

\* A query in progress: its chunks are being read or are all read, unstored.
Querying == ~finish_last /\ mpc \notin {"pop", "clear"}

\* All chunks of a data plane query see the same registers, although they are
\* read between polls, with packets recorded and banks switched in between: the
\* half being read is the one the data plane has left.
QuerySnapshot ==
  Querying => data_query_buffer \subseteq {ReadBank(query)}

\* A periodic read, which takes one register after another, sees a bank that no
\* packet is recorded in.
PollSnapshot == mpc = "read" => buffer \subseteq {ReadBank(bank)}

\* Data plane queries are answered one after another and in the order of their
\* signals: the query in progress is the one at the head of the ring.
QueryIsFirst ==
  Querying => /\ data_signal # <<>>
              /\ query = FirstSlot
              /\ data_query_lock_r[query.port] = 1
              /\ query.h # highest_bit_r[query.port]

\* A signal waits in the ring, new_signal is cleared and nothing is about to
\* set it: only the signal of another port can wake the main loop.
Forgotten ==
  data_signal # <<>> /\ ~new_signal /\ lpc \notin {"publish", "flag"}

KeepsRunning == <>[](loop_flag /\ signal_flag)

\* While both flags stay up, a locked port is answered and unlocked, or its
\* signal is forgotten.
AnsweredUnlessForgotten ==
  KeepsRunning => \A p \in Ports :
    (data_query_lock_r[p] = 1) ~> (data_query_lock_r[p] = 0 \/ Forgotten)

\* README.md:119: a data plane query "is process that data plane program
\* triggers control plane program to read and store register values".
QueryAnswered ==
  KeepsRunning => \A p \in Ports :
    (data_query_lock_r[p] = 1) ~> (data_query_lock_r[p] = 0)

\* PrintQueue.c:237: "The signal-receiving thread starts monitoring CPU-switch
\* interface when signal_flag = true": at first and after every stop, unless it
\* is stopped again before it gets there.
ThreadStarts == signal_flag ~> (lpc = "recv" \/ ~signal_flag)

\* A signal that is on the wire when the thread is started, or comes later, gets
\* to the ring, however often the thread was stopped and started before: stops
\* delay signals and lose none.
SignalsReceived ==
  \A p \in Ports :
    (signal_flag /\ OnWire(p) # {})
      ~> (~signal_flag \/ (OnWire(p) = {} /\ InRing(p) # {}))

\* The refinement mapping: a locked port has asked, and is answered once the
\* file is written; what it froze is the half the data plane has left.
Phase(p) ==
  IF data_query_lock_r[p] = 0 THEN "idle"
  ELSE IF mpc = "unlock" /\ query.port = p THEN "answered" ELSE "asked"

Frozen(p) ==
  IF Phase(p) = "idle" THEN CHOOSE q \in [{0, 1} -> Contents] : TRUE
  ELSE tw_r[p][1 - highest_bit_r[p]]

Snapshot == INSTANCE SnapshotQuery WITH
  phase  <- [p \in Ports |-> Phase(p)],
  frozen <- [p \in Ports |-> Frozen(p)],
  file   <- tw_data

\* The three actors implement the abstract data plane query: every file is one
\* quarter of the half frozen by the trigger, complete and untorn.
ImplementsSnapshotQuery == Snapshot!Spec

=============================================================================
