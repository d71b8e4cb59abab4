------------------------ MODULE DataPlaneQueryProofs ------------------------
(***************************************************************************)
(* What is proved of DataPlaneQuery for every number of ports and whatever *)
(* the registers hold.  Of every build and all events: types, and the      *)
(* integrity of the periodic reads.  Of a sound build, from SoundBuild on: *)
(* the data plane queries, the ring, the delivery of signals and the       *)
(* refinement of SnapshotQuery.                                            *)
(***************************************************************************)
EXTENDS DataPlaneQuery, FiniteSetTheorems, SequenceTheorems, TLAPS

----------------------------------------------------------------------------
(* The inductive invariant.                                                *)

\* TypeOK, with the ranges that two program counters guarantee.
TypeInv ==
  /\ TypeOK
  /\ lpc = "check" => rcv_buf \in Ports
  /\ mpc \in {"toggle", "index", "read"} => per_round_count < RoundBound

\* The bank being polled is the retired one: the quarter the main loop keeps in
\* second_highest is not the one the switch was told to use.
PollInv ==
  /\ \A p \in Ports :
       second_highest_tb[p] = IF mpc = "toggle" /\ bank.port = p
                                THEN second_highest[p]
                                ELSE 1 - second_highest[p]
  /\ mpc = "read" => bank.s = second_highest[bank.port]
  /\ mpc # "read" => buffer = {}
  /\ PollSnapshot

----------------------------------------------------------------------------
(* Types.                                                                  *)

LEMMA BankType ==
  ASSUME NEW p \in Ports, NEW h \in Bits, NEW s \in Bits
  PROVE  Bank(p, h, s) \in Banks
  BY DEF Bank, Banks

LEMMA ReadBankType ==
  ASSUME TypeOK, NEW b \in Banks
  PROVE  ReadBank(b) \in Contents
  BY DEF TypeOK, Banks, ReadBank

LEMMA BitFlip ==
  ASSUME NEW b \in Bits
  PROVE  1 - b \in Bits /\ 1 - b # b /\ \A d \in Bits : d # b => d = 1 - b
  BY DEF Bits

LEMMA PortZero == 0 \in Ports /\ NumPorts \in Nat \ {0}
  BY PortsAssumption DEF Ports

LEMMA InitType == Init => TypeInv
  <1> SUFFICES ASSUME Init PROVE TypeInv
    OBVIOUS
  <1>1. NoBank \in Banks
    BY PortZero, BankType DEF NoBank, Bits
  <1>2. wire \in Seq(Ports) /\ data_signal \in Seq(Banks)
    BY DEF Init
  <1> QED
    BY <1>1, <1>2, PortZero, PortsAssumption
    DEF Init, TypeInv, TypeOK, Bits, RoundBound, NoFrame

LEMMA PacketType ==
  ASSUME TypeInv, NEW p \in Ports, NEW exceed \in BOOLEAN, NEW c \in Contents,
         Packet(p, exceed, c)
  PROVE  TypeInv'
  <1>0. wire \in Seq(Ports) /\ Append(wire, p) \in Seq(Ports)
    BY AppendProperties DEF TypeInv, TypeOK
  <1>1. wire' \in Seq(Ports)
    <2>1. wire' = wire \/ wire' = Append(wire, p)
      BY DEF Packet, Signal
    <2> QED
      BY <1>0, <2>1
  <1>2. /\ data_query_lock_r' \in [Ports -> Bits]
        /\ highest_bit_r' \in [Ports -> Bits]
    BY DEF TypeInv, TypeOK, Packet, Bits
  <1>3. tw_r' \in [Ports -> [Bits -> [Bits -> Contents]]]
    BY <1>2 DEF TypeInv, TypeOK, Packet, Bits
  <1> QED
    BY <1>1, <1>2, <1>3
    DEF TypeInv, TypeOK, Packet, thread, shared, flags, main, poll, answer,
        RoundBound

LEMMA ThreadType ==
  ASSUME TypeInv, Thread \/ ReceiveFails
  PROVE  TypeInv'
  <1>1. CASE TestSignalFlag \/ ReceiveFails \/ SetNewSignal
    BY <1>1 DEF TypeInv, TypeOK, TestSignalFlag, ReceiveFails, SetNewSignal,
                switch, shared, flags, main, poll, answer, RoundBound, NoFrame
  <1>2. CASE Receive
    <2>1. Head(wire) \in Ports /\ Tail(wire) \in Seq(Ports)
      BY <1>2, HeadTailProperties DEF TypeInv, TypeOK, Receive
    <2> QED
      BY <1>2, <2>1 DEF TypeInv, TypeOK, Receive, shared, flags, main, poll,
                        answer, RoundBound
  <1>3. CASE FillSlot
    <2>1. slot' \in Banks
      BY <1>3, BankType DEF TypeInv, TypeOK, FillSlot, Bits
    <2> QED
      BY <1>3, <2>1 DEF TypeInv, TypeOK, FillSlot, switch, shared, flags, main,
                        poll, answer, RoundBound
  <1>4. CASE FlipHighest
    <2>1. slot.port \in Ports
      BY DEF TypeInv, TypeOK, Banks
    <2>2. highest[slot.port] \in Bits /\ 1 - highest[slot.port] \in Bits
      BY <2>1, BitFlip DEF TypeInv, TypeOK
    <2>3. slot' \in Banks
      BY <1>4, <2>2 DEF TypeInv, TypeOK, FlipHighest, Banks
    <2>4. highest' \in [Ports -> Bits]
      BY <1>4, <2>1, <2>2 DEF TypeInv, TypeOK, FlipHighest
    <2> QED
      BY <1>4, <2>3, <2>4
      DEF TypeInv, TypeOK, FlipHighest, switch, flags, main, poll, answer,
          RoundBound
  <1>5. CASE ReadSecond
    <2>1. 1 - second_highest[slot.port] \in Bits
      BY BitFlip DEF TypeInv, TypeOK, Banks
    <2>2. slot' \in Banks
      BY <1>5, <2>1 DEF TypeInv, TypeOK, ReadSecond, Banks
    <2> QED
      BY <1>5, <2>2 DEF TypeInv, TypeOK, ReadSecond, switch, shared, flags, main,
                        poll, answer, RoundBound
  <1>6. CASE Publish
    <2>1. data_signal' \in Seq(Banks)
      BY <1>6, AppendProperties DEF TypeInv, TypeOK, Publish
    <2>2. slot' \in Banks
      BY <1>6, BankType, PortZero DEF Publish, NoBank, Bits
    <2> QED
      BY <1>6, <2>1, <2>2 DEF TypeInv, TypeOK, Publish, switch, flags, main,
                              poll, answer, RoundBound
  <1> QED
    BY <1>1, <1>2, <1>3, <1>4, <1>5, <1>6 DEF Thread

LEMMA PollType ==
  ASSUME TypeInv,
         \/ TestLoopFlag \/ Continue \/ StopThread \/ DurationEnds
         \/ (\E p \in Ports : SetSecondHighest(p))
         \/ ToggleSecondHighest \/ ComputeIndex \/ ReadRegisters \/ StorePoll
  PROVE  TypeInv'
  <1>1. CASE TestLoopFlag \/ Continue \/ StopThread \/ DurationEnds
    <2>1. CASE TestLoopFlag
      BY <2>1 DEF TypeInv, TypeOK, TestLoopFlag, switch, thread, shared, flags,
                  poll, answer, RoundBound
    <2>2. CASE Continue
      BY <2>2 DEF TypeInv, TypeOK, Continue, switch, thread, shared, flags,
                  poll, answer, RoundBound
    <2>3. CASE StopThread
      BY <2>3 DEF TypeInv, TypeOK, StopThread, switch, thread, shared, flags,
                  poll, answer, RoundBound
    <2>4. CASE DurationEnds
      BY <2>4 DEF TypeInv, TypeOK, DurationEnds, switch, thread, shared, flags,
                  poll, answer, RoundBound
    <2> QED
      BY <1>1, <2>1, <2>2, <2>3, <2>4
  <1>2. ASSUME NEW p \in Ports, SetSecondHighest(p)
        PROVE  TypeInv'
    <2>1. bank' \in Banks
      BY <1>2, BankType DEF SetSecondHighest, Bits
    <2>2. second_highest_tb' \in [Ports -> Bits]
      BY <1>2 DEF TypeInv, TypeOK, SetSecondHighest
    <2>3. per_round_count' \in 0 .. RoundBound /\ per_round_count' < RoundBound
      BY <1>2, PortsAssumption DEF TypeInv, TypeOK, SetSecondHighest, RoundBound
    <2>4. polled' \in SUBSET Ports
      BY <1>2 DEF TypeInv, TypeOK, SetSecondHighest
    <2> QED
      BY <1>2, <2>1, <2>2, <2>3, <2>4
      DEF TypeInv, TypeOK, SetSecondHighest, thread, shared, flags, answer,
          RoundBound
  <1>3. CASE ToggleSecondHighest
    <2>1. bank.port \in Ports /\ 1 - second_highest[bank.port] \in Bits
      BY BitFlip DEF TypeInv, TypeOK, Banks
    <2>2. second_highest' \in [Ports -> Bits]
      BY <1>3, <2>1 DEF TypeInv, TypeOK, ToggleSecondHighest
    <2> QED
      BY <1>3, <2>2 DEF TypeInv, TypeOK, ToggleSecondHighest, switch, thread,
                        flags, poll, answer, RoundBound
  <1>4. CASE ComputeIndex
    <2>1. bank' \in Banks
      BY <1>4 DEF TypeInv, TypeOK, ComputeIndex, Banks
    <2> QED
      BY <1>4, <2>1 DEF TypeInv, TypeOK, ComputeIndex, switch, thread, shared,
                        flags, answer, RoundBound
  <1>5. CASE ReadRegisters
    <2>1. buffer' \in SUBSET Contents
      BY <1>5, ReadBankType DEF TypeInv, TypeOK, ReadRegisters
    <2> QED
      BY <1>5, <2>1 DEF TypeInv, TypeOK, ReadRegisters, switch, thread, shared,
                        flags, answer, RoundBound
  <1>6. CASE StorePoll
    <2>1. bank' \in Banks
      BY <1>6, BankType, PortZero DEF StorePoll, NoBank, Bits
    <2>2. per_round_count' \in 0 .. RoundBound
      BY <1>6, PortsAssumption DEF TypeInv, TypeOK, StorePoll, RoundBound
    <2> QED
      BY <1>6, <2>1, <2>2 DEF TypeInv, TypeOK, StorePoll, switch, thread,
                              shared, flags, answer, RoundBound
  <1> QED
    BY <1>1, <1>2, <1>3, <1>4, <1>5, <1>6

LEMMA QueryType ==
  ASSUME TypeInv, QueryStep \/ Unlock \/ Pop \/ ClearNewSignal
  PROVE  TypeInv'
  <1>1. CASE StartQuery
    <2>1. query' \in Banks
      BY <1>1, HeadTailProperties DEF TypeInv, TypeOK, StartQuery, FirstSlot
    <2>2. data_query_start' \in 0 .. CellNumber
      BY <1>1, PortsAssumption DEF StartQuery
    <2>3. data_query_buffer' \in SUBSET Contents /\ finish_last' \in BOOLEAN
      BY <1>1 DEF StartQuery
    <2> QED
      BY <1>1, <2>1, <2>2, <2>3
      DEF TypeInv, TypeOK, StartQuery, AllPolled, switch, thread, shared, flags,
          poll, RoundBound
  <1>2. ASSUME NEW n \in 1 .. CellNumber, ReadChunk(n)
        PROVE  TypeInv'
    <2>1. data_query_buffer' \in SUBSET Contents
      BY <1>2, ReadBankType DEF TypeInv, TypeOK, ReadChunk
    <2>2. data_query_start' \in 0 .. CellNumber
      BY <1>2, PortsAssumption DEF TypeInv, TypeOK, ReadChunk
    <2> QED
      BY <1>2, <2>1, <2>2 DEF TypeInv, TypeOK, ReadChunk, switch, thread,
                              shared, flags, poll, RoundBound
  <1>3. CASE StoreQuery
    <2>1. tw_data' \in [Ports -> Contents \cup {NoContent}]
      BY <1>3 DEF TypeInv, TypeOK, StoreQuery, Banks
    <2> QED
      BY <1>3, <2>1 DEF TypeInv, TypeOK, StoreQuery, switch, thread, shared,
                        flags, poll, RoundBound
  <1>4. CASE Unlock
    <2>1. data_query_lock_r' \in [Ports -> Bits]
      BY <1>4 DEF TypeInv, TypeOK, Unlock, Bits
    <2> QED
      BY <1>4, <2>1 DEF TypeInv, TypeOK, Unlock, thread, shared, flags, poll,
                        answer, RoundBound
  <1>5. CASE Pop
    <2>1. data_signal' \in Seq(Banks)
      BY <1>5, HeadTailProperties DEF TypeInv, TypeOK, Pop
    <2>2. query' \in Banks
      BY <1>5, BankType, PortZero DEF Pop, NoBank, Bits
    <2>3. finish_last' \in BOOLEAN /\ mpc' \in {"clear", "body"}
      BY <1>5 DEF TypeInv, TypeOK, Pop
    <2>4. data_query_start' \in 0 .. CellNumber
      BY <1>5, PortsAssumption DEF Pop
    <2> QED
      BY <1>5, <2>1, <2>2, <2>3, <2>4
      DEF TypeInv, TypeOK, Pop, switch, thread, flags, poll, RoundBound
  <1>6. CASE ClearNewSignal
    BY <1>6 DEF TypeInv, TypeOK, ClearNewSignal, switch, thread, flags, poll,
                RoundBound
  <1> QED
    BY <1>1, <1>2, <1>3, <1>4, <1>5, <1>6 DEF QueryStep

LEMMA NextType == TypeInv /\ [Next]_vars => TypeInv'
  <1> SUFFICES ASSUME TypeInv, [Next]_vars
               PROVE  TypeInv'
    OBVIOUS
  <1>1. CASE Traffic
    BY <1>1, PacketType DEF Traffic
  <1>2. CASE Thread \/ ReceiveFails
    BY <1>2, ThreadType
  <1>3. CASE Main \/ DurationEnds
    BY <1>3, PollType, QueryType DEF Main
  <1>4. CASE USR1
    BY <1>4 DEF TypeInv, TypeOK, USR1, switch, thread, main, poll, answer,
                RoundBound
  <1>5. CASE UNCHANGED vars
    BY <1>5 DEF TypeInv, TypeOK, vars, switch, thread, shared, flags, main,
                poll, answer, RoundBound
  <1> QED
    BY <1>1, <1>2, <1>3, <1>4, <1>5 DEF Next

\* Every variable keeps its type, whatever the build and the events.
THEOREM TypeCorrect == Spec => []TypeOK
  <1>1. TypeInv => TypeOK
    BY DEF TypeInv
  <1> QED
    BY <1>1, InitType, NextType, PTL DEF Spec

----------------------------------------------------------------------------
(* Periodic reads.                                                         *)

LEMMA InitPoll == Init => PollInv
  BY PortZero DEF Init, PollInv, PollSnapshot, NoBank, Bank

\* A packet is recorded in the quarter in use, never in the retired one.
LEMMA PacketPoll ==
  ASSUME TypeInv, PollInv, NEW p \in Ports, NEW exceed \in BOOLEAN,
         NEW c \in Contents, Packet(p, exceed, c)
  PROVE  PollInv'
  <1>1. UNCHANGED <<second_highest_tb, second_highest, mpc, bank, buffer>>
    BY DEF Packet, shared, main, poll
  <1>2. ASSUME mpc = "read"
        PROVE  ReadBank(bank)' = ReadBank(bank)
    <2>1. /\ bank.port \in Ports /\ bank.h \in Bits /\ bank.s \in Bits
          /\ second_highest[bank.port] \in Bits
      BY DEF TypeInv, TypeOK, Banks
    <2>2. second_highest_tb[bank.port] # bank.s
      BY <1>2, <2>1, BitFlip DEF PollInv
    <2>3. tw_r'[bank.port][bank.h][bank.s] = tw_r[bank.port][bank.h][bank.s]
      <3>1. PICK half \in Bits :
              tw_r' = [tw_r EXCEPT ![p][half][second_highest_tb[p]] = c]
        BY BitFlip DEF TypeInv, TypeOK, Packet
      <3> QED
        BY <2>1, <2>2, <3>1 DEF TypeInv, TypeOK
    <2> QED
      BY <1>1, <2>3 DEF ReadBank
  <1> QED
    BY <1>1, <1>2 DEF PollInv, PollSnapshot

LEMMA PollPoll ==
  ASSUME TypeInv, PollInv,
         \/ (\E p \in Ports : SetSecondHighest(p))
         \/ ToggleSecondHighest \/ ComputeIndex \/ ReadRegisters \/ StorePoll
  PROVE  PollInv'
  <1>1. ASSUME NEW p \in Ports, SetSecondHighest(p)
        PROVE  PollInv'
    BY <1>1 DEF TypeInv, TypeOK, PollInv, PollSnapshot, SetSecondHighest,
                shared, Bank
  <1>2. CASE ToggleSecondHighest
    <2>1. bank.port \in Ports /\ \A p \in Ports : second_highest[p] \in Bits
      BY DEF TypeInv, TypeOK, Banks
    <2>2. \A b \in Bits : 1 - (1 - b) = b
      BY DEF Bits
    <2>3. \A p \in Ports :
            second_highest_tb'[p] = 1 - second_highest'[p]
      BY <1>2, <2>1, <2>2
      DEF TypeInv, TypeOK, PollInv, ToggleSecondHighest, switch
    <2> QED
      BY <1>2, <2>3 DEF PollInv, PollSnapshot, ToggleSecondHighest, poll
  <1>3. CASE ComputeIndex
    BY <1>3 DEF TypeInv, TypeOK, Banks, PollInv, PollSnapshot, ComputeIndex,
                switch, shared
  <1>4. CASE ReadRegisters
    BY <1>4 DEF PollInv, PollSnapshot, ReadRegisters, ReadBank, switch, shared
  <1>5. CASE StorePoll
    BY <1>5 DEF PollInv, PollSnapshot, StorePoll, switch, shared
  <1> QED
    BY <1>1, <1>2, <1>3, <1>4, <1>5

\* No other step is taken in the middle of a poll of the main loop, or changes
\* what the poll depends on.
LEMMA OtherPoll ==
  ASSUME PollInv,
         \/ Thread \/ ReceiveFails \/ USR1 \/ UNCHANGED vars
         \/ TestLoopFlag \/ Continue \/ StopThread \/ DurationEnds
         \/ QueryStep \/ Unlock \/ Pop \/ ClearNewSignal
  PROVE  PollInv'
  <1>1. /\ UNCHANGED <<second_highest_tb, second_highest, bank, buffer, tw_r>>
        /\ \/ mpc \notin {"toggle", "read"} /\ mpc' \notin {"toggle", "read"}
           \/ UNCHANGED mpc
    <2>1. CASE Thread \/ ReceiveFails \/ USR1 \/ UNCHANGED vars
      BY <2>1
      DEF Thread, TestSignalFlag, Receive, ReceiveFails, FillSlot, FlipHighest,
          ReadSecond, Publish, SetNewSignal, USR1, vars, switch, shared, main,
          poll
    <2>2. CASE TestLoopFlag \/ Continue \/ StopThread \/ DurationEnds
      BY <2>2
      DEF TestLoopFlag, Continue, StopThread, DurationEnds, switch, shared, poll
    <2>3. CASE QueryStep \/ Unlock \/ Pop \/ ClearNewSignal
      BY <2>3
      DEF QueryStep, StartQuery, ReadChunk, StoreQuery, Unlock, Pop,
          ClearNewSignal, AllPolled, switch, shared, poll
    <2> QED
      BY <2>1, <2>2, <2>3
  <1> QED
    BY <1>1 DEF PollInv, PollSnapshot, ReadBank

LEMMA NextPoll == TypeInv /\ PollInv /\ [Next]_vars => PollInv'
  BY PacketPoll, PollPoll, OtherPoll DEF Next, Traffic, Main

\* The switch uses the quarter that the main loop does not keep, in every state
\* but between the two stores of a poll.
THEOREM PollInvariant == Spec => []PollInv
  BY InitType, NextType, InitPoll, NextPoll, PTL DEF Spec

\* A periodic read returns one consistent bank, whatever the compiler does to
\* the thread, the wire does to signals and the operator to the flags: of the
\* two bits, only the one that the main loop itself owns protects it.
THEOREM PollSafe == Spec => []PollSnapshot
  <1>1. PollInv => PollSnapshot
    BY DEF PollInv
  <1> QED
    BY <1>1, PollInvariant, PTL

----------------------------------------------------------------------------
(* Data plane queries.                                                     *)

\* The conditions under which queries are correct: the compiler keeps the order of
\* the thread's stores, the thread is not suspended between the last two for as long
\* as a query lasts, and recvfrom does not fail.  Signals may be lost on the wire,
\* and the run may be stopped and started at any time.
SoundBuild ==
  StoreOrder = "program" /\ Prompt /\ "read error" \notin Events

----------------------------------------------------------------------------
(* The inductive invariant.                                                *)

\* The slots of the ring whose ports are still locked.
Live == {j \in 1 .. Len(data_signal) : mpc = "pop" => j > 1}

\* The port of the signal the thread is putting into the ring.
ThreadHolds(p) ==
  \/ lpc = "check" /\ rcv_buf = p
  \/ lpc \in {"flip", "second", "publish"} /\ slot.port = p

\* A signal on the wire, in the thread or live in the ring has its port locked,
\* and is the only one of its port.
WireInv ==
  \A j \in 1 .. Len(wire) :
    /\ data_query_lock_r[wire[j]] = 1
    /\ ~ThreadHolds(wire[j])
    /\ \A k \in 1 .. Len(wire) : k # j => wire[k] # wire[j]
    /\ \A k \in Live : data_signal[k].port # wire[j]
ThreadInv ==
  \A p \in Ports : ThreadHolds(p) =>
    /\ data_query_lock_r[p] = 1
    /\ \A k \in Live : data_signal[k].port # p
RingInv ==
  \A j \in Live :
    /\ data_query_lock_r[data_signal[j].port] = 1
    /\ \A k \in Live : k # j => data_signal[k].port # data_signal[j].port

\* The copy of the highest bit lags behind the register from the trigger to the
\* thread's flip, and names the frozen half once it was saved in a slot.
BitInv ==
  /\ \A p \in Ports :
       /\ data_query_lock_r[p] = 0 => highest[p] = highest_bit_r[p]
       /\ ThreadHolds(p) =>
            IF lpc \in {"check", "flip"}
              THEN highest[p] # highest_bit_r[p]
              ELSE highest[p] = highest_bit_r[p] /\ slot.h # highest_bit_r[p]
  /\ \A j \in 1 .. Len(wire) : highest[wire[j]] # highest_bit_r[wire[j]]
  /\ \A j \in Live :
       /\ highest[data_signal[j].port] = highest_bit_r[data_signal[j].port]
       /\ data_signal[j].h # highest_bit_r[data_signal[j].port]

\* The main loop takes up a signal only when one is in the ring, and works on
\* the first.
TurnInv ==
  /\ mpc \in {"unlock", "pop", "clear"} => ~finish_last
  /\ mpc = "pop" \/ Querying => data_signal # <<>>
  /\ Querying => query = Head(data_signal)
  /\ lpc = "flag" => /\ data_signal # <<>>
                     /\ mpc \in {"unlock", "pop"} => Len(data_signal) > 1
  /\ new_signal => data_signal # <<>> \/ mpc = "clear"

QueryInv == WireInv /\ ThreadInv /\ RingInv /\ BitInv /\ TurnInv /\ QuerySnapshot

----------------------------------------------------------------------------
(* Sequences by their indices.                                             *)

LEMMA HeadIndex ==
  ASSUME NEW S, NEW s \in Seq(S), s # <<>>
  PROVE  Len(s) \in Nat \ {0} /\ 1 \in 1 .. Len(s) /\ Head(s) = s[1]
  BY EmptySeq

LEMMA TailIndex ==
  ASSUME NEW S, NEW s \in Seq(S), s # <<>>
  PROVE  /\ Len(Tail(s)) = Len(s) - 1
         /\ \A j \in 1 .. Len(Tail(s)) :
              /\ j + 1 \in 1 .. Len(s)
              /\ j + 1 > 1
              /\ Tail(s)[j] = s[j + 1]
  <1>1. Len(s) \in Nat
    BY LenProperties
  <1> QED
    BY <1>1, HeadTailProperties

LEMMA AppendIndex ==
  ASSUME NEW S, NEW s \in Seq(S), NEW e \in S
  PROVE  /\ Len(s) \in Nat
         /\ Len(Append(s, e)) = Len(s) + 1
         /\ Append(s, e) # <<>>
         /\ \A j \in 1 .. Len(s) :
              j \in 1 .. Len(s) + 1 /\ Append(s, e)[j] = s[j]
         /\ Append(s, e)[Len(s) + 1] = e
         /\ \A j \in 1 .. Len(s) + 1 : j \in 1 .. Len(s) \/ j = Len(s) + 1
  <1>1. Len(s) \in Nat
    BY LenProperties
  <1> QED
    BY <1>1, AppendProperties, EmptySeq

\* The ports of the ring and of the wire are ports.
LEMMA SignalTypes ==
  ASSUME TypeInv
  PROVE  /\ \A j \in 1 .. Len(wire) : wire[j] \in Ports
         /\ \A j \in 1 .. Len(data_signal) :
              data_signal[j] \in Banks /\ data_signal[j].port \in Ports
         /\ slot.port \in Ports
         /\ query \in Banks /\ query.port \in Ports
  <1>1. wire \in Seq(Ports) /\ data_signal \in Seq(Banks)
    BY DEF TypeInv, TypeOK
  <1>2. \A j \in 1 .. Len(wire) : wire[j] \in Ports
    BY <1>1, ElementOfSeq
  <1>3. \A j \in 1 .. Len(data_signal) : data_signal[j] \in Banks
    BY <1>1, ElementOfSeq
  <1> QED
    BY <1>2, <1>3 DEF TypeInv, TypeOK, Banks

----------------------------------------------------------------------------
(* The invariant, action by action.                                        *)

LEMMA InitQuery == Init => QueryInv
  <1> SUFFICES ASSUME Init PROVE QueryInv
    OBVIOUS
  <1>1. Len(wire) = 0 /\ Len(data_signal) = 0 /\ Live = {}
    BY EmptySeq DEF Init, Live
  <1> QED
    BY <1>1 DEF Init, QueryInv, WireInv, ThreadInv, RingInv, BitInv, TurnInv,
                QuerySnapshot, Querying, ThreadHolds

\* What the invariant speaks of, the program counters left out.
queryState ==
  <<data_query_lock_r, highest_bit_r, tw_r, wire, slot, highest, data_signal,
    finish_last, query, data_query_buffer>>

\* Steps that change the program counters only, as far as queries go.
LEMMA QuietQuery ==
  ASSUME QueryInv, UNCHANGED queryState, UNCHANGED new_signal,
         \/ UNCHANGED <<lpc, rcv_buf>>
         \/ lpc = "test" /\ lpc' \notin {"check", "flip", "second", "publish",
                                         "flag"},
         \/ UNCHANGED mpc
         \/ /\ mpc \notin {"unlock", "pop", "clear"}
            /\ mpc' \notin {"unlock", "pop", "clear"}
  PROVE  QueryInv'
  <1>1. /\ Live' = Live
        /\ Querying' = Querying
        /\ \A p : ThreadHolds(p)' = ThreadHolds(p)
    BY DEF queryState, Live, Querying, ThreadHolds
  <1>2. lpc' \in {"check", "flip", "second", "publish", "flag"} => lpc' = lpc
    OBVIOUS
  <1>3. WireInv' /\ ThreadInv' /\ RingInv'
    BY <1>1 DEF QueryInv, queryState, WireInv, ThreadInv, RingInv
  <1>4. BitInv'
    BY <1>1, <1>2 DEF QueryInv, queryState, BitInv, ThreadHolds
  <1>5. TurnInv' /\ QuerySnapshot'
    BY <1>1, <1>2
    DEF QueryInv, queryState, TurnInv, QuerySnapshot, ReadBank, Querying
  <1> QED
    BY <1>3, <1>4, <1>5 DEF QueryInv

LEMMA QuietSteps ==
  ASSUME QueryInv,
         \/ TestSignalFlag \/ USR1 \/ UNCHANGED vars
         \/ TestLoopFlag \/ Continue \/ StopThread \/ DurationEnds
         \/ (\E p \in Ports : SetSecondHighest(p))
         \/ ToggleSecondHighest \/ ComputeIndex \/ ReadRegisters \/ StorePoll
  PROVE  QueryInv'
  <1>1. CASE TestSignalFlag \/ USR1 \/ UNCHANGED vars
    BY <1>1, QuietQuery
    DEF TestSignalFlag, USR1, vars, switch, thread, shared, flags, main, poll,
        answer, queryState
  <1>2. CASE TestLoopFlag \/ Continue \/ StopThread \/ DurationEnds
    BY <1>2, QuietQuery
    DEF TestLoopFlag, Continue, StopThread, DurationEnds, switch, thread, shared,
        flags, poll, answer, queryState
  <1>3. CASE \/ (\E p \in Ports : SetSecondHighest(p))
             \/ ToggleSecondHighest \/ ComputeIndex \/ ReadRegisters
             \/ StorePoll
    BY <1>3, QuietQuery
    DEF SetSecondHighest, ToggleSecondHighest, ComputeIndex, ReadRegisters,
        StorePoll, switch, thread, shared, flags, poll, answer, queryState
  <1> QED
    BY <1>1, <1>2, <1>3

\* A packet that triggers nothing is recorded in the half in use, which no
\* query reads.
LEMMA RecordQuery ==
  ASSUME TypeInv, QueryInv, NEW p \in Ports, NEW exceed \in BOOLEAN,
         NEW c \in Contents, Packet(p, exceed, c),
         ~(exceed /\ data_query_lock_r[p] = 0)
  PROVE  QueryInv'
  <1>1. /\ UNCHANGED <<data_query_lock_r, wire, lpc, rcv_buf, slot, highest,
                       data_signal, new_signal, mpc, finish_last, query,
                       data_query_buffer>>
        /\ highest_bit_r' = highest_bit_r
        /\ tw_r' = [tw_r EXCEPT
                      ![p][highest_bit_r[p]][second_highest_tb[p]] = c]
    BY DEF Packet, TypeInv, TypeOK, thread, shared, main, answer
  <1>2. /\ Live' = Live
        /\ Querying' = Querying
        /\ \A q : ThreadHolds(q)' = ThreadHolds(q)
    BY <1>1 DEF Live, Querying, ThreadHolds
  <1>3. WireInv' /\ ThreadInv' /\ RingInv' /\ BitInv' /\ TurnInv'
    BY <1>1, <1>2 DEF QueryInv, WireInv, ThreadInv, RingInv, BitInv, TurnInv
  <1>4. ASSUME Querying
        PROVE  ReadBank(query)' = ReadBank(query)
    <2>1. query.h # highest_bit_r[query.port]
      <3>1. data_signal # <<>> /\ query = data_signal[1]
        BY <1>4, HeadIndex DEF QueryInv, TurnInv, TypeInv, TypeOK
      <3>2. 1 \in Live
        BY <1>4, <3>1, HeadIndex DEF TypeInv, TypeOK, Live, Querying
      <3> QED
        BY <3>1, <3>2 DEF QueryInv, BitInv
    <2>2. query.port \in Ports /\ query.h \in Bits /\ query.s \in Bits
      BY DEF TypeInv, TypeOK, Banks
    <2>3. highest_bit_r[p] \in Bits /\ second_highest_tb[p] \in Bits
      BY DEF TypeInv, TypeOK
    <2> QED
      BY <1>1, <2>1, <2>2, <2>3 DEF TypeInv, TypeOK, ReadBank
  <1>5. QuerySnapshot'
    BY <1>1, <1>2, <1>4 DEF QueryInv, QuerySnapshot
  <1> QED
    BY <1>3, <1>5 DEF QueryInv

\* A packet that triggers a query finds its port unlocked, hence with no signal
\* anywhere and the two copies of the bit in agreement.
LEMMA TriggerQuery ==
  ASSUME TypeInv, QueryInv, NEW p \in Ports, NEW exceed \in BOOLEAN,
         NEW c \in Contents, Packet(p, exceed, c),
         exceed /\ data_query_lock_r[p] = 0
  PROVE  QueryInv'
  <1>1. /\ UNCHANGED <<lpc, rcv_buf, slot, highest, data_signal, new_signal,
                       mpc, finish_last, query, data_query_buffer>>
        /\ data_query_lock_r' = [data_query_lock_r EXCEPT ![p] = 1]
        /\ highest_bit_r' = [highest_bit_r EXCEPT ![p] = 1 - highest_bit_r[p]]
        /\ tw_r' = [tw_r EXCEPT
                      ![p][1 - highest_bit_r[p]][second_highest_tb[p]] = c]
        /\ wire' = wire \/ wire' = Append(wire, p)
    BY DEF Packet, Signal, thread, shared, main, answer
  <1>2. /\ Live' = Live
        /\ Querying' = Querying
        /\ \A q : ThreadHolds(q)' = ThreadHolds(q)
    BY <1>1 DEF Live, Querying, ThreadHolds
  <1>3. /\ \A q \in Ports : q # p =>
             /\ data_query_lock_r'[q] = data_query_lock_r[q]
             /\ highest_bit_r'[q] = highest_bit_r[q]
        /\ data_query_lock_r'[p] = 1 /\ highest_bit_r'[p] # highest_bit_r[p]
    BY <1>1, BitFlip DEF TypeInv, TypeOK
  <1>4. /\ ~ThreadHolds(p)
        /\ \A j \in 1 .. Len(wire) : wire[j] \in Ports \ {p}
        /\ \A j \in Live : /\ j \in 1 .. Len(data_signal)
                           /\ data_signal[j].port \in Ports \ {p}
        /\ highest[p] = highest_bit_r[p]
    BY SignalTypes
    DEF Live, QueryInv, WireInv, ThreadInv, RingInv, BitInv
  <1>5. ThreadInv' /\ RingInv'
    BY <1>1, <1>2, <1>3, <1>4 DEF QueryInv, ThreadInv, RingInv
  <1>6. /\ Len(wire) \in Nat
        /\ \A j \in 1 .. Len(wire)' :
             \/ j \in 1 .. Len(wire) /\ wire'[j] = wire[j]
             \/ j = Len(wire) + 1 /\ wire'[j] = p
    <2>1. wire \in Seq(Ports) /\ Len(wire) \in Nat
      BY LenProperties DEF TypeInv, TypeOK
    <2>2. CASE wire' = wire
      BY <2>1, <2>2
    <2>3. CASE wire' = Append(wire, p)
      <3>1. /\ Len(wire') = Len(wire) + 1
            /\ \A j \in 1 .. Len(wire) : wire'[j] = wire[j]
            /\ wire'[Len(wire) + 1] = p
            /\ \A j \in 1 .. Len(wire) + 1 :
                 j \in 1 .. Len(wire) \/ j = Len(wire) + 1
        BY <2>1, <2>3, AppendIndex
      <3> QED
        BY <2>1, <3>1
    <2> QED
      BY <1>1, <2>2, <2>3
  <1>7. WireInv'
    BY <1>1, <1>2, <1>3, <1>4, <1>6 DEF QueryInv, WireInv
  <1>8. BitInv'
    <2>1. \A q \in Ports :
            /\ data_query_lock_r'[q] = 0 => highest'[q] = highest_bit_r'[q]
            /\ ThreadHolds(q)' =>
                 IF lpc' \in {"check", "flip"}
                   THEN highest'[q] # highest_bit_r'[q]
                   ELSE /\ highest'[q] = highest_bit_r'[q]
                        /\ slot'.h # highest_bit_r'[q]
      BY <1>1, <1>2, <1>3, <1>4 DEF QueryInv, BitInv
    <2>2. \A j \in 1 .. Len(wire)' : highest'[wire'[j]] # highest_bit_r'[wire'[j]]
      BY <1>1, <1>3, <1>4, <1>6 DEF QueryInv, BitInv
    <2>3. \A j \in Live' :
            /\ highest'[data_signal'[j].port] = highest_bit_r'[data_signal'[j].port]
            /\ data_signal'[j].h # highest_bit_r'[data_signal'[j].port]
      BY <1>1, <1>2, <1>3, <1>4 DEF QueryInv, BitInv
    <2> QED
      BY <2>1, <2>2, <2>3 DEF BitInv
  <1>9. TurnInv'
    BY <1>1, <1>2 DEF QueryInv, TurnInv
  <1>10. QuerySnapshot'
    <2>1. ASSUME Querying
          PROVE  query.port \in Ports /\ query.port # p
      <3>1. data_signal # <<>> /\ query = data_signal[1]
        BY <2>1, HeadIndex DEF QueryInv, TurnInv, TypeInv, TypeOK
      <3>2. 1 \in Live
        BY <2>1, <3>1, HeadIndex DEF TypeInv, TypeOK, Live, Querying
      <3> QED
        BY <1>4, <3>1, <3>2
    <2>2. Querying => ReadBank(query)' = ReadBank(query)
      BY <1>1, <2>1 DEF TypeInv, TypeOK, ReadBank
    <2> QED
      BY <1>1, <1>2, <2>2 DEF QueryInv, QuerySnapshot
  <1> QED
    BY <1>5, <1>7, <1>8, <1>9, <1>10 DEF QueryInv

LEMMA ReceiveQuery ==
  ASSUME TypeInv, QueryInv, Receive
  PROVE  QueryInv'
  <1>1. /\ UNCHANGED <<data_query_lock_r, highest_bit_r, tw_r, slot, highest,
                       data_signal, new_signal, mpc, finish_last, query,
                       data_query_buffer>>
        /\ lpc = "recv" /\ lpc' = "check"
    BY DEF Receive, shared, main, answer
  <1>2. Live' = Live /\ Querying' = Querying
    BY <1>1 DEF Live, Querying
  <1>3. /\ 1 \in 1 .. Len(wire) /\ rcv_buf' = wire[1]
        /\ \A j \in 1 .. Len(wire') : /\ j + 1 \in 1 .. Len(wire)
                                      /\ j + 1 # 1
                                      /\ wire'[j] = wire[j + 1]
        /\ \A j, k \in 1 .. Len(wire') : j # k => j + 1 # k + 1
    <2>1. wire \in Seq(Ports) /\ wire # <<>> /\ wire' = Tail(wire)
          /\ rcv_buf' = Head(wire)
      BY DEF TypeInv, TypeOK, Receive
    <2>2. 1 \in 1 .. Len(wire) /\ rcv_buf' = wire[1]
      BY <2>1, HeadIndex
    <2>3. \A j \in 1 .. Len(wire') : /\ j + 1 \in 1 .. Len(wire)
                                     /\ j + 1 > 1
                                     /\ wire'[j] = wire[j + 1]
      BY <2>1, TailIndex
    <2> QED
      BY <2>2, <2>3
  <1>4. \A p : ThreadHolds(p)' <=> p = wire[1]
    BY <1>1, <1>3 DEF ThreadHolds
  <1>5. WireInv'
    BY <1>1, <1>2, <1>3, <1>4 DEF QueryInv, WireInv
  <1>6. ThreadInv' /\ RingInv'
    BY <1>1, <1>2, <1>3, <1>4 DEF QueryInv, WireInv, ThreadInv, RingInv
  <1>7. BitInv'
    BY <1>1, <1>2, <1>3, <1>4 DEF QueryInv, BitInv
  <1>8. TurnInv' /\ QuerySnapshot'
    BY <1>1, <1>2 DEF QueryInv, TurnInv, QuerySnapshot, ReadBank
  <1> QED
    BY <1>5, <1>6, <1>7, <1>8 DEF QueryInv

\* The steps from the receipt of a signal to its publication: the thread holds
\* the same port or, the ring being full, none.
LEMMA FillSlotQuery ==
  ASSUME TypeInv, QueryInv, SoundBuild, FillSlot
  PROVE  QueryInv'
  <1>1. /\ UNCHANGED <<data_query_lock_r, highest_bit_r, tw_r, wire, highest,
                       data_signal, new_signal, mpc, finish_last, query,
                       data_query_buffer>>
        /\ lpc = "check"
        /\ \/ lpc' = "test"
           \/ lpc' = "flip" /\ slot'.port = rcv_buf
    <2>1. CASE RingFull
      BY <2>1 DEF FillSlot, switch, shared, main, answer
    <2>2. CASE ~RingFull
      <3>1. lpc' = "flip" /\ slot' = Bank(rcv_buf, 0, 0)
        BY <2>2 DEF FillSlot, SoundBuild
      <3> QED
        BY <3>1 DEF FillSlot, Bank, switch, shared, main, answer
    <2> QED
      BY <2>1, <2>2
  <1>2. /\ Live' = Live /\ Querying' = Querying
        /\ \A p : ThreadHolds(p)' => ThreadHolds(p) /\ lpc' = "flip"
    BY <1>1 DEF Live, Querying, ThreadHolds
  <1>3. WireInv' /\ ThreadInv' /\ RingInv'
    BY <1>1, <1>2 DEF QueryInv, WireInv, ThreadInv, RingInv
  <1>4. BitInv'
    BY <1>1, <1>2 DEF QueryInv, BitInv
  <1>5. TurnInv' /\ QuerySnapshot'
    BY <1>1, <1>2 DEF QueryInv, TurnInv, QuerySnapshot, ReadBank
  <1> QED
    BY <1>3, <1>4, <1>5 DEF QueryInv

LEMMA FlipQuery ==
  ASSUME TypeInv, QueryInv, FlipHighest
  PROVE  QueryInv'
  <1>1. /\ UNCHANGED <<data_query_lock_r, highest_bit_r, tw_r, wire, rcv_buf,
                       data_signal, new_signal, mpc, finish_last, query,
                       data_query_buffer>>
        /\ lpc = "flip" /\ lpc' = "second"
        /\ slot'.port = slot.port /\ slot'.h = highest[slot.port]
        /\ highest' = [highest EXCEPT ![slot.port] = 1 - highest[slot.port]]
    BY DEF TypeInv, TypeOK, Banks, FlipHighest, switch, flags, main, answer
  <1>2. /\ Live' = Live /\ Querying' = Querying
        /\ \A p : ThreadHolds(p)' = ThreadHolds(p)
        /\ \A p : ThreadHolds(p) <=> p = slot.port
    BY <1>1 DEF Live, Querying, ThreadHolds
  <1>3. /\ slot.port \in Ports
        /\ data_query_lock_r[slot.port] = 1
        /\ \A j \in 1 .. Len(wire) : wire[j] \in Ports \ {slot.port}
        /\ \A j \in Live : /\ j \in 1 .. Len(data_signal)
                           /\ data_signal[j].port \in Ports \ {slot.port}
        /\ highest[slot.port] # highest_bit_r[slot.port]
    BY <1>1, <1>2, SignalTypes DEF Live, QueryInv, WireInv, ThreadInv, BitInv
  <1>4. /\ highest'[slot.port] = highest_bit_r[slot.port]
        /\ \A p \in Ports : p # slot.port => highest'[p] = highest[p]
    <2>1. /\ highest[slot.port] \in Bits /\ highest_bit_r[slot.port] \in Bits
          /\ highest_bit_r[slot.port] = 1 - highest[slot.port]
      BY <1>3, BitFlip DEF TypeInv, TypeOK
    <2> QED
      BY <1>1, <1>3, <2>1 DEF TypeInv, TypeOK
  <1>5. WireInv' /\ ThreadInv' /\ RingInv'
    BY <1>1, <1>2 DEF QueryInv, WireInv, ThreadInv, RingInv
  <1>6. BitInv'
    BY <1>1, <1>2, <1>3, <1>4 DEF QueryInv, BitInv
  <1>7. TurnInv' /\ QuerySnapshot'
    BY <1>1, <1>2 DEF QueryInv, TurnInv, QuerySnapshot, ReadBank
  <1> QED
    BY <1>5, <1>6, <1>7 DEF QueryInv

LEMMA ReadSecondQuery ==
  ASSUME TypeInv, QueryInv, ReadSecond
  PROVE  QueryInv'
  <1>1. /\ UNCHANGED <<data_query_lock_r, highest_bit_r, tw_r, wire, rcv_buf,
                       highest, data_signal, new_signal, mpc, finish_last,
                       query, data_query_buffer>>
        /\ lpc = "second" /\ lpc' = "publish"
        /\ slot'.port = slot.port /\ slot'.h = slot.h
    BY DEF TypeInv, TypeOK, Banks, ReadSecond, switch, shared, main, answer
  <1>2. /\ Live' = Live /\ Querying' = Querying
        /\ \A p : ThreadHolds(p)' = ThreadHolds(p)
    BY <1>1 DEF Live, Querying, ThreadHolds
  <1>3. WireInv' /\ ThreadInv' /\ RingInv'
    BY <1>1, <1>2 DEF QueryInv, WireInv, ThreadInv, RingInv
  <1>4. BitInv'
    BY <1>1, <1>2 DEF QueryInv, BitInv
  <1>5. TurnInv' /\ QuerySnapshot'
    BY <1>1, <1>2 DEF QueryInv, TurnInv, QuerySnapshot, ReadBank
  <1> QED
    BY <1>3, <1>4, <1>5 DEF QueryInv

\* The slot joins the live ones.
LEMMA PublishQuery ==
  ASSUME TypeInv, QueryInv, SoundBuild, Publish
  PROVE  QueryInv'
  <1>1. /\ UNCHANGED <<data_query_lock_r, highest_bit_r, tw_r, wire, rcv_buf,
                       highest, new_signal, mpc, finish_last, query,
                       data_query_buffer>>
        /\ lpc = "publish" /\ lpc' = "flag"
        /\ data_signal' = Append(data_signal, slot)
    BY DEF SoundBuild, Publish, switch, flags, main, answer
  <1>2. /\ \A p : ThreadHolds(p) <=> p = slot.port
        /\ \A p : ~ThreadHolds(p)'
        /\ Querying' = Querying
    BY <1>1 DEF ThreadHolds, Querying
  <1>3. /\ Len(data_signal) \in Nat
        /\ Len(data_signal') = Len(data_signal) + 1
        /\ data_signal' # <<>>
        /\ \A j \in 1 .. Len(data_signal) : data_signal'[j] = data_signal[j]
        /\ data_signal'[Len(data_signal) + 1] = slot
    BY <1>1, AppendIndex DEF TypeInv, TypeOK
  <1>4. mpc \in {"unlock", "pop"} \/ Querying =>
          data_signal # <<>> /\ Len(data_signal) > 0
    <2>1. mpc \in {"unlock", "pop"} \/ Querying => data_signal # <<>>
      BY DEF QueryInv, TurnInv, Querying
    <2> QED
      BY <2>1, HeadIndex DEF TypeInv, TypeOK
  <1>5. /\ \A j \in Live' : j = Len(data_signal) + 1 \/ j \in Live
        /\ \A j \in Live : j \in Live' /\ j # Len(data_signal) + 1
    BY <1>1, <1>3, <1>4 DEF Live
  <1>6. \A j \in Live' : \/ j \in Live /\ data_signal'[j] = data_signal[j]
                         \/ j = Len(data_signal) + 1 /\ data_signal'[j] = slot
    BY <1>3, <1>5 DEF Live
  <1>7. /\ slot.port \in Ports
        /\ data_query_lock_r[slot.port] = 1
        /\ \A j \in Live : data_signal[j].port # slot.port
        /\ \A j \in 1 .. Len(wire) : wire[j] # slot.port
        /\ highest[slot.port] = highest_bit_r[slot.port]
        /\ slot.h # highest_bit_r[slot.port]
    BY <1>1, <1>2, SignalTypes DEF QueryInv, WireInv, ThreadInv, BitInv
  <1>8. WireInv'
    BY <1>1, <1>2, <1>6, <1>7 DEF QueryInv, WireInv
  <1>9. ThreadInv'
    BY <1>1, <1>2 DEF ThreadInv
  <1>10. RingInv'
    BY <1>1, <1>6, <1>7 DEF QueryInv, RingInv
  <1>11. BitInv'
    BY <1>1, <1>2, <1>6, <1>7 DEF QueryInv, BitInv
  <1>12. TurnInv'
    <2>1. data_signal # <<>> => Head(data_signal') = Head(data_signal)
      BY <1>1, <1>3, AppendIndex, HeadIndex DEF TypeInv, TypeOK
    <2>2. mpc \in {"unlock", "pop"} => Len(data_signal') > 1
      BY <1>3, <1>4
    <2> QED
      BY <1>1, <1>2, <1>3, <1>4, <2>1, <2>2 DEF QueryInv, TurnInv
  <1>13. QuerySnapshot'
    BY <1>1, <1>2 DEF QueryInv, QuerySnapshot, ReadBank
  <1> QED
    BY <1>8, <1>9, <1>10, <1>11, <1>12, <1>13 DEF QueryInv

LEMMA SetNewSignalQuery ==
  ASSUME TypeInv, QueryInv, SoundBuild, SetNewSignal
  PROVE  QueryInv'
  <1>1. /\ UNCHANGED <<data_query_lock_r, highest_bit_r, tw_r, wire, rcv_buf,
                       slot, highest, data_signal, mpc, finish_last, query,
                       data_query_buffer>>
        /\ lpc = "flag" /\ lpc' = "test"
    BY DEF SoundBuild, SetNewSignal, switch, flags, main, answer
  <1>2. /\ Live' = Live /\ Querying' = Querying
        /\ \A p : ~ThreadHolds(p)'
    BY <1>1 DEF Live, Querying, ThreadHolds
  <1>3. WireInv' /\ ThreadInv' /\ RingInv' /\ BitInv'
    BY <1>1, <1>2 DEF QueryInv, WireInv, ThreadInv, RingInv, BitInv
  <1>4. TurnInv' /\ QuerySnapshot'
    BY <1>1, <1>2 DEF QueryInv, TurnInv, QuerySnapshot, ReadBank
  <1> QED
    BY <1>3, <1>4 DEF QueryInv

\* A query starts on the first slot of the ring, which holds one: new_signal is
\* only found set when a signal waits.
LEMMA StartQueryQuery ==
  ASSUME TypeInv, QueryInv, StartQuery
  PROVE  QueryInv'
  <1>1. /\ UNCHANGED <<data_query_lock_r, highest_bit_r, tw_r, wire, lpc,
                       rcv_buf, slot, highest, data_signal, new_signal, mpc>>
        /\ mpc = "body" /\ data_query_buffer' = {}
        /\ query' = FirstSlot /\ new_signal
    BY DEF StartQuery, AllPolled, switch, thread, shared
  <1>2. Live' = Live /\ \A p : ThreadHolds(p)' = ThreadHolds(p)
    BY <1>1 DEF Live, ThreadHolds
  <1>3. WireInv' /\ ThreadInv' /\ RingInv' /\ BitInv'
    BY <1>1, <1>2 DEF QueryInv, WireInv, ThreadInv, RingInv, BitInv
  <1>4. data_signal # <<>> /\ query' = Head(data_signal)
    BY <1>1 DEF QueryInv, TurnInv, FirstSlot
  <1>5. TurnInv' /\ QuerySnapshot'
    BY <1>1, <1>4 DEF QueryInv, TurnInv, QuerySnapshot
  <1> QED
    BY <1>3, <1>5 DEF QueryInv

LEMMA ReadChunkQuery ==
  ASSUME TypeInv, QueryInv, NEW n \in 1 .. CellNumber, ReadChunk(n)
  PROVE  QueryInv'
  <1>1. /\ UNCHANGED <<data_query_lock_r, highest_bit_r, tw_r, wire, lpc,
                       rcv_buf, slot, highest, data_signal, new_signal, mpc,
                       finish_last, query>>
        /\ mpc = "body" /\ ~finish_last
        /\ data_query_buffer' = data_query_buffer \cup {ReadBank(query)}
    BY DEF ReadChunk, AllPolled, switch, thread, shared
  <1>2. /\ Live' = Live /\ Querying' = Querying
        /\ \A p : ThreadHolds(p)' = ThreadHolds(p)
    BY <1>1 DEF Live, Querying, ThreadHolds
  <1>3. WireInv' /\ ThreadInv' /\ RingInv' /\ BitInv'
    BY <1>1, <1>2 DEF QueryInv, WireInv, ThreadInv, RingInv, BitInv
  <1>4. TurnInv'
    BY <1>1, <1>2 DEF QueryInv, TurnInv
  <1>5. QuerySnapshot'
    <2>1. ReadBank(query)' = ReadBank(query)
      BY <1>1 DEF ReadBank
    <2> QED
      BY <1>1, <1>2, <2>1 DEF QueryInv, QuerySnapshot
  <1> QED
    BY <1>3, <1>4, <1>5 DEF QueryInv

LEMMA StoreQueryQuery ==
  ASSUME TypeInv, QueryInv, SoundBuild, StoreQuery
  PROVE  QueryInv'
  <1>1. /\ UNCHANGED <<data_query_lock_r, highest_bit_r, tw_r, wire, lpc,
                       rcv_buf, slot, highest, data_signal, new_signal,
                       finish_last, query, data_query_buffer>>
        /\ mpc = "body" /\ mpc' = "unlock" /\ ~finish_last
    BY DEF StoreQuery, AllPolled, switch, thread, shared
  <1>2. lpc # "flag"
    <2>1. Prompt /\ StoreOrder = "program"
      BY DEF SoundBuild
    <2>2. ~BetweenStores
      BY <2>1 DEF StoreQuery
    <2> QED
      BY <2>1, <2>2 DEF BetweenStores
  <1>3. /\ Live' = Live /\ Querying' = Querying
        /\ \A p : ThreadHolds(p)' = ThreadHolds(p)
    BY <1>1 DEF Live, Querying, ThreadHolds
  <1>4. WireInv' /\ ThreadInv' /\ RingInv' /\ BitInv'
    BY <1>1, <1>3 DEF QueryInv, WireInv, ThreadInv, RingInv, BitInv
  <1>5. TurnInv' /\ QuerySnapshot'
    BY <1>1, <1>2, <1>3
    DEF QueryInv, TurnInv, QuerySnapshot, ReadBank, Querying
  <1> QED
    BY <1>4, <1>5 DEF QueryInv

\* The first slot stops being live as its port is unlocked.
LEMMA UnlockQuery ==
  ASSUME TypeInv, QueryInv, Unlock
  PROVE  QueryInv'
  <1>1. /\ UNCHANGED <<highest_bit_r, tw_r, wire, lpc, rcv_buf, slot, highest,
                       data_signal, new_signal, finish_last, query>>
        /\ data_query_lock_r' = [data_query_lock_r EXCEPT ![query.port] = 0]
        /\ mpc = "unlock" /\ mpc' = "pop"
    BY DEF Unlock, thread, shared, poll, answer
  <1>2. /\ ~finish_last /\ data_signal # <<>> /\ query = Head(data_signal)
        /\ 1 \in Live /\ query = data_signal[1]
    <2>1. Querying
      BY <1>1 DEF QueryInv, TurnInv, Querying
    <2>2. data_signal # <<>> /\ query = Head(data_signal)
      BY <2>1 DEF QueryInv, TurnInv
    <2> QED
      BY <1>1, <2>1, <2>2, HeadIndex DEF TypeInv, TypeOK, Live, Querying
  <1>3. /\ \A p : ThreadHolds(p)' = ThreadHolds(p)
        /\ \A j \in Live' : /\ j \in Live /\ j # 1
                            /\ j \in 1 .. Len(data_signal)
        /\ ~Querying'
    BY <1>1 DEF Live, ThreadHolds, Querying
  <1>4. /\ query.port \in Ports
        /\ highest[query.port] = highest_bit_r[query.port]
        /\ \A j \in 1 .. Len(wire) : wire[j] \in Ports \ {query.port}
        /\ \A j \in Live' : data_signal[j].port \in Ports \ {query.port}
        /\ ~ThreadHolds(query.port)
    BY <1>2, <1>3, SignalTypes
    DEF QueryInv, WireInv, ThreadInv, RingInv, BitInv
  <1>5. /\ \A p \in Ports : p # query.port =>
             data_query_lock_r'[p] = data_query_lock_r[p]
        /\ data_query_lock_r'[query.port] = 0
    BY <1>1, <1>4 DEF TypeInv, TypeOK
  <1>6. WireInv' /\ ThreadInv' /\ RingInv'
    BY <1>1, <1>3, <1>4, <1>5 DEF QueryInv, WireInv, ThreadInv, RingInv
  <1>7. BitInv'
    BY <1>1, <1>3, <1>4, <1>5 DEF QueryInv, BitInv
  <1>8. TurnInv' /\ QuerySnapshot'
    BY <1>1, <1>2, <1>3 DEF QueryInv, TurnInv, QuerySnapshot
  <1> QED
    BY <1>6, <1>7, <1>8 DEF QueryInv

LEMMA PopQuery ==
  ASSUME TypeInv, QueryInv, Pop
  PROVE  QueryInv'
  <1>1. /\ UNCHANGED <<data_query_lock_r, highest_bit_r, tw_r, wire, lpc,
                       rcv_buf, slot, highest, new_signal>>
        /\ mpc = "pop" /\ data_signal # <<>> /\ data_signal' = Tail(data_signal)
        /\ \/ data_signal' = <<>> /\ mpc' = "clear" /\ finish_last' = finish_last
           \/ data_signal' # <<>> /\ mpc' = "body" /\ finish_last' = TRUE
    BY DEF Pop, switch, thread, flags
  <1>2. /\ Len(data_signal) \in Nat /\ Len(data_signal') = Len(data_signal) - 1
        /\ \A j \in 1 .. Len(data_signal') :
             /\ j + 1 \in 1 .. Len(data_signal) /\ j + 1 > 1
             /\ data_signal'[j] = data_signal[j + 1]
        /\ data_signal' = <<>> => Len(data_signal') = 0
    BY <1>1, HeadIndex, TailIndex, EmptySeq DEF TypeInv, TypeOK
  <1> DEFINE old(j) == j + 1
  <1>3. /\ \A j \in Live' : old(j) \in Live /\ data_signal'[j] = data_signal[old(j)]
        /\ \A j, k \in Live' : j # k => old(j) # old(k)
    BY <1>1, <1>2 DEF Live
  <1> HIDE DEF old
  <1>4. ~Querying' /\ \A p : ThreadHolds(p)' = ThreadHolds(p)
    BY <1>1 DEF Querying, ThreadHolds
  <1>5. WireInv' /\ ThreadInv' /\ RingInv'
    <2>1. WireInv'
      <3>1. \A j \in 1 .. Len(wire), k \in Live' :
              data_signal'[k].port # wire[j]
        BY <1>3 DEF QueryInv, WireInv
      <3> QED
        BY <1>1, <1>4, <3>1 DEF QueryInv, WireInv
    <2>2. ThreadInv'
      BY <1>1, <1>3, <1>4 DEF QueryInv, ThreadInv
    <2>3. ASSUME NEW j \in Live'
          PROVE  /\ data_query_lock_r'[data_signal'[j].port] = 1
                 /\ \A k \in Live' : k # j =>
                      data_signal'[k].port # data_signal'[j].port
      <3>1. old(j) \in Live /\ data_signal'[j] = data_signal[old(j)]
        BY <1>3
      <3>2. ASSUME NEW k \in Live', k # j
            PROVE  data_signal'[k].port # data_signal'[j].port
        <4>1. /\ old(k) \in Live /\ old(k) # old(j)
              /\ data_signal'[k] = data_signal[old(k)]
          BY <1>3, <3>2
        <4> QED
          BY <3>1, <4>1 DEF QueryInv, RingInv
      <3> QED
        BY <1>1, <3>1, <3>2 DEF QueryInv, RingInv
    <2> QED
      BY <2>1, <2>2, <2>3 DEF RingInv
  <1>6. BitInv'
    BY <1>1, <1>3, <1>4 DEF QueryInv, BitInv
  <1>7. TurnInv' /\ QuerySnapshot'
    <2>1. lpc = "flag" => data_signal' # <<>>
      BY <1>1, <1>2 DEF QueryInv, TurnInv
    <2> QED
      BY <1>1, <1>4, <2>1 DEF QueryInv, TurnInv, QuerySnapshot
  <1> QED
    BY <1>5, <1>6, <1>7 DEF QueryInv

LEMMA ClearQuery ==
  ASSUME TypeInv, QueryInv, ClearNewSignal
  PROVE  QueryInv'
  <1>1. /\ UNCHANGED <<data_query_lock_r, highest_bit_r, tw_r, wire, lpc,
                       rcv_buf, slot, highest, data_signal>>
        /\ mpc = "clear" /\ mpc' = "body" /\ finish_last' = TRUE
        /\ new_signal' = FALSE
    BY DEF ClearNewSignal, switch, thread, flags
  <1>2. /\ Live' = Live /\ ~Querying'
        /\ \A p : ThreadHolds(p)' = ThreadHolds(p)
    BY <1>1 DEF Live, Querying, ThreadHolds
  <1>3. WireInv' /\ ThreadInv' /\ RingInv' /\ BitInv'
    BY <1>1, <1>2 DEF QueryInv, WireInv, ThreadInv, RingInv, BitInv
  <1>4. TurnInv' /\ QuerySnapshot'
    BY <1>1, <1>2 DEF QueryInv, TurnInv, QuerySnapshot
  <1> QED
    BY <1>3, <1>4 DEF QueryInv

LEMMA NextQuery ==
  ASSUME TypeInv, QueryInv, SoundBuild, [Next]_vars
  PROVE  QueryInv'
  <1>1. CASE Traffic
    BY <1>1, RecordQuery, TriggerQuery DEF Traffic
  <1>2. CASE Thread
    BY <1>2, QuietSteps, ReceiveQuery, FillSlotQuery, FlipQuery,
       ReadSecondQuery, PublishQuery, SetNewSignalQuery DEF Thread
  <1>3. CASE ReceiveFails
    BY <1>3 DEF ReceiveFails, SoundBuild
  <1>4. CASE Main
    BY <1>4, QuietSteps, StartQueryQuery, ReadChunkQuery, StoreQueryQuery,
       UnlockQuery, PopQuery, ClearQuery DEF Main, QueryStep
  <1>5. CASE DurationEnds \/ USR1 \/ UNCHANGED vars
    BY <1>5, QuietSteps
  <1> QED
    BY <1>1, <1>2, <1>3, <1>4, <1>5 DEF Next

----------------------------------------------------------------------------
(* Theorems.                                                               *)

\* The invariant holds of every behaviour of a sound build.
THEOREM QueryInvariant ==
  ASSUME SoundBuild
  PROVE  Spec => [](TypeInv /\ QueryInv)
  <1>1. Init => TypeInv /\ QueryInv
    BY InitType, InitQuery
  <1>2. TypeInv /\ QueryInv /\ [Next]_vars => TypeInv' /\ QueryInv'
    BY NextType, NextQuery
  <1> QED
    BY <1>1, <1>2, PTL DEF Spec

\* The chunks of a data plane query are of one content, for every number of
\* ports and of cells and whatever traffic, polls, lost signals and stops fall
\* between them.
THEOREM QuerySafe ==
  ASSUME SoundBuild
  PROVE  Spec => []QuerySnapshot
  <1>1. QueryInv => QuerySnapshot
    BY DEF QueryInv
  <1> QED
    BY <1>1, QueryInvariant, PTL

LEMMA QueryFirst ==
  ASSUME TypeInv, QueryInv
  PROVE  QueryIsFirst
  <1> SUFFICES ASSUME Querying
               PROVE  /\ data_signal # <<>>
                      /\ query = FirstSlot
                      /\ data_query_lock_r[query.port] = 1
                      /\ query.h # highest_bit_r[query.port]
    BY DEF QueryIsFirst
  <1>1. data_signal # <<>> /\ query = Head(data_signal)
    BY DEF QueryInv, TurnInv
  <1>2. query = data_signal[1] /\ 1 \in Live
    BY <1>1, HeadIndex DEF TypeInv, TypeOK, Live, Querying
  <1> QED
    BY <1>1, <1>2 DEF QueryInv, RingInv, BitInv, FirstSlot

\* The query in progress answers the first slot of the ring, for a port that is
\* still locked, and reads the half that its data plane has left.
THEOREM FirstIsAnswered ==
  ASSUME SoundBuild
  PROVE  Spec => []QueryIsFirst
  BY QueryFirst, QueryInvariant, PTL

\* The slots behind the first are live, so their ports are locked, distinct, and
\* differ from the port of the signal in hand.
LEMMA RingHasRoom ==
  ASSUME TypeInv, QueryInv
  PROVE  RingNeverOverflows
  <1> SUFFICES ASSUME lpc = "check", Len(data_signal) = MaxPortNum + 1
               PROVE  FALSE
    BY PortsAssumption DEF RingNeverOverflows, RingFull, RingSlots
  <1> DEFINE S == 2 .. MaxPortNum + 1
             T == Ports \ {rcv_buf}
             f == [j \in S |-> data_signal[j].port]
  <1>1. rcv_buf \in Ports /\ ThreadHolds(rcv_buf)
    BY DEF TypeInv, ThreadHolds
  <1>2. IsFiniteSet(T) /\ Cardinality(T) = NumPorts - 1
    <2>1. IsFiniteSet(Ports) /\ Cardinality(Ports) = NumPorts
      BY FS_Interval, PortsAssumption DEF Ports
    <2> QED
      BY <1>1, <2>1, FS_RemoveElement
  <1>3. IsFiniteSet(S) /\ Cardinality(S) = MaxPortNum
    BY FS_Interval, PortsAssumption
  <1>4. Cardinality(T) < Cardinality(S)
    BY <1>2, <1>3, PortsAssumption
  <1>5. S \subseteq Live
    BY PortsAssumption DEF Live
  <1>6. f \in [S -> T]
    BY <1>1, <1>5, SignalTypes DEF QueryInv, ThreadInv, Live
  <1>7. PICK j, k \in S : j # k /\ f[j] = f[k]
    <2> HIDE DEF S, T, f
    <2> QED
      BY <1>2, <1>3, <1>4, <1>6, FS_PigeonHole
  <1> QED
    BY <1>5, <1>7 DEF QueryInv, RingInv

\* The ring has room for every signal the thread receives, for every number of
\* ports the tables hold.
THEOREM RingSafe ==
  ASSUME SoundBuild
  PROVE  Spec => []RingNeverOverflows
  <1>1. TypeInv /\ QueryInv => RingNeverOverflows
    BY RingHasRoom
  <1> QED
    BY <1>1, QueryInvariant, PTL

----------------------------------------------------------------------------
(* Delivery: a port never has two signals, and, on a wire that loses none, *)
(* a locked port always has one and the copy of its highest bit lags       *)
(* behind exactly as long as that is on its way.                           *)

Lossless == SoundBuild /\ "lost signal" \notin Events

\* Where the signal of a locked port can be.
HasSignal(p) ==
  \/ \E j \in 1 .. Len(wire) : wire[j] = p
  \/ ThreadHolds(p)
  \/ \E j \in Live : data_signal[j].port = p

DeliveryInv == \A p \in Ports : data_query_lock_r[p] = 1 => HasSignal(p)

----------------------------------------------------------------------------
(* Delivery, action by action.                                             *)

LEMMA InitDelivery == Init => DeliveryInv
  BY DEF Init, DeliveryInv

\* Steps that take no signal from anywhere.
LEMMA StillDelivery ==
  ASSUME DeliveryInv, UNCHANGED <<data_query_lock_r, wire, data_signal>>,
         Live' = Live,
         \A p \in Ports : ThreadHolds(p) => ThreadHolds(p)'
  PROVE  DeliveryInv'
  BY DEF DeliveryInv, HasSignal

LEMMA StillSteps ==
  ASSUME DeliveryInv, SoundBuild,
         \/ TestSignalFlag \/ FlipHighest \/ ReadSecond \/ SetNewSignal
         \/ USR1 \/ UNCHANGED vars
         \/ TestLoopFlag \/ Continue \/ StopThread \/ DurationEnds
         \/ (\E p \in Ports : SetSecondHighest(p))
         \/ ToggleSecondHighest \/ ComputeIndex \/ ReadRegisters \/ StorePoll
         \/ QueryStep \/ ClearNewSignal,
         TypeInv
  PROVE  DeliveryInv'
  <1>1. CASE TestSignalFlag \/ SetNewSignal \/ USR1 \/ UNCHANGED vars
    BY <1>1, StillDelivery
    DEF TestSignalFlag, SetNewSignal, USR1, vars, switch, thread, shared, flags,
        main, poll, answer, Live, ThreadHolds, SoundBuild
  <1>2. CASE FlipHighest \/ ReadSecond
    <2>1. slot'.port = slot.port
      BY <1>2 DEF FlipHighest, ReadSecond, TypeInv, TypeOK, Banks
    <2> QED
      BY <1>2, <2>1, StillDelivery
      DEF FlipHighest, ReadSecond, switch, shared, flags, main, Live,
          ThreadHolds
  <1>3. CASE TestLoopFlag \/ Continue \/ StopThread \/ DurationEnds
    BY <1>3, StillDelivery
    DEF TestLoopFlag, Continue, StopThread, DurationEnds, switch, thread, shared,
        flags, poll, answer, Live, ThreadHolds
  <1>4. CASE \/ (\E p \in Ports : SetSecondHighest(p))
             \/ ToggleSecondHighest \/ ComputeIndex \/ ReadRegisters
             \/ StorePoll
    BY <1>4, StillDelivery
    DEF SetSecondHighest, ToggleSecondHighest, ComputeIndex, ReadRegisters,
        StorePoll, switch, thread, shared, flags, poll, answer, Live,
        ThreadHolds
  <1>5. CASE QueryStep \/ ClearNewSignal
    BY <1>5, StillDelivery
    DEF QueryStep, StartQuery, ReadChunk, StoreQuery, ClearNewSignal, AllPolled,
        switch, thread, shared, flags, Live, ThreadHolds
  <1> QED
    BY <1>1, <1>2, <1>3, <1>4, <1>5

\* A trigger puts a signal on the wire, which loses none.
LEMMA PacketDelivery ==
  ASSUME TypeInv, DeliveryInv, Lossless, NEW p \in Ports,
         NEW exceed \in BOOLEAN, NEW c \in Contents, Packet(p, exceed, c)
  PROVE  DeliveryInv'
  <1>1. UNCHANGED <<lpc, rcv_buf, slot, data_signal, mpc>>
    BY DEF Packet, thread, shared, main
  <1>2. Live' = Live /\ \A q : ThreadHolds(q)' = ThreadHolds(q)
    BY <1>1 DEF Live, ThreadHolds
  <1>3. CASE exceed /\ data_query_lock_r[p] = 0
    <2>1. /\ data_query_lock_r' = [data_query_lock_r EXCEPT ![p] = 1]
          /\ wire' = Append(wire, p)
      BY <1>3 DEF Packet, Signal, Lossless
    <2>2. /\ \A j \in 1 .. Len(wire) : j \in 1 .. Len(wire') /\ wire'[j] = wire[j]
          /\ Len(wire) + 1 \in 1 .. Len(wire') /\ wire'[Len(wire) + 1] = p
      BY <2>1, AppendIndex DEF TypeInv, TypeOK
    <2>3. \A q \in Ports : q # p => data_query_lock_r'[q] = data_query_lock_r[q]
      BY <2>1 DEF TypeInv, TypeOK
    <2>4. \A q \in Ports : q # p /\ HasSignal(q) => HasSignal(q)'
      BY <1>1, <1>2, <2>2 DEF HasSignal
    <2>5. HasSignal(p)'
      BY <2>2 DEF HasSignal
    <2> QED
      BY <2>3, <2>4, <2>5 DEF DeliveryInv
  <1>4. CASE ~(exceed /\ data_query_lock_r[p] = 0)
    <2>1. UNCHANGED <<data_query_lock_r, wire>>
      BY <1>4 DEF Packet
    <2> QED
      BY <1>1, <1>2, <2>1, StillDelivery
  <1> QED
    BY <1>3, <1>4

\* The first signal of the wire goes into the thread's hands, from there, since
\* the ring has room, into its slot, and with the slot into the ring.
LEMMA ReceiveDelivery ==
  ASSUME TypeInv, DeliveryInv, Receive
  PROVE  DeliveryInv'
  <1>1. /\ UNCHANGED <<data_query_lock_r, slot, data_signal, mpc>>
        /\ lpc = "recv" /\ lpc' = "check"
        /\ wire \in Seq(Ports) /\ wire # <<>> /\ wire' = Tail(wire)
        /\ rcv_buf' = Head(wire)
    BY DEF Receive, shared, main, TypeInv, TypeOK
  <1>2. Live' = Live /\ \A p : ~ThreadHolds(p)
    BY <1>1 DEF Live, ThreadHolds
  <1>3. \A p : p = wire[1] => ThreadHolds(p)'
    BY <1>1, HeadIndex DEF ThreadHolds
  <1>4. ASSUME NEW j \in 1 .. Len(wire), j # 1
        PROVE  j - 1 \in 1 .. Len(wire') /\ wire'[j - 1] = wire[j]
    <2>1. Len(wire) \in Nat /\ Len(wire') = Len(wire) - 1
      BY <1>1, HeadIndex, TailIndex
    <2>2. j - 1 \in 1 .. Len(wire') /\ (j - 1) + 1 = j
      BY <1>4, <2>1
    <2> QED
      BY <1>1, <2>2, TailIndex
  <1>5. \A p \in Ports : HasSignal(p) => HasSignal(p)'
    BY <1>1, <1>2, <1>3, <1>4 DEF HasSignal
  <1> QED
    BY <1>1, <1>5 DEF DeliveryInv

LEMMA FillSlotDelivery ==
  ASSUME TypeInv, QueryInv, DeliveryInv, SoundBuild, FillSlot
  PROVE  DeliveryInv'
  <1>1. lpc = "check" /\ ~RingFull
    BY RingHasRoom DEF FillSlot, RingNeverOverflows
  <1>2. /\ UNCHANGED <<data_query_lock_r, wire, data_signal, mpc>>
        /\ lpc' = "flip" /\ slot' = Bank(rcv_buf, 0, 0)
    BY <1>1 DEF FillSlot, SoundBuild, switch, shared, main
  <1>3. slot'.port = rcv_buf
    BY <1>2 DEF Bank
  <1> QED
    BY <1>1, <1>2, <1>3, StillDelivery DEF Live, ThreadHolds

LEMMA PublishDelivery ==
  ASSUME TypeInv, QueryInv, DeliveryInv, SoundBuild, Publish
  PROVE  DeliveryInv'
  <1>1. /\ UNCHANGED <<data_query_lock_r, wire, mpc>>
        /\ lpc = "publish" /\ data_signal' = Append(data_signal, slot)
        /\ data_signal \in Seq(Banks) /\ slot \in Banks
    BY DEF Publish, switch, flags, main, TypeInv, TypeOK
  <1>2. /\ Len(data_signal) \in Nat
        /\ Len(data_signal') = Len(data_signal) + 1
        /\ \A j \in 1 .. Len(data_signal) : data_signal'[j] = data_signal[j]
        /\ data_signal'[Len(data_signal) + 1] = slot
    BY <1>1, AppendIndex
  <1>3. mpc = "pop" => Len(data_signal) > 0
    <2>1. mpc = "pop" => data_signal # <<>>
      BY DEF QueryInv, TurnInv
    <2> QED
      BY <1>1, <2>1, HeadIndex
  <1>4. /\ \A j \in Live : j \in Live' /\ data_signal'[j] = data_signal[j]
        /\ Len(data_signal) + 1 \in Live'
    BY <1>1, <1>2, <1>3 DEF Live
  <1>5. \A p : ThreadHolds(p) <=> p = slot.port
    BY <1>1 DEF ThreadHolds
  <1>6. \A p \in Ports : HasSignal(p) => HasSignal(p)'
    BY <1>1, <1>2, <1>4, <1>5 DEF HasSignal
  <1> QED
    BY <1>1, <1>6 DEF DeliveryInv

\* Only the first slot of the ring is of the port that is unlocked, and the head
\* passes that slot only.
LEMMA UnlockDelivery ==
  ASSUME TypeInv, QueryInv, DeliveryInv, Unlock
  PROVE  DeliveryInv'
  <1>1. /\ UNCHANGED <<wire, lpc, rcv_buf, slot, data_signal>>
        /\ data_query_lock_r' = [data_query_lock_r EXCEPT ![query.port] = 0]
        /\ mpc = "unlock" /\ mpc' = "pop"
    BY DEF Unlock, thread, shared
  <1>2. data_signal # <<>> /\ query = data_signal[1]
    <2>1. Querying
      BY <1>1 DEF QueryInv, TurnInv, Querying
    <2> QED
      BY <2>1, HeadIndex DEF QueryInv, TurnInv, TypeInv, TypeOK
  <1>3. /\ \A p : ThreadHolds(p)' = ThreadHolds(p)
        /\ \A j \in Live : j # 1 => j \in Live'
    BY <1>1 DEF ThreadHolds, Live
  <1>4. \A p \in Ports : p # query.port /\ HasSignal(p) => HasSignal(p)'
    BY <1>1, <1>2, <1>3 DEF HasSignal
  <1>5. \A p \in Ports : data_query_lock_r'[p] = 1 =>
          p # query.port /\ data_query_lock_r[p] = 1
    BY <1>1 DEF TypeInv, TypeOK
  <1> QED
    BY <1>4, <1>5 DEF DeliveryInv

LEMMA PopDelivery ==
  ASSUME TypeInv, DeliveryInv, Pop
  PROVE  DeliveryInv'
  <1>1. /\ UNCHANGED <<data_query_lock_r, wire, lpc, rcv_buf, slot>>
        /\ mpc = "pop" /\ mpc' # "pop"
        /\ data_signal # <<>> /\ data_signal' = Tail(data_signal)
        /\ data_signal \in Seq(Banks)
    BY DEF Pop, switch, thread, TypeInv, TypeOK
  <1>2. \A p : ThreadHolds(p)' = ThreadHolds(p)
    BY <1>1 DEF ThreadHolds
  <1>3. ASSUME NEW j \in Live
        PROVE  j - 1 \in Live' /\ data_signal'[j - 1] = data_signal[j]
    <2>1. /\ Len(data_signal) \in Nat
          /\ Len(data_signal') = Len(data_signal) - 1
      BY <1>1, HeadIndex, TailIndex
    <2>2. j - 1 \in 1 .. Len(data_signal') /\ (j - 1) + 1 = j
      BY <1>1, <2>1 DEF Live
    <2> QED
      BY <1>1, <2>2, TailIndex DEF Live
  <1>4. \A p \in Ports : HasSignal(p) => HasSignal(p)'
    BY <1>1, <1>2, <1>3 DEF HasSignal
  <1> QED
    BY <1>1, <1>4 DEF DeliveryInv

LEMMA NextDelivery ==
  ASSUME TypeInv, QueryInv, DeliveryInv, Lossless, [Next]_vars
  PROVE  DeliveryInv'
  <1>0. SoundBuild
    BY DEF Lossless
  <1>1. CASE Traffic
    BY <1>1, PacketDelivery DEF Traffic
  <1>2. CASE Thread
    BY <1>0, <1>2, StillSteps, ReceiveDelivery, FillSlotDelivery, PublishDelivery
    DEF Thread
  <1>3. CASE ReceiveFails
    BY <1>0, <1>3 DEF ReceiveFails, SoundBuild
  <1>4. CASE Main
    BY <1>0, <1>4, StillSteps, UnlockDelivery, PopDelivery DEF Main
  <1>5. CASE DurationEnds \/ USR1 \/ UNCHANGED vars
    BY <1>0, <1>5, StillSteps
  <1> QED
    BY <1>1, <1>2, <1>3, <1>4, <1>5 DEF Next

\* The invariants hold of every behaviour that loses no signal.
THEOREM DeliveryInvariant ==
  ASSUME Lossless
  PROVE  Spec => [](TypeInv /\ QueryInv /\ DeliveryInv)
  <1>0. SoundBuild
    BY DEF Lossless
  <1>1. Spec => [](TypeInv /\ QueryInv)
    BY <1>0, QueryInvariant
  <1>2. Init => DeliveryInv
    BY InitDelivery
  <1>3. TypeInv /\ QueryInv /\ DeliveryInv /\ [Next]_vars => DeliveryInv'
    BY NextDelivery
  <1> QED
    BY <1>1, <1>2, <1>3, PTL DEF Spec

----------------------------------------------------------------------------
(* Counting the signals of a port.                                         *)

\* A set whose members are all one has at most one.
LEMMA LoneCount ==
  ASSUME NEW S, \A x, y \in S : x = y
  PROVE  Cardinality(S) = IF S = {} THEN 0 ELSE 1
  <1>1. CASE S = {}
    BY <1>1, FS_EmptySet
  <1>2. CASE S # {}
    <2>1. PICK x \in S : TRUE
      BY <1>2
    <2>2. S = {x}
      BY <2>1
    <2> QED
      BY <1>2, <2>2, FS_Singleton
  <1> QED
    BY <1>1, <1>2

LiveOf(p) == {j \in Live : data_signal[j].port = p}

\* The slots of a port's ring entries, less the one already answered, are the
\* live ones.
LEMMA RingCount ==
  ASSUME TypeInv, QueryInv, NEW p \in Ports
  PROVE  Cardinality(InRing(p)) =
           Cardinality(LiveOf(p)) + (IF Answered(p) THEN 1 ELSE 0)
         /\ Cardinality(LiveOf(p)) = IF LiveOf(p) = {} THEN 0 ELSE 1
  <1>1. Cardinality(LiveOf(p)) = IF LiveOf(p) = {} THEN 0 ELSE 1
    <2>1. \A j, k \in LiveOf(p) : j = k
      BY DEF LiveOf, QueryInv, RingInv
    <2> QED
      BY <2>1, LoneCount
  <1>2. data_signal # <<>> =>
          /\ 1 \in 1 .. Len(data_signal)
          /\ Head(data_signal) = data_signal[1]
    BY HeadIndex DEF TypeInv, TypeOK
  <1>3. CASE Answered(p)
    <2>1. InRing(p) = LiveOf(p) \cup {1} /\ 1 \notin LiveOf(p)
      BY <1>2, <1>3 DEF Answered, InRing, LiveOf, Live
    <2>2. IsFiniteSet(LiveOf(p))
      <3>1. CASE LiveOf(p) = {}
        BY <3>1, FS_EmptySet
      <3>2. CASE LiveOf(p) # {}
        <4>1. PICK j \in LiveOf(p) : TRUE
          BY <3>2
        <4>2. LiveOf(p) = {j}
          BY <4>1 DEF LiveOf, QueryInv, RingInv
        <4> QED
          BY <4>2, FS_Singleton
      <3> QED
        BY <3>1, <3>2
    <2>3. Cardinality(InRing(p)) = Cardinality(LiveOf(p)) + 1
      BY <2>1, <2>2, FS_AddElement
    <2> QED
      BY <1>1, <1>3, <2>3
  <1>4. CASE ~Answered(p)
    <2>1. mpc = "pop" => data_signal # <<>>
      BY DEF QueryInv, TurnInv
    <2>2. InRing(p) = LiveOf(p)
      <3>1. CASE mpc = "pop"
        <4>1. data_signal[1].port # p
          BY <1>2, <1>4, <2>1, <3>1 DEF Answered
        <4>2. \A j \in 1 .. Len(data_signal) : j # 1 => j > 1
          OBVIOUS
        <4> QED
          BY <4>1, <4>2 DEF InRing, LiveOf, Live
      <3>2. CASE mpc # "pop"
        BY <3>2 DEF InRing, LiveOf, Live
      <3> QED
        BY <3>1, <3>2
    <2> QED
      BY <1>1, <1>4, <2>2
  <1> QED
    BY <1>1, <1>3, <1>4

\* A port has one signal or none, and one only while it is locked.
LEMMA SignalCount ==
  ASSUME TypeInv, QueryInv, SoundBuild, NEW p \in Ports
  PROVE  /\ SignalsOf(p) = IF HasSignal(p) THEN 1 ELSE 0
         /\ HasSignal(p) => data_query_lock_r[p] = 1
  <1>1. InThread(p) <=> ThreadHolds(p)
    BY DEF InThread, ThreadHolds, SoundBuild
  <1>2. Cardinality(OnWire(p)) = IF OnWire(p) = {} THEN 0 ELSE 1
    <2>1. \A j, k \in OnWire(p) : j = k
      BY DEF OnWire, QueryInv, WireInv
    <2> QED
      BY <2>1, LoneCount
  <1>3. /\ OnWire(p) # {} => ~ThreadHolds(p) /\ LiveOf(p) = {}
        /\ ThreadHolds(p) => LiveOf(p) = {}
    BY DEF OnWire, LiveOf, QueryInv, WireInv, ThreadInv
  <1>4. HasSignal(p) <=> OnWire(p) # {} \/ ThreadHolds(p) \/ LiveOf(p) # {}
    BY DEF HasSignal, OnWire, LiveOf
  <1>5. HasSignal(p) => data_query_lock_r[p] = 1
    BY DEF HasSignal, QueryInv, WireInv, ThreadInv, RingInv
  <1>6. SignalsOf(p) = Cardinality(OnWire(p)) + Cardinality(LiveOf(p))
                         + (IF ThreadHolds(p) THEN 1 ELSE 0)
    BY <1>1, <1>2, RingCount DEF SignalsOf
  <1> QED
    BY <1>2, <1>3, <1>4, <1>5, <1>6, RingCount

----------------------------------------------------------------------------
(* Theorems of delivery.                                                   *)

\* A port never has two signals on their way to an answer, whatever the wire
\* loses, for every number of ports.
THEOREM NeverTwoSignals ==
  ASSUME SoundBuild
  PROVE  Spec => []AtMostOneSignal
  <1>1. TypeInv /\ QueryInv => AtMostOneSignal
    <2> SUFFICES ASSUME TypeInv, QueryInv, NEW p \in Ports
                 PROVE  SignalsOf(p) <= data_query_lock_r[p]
      BY DEF AtMostOneSignal
    <2>1. data_query_lock_r[p] \in {0, 1}
      BY DEF TypeInv, TypeOK, Bits
    <2> QED
      BY <2>1, SignalCount
  <1> QED
    BY <1>1, QueryInvariant, PTL

\* On a wire that loses none, the lock of a port and its unanswered signal come
\* and go together: no port stays locked for want of a signal to answer.
THEOREM SignalsPaired ==
  ASSUME Lossless
  PROVE  Spec => []OneSignalPerLock
  <1>0. SoundBuild
    BY DEF Lossless
  <1>1. TypeInv /\ QueryInv /\ DeliveryInv => OneSignalPerLock
    <2> SUFFICES ASSUME TypeInv, QueryInv, DeliveryInv, NEW p \in Ports
                 PROVE  SignalsOf(p) = data_query_lock_r[p]
      BY DEF OneSignalPerLock
    <2>1. data_query_lock_r[p] \in {0, 1}
      BY DEF TypeInv, TypeOK, Bits
    <2> QED
      BY <1>0, <2>1, SignalCount DEF DeliveryInv
  <1> QED
    BY <1>1, DeliveryInvariant, PTL

\* On a wire that loses none, the control plane's copy of the highest bit is
\* wrong exactly while the signal that tells it is on the wire or in the hands
\* of the thread.
THEOREM HighestTracked ==
  ASSUME Lossless
  PROVE  Spec => []HighestFollows
  <1>0. SoundBuild
    BY DEF Lossless
  <1>1. TypeInv /\ QueryInv /\ DeliveryInv => HighestFollows
    <2> SUFFICES ASSUME TypeInv, QueryInv, DeliveryInv, NEW p \in Ports
                 PROVE  (highest[p] # highest_bit_r[p])
                          <=> \/ OnWire(p) # {}
                              \/ InThread(p) /\ lpc \in {"check", "flip"}
      BY DEF HighestFollows
    <2>1. InThread(p) <=> ThreadHolds(p)
      BY <1>0 DEF InThread, ThreadHolds, SoundBuild
    <2>2. data_query_lock_r[p] \in {0, 1}
      BY DEF TypeInv, TypeOK, Bits
    <2>3. OnWire(p) # {} => highest[p] # highest_bit_r[p]
      BY DEF OnWire, QueryInv, BitInv
    <2>4. InThread(p) /\ lpc \in {"check", "flip"} =>
            highest[p] # highest_bit_r[p]
      BY <2>1 DEF QueryInv, BitInv
    <2>5. highest[p] # highest_bit_r[p] => HasSignal(p)
      BY <2>2 DEF QueryInv, BitInv, DeliveryInv
    <2>6. ASSUME HasSignal(p), highest[p] # highest_bit_r[p]
          PROVE  \/ OnWire(p) # {}
                 \/ InThread(p) /\ lpc \in {"check", "flip"}
      <3>1. CASE \E j \in 1 .. Len(wire) : wire[j] = p
        BY <3>1 DEF OnWire
      <3>2. CASE ThreadHolds(p)
        <4>1. lpc \in {"check", "flip"}
          BY <2>6, <3>2 DEF QueryInv, BitInv
        <4> QED
          BY <2>1, <3>2, <4>1
      <3>3. ~(\E j \in Live : data_signal[j].port = p)
        BY <2>6 DEF QueryInv, BitInv
      <3> QED
        BY <2>6, <3>1, <3>2, <3>3 DEF HasSignal
    <2> QED
      BY <2>3, <2>4, <2>5, <2>6
  <1> QED
    BY <1>1, DeliveryInvariant, PTL

----------------------------------------------------------------------------
(* The refinement of SnapshotQuery: a trigger is Ask, the store of the     *)
(* file is Answer, the reset of the lock is Release, and every other step  *)
(* of the switch, the thread or the main loop changes nothing that a query *)
(* promises.                                                               *)

\* A query that has read some cells has their content in its buffer.
ChunkInv == Querying /\ data_query_start > 0 => data_query_buffer # {}

RefineInv == TypeInv /\ QueryInv /\ ChunkInv

----------------------------------------------------------------------------
LEMMA InitChunk == Init => ChunkInv
  BY DEF Init, ChunkInv

\* No step sets data_query_start without filling the buffer, and a new query
\* starts with neither.
LEMMA NextChunk == TypeInv /\ ChunkInv /\ [Next]_vars => ChunkInv'
  <1> SUFFICES ASSUME TypeInv, ChunkInv, [Next]_vars
               PROVE  ChunkInv'
    OBVIOUS
  <1>1. CASE StartQuery \/ Pop \/ (\E n \in 1 .. CellNumber : ReadChunk(n))
    BY <1>1 DEF ChunkInv, StartQuery, Pop, ReadChunk
  <1>2. CASE ClearNewSignal
    BY <1>2 DEF ChunkInv, ClearNewSignal, Querying
  <1>3. ASSUME UNCHANGED <<finish_last, data_query_start, data_query_buffer>>,
               mpc \in {"pop", "clear"} => mpc' \in {"pop", "clear"}
        PROVE  ChunkInv'
    BY <1>3 DEF ChunkInv, Querying
  <1>4. CASE Traffic \/ Thread \/ ReceiveFails \/ USR1 \/ UNCHANGED vars
    BY <1>3, <1>4
    DEF Traffic, Packet, Thread, TestSignalFlag, Receive, ReceiveFails, FillSlot,
        FlipHighest, ReadSecond, Publish, SetNewSignal, USR1, vars, main, answer
  <1>5. CASE \/ TestLoopFlag \/ Continue \/ StopThread \/ DurationEnds
             \/ (\E p \in Ports : SetSecondHighest(p))
             \/ ToggleSecondHighest \/ ComputeIndex \/ ReadRegisters
             \/ StorePoll
    BY <1>3, <1>5
    DEF TestLoopFlag, Continue, StopThread, DurationEnds, SetSecondHighest,
        ToggleSecondHighest, ComputeIndex, ReadRegisters, StorePoll, poll, answer
  <1>6. CASE StoreQuery \/ Unlock
    BY <1>3, <1>6 DEF StoreQuery, Unlock, AllPolled, answer
  <1> QED
    BY <1>1, <1>2, <1>4, <1>5, <1>6 DEF Next, Main, QueryStep

----------------------------------------------------------------------------
(* The mapping, step by step.                                              *)

\* A step maps to a stutter if it changes no file and no port's share of the
\* mapping.
LEMMA Stutters ==
  ASSUME UNCHANGED tw_data,
         \A p \in Ports : UNCHANGED <<Phase(p), Frozen(p)>>
  PROVE  [Snapshot!Next]_(Snapshot!vars)
  BY DEF Snapshot!vars

LEMMA InitRefines == Init => Snapshot!Init
  <1> SUFFICES ASSUME Init PROVE Snapshot!Init
    OBVIOUS
  <1>1. \A p \in Ports : Phase(p) = "idle" /\ Frozen(p) = Snapshot!Thawed
    BY DEF Init, Phase, Frozen, Snapshot!Thawed, Snapshot!Quarters
  <1> QED
    BY <1>1 DEF Init, Snapshot!Init

\* A packet that triggers nothing is recorded in the half that is not frozen.
LEMMA RecordRefines ==
  ASSUME TypeInv, NEW p \in Ports, NEW exceed \in BOOLEAN, NEW c \in Contents,
         Packet(p, exceed, c), ~(exceed /\ data_query_lock_r[p] = 0)
  PROVE  [Snapshot!Next]_(Snapshot!vars)
  <1>1. /\ UNCHANGED <<data_query_lock_r, mpc, query, tw_data>>
        /\ highest_bit_r' = highest_bit_r
        /\ tw_r' = [tw_r EXCEPT
                      ![p][highest_bit_r[p]][second_highest_tb[p]] = c]
    BY DEF Packet, TypeInv, TypeOK, main, answer
  <1>2. \A q \in Ports : highest_bit_r[q] \in Bits
    BY DEF TypeInv, TypeOK
  <1>3. \A q \in Ports : tw_r'[q][1 - highest_bit_r[q]] = tw_r[q][1 - highest_bit_r[q]]
    BY <1>1, <1>2, BitFlip DEF TypeInv, TypeOK
  <1>4. \A q \in Ports : UNCHANGED <<Phase(q), Frozen(q)>>
    BY <1>1, <1>3 DEF Phase, Frozen
  <1> QED
    BY <1>1, <1>4, Stutters

\* A trigger asks: the half it leaves is frozen as it is.
LEMMA TriggerRefines ==
  ASSUME TypeInv, TypeInv', QueryInv,
         NEW p \in Ports, NEW exceed \in BOOLEAN, NEW c \in Contents,
         Packet(p, exceed, c), exceed /\ data_query_lock_r[p] = 0
  PROVE  Snapshot!Ask(p)
  <1>1. /\ UNCHANGED <<mpc, query, tw_data>>
        /\ data_query_lock_r' = [data_query_lock_r EXCEPT ![p] = 1]
        /\ highest_bit_r' = [highest_bit_r EXCEPT ![p] = 1 - highest_bit_r[p]]
        /\ tw_r' = [tw_r EXCEPT
                      ![p][1 - highest_bit_r[p]][second_highest_tb[p]] = c]
    BY DEF Packet, main, answer
  <1>2. mpc = "unlock" => query.port # p
    BY QueryFirst DEF QueryIsFirst, Querying, QueryInv, TurnInv
  <1>3. Phase(p) = "idle" /\ Phase(p)' = "asked"
    BY <1>1, <1>2 DEF Phase, TypeInv, TypeOK
  <1>4. ASSUME NEW q \in Ports, q # p
        PROVE  UNCHANGED <<Phase(q), Frozen(q)>>
    BY <1>1, <1>4 DEF Phase, Frozen, TypeInv, TypeOK
  <1>5. Frozen(p)' \in Snapshot!Quarters
    <2>1. 1 - highest_bit_r'[p] \in Bits
      BY BitFlip DEF TypeInv, TypeOK
    <2>2. tw_r'[p][1 - highest_bit_r'[p]] \in [Bits -> Contents]
      BY <2>1 DEF TypeInv, TypeOK
    <2> QED
      BY <1>3, <2>2 DEF Frozen, Snapshot!Quarters, Bits
  <1>6. [q \in Ports |-> Phase(q)]'
          = [[q \in Ports |-> Phase(q)] EXCEPT ![p] = "asked"]
    BY <1>3, <1>4
  <1>7. [q \in Ports |-> Frozen(q)]'
          = [[q \in Ports |-> Frozen(q)] EXCEPT ![p] = Frozen(p)']
    BY <1>4
  <1> QED
    BY <1>1, <1>3, <1>5, <1>6, <1>7 DEF Snapshot!Ask

\* The file of a query holds the frozen content of the quarter it read.
LEMMA StoreRefines ==
  ASSUME RefineInv, StoreQuery, NEW p \in Ports, p = query.port
  PROVE  Snapshot!Answer(p)
  <1> DEFINE r == tw_r[p][1 - highest_bit_r[p]][query.s]
  <1>1. /\ UNCHANGED <<data_query_lock_r, highest_bit_r, tw_r, query>>
        /\ mpc = "body" /\ mpc' = "unlock" /\ Querying
        /\ data_query_start > 0
    BY PortsAssumption DEF StoreQuery, AllPolled, Querying, switch, answer
  <1>2. query.h \in Bits /\ query.s \in Bits /\ highest_bit_r[p] \in Bits
    BY DEF RefineInv, TypeInv, TypeOK, Banks
  <1>3. data_query_lock_r[p] = 1 /\ query.h = 1 - highest_bit_r[p]
    BY <1>1, <1>2, QueryFirst, BitFlip DEF RefineInv, QueryIsFirst
  <1>4. ReadBank(query) = r /\ r \in Contents
    BY <1>2, <1>3, ReadBankType DEF ReadBank, RefineInv, TypeInv, TypeOK
  <1>5. data_query_buffer = {r}
    BY <1>1, <1>4 DEF RefineInv, ChunkInv, QueryInv, QuerySnapshot
  <1>6. tw_data' = [tw_data EXCEPT ![p] = r]
    BY <1>4, <1>5 DEF StoreQuery
  <1>7. Phase(p) = "asked" /\ Phase(p)' = "answered"
    BY <1>1, <1>3 DEF Phase
  <1>8. \A q \in Ports : q # p => Phase(q)' = Phase(q)
    BY <1>1 DEF Phase
  <1>9. \A q \in Ports : Frozen(q)' = Frozen(q)
    BY <1>1, <1>7, <1>8 DEF Frozen
  <1>10. [q \in Ports |-> Phase(q)]'
           = [[q \in Ports |-> Phase(q)] EXCEPT ![p] = "answered"]
    BY <1>7, <1>8
  <1>11. Frozen(p)[query.s] = r
    BY <1>7 DEF Frozen
  <1> QED
    BY <1>2, <1>6, <1>7, <1>9, <1>10, <1>11 DEF Snapshot!Answer, Bits

\* The reset of the lock releases the port, and no other.
LEMMA UnlockRefines ==
  ASSUME RefineInv, Unlock, NEW p \in Ports, p = query.port
  PROVE  Snapshot!Release(p)
  <1>1. /\ UNCHANGED <<highest_bit_r, tw_r, query, tw_data>>
        /\ mpc = "unlock" /\ mpc' = "pop"
        /\ data_query_lock_r' = [data_query_lock_r EXCEPT ![p] = 0]
    BY DEF Unlock, answer
  <1>2. data_query_lock_r[p] = 1
    BY <1>1, QueryFirst
    DEF RefineInv, QueryInv, TurnInv, Querying, QueryIsFirst
  <1>3. Phase(p) = "answered" /\ Phase(p)' = "idle"
    BY <1>1, <1>2 DEF Phase, RefineInv, TypeInv, TypeOK
  <1>4. \A q \in Ports : q # p => Phase(q)' = Phase(q)
    BY <1>1 DEF Phase, RefineInv, TypeInv, TypeOK
  <1>5. Frozen(p)' = Snapshot!Thawed
    BY <1>3 DEF Frozen, Snapshot!Thawed, Snapshot!Quarters
  <1>6. \A q \in Ports : q # p => Frozen(q)' = Frozen(q)
    BY <1>1, <1>4 DEF Frozen
  <1>7. [q \in Ports |-> Phase(q)]'
          = [[q \in Ports |-> Phase(q)] EXCEPT ![p] = "idle"]
    BY <1>3, <1>4
  <1>8. [q \in Ports |-> Frozen(q)]'
          = [[q \in Ports |-> Frozen(q)] EXCEPT ![p] = Snapshot!Thawed]
    BY <1>5, <1>6
  <1> QED
    BY <1>1, <1>2, <1>3, <1>7, <1>8 DEF Snapshot!Release

\* Steps that touch neither the registers nor the lock nor the file, and do not
\* come to or leave the point between the two.
LEMMA OtherRefines ==
  ASSUME \/ Thread \/ ReceiveFails \/ USR1 \/ UNCHANGED vars
         \/ TestLoopFlag \/ Continue \/ StopThread \/ DurationEnds
         \/ (\E p \in Ports : SetSecondHighest(p))
         \/ ToggleSecondHighest \/ ComputeIndex \/ ReadRegisters \/ StorePoll
         \/ StartQuery \/ (\E n \in 1 .. CellNumber : ReadChunk(n))
         \/ Pop \/ ClearNewSignal
  PROVE  [Snapshot!Next]_(Snapshot!vars)
  <1>1. /\ UNCHANGED <<data_query_lock_r, highest_bit_r, tw_r, tw_data>>
        /\ \/ mpc # "unlock" /\ mpc' # "unlock"
           \/ UNCHANGED <<mpc, query>>
    <2>1. CASE Thread \/ ReceiveFails \/ USR1 \/ UNCHANGED vars
      BY <2>1
      DEF Thread, TestSignalFlag, Receive, ReceiveFails, FillSlot, FlipHighest,
          ReadSecond, Publish, SetNewSignal, USR1, vars, switch, main, answer
    <2>2. CASE TestLoopFlag \/ Continue \/ StopThread \/ DurationEnds
      BY <2>2
      DEF TestLoopFlag, Continue, StopThread, DurationEnds, switch, answer
    <2>3. CASE \/ (\E p \in Ports : SetSecondHighest(p))
               \/ ToggleSecondHighest \/ ComputeIndex \/ ReadRegisters
               \/ StorePoll
      BY <2>3
      DEF SetSecondHighest, ToggleSecondHighest, ComputeIndex, ReadRegisters,
          StorePoll, switch, answer
    <2>4. CASE \/ StartQuery \/ (\E n \in 1 .. CellNumber : ReadChunk(n))
               \/ Pop \/ ClearNewSignal
      BY <2>4
      DEF StartQuery, ReadChunk, Pop, ClearNewSignal, AllPolled, switch
    <2> QED
      BY <2>1, <2>2, <2>3, <2>4
  <1>2. \A p \in Ports : UNCHANGED <<Phase(p), Frozen(p)>>
    BY <1>1 DEF Phase, Frozen
  <1> QED
    BY <1>1, <1>2, Stutters

LEMMA NextRefines ==
  RefineInv /\ RefineInv' /\ [Next]_vars => [Snapshot!Next]_(Snapshot!vars)
  <1> SUFFICES ASSUME RefineInv, RefineInv', [Next]_vars
               PROVE  [Snapshot!Next]_(Snapshot!vars)
    OBVIOUS
  <1>1. CASE Traffic
    <2>1. PICK p \in Ports, exceed \in BOOLEAN, c \in Contents :
            Packet(p, exceed, c)
      BY <1>1 DEF Traffic
    <2>2. CASE exceed /\ data_query_lock_r[p] = 0
      BY <2>1, <2>2, TriggerRefines DEF RefineInv, Snapshot!Next
    <2>3. CASE ~(exceed /\ data_query_lock_r[p] = 0)
      BY <2>1, <2>3, RecordRefines DEF RefineInv
    <2> QED
      BY <2>2, <2>3
  <1>2. query.port \in Ports
    BY DEF RefineInv, TypeInv, TypeOK, Banks
  <1>3. CASE StoreQuery
    BY <1>2, <1>3, StoreRefines DEF Snapshot!Next
  <1>4. CASE Unlock
    BY <1>2, <1>4, UnlockRefines DEF Snapshot!Next
  <1> QED
    BY <1>1, <1>3, <1>4, OtherRefines DEF Next, Main, QueryStep

\* Every data plane query of every port is answered by one quarter of the half
\* that its trigger froze, complete, untorn and as it was at that moment, before
\* the port may ask again: the switch, the thread and the main loop, with their
\* copies of the bits, implement the abstract query.
THEOREM QueriesAreSnapshots ==
  ASSUME SoundBuild
  PROVE  Spec => ImplementsSnapshotQuery
  <1>1. Spec => []ChunkInv
    BY InitType, NextType, InitChunk, NextChunk, PTL DEF Spec
  <1>2. Spec => []RefineInv
    BY <1>1, QueryInvariant, PTL DEF RefineInv
  <1> QED
    BY <1>2, InitRefines, NextRefines, PTL
    DEF Spec, ImplementsSnapshotQuery, Snapshot!Spec

=============================================================================
