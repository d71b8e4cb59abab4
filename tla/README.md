# PrintQueue in TLA+

TLA+ models of [PrintQueue](../src/README.md), which measures queues in the data
plane of a Tofino switch, with TLC runs on small instances and TLAPS proofs for
every value of the constants. File and line numbers are those of the repository
next to this directory; `P4` is
`PrintQueue_Tofino/src/data/time_windows_data_query.p4`, `C` is
`PrintQueue_Tofino/src/ctrl/PrintQueue.c`, `QM` is
`PrintQueue_Tofino/src/data/queue_monitor.p4`, `TW` is
`AnalysisProgram/TimeWindows.py` and `GT` is `AnalysisProgram/GroundTruth.py`.

## The system

| Component | Source | State | Operations | Talks to |
|---|---|---|---|---|
| Switch pipeline, time windows | `P4` | per port: lock, highest bit, action data with the second-highest bit, four banks of T windows of 2^k cells | record a packet, push evicted records on, trigger a query, clone a signal | registers read by the main loop; signals over the CPU port |
| Signal-receiving thread | `C`:537-650 | the slot it fills, `rcv_buf` | receive a signal, fill a slot of the ring, flip `highest`, publish | shared variables, no mutex |
| Main loop, time windows | `C`:944-1113 | buffers, timers, the query in progress | poll every port, answer a query in chunks between polls, unlock, advance the ring, end the experiment | registers, tables, files, shared variables |
| Signal handlers | `C`:239-264 | `loop_flag`, `signal_flag`, `running_flag` | SIGUSR1 starts and stops, SIGUSR2 ends | both threads |
| Start-up | `C`:846-943 | port table, thresholds, mirror session | runs once | tables of the switch |
| Queue monitor pipeline | `queue_monitor.p4` | stack of depths, sequence number, lock, highest bit | push and pop a depth, two kinds of signals | as the time windows |
| Queue monitor loop | `C`:1120-1293 (commented out) | as the main loop, `wrap[]` | as the main loop | as the main loop |
| Ingress, parser | `ingress.p4`, `parser.p4` | none | forward, look thresholds up | metadata of the packet |
| Filter and queries of time windows | `TW`:1-456 | overflow count and latest time stamp from set to set, the smallest cell, the sets loaded with their bounds | load and filter a set, locate a signal, answer an interval | files of the main loop |
| Filter of the queue monitor | `QueueMonitor.py` | none | rebuild the stack of a snapshot | files of the main loop |
| The same for the earlier file format | `TW`:461-650, `GT`:358-440 | none from set to set | the classes named stale | files of the main loop |
| Ground truth | `GT`:1-356 | bases of both stamps, the moments of the record before | load records, put packets into levels, count packets by period | files of the receiver |
| Comparison | `GT`:443-591, `TW`:652-865 | tables of the sketches | sample packets, Count-Min, FlowRadar, HashPipe, precision and recall | ground truth, filter |
| Receiver | `EndHosts/DPDK_receive_pkt/main.c` | one buffer and counter for all lcores | store the INT headers of received packets | files |
| Traffic generator, scripts | `SyntheticTraffic.py`, `Makefile`, `run.sh`, `reproduce.py` | none | | |

### What is hard

*Interleaving.* Two threads and the switch share the two bits that name a bank
with no lock between them. The switch flips the highest bit when it sends a
signal; the thread flips its copy when it receives it, possibly much later. In
between, the main loop polls with a stale copy, and is right to: what keeps a poll
safe is the *second* bit, which only the main loop changes. What keeps a query
safe is the lock, which only the main loop resets. Neither argument is written in
the code.

*Ordering.* The thread announces a slot with two stores, to `data_signal_tail` and
to `new_signal`, plain variables of another thread. The main loop tests that the
ring is empty and clears `new_signal` in two steps. Every order of these four
happens, and the compiler adds more.

*Loss and failure.* A clone may be dropped before it reaches the socket;
`recvfrom` may be interrupted; the operator may stop and start at any step.

*Numbers.* Time stamps overflow every four seconds and the windows see them
shifted by a different number of bits each. Five places count the overflows again,
each by a rule of its own: the scan of a window, the step from set to set, the
search for a signal, and the two loaders of the ground truth. Registers are never
cleared: a bank that is used again still holds the records of its earlier use.

*Time.* Polls are due by wall-clock deltas, and a query may only go on with what a
round of polls leaves over.

### What makes each component correct

- Poll: no packet is recorded in the bank it reads, from the first register to the
  last (`PollSnapshot`).
- Query: all chunks are of what the bank held when the port was locked
  (`QuerySnapshot`); one signal per lock (`OneSignalPerLock`, and
  `AtMostOneSignal` where signals are lost); queries are answered from the head of
  the ring, for a port that is locked (`QueryIsFirst`); the copy of the highest
  bit lags exactly by the signals on the way (`HighestFollows`); every lock is
  answered (`AnsweredUnlessForgotten`).
- Ring: it has a slot for the signal in hand (`RingNeverOverflows`).
- Cascade and filter: wherever a record is moved, its cell is the one its time
  names (`RecordsTrue`), and what is passed on is a cycle older than what stays
  (`RecordsFollow`); what is retained has the time of its packet
  (`RetainedTrue`), older windows are older (`WindowsOrdered`), nothing is missing
  under dense traffic (`Complete`). Registers are never cleared, so that nothing is
  of an earlier use holds only of a set whose first window was filled of late and
  ends late enough after that use began (`SetFresh`).- Queue monitor: a poll reads a quarter that no packet is recorded in, and clears
  exactly what it read (`ReadInv`), so no record is erased unread
  (`NoRecordLost`); the filter of the files gives the stack that the packets made
  (`StackTrue`), for which every overflow of the sequence number has to be in a
  file (`OverflowsCounted`).
- Queries: the bounds of a set enclose what it retained, the lower one but for half
  a cell of wide windows (`SetBounds`, `Behind`); a signal is
  placed in the right cycle of the clock (`SignalsLocated`); an interval over two
  sets counts every cell once and leaves none out (`CountedOnce`); under dense
  traffic the coefficients give back the packets that were passed over
  (`EstimateTrue`); the earlier filter retains the same (`StaleAgrees`) and its
  queries by window stay in the window (`WindowAlone`).
- Receiver and ground truth: both moments of every loaded packet count from one
  origin (`LoadedTrue`, `StaleTrue`), no packet is taken for one out of order
  (`NothingDropped`), and frames of others do no harm (`OtherFramesHarmless`).
- Comparison: as many packets of a level as asked for, each of that level
  (`SampleTrue`), and the draw ends (`SamplingEnds`); the series of flows add up
  to the total (`SeriesAgree`); HashPipe never counts too many (`PipeBelow`),
  Count-Min never too few (`CountMinAbove`), FlowRadar finds flows of the trace
  only, each once (`RadarReal`); and the scores lose no more than they say
  (`ScoresTrue`).

## Modules

| Module | Contents |
|---|---|
| `SnapshotQuery` | what a data plane query promises: ask, answer, release |
| `DataPlaneQuery` | the switch pipeline, the thread, the main loop and SIGUSR1, one step per access to shared state |
| `DataPlaneQueryProofs` | proofs: types, periodic reads, data plane queries, the ring, the delivery of signals, the refinement of `SnapshotQuery` |
| `TimeWindows` | the cascade of one port, with polls that retire its quarter |
| `TimeWindowController` | the filter of the sets those polls read |
| `TimeWindowsProofs` | proofs: records keep their time and order; before the first overflow, what is retained is true and in order |
| `TimeWindowsOverflow` | proofs: over any number of overflows, under dense traffic, what is retained is true, in order, fresh and complete |
| `TimeWindowQueries` | the bounds of sets, the place of signals, cuts, counts and estimates; the earlier filter |
| `TimeWindowQueriesProofs` | proofs: bounds enclose what a set retains, both filters agree, queries count once, signals are located right, estimates are enough and hardly more |
| `GroundTruth` | the stamps of packets, the receiver's files and both loaders |
| `GroundTruthProofs` | proofs: what the loaders load is true |
| `Sampling`, `Series`, `Sketches` | levels and draws; the plotted series; the sketches and scores |
| `Comparison` | those three side by side |
| `ComparisonProofs` | proofs: packets are drawn of their level; the series add up; what the sketches and their scores promise |
| `QueueFilter` | the filter of the queue monitor's files, and the stack it should give |
| `QueueMonitor` | the queue-monitor build for one port: pipeline, thread, main loop |
| `QueueMonitorProofs` | proofs: polls of the queue monitor, no record is lost, the filter rebuilds the stack |
| `Recursion` | lemmas: induction over the numbers, functions given by recursion, division |
| `MC...` | small instances |

Some definitions have variants, named after them with an underscore
(`Unlock_All`): a bug that the code could have and that a property of the module
is known to catch. No specification uses them.

### DataPlaneQuery and the code

| Variables | Code |
|---|---|
| `data_query_lock_r`, `highest_bit_r` | the registers of `P4`:120-177 |
| `second_highest_tb` | action data of `prepare_TW0_tb` (`P4`:53-85) |
| `tw_r` | the registers of the windows, one content per bank |
| `wire` | signals cloned to the CPU port and not yet received |
| `lpc`, `rcv_buf`, `slot` | where the thread is, its frame, the slot at the tail |
| `highest`, `second_highest`, `data_signal`, `new_signal`, `loop_flag`, `signal_flag` | the variables of the same names |
| `mpc`, `bank`, `buffer`, `polled`, `per_round_count` | where the main loop is in a poll |
| `finish_last`, `query`, `data_query_start`, `data_query_buffer`, `tw_data` | the query in progress and the last file of each port |

`data_signal` is the sequence of slots from head to tail. Each action is one
access of a thread to state another thread or the switch changes: `FillSlot`,
`FlipHighest`, `ReadSecond`, `Publish`, `SetNewSignal` are the thread's lines
593-644; `SetSecondHighest`, `ToggleSecondHighest`, `ComputeIndex`,
`ReadRegisters` (once per chunk of registers, as often as it takes) and
`StorePoll` are a poll; `StartQuery`, `ReadChunk`, `StoreQuery`, `Unlock`, `Pop`,
`ClearNewSignal` are a query. A packet is one action, because the pipeline meets
every register once and in packet order.

Abstractions, each with its reason:

- A bank has one content that any packet replaces. The properties only ask whether
  a bank changed between two reads of it; `TimeWindows` has the cells.
- Timers are choices. `available_interval` may let a query go on or not at every
  test; a poll may happen once a round for each port (`polled`). Whatever the
  timers do is among these behaviours.
- Bounds: `RoundBound` on `per_round_count`, which only a stop between two polls
  can take that far. `MaxPortNum` sizes the ring as `MAX_PORT_NUM + 2`.
- `StoreOrder` and `FlagReload` stand for what the compiler may do with plain
  variables: keep the order of the thread's stores or move `new_signal` first;
  reload `signal_flag` in the outer loop or not. Both were observed with gcc 12 at
  `-O2`, the level of the Makefile's `printqueue` target. The runs that check the
  signals have the build that reloads it (for the other see "Disagreements found"),
  and `PollAlone` the build that does neither. `Prompt` says that the thread is not suspended, between its last two stores, for as long as the
  driver calls and the file of a whole query take.
- SIGUSR1 sets `loop_flag` and `signal_flag` in one step, though the handler has a
  store for each (`C`:244-249): that the main loop has been told and the thread not
  yet, or the reverse, is left out. Either may be slow to look at its flag.

### TimeWindows, TimeWindowController and the code

A cell is a record of its trimmed time stamp and its flow ID, which is here the
moment its packet was dequeued, unbounded. `Packet` is the control flow of
`P4`:921-966: it computes which record enters each window (`Entering`, a recursive
function over the windows; the code lets `TW0_md` and `TW1_md` describe every
other window in turn) and stores them. `Passes` is the pair of tests between two
windows, in the arithmetic of the width of a time stamp. `Poll` retires the
quarter and runs one iteration of `filter_TW` on what it held: `LargestCell` is
the scan with its threshold, `LargestTts` the step to the next window, `Retained`
the two loops over the cells. Python's arithmetic shift and mask of negative
numbers are `\div` and `%`. Packets come at least a cell of the first window
apart. The pipeline also overwrites a cell by a later packet of the same cell
(`P4`:921-966): it has the stamp of the one before, and neither the cascade nor the
filter sees a difference but in the flow ID.

Left out: the half of the registers (its part is in `DataPlaneQuery`, which proves
that a poll reads one quarter unchanged), and the printout.

### TimeWindowQueries and the code

`LoadSet` is one whole iteration of the filter's loop: the filter above and, with
it, `sts`, `lts` and the cells appended to `TW_registers`. `SmallestCell` keeps
what the code keeps: the first cell that the loops meet in the deepest window that
retains any, and from the set before when this one retains none. Python's moments
are fractions of half a cell; here they are integers, since a window trims at
least one bit (`TW0_TB`, 10 in the code). `poll_signals` gives all the places a
signal may be put, one for each near cell, since the code takes the first of a
list whose order the model does not keep. `Cuts` is the loop of `retrieve` over
the sets, the exception past the last included (`failed`). `calculate_coefficient`
computes with fractions, as pairs of integers. `RetainedStale` to `RetrieveStale`
are the classes named stale.

### GroundTruth and the code

A `Packet` is dequeued some time after the one before and was queued for some
time; the switch writes both moments modulo the cycle, the receiver appends a
record, and the loader reads it in the same step: loading later changes nothing,
for the loader keeps no more than what the variables `base_...` and `p_...` name.
Which of `ReadFirst`, `Skip` and `Load` reads a record depends on its place: first
of its file, among the first `first_K`, or neither. `packet` keeps the moments as
if they never overflowed, which no code sees, and the properties compare with it.
`OtherFrame` is `main.c`:268-281. `mishap` names the first thing the loader cannot
make up for: an enqueue overflow at the first record of a file, one of the two
stamps overflowing in the skipped records, an overflow together with a silence
longer than the cycle less the threshold, or a frame without the header. Of the last,
those among the records the loader compares in full are told from those it passes
over and give way to any later mishap, so that `OtherFramesHarmless` is about nothing
else that may have gone wrong. `stale` is the earlier loader.

### Sampling, Series, Sketches and the code

They share no state, and `Comparison` runs them side by side: a behaviour is of
one part. `Sampling` draws a packet at a time, and one drawn before changes
nothing. In `Series` a moment is kept times twice the number of periods, so that
the middles and ends of periods are integers; `first_ets` and the truncations to
integers are where the code has them. In `Sketches` a hash function is any
function from flows to numbers and the identifiers of flows are abstract; the
exclusive or of identifiers is the set of those that are in it. FlowRadar looks at
it only in a cell that counts one flow, where the set has that flow alone (`Lone` in
`ComparisonProofs`), so that two sets with one exclusive or make no difference. A
dictionary that the code sorts by number is the set of its items, each a flow, its
number and when it entered the dictionary, and `Descending` is the sequence Python's
stable sort makes of them: the scores leave out its last flow, so ties matter.
Count-Min is asked for the flows of the truth of the same trace; the comparison asks
it for those of the interval it scores (`GT`:499), and what is promised of a flow does
not depend on which others are asked for.
`Scans` bounds the rounds of FlowRadar's `while True`: the last of them, proved for
all sizes, finds nothing.

### QueueMonitor, QueueFilter and the code

The registers have the names of `QM`; `stack_top_r` stands for `pre_pkt_qdepth_r`
as well, which is set to the same depth by the same packets. `qm_r` holds, for
every bank and depth, the packet last recorded there: its address pair is its
number, its sequence number the low bits of that. `Packet` is `QM`:429-462: the
depth before is compared with the packet's threshold, an overflow or a deep queue
asks for the lock, the winner flips the half and sends a signal of its type, and a
packet that changes the depth is recorded in the half it finds or makes. `Receive`
(time stamp, `wrap`) and `FlipHighest` (slot, flip) are the thread.
`SetSecondHighest` to `StorePoll` are `C`:1153-1195, of which `ResetRegisters` is
a step of its own; `ReadChunk` and `StoreQuery` are `C`:1219-1280.

A file is its time stamp, its overflow mark and its cells. `FilterQM` folds
`filter_QM` over the files in order: `Kept` is the loop over the stack before,
`Rising` the two loops that accept only later and later packets at deeper depths.
`Stack` is the reference: of the last packets recorded at each depth, those later
than all at smaller depths.

`mishap` names the first thing that the filter cannot make up for: a poll between
a trigger and the receipt of its signal, or an overflow received during a poll; a
query after an overflow but before the poll that is marked with it; an empty file;
an overflow while the port is locked. `StackTrue` excuses these, `NoRecordLost`
excuses nothing.

Left out: other ports, the end of the experiment, the ring and `new_signal` (the
same code as in `DataPlaneQuery`), the layout of files.

## Runs

| Run | Instance | Shows |
|---|---|---|
| `QuerySnapshot` | 1 port, 2 cells, 2 contents, stops, fairness | queries are never torn, the copy of the highest bit follows, one signal per lock, the three actors implement `SnapshotQuery`, and a signal that waits for the thread when it is started, or comes later, gets to the ring: stops delay and lose none (`SignalsReceived`) |
| `LossyWire` | 2 ports, stops, lost signals | never two signals of a port, room in the ring, queries from its head; the invariants of the proofs |
| `PollAlone` | 1 port, 2 cells, 2 contents, flag first, no reload, a slow thread, read errors | polls are never torn, and do not depend on the signal protocol |
| `Answered` | 2 ports, fairness | a locked port is unlocked while the other port triggers, or its signal was forgotten by the race below |
| `TimeWindows` | 3 windows of 4 cells, 11-bit time stamps | records keep their time and order in the cascade; what the filter retains, the place of signals and the cuts of queries, over an overflow and a silence; the earlier filter; the invariant of the proofs about overflows |
| `WideCells` | the same windows, cells four times as long in each (`ALPHA` = 2, as `README.md`:199-267 runs the analysis), silences longer than a use of a quarter | what a set must be like for nothing of an earlier use to be retained (`SetFresh`); bounds and estimates where cells are wide and traffic is limited |
| `QueueMonitor` | 3 depths, 2-bit sequence numbers, 5 packets, 2 polls | polls read a quarter at rest, no record is lost; the filter gives the true stack over a query and an overflow; the invariants of the proofs |
| `GroundTruth` | a clock of 16, files of 5, 10 records, 2 skipped | what is loaded is true and complete but for the mishaps, each of which is reached |
| `Comparison` | 5 packets and 2 levels; 5 packets and 3 periods; every trace of 4 packets of 3 flows with every spread of 3 hash functions over 3 cells | what sampling, series, sketches and scores promise |

The bounds. Two ports are the least for the ring to hold a signal while another is
answered and for locks to be mixed up; two cells are the least for a query to be
torn between chunks, two contents the least for it to show. With two ports the
ring of `MaxPortNum + 2` slots is at its limit: a slot being answered after its
lock was reset, and a signal of each port. `TimeWindows` covers 28 cells with
three windows; polls are 20 or 29 cells apart, so that the windows cover more than
a use of a quarter and less than two, and each quarter is used at least twice;
signals are of packets queued for 1, 20 or 300 moments, 300 being more than the
windows cover. `Duration` (2120) leaves at least two polls after the overflow at
2048. The overflow falls in a set from one start and between two sets from the
other. A silence of 3 moments skips a cell, one of 21 skips two cycles of the
first window. The threshold of the overflow count is to a set's length as in the
shipped parameters (about 2). In `WideCells` the windows cover 4 + 16 + 64 cells of
the first and polls are 23 or 45 of those apart, so that it takes several uses to outlast
the windows: hence the longer `Duration`. A silence of 105 is longer than either, one of 180 than both;
two leave either quarter, or both, idle for a use, and sets are filtered as they were left,
of earlier uses only. Sets with and without an overflow retain cells of two windows and
of three. In `QueueMonitor` the fourth packet overflows the
sequence number, before or after the first poll; three depths are the least for a
stack with a middle that is lost or kept; each mishap is reached. At most as many
packets as there are sequence numbers come between two polls (2^32 in a tenth of a
second in the code). In `GroundTruth` ten records are two files, either stamp may
overflow at any of them, and gaps of 6 with delays of 5 are silences by a
threshold of 12. In `Comparison` a trace of four packets fills a stage of HashPipe and swaps
out of it; three flows in three cells have every collision there is. `Duration`
ends the experiment, as the program's own `duration` does: nothing follows it, so
deadlock is not checked there; nor in `QueueMonitor`, `GroundTruth` and
`Comparison`, where packets, records and draws run out.

Fairness (`FairSpec`): weak fairness of each thread, which the scheduler grants;
strong fairness of each port's poll and of a query's next step, since an iteration
of the loop finds the timer of either elapsed again and again, though not in any
given iteration. Signals are not lost in `Answered`, and there are no stops, since
a stopped system answers nothing. `QuerySnapshot` has stops, which no fairness
forces: `SignalsReceived` leads from every state in which a signal is on the wire and
`signal_flag` is up, after any number of stops, to its being in the ring, unless the
thread is stopped again before.
`SamplingFairness`: every packet of a level is drawn in the end, which `randint`
does with probability one.

### Disagreements found

Each is a run that TLC refutes.

| Run | What happens |
|---|---|
| `LostWakeup` | the main loop finds the ring empty (`C`:1095); the thread publishes a signal and sets `new_signal`; the main loop clears it (`C`:1097). The signal waits until another port sends one; with one port, for ever, with its data plane query locked |
| `LockedOverflow` | the sequence number overflows while a data plane query holds the lock: no signal, no mark, and the filter takes all later packets for old ones |
| `ZeroRecord` | the receiver counts a frame without the header and leaves its record zero; where the dequeue stamp before it is near the end of its cycle, the loader takes the zero for an overflow (and that of the enqueue stamp, when it is as near), and `base_dequeue` stays moved even where the record is then dropped (`GT`:67-76): every later packet is a cycle late |

`SnapshotQuery` lets an answer be either quarter of the frozen half: a poll between a
trigger and the receipt of its signal changes which of them the query reads
(`C`:642). Nothing in the code promises one of them, and the program that loads the
query's file makes up for it with the set before (`TW`:112-125).

More come of changing a constant. `StoreOrder = "flag first"` in `QuerySnapshot`:
with the store of `new_signal` moved first, a query starts on a slot without its
bits and reads the half being written: `HighestFollows` fails, and `QuerySnapshot`
when checked alone. `FlagReload = FALSE` there: as gcc compiles the two loops, the
outer one re-reads only `running_flag`, and a thread that once saw `signal_flag`
cleared, be it before the first SIGUSR1, spins for ever. That violates
`SignalsReceived`, and `ThreadStarts`, which is what `C`:237 says: that the thread
starts monitoring when the flag is set. `Events = {"read error"}`: SIGUSR1 interrupts
`recvfrom`; -1 in an unsigned `n` passes the test of the length (`C`:580), and the
last frame is queued again, with a second flip of `highest`, which violates
`OneSignalPerLock`. `Prompt = FALSE` in `LossyWire`: a thread suspended between
`C`:643 and `C`:644 while its signal is answered raises `new_signal` for an empty
ring, which violates `QueryIsFirst`.

Two more are of the filter. With `Spells = {75}` in `TimeWindows`, a silence as long as
a use of a quarter, `OverflowsReal` fails, and with it `RetainedTrue`: under limited
traffic a quarter is read with the zeros it began with; where the latest stamp is close below an
overflow, the scan takes a zero for a stamp after it (`TW`:296) and counts an overflow,
and a later set that holds stamps of both sides of the real one counts that as well.
"wrapping means the times of overflow compared with the very beginning time", says
`TW`:300; `TW`:310 says of such traffic only that registers are not updated. And in
`WideCells` `SmallestFirst` fails: `sts` is the middle of a cell of the deepest window,
which with `alpha` of 2 or 3 may lie after the middle of a newer window's cell. It is
not the "smallest timestamp of the set" (`TW`:261), and a query that begins at such a
cell is not looked for in its set (`TW`:399). `SetBounds` says by how much (`Behind`).

The other mishaps of `QueueMonitor` are disagreements too, each found as a
violation of `StackTrue` before it was excused. A poll that crosses a signal has
its file out of order, or marked for an overflow that came after it. Files of
queries are never marked (`C`:1266), so a second query after an overflow, before
the next poll, has its records counted before it. `QueueMonitor.py`:131 empties
the stack when a file is empty, though files hold only what changed. In passing:
`PrintQueue_Tofino/README.md`:138 gives the signal types as 1 for an overflow and
2 for a query, `QM`:203 and :216 the reverse; :120 has the depth of the packet
itself exceed the threshold, `QM`:100 compares that of the packet before, and
equal is enough.

The mishaps of `GroundTruth` are of the same kind. The first record of a file and
the first `first_K` records take no part in the counting of overflows
(`GT`:42-63), so one that falls there may be missed or shift what follows; after a
silence of a cycle less the threshold (0.3 s) over an overflow, packets that are
in order are dropped. A first record is never loaded: one packet of each file is
missing from the ground truth. `sorted(fs)` (`GT`:28) sorts a copy, and the files
come in whatever order the directory gives; the model reads them in the order they
were written.

Limits of the queries, each outside what its property claims. An interval that
outlasts the last set ends with an exception (`TW`:408, `TW_registers[i + 1]`). A
cell whose moment lies before the end of the set before, though its packets came
after, is in neither part of a query over both; nor is, in windows more than twice as
coarse as the one before, a cell whose moment lies before the `sts` of its own set
(`Behind`): a query from there looks in the set before, or in none. A packet enqueued
and dequeued at the same stamp is put a cycle apart (`TW`:105 tests `<`). Estimates are only true
of a first window that is always full (`z` of one), without silence and overflow.
A signal file that has the name of no set is compared with the first set. After a
load from a saved filter, `signals` is not set, which the comparison reads
(`GT`:562).

Limits of the comparison. A depth of exactly the first threshold is put into the
last level, where `GT`:137 says "[A, B]". The draw (`GT`:464) never ends for a
level with packets, but fewer than asked for, and fails for one with none.
FlowRadar takes nothing out of the cells after the one where a flow was found
(`TW`:800-803 has emptied that one by then): its flows are true and their numbers
may be too large. The scores leave out the last flow of each answer, and of flows
with the same number the order of a dictionary decides which that is.
`precision_and_recall` itself is called by nothing.

Limits of the filter, met while its runs were built. Sets further apart than the
threshold are not recognised as an overflow apart. A quarter that is idle for a use is
filtered as it was left, and retains records of the use before: `SetFresh` has to ask
when the set's last packet came (`Outlasts`) and whether its stamps tell their cycles
(`StampsTell`). Without either premise TLC refutes it, the first in `WideCells`, the
second with `ALPHA = 1`, `Polls = {40, 58}` and `Spells = {75}` there. And the cascade never passes a record back over an overflow, since the 32-bit
difference is compared with a 22-bit time stamp: `Complete` asks nothing of the
later windows in a set with an overflow.

## Proofs

`DataPlaneQueryProofs` proves, for all constants that satisfy the assumptions
`PortsAssumption`, `BuildAssumption` and `ContentsAssumption`, and so for every
build and every event:

- `TypeCorrect`: `Spec => []TypeOK`. `TypeOK` is not inductive: that the counter
  of a round stays in its range depends on where the main loop is, and that a
  filled slot names a port on what the thread has just received. `TypeInv` adds
  both.
- `PollInvariant` and `PollSafe`: `Spec => []PollInv`, `Spec => []PollSnapshot`.
  `PollInv` says that the switch has been told to use the quarter the main loop
  does not keep in `second_highest`, except between the two lines that change one
  and then the other, for the port being polled. A bank being read is then never
  one a packet is recorded in, whatever the highest bit is.

The second part assumes `SoundBuild`: stores in program order, a `Prompt`
thread, no read errors. Each is needed: the changed constants above refute the
theorems without it. Lost signals and stops are allowed.

- `QueryInvariant`: `TypeInv /\ QueryInv` is inductive. `QueryInv` has one part
  per place a signal can be: on the wire (`WireInv`), in the thread (`ThreadInv`)
  or live in the ring (`RingInv`); wherever it is, its port is locked and has no
  other. A slot stops being live when its lock is reset, one step before the head
  moves, so that the next signal of the port may already be behind it. `BitInv`
  ties the copy of the highest bit to where the signal is: opposite to the
  register until `FlipHighest`, equal after it, and the bit saved in the slot
  names the half not being written. `TurnInv` ties `new_signal`, `finish_last` and
  the ring: a query starts only with a slot to answer. One lemma per action.
- `QuerySafe`: `Spec => []QuerySnapshot`. The port of the query is locked, so its
  highest bit stays, so no packet is recorded in the half its slot names.
- `FirstIsAnswered`: `Spec => []QueryIsFirst`.
- `RingSafe`: `Spec => []RingNeverOverflows`. Live slots have different ports, and
  with the port in hand and the one slot that is no longer live there are at most
  `NumPorts + 1` slots: a pigeonhole over an injection into the ports.

The third part proves what becomes of the signals.

- `NeverTwoSignals`: `Spec => []AtMostOneSignal`, of a `SoundBuild` and whatever
  is lost. It follows from `QueryInv`: signals of one port in one place are one,
  and only one place has any; the lemmas count them.
- `SignalsPaired` and `HighestTracked`: `Spec => []OneSignalPerLock` and `Spec =>
  []HighestFollows`, when signals are not lost (`Lossless`). They need the
  converse of `QueryInv`, that a locked port has a signal somewhere:
  `DeliveryInv`, one lemma per action again. `FillSlot` needs `RingNeverOverflows`
  here, since a full ring would throw the signal away.

The fourth part proves `QueriesAreSnapshots`: `Spec => Snapshot!Spec` of a
`SoundBuild`, the step that the run `QuerySnapshot` checks on a small instance. A
trigger is `Ask`, the store of the file `Answer`, the reset of the lock `Release`,
and every other step a stutter. The steps start from `RefineInv`: `TypeInv`,
`QueryInv` and `ChunkInv`, which says that a query past its first chunk has read
something, so that what it stores is one content and not none.

`GroundTruthProofs` proves, for every cycle, threshold, file size, gaps and delays
within `LoaderAssumption`: `LoaderCorrect` (`LoadedTrue`), `LoaderKeepsAll`
(`NothingDropped`) and `StaleCorrect` (`StaleTrue`). The invariant `LoaderInv`
says that, before the first mishap, the record before was read with the bases as
they now are, that its delay came out right, and that from the first loaded packet
on all moments count from its origin. The heart of it is the lemma on one packet:
of the cases in which neither, one or both stamps overflow, the test of the
enqueue moment against the dequeue moment and that against the record before never
both add a cycle.

`LossyWire` checks `PollInv` and `QueryInv` themselves on a small instance, and
`QueueMonitor` checks `ReadInv` and `PiecesInv`.

`QueueMonitorProofs` proves, for every depth of the queue, every width of the
sequence number and any number of packets, polls, queries and overflows:
`MonitorTyped` (`MonitorTypes`), `ReadsSafe` (`ReadInv`) and `RecordsSafe`
(`NoRecordLost`). `NoRecordLost` alone is not inductive: the reset of a poll
(`C`:1174-1176) writes zeros over the bank it has read, which is harmless only
because nothing was recorded there in between, and the store of a query's buffer
only because it overwrites nothing unread. `ReadInv` says both: the retired
quarter is not the one packets go to, the buffer equals it up to the reset, and a
query has filled its buffer up to `data_query_start` and no further.

`StackFiltered` (`StackTrue`) is about the whole way of a packet, from the register
through a file to the stack: until the first mishap the filter, given all files in
the order of their time stamps, returns the stack that the packets made by the time
of the last poll. The invariant `PiecesInv` speaks of files that are not written yet.
Every trigger and every poll retires the cells that packets are recorded in, and
what they hold then, in a register, a buffer or a file, is a piece (`Pieces`); it is
stamped as its file will be, a signal on its way with the next time stamp, which no
other event takes without a mishap. Only triggers and the beginning of a poll add a
piece (`Cut`), every other step moves one (`OtherPieces`). Of the pieces, `PiecesInv`
says that

- a packet in a piece is later than every packet in pieces of earlier stamps
  (`OrderInv`), although a half is read long after packets went on in the other;
- the last packet of a depth is the newest of the pieces' (`LastInv`), and the stack
  when a poll began that of the pieces up to it (`StackInv`);
- the packets of a piece have as many overflows behind them as marked files come no
  later, the mark still in `wrap` included (`WrapInv`);
- banks not in use are zero, so that a retired bank holds one piece and no remains
  (`CleanInv`), and stamps are distinct (`StampInv`).

When all is stored the files are the pieces (`StackRebuilt`), and `FilterTrue` is an
induction over the filter's loop: after i files its stack is that of their newest
packets and its `current_seq` a packet of the last file (`Reached`), since a file
whose packets are all newer leaves of a stack what is below all of them
(`AfterStack`). The hypothesis `PowerOfTwo`, that 2^`SeqBits` is a positive number,
is no assumption about the program: the provers know exponentiation by name only.

`TimeWindowsProofs` is about the cascade and the filter, for every number, size and
`ALPHA` of windows, every width of a stamp and any packets, silences and polls.
`PowersOfTwo` is a hypothesis of each theorem and no assumption about the program:
2^n is a positive number and 2^(m + n) = 2^m * 2^n, which the provers, who know
exponentiation by name only, do not have.

- `RecordsKeepTime`: `Spec => []RecordsTrue`. The invariant `WindowInv` says of
  every register, live or retired, that its stamp is the trimmed stamp of its
  packet and its index the cell of that stamp. It is kept through the whole
  recursion of the cascade: the lemma `EnteringGenuine` is an induction over the
  windows that a packet may push records through.
- `WindowsFollow`: `Spec /\ []Recent => []RecordsFollow`. `Recent` (no register holds
  a record for longer than a stamp takes to overflow) is what the hardware's
  subtraction of trimmed stamps rests on: `OneCycle` says that a difference of one
  cycle then means a cycle, and not a cycle and some periods.
- `WindowsDoNotOverlap` and `NoOverflowInvented`: `WindowsOrdered` and
  `RetainedTrue`, with no hypothesis on the traffic, until the stamps come within
  the analysis' threshold of their first overflow (`BeforeOverflow`). `EarlyInv`
  adds to `WindowInv` and `RecordsFollow` that the analysis has counted no overflow
  (`SetsEarly`). The scans over a window (`LargestCellIs`, `LargestTtsIs`) and the
  filter from window to window (`LastCycle`, `RetainedIs`) are inductions too.

`TimeWindowsOverflow` goes over any number of overflows. Which packets came after an
overflow is nowhere recorded: the analysis infers it from the stamps alone, and is
right only of a port that is busy enough. The theorems state how busy, as
hypotheses on the behaviour:

- `Current`: no register holds a record so long that its trimmed stamp could be that
  of a packet a period later.
- `Busy`: a set that is polled has its first window filled in this use of the
  quarter, and the use before began less than the threshold ago; or it is the set
  of a port that has not had a packet.

From them follow `OverflowsCountedOnce` (`RetainedTrue`) and `WindowsStayOrdered`
(`WindowsOrdered`). `NothingStaleRetained` (`SetFresh`) is of any traffic that keeps
records `Current`; what freshness needs of a set is the premise of the property
itself, that its first window was filled within the threshold (`StampsTell`) and that
from the beginning of the use before to its last packet more time passed than the
windows cover (`Outlasts`). It starts from the records' own invariants and the ages of
uses (`UseInv`), and from no set before being filtered right. The
inductive invariant `OverflowInv` says, beyond the records' own invariants, of which
use of its quarter each record is (`Uses`, `FirstUse`), and that `pre_largest_tts`
and `wrapping` together name a cell between the last two uses (`OverflowsKnown`).
The argument: of two moments less than half a period apart, the stamps tell which is
the later and whether an overflow lies between (`Later`). The cells of a filled
window are that near to each other, so the scan finds the latest
(`LargestCellNear`), and that is near to the latest of the set before, so an
overflow between two sets is counted once (`PollCounts`). From window to window the
filter goes one cycle back at a time, over an overflow or not
(`LargestTtsShift`, `LastCycleOver`), and what it keeps is a cycle named by its time
(`RetainedOver`). That is also why nothing stale is kept: what a window retains
lies within what the windows cover before the set's latest packet
(`WindowsReach`), and registers are never cleared, so nothing else hides an older
record. The run `TimeWindows` checks `OverflowInv`. A silence as long
as a use of a quarter is what the hypotheses are there to exclude, and of the shorter
ones of that run they exclude little: of the 226 332 states of the cascade and the
filter, 224 318 remain when a state without `Current` or `Busy` has no successors.
`OverflowInvariant` states the invariant itself, which the module of the queries
starts from.

`NothingMissing` (`Complete`) is the other direction: what a use of a quarter without
a silence recorded is there and is retained. It needs `NotAtZero`: a record of the
cell whose stamp is zero is taken for none by the cascade (`tts_r # 0`), so a use
that begins exactly at an overflow may lose its first cell in the second window; TLC
finds that when `Starts` is `2^TsBits`. The invariant `DenseInv` names the latest
cell that each window can hold at each moment (`Reached`) and says that from there
back to the beginning of the use, or as far as the window goes, every register
holds the record of its cell. A window can hold the next cell exactly when the one
before has just begun a cell that evicts the last of its parts
(`ReachedNext`); then that register holds the record one cycle older, by the
invariant, and the test of the cascade recognises it although its stamps are masked
(`PassedInUse`), so the record moves on (`EntersReached`). At the poll, packets a
cell apart (`Paced`) put the latest record of the first window at the moment before
the poll, and the filter keeps all of the last cycle (`LastCycleKept`). TLC checked
`DenseInv` in the states of the run where `Current`, `Busy` and `NotAtZero` hold.

`TimeWindowQueriesProofs` carries this on to what is asked of the sets. Each theorem
is of `QueriesSpec` under `Current` and `Busy`, over any number of sets, overflows and
intervals:

- `BoundsEnclose` (`SetBounds`): `sts` and `lts` enclose what a set retained, `sts`
  but for `Behind`, which is nothing with `ALPHA` = 1. The smallest cell is looked for
  in the deepest
  window that retains any, from the index after the latest on (`TW`:337-357); what
  has to be shown is that this is the earliest of all windows but for the half cell
  by which wider cells have a later middle (`OlderBehind`), and that its moment is
  counted with the right overflow though the time stamps of the set fall on both
  sides of one (`Describes`, `DescribedBounds`).
- `FiltersOfBothFormats` (`StaleAgrees`) and `QueriesOfOneWindow` (`WindowAlone`): in
  a set without an overflow between its cells, the filter of the earlier format, which
  has no masks, retains the same cells, and `TopK`'s query of the moments of one
  window counts no cell of another. Both also hold of any traffic, without
  `Current` and `Busy`, until the first overflow comes near:
  `EarlyFiltersOfBothFormats` and `EarlyQueriesOfOneWindow`.
- `QueriesCountOnce` (`CountedOnce`): a query over two sets, from a cell that is not
  before the `sts` of its set, counts each cell it asks for once. `retrieve` cuts it
  into pieces at the `lts` of the sets (`CutsAre` is its recursion in closed form).
  `SetsInv` says that each set is enclosed by its bounds and that all a set retains
  lies after the `lts` of the one before: that a use of a quarter begins after the use
  before has ended is known of the registers only (`Uses`), and the filter must not
  let anything older through (`LoadApart`).
- `SignalsFound` (`SignalsLocated`): a signal is put at the overflow it was recorded
  after, whichever cell near its time stamp `poll_signals` finds first. The search
  accepts a cell of an old window if its stamp is near modulo a period, so the windows
  must not reach back so far that a stamp comes round again: `SignalsTold`. As shipped
  (12 bits of cells, `TW0_TB` = 10, `ALPHA` = 1, `includes.p4`:193-196; a threshold
  of 5 cells, `TW`:91) the left side of it is below 2^28 and the right one 2^32.

- `EstimatesEnough` (`EstimateTrue`), also under `NotAtZero`, of a set that is fresh:
  from any retained cell to any later one, what `retrieve2` estimates is at least the
  length of the interval, and too much by less than a cell of the window after the
  last. With `TW0_z` = 1, the default (`TW`:28), each coefficient is what one cell
  lasts (`CoefficientsAre`). By `Complete`, a query counts all the cells of a window
  between the first and the last it asks for, down to the window its interval begins in
  (`AskedAtLeast`), and no others (`AskedAtMost`). A window ends, within a cell of it,
  where the cycle of the one before begins (`WindowsMeet`), and never before it. So
  the cells counted, put end to end from the last moment back, leave nothing of the
  interval out (`EstimateNoLess`), and what they cover twice telescopes to less than
  the oldest cell (`EstimateLittleMore`); of windows older than the first cell's, the
  middles can bring in one cell each at most. Both are inductions over the windows. Of
  sparser traffic (`TW0_z` < 1, as in every documented command) the estimates are an
  expectation, and nothing is promised of one query.

`BoundsEnclose`, `QueriesCountOnce` and `EstimatesEnough` take it that `ALPHA <= k`: a
cell is no longer than the whole cycle of the window before. The program is shipped with
`k` = 12 (`includes.p4`:193) and documented with `alpha` of 1 to 3. Only
`QueriesOfOneWindow` and `EarlyQueriesOfOneWindow` are of `ALPHA` = 1: `TopK`, the one
caller of that query, passes no other (`GT`:613), and with windows four times as
coarse a middle of one window may lie among the cells of another. `PowersOfOne` (every
power of one is one, and of zero zero, but the zeroth) is the same kind of hypothesis
as `PowersOfTwo`.

`ComparisonProofs` proves `SamplesTrue`: `Spec => []SampleTrue`, for any levels, any
number to draw and any depths. The loop of a level ends only at its number, so what
has to be shown is that the levels before the current one keep theirs, and that the
bisection of the thresholds puts a depth where it belongs (`LevelHolds`).

`SeriesAddUp` is `Spec => []SeriesAgree`, for any traffic, periods and flows. A sum
over a set is the fold of the community modules over a CHOSEN order, so what it adds
up to is first proved by induction over the subsets of a finite set, given as the set
of those for which it holds (`Subsets`): `Sums` unfolds one element, and from it come
`SumMonotone`, `SumParts` (a sum by parts) and the rest. `PeriodsAre` puts the loop
of `draw_flow_distribution` in closed form: although it goes on while the next end
lies before the last packet and moves on by a truncated width, there are exactly as
many periods as asked for, and the last ends at most one nanosecond too early.
`SeriesAre` says that a flow's series, which is begun late and filled with zeros, is
its count of every period.

The sketches are proved about for any trace, any hash functions and tables of any
size, from one inductive invariant, `SketchInv`:

- `PipeNeverAbove` (`PipeBelow`). A packet's way through the stages is an induction:
  what the cells hold of a flow and what is carried of it never grows together but
  by the packet itself (`NextStage`), whoever is swapped out, and what the last stage
  drops is only lost. A flow may be in several cells, so what is held is a sum over
  all of them (`Held`). `Alone` says that no other flow ever comes to the first cell
  of a flow that shares it with none.
- `CountMinNeverBelow` (`CountMinAbove`): a cell holds at least the flow's packets
  (`CountMinCell`) and exactly those if it is the flow's own, and the query is the
  least of the rows (`SmallestOf`).
- `RadarFinds` (`RadarReal`): at every moment the cells count some set of pairs of a
  flow and a hash function (`Counts`), three pairs of each flow not yet found,
  although a flow whose hash functions coincide counts twice in one cell and cancels
  itself in its exclusive or. A cell that counts one has the flow of its one pair
  (`Lone`), so only flows of the trace are taken out, whole, and never twice; and a
  round that is not the last finds one of finitely many (`Progress`, `ScansEnd`). It
  needs nothing of the bits that decide whether a flow is new: a flow wrongly taken
  for old is only never counted. Of the numbers of packets nothing is said, for they
  are wrong (`TW`:801-803).
- `ScoresOfBoth` (`ScoresTrue`): hits are a sum over the flows of both answers, each
  without its last (`Hits`, `Parts`), and flow by flow the lesser of the two numbers
  is that of HashPipe, or the truth for Count-Min.

`Recursion` has the lemmas these modules share. The library's induction theorems
take an operator as a parameter, which the provers cannot instantiate; the lemmas
`Least`, `Induction` and `InductionUpTo` say the same of a set of numbers, to which
an invariant is given as the set where it holds. `Recursion` says that a function
given by recursion over an interval of numbers exists and has the value its
definition gives, and the rest is division with remainder.

Model-checked only:

- Liveness (`AnsweredUnlessForgotten`, `SignalsReceived`, `SamplingEnds`), which the
  prover cannot treat.
- `RetainedTrue`, `WindowsOrdered`, `Complete` and what the queries ask of the sets, for
  the sparse traffic that the hypotheses leave out, as far as `TimeWindows` and
  `WideCells` reach it. After a silence as long as a use of a quarter `RetainedTrue`,
  `SignalsLocated` and `CountedOnce` do not hold in general, as said above.

## Not modelled

Start-up, ingress and parser run once or keep no state; the shape of their results
is in the constants. The schedule of polls and shutdown are planned. The receiver
is modelled for one lcore, as `run.sh` starts it; several would share one buffer
and one counter, of which nothing is promised. Of the analysis: plots, the layout
of files and the saving of filtered sets keep no state; queue depths and averages
are copied; the earlier format has the layout of two pipes, which is left out. The
traffic generator and the scripts keep no state either.

Hazards without a property, besides those of the parts above. The two stores that
announce a slot swapped or far apart (`C`:643): only `PollAlone` has them, and of
queries see "Disagreements found". After an overflow the later
windows lack the cycle before (`P4`:275). `wrap[]` is set in the middle of a poll
(`C`:636), and an empty file empties the stack (`QueueMonitor.py`:131): `StackTrue`
excuses these. The earlier loader misses an overflow between files (`GT`:389):
`StaleTrue` excuses it. A level with fewer packets than asked for is drawn from for
ever (`GT`:465): `SamplingEnds` has enough of them as its premise.

## Plan

In the order of what matters most:

1. The end of the experiment and shutdown, with the thread that is joined while it
   blocks.
2. `PollSchedule`: the timers of the main loop in discrete time: is every quarter
   polled before its windows are full, does a query ever get its turn.
3. `RegisterBanks`: the index of a cell from port, bits and time stamp; that ports
   and banks are disjoint for the shifts and sizes of `includes.p4`, and when they
   are not; proved as lemmas over the constants.
4. `SignalRing`: head and tail as the code has them, shown to implement the
   sequence of `DataPlaneQuery`, wrap-around included.
5. `TimeWindows`: which traffic short of `Busy` counts no overflow that did not
   happen; how much of the cycle before the later windows lose over an overflow.
6. Proofs: what sparse traffic keeps of the filter and the queries; the safety part
   of `AnsweredUnlessForgotten` for any number of ports.
