---------------------------- MODULE GroundTruth ----------------------------
(***************************************************************************)
(* The ground truth of one port (GroundTruth.py).  The switch writes the   *)
(* enqueue and the dequeue moment of a packet into it as stamps that       *)
(* overflow, the receiver stores the stamps in files of MAX_COUNT records  *)
(* (DPDK_receive_pkt/main.c), and the loader counts the overflows again.   *)
(* Here a record is loaded as it is stored, from the first on.             *)
(*                                                                         *)
(* A record is compared with the one before: a stamp that fell by more     *)
(* than Threshold has overflowed, one that fell by less is dropped as out  *)
(* of order, and a dequeue before its enqueue has overflowed as well.      *)
(* mishap names the first thing that this cannot make up for.              *)
(***************************************************************************)
EXTENDS Integers

CONSTANTS
  Cycle,      \* where a stamp overflows: 2^32
  Threshold,  \* a fall by more is an overflow: 4000000000
  MAX_COUNT,  \* the records of a file
  first_K,    \* how many records are skipped at first
  Starts,     \* when the first packet may be enqueued
  Gaps,       \* how long after a packet the next may be dequeued
  Delays,     \* how long a packet may be queued
  MaxRecords, \* bounds the records modelled
  Events      \* what happens besides packets that report their moments

ASSUME LoaderAssumption ==
  /\ Cycle \in Nat \ {0} /\ Threshold \in 0 .. Cycle - 1
  /\ MAX_COUNT \in Nat \ {0} /\ first_K \in Nat
  /\ Starts \subseteq 0 .. Cycle - 1
  /\ Gaps \subseteq 0 .. Cycle - 1 /\ Delays \subseteq 0 .. Cycle - 1
  /\ \A gap \in Gaps, delay \in Delays : gap + delay < Cycle
  /\ MaxRecords \in Nat
  /\ Events \subseteq {"other frame"}

VARIABLES
  packet,   \* the last: its moments, as if they never overflowed, and stamps
  records,  \* stored so far
  first,    \* skipped so far
  base_enqueue, base_dequeue,  \* the overflows counted, as moments
  p_eqts, p_dqts,              \* the moments of the record before
  fate,     \* whether the last record was passed over, loaded or dropped
  origin,   \* what loaded moments count from
  stale,    \* the loader of the earlier format: its base and p_dqts, its
            \* origin, and whether it has met an overflow it does not look for
  mishap    \* the first event that the loader cannot make up for; a frame of
            \* another among the records it loads gives way to any other

loader == <<first, base_enqueue, base_dequeue, p_eqts, p_dqts, fate>>
vars == <<packet, records, loader, origin, stale, mishap>>

NoOrigin == 1  \* origins are multiples of Cycle
None     == "none"

\* A stamp some time later, and whether it overflowed meanwhile.
Stamp(ts, gap)     == (ts + gap) % Cycle
Overflows(ts, gap) == ts + gap >= Cycle

\* The first record of the first file.
Init ==
  /\ \E e \in Starts, delay \in Delays :
       packet = [e |-> e, d |-> e + delay, ets |-> e, dts |-> Stamp(e, delay)]
  /\ records = 1
  /\ first = 0
  /\ base_enqueue = 0
  /\ base_dequeue = IF packet.ets > packet.dts THEN Cycle ELSE 0
  /\ p_eqts = packet.ets
  /\ p_dqts = base_dequeue + packet.dts
  /\ fate = "passed over"
  /\ origin = NoOrigin
  /\ stale = [base |-> 0, p_dqts |-> packet.dts, origin |-> NoOrigin,
              lost |-> FALSE]
  /\ mishap = None

----------------------------------------------------------------------------
\* The three places in which a record is read, with its stamps.

FirstOfFile == records % MAX_COUNT = 0
Skipping    == ~FirstOfFile /\ first < first_K
Loading     == ~FirstOfFile /\ first >= first_K

ReadFirst(dts, ets) ==
  /\ FirstOfFile
  /\ base_dequeue' = IF base_enqueue + ets > base_dequeue + dts
                       THEN base_dequeue + Cycle ELSE base_dequeue
  /\ p_dqts' = base_dequeue' + dts
  /\ p_eqts' = base_enqueue + ets
  /\ fate' = "passed over"
  /\ UNCHANGED <<first, base_enqueue>>

Skip(dts, ets) ==
  /\ Skipping
  /\ first' = first + 1
  /\ p_dqts' = base_dequeue + dts
  /\ p_eqts' = base_enqueue + ets
  /\ fate' = "passed over"
  /\ UNCHANGED <<base_enqueue, base_dequeue>>

\* How the moment ts compares with the one before, p.
Overflowed(p, ts) == ts < p /\ p - ts > Threshold
Backwards(p, ts)  == ts < p /\ p - ts <= Threshold

\* An overflow counted for the enqueue moment and for the record before.
DequeueBase_Twice(dts, eqts) ==
  LET ahead == IF eqts > base_dequeue + dts
                 THEN base_dequeue + Cycle ELSE base_dequeue
  IN IF Overflowed(p_dqts, base_dequeue + dts) THEN ahead + Cycle ELSE ahead

\* base_dequeue for a record whose enqueue moment is eqts.
DequeueBase(dts, eqts) ==
  LET ahead == IF eqts > base_dequeue + dts
                 THEN base_dequeue + Cycle ELSE base_dequeue
  IN IF Overflowed(p_dqts, ahead + dts) THEN ahead + Cycle ELSE ahead

\* A record dropped for its enqueue stamp has moved base_dequeue already.
Load(dts, ets) ==
  LET eqts  == base_enqueue + ets
      based == DequeueBase(dts, eqts)
      dqts  == based + dts
      inOrder == ~Backwards(p_dqts, dqts)
      basee == IF inOrder /\ Overflowed(p_eqts, eqts)
                 THEN base_enqueue + Cycle ELSE base_enqueue
  IN
  /\ Loading
  /\ base_dequeue' = based
  /\ base_enqueue' = basee
  /\ IF inOrder /\ ~Backwards(p_eqts, basee + ets)
       THEN /\ fate' = "loaded"
            /\ p_dqts' = dqts
            /\ p_eqts' = basee + ets
       ELSE /\ fate' = "dropped"
            /\ UNCHANGED <<p_dqts, p_eqts>>
  /\ UNCHANGED first

\* A first record of a file that starts from its stamp alone.
ReadStale_Rebased(dts, seen) ==
  LET base == IF FirstOfFile THEN 0
              ELSE IF Loading /\ stale.base + dts < stale.p_dqts
                THEN stale.base + Cycle ELSE stale.base
  IN stale' = [base |-> base, p_dqts |-> base + dts,
               origin |-> IF Loading /\ stale.origin = NoOrigin
                            THEN base + dts - packet'.d ELSE stale.origin,
               lost |-> stale.lost \/ ~seen]

\* The same in the earlier format: dequeue moments only, and any fall is an
\* overflow, but between files and of other frames (seen).
ReadStale(dts, seen) ==
  LET base == IF Loading /\ stale.base + dts < stale.p_dqts
                THEN stale.base + Cycle ELSE stale.base
  IN stale' = [base |-> base, p_dqts |-> base + dts,
               origin |-> IF Loading /\ stale.origin = NoOrigin
                            THEN base + dts - packet'.d ELSE stale.origin,
               lost |-> stale.lost \/ ~seen]

Read(dts, ets) ==
  /\ records < MaxRecords
  /\ records' = records + 1
  /\ ReadFirst(dts, ets) \/ Skip(dts, ets) \/ Load(dts, ets)

----------------------------------------------------------------------------
\* What goes wrong with a packet dequeued gap, and enqueued egap, after the last:
\* an overflow that is not looked for, or not told from a record out of order.
Mishap(gap, egap) ==
  LET Silent(g) == g >= Cycle - Threshold
      d == Overflows(packet.dts, gap)
      e == Overflows(packet.ets, egap)
  IN IF mishap \notin {None, "other frame"} THEN mishap
     ELSE IF FirstOfFile /\ e THEN "first of a file"
     ELSE IF Skipping /\ d # e THEN "skipped"
     ELSE IF Loading /\ e /\ (Silent(egap) \/ (d /\ Silent(gap))) THEN "silence"
     ELSE mishap

\* A packet leaves the queue, which is first in, first out, and is stored.
Packet ==
  \E gap \in Gaps, delay \in Delays :
    LET egap == packet.d + gap - delay - packet.e IN
    /\ egap >= 0
    /\ packet' = [e |-> packet.e + egap, d |-> packet.d + gap,
                  ets |-> Stamp(packet.ets, egap), dts |-> Stamp(packet.dts, gap)]
    /\ Read(packet'.dts, packet'.ets)
    /\ ReadStale(packet'.dts, ~(FirstOfFile /\ Overflows(packet.dts, gap)))
    /\ origin' = IF fate' = "loaded" /\ origin = NoOrigin
                   THEN p_dqts' - packet'.d ELSE origin
    /\ mishap' = Mishap(gap, egap)

\* A frame without the header is counted, and its record left zero.
OtherFrame ==
  /\ "other frame" \in Events
  /\ UNCHANGED packet
  /\ Read(0, 0)
  /\ ReadStale(0, FALSE)
  /\ UNCHANGED origin
  /\ mishap' = IF mishap \notin {None, "other frame"} THEN mishap
               ELSE IF Loading THEN "other frame" ELSE "other frame passed over"

Next == Packet \/ OtherFrame

Spec == Init /\ [][Next]_vars

----------------------------------------------------------------------------
\* Without a mishap, what is loaded is true: enqueue and dequeue moments count
\* from one origin, over overflows of either stamp and from file to file.
LoadedTrue ==
  mishap = None /\ fate = "loaded" =>
    /\ p_dqts = packet.d + origin
    /\ p_eqts = packet.e + origin

\* ... and no packet is dropped as out of order.
NothingDropped == mishap = None => fate # "dropped"

\* The earlier loader knows no Threshold and no silence: it is right as long as
\* every fall it compares is an overflow.
StaleTrue ==
  ~stale.lost /\ stale.origin # NoOrigin => stale.p_dqts = packet.d + stale.origin

\* EndHosts/README.md:39: the receiver "stores the dequeue timestamp, enqueue
\* timestamp, queue depth at enqueue time, and packet's flow ID", and of no other
\* frame: where frames of others are all that goes wrong, and come among the
\* records the loader compares in full, what is loaded of packets stays true.
OtherFramesHarmless ==
  [][/\ packet' # packet /\ fate' = "loaded"
     /\ mishap' \in {None, "other frame"}
     => /\ p_dqts' = packet'.d + origin'
        /\ p_eqts' = packet'.e + origin']_vars
=============================================================================
