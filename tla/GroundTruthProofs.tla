------------------------- MODULE GroundTruthProofs -------------------------
(***************************************************************************)
(* For every clock, threshold and file size: what the loaders of           *)
(* GroundTruth load is true.                                               *)
(***************************************************************************)
EXTENDS GroundTruth, TLAPS

TypeOK ==
  /\ packet \in [e : Int, d : Int, ets : 0 .. Cycle - 1, dts : 0 .. Cycle - 1]
  /\ records \in Nat /\ first \in Nat
  /\ base_enqueue \in Int /\ base_dequeue \in Int
  /\ p_eqts \in Int /\ p_dqts \in Int /\ origin \in Int
  /\ stale \in [base : Int, p_dqts : Int, origin : Int, lost : BOOLEAN]

EGap(gap, delay) == packet.d + gap - delay - packet.e

Queued == packet.d - packet.e \in Delays

\* The record before was read with the bases as they are, and its delay is true;
\* once a record was loaded, all that are read count from its origin.
LoaderInv ==
  mishap = None =>
    /\ fate # "dropped"
    /\ p_dqts = base_dequeue + packet.dts
    /\ p_eqts = base_enqueue + packet.ets
    /\ p_dqts - p_eqts = packet.d - packet.e
    /\ first < first_K => origin = NoOrigin
    /\ origin # NoOrigin => p_dqts = packet.d + origin
    /\ fate = "loaded" => p_dqts = packet.d + origin

StaleInv ==
  /\ first < first_K => stale.origin = NoOrigin
  /\ ~stale.lost =>
       /\ stale.p_dqts = stale.base + packet.dts
       /\ stale.origin # NoOrigin => stale.p_dqts = packet.d + stale.origin

Inv == TypeOK /\ Queued /\ LoaderInv /\ StaleInv

\* A stamp moves on by the gap, and back by a cycle if it overflows.
LEMMA StampMoves ==
  ASSUME NEW ts \in 0 .. Cycle - 1, NEW gap \in Nat, gap < Cycle
  PROVE  /\ Stamp(ts, gap) \in 0 .. Cycle - 1
         /\ Stamp(ts, gap) = IF Overflows(ts, gap) THEN ts + gap - Cycle
                             ELSE ts + gap
<1>1. Cycle \in Nat \ {0}  BY LoaderAssumption DEF LoaderAssumption
<1>2. CASE Overflows(ts, gap)
  <2>1. ts + gap = (ts + gap - Cycle) + Cycle  BY <1>1
  <2>2. (ts + gap) % Cycle = ts + gap - Cycle  BY <1>1, <1>2 DEF Overflows
  <2> QED  BY <1>1, <1>2, <2>2 DEF Overflows, Stamp
<1>3. CASE ~Overflows(ts, gap)
  <2>2. (ts + gap) % Cycle = ts + gap  BY <1>1, <1>3 DEF Overflows
  <2> QED  BY <1>1, <1>3, <2>2 DEF Overflows, Stamp
<1> QED  BY <1>2, <1>3

LEMMA InitInv == Init => Inv
<1> SUFFICES ASSUME Init PROVE Inv  OBVIOUS
<1>1. /\ Cycle \in Nat \ {0} /\ first_K \in Nat
      /\ Starts \subseteq 0 .. Cycle - 1 /\ Delays \subseteq 0 .. Cycle - 1
  BY LoaderAssumption DEF LoaderAssumption
<1>2. PICK e \in Starts, delay \in Delays :
        packet = [e |-> e, d |-> e + delay, ets |-> e, dts |-> Stamp(e, delay)]
  BY DEF Init
<1>3. /\ e \in 0 .. Cycle - 1 /\ delay \in Nat /\ delay < Cycle
  BY <1>1
<1>4. /\ packet.e = e /\ packet.d = e + delay /\ packet.ets = e
      /\ packet.dts \in 0 .. Cycle - 1
      /\ packet.dts = IF Overflows(e, delay) THEN e + delay - Cycle ELSE e + delay
  BY <1>2, <1>3, StampMoves
<1>5. /\ records = 1 /\ first = 0 /\ base_enqueue = 0 /\ p_eqts = e
      /\ base_dequeue = IF e > packet.dts THEN Cycle ELSE 0
      /\ p_dqts = base_dequeue + packet.dts
      /\ origin = NoOrigin
      /\ stale = [base |-> 0, p_dqts |-> packet.dts, origin |-> NoOrigin,
                  lost |-> FALSE]
  BY <1>4 DEF Init
<1>6. base_dequeue \in Int /\ p_dqts \in Int
  BY <1>1, <1>3, <1>4, <1>5
<1>7. TypeOK
  <2>1. packet \in [e : Int, d : Int, ets : 0 .. Cycle - 1, dts : 0 .. Cycle - 1]
    BY <1>2, <1>3, <1>4
  <2>2. stale \in [base : Int, p_dqts : Int, origin : Int, lost : BOOLEAN]
    <3>1. packet.dts \in Int /\ NoOrigin \in Int /\ FALSE \in BOOLEAN
      BY <1>1, <1>4 DEF NoOrigin
    <3> QED  BY <1>5, <3>1
  <2> QED  BY <1>3, <1>5, <1>6, <2>1, <2>2 DEF TypeOK, NoOrigin
<1>8. Queued  BY <1>3, <1>4 DEF Queued
<1>9. LoaderInv
  <2>1. p_dqts - p_eqts = packet.d - packet.e
    <3>1. CASE Overflows(e, delay)
      BY <1>1, <1>3, <1>4, <1>5, <3>1 DEF Overflows
    <3>2. CASE ~Overflows(e, delay)
      BY <1>1, <1>3, <1>4, <1>5, <3>2 DEF Overflows
    <3> QED  BY <3>1, <3>2
  <2>2. p_eqts = base_enqueue + packet.ets
    BY <1>3, <1>4, <1>5
  <2>3. fate # "dropped" /\ fate # "loaded"  BY DEF Init
  <2> QED  BY <1>5, <2>1, <2>2, <2>3 DEF LoaderInv
<1>10. StaleInv
  <2>1. stale.p_dqts = stale.base + packet.dts /\ stale.origin = NoOrigin
    BY <1>1, <1>4, <1>5
  <2> QED  BY <2>1 DEF StaleInv
<1> QED  BY <1>7, <1>8, <1>9, <1>10 DEF Inv

----------------------------------------------------------------------------
\* What the next packet looks like.
LEMMA PacketMoves ==
  ASSUME TypeOK, Queued, NEW gap \in Gaps, NEW delay \in Delays,
         EGap(gap, delay) >= 0,
         packet' = [e |-> packet.e + EGap(gap, delay), d |-> packet.d + gap,
                    ets |-> Stamp(packet.ets, EGap(gap, delay)),
                    dts |-> Stamp(packet.dts, gap)]
  PROVE  /\ gap \in Nat /\ gap < Cycle
         /\ EGap(gap, delay) \in Nat /\ EGap(gap, delay) < Cycle
         /\ packet' \in [e : Int, d : Int, ets : 0 .. Cycle - 1,
                         dts : 0 .. Cycle - 1]
         /\ packet'.d = packet.d + gap
         /\ packet'.e = packet.e + EGap(gap, delay)
         /\ packet'.d - packet'.e = delay
         /\ packet'.dts = IF Overflows(packet.dts, gap)
                            THEN packet.dts + gap - Cycle ELSE packet.dts + gap
         /\ packet'.ets = IF Overflows(packet.ets, EGap(gap, delay))
                            THEN packet.ets + EGap(gap, delay) - Cycle
                            ELSE packet.ets + EGap(gap, delay)
<1> DEFINE eg == EGap(gap, delay)
<1>1. Cycle \in Nat \ {0}  BY LoaderAssumption DEF LoaderAssumption
<1>2. /\ gap \in Nat /\ gap < Cycle /\ delay \in Nat
      /\ packet.d - packet.e \in Nat /\ gap + (packet.d - packet.e) < Cycle
  <2>1. /\ Gaps \subseteq 0 .. Cycle - 1 /\ Delays \subseteq 0 .. Cycle - 1
        /\ gap + (packet.d - packet.e) < Cycle
    BY LoaderAssumption DEF LoaderAssumption, Queued
  <2>2. /\ gap \in 0 .. Cycle - 1 /\ delay \in 0 .. Cycle - 1
        /\ packet.d - packet.e \in 0 .. Cycle - 1
    BY <2>1 DEF Queued
  <2> QED  BY <1>1, <2>1, <2>2
<1>3. /\ packet.d \in Int /\ packet.e \in Int
      /\ packet.ets \in 0 .. Cycle - 1 /\ packet.dts \in 0 .. Cycle - 1
  BY DEF TypeOK
<1>4. eg \in Nat /\ eg < Cycle  BY <1>1, <1>2, <1>3 DEF EGap
<1>5. /\ Stamp(packet.dts, gap) \in 0 .. Cycle - 1
      /\ Stamp(packet.dts, gap) = IF Overflows(packet.dts, gap)
           THEN packet.dts + gap - Cycle ELSE packet.dts + gap
  BY <1>2, <1>3, StampMoves
<1>6. /\ Stamp(packet.ets, eg) \in 0 .. Cycle - 1
      /\ Stamp(packet.ets, eg) = IF Overflows(packet.ets, eg)
           THEN packet.ets + eg - Cycle ELSE packet.ets + eg
  BY <1>3, <1>4, StampMoves
<1>7. packet'.d - packet'.e = delay  BY <1>2, <1>3 DEF EGap
<1> QED  BY <1>2, <1>3, <1>4, <1>5, <1>6, <1>7

\* A packet, read with the others of its step.
Arrives(gap, delay) ==
  /\ EGap(gap, delay) >= 0
  /\ packet' = [e |-> packet.e + EGap(gap, delay), d |-> packet.d + gap,
                ets |-> Stamp(packet.ets, EGap(gap, delay)),
                dts |-> Stamp(packet.dts, gap)]
  /\ origin' = IF fate' = "loaded" /\ origin = NoOrigin
                 THEN p_dqts' - packet'.d ELSE origin
  /\ mishap' = Mishap(gap, EGap(gap, delay))

\* The first record of a file is read like one in order, but for an overflow of
\* its enqueue stamp.
LEMMA FirstKeeps ==
  ASSUME Inv, NEW gap \in Gaps, NEW delay \in Delays, Arrives(gap, delay),
         ReadFirst(packet'.dts, packet'.ets)
  PROVE  LoaderInv'
<1> DEFINE eg == EGap(gap, delay)
<1>1. TypeOK /\ Queued /\ LoaderInv  BY DEF Inv
<1>2. /\ gap \in Nat /\ gap < Cycle /\ eg \in Nat /\ eg < Cycle
      /\ packet'.d = packet.d + gap /\ packet'.e = packet.e + eg
      /\ packet'.d - packet'.e = delay
      /\ packet'.dts = IF Overflows(packet.dts, gap)
                         THEN packet.dts + gap - Cycle ELSE packet.dts + gap
      /\ packet'.ets = IF Overflows(packet.ets, eg)
                         THEN packet.ets + eg - Cycle ELSE packet.ets + eg
  BY <1>1, PacketMoves DEF Arrives
<1>3. Cycle \in Nat \ {0} /\ delay \in 0 .. Cycle - 1
  BY LoaderAssumption DEF LoaderAssumption
<1>4. SUFFICES ASSUME mishap' = None PROVE LoaderInv'
  BY DEF LoaderInv
<1>5. mishap = None /\ ~Overflows(packet.ets, eg)
  BY <1>4 DEF Arrives, Mishap, ReadFirst, None
<1>6. /\ p_dqts' = base_dequeue' + packet'.dts
      /\ p_eqts' = base_enqueue + packet'.ets
      /\ base_dequeue' = IF base_enqueue + packet'.ets > base_dequeue + packet'.dts
                           THEN base_dequeue + Cycle ELSE base_dequeue
      /\ base_enqueue' = base_enqueue
      /\ first' = first /\ origin' = origin
  BY DEF ReadFirst, Arrives
<1>7. /\ p_dqts = base_dequeue + packet.dts
      /\ p_eqts = base_enqueue + packet.ets
      /\ p_dqts - p_eqts = packet.d - packet.e
      /\ first < first_K => origin = NoOrigin
      /\ origin # NoOrigin => p_dqts = packet.d + origin
  BY <1>1, <1>5 DEF LoaderInv
<1>8. /\ base_dequeue \in Int /\ base_enqueue \in Int
      /\ packet.d \in Int /\ packet.e \in Int /\ origin \in Int
      /\ packet.dts \in 0 .. Cycle - 1 /\ packet.ets \in 0 .. Cycle - 1
  BY <1>1 DEF TypeOK
<1>9. p_eqts' = p_eqts + eg
  BY <1>2, <1>5, <1>6, <1>7, <1>8
<1>10. p_dqts' = p_dqts + gap
  <2>1. /\ base_enqueue + packet'.ets = p_dqts - (packet.d - packet.e) + eg
        /\ eg = gap + (packet.d - packet.e) - delay
    BY <1>2, <1>3, <1>5, <1>7, <1>8
  <2>2. CASE Overflows(packet.dts, gap)
    <3>1. base_dequeue + packet'.dts = p_dqts + gap - Cycle
      BY <1>2, <1>3, <1>7, <1>8, <2>2
    <3>2. base_enqueue + packet'.ets = p_dqts + gap - delay
      BY <1>2, <1>3, <1>7, <1>8, <2>1
    <3>3. base_dequeue' = base_dequeue + Cycle
      BY <1>2, <1>3, <1>6, <1>7, <1>8, <3>1, <3>2
    <3> QED  BY <1>2, <1>3, <1>6, <1>8, <3>1, <3>3, <1>7
  <2>3. CASE ~Overflows(packet.dts, gap)
    <3>1. base_dequeue + packet'.dts = p_dqts + gap
      BY <1>2, <1>3, <1>7, <1>8, <2>3
    <3>2. base_enqueue + packet'.ets = p_dqts + gap - delay
      BY <1>2, <1>3, <1>7, <1>8, <2>1
    <3>3. base_dequeue' = base_dequeue
      BY <1>2, <1>3, <1>6, <1>7, <1>8, <3>1, <3>2
    <3> QED  BY <1>6, <3>1, <3>3
  <2> QED  BY <2>2, <2>3
<1>11. p_dqts' - p_eqts' = packet'.d - packet'.e
  BY <1>2, <1>6, <1>7, <1>8, <1>9, <1>10
<1>12. origin' # NoOrigin => p_dqts' = packet'.d + origin'
  BY <1>2, <1>6, <1>7, <1>8, <1>10
<1>13. fate' # "dropped" /\ fate' # "loaded"  BY DEF ReadFirst
<1> QED
  BY <1>6, <1>7, <1>11, <1>12, <1>13 DEF LoaderInv

\* Overflows of both stamps or of none leave a skipped record's delay true.
LEMMA SkipKeeps ==
  ASSUME Inv, NEW gap \in Gaps, NEW delay \in Delays, Arrives(gap, delay),
         Skip(packet'.dts, packet'.ets)
  PROVE  LoaderInv'
<1> DEFINE eg == EGap(gap, delay)
<1>1. TypeOK /\ Queued /\ LoaderInv  BY DEF Inv
<1>2. /\ gap \in Nat /\ gap < Cycle /\ eg \in Nat /\ eg < Cycle
      /\ packet'.d = packet.d + gap /\ packet'.e = packet.e + eg
      /\ packet'.dts = IF Overflows(packet.dts, gap)
                         THEN packet.dts + gap - Cycle ELSE packet.dts + gap
      /\ packet'.ets = IF Overflows(packet.ets, eg)
                         THEN packet.ets + eg - Cycle ELSE packet.ets + eg
  BY <1>1, PacketMoves DEF Arrives
<1>3. Cycle \in Nat \ {0}  BY LoaderAssumption DEF LoaderAssumption
<1>4. SUFFICES ASSUME mishap' = None PROVE LoaderInv'
  BY DEF LoaderInv
<1>5. mishap = None /\ Overflows(packet.dts, gap) = Overflows(packet.ets, eg)
  BY <1>4 DEF Arrives, Mishap, Skip, None, Skipping, FirstOfFile, Overflows
<1>6. /\ first < first_K /\ first' = first + 1
      /\ origin = NoOrigin /\ origin' = origin /\ fate' = "passed over"
  BY <1>1, <1>5 DEF LoaderInv, Skip, Skipping, Arrives
<1>7. p_dqts' - p_eqts' = packet'.d - packet'.e
  <2>1. /\ p_dqts' = base_dequeue + packet'.dts
        /\ p_eqts' = base_enqueue + packet'.ets
        /\ p_dqts = base_dequeue + packet.dts
        /\ p_eqts = base_enqueue + packet.ets
        /\ p_dqts - p_eqts = packet.d - packet.e
    BY <1>1, <1>5 DEF Skip, LoaderInv
  <2>2. /\ base_dequeue \in Int /\ base_enqueue \in Int
        /\ packet.d \in Int /\ packet.e \in Int
        /\ packet.dts \in Int /\ packet.ets \in Int
    BY <1>1, <1>3 DEF TypeOK
  <2>3. CASE Overflows(packet.dts, gap)
    BY <1>2, <1>3, <1>5, <2>1, <2>2, <2>3
  <2>4. CASE ~Overflows(packet.dts, gap)
    BY <1>2, <1>3, <1>5, <2>1, <2>2, <2>4
  <2> QED  BY <2>3, <2>4
<1> QED
  BY <1>6, <1>7 DEF LoaderInv, Skip

\* Whichever stamps overflow, the moments loaded move on by the true gaps.
LEMMA LoadKeeps ==
  ASSUME Inv, NEW gap \in Gaps, NEW delay \in Delays, Arrives(gap, delay),
         Load(packet'.dts, packet'.ets)
  PROVE  LoaderInv'
<1> DEFINE eg == EGap(gap, delay)
<1>1. TypeOK /\ Queued /\ LoaderInv  BY DEF Inv
<1>2. /\ gap \in Nat /\ gap < Cycle /\ eg \in Nat /\ eg < Cycle
      /\ packet'.d = packet.d + gap /\ packet'.e = packet.e + eg
      /\ packet'.d - packet'.e = delay
      /\ packet'.dts = IF Overflows(packet.dts, gap)
                         THEN packet.dts + gap - Cycle ELSE packet.dts + gap
      /\ packet'.ets = IF Overflows(packet.ets, eg)
                         THEN packet.ets + eg - Cycle ELSE packet.ets + eg
  BY <1>1, PacketMoves DEF Arrives
<1>3. /\ Cycle \in Nat \ {0} /\ Threshold \in 0 .. Cycle - 1
      /\ delay \in 0 .. Cycle - 1
  BY LoaderAssumption DEF LoaderAssumption
<1>4. SUFFICES ASSUME mishap' = None PROVE LoaderInv'
  BY DEF LoaderInv
<1>5. /\ mishap = None
      /\ Overflows(packet.ets, eg) =>
           /\ Cycle - eg > Threshold
           /\ Overflows(packet.dts, gap) => Cycle - gap > Threshold
  <2>1. mishap' = Mishap(gap, eg) /\ ~FirstOfFile /\ Loading
    BY DEF Arrives, Load, Loading
  <2>2. mishap = None
    BY <1>4 DEF Arrives, Mishap, None
  <2>3. Overflows(packet.ets, eg) =>
          ~(eg >= Cycle - Threshold)
            /\ (Overflows(packet.dts, gap) => ~(gap >= Cycle - Threshold))
    BY <1>1, <1>3, <1>4, <2>1, <2>2 DEF Mishap, Skipping, Loading, TypeOK, None
  <2> QED
    BY <1>2, <1>3, <2>2, <2>3
<1> DEFINE eqts  == base_enqueue + packet'.ets
           ahead == IF eqts > base_dequeue + packet'.dts
                      THEN base_dequeue + Cycle ELSE base_dequeue
           based == IF Overflowed(p_dqts, ahead + packet'.dts)
                      THEN ahead + Cycle ELSE ahead
           dqts  == based + packet'.dts
           inOrder == ~Backwards(p_dqts, dqts)
           basee == IF inOrder /\ Overflowed(p_eqts, eqts)
                      THEN base_enqueue + Cycle ELSE base_enqueue
<1>6. dqts = p_dqts + gap /\ based \in Int
  BY <1>1, <1>2, <1>3, <1>5
  DEF LoaderInv, TypeOK, Overflows, Overflowed, Queued
<1>7. inOrder  BY <1>1, <1>2, <1>6 DEF Backwards, TypeOK
<1>8. basee + packet'.ets = p_eqts + eg /\ basee \in Int
  BY <1>1, <1>2, <1>3, <1>5, <1>7
  DEF LoaderInv, TypeOK, Overflows, Overflowed
<1>9. ~Backwards(p_eqts, basee + packet'.ets)
  BY <1>1, <1>2, <1>8 DEF Backwards, TypeOK
<1>10. /\ base_dequeue' = based /\ base_enqueue' = basee
       /\ fate' = "loaded" /\ p_dqts' = dqts /\ p_eqts' = basee + packet'.ets
       /\ first' = first /\ ~(first < first_K)
  <2>1. first_K \in Nat /\ first \in Nat
    BY <1>1, LoaderAssumption DEF LoaderAssumption, TypeOK
  <2> QED  BY <1>7, <1>9, <2>1 DEF Load, Loading, DequeueBase
<1>11. p_dqts' = packet'.d + origin'
  BY <1>1, <1>2, <1>5, <1>6, <1>10 DEF Arrives, LoaderInv, TypeOK
<1> QED
  BY <1>1, <1>2, <1>5, <1>6, <1>8, <1>10, <1>11 DEF LoaderInv, TypeOK

\* Records are skipped before any is loaded.
LEMMA SkippedFirst ==
  ASSUME first \in Nat, NEW dts, NEW ets, Read(dts, ets)
  PROVE  first' \in Nat /\ (first' < first_K => first < first_K /\ ~Loading)
<1>1. first_K \in Nat  BY LoaderAssumption DEF LoaderAssumption
<1>2. \/ first' = first + 1 /\ first < first_K
      \/ first' = first /\ FirstOfFile
      \/ first' = first /\ first >= first_K
  BY DEF Read, ReadFirst, Skip, Load, Skipping, Loading
<1> QED  BY <1>1, <1>2 DEF Loading

\* The loader of the earlier format, whose bases move only where it looks.
LEMMA StaleKeeps ==
  ASSUME Inv, NEW gap \in Gaps, NEW delay \in Delays, Arrives(gap, delay),
         ReadStale(packet'.dts, ~(FirstOfFile /\ Overflows(packet.dts, gap))),
         Read(packet'.dts, packet'.ets)
  PROVE  StaleInv' /\ stale' \in [base : Int, p_dqts : Int, origin : Int, lost : BOOLEAN]
<1> DEFINE dts == packet'.dts
           base == IF Loading /\ stale.base + dts < stale.p_dqts
                     THEN stale.base + Cycle ELSE stale.base
           orig == IF Loading /\ stale.origin = NoOrigin
                     THEN base + dts - packet'.d ELSE stale.origin
           lost == stale.lost \/ (FirstOfFile /\ Overflows(packet.dts, gap))
<1>1. TypeOK /\ Queued /\ StaleInv  BY DEF Inv
<1>2. /\ gap \in Nat /\ gap < Cycle /\ packet'.d = packet.d + gap
      /\ dts = IF Overflows(packet.dts, gap)
                 THEN packet.dts + gap - Cycle ELSE packet.dts + gap
      /\ dts \in 0 .. Cycle - 1
  BY <1>1, PacketMoves DEF Arrives
<1>3. Cycle \in Nat \ {0} /\ first_K \in Nat
  BY LoaderAssumption DEF LoaderAssumption
<1>4. /\ stale.base \in Int /\ stale.p_dqts \in Int /\ stale.origin \in Int
      /\ stale.lost \in BOOLEAN /\ first \in Nat
      /\ packet.d \in Int /\ packet.dts \in 0 .. Cycle - 1
  BY <1>1 DEF TypeOK
<1>5. stale' = [base |-> base, p_dqts |-> base + dts, origin |-> orig, lost |-> lost]
  BY DEF ReadStale
<1>6. base \in Int /\ orig \in Int /\ base + dts \in Int
  BY <1>2, <1>3, <1>4
<1>7. /\ stale'.base = base /\ stale'.p_dqts = base + dts
      /\ stale'.origin = orig /\ stale'.lost = lost
  BY <1>5
<1>8. stale' \in [base : Int, p_dqts : Int, origin : Int, lost : BOOLEAN]
  <2>1. lost \in BOOLEAN  BY <1>4
  <2> QED  BY <1>5, <1>6, <2>1
<1>9. first' \in Nat /\ (first' < first_K => first < first_K /\ ~Loading)
  BY <1>4, SkippedFirst
<1>10. ASSUME first' < first_K PROVE stale'.origin = NoOrigin
  BY <1>1, <1>7, <1>9, <1>10 DEF StaleInv
<1>11. ASSUME ~stale'.lost, stale'.origin # NoOrigin
       PROVE  stale'.p_dqts = packet'.d + stale'.origin
  <2>1. ~stale.lost /\ ~(FirstOfFile /\ Overflows(packet.dts, gap))
    BY <1>7, <1>11
  <2>2. stale.p_dqts = stale.base + packet.dts
    BY <1>1, <2>1 DEF StaleInv
  <2>3. CASE stale.origin = NoOrigin
    BY <1>2, <1>4, <1>6, <1>7, <1>11, <2>3
  <2>4. CASE stale.origin # NoOrigin
    <3>1. ~(first < first_K) /\ stale.p_dqts = packet.d + stale.origin /\ orig = stale.origin
      BY <1>1, <2>1, <2>4 DEF StaleInv
    <3>2. Loading \/ FirstOfFile
      BY <1>3, <1>4, <3>1 DEF Loading
    <3>3. base + dts = stale.p_dqts + gap
      <4>1. CASE Overflows(packet.dts, gap)
        <5>1. Loading  BY <2>1, <3>2, <4>1
        <5>2. stale.base + dts < stale.p_dqts
          BY <1>2, <1>3, <1>4, <2>2, <4>1
        <5>3. base = stale.base + Cycle  BY <5>1, <5>2
        <5> QED  BY <1>2, <1>3, <1>4, <2>2, <4>1, <5>3
      <4>2. CASE ~Overflows(packet.dts, gap)
        <5>1. ~(stale.base + dts < stale.p_dqts)
          BY <1>2, <1>3, <1>4, <2>2, <4>2
        <5>2. base = stale.base  BY <5>1
        <5> QED  BY <1>2, <1>4, <2>2, <4>2, <5>2
      <4> QED  BY <4>1, <4>2
    <3> QED  BY <1>2, <1>4, <1>7, <3>1, <3>3
  <2> QED  BY <2>3, <2>4
<1>12. stale'.p_dqts = stale'.base + packet'.dts
  BY <1>7
<1> QED  BY <1>8, <1>10, <1>11, <1>12 DEF StaleInv

\* The bases and the moments stay integers, whatever is read.
LEMMA ReadTypes ==
  ASSUME TypeOK, NEW dts \in 0 .. Cycle - 1, NEW ets \in 0 .. Cycle - 1,
         Read(dts, ets)
  PROVE  /\ records' \in Nat /\ first' \in Nat
         /\ base_enqueue' \in Int /\ base_dequeue' \in Int
         /\ p_eqts' \in Int /\ p_dqts' \in Int
<1>1. Cycle \in Nat \ {0}  BY LoaderAssumption DEF LoaderAssumption
<1>2. dts \in Int /\ ets \in Int  BY <1>1
<1>3. records' \in Nat  BY DEF Read, TypeOK
<1>4. CASE ReadFirst(dts, ets)
  <2>1. /\ base_dequeue' = base_dequeue \/ base_dequeue' = base_dequeue + Cycle
        /\ p_dqts' = base_dequeue' + dts /\ p_eqts' = base_enqueue + ets
        /\ first' = first /\ base_enqueue' = base_enqueue
    BY <1>4 DEF ReadFirst
  <2> QED  BY <1>1, <1>2, <1>3, <2>1 DEF TypeOK
<1>5. CASE Skip(dts, ets)
  <2>1. /\ p_dqts' = base_dequeue + dts /\ p_eqts' = base_enqueue + ets
        /\ first' = first + 1
        /\ base_enqueue' = base_enqueue /\ base_dequeue' = base_dequeue
    BY <1>5 DEF Skip
  <2> QED  BY <1>2, <1>3, <2>1 DEF TypeOK
<1>6. CASE Load(dts, ets)
  <2> DEFINE eqts  == base_enqueue + ets
             ahead == IF eqts > base_dequeue + dts
                        THEN base_dequeue + Cycle ELSE base_dequeue
             based == IF Overflowed(p_dqts, ahead + dts) THEN ahead + Cycle ELSE ahead
             inOrder == ~Backwards(p_dqts, based + dts)
             basee == IF inOrder /\ Overflowed(p_eqts, eqts)
                        THEN base_enqueue + Cycle ELSE base_enqueue
  <2>1. based \in Int /\ basee \in Int  BY <1>1, <1>2 DEF TypeOK
  <2>2. /\ base_dequeue' = based /\ base_enqueue' = basee /\ first' = first
        /\ p_dqts' \in {p_dqts, based + dts} /\ p_eqts' \in {p_eqts, basee + ets}
    BY <1>6 DEF Load, DequeueBase
  <2>3. p_dqts \in Int /\ p_eqts \in Int /\ first \in Nat  BY DEF TypeOK
  <2>4. p_dqts' \in Int /\ p_eqts' \in Int  BY <1>2, <2>1, <2>2, <2>3
  <2> QED  BY <1>3, <2>1, <2>2, <2>3, <2>4
<1> QED  BY <1>4, <1>5, <1>6 DEF Read

LEMMA PacketInv == Inv /\ Packet => Inv'
<1> SUFFICES ASSUME Inv, Packet PROVE Inv'  OBVIOUS
<1>1. PICK gap \in Gaps, delay \in Delays :
        /\ Arrives(gap, delay)
        /\ Read(packet'.dts, packet'.ets)
        /\ ReadStale(packet'.dts, ~(FirstOfFile /\ Overflows(packet.dts, gap)))
  BY DEF Packet, Arrives, EGap
<1>2. TypeOK /\ Queued  BY DEF Inv
<1>3. /\ packet' \in [e : Int, d : Int, ets : 0 .. Cycle - 1, dts : 0 .. Cycle - 1]
      /\ packet'.d - packet'.e = delay
  BY <1>1, <1>2, PacketMoves DEF Arrives
<1>4. /\ packet'.dts \in 0 .. Cycle - 1 /\ packet'.ets \in 0 .. Cycle - 1
      /\ packet'.d \in Int
  BY <1>3
<1>5. Queued'  BY <1>3 DEF Queued
<1>6. LoaderInv'  BY <1>1, FirstKeeps, SkipKeeps, LoadKeeps DEF Read
<1>7. /\ StaleInv'
      /\ stale' \in [base : Int, p_dqts : Int, origin : Int, lost : BOOLEAN]
  BY <1>1, StaleKeeps
<1>8. /\ records' \in Nat /\ first' \in Nat
      /\ base_enqueue' \in Int /\ base_dequeue' \in Int
      /\ p_eqts' \in Int /\ p_dqts' \in Int
  BY <1>1, <1>2, <1>4, ReadTypes
<1>9. origin' \in Int
  <2>1. p_dqts' - packet'.d \in Int /\ origin \in Int
    BY <1>2, <1>4, <1>8 DEF TypeOK
  <2> QED  BY <1>1, <2>1 DEF Arrives
<1>10. TypeOK'  BY <1>3, <1>7, <1>8, <1>9 DEF TypeOK
<1> QED  BY <1>5, <1>6, <1>7, <1>10 DEF Inv

\* After a frame that left its record zero nothing more is claimed.
LEMMA OtherFrameInv == Inv /\ OtherFrame => Inv'
<1> SUFFICES ASSUME Inv, OtherFrame PROVE Inv'  OBVIOUS
<1>1. TypeOK /\ Queued /\ StaleInv  BY DEF Inv
<1>2. Cycle \in Nat \ {0} /\ first_K \in Nat
  BY LoaderAssumption DEF LoaderAssumption
<1>3. 0 \in 0 .. Cycle - 1  BY <1>2
<1>4. /\ records' \in Nat /\ first' \in Nat
      /\ base_enqueue' \in Int /\ base_dequeue' \in Int
      /\ p_eqts' \in Int /\ p_dqts' \in Int
  BY <1>1, <1>3, ReadTypes DEF OtherFrame
<1>5. packet' = packet /\ origin' = origin  BY DEF OtherFrame
<1>6. mishap' # None  BY DEF OtherFrame, None
<1>7. stale.base \in Int /\ stale.origin \in Int /\ packet.d \in Int
  BY <1>1 DEF TypeOK
<1> DEFINE base == IF Loading /\ stale.base + 0 < stale.p_dqts
                     THEN stale.base + Cycle ELSE stale.base
           orig == IF Loading /\ stale.origin = NoOrigin
                     THEN base + 0 - packet'.d ELSE stale.origin
<1>8. stale' = [base |-> base, p_dqts |-> base + 0, origin |-> orig, lost |-> TRUE]
  BY DEF OtherFrame, ReadStale
<1>9. base \in Int  BY <1>2, <1>7
<1>10. orig \in Int /\ base + 0 \in Int  BY <1>5, <1>7, <1>9
<1>11. /\ stale' \in [base : Int, p_dqts : Int, origin : Int, lost : BOOLEAN]
       /\ stale'.lost /\ stale'.origin = orig
  BY <1>8, <1>9, <1>10
<1>12. first' < first_K => first < first_K /\ ~Loading
  BY <1>1, SkippedFirst DEF OtherFrame, TypeOK
<1>13. StaleInv'  BY <1>1, <1>11, <1>12 DEF StaleInv
<1>14. TypeOK'  BY <1>1, <1>4, <1>5, <1>11 DEF TypeOK
<1>15. Queued'  BY <1>1, <1>5 DEF Queued
<1>16. LoaderInv'  BY <1>6 DEF LoaderInv
<1> QED  BY <1>13, <1>14, <1>15, <1>16 DEF Inv

LEMMA InvInductive == Inv /\ [Next]_vars => Inv'
<1>1. Inv /\ UNCHANGED vars => Inv'
  BY DEF vars, loader, Inv, TypeOK, Queued, LoaderInv, StaleInv
<1> QED  BY <1>1, PacketInv, OtherFrameInv DEF Next

----------------------------------------------------------------------------
\* Whatever the clock, the threshold, the file size and the traffic: without a
\* mishap, a record loaded by get_dqts, enqts (GroundTruth.py:64-85) is true.
THEOREM LoaderCorrect == Spec => []LoadedTrue
<1>1. Inv => LoadedTrue
  <2> SUFFICES ASSUME Inv, mishap = None, fate = "loaded"
               PROVE  p_dqts = packet.d + origin /\ p_eqts = packet.e + origin
    BY DEF LoadedTrue
  <2>1. p_dqts = packet.d + origin /\ p_dqts - p_eqts = packet.d - packet.e
    BY DEF Inv, LoaderInv
  <2>2. /\ packet.d \in Int /\ packet.e \in Int /\ origin \in Int
        /\ p_eqts \in Int /\ p_dqts \in Int
    BY DEF Inv, TypeOK
  <2> QED  BY <2>1, <2>2
<1> QED  BY <1>1, InitInv, InvInductive, PTL DEF Spec

\* ... and no record of a packet is taken for one out of order (:71-78).
THEOREM LoaderKeepsAll == Spec => []NothingDropped
<1>1. Inv => NothingDropped  BY DEF Inv, LoaderInv, NothingDropped
<1> QED  BY <1>1, InitInv, InvInductive, PTL DEF Spec

\* ... and the loader of the earlier format (:395-404) is right for as long as
\* every fall of a stamp that it compares is an overflow.
THEOREM StaleCorrect == Spec => []StaleTrue
<1>1. Inv => StaleTrue  BY DEF Inv, StaleInv, StaleTrue
<1> QED  BY <1>1, InitInv, InvInductive, PTL DEF Spec
=============================================================================
