---------------------------- MODULE QueueFilter ----------------------------
(***************************************************************************)
(* The queue stack, rebuilt from the files of the queue monitor            *)
(* (QueueMonitor.py).  A file holds, for every depth of the queue, the     *)
(* last packet that changed the depth to it since the file before.  The    *)
(* stack holds, for every depth, the last packet that ever did, unless a   *)
(* later one changed the depth to less: the packets the queue stands on.   *)
(*                                                                         *)
(* A packet is its number, the first is 1; its sequence number is as much  *)
(* of that as SeqBits hold.                                                *)
(***************************************************************************)
EXTENDS Integers, Sequences, FiniteSets

CONSTANTS
  MaxQdepth,  \* max_qdepth, the depths a queue monitor tells apart
  SeqBits     \* the bits of a sequence number

ASSUME FilterAssumption == MaxQdepth \in Nat \ {0} /\ SeqBits \in Nat

Depths   == 0 .. MaxQdepth - 1
NoPacket == 0
NoCells  == [d \in Depths |-> NoPacket]

\* Of the depths in question, those that are later than all smaller ones.
Rising(seq, in) == {d \in in : \A e \in in : e < d => seq[e] < seq[d]}

\* The stack the packets themselves make.
Stack(last) ==
  {<<d, last[d]>> : d \in Rising(last, {d \in Depths : last[d] # NoPacket})}

\* The whole stack before kept, whatever the file says of smaller depths.
Kept_All(stack, newer) == stack

\* What is left of the stack before: what is below all that is newer.
Kept(stack, newer) == {item \in stack : \A d \in newer : item[1] < d}

\* One file after another, in the order of their time stamps.  A file of zeros
\* empties the stack.
FilterQM(files) ==
  LET wrap[i \in 0 .. Len(files)] ==
        IF i = 0 THEN 0 ELSE wrap[i - 1] + (IF files[i].overflow THEN 1 ELSE 0)
      ret[i \in 0 .. Len(files)] ==
        IF i = 0 THEN [current_seq |-> -1, stack |-> {}]
        ELSE
          LET qm     == files[i].qm
              seq    == [d \in Depths |-> (qm[d] % 2^SeqBits) + wrap[i] * 2^SeqBits]
              newer  == {d \in Depths : /\ qm[d] # NoPacket
                                        /\ seq[d] > ret[i - 1].current_seq}
              rising == Rising(seq, newer)
          IN IF qm = NoCells THEN [ret[i - 1] EXCEPT !.stack = {}]
             ELSE [current_seq |->
                     IF newer = {} THEN ret[i - 1].current_seq
                     ELSE CHOOSE s \in {seq[d] : d \in rising} :
                            \A d \in rising : seq[d] <= s,
                   stack |-> Kept(ret[i - 1].stack, newer)
                               \cup {<<d, qm[d]>> : d \in rising}]
  IN ret[Len(files)].stack
=============================================================================
