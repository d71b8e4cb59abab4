---------------------------- MODULE SnapshotQuery ----------------------------
(***************************************************************************)
(* What data plane queries promise, whatever threads and bits implement    *)
(* them: asking freezes what the registers of the port hold, and the file  *)
(* that answers holds one of the two quarters that were frozen, as they    *)
(* were when the query was asked.  A port asks again only when it has its  *)
(* answer.                                                                 *)
(***************************************************************************)
CONSTANTS Ports, Contents, NoContent

VARIABLES
  phase,   \* per port: "idle", "asked", "answered"
  frozen,  \* per port: the two quarters of the half that was frozen
  file     \* per port: the last answer

vars == <<phase, frozen, file>>

Quarters == [{0, 1} -> Contents]
Thawed   == CHOOSE q \in Quarters : TRUE

Init ==
  /\ phase = [p \in Ports |-> "idle"]
  /\ frozen = [p \in Ports |-> Thawed]
  /\ file = [p \in Ports |-> NoContent]

Ask(p) ==
  /\ phase[p] = "idle"
  /\ phase' = [phase EXCEPT ![p] = "asked"]
  /\ \E q \in Quarters : frozen' = [frozen EXCEPT ![p] = q]
  /\ UNCHANGED file

Answer(p) ==
  /\ phase[p] = "asked"
  /\ phase' = [phase EXCEPT ![p] = "answered"]
  /\ \E s \in {0, 1} : file' = [file EXCEPT ![p] = frozen[p][s]]
  /\ UNCHANGED frozen

Release(p) ==
  /\ phase[p] = "answered"
  /\ phase' = [phase EXCEPT ![p] = "idle"]
  /\ frozen' = [frozen EXCEPT ![p] = Thawed]
  /\ UNCHANGED file

Next == \E p \in Ports : Ask(p) \/ Answer(p) \/ Release(p)

Spec == Init /\ [][Next]_vars

=============================================================================
