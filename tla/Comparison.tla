----------------------------- MODULE Comparison -----------------------------
(***************************************************************************)
(* The parts of the comparison with other work, side by side: a behaviour  *)
(* is of one of them, and they share nothing that changes.                 *)
(***************************************************************************)
EXTENDS Sampling, Series, Sketches

VARIABLE part  \* "sampling", "series" or "sketches"

vars == <<part, samplingVars, seriesVars, sketchVars>>

NoSampling ==
  /\ queue_len_array = [p \in Pkts |-> 0] /\ level = 1
  /\ sample_pkts = [i \in Levels |-> {}] /\ sampler = "idle"
NoSeries ==
  enqueue_ts_array = <<>> /\ FID_array = <<>> /\ filter_list = {}
NoSketches ==
  hash = <<>> /\ traces = <<>> /\ tables = <<>>

Init ==
  \/ part = "sampling" /\ SamplingInit /\ NoSeries /\ NoSketches
  \/ part = "series" /\ NoSampling /\ SeriesInit /\ NoSketches
  \/ part = "sketches" /\ NoSampling /\ NoSeries /\ SketchesInit

Next ==
  \/ part = "sampling" /\ SamplingNext /\ UNCHANGED <<part, seriesVars, sketchVars>>
  \/ part = "series" /\ LoadPacket /\ UNCHANGED <<part, samplingVars, sketchVars>>
  \/ part = "sketches" /\ SketchesNext /\ UNCHANGED <<part, samplingVars, seriesVars>>

Spec == Init /\ [][Next]_vars /\ SamplingFairness

=============================================================================
