---------------------------- MODULE RunTimeline ----------------------------
(***************************************************************************)
(* What the monitor of a run is promised about its persisted events: a     *)
(* timeline that only grows, one event at a time, whose seq numbers count  *)
(* from 1 without a gap or a repetition ("monotonic per run",              *)
(* run_event.py:20).                                                       *)
(***************************************************************************)
EXTENDS Naturals, Sequences

VARIABLE timeline   \* seq numbers in the order the events were committed

Init == timeline = <<>>

Record == timeline' = Append(timeline, Len(timeline) + 1)

Spec == Init /\ [][Record]_timeline
=============================================================================
