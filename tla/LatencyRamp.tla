------------------------------ MODULE LatencyRamp ------------------------------
(***************************************************************************)
(* The adaptive concurrency of the corpus scripts: _Ramp and _RegionSignal, *)
(* which scripts/backfill_chapters.py and scripts/refresh_corpus.py share   *)
(* but for their constants.  A gate g is [limit, frozen, signal]; signal[r] *)
(* counts a region's clean streak, the samples in its latency window and    *)
(* all its samples, each up to the value that matters, and warm says that a *)
(* p95 has been computed.  p holds the script's constants.                 *)
(*                                                                         *)
(* How long a streak has lasted and how a p95 compares with the best one    *)
(* are left open: a result is a set of gates.                              *)
(***************************************************************************)
EXTENDS Naturals

Capped(n, max) == IF n < max THEN n ELSE max

NewGate(p, regions) ==
  [limit |-> p.start, frozen |-> FALSE,
   signal |-> [r \in regions |-> [streak |-> 0, window |-> 0, samples |-> 0, warm |-> FALSE]]]

Rested(signal, windows) ==
  [r \in DOMAIN signal |-> [signal[r] EXCEPT !.streak = 0,
                                             !.window = IF windows THEN 0 ELSE @]]

\* _step_up: at the ceiling only the streaks begin again.
StepUp(g, p) ==
  IF g.limit >= p.ceiling
  THEN [g EXCEPT !.signal = Rested(@, FALSE)]
  ELSE [g EXCEPT !.limit = Capped(@ + p.step, p.ceiling), !.signal = Rested(@, TRUE)]

\* _step_down, to no less than the start.
StepDown(g, p) ==
  [limit |-> IF g.limit > p.start + p.step THEN g.limit - p.step ELSE p.start,
   frozen |-> TRUE, signal |-> Rested(g.signal, TRUE)]

\* _Ramp.record for a request to region r.
Recorded(g, p, r, failed) ==
  LET s == g.signal[r]
      window == Capped(s.window + 1, p.window)
      next == [g EXCEPT !.signal[r] =
                 [streak |-> Capped(s.streak + 1, p.interval), window |-> window,
                  samples |-> Capped(s.samples + 1, p.warmup),
                  warm |-> s.warm \/ window = p.window]]
      judged == window = p.window /\ ~g.frozen
      mayDegrade == judged /\ s.warm /\ next.signal[r].samples = p.warmup
      mayClimb == /\ judged
                  /\ \A q \in DOMAIN g.signal :
                        next.signal[q].warm => next.signal[q].streak = p.interval
  IN  IF failed THEN {[g EXCEPT !.signal[r].streak = 0]}
      ELSE {next} \cup (IF mayDegrade THEN {StepDown(next, p)} ELSE {})
                  \cup (IF mayClimb THEN {StepUp(next, p)} ELSE {})

=============================================================================
