--------------------------- MODULE MC_processing ---------------------------
(* Values for SpectrumProcessing. *)
EXTENDS SpectrumProcessing

Points(a, b, c) == <<[x |-> 0, y |-> a], [x |-> 3, y |-> b], [x |-> 4, y |-> c]>>
MCThresholds ==
  {Points(3, 1, 2), <<[x |-> 2, y |-> 1], [x |-> 4, y |-> 3]>>}

\* Nothing, a strong harmonic 0 with a peak at the end, a slope.  With the window
\* from harmonic 2 the peak of the slope is in line with its neighbours.
Spectrum(a, b, c, d, e) == [h \in 0 .. 4 |-> <<a, b, c, d, e>>[h + 1]]
MCSpectra == {Spectrum(0, 0, 0, 0, 0), Spectrum(2, 0, 0, 2, 3), Spectrum(0, 3, 2, 1, 0)}

MCConfigs ==
  {[restore |-> TRUE, recalc |-> TRUE, avg |-> TRUE],
   [restore |-> TRUE, recalc |-> FALSE, avg |-> FALSE],
   [restore |-> FALSE, recalc |-> TRUE, avg |-> TRUE]}
MCJunk == {0, NaN}
MCBehind == {9}
MCLevels == 0 .. 3
=============================================================================
