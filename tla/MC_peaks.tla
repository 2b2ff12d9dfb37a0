------------------------------ MODULE MC_peaks ------------------------------
(* Values for PeakSearch. *)
EXTENDS PeakSearch, TLC

\* A row of five peaks: two of them are reported at one place.
Row == [h \in Harms |-> IF h \in {2, 6, 10, 14, 18}
                        THEN (2 :> 8 @@ 6 :> 7 @@ 10 :> 6 @@ 14 :> 9 @@ 18 :> 5)[h] ELSE 0]

\* Sweeps with at most three harmonics above zero.
MCRises ==
  {[h \in Harms |-> IF h = p THEN a ELSE IF h = q THEN b ELSE IF h = r THEN c ELSE 0] :
     p \in 0 .. 5, q \in 2 .. 10, r \in (7 .. 11) \cup (18 .. 21), a \in {0, 1, 4}, b \in {0, 4, 5}, c \in {0, 1, 3, 4}}
    \cup {Row}

\* Nothing, peaks right and left of another, a falling row of peaks.
Peaks(a, b, c) ==
  [h \in Harms |-> IF h = 2 THEN a ELSE IF h = 6 THEN b ELSE IF h = 10 THEN c ELSE 0]
MCFalls == {Peaks(0, 0, 0), Peaks(4, 9, 5), Peaks(9, 5, 2)}
=============================================================================
