------------------------- MODULE SpectrumProcessing -------------------------
(***************************************************************************)
(* The spectrum processing of the previous program: process_data of        *)
(* data_processor.cpp, which the receive loop of radar_cli.cpp calls after *)
(* every collection with the mutex held, and the change of the threshold,  *)
(* which the server makes under the same mutex.  Each of them is one       *)
(* action.                                                                 *)
(*                                                                         *)
(* Distances are counted in half harmonics (the sum of the two places) and *)
(* speeds in the difference of the places.  Both are whole: the quotient   *)
(* of estimate_peak loses its fraction, averages are rounded down.  A      *)
(* speed moves the target by as many units from one measurement to the     *)
(* next.  A division by 0 gives what a double has for it, NaN or infinite. *)
(***************************************************************************)
EXTENDS Integers, Sequences

CONSTANTS
  MaxHarm,     \* the harmonics are 0 .. MaxHarm
  Levels,      \* the levels of a harmonic
  Spectra,     \* bound: the spectra measurements are made of
  Behind,      \* bound: what may lie behind the spectra in memory
  Thresholds,  \* the polylines a client sets, sequences of points [x, y]
  Configs,     \* do_restore_gaps, do_recalc_dist and do_avg_spd
  MaxFails,    \* max_fails_num
  AvgNum,      \* avg_spds_num
  SpdLimit,    \* the 5.0 of line 352
  DistLimit,   \* the 4.0 of line 361
  Junk,        \* what malloc may return in avg_spds[0]
  NaN, Inf, MinusInf,  \* what a double may be besides a number
  Reach        \* bound: how far beyond the points a target is followed

Harms == 0 .. MaxHarm
Point == [x : Harms, y : Nat]
Sorted(th) == \A i \in 1 .. Len(th) - 1 : th[i].x < th[i + 1].x

ASSUME ProcessingAssumption ==
  /\ MaxHarm \in Nat /\ Levels \subseteq Nat /\ Spectra \subseteq [Harms -> Levels] /\ Spectra # {}
  /\ Behind \subseteq Nat /\ Behind # {}
  /\ Thresholds \subseteq Seq(Point)
  /\ \A th \in Thresholds : Len(th) > 0 /\ Sorted(th)
  /\ Configs \subseteq [restore : BOOLEAN, recalc : BOOLEAN, avg : BOOLEAN]
  /\ MaxFails \in Nat /\ AvgNum \in Nat \ {0} /\ SpdLimit \in Nat /\ DistLimit \in Nat
  /\ {NaN, Inf, MinusInf} \cap Int = {} /\ NaN # Inf /\ NaN # MinusInf /\ Inf # MinusInf
  /\ Junk \subseteq Int \cup {NaN, Inf, MinusInf} /\ Reach \in Nat

VARIABLES
  config,
  th,        \* the threshold; its ends are the window
  locked,
  fails,     \* fails_counter
  spds,      \* the filled part of avg_spds
  lockedMvmt,
  pt,        \* the point of cli->targets that is DETECTED, if any
  last,      \* history: what the last collection led to
  lost,      \* history: a target has been lost since the start
  speeds,    \* history: hull of the speeds that came in since the last loss
  spoilt     \* history: there was a division by 0 since the last loss

setup == <<config, th>>
track == <<locked, fails, spds, lockedMvmt>>
hist  == <<last, lost, speeds, spoilt>>
vars  == <<setup, track, pt, hist>>

NoMvmt == [dist |-> 0, spd |-> 0, raw |-> 0]
NoPt   == [det |-> FALSE, dist |-> 0, spd |-> 0]
NoSpeeds == [lo |-> 1, hi |-> 0]
IsEmpty(hull) == hull.lo > hull.hi
Hull(hull, v) ==
  IF IsEmpty(hull) THEN [lo |-> v, hi |-> v]
  ELSE [lo |-> IF v < hull.lo THEN v ELSE hull.lo, hi |-> IF v > hull.hi THEN v ELSE hull.hi]

\* data_proc_init fills neither avg_spds[0], which counts as filled, nor locked.
Init ==
  /\ config \in Configs /\ th \in Thresholds
  /\ locked \in BOOLEAN /\ fails = 0
  /\ \E junk \in Junk : spds = <<junk>>
  /\ lockedMvmt = NoMvmt /\ pt = NoPt
  /\ last = "none" /\ lost = FALSE /\ speeds = NoSpeeds /\ spoilt = FALSE

-----------------------------------------------------------------------------
(***************************************************************************)
(* find_target over one spectrum.                                          *)
(***************************************************************************)
\* Division of C, which drops the fraction.
Quot(a, b) == IF a >= 0 THEN a \div b ELSE -((-a) \div b)

\* Mutant: the line is drawn with the next point's level as its start.
LevelFromNext(p, q, h) == q.y + Quot((h - p.x) * (q.y - p.y), q.x - p.x)

\* The level of the segment from p to q at h.
Level(p, q, h) == p.y + Quot((h - p.x) * (q.y - p.y), q.x - p.x)

\* is_above_threshold: the first segment that has h decides.
Above(h, lev) ==
  \E i \in 1 .. Len(th) - 1 :
     /\ th[i].x <= h /\ h <= th[i + 1].x
     /\ \A j \in 1 .. i - 1 : ~(th[j].x <= h /\ h <= th[j + 1].x)
     /\ lev >= Level(th[i], th[i + 1], h)

\* Does harmonic h take the place of the peak so far?
Higher(spectrum, h, peak) == Above(h, spectrum[h]) /\ spectrum[h] > spectrum[peak]

\* The peak starts at harmonic 0, also when the window does not.
Peak(spectrum) ==
  LET win == th[1].x .. th[Len(th)].x
      peak[h \in Nat] ==
        IF h \notin win THEN 0
        ELSE LET before == IF h = 0 THEN 0 ELSE peak[h - 1] IN IF Higher(spectrum, h, before) THEN h ELSE before
  IN  peak[th[Len(th)].x]

-----------------------------------------------------------------------------
(***************************************************************************)
(* Numbers as a double has them.                                           *)
(***************************************************************************)
Plus(a, b) ==
  IF {a, b} \subseteq Int THEN a + b
  ELSE IF NaN \in {a, b} \/ {a, b} = {Inf, MinusInf} THEN NaN
  ELSE IF a \in Int THEN b ELSE a
Minus(a, b) == Plus(a, IF b \in Int THEN -b ELSE IF b = Inf THEN MinusInf ELSE IF b = MinusInf THEN Inf ELSE NaN)
Over(a, n) == IF a \in Int THEN a \div n ELSE a

\* fabs(a - b) > limit: false for NaN, true for both infinities.
Far(a, b, limit) ==
  LET d == Minus(a, b) IN IF d \in Int THEN d > limit \/ -d > limit ELSE d # NaN

-----------------------------------------------------------------------------
(***************************************************************************)
(* calc_mvmt: where the peaks are.                                         *)
(***************************************************************************)
\* What spectrum[h + 1] reads: behind the array, whatever lies there.
After(spectrum, h, beyond) == IF h = MaxHarm THEN beyond ELSE spectrum[h + 1]

\* The divisor of estimate_peak.  The peak is the strongest of the window that
\* reaches the line, so a neighbour may be stronger, and all three in a line.
Bend(spectrum, h, beyond) == 2 * spectrum[h] - spectrum[h - 1] - After(spectrum, h, beyond)

Estimate(spectrum, h, beyond) ==
  LET rise == After(spectrum, h, beyond) - spectrum[h - 1]
      bend == Bend(spectrum, h, beyond)
  IN  CASE bend > 0 -> Quot(rise, bend)
        [] bend < 0 -> Quot(-rise, -bend)
        [] bend = 0 /\ rise > 0 -> Inf
        [] bend = 0 /\ rise < 0 -> MinusInf
        [] OTHER -> NaN

Place(spectrum, h, beyond) == Plus(h, Estimate(spectrum, h, beyond))

-----------------------------------------------------------------------------
(***************************************************************************)
(* Speeds.                                                                 *)
(***************************************************************************)
Sum(s) ==
  LET sum[i \in 0 .. Len(s)] == IF i = 0 THEN 0 ELSE Plus(sum[i - 1], s[i]) IN sum[Len(s)]

\* calc_avg_spd: 0/0 is no number.
AvgSpd(s) == IF s = <<>> THEN NaN ELSE Over(Sum(s), Len(s))

\* Mutant: the oldest speed is kept and the divisor is one too few.
AddSpdShort(s, v) ==
  LET t == SubSeq(<<v>> \o s, 1, IF Len(s) < AvgNum THEN Len(s) + 1 ELSE AvgNum)
  IN  IF Len(t) = 1 THEN t ELSE <<Over(Sum(t), Len(t) - 1)>> \o Tail(t)

\* add_avg_spd: what is shifted out of the array is written behind its end.
AddSpd(s, v) ==
  LET t == SubSeq(<<v>> \o s, 1, IF Len(s) < AvgNum THEN Len(s) + 1 ELSE AvgNum)
  IN  <<AvgSpd(t)>> \o Tail(t)

-----------------------------------------------------------------------------
(***************************************************************************)
(* A collection succeeded: process_data.  rise and fall are its spectra, r *)
(* and f their peaks.                                                      *)
(***************************************************************************)
\* target_pt_fill with a distance outside of the points writes somewhere else,
\* where nothing of the model reads.  One that is no number becomes the least
\* int, which as an index of 32 bits wraps to point 0.
Inside(dist) == 0 <= dist /\ dist <= 2 * MaxHarm
Fill(mvmt) ==
  \/ mvmt.dist \in Int /\ Inside(mvmt.dist) /\ pt' = [det |-> TRUE, dist |-> mvmt.dist, spd |-> mvmt.spd]
  \/ mvmt.dist \in Int /\ ~Inside(mvmt.dist) /\ pt' = NoPt
  \/ mvmt.dist \notin Int /\ pt' \in {NoPt, [det |-> TRUE, dist |-> 0, spd |-> mvmt.spd]}

\* Mutant: the averages are kept when the target is lost.
LoseTargetOnly ==
  /\ lockedMvmt' = NoMvmt /\ fails' = 0 /\ locked' = FALSE
  /\ UNCHANGED spds

\* Mutant: the movement is not cleared when the target is lost.
LoseTargetMoving ==
  /\ spds' = <<>> /\ fails' = 0 /\ locked' = FALSE
  /\ UNCHANGED lockedMvmt

\* Mutant: the gaps start over and the target stays.
LoseTargetKept ==
  /\ spds' = <<>> /\ lockedMvmt' = NoMvmt /\ fails' = 0
  /\ UNCHANGED locked

\* What process_loss does.
LoseTarget ==
  /\ spds' = <<>> /\ lockedMvmt' = NoMvmt /\ fails' = 0 /\ locked' = FALSE

\* Harmonic 0 is never found: nothing is higher than itself.
FoundBoth(r, f) == r # 0 /\ f # 0

\* process_target with calc_mvmt.  The falls lie behind the rises in memory, and
\* beyond is what lies behind the falls.
Target(rise, r, fall, f, beyond) ==
  LET atRise == Place(rise, r, fall[0])
      atFall == Place(fall, f, beyond)
      raw    == Minus(atFall, atRise)
      dist   == Plus(atRise, atFall)
      jump   == Far(lockedMvmt.raw, raw, SpdLimit)
      seen   == IF jump THEN AvgSpd(spds) ELSE raw
      new    == IF config.avg THEN AddSpd(spds, seen) ELSE spds
      kept   == locked /\ Far(lockedMvmt.dist, dist, DistLimit) /\ lockedMvmt.raw # 0
      mvmt   == [raw  |-> raw,
                 spd  |-> IF config.avg THEN AvgSpd(new) ELSE seen,
                 dist |-> IF kept THEN Plus(lockedMvmt.dist, Over(Plus(lockedMvmt.spd, AvgSpd(new)), 2))
                                  ELSE dist]
  IN  /\ FoundBoth(r, f)
      /\ mvmt.dist \in Int => mvmt.dist \in -Reach .. 2 * MaxHarm + Reach
      /\ spds' = new /\ lockedMvmt' = mvmt /\ Fill(mvmt)
      /\ fails' = 0 /\ locked' = TRUE
      /\ last' = "target" /\ speeds' = IF raw \in Int THEN Hull(speeds, raw) ELSE speeds
      /\ spoilt' = \/ spoilt
                   \/ Bend(rise, r, fall[0]) = 0 \/ Bend(fall, f, beyond) = 0
                   \/ jump /\ spds = <<>>
                   \/ kept /\ new = <<>>
      /\ UNCHANGED lost

\* process_gap goes on with the last movement, whether it was a target's or not.
Gap(r, f) ==
  LET new  == IF config.avg THEN AddSpd(spds, lockedMvmt.spd) ELSE spds
      spd  == IF config.avg THEN AvgSpd(new) ELSE lockedMvmt.spd
      mvmt == [lockedMvmt EXCEPT !.spd = spd,
                 !.dist = IF config.recalc THEN Plus(lockedMvmt.dist, spd) ELSE @]
  IN  /\ ~FoundBoth(r, f)
      /\ config.restore /\ fails < MaxFails
      /\ fails' = fails + 1
      /\ spds' = new /\ lockedMvmt' = mvmt /\ Fill(mvmt)
      /\ last' = "gap" /\ speeds' = IF locked THEN speeds ELSE Hull(speeds, 0)
      /\ UNCHANGED <<locked, lost, spoilt>>

\* process_loss, when gaps are not restored or were for too long.
Loss(r, f) ==
  /\ ~FoundBoth(r, f)
  /\ ~config.restore \/ fails >= MaxFails
  /\ LoseTarget
  /\ pt' = NoPt
  /\ last' = "loss" /\ lost' = TRUE /\ speeds' = NoSpeeds /\ spoilt' = FALSE

ProcessData ==
  /\ LET peak == [spectrum \in Spectra |-> Peak(spectrum)]
     IN  \E rise, fall \in Spectra :
           \/ \E beyond \in Behind : Target(rise, peak[rise], fall, peak[fall], beyond)
           \/ Gap(peak[rise], peak[fall])
           \/ Loss(peak[rise], peak[fall])
  /\ UNCHANGED setup

-----------------------------------------------------------------------------
(***************************************************************************)
(* What else the program does to it.                                       *)
(***************************************************************************)
\* rcli_rcv_loop_fn after a collection that failed: the targets are gone, and
\* process_data is not called.
CollectFailed ==
  /\ pt' = NoPt /\ last' = "failed"
  /\ UNCHANGED <<setup, track, lost, speeds, spoilt>>

\* srv_handle_setth_req, data_proc_set_th_pts
SetTh ==
  /\ th' \in Thresholds
  /\ last' = IF last = "failed" THEN "failed" ELSE "none"
  /\ UNCHANGED <<config, track, pt, lost, speeds, spoilt>>

Next == ProcessData \/ CollectFailed \/ SetTh

Spec == Init /\ [][Next]_vars

\* Collections go on and do not all fail.  ProcessData is possible in every
\* state, and only it leads to one of these: this is its fairness.
FairSpec == Spec /\ []<><<last' \in {"target", "gap", "loss"}>>_vars

-----------------------------------------------------------------------------
(* Properties *)

\* After a loss gaps are restored for a target that is not there: what they
\* report stays at distance 0 with speed 0, it never moves into the window as
\* if it were a vehicle (data_processor.cpp:377-408).
GhostsAreNull == lost /\ ~locked /\ pt.det => pt.dist = 0 /\ pt.spd = 0

\* Between two losses a speed that is reported as a number lies within the
\* speeds that were measured, also when it is an average of averages (255-285,
\* 352-358), whatever was no number meanwhile.
SpeedIsMeasured ==
  lost /\ pt.det /\ pt.spd \in Int => speeds.lo <= pt.spd /\ pt.spd <= speeds.hi

\* No speed or distance stops being a number unless there was a division by 0:
\* a peak in line with both of its neighbours (208-214), or an average over no
\* speed, when the first target after a loss is too fast to be believed or the
\* averages are not filled (255-271, 352-363).  The next loss ends it.
NaNHasCause ==
  lost /\ ~spoilt =>
    /\ {lockedMvmt.dist, lockedMvmt.spd, lockedMvmt.raw} \subseteq Int
    /\ \A i \in DOMAIN spds : spds[i] \in Int

\* The line of a threshold at h, as a polyline is defined, times the length of
\* its segment.
OnLine(p, q, h) == p.y * (q.x - h) + q.y * (h - p.x)
Exceeds(h, lev) ==
  \E i \in 1 .. Len(th) - 1 :
    LET p == th[i] q == th[i + 1]
    IN  p.x <= h /\ h <= q.x /\ lev * (q.x - p.x) >= OnLine(p, q, h)
Nearly(h, lev) == Exceeds(h, lev + 1)

Reaches(spectrum, h) == Exceeds(h, spectrum[h]) /\ spectrum[h] > spectrum[0]

\* In whatever spectrum, the peak is the first of the strongest harmonics that
\* reach the line inside the window (up to the fraction the integer division
\* drops); none is found exactly when none of them is stronger than harmonic 0
\* (143-206).  Stated where the program starts and gets its thresholds.
PeakIsStrongest ==
  last = "none" /\ ~lost /\ IsEmpty(speeds) /\ spds = <<0>> =>
    \A spectrum \in [Harms -> Levels] :
      LET peak == Peak(spectrum)
      IN  IF peak = 0 THEN \A h \in Harms : ~Reaches(spectrum, h)
          ELSE /\ Nearly(peak, spectrum[peak]) /\ spectrum[peak] > spectrum[0]
               /\ \A h \in Harms : Reaches(spectrum, h) =>
                     spectrum[h] < spectrum[peak] \/ (spectrum[h] = spectrum[peak] /\ peak <= h)

\* When no target is found any more, the one that was is given up: restored
\* gaps do not keep it alive (389-441).
TargetGivenUp == <>[](last # "target") => <>[](~locked)
=============================================================================
