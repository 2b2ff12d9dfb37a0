---------------------------- MODULE AFifoCounts ----------------------------
(***************************************************************************)
(* What an aFifo shows, in terms of the numbers of its accesses: what      *)
(* module AFifo promises and what SweepSender counts on.                   *)
(***************************************************************************)
EXTENDS Integers

Later(m, n) == IF m > n THEN m ELSE n

\* The word at the reading pointer once w words came and r were read: the
\* first two words share an address, and the pointer stays there for the
\* first read.
Shown(w, r) == IF r >= 2 THEN r + 1 ELSE IF w >= 2 THEN 2 ELSE w
=============================================================================
