-------------------------- MODULE MCContinuousLock --------------------------
(***************************************************************************)
(* Values for the constants of ContinuousLock: small instances for TLC.    *)
(***************************************************************************)
EXTENDS ContinuousLock

CONSTANTS p1, p2, p3

TwoPids   == {p1, p2}
ThreePids == {p1, p2, p3}

\* Starts are spaced out and cycles are short, but loops die and pids return.
CrashAndReuse == {"crash", "reuse"}
Racing == {"race"}
=============================================================================
