------------------------------- MODULE HalMC -------------------------------
(***************************************************************************)
(* An instance of Hal for TLC.                                             *)
(***************************************************************************)
EXTENDS Hal

\* Without and with a carry of the nanoseconds, with none and with some
\* whole seconds, at both ends of a second.
HalLimits == {1, 1999}
HalTimes == {[sec |-> 7, usec |-> 0], [sec |-> 7, usec |-> 999999]}

=============================================================================
