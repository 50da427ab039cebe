----------------------------- MODULE EventSpec -----------------------------
(***************************************************************************)
(* What rp::hal::Event promises its user, the waiter: a flag that set()    *)
(* raises and that one completed wait() takes down.  Nothing is said here  *)
(* of the mutex, of the condition variable or of who is blocked on it;     *)
(* module Event says how hal/event.h does it and is shown to implement     *)
(* this specification when one thread at a time waits.                     *)
(***************************************************************************)
EXTENDS Naturals

CONSTANTS Waiters,    \* the threads that call wait()
          AutoReset,  \* does a successful wait() lower the flag?
          MaxSets     \* bound: how often the flag may be raised

VARIABLES up,         \* the flag
          waiting,    \* [w |-> "no" | "forever" | "deadline"]
          ret,        \* [w |-> result of the last wait()]
          sets,       \* how often the flag went up
          oks         \* how many waits answered EVENT_OK

vars == <<up, waiting, ret, sets, oks>>

Init ==
  /\ up = FALSE
  /\ waiting = [w \in Waiters |-> "no"]
  /\ ret = [w \in Waiters |-> "none"]
  /\ sets = 0
  /\ oks = 0

Raise ==
  /\ ~up
  /\ sets < MaxSets
  /\ up' = TRUE
  /\ sets' = sets + 1
  /\ UNCHANGED <<waiting, ret, oks>>

Lower(w) ==
  /\ waiting[w] = "no"
  /\ up' = FALSE
  /\ UNCHANGED <<waiting, ret, sets, oks>>

Begin(w, how) ==
  /\ waiting[w] = "no"
  /\ ~up
  /\ waiting' = [waiting EXCEPT ![w] = how]
  /\ UNCHANGED <<up, ret, sets, oks>>

\* A wait succeeds only while the flag is up, and takes it down.
Succeed(w) ==
  /\ up
  /\ up' = ~AutoReset
  /\ waiting' = [waiting EXCEPT ![w] = "no"]
  /\ ret' = [ret EXCEPT ![w] = "OK"]
  /\ oks' = oks + 1
  /\ UNCHANGED sets

\* A wait with a deadline may give up or fail; it leaves the flag as it is.
GiveUp(w) ==
  /\ waiting[w] = "deadline"
  /\ waiting' = [waiting EXCEPT ![w] = "no"]
  /\ \E code \in {"TIMEOUT", "FAILED"} : ret' = [ret EXCEPT ![w] = code]
  /\ UNCHANGED <<up, sets, oks>>

Next ==
  \/ Raise
  \/ \E w \in Waiters :
        \/ Lower(w)
        \/ \E how \in {"forever", "deadline"} : Begin(w, how)
        \/ Succeed(w)
        \/ GiveUp(w)

Spec == Init /\ [][Next]_vars
=============================================================================
