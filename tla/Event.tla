------------------------------- MODULE Event -------------------------------
(***************************************************************************)
(* rp::hal::Event as hal/event.h implements it with a pthread mutex and a  *)
(* condition variable (the non-Windows branch, the one CMakeLists.txt      *)
(* builds).  Every stretch of code that holds _cond_locker is one action.  *)
(* pthread_cond_wait lets the mutex go and must take it again before it    *)
(* returns, so a call of wait() that blocks is two or three actions, and   *)
(* other threads run in between.  The test of _is_signalled before         *)
(* blocking is an `if`: it is not repeated after the thread is woken.      *)
(***************************************************************************)
EXTENDS Naturals

CONSTANTS Waiters,    \* threads that call wait() and set(false)
          AutoReset,  \* _isAutoReset
          Spurious,   \* may pthread_cond_wait return without a signal?
          MaxSets     \* bound: how often the event may become signalled

ASSUME EventAssumption ==
  /\ AutoReset \in BOOLEAN
  /\ Spurious \in BOOLEAN
  /\ MaxSets \in Nat

VARIABLES signalled,  \* _is_signalled
          pc,         \* where each waiter stands in wait()
          ret,        \* what its last wait() returned
          sets,       \* history: transitions of _is_signalled to true
          oks         \* history: waits that returned EVENT_OK; no longer
                      \* counted once there are more of them than sets

vars == <<signalled, pc, ret, sets, oks>>

\* "wait"/"timedwait": inside pthread_cond_[timed]wait, mutex released;
\* "woken"/"timedwoken": that call is to return 0 once the mutex is free;
\* "expired": it is to return ETIMEDOUT once the mutex is free.
PCs == {"run", "wait", "timedwait", "woken", "timedwoken", "expired"}

Blocked == {w \in Waiters : pc[w] \in {"wait", "timedwait"}}
Woken == {w \in Waiters : pc[w] \in {"woken", "timedwoken"}}

Init ==
  /\ signalled = FALSE
  /\ pc = [w \in Waiters |-> "run"]
  /\ ret = [w \in Waiters |-> "none"]
  /\ sets = 0
  /\ oks = 0
-----------------------------------------------------------------------------
Counted == IF oks <= sets THEN oks + 1 ELSE oks

Wake(w) ==
  pc' = [pc EXCEPT ![w] = IF pc[w] = "wait" THEN "woken" ELSE "timedwoken"]

\* pthread_cond_signal: one blocked thread, if there is one, is woken.
CondSignal ==
  \/ /\ Blocked = {}
     /\ UNCHANGED pc
  \/ \E w \in Blocked : Wake(w)

\* Seeded faults: what a slip in the code would make of Set and ResumeTimeout.
\* The specification uses none of them.
SetForgetsCond ==
  /\ ~signalled
  /\ sets < MaxSets
  /\ signalled' = TRUE
  /\ sets' = sets + 1
  /\ UNCHANGED <<pc, ret, oks>>

TimeoutConsumes(w) ==
  /\ pc[w] = "expired"
  /\ signalled' = FALSE
  /\ pc' = [pc EXCEPT ![w] = "run"]
  /\ ret' = [ret EXCEPT ![w] = "TIMEOUT"]
  /\ UNCHANGED <<sets, oks>>

TimeoutKeepsWaiting(w) ==
  /\ pc[w] = "expired"
  /\ pc' = [pc EXCEPT ![w] = "timedwait"]
  /\ UNCHANGED <<signalled, ret, sets, oks>>

-----------------------------------------------------------------------------
\* set(true), by any thread.  On a signalled event it does nothing.
Set ==
  /\ ~signalled
  /\ sets < MaxSets
  /\ signalled' = TRUE
  /\ CondSignal
  /\ sets' = sets + 1
  /\ UNCHANGED <<ret, oks>>

\* set(false), by a thread that is not inside wait().
Reset(w) ==
  /\ pc[w] = "run"
  /\ signalled' = FALSE
  /\ UNCHANGED <<pc, ret, sets, oks>>

\* The end of a wait() that was not timed out: the assertion on line 152 is
\* compiled out, an auto-reset event goes down, and EVENT_OK is returned.
Finish(w) ==
  /\ signalled' = (signalled /\ ~AutoReset)
  /\ pc' = [pc EXCEPT ![w] = "run"]
  /\ ret' = [ret EXCEPT ![w] = "OK"]
  /\ oks' = Counted
  /\ UNCHANGED sets

\* wait() on a signalled event does not block.
WaitSignalled(w) ==
  /\ pc[w] = "run"
  /\ signalled
  /\ Finish(w)

\* wait() on an event that is not signalled enters the condition variable.
WaitBlocks(w, how) ==
  /\ pc[w] = "run"
  /\ ~signalled
  /\ pc' = [pc EXCEPT ![w] = how]
  /\ UNCHANGED <<signalled, ret, sets, oks>>

\* POSIX lets a condition wait return although nobody signalled.
SpuriousWake(w) ==
  /\ Spurious
  /\ w \in Blocked
  /\ Wake(w)
  /\ UNCHANGED <<signalled, ret, sets, oks>>

\* The deadline of pthread_cond_timedwait passes.
Expire(w) ==
  /\ pc[w] = "timedwait"
  /\ pc' = [pc EXCEPT ![w] = "expired"]
  /\ UNCHANGED <<signalled, ret, sets, oks>>

\* A woken thread gets the mutex back and goes on behind the `if`.
Resume(w) ==
  /\ w \in Woken
  /\ Finish(w)

\* ETIMEDOUT: EVENT_TIMEOUT, and _is_signalled is not looked at.
ResumeTimeout(w) ==
  /\ pc[w] = "expired"
  /\ pc' = [pc EXCEPT ![w] = "run"]
  /\ ret' = [ret EXCEPT ![w] = "TIMEOUT"]
  /\ UNCHANGED <<signalled, sets, oks>>

\* Any other error, at the deadline or before it: EVENT_FAILED, likewise.
ResumeFails(w) ==
  /\ pc[w] \in {"timedwait", "expired"}
  /\ pc' = [pc EXCEPT ![w] = "run"]
  /\ ret' = [ret EXCEPT ![w] = "FAILED"]
  /\ UNCHANGED <<signalled, sets, oks>>

Next ==
  \/ Set
  \/ \E w \in Waiters :
        \/ Reset(w)
        \/ WaitSignalled(w)
        \/ \E how \in {"wait", "timedwait"} : WaitBlocks(w, how)
        \/ SpuriousWake(w)
        \/ Expire(w)
        \/ Resume(w)
        \/ ResumeTimeout(w)
        \/ ResumeFails(w)

Spec == Init /\ [][Next]_vars

-----------------------------------------------------------------------------
\* The variables range over the values above.
TypeOK ==
  /\ signalled \in BOOLEAN
  /\ pc \in [Waiters -> PCs]
  /\ ret \in [Waiters -> {"none", "OK", "TIMEOUT", "FAILED"}]
  /\ sets \in 0..MaxSets
  /\ oks \in 0..(MaxSets + 1)

\* An event is never left signalled with a thread asleep on it that nobody
\* is going to wake: set() signals the condition variable only on the
\* transition to true (lines 78-82), so this rests on every woken thread
\* lowering the flag again.  Holds for any number of waiters of an auto-reset
\* event.
NoLostWakeup ==
  signalled => Blocked = {} \/ Woken # {}

\* The assertion of line 152: a thread that leaves the condition variable
\* without ETIMEDOUT finds the event signalled.  It is what makes the `if` of
\* line 115 sufficient.
WakeSeesSignal ==
  Woken # {} => signalled

\* No completion is reported twice: wait() returns EVENT_OK at most once for
\* each time the event was raised, also when a deadline races with set().
OkNeverOutrunsSet == oks <= sets

-----------------------------------------------------------------------------
\* The abstract state: a thread that has been woken or has expired but has
\* not got the mutex back is still waiting.
Waiting(w) ==
  CASE pc[w] = "run" -> "no"
    [] pc[w] \in {"wait", "woken"} -> "forever"
    [] OTHER -> "deadline"

Abstract == INSTANCE EventSpec
              WITH up <- signalled, waiting <- [w \in Waiters |-> Waiting(w)]

\* Seen by its only waiter, an event that is woken by set() alone is the
\* flag of EventSpec: a wait succeeds only on a raised flag, a timeout
\* leaves a flag raised too late for the next wait.
ImplementsEventSpec == Abstract!Spec
=============================================================================
