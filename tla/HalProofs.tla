----------------------------- MODULE HalProofs -----------------------------
(***************************************************************************)
(* Theorems about the event (module Event, which Hal extends), for any set *)
(* of waiters and any bound on the sets, and about Hal, for any set of     *)
(* threads and any timeouts and clocks.                                    *)
(***************************************************************************)
EXTENDS Hal, TLAPS

\* No operation of the event leaves its types (hal/event.h 70-164).
LEMMA TypeStep ==
  ASSUME TypeOK, [Next]_vars PROVE TypeOK'
  <1> USE DEF TypeOK, PCs
  <1>1. CASE Set
    BY <1>1, EventAssumption DEF Set, CondSignal, Wake, Blocked, EventAssumption
  <1>2. ASSUME NEW w \in Waiters, Reset(w) PROVE TypeOK'
    BY <1>2 DEF Reset
  <1>3. ASSUME NEW w \in Waiters, Finish(w) PROVE TypeOK'
    BY <1>3, EventAssumption DEF Finish, Counted, EventAssumption
  <1>4. ASSUME NEW w \in Waiters, NEW how \in {"wait", "timedwait"}, WaitBlocks(w, how)
        PROVE TypeOK'
    BY <1>4 DEF WaitBlocks
  <1>5. ASSUME NEW w \in Waiters, SpuriousWake(w) PROVE TypeOK'
    BY <1>5 DEF SpuriousWake, Wake
  <1>6. ASSUME NEW w \in Waiters, Expire(w) PROVE TypeOK'
    BY <1>6 DEF Expire
  <1>7. ASSUME NEW w \in Waiters, ResumeTimeout(w) \/ ResumeFails(w) PROVE TypeOK'
    BY <1>7 DEF ResumeTimeout, ResumeFails
  <1>8. CASE UNCHANGED vars
    BY <1>8 DEF vars
  <1>9. QED
    BY <1>1, <1>2, <1>3, <1>4, <1>5, <1>6, <1>7, <1>8
    DEF Next, WaitSignalled, Resume

\* Every reachable state of the event is well typed (hal/event.h 70-164).
LEMMA Typing == Spec => []TypeOK
  <1>1. Init => TypeOK
    <2>1. 0 \in 0..MaxSets /\ 0 \in 0..(MaxSets + 1)
      BY EventAssumption DEF EventAssumption
    <2>2. QED
      BY <2>1 DEF Init, TypeOK, PCs
  <1>2. TypeOK /\ [Next]_vars => TypeOK'
    BY TypeStep
  <1>3. QED
    BY <1>1, <1>2, PTL DEF Spec

\* However many threads wait and however often the condition variable wakes
\* them for nothing, an auto-reset event that is up has no sleeper, or one
\* thread on its way out of pthread_cond_wait that will take it down.
THEOREM AutoResetLosesNoWakeup ==
  ASSUME AutoReset PROVE Spec => []NoLostWakeup
  <1>1. Init => NoLostWakeup
    BY DEF Init, NoLostWakeup
  <1>2. TypeOK /\ NoLostWakeup /\ [Next]_vars => NoLostWakeup'
    <2> SUFFICES ASSUME TypeOK, NoLostWakeup, [Next]_vars PROVE NoLostWakeup'
      OBVIOUS
    <2> USE DEF TypeOK, PCs, NoLostWakeup, Blocked, Woken
    <2>1. CASE Set
      BY <2>1 DEF Set, CondSignal, Wake
    <2>2. ASSUME NEW w \in Waiters, Reset(w) PROVE NoLostWakeup'
      BY <2>2 DEF Reset
    <2>3. ASSUME NEW w \in Waiters, Finish(w) PROVE NoLostWakeup'
      BY <2>3 DEF Finish
    <2>4. ASSUME NEW w \in Waiters, NEW how \in {"wait", "timedwait"}, WaitBlocks(w, how)
          PROVE NoLostWakeup'
      BY <2>4 DEF WaitBlocks
    <2>5. ASSUME NEW w \in Waiters, SpuriousWake(w) PROVE NoLostWakeup'
      BY <2>5 DEF SpuriousWake, Wake
    <2>6. ASSUME NEW w \in Waiters, Expire(w) PROVE NoLostWakeup'
      BY <2>6 DEF Expire
    <2>7. ASSUME NEW w \in Waiters, ResumeTimeout(w) \/ ResumeFails(w) PROVE NoLostWakeup'
      BY <2>7 DEF ResumeTimeout, ResumeFails
    <2>8. CASE UNCHANGED vars
      BY <2>8 DEF vars
    <2>9. QED
      BY <2>1, <2>2, <2>3, <2>4, <2>5, <2>6, <2>7, <2>8
      DEF Next, WaitSignalled, Resume
  <1>3. QED
    BY <1>1, <1>2, Typing, PTL DEF Spec
-----------------------------------------------------------------------------
\* One waiter of an auto-reset event whose condition variable wakes nobody
\* for nothing: the use USBChannel::write makes of _tx_completion_signal.
SoleWaiter ==
  /\ \A v, w \in Waiters : v = w
  /\ AutoReset = TRUE
  /\ Spurious = FALSE

\* The invariant: whoever has been woken finds the event up, and an event
\* that is up is one completion that no wait has reported yet.
OneSignalOneOk ==
  /\ WakeSeesSignal
  /\ IF signalled THEN oks + 1 <= sets ELSE oks <= sets

LEMMA SoleWaiterInvariant ==
  ASSUME SoleWaiter PROVE Spec => []OneSignalOneOk
  <1>1. Init => OneSignalOneOk
    BY DEF Init, OneSignalOneOk, WakeSeesSignal, Woken
  <1>2. TypeOK /\ OneSignalOneOk /\ [Next]_vars => OneSignalOneOk'
    <2> SUFFICES ASSUME TypeOK, OneSignalOneOk, [Next]_vars
                 PROVE OneSignalOneOk'
      OBVIOUS
    <2> USE DEF TypeOK, PCs, OneSignalOneOk, WakeSeesSignal, Woken
    <2>0. sets \in Nat /\ oks \in Nat
      BY EventAssumption DEF EventAssumption
    <2>1. CASE Set
      BY <2>0, <2>1 DEF Set, CondSignal, Wake, Blocked
    <2>2. ASSUME NEW w \in Waiters, Reset(w) PROVE OneSignalOneOk'
      BY <2>0, <2>2, SoleWaiter DEF Reset, SoleWaiter
    <2>3. ASSUME NEW w \in Waiters, signalled, Finish(w) PROVE OneSignalOneOk'
      <3>1. AutoReset = TRUE /\ \A v \in Waiters : v = w
        BY SoleWaiter DEF SoleWaiter
      <3>2. Woken' = {}
        BY <2>3, <3>1 DEF Finish
      <3>3. oks + 1 <= sets
        BY <2>3
      <3>4. oks' <= sets'
        BY <2>0, <2>3, <3>3 DEF Finish, Counted
      <3>5. ~signalled'
        BY <2>3, <3>1 DEF Finish
      <3>6. QED
        BY <3>2, <3>4, <3>5
    <2>4. ASSUME NEW w \in Waiters, NEW how \in {"wait", "timedwait"}, WaitBlocks(w, how)
          PROVE OneSignalOneOk'
      BY <2>0, <2>4 DEF WaitBlocks
    <2>5. ASSUME NEW w \in Waiters, SpuriousWake(w) PROVE OneSignalOneOk'
      BY <2>5, SoleWaiter DEF SpuriousWake, SoleWaiter
    <2>6. ASSUME NEW w \in Waiters, Expire(w) PROVE OneSignalOneOk'
      BY <2>0, <2>6 DEF Expire
    <2>7. ASSUME NEW w \in Waiters, ResumeTimeout(w) \/ ResumeFails(w) PROVE OneSignalOneOk'
      BY <2>0, <2>7 DEF ResumeTimeout, ResumeFails
    <2>8. CASE UNCHANGED vars
      BY <2>8 DEF vars
    <2>9. QED
      BY <2>1, <2>2, <2>3, <2>4, <2>5, <2>6, <2>7, <2>8
      DEF Next, WaitSignalled, Resume
  <1>3. QED
    BY <1>1, <1>2, Typing, PTL DEF Spec

\* With a sole waiter the assertion of line 152 holds: the `if` of line 115
\* needs no loop.
THEOREM SoleWaiterSeesSignal ==
  ASSUME SoleWaiter PROVE Spec => []WakeSeesSignal
  BY SoleWaiterInvariant, PTL DEF OneSignalOneOk

\* With a sole waiter no raise of the event is reported by two waits.
THEOREM SoleWaiterCountsOnce ==
  ASSUME SoleWaiter PROVE Spec => []OkNeverOutrunsSet
  <1>1. TypeOK /\ OneSignalOneOk => OkNeverOutrunsSet
    BY EventAssumption DEF TypeOK, OneSignalOneOk, OkNeverOutrunsSet, EventAssumption
  <1>2. QED
    BY <1>1, Typing, SoleWaiterInvariant, PTL

\* Where no wakeup is spurious and whoever is woken finds the event up, each
\* step of Event is one of EventSpec or invisible there.
LEMMA AbstractStep ==
  ASSUME Spurious = FALSE, TypeOK, OneSignalOneOk, [Next]_vars
  PROVE  Abstract!Next \/ UNCHANGED Abstract!vars
  <1> USE DEF Waiting
  <1> USE DEF TypeOK, PCs
  <1>0. sets \in Nat /\ oks \in Nat
    BY EventAssumption DEF EventAssumption
  <1>1. CASE Set
    BY <1>1 DEF Set, CondSignal, Wake, Blocked, Abstract!Next, Abstract!Raise
  <1>2. ASSUME NEW w \in Waiters, Reset(w) PROVE Abstract!Next
    BY <1>2 DEF Reset, Abstract!Next, Abstract!Lower
  <1>3. ASSUME NEW w \in Waiters, signalled, Finish(w) PROVE Abstract!Next
    <2>1. Counted = oks + 1
      BY <1>0, <1>3 DEF Counted, OneSignalOneOk
    <2>2. Abstract!Succeed(w)
      BY <1>3, <2>1 DEF Finish, Abstract!Succeed
    <2>3. QED
      BY <2>2 DEF Abstract!Next
  <1>4. ASSUME NEW w \in Waiters, NEW how \in {"wait", "timedwait"}, WaitBlocks(w, how)
        PROVE Abstract!Next
    <2>1. Abstract!Begin(w, IF how = "wait" THEN "forever" ELSE "deadline")
      BY <1>4 DEF WaitBlocks, Abstract!Begin
    <2>2. QED
      BY <2>1 DEF Abstract!Next
  <1>5. ASSUME NEW w \in Waiters, Expire(w) PROVE UNCHANGED Abstract!vars
    BY <1>5 DEF Expire, Abstract!vars
  <1>6. ASSUME NEW w \in Waiters, ResumeTimeout(w) \/ ResumeFails(w) PROVE Abstract!Next
    <2>1. ASSUME NEW code \in {"TIMEOUT", "FAILED"}, pc[w] \in {"timedwait", "expired"},
                 pc' = [pc EXCEPT ![w] = "run"], ret' = [ret EXCEPT ![w] = code],
                 UNCHANGED <<signalled, sets, oks>>
          PROVE  Abstract!GiveUp(w)
      BY <2>1 DEF Abstract!GiveUp
    <2>2. Abstract!GiveUp(w)
      BY <1>6, <2>1 DEF ResumeTimeout, ResumeFails
    <2>3. QED
      BY <2>2 DEF Abstract!Next
  <1>7. ASSUME NEW w \in Waiters, SpuriousWake(w) PROVE FALSE
    BY <1>7 DEF SpuriousWake
  <1>8. CASE UNCHANGED vars
    BY <1>8 DEF vars, Abstract!vars
  <1>9. Woken # {} => signalled
    BY DEF OneSignalOneOk, WakeSeesSignal
  <1>10. QED
    BY <1>1, <1>2, <1>3, <1>4, <1>5, <1>6, <1>7, <1>8, <1>9
    DEF Next, WaitSignalled, Resume

\* With a sole waiter the pthread implementation is the latch of EventSpec.
THEOREM SoleWaiterImplements ==
  ASSUME SoleWaiter PROVE Spec => ImplementsEventSpec
  <1>1. Init => Abstract!Init
    BY DEF Init, Abstract!Init, Waiting
  <1>2. TypeOK /\ OneSignalOneOk /\ [Next]_vars => [Abstract!Next]_(Abstract!vars)
    BY AbstractStep, SoleWaiter DEF SoleWaiter
  <1>3. QED
    BY <1>1, <1>2, Typing, SoleWaiterInvariant, PTL
    DEF Spec, ImplementsEventSpec, Abstract!Spec
----------------------------------------------------------------------------
\* Whatever the threads do with the lock, the event makes a step of Event or
\* none.
LEMMA EventStep == [HalNext]_halVars => [Next]_vars
  <1> SUFFICES ASSUME [HalNext]_halVars PROVE Next \/ UNCHANGED vars
    BY DEF vars
  <1>1. CASE Signal
    BY <1>1 DEF Signal, Next
  <1>2. ASSUME NEW w \in Waiters, NEW how, LockBlocks(w, how) PROVE UNCHANGED vars
    BY <1>2 DEF LockBlocks, Asks
  <1>3. ASSUME NEW w \in Waiters, LockTry(w) PROVE UNCHANGED vars
    BY <1>3 DEF LockTry, Asks
  <1>4. ASSUME NEW w \in Waiters, NEW timeout \in Limits, LockTimed(w, "plain", timeout)
        PROVE UNCHANGED vars
    BY <1>4 DEF LockTimed, Asks
  <1>5. ASSUME NEW w \in Waiters, Grant(w) \/ LockExpires(w) \/ Leave(w)
        PROVE UNCHANGED vars
    BY <1>5 DEF Grant, LockExpires, Leave
  <1>6. ASSUME NEW w \in Waiters, UseEvent(w) \/ TimedWaitBegins(w) \/ EventReturns(w)
        PROVE Next
    <2>1. \/ Reset(w) \/ WaitSignalled(w)
          \/ \E how \in {"wait", "timedwait"} : WaitBlocks(w, how)
          \/ Expire(w) \/ Resume(w) \/ ResumeTimeout(w) \/ ResumeFails(w)
      BY <1>6 DEF UseEvent, TimedWaitBegins, EventReturns
    <2>2. QED
      BY <2>1 DEF Next
  <1>7. CASE UNCHANGED halVars
    BY <1>7 DEF halVars
  <1>8. QED
    BY <1>1, <1>2, <1>3, <1>4, <1>5, <1>6, <1>7 DEF HalNext, AutoLock

\* now + timeout is computed without loss: a valid timespec, one carry is
\* always enough, and the difference to now is the timeout.
LEMMA DeadlineIsExact ==
  ASSUME NEW now \in [sec : Nat, usec : Micros], NEW timeout \in Nat
  PROVE  /\ Deadline(now, timeout) \in [sec : Nat, nsec : Nat]
         /\ Exact([now |-> now, timeout |-> timeout, at |-> Deadline(now, timeout)])
  <1> DEFINE u == now.usec
             s == now.sec
             q == timeout \div 1000
             r == timeout % 1000
             n == r * 1000000 + u * 1000
             at == Deadline(now, timeout)
             made == [now |-> now, timeout |-> timeout, at |-> at]
  <1>0. made.at = at /\ made.now.sec = s /\ made.now.usec = u /\ made.timeout = timeout
    OBVIOUS
  <1>1. u \in Nat /\ u < 1000000 /\ s \in Nat
    BY SMT DEF Micros
  <1>2. q \in Nat /\ r \in 0..999 /\ timeout = 1000 * q + r
    BY SMT
  <1>3. n \in Nat /\ n < 2000000000 /\ n = 1000 * (1000 * r + u)
    BY SMT, <1>1, <1>2
  <1>4. at = IF n >= 1000000000 THEN [sec |-> q + s + 1, nsec |-> n - 1000000000]
             ELSE [sec |-> q + s, nsec |-> n]
    BY SMT DEF Deadline
  <1> HIDE DEF u, s, q, r
  <1>5. CASE n >= 1000000000
    <2>1. at = [sec |-> q + s + 1, nsec |-> n - 1000000000]
      BY SMT, <1>4, <1>5
    <2>2. n - 1000000000 = 1000 * (1000 * r + u - 1000000)
      BY SMT, <1>1, <1>2
    <2>3. (n - 1000000000) % 1000 = 0
      /\ (n - 1000000000) \div 1000 = 1000 * r + u - 1000000
      BY SMT, <1>1, <1>2, <1>5, <2>2
    <2>4. (q + s + 1 - s) * 1000000 + (1000 * r + u - 1000000) = u + timeout * 1000
      BY SMT, <1>1, <1>2
    <2>5. n - 1000000000 \in Nat /\ n - 1000000000 < 1000000000
      BY SMT, <1>3, <1>5
    <2>6. at \in [sec : Nat, nsec : Nat]
      BY SMT, <2>1, <2>5, <1>1, <1>2
    <2> HIDE DEF n, at, made
    <2>7. made.at.sec = q + s + 1 /\ made.at.nsec = n - 1000000000
      BY SMT, <1>0, <2>1
    <2>8. Exact(made)
      <3>1. made.at.nsec >= 0 /\ made.at.nsec < 1000000000
        BY SMT, <2>5, <2>7
      <3>2. made.at.nsec % 1000 = 0
        BY SMT, <2>3, <2>7
      <3>3. (made.at.sec - made.now.sec) * 1000000 + made.at.nsec \div 1000
              = (q + s + 1 - s) * 1000000 + (1000 * r + u - 1000000)
        BY SMT, <1>0, <1>1, <1>2, <2>3, <2>5, <2>7
      <3>4. QED
        BY SMT, <1>0, <2>4, <3>1, <3>2, <3>3 DEF Exact
    <2>9. QED
      BY SMT, <2>6, <2>8 DEF at, made
  <1>6. CASE ~(n >= 1000000000)
    <2>1. at = [sec |-> q + s, nsec |-> n]
      BY SMT, <1>4, <1>6
    <2>3. n % 1000 = 0 /\ n \div 1000 = 1000 * r + u
      BY SMT, <1>1, <1>2, <1>3
    <2>4. (q + s - s) * 1000000 + (1000 * r + u) = u + timeout * 1000
      BY SMT, <1>1, <1>2
    <2>5. n \in Nat /\ n < 1000000000
      BY SMT, <1>3, <1>6
    <2>6. at \in [sec : Nat, nsec : Nat]
      BY SMT, <2>1, <2>5, <1>1, <1>2
    <2> HIDE DEF n, at, made
    <2>7. made.at.sec = q + s /\ made.at.nsec = n
      BY SMT, <1>0, <2>1
    <2>8. Exact(made)
      <3>1. made.at.nsec >= 0 /\ made.at.nsec < 1000000000
        BY SMT, <2>5, <2>7
      <3>2. made.at.nsec % 1000 = 0
        BY SMT, <2>3, <2>7
      <3>3. (made.at.sec - made.now.sec) * 1000000 + made.at.nsec \div 1000
              = (q + s - s) * 1000000 + (1000 * r + u)
        BY SMT, <1>0, <1>1, <1>2, <2>3, <2>5, <2>7
      <3>4. QED
        BY SMT, <1>0, <2>4, <3>1, <3>2, <3>3 DEF Exact
    <2>9. QED
      BY SMT, <2>6, <2>8 DEF at, made
  <1>7. QED
    BY SMT, <1>5, <1>6
-----------------------------------------------------------------------------
\* Every reachable state of lock and event is well typed (hal/locker.h,
\* hal/event.h).
THEOREM HalTypeCorrect == HalSpec => []HalTypeOK
  <1>1. HalInit => HalTypeOK
    <2>1. 0 \in 0..MaxSets /\ 0 \in 0..(MaxSets + 1)
      BY EventAssumption DEF EventAssumption
    <2> SUFFICES ASSUME HalInit PROVE HalTypeOK
      OBVIOUS
    <2>2. TypeOK
      BY <2>1 DEF HalInit, Init, TypeOK, PCs
    <2>3. due \in SUBSET [now : Times, timeout : Limits, at : [sec : Nat, nsec : Nat]]
      BY DEF HalInit
    <2>4. QED
      BY <2>2, <2>3 DEF HalInit, HalTypeOK
  <1>2. HalTypeOK /\ [HalNext]_halVars => HalTypeOK'
    <2> SUFFICES ASSUME HalTypeOK, [HalNext]_halVars PROVE HalTypeOK'
      OBVIOUS
    <2>0. TypeOK'
      BY EventStep, TypeStep DEF HalTypeOK
    <2> USE DEF HalTypeOK
    <2>1. ASSUME NEW now \in Times, NEW timeout \in Limits, Computed(now, timeout)
          PROVE due' \in SUBSET [now : Times, timeout : Limits, at : [sec : Nat, nsec : Nat]]
      <3>1. now \in [sec : Nat, usec : Micros] /\ timeout \in Nat
        BY HalAssumption DEF HalAssumption
      <3>2. Deadline(now, timeout) \in [sec : Nat, nsec : Nat]
        BY <3>1, DeadlineIsExact
      <3>3. QED
        BY <2>1, <3>2 DEF Computed
    <2>2. ASSUME NEW w \in Waiters, NEW how \in {"plain", "AutoLocker"}, LockBlocks(w, how)
          PROVE HalTypeOK'
      BY <2>0, <2>2 DEF LockBlocks, Asks
    <2>3. ASSUME NEW w \in Waiters, LockTry(w) PROVE HalTypeOK'
      BY <2>0, <2>3 DEF LockTry, Asks, Take, Answered
    <2>4. ASSUME NEW w \in Waiters, NEW timeout \in Limits, LockTimed(w, "plain", timeout)
          PROVE HalTypeOK'
      BY <2>0, <2>1, <2>4 DEF LockTimed, Asks
    <2>5. ASSUME NEW w \in Waiters, Grant(w) PROVE HalTypeOK'
      BY <2>0, <2>5 DEF Grant, Take, Answered
    <2>6. ASSUME NEW w \in Waiters, LockExpires(w) PROVE HalTypeOK'
      BY <2>0, <2>6 DEF LockExpires, Answered
    <2>7. ASSUME NEW w \in Waiters, Leave(w) PROVE HalTypeOK'
      BY <2>0, <2>7 DEF Leave
    <2>8. ASSUME NEW w \in Waiters, TimedWaitBegins(w) PROVE HalTypeOK'
      BY <2>0, <2>1, <2>8 DEF TimedWaitBegins, lock
    <2>9. ASSUME UNCHANGED <<lock, due>> PROVE HalTypeOK'
      BY <2>0, <2>9 DEF lock
    <2>10. QED
      BY <2>2, <2>3, <2>4, <2>5, <2>6, <2>7, <2>8, <2>9
      DEF HalNext, AutoLock, Signal, UseEvent, EventReturns, halVars
  <1>3. QED
    BY <1>1, <1>2, PTL DEF HalSpec

\* What Exclusion needs besides itself: a deadline is only given by a caller
\* that heeds LOCK_TIMEOUT.
LockInv ==
  /\ Exclusion
  /\ \A w \in Waiters : place[w] = "timed" => way[w] = "plain"

LEMMA LockInvariant == HalSpec => []LockInv
  <1>1. HalInit => LockInv
    BY HalAssumption DEF HalInit, Init, LockInv, Exclusion, HalAssumption
  <1>2. HalTypeOK /\ LockInv /\ [HalNext]_halVars => LockInv'
    <2> SUFFICES ASSUME HalTypeOK, LockInv, [HalNext]_halVars PROVE LockInv'
      OBVIOUS
    <2> USE DEF HalTypeOK, TypeOK, PCs, LockInv, Exclusion
    <2>0. None \notin Waiters
      BY HalAssumption DEF HalAssumption
    <2>1. ASSUME NEW w \in Waiters, NEW how, LockBlocks(w, how) PROVE LockInv'
      BY <2>0, <2>1 DEF LockBlocks, Asks, vars
    <2>2. ASSUME NEW w \in Waiters, LockTry(w) PROVE LockInv'
      BY <2>0, <2>2 DEF LockTry, Asks, Take, Answered, vars
    <2>3. ASSUME NEW w \in Waiters, NEW timeout \in Limits, LockTimed(w, "plain", timeout)
          PROVE LockInv'
      BY <2>0, <2>3 DEF LockTimed, Asks, vars
    <2>4. ASSUME NEW w \in Waiters, Grant(w) PROVE LockInv'
      BY <2>0, <2>4 DEF Grant, Take, Answered, vars
    <2>5. ASSUME NEW w \in Waiters, LockExpires(w) PROVE LockInv'
      BY <2>0, <2>5 DEF LockExpires, Answered, vars
    <2>6. ASSUME NEW w \in Waiters, Leave(w) PROVE LockInv'
      BY <2>0, <2>6 DEF Leave, Inside, vars
    <2>7. ASSUME UNCHANGED lock,
                 \A v \in Waiters : pc'[v] # "run" => pc[v] # "run" \/ holder = v
          PROVE LockInv'
      BY <2>0, <2>7 DEF lock
    <2>8. CASE Signal
      <3>1. \A v \in Waiters : pc'[v] # "run" => pc[v] # "run"
        BY <2>8 DEF Signal, Set, CondSignal, Wake, Blocked
      <3>2. QED
        BY <2>7, <2>8, <3>1 DEF Signal
    <2>9. ASSUME NEW w \in Waiters, UseEvent(w) \/ TimedWaitBegins(w) PROVE LockInv'
      <3>1. UNCHANGED lock /\ holder = w
        BY <2>9 DEF UseEvent, TimedWaitBegins, Inside
      <3>2. \A v \in Waiters \ {w} : pc'[v] = pc[v]
        BY <2>9
        DEF UseEvent, TimedWaitBegins, Reset, WaitSignalled, Finish, WaitBlocks
      <3>3. QED
        BY <2>7, <3>1, <3>2
    <2>10. ASSUME NEW w \in Waiters, EventReturns(w) PROVE LockInv'
      <3>1. UNCHANGED lock /\ pc[w] # "run"
        BY <2>10 DEF EventReturns, Expire, Resume, ResumeTimeout, ResumeFails, Woken
      <3>2. \A v \in Waiters \ {w} : pc'[v] = pc[v]
        BY <2>10 DEF EventReturns, Expire, Resume, ResumeTimeout, ResumeFails, Finish
      <3>3. QED
        BY <2>7, <3>1, <3>2
    <2>11. CASE UNCHANGED halVars
      BY <2>7, <2>11 DEF halVars, vars
    <2>12. QED
      BY <2>1, <2>2, <2>3, <2>4, <2>5, <2>6, <2>8, <2>9, <2>10, <2>11
      DEF HalNext, AutoLock
  <1>3. QED
    BY <1>1, <1>2, HalTypeCorrect, PTL DEF HalSpec

\* Whatever ways of locking the threads mix and whatever lock() answers, only
\* the owner of the mutex is behind lock() and inside wait().
THEOREM LockExcludes == HalSpec => []Exclusion
  BY LockInvariant, PTL DEF LockInv

\* Every deadline that is handed to the kernel is a valid timespec, as far
\* after the time of the call as the timeout says, for every clock and every
\* timeout.
THEOREM DeadlinesAreExact == HalSpec => []DeadlineExact
  <1>1. HalInit => DeadlineExact
    BY DEF HalInit, DeadlineExact
  <1>2. DeadlineExact /\ [HalNext]_halVars => DeadlineExact'
    <2> SUFFICES ASSUME DeadlineExact, [HalNext]_halVars PROVE DeadlineExact'
      OBVIOUS
    <2>1. ASSUME NEW now \in Times, NEW timeout \in Limits, Computed(now, timeout)
          PROVE DeadlineExact'
      <3>1. now \in [sec : Nat, usec : Micros] /\ timeout \in Nat
        BY HalAssumption DEF HalAssumption
      <3>2. Exact([now |-> now, timeout |-> timeout, at |-> Deadline(now, timeout)])
        BY <3>1, DeadlineIsExact
      <3>3. QED
        BY <2>1, <3>2 DEF Computed, DeadlineExact
    <2>2. ASSUME UNCHANGED due PROVE DeadlineExact'
      BY <2>2 DEF DeadlineExact
    <2>3. \/ \E now \in Times, timeout \in Limits : Computed(now, timeout)
          \/ UNCHANGED due
      BY DEF HalNext, Signal, AutoLock, LockBlocks, LockTry, LockTimed, Grant,
             LockExpires, Leave, UseEvent, TimedWaitBegins, EventReturns, halVars
    <2>4. QED
      BY <2>1, <2>2, <2>3
  <1>3. QED
    BY <1>1, <1>2, PTL DEF HalSpec
-----------------------------------------------------------------------------
\* The lock does for any number of threads what a sole waiter does for the
\* event alone.
LEMMA LockedSignals ==
  ASSUME AutoReset = TRUE PROVE HalSpec => []OneSignalOneOk
  <1>1. HalInit => OneSignalOneOk
    BY DEF HalInit, Init, OneSignalOneOk, WakeSeesSignal, Woken
  <1>2. HalTypeOK /\ Exclusion /\ OneSignalOneOk /\ [HalNext]_halVars => OneSignalOneOk'
    <2> SUFFICES ASSUME HalTypeOK, Exclusion, OneSignalOneOk, [HalNext]_halVars
                 PROVE OneSignalOneOk'
      OBVIOUS
    <2> USE DEF HalTypeOK, TypeOK, PCs, OneSignalOneOk, WakeSeesSignal, Woken
    <2>0. sets \in Nat /\ oks \in Nat
      BY EventAssumption DEF EventAssumption
    <2>1. ASSUME UNCHANGED vars PROVE OneSignalOneOk'
      BY <2>1 DEF vars
    <2>2. CASE Signal
      BY <2>0, <2>2 DEF Signal, Set, CondSignal, Wake, Blocked
    <2>3. ASSUME NEW w \in Waiters, \A v \in Waiters \ {w} : pc[v] = "run",
                 signalled, Finish(w)
          PROVE OneSignalOneOk'
      <3>1. Woken' = {} /\ ~signalled'
        BY <2>3 DEF Finish
      <3>2. oks' <= sets'
        BY <2>0, <2>3 DEF Finish, Counted
      <3>3. QED
        BY <3>1, <3>2
    <2>4. ASSUME NEW w \in Waiters, UseEvent(w) \/ TimedWaitBegins(w)
          PROVE OneSignalOneOk'
      <3>1. Inside(w) /\ \A v \in Waiters : pc[v] = "run"
        BY <2>4 DEF UseEvent, TimedWaitBegins, Inside, Exclusion
      <3>2. CASE Reset(w)
        BY <2>0, <3>1, <3>2 DEF Reset
      <3>3. CASE WaitSignalled(w)
        BY <2>3, <3>1, <3>3 DEF WaitSignalled
      <3>4. ASSUME NEW how \in {"wait", "timedwait"}, WaitBlocks(w, how)
            PROVE OneSignalOneOk'
        BY <2>0, <3>1, <3>4 DEF WaitBlocks
      <3>5. QED
        BY <2>4, <3>2, <3>3, <3>4 DEF UseEvent, TimedWaitBegins
    <2>5. ASSUME NEW w \in Waiters, EventReturns(w) PROVE OneSignalOneOk'
      <3>1. pc[w] # "run"
        BY <2>5 DEF EventReturns, Expire, Resume, ResumeTimeout, ResumeFails
      <3>2. \A v \in Waiters \ {w} : pc[v] = "run"
        BY <3>1 DEF Exclusion
      <3>3. CASE Expire(w)
        BY <2>0, <3>3 DEF Expire
      <3>4. CASE Resume(w)
        BY <2>3, <3>2, <3>4 DEF Resume
      <3>5. CASE ResumeTimeout(w) \/ ResumeFails(w)
        BY <2>0, <3>5 DEF ResumeTimeout, ResumeFails
      <3>6. QED
        BY <2>5, <3>3, <3>4, <3>5 DEF EventReturns
    <2>6. QED
      BY <2>1, <2>2, <2>4, <2>5
      DEF HalNext, AutoLock, LockBlocks, LockTry, LockTimed, Asks, Grant, LockExpires,
          Leave, halVars
  <1>3. QED
    BY <1>1, <1>2, HalTypeCorrect, LockExcludes, PTL DEF HalSpec

\* However many threads use it through the lock, the pthread event is the
\* latch of EventSpec, if no wakeup is spurious.
THEOREM LockedEventImplements ==
  ASSUME AutoReset = TRUE, Spurious = FALSE PROVE HalSpec => ImplementsEventSpec
  <1>1. HalInit => Abstract!Init
    BY DEF HalInit, Init, Abstract!Init, Waiting
  <1>2. HalTypeOK /\ OneSignalOneOk /\ [HalNext]_halVars
          => [Abstract!Next]_(Abstract!vars)
    BY EventStep, AbstractStep DEF HalTypeOK
  <1>3. QED
    BY <1>1, <1>2, HalTypeCorrect, LockedSignals, PTL
    DEF HalSpec, ImplementsEventSpec, Abstract!Spec

\* Nor does the lock let a wakeup be lost.
THEOREM LockedEventLosesNoWakeup ==
  ASSUME AutoReset PROVE HalSpec => []NoLostWakeup
  <1>1. HalInit => Init
    BY DEF HalInit
  <1>2. HalSpec => Spec
    BY <1>1, EventStep, PTL DEF HalSpec, Spec
  <1>3. QED
    BY <1>2, AutoResetLosesNoWakeup, PTL
=============================================================================
