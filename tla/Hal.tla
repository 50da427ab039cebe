-------------------------------- MODULE Hal --------------------------------
(***************************************************************************)
(* rp::hal::Locker and AutoLocker (hal/locker.h) around rp::hal::Event, as *)
(* USBChannel::write() uses them: a thread enters through the lock, resets *)
(* the event, waits for it and leaves; another thread sets the event and   *)
(* knows nothing of the lock.  The lock is what makes the threads of the   *)
(* event a single waiter at a time, the case in which it is an EventSpec.  *)
(* Threads that call lock() themselves heed what it answers; AutoLocker    *)
(* does not.  The deadlines of both classes are computed here as well.     *)
(* Left out: forceUnlock(), which nobody calls and which makes AutoLocker  *)
(* unlock twice, and wakeups that nobody caused, for which see Event.      *)
(***************************************************************************)
EXTENDS Event, Integers

CONSTANTS Platforms,  \* subset of {"linux", "macOS"}
          Limits,     \* timeouts in ms other than 0 and 0xFFFFFFFF
          Times       \* values of gettimeofday(): [sec, usec]

None == "none"
Micros == {n \in Nat : n < 1000000}

ASSUME HalAssumption ==
  /\ Platforms \subseteq {"linux", "macOS"}
  /\ Limits \subseteq Nat \ {0}
  /\ Times \subseteq [sec : Nat, usec : Micros]
  /\ None \notin Waiters

VARIABLES platform,  \* what the library is built for
          holder,    \* the thread that owns the mutex
          place,     \* [w |-> "out", "blocked", "timed", "in"]
          way,       \* [w |-> how it asked: "plain" or "AutoLocker"]
          status,    \* [w |-> LOCK_STATUS of its last call]
          due        \* the last deadline computed, and from what: {} or {it}

lock == <<platform, holder, place, way, status>>
halVars == <<vars, lock, due>>

HalInit ==
  /\ Init
  /\ platform \in Platforms
  /\ holder = None
  /\ place = [w \in Waiters |-> "out"]
  /\ way = [w \in Waiters |-> "plain"]
  /\ status = [w \in Waiters |-> None]
  /\ due = {}
-----------------------------------------------------------------------------
\* The end of a call of lock(): AutoLocker's constructor goes on whatever the
\* status is, a plain caller only with LOCK_OK.
Answered(w, how, s) ==
  /\ status' = [status EXCEPT ![w] = s]
  /\ place' = [place EXCEPT ![w] =
                 IF s = "OK" \/ how = "AutoLocker" THEN "in" ELSE "out"]

Take(w, how) ==
  /\ holder' = w
  /\ Answered(w, how, "OK")

\* Seeded fault: the nanoseconds without a carry.
NoCarry(now, timeout) ==
  [sec |-> timeout \div 1000 + now.sec,
   nsec |-> (timeout % 1000) * 1000000 + now.usec * 1000]

\* Seeded fault: a carry that is always made.
AlwaysCarries(now, timeout) ==
  [sec |-> timeout \div 1000 + now.sec + 1,
   nsec |-> (timeout % 1000) * 1000000 + now.usec * 1000 - 1000000000]

\* now + timeout as a timespec, with one carry of the nanoseconds.
Deadline(now, timeout) ==
  LET nsec == (timeout % 1000) * 1000000 + now.usec * 1000
      sec == timeout \div 1000 + now.sec
  IN  IF nsec >= 1000000000
      THEN [sec |-> sec + 1, nsec |-> nsec - 1000000000]
      ELSE [sec |-> sec, nsec |-> nsec]

Computed(now, timeout) ==
  due' = {[now |-> now, timeout |-> timeout, at |-> Deadline(now, timeout)]}

Asks(w, how) ==
  /\ place[w] = "out"
  /\ way' = [way EXCEPT ![w] = how]
  /\ UNCHANGED <<vars, platform>>

\* pthread_mutex_lock: of AutoLocker, of lock() without a timeout and, on
\* macOS, of every timeout other than 0.
LockBlocks(w, how) ==
  /\ Asks(w, how)
  /\ place' = [place EXCEPT ![w] = "blocked"]
  /\ UNCHANGED <<holder, status, due>>

\* pthread_mutex_trylock: lock(0).
LockTry(w) ==
  /\ Asks(w, "plain")
  /\ IF holder = None
     THEN Take(w, "plain")
     ELSE Answered(w, "plain", "FAILED") /\ UNCHANGED holder
  /\ UNCHANGED due

\* pthread_mutex_timedlock: any other timeout on Linux.
LockTimed(w, how, timeout) ==
  /\ platform = "linux"
  /\ Asks(w, how)
  /\ place' = [place EXCEPT ![w] = "timed"]
  /\ \E now \in Times : Computed(now, timeout)
  /\ UNCHANGED <<holder, status>>

\* Seeded fault: AutoLocker with a deadline, whose answer it ignores.
AutoLockTimed(w) == \E t \in Limits : LockTimed(w, "AutoLocker", t)

\* AutoLocker's constructor.
AutoLock(w) == LockBlocks(w, "AutoLocker")

\* The mutex is given to one of the threads that wait for it.
Grant(w) ==
  /\ place[w] \in {"blocked", "timed"}
  /\ holder = None
  /\ Take(w, way[w])
  /\ UNCHANGED <<vars, platform, way, due>>

\* ETIMEDOUT, which a free mutex never gives: LOCK_TIMEOUT.
LockExpires(w) ==
  /\ place[w] = "timed"
  /\ holder # None
  /\ Answered(w, way[w], "TIMEOUT")
  /\ UNCHANGED <<vars, platform, holder, way, due>>

\* Behind lock(), and not asleep in wait().
Inside(w) == place[w] = "in" /\ pc[w] = "run"

\* unlock(), by the caller or by AutoLocker's destructor.  The mutex is of
\* the default kind, which is let go whoever calls.
Leave(w) ==
  /\ Inside(w)
  /\ holder' = None
  /\ place' = [place EXCEPT ![w] = "out"]
  /\ UNCHANGED <<vars, platform, way, status, due>>

\* The event's operations as a thread behind lock() calls them.

TimedWaitBegins(w) ==
  /\ Inside(w)
  /\ WaitBlocks(w, "timedwait")
  /\ \E now \in Times, timeout \in Limits : Computed(now, timeout)
  /\ UNCHANGED lock

UseEvent(w) ==
  /\ Inside(w)
  /\ Reset(w) \/ WaitSignalled(w) \/ WaitBlocks(w, "wait")
  /\ UNCHANGED <<lock, due>>

\* The part of wait() behind the condition variable.
EventReturns(w) ==
  /\ Expire(w) \/ Resume(w) \/ ResumeTimeout(w) \/ ResumeFails(w)
  /\ UNCHANGED <<lock, due>>

\* set(true) by the pipeline thread.
Signal == Set /\ UNCHANGED <<lock, due>>
-----------------------------------------------------------------------------
HalNext ==
  \/ Signal
  \/ \E w \in Waiters :
        \/ AutoLock(w)
        \/ LockBlocks(w, "plain")
        \/ LockTry(w)
        \/ \E timeout \in Limits : LockTimed(w, "plain", timeout)
        \/ Grant(w)
        \/ LockExpires(w)
        \/ Leave(w)
        \/ UseEvent(w)
        \/ TimedWaitBegins(w)
        \/ EventReturns(w)

HalSpec == HalInit /\ [][HalNext]_halVars

\* Time passes, a woken thread goes on, and a free mutex is given to a thread
\* that waits with a deadline or the deadline comes.  Nobody has to leave.
HalFairSpec ==
  /\ HalSpec
  /\ \A w \in Waiters : WF_halVars(EventReturns(w))
  /\ \A w \in Waiters :
       WF_halVars(place[w] = "timed" /\ (Grant(w) \/ LockExpires(w)))
-----------------------------------------------------------------------------
HalTypeOK ==
  /\ TypeOK
  /\ platform \in Platforms
  /\ holder \in Waiters \union {None}
  /\ place \in [Waiters -> {"out", "blocked", "timed", "in"}]
  /\ way \in [Waiters -> {"plain", "AutoLocker"}]
  /\ status \in [Waiters -> {None, "OK", "TIMEOUT", "FAILED"}]
  /\ due \in SUBSET [now : Times, timeout : Limits, at : [sec : Nat, nsec : Nat]]

\* Only the owner of the mutex is between lock() and unlock(), also after a
\* lock() that timed out or failed, although AutoLocker neither looks at the
\* status nor knows whether it has something to unlock (lines 174, 180).  So
\* nobody else is inside wait(), where write() is under _op_lock.
Exclusion ==
  \A w \in Waiters : /\ place[w] = "in" <=> holder = w
                     /\ pc[w] # "run" => holder = w

\* The deadline handed to pthread_cond_timedwait and pthread_mutex_timedlock
\* is a valid timespec, and is the timeout after the time of the call to the
\* microsecond (event.h:126-133, locker.h:94-101).
Exact(d) ==
  /\ d.at.nsec >= 0 /\ d.at.nsec < 1000000000
  /\ d.at.nsec % 1000 = 0
  /\ (d.at.sec - d.now.sec) * 1000000 + d.at.nsec \div 1000
       = d.now.usec + d.timeout * 1000

DeadlineExact == \A d \in due : Exact(d)

\* A lock() or a wait() with a deadline returns even if the holder of the
\* lock never leaves and nobody sets the event.
TimedCallsReturn ==
  \A w \in Waiters : /\ place[w] = "timed" ~> place[w] # "timed"
                     /\ pc[w] = "timedwait" ~> pc[w] = "run"
=============================================================================
