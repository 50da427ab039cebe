----------------------------- MODULE SerialPort -----------------------------
(***************************************************************************)
(* SerialPortChannel over raw_serial (net_serial.cpp in arch/linux, and in *)
(* arch/macOS and arch/win32 where they differ), as SlamtecSlamkitDriver   *)
(* uses it.  One thread makes requests: it holds the driver's lock and     *)
(* calls flush(), write(), waitForData() and read().  Another one, the     *)
(* owner, connects (open() under the same lock) and disconnects: close()   *)
(* takes no lock and may come in the middle of a wait.                     *)
(*                                                                         *)
(* waitfordata() is a loop around select() whose descriptor set is built   *)
(* once: select() overwrites it with the descriptors that are ready.       *)
(* Linux takes the time a select() waited off the timeout, macOS does not. *)
(* A byte takes one unit of time on the wire.                              *)
(*                                                                         *)
(* The Windows port waits for an event object that the completion of an    *)
(* overlapped WaitCommEvent() sets; SetCommMask() ends one that is still   *)
(* outstanding.  Line errors are left out.                                 *)
(***************************************************************************)
EXTENDS Integers

CONSTANTS Platforms,  \* builds to look at, of "linux", "macOS" and "windows"
          Sizes,      \* sizes of waits, reads and writes
          Timeouts,   \* timeouts of waits; 0 stands for -1, "for forever"
          MaxQueue,   \* bound: bytes the device gets into the input queue
          MaxOpens,   \* bound: ports opened
          MaxElapsed  \* bound: how far the time of a wait is counted

ASSUME SerialAssumption ==
  /\ Platforms \subseteq {"linux", "macOS", "windows"}
  /\ Sizes \subseteq Nat \ {0} /\ Timeouts \subseteq Nat
  /\ MaxQueue \in Nat /\ MaxOpens \in Nat
  /\ MaxElapsed \in Nat /\ \A t \in Timeouts : t < MaxElapsed

VARIABLES
  platform,
  ports,      \* descriptors of files the process has open; 0 is standard input
  pipes,      \* pipes the process has open
  opens,      \* numbers given to descriptors so far
  opened,     \* _is_serial_opened
  fd,         \* serial_fd, or None
  pipe,       \* _selfpipe, both ends, or None
  byte,       \* is there a byte in that pipe (also once it is closed)?
  pending,    \* _closePending
  dtr,        \* the DTR line
  queue,      \* bytes in the port's input queue
  connected,  \* _isConnected of the driver
  owner,      \* how far disconnect() is: "out", "marked", "cancelled", "released",
              \* "closed", on Windows also "masked" and "reset"
  busy,       \* has a request the driver's lock?
  pc,         \* where it stands in waitForData(); "dead" after a crash
  want,       \* data_count
  limit,      \* timeout
  left,       \* timeout_val
  watch,      \* input_set; of the Windows port, "port" while WaitCommEvent() is
              \* outstanding, "event" while the event object is set, and
              \* "rxchar" in the event mask
  nap,        \* what is left of usleep()
  elapsed,    \* history: how long the wait has taken, up to MaxElapsed
  answer,     \* what the last call answered
  found,      \* history: bytes the request's wait answered true for, until the
              \* request reads, flushes, waits again or ends
  cut         \* history: has close() come, or another channel, since the wait
              \* began?

object == <<opened, fd, pipe, pending>>
device == <<dtr, queue>>
wait == <<pc, want, limit, left, watch, nap, elapsed>>
kernel == <<ports, pipes>>
seen == <<found, cut>>
vars == <<platform, kernel, opens, object, byte, device, connected, owner, busy,
          wait, answer, seen>>

None == -1
Forever == 0

\* _init() of the macOS port.
MacInit == 0

Init ==
  /\ platform \in Platforms
  /\ ports = {0} /\ pipes = {} /\ opens = 0
  /\ opened = FALSE /\ pipe = None /\ byte = FALSE
  /\ fd = IF platform = "macOS" THEN MacInit ELSE None
  /\ pending \in BOOLEAN
  /\ dtr \in BOOLEAN /\ queue = 0
  /\ connected = FALSE /\ owner = "out" /\ busy = FALSE
  /\ pc = "idle" /\ want = 0 /\ limit = 0 /\ left = 0 /\ watch = {} /\ nap = 0
  /\ elapsed = 0
  /\ answer = "none" /\ found = 0 /\ cut = FALSE
-----------------------------------------------------------------------------
\* A port that transfers can use; close() gives the descriptor back before it
\* resets the flag.
Usable == opened /\ fd # None

\* close() of raw_serial gives back the descriptors.  The macOS port has no pipe.
Released ==
  /\ ports' = ports \ {fd} /\ pipes' = pipes \ {pipe}
  /\ fd' = None /\ pipe' = None
  /\ queue' = 0

MacReleased ==
  /\ ports' = ports \ {fd}
  /\ fd' = None
  /\ queue' = 0
  /\ UNCHANGED <<pipes, pipe>>

\* An overlapped WaitCommEvent() that is outstanding completes.  After a wait
\* that timed out it writes the event mask to where that call's stack was,
\* which may be anything by now.
Completes(mask) ==
  /\ watch' = {"event"} \cup mask
  /\ pc' \in IF pc \in {"armed", "object"} THEN {pc} ELSE {pc, "dead"}
  /\ UNCHANGED <<want, limit, left, nap, elapsed>>
Outstanding == platform = "windows" /\ "port" \in watch
CompletesIfAny == IF Outstanding THEN Completes({}) ELSE UNCHANGED wait

\* What becomes of it when open() closes a port that is open.
Dropped == IF opened THEN CompletesIfAny ELSE UNCHANGED wait

\* The owner gives a channel up and makes another one.  The destructor closes
\* what the port refers to, whether it was opened or not.  connect() assigns
\* _channel before it takes the lock, and two calls of it may both find the
\* driver not connected: a request may still be inside a call of the channel
\* that is destroyed.  It works on freed memory then, which ends the process or
\* looks to it like a port that is not open.
NewChannel ==
  /\ owner = "out"
  /\ ports' = ports \ {fd} /\ pipes' = pipes \ {pipe}
  /\ fd' = (IF platform = "macOS" THEN MacInit ELSE None) /\ pipe' = None
  /\ opened' = FALSE /\ pending' \in BOOLEAN
  /\ queue' = 0
  /\ watch' = IF Outstanding THEN {"event"} ELSE watch
  /\ pc' \in IF busy \/ Outstanding THEN {pc, "dead"} ELSE {pc}
  /\ cut' = TRUE
  /\ UNCHANGED <<platform, opens, byte, dtr, connected, owner, busy, want, limit, left,
                 nap, elapsed, answer, found>>

\* open() of the channel, from connect(); the lock is free.  An open port is
\* closed first, and whatever fails leaves the port closed, although the other
\* one of two calls may have set _isConnected.
OpenFails ==
  /\ ~busy /\ owner = "out"
  /\ pending' = FALSE /\ opened' = FALSE
  /\ ports' = IF opened THEN ports \ {fd} ELSE ports
  /\ pipes' = pipes \ {pipe}
  /\ fd' = None /\ pipe' = None
  /\ queue' = 0
  /\ byte' = FALSE
  /\ answer' = "false"
  /\ Dropped
  /\ UNCHANGED <<platform, opens, dtr, connected, owner, busy, seen>>

\* Slips for the properties to notice, here and below; the specification
\* uses none of them.
OpenedTwice(p) ==
  /\ ~busy /\ owner = "out"
  /\ opens < MaxOpens
  /\ pending' = FALSE /\ opened' = TRUE
  /\ opens' = opens + 1
  /\ fd' = opens' /\ pipe' = p
  /\ ports' = ports \cup {opens'} /\ pipes' = pipes \cup ({p} \ {None})
  /\ byte' = FALSE
  /\ queue' = 0 /\ dtr' = FALSE
  /\ answer' = "true" /\ connected' = TRUE
  /\ Dropped
  /\ UNCHANGED <<platform, owner, busy, seen>>

OpenedWithoutLock(p) ==
  /\ owner = "out"
  /\ opens < MaxOpens
  /\ pending' = FALSE /\ opened' = TRUE
  /\ opens' = opens + 1
  /\ fd' = opens' /\ pipe' = p
  /\ ports' = (IF opened THEN ports \ {fd} ELSE ports) \cup {opens'}
  /\ pipes' = (pipes \ {pipe}) \cup ({p} \ {None})
  /\ byte' = FALSE
  /\ queue' = 0 /\ dtr' = FALSE
  /\ answer' = "true" /\ connected' = TRUE
  /\ Dropped
  /\ UNCHANGED <<platform, owner, busy, seen>>

\* An open port is closed first.
Opened(p) ==
  /\ ~busy /\ owner = "out"
  /\ opens < MaxOpens
  /\ pending' = FALSE /\ opened' = TRUE
  /\ opens' = opens + 1
  /\ fd' = opens' /\ pipe' = p
  /\ ports' = (IF opened THEN ports \ {fd} ELSE ports) \cup {opens'}
  /\ pipes' = (pipes \ {pipe}) \cup ({p} \ {None})
  /\ byte' = FALSE
  /\ queue' = 0 /\ dtr' = FALSE
  /\ answer' = "true" /\ connected' = TRUE
  /\ Dropped
  /\ UNCHANGED <<platform, owner, busy, seen>>

\* The pipe is made last; open() succeeds also when it cannot be made.
LinuxOpens == platform = "linux" /\ \E p \in {opens + 1, None} : Opened(p)

\* macOS and Windows have no pipe.
MacOpens == platform = "macOS" /\ Opened(None)
WinOpens == platform = "windows" /\ Opened(None)

CloseUnmarked ==
  /\ connected /\ owner = "out"
  /\ owner' = "marked"
  /\ cut' = TRUE
  /\ UNCHANGED <<platform, kernel, opens, object, byte, device, connected, busy, wait,
                 answer, found>>

CancelOnlyFlags ==
  /\ owner = "marked"
  /\ owner' = "cancelled"
  /\ UNCHANGED <<platform, kernel, opens, object, byte, device, connected, busy, wait,
                 answer, seen>>

\* disconnect(): _closePending, cancelOperation(), close(), and the driver's
\* flag, while a request may be anywhere.
CloseMark ==
  /\ connected /\ owner = "out"
  /\ owner' = "marked"
  /\ pending' = TRUE
  /\ cut' = TRUE
  /\ UNCHANGED <<platform, kernel, opens, opened, fd, pipe, byte, device, connected,
                 busy, wait, answer, found>>

CloseCancel ==
  /\ owner = "marked"
  /\ owner' = "cancelled"
  /\ byte' = (byte \/ pipe # None)
  /\ UNCHANGED <<platform, kernel, opens, object, device, connected, busy, wait,
                 answer, seen>>

CloseRelease ==
  /\ owner = "cancelled"
  /\ owner' = "released"
  /\ \/ platform = "linux" /\ Released
     \/ platform = "macOS" /\ MacReleased
  /\ UNCHANGED <<platform, opens, opened, byte, pending, dtr, connected, busy, wait,
                 answer, seen>>

\* On Windows close() first ends the wait, and resets the event after it.
WinCloseMask ==
  /\ platform = "windows" /\ owner = "cancelled"
  /\ owner' = "masked"
  /\ CompletesIfAny
  /\ UNCHANGED <<platform, kernel, opens, object, byte, device, connected, busy,
                 answer, seen>>

WinCloseReset ==
  /\ owner = "masked"
  /\ owner' = "reset"
  /\ watch' = watch \ {"event"}
  /\ UNCHANGED <<platform, kernel, opens, object, byte, device, connected, busy,
                 pc, want, limit, left, nap, elapsed, answer, seen>>

WinCloseRelease ==
  /\ owner = "reset"
  /\ owner' = "released"
  /\ Released
  /\ CompletesIfAny
  /\ UNCHANGED <<platform, opens, opened, byte, pending, dtr, connected, busy, answer,
                 seen>>

\* _is_serial_opened goes down last, on every platform.
CloseClears ==
  /\ owner = "released"
  /\ owner' = "closed"
  /\ opened' = FALSE
  /\ UNCHANGED <<platform, kernel, opens, fd, pipe, pending, byte, device, connected,
                 busy, wait, answer, seen>>

CloseDone ==
  /\ owner = "closed"
  /\ owner' = "out"
  /\ connected' = FALSE
  /\ UNCHANGED <<platform, kernel, opens, object, byte, device, busy, wait, answer, seen>>

\* setDTR() and clearDTR() of the channel, by the owner.
SetDTR(level) ==
  /\ Usable
  /\ dtr' = level
  /\ UNCHANGED <<platform, kernel, opens, object, byte, queue, connected, owner, busy,
                 wait, answer, seen>>
MacSetDTR(level) == platform = "macOS" /\ SetDTR(level)
WinSetDTR(level) == platform = "windows" /\ SetDTR(level)
-----------------------------------------------------------------------------
\* A request takes the lock of a driver that is connected, and gives it up.
Begin ==
  /\ connected /\ ~busy
  /\ busy' = TRUE
  /\ UNCHANGED <<platform, kernel, opens, object, byte, device, connected, owner, wait,
                 answer, seen>>

End ==
  /\ busy /\ pc = "idle"
  /\ busy' = FALSE
  /\ found' = 0
  /\ UNCHANGED <<platform, kernel, opens, object, byte, device, connected, owner, wait,
                 answer, cut>>

Calls == busy /\ pc = "idle"
Unmoved == UNCHANGED <<platform, kernel, opens, object, byte, connected, owner, busy>>

\* Transfers are the same on Linux and macOS.  flush() throws the input queue
\* away.
Flush ==
  /\ Calls
  /\ queue' = IF Usable THEN 0 ELSE queue
  /\ found' = 0
  /\ Unmoved /\ UNCHANGED <<dtr, wait, answer, cut>>

\* senddata() goes on until all is written or a write() fails.
Write(n) ==
  /\ Calls
  /\ answer' \in IF Usable THEN {"all", "some"} ELSE {"nothing"}
  /\ Unmoved /\ UNCHANGED <<device, wait, seen>>

\* recvdata() takes what there is, at most n bytes.
Taken(n) == IF ~Usable THEN 0 ELSE IF queue < n THEN queue ELSE n
Read(n) ==
  /\ Calls
  /\ queue' = queue - Taken(n)
  /\ found' = 0
  /\ answer' = IF Taken(n) = n THEN "all" ELSE IF Taken(n) > 0 THEN "some" ELSE "nothing"
  /\ Unmoved /\ UNCHANGED <<dtr, wait, cut>>

MacFlush == platform = "macOS" /\ Flush
MacWrite(n) == platform = "macOS" /\ Write(n)
MacRead(n) == platform = "macOS" /\ Read(n)

WinFlush == platform = "windows" /\ Flush

\* An overlapped write that goes on answers like one that wrote nothing.
WinWrite(n) ==
  /\ platform = "windows" /\ Calls
  /\ answer' \in IF Usable THEN {"all", "nothing", "error"} ELSE {"error"}
  /\ Unmoved /\ UNCHANGED <<device, wait, seen>>

\* A read of too few bytes would stay pending; it is left out.
WinRead(n) ==
  /\ platform = "windows" /\ (~Usable \/ queue >= n)
  /\ Read(n)

\* A byte comes in.  A select() keeps the port alive that is closed under it.
Arrive ==
  /\ platform # "windows"
  /\ pc = "select" \/ Usable
  /\ queue < MaxQueue
  /\ queue' = queue + 1
  /\ Unmoved /\ UNCHANGED <<dtr, wait, answer, seen>>

WinArrive ==
  /\ platform = "windows"
  /\ Usable
  /\ queue < MaxQueue
  /\ queue' = queue + 1
  /\ IF Outstanding THEN Completes({"rxchar"}) ELSE UNCHANGED wait
  /\ Unmoved /\ UNCHANGED <<dtr, answer, seen>>
-----------------------------------------------------------------------------
Go(to) == pc' = to /\ UNCHANGED <<answer, seen>>
Answer(a) == pc' = "idle" /\ answer' = a /\ UNCHANGED seen

\* FIONREAD: enough bytes end the wait.
Enough == queue >= want
Found == pc' = "idle" /\ answer' = "ok" /\ found' = want /\ UNCHANGED cut

\* waitForData(): a channel that is being closed is not waited for.
WaitRefused ==
  /\ Calls /\ pending
  /\ Answer("false")
  /\ Unmoved /\ UNCHANGED <<device, want, limit, left, watch, nap, elapsed>>

WaitBegins(n, t) ==
  /\ Calls /\ ~pending
  /\ pc' = "enter"
  /\ want' = n /\ limit' = t /\ left' = t /\ elapsed' = 0
  /\ found' = 0 /\ cut' = FALSE
  /\ Unmoved /\ UNCHANGED <<device, watch, nap, answer>>

\* FD_SET() before the first look at isOpened().  With descriptor -1 the
\* behaviour is undefined: a checking C library aborts, another one sets a
\* bit of another descriptor and goes on.
WaitEnters ==
  /\ pc = "enter" /\ platform # "windows"
  /\ watch' = {"port"} \cup (IF pipe # None THEN {"pipe"} ELSE {})
  /\ \/ fd = None /\ Go("dead")
     \/ ~Usable /\ Answer("error")
     \/ Usable /\ Enough /\ Found
     \/ Usable /\ ~Enough /\ Go("loop")
  /\ Unmoved /\ UNCHANGED <<device, want, limit, left, nap, elapsed>>

\* The head of the loop.  Between the two steps of close() the descriptors of the
\* set are closed, and select() fails.
Loop ==
  /\ pc = "loop" /\ platform = "linux"
  /\ IF Usable THEN Go("select") ELSE Answer("error")
  /\ Unmoved /\ UNCHANGED <<device, want, limit, left, watch, nap, elapsed>>

\* On macOS every select() has the whole timeout.
MacLoop ==
  /\ pc = "loop" /\ platform = "macOS"
  /\ IF Usable THEN Go("select") ELSE Answer("error")
  /\ left' = limit
  /\ Unmoved /\ UNCHANGED <<device, want, limit, watch, nap, elapsed>>

Ready == {f \in watch : (f = "port" /\ queue > 0) \/ (f = "pipe" /\ byte)}

SelectReady ==
  /\ pc = "select"
  /\ Ready # {}
  /\ watch' = Ready
  /\ Go("woken")
  /\ Unmoved /\ UNCHANGED <<device, want, limit, left, nap, elapsed>>

Later == IF elapsed < MaxElapsed THEN elapsed + 1 ELSE elapsed

WaitsOn ==
  /\ pc = "select"
  /\ Ready = {} /\ limit # Forever
  /\ left' = left - 1 /\ elapsed' = Later
  /\ Go("select")
  /\ Unmoved /\ UNCHANGED <<device, want, limit, watch, nap>>

TimeoutRetries ==
  /\ pc = "select"
  /\ Ready = {} /\ limit # Forever /\ left = 0
  /\ Go("loop")
  /\ Unmoved /\ UNCHANGED <<device, want, limit, left, watch, nap, elapsed>>

SelectWaits ==
  /\ pc = "select"
  /\ Ready = {} /\ limit # Forever /\ left > 0
  /\ left' = left - 1 /\ elapsed' = Later
  /\ Go("select")
  /\ Unmoved /\ UNCHANGED <<device, want, limit, watch, nap>>

SelectTimesOut ==
  /\ pc = "select"
  /\ Ready = {} /\ limit # Forever /\ left = 0
  /\ Answer("timeout")
  /\ Unmoved /\ UNCHANGED <<device, want, limit, left, watch, nap, elapsed>>

\* A signal, or close() by the owner, may make select() fail.
SelectFails ==
  /\ pc = "select"
  /\ Answer("error")
  /\ Unmoved /\ UNCHANGED <<device, want, limit, left, watch, nap, elapsed>>

\* The byte cancelOperation() wrote is taken out of the pipe.
Cancelled ==
  /\ pc = "woken" /\ "pipe" \in watch
  /\ byte' = FALSE
  /\ Answer("timeout")
  /\ UNCHANGED <<platform, kernel, opens, object, connected, owner, busy, device, want,
                 limit, left, watch, nap, elapsed>>

\* FD_ISSET() of a pipe that could not be made, or that has been closed in the
\* meantime, is undefined behaviour like above; on macOS that of the port.
Aborted ==
  /\ pc = "woken"
  /\ \/ platform = "linux" /\ pipe = None
     \/ platform = "macOS" /\ fd = None
  /\ Go("dead")
  /\ Unmoved /\ UNCHANGED <<device, want, limit, left, watch, nap, elapsed>>

\* Too few bytes: sleep as long as the rest takes on the wire if the timeout
\* allows it, and select() again.  The timeout "for forever" overflows the int
\* it is compared in, so there is no sleep.  On macOS what select() waited was
\* not taken off: the whole timeout is compared.
Missing == want - queue
MayNap == /\ limit # Forever
          /\ (IF platform = "macOS" THEN limit ELSE left) > Missing

NapOrGiveUp ==
  \/ MayNap /\ Go("sleep") /\ nap' = Missing
  \/ ~MayNap /\ Answer("timeout") /\ UNCHANGED nap

Nap ==
  \/ MayNap /\ Go("sleep") /\ nap' = Missing
  \/ ~MayNap /\ Go("loop") /\ UNCHANGED nap

Counts ==
  /\ pc = "woken"
  /\ \/ fd = None /\ Answer("error") /\ UNCHANGED nap
     \/ fd # None /\ Enough /\ Found /\ UNCHANGED nap
     \/ fd # None /\ ~Enough /\ Nap
  /\ Unmoved /\ UNCHANGED <<device, want, limit, left, watch, elapsed>>

Looked == platform = "linux" /\ ("pipe" \notin watch \/ pipe = None) /\ Counts
MacLooked == platform = "macOS" /\ Counts

\* usleep() is not taken off the timeout.
Sleeps ==
  /\ pc = "sleep"
  /\ IF nap = 0 THEN Go("loop") /\ UNCHANGED <<nap, elapsed>>
                ELSE Go("sleep") /\ nap' = nap - 1 /\ elapsed' = Later
  /\ Unmoved /\ UNCHANGED <<device, want, limit, left, watch>>

\* The wait of the Windows port.  ClearCommError() of a handle that is closed
\* fails and leaves the count uninitialised: anything may pass for enough.
WinEnters ==
  /\ pc = "enter" /\ platform = "windows"
  /\ \/ ~opened /\ Answer("error")
     \/ opened /\ (Enough \/ fd = None) /\ Found
     \/ opened /\ (~Enough \/ fd = None) /\ Go("loop")
  /\ Unmoved /\ UNCHANGED <<device, want, limit, left, watch, nap, elapsed>>

\* SetCommMask() and WaitCommEvent(): bytes that came before are not reported,
\* even if there are enough by now.  SetCommMask() completes the WaitCommEvent()
\* that an earlier wait left outstanding when it timed out, with a write to that
\* wait's frame.
WinLoop ==
  /\ pc = "loop" /\ platform = "windows"
  /\ \/ Usable /\ Go("armed") /\ watch' = {"port"}
     \/ Outstanding /\ Go("dead") /\ UNCHANGED watch
     \/ Answer("error") /\ UNCHANGED watch
  /\ Unmoved /\ UNCHANGED <<device, want, limit, left, nap, elapsed>>

\* WaitForSingleObject(), each time with the whole timeout.
WinWaitBegins ==
  /\ pc = "armed"
  /\ Go("object") /\ left' = limit
  /\ Unmoved /\ UNCHANGED <<device, want, limit, watch, nap, elapsed>>

WinWaits ==
  /\ pc = "object"
  /\ "event" \notin watch /\ limit # Forever /\ left > 0
  /\ left' = left - 1 /\ elapsed' = Later
  /\ Go("object")
  /\ Unmoved /\ UNCHANGED <<device, want, limit, watch, nap>>

WinTimesOut ==
  /\ pc = "object"
  /\ "event" \notin watch /\ limit # Forever /\ left = 0
  /\ Answer("timeout")
  /\ Unmoved /\ UNCHANGED <<device, want, limit, left, watch, nap, elapsed>>

\* The bytes are counted only if one has come.  The count of a port that was
\* closed meanwhile is not initialised.
WinWakes ==
  /\ pc = "object" /\ "event" \in watch
  /\ watch' = {}
  /\ \/ "rxchar" \in watch /\ (Enough \/ fd = None) /\ Found
     \/ ("rxchar" \notin watch \/ ~Enough \/ fd = None) /\ Go("loop")
  /\ Unmoved /\ UNCHANGED <<device, want, limit, left, nap, elapsed>>

WaitStep ==
  \/ WaitEnters \/ Loop \/ MacLoop
  \/ SelectReady \/ SelectWaits \/ SelectTimesOut
  \/ Cancelled \/ Aborted \/ Looked \/ MacLooked \/ Sleeps
  \/ WinEnters \/ WinLoop \/ WinWaitBegins \/ WinWaits \/ WinTimesOut \/ WinWakes

\* Nothing happens in a process that was aborted.
CloseStep ==
  /\ pc # "dead"
  /\ \/ CloseCancel \/ CloseRelease \/ CloseClears \/ CloseDone
     \/ WinCloseMask \/ WinCloseReset \/ WinCloseRelease

Next ==
  /\ pc # "dead"
  /\ \/ NewChannel
     \/ OpenFails \/ LinuxOpens \/ MacOpens \/ WinOpens
     \/ CloseMark \/ CloseStep
     \/ \E level \in BOOLEAN : platform = "linux" /\ SetDTR(level)
     \/ \E level \in BOOLEAN : MacSetDTR(level) \/ WinSetDTR(level)
     \/ Begin \/ End
     \/ (platform = "linux" /\ Flush) \/ MacFlush \/ WinFlush
     \/ \E n \in Sizes : platform = "linux" /\ (Write(n) \/ Read(n))
     \/ \E n \in Sizes : MacWrite(n) \/ MacRead(n) \/ WinWrite(n) \/ WinRead(n)
     \/ Arrive \/ WinArrive
     \/ WaitRefused
     \/ \E n \in Sizes, t \in Timeouts : WaitBegins(n, t)
     \/ WaitStep \/ SelectFails

Spec == Init /\ [][Next]_vars

\* Threads that can go on do, and time passes.  No byte has to come, and no
\* select() has to fail.
FairSpec == Spec /\ WF_vars(WaitStep) /\ WF_vars(CloseStep)
-----------------------------------------------------------------------------
FilesOK ==
  /\ ports \subseteq 0 .. MaxOpens /\ pipes \subseteq 0 .. MaxOpens
  /\ opens \in 0 .. MaxOpens
  /\ fd \in {None} \cup (0 .. MaxOpens) /\ pipe \in {None} \cup (0 .. MaxOpens)

CountsOK ==
  /\ queue \in 0 .. MaxQueue /\ found \in {0} \cup Sizes
  /\ want \in {0} \cup Sizes /\ nap \in Nat /\ elapsed \in 0 .. MaxElapsed
  /\ limit \in {0} \cup Timeouts /\ left \in 0 .. limit

FlagsOK ==
  /\ opened \in BOOLEAN /\ byte \in BOOLEAN /\ pending \in BOOLEAN /\ dtr \in BOOLEAN
  /\ connected \in BOOLEAN /\ busy \in BOOLEAN /\ cut \in BOOLEAN

PlacesOK ==
  /\ platform \in {"linux", "macOS", "windows"}
  /\ owner \in {"out", "marked", "cancelled", "masked", "reset", "released", "closed"}
  /\ pc \in {"idle", "enter", "loop", "select", "woken", "sleep", "armed", "object", "dead"}
  /\ watch \subseteq {"port", "pipe", "event", "rxchar"}
  /\ answer \in {"none", "true", "false", "ok", "timeout", "error", "all", "some", "nothing"}

\* The variables range over the values above.
TypeOK == FilesOK /\ CountsOK /\ FlagsOK /\ PlacesOK

\* sl_slamkit_driver.h line 96: what a request's wait answered true for is there
\* when the request reads it.  connect(), which throws the queue away and may
\* come a second time, is kept out by the lock; only disconnect(), which takes
\* none, or another channel can come between the wait and the read, and only
\* then may the true answer of the Windows port be one of an uninitialised count.
ReadyIsQueued == found <= queue \/ cut

\* What the object refers to is what the process has open besides standard
\* input: whatever open() fails at, however often it is called, whenever
\* close() comes and however many channels are made, nothing is leaked and
\* nothing foreign is closed.  The macOS port takes standard input for its own
\* before it is opened, and closes it if it never is.
DescriptorsOwned ==
  /\ pipes = {pipe} \ {None}
  /\ ports \cup {0} = {0, fd} \ {None}
  /\ platform # "macOS" => 0 \in ports

\* A cancellation does not outlive the session it was meant for: a select() that
\* a byte in the pipe ends belongs to a wait during which the channel was closed.
NoStaleCancel == pc = "select" /\ "pipe" \in Ready => cut

\* A wait that ends by its timeout has waited that long, unless the channel was
\* closed meanwhile: neither short of bytes nor of time it gives up early, nor
\* because of a close() that was over before it began.
TimeoutNotEarly ==
  [][answer' = "timeout" /\ pc # "idle" /\ pc' = "idle" => elapsed >= limit \/ cut]_vars

\* A wait with a timeout returns if no byte comes at all.
SilentWaitEnds ==
  (pc = "enter" /\ limit # Forever) ~> (pc \in {"idle", "dead"} \/ queue > 0)

\* "self pipeline for wait cancellation" (net_serial.cpp line 204): close() ends
\* a wait that still watches the channel's pipe, even one without a timeout.  (A
\* channel that was replaced under the wait has lost its pipe.)
CloseEndsWait ==
  (owner = "cancelled" /\ pc = "select" /\ "pipe" \in watch /\ pipe # None)
    ~> pc \in {"idle", "dead"}

\* sl_slamkit_driver.h line 94, "Wait timeout": a wait with a timeout returns.
\* Not so once fewer bytes are queued than it waits for: select() then never
\* reports a timeout.
TimedWaitReturns ==
  (pc = "select" /\ limit # Forever) ~> pc \in {"idle", "dead"}
=============================================================================
