----------------------------- MODULE UsbChannel -----------------------------
(***************************************************************************)
(* The life cycle and the transmit side of USBChannel                      *)
(* (sl_usb_channel.cpp): open(), close(), the pipeline thread that handles *)
(* libusb's events, and write() with its completion event.  The receive    *)
(* side, which shares none of this state, is module UsbRx.                 *)
(*                                                                         *)
(* Three kinds of threads run here.  The controller opens and closes the   *)
(* channel; the writers call write(); the pipeline thread, created by      *)
(* open() and joined by close(), is the only one that lets libusb report   *)
(* a transfer.  The device, through libusb, finishes submitted transfers.  *)
(* _tx_completion_signal is the latch of EventSpec: _op_lock lets only one *)
(* writer wait on it, which is the case in which module Event implements   *)
(* that latch, unless its condition variable wakes without being signalled *)
(* (Spurious).                                                             *)
(***************************************************************************)
EXTENDS Naturals, FiniteSets

CONSTANTS Writers,     \* threads that call write()
          NoWriter,    \* not one of them
          OpenFaults,  \* the calls in open() that may fail
          Spurious,    \* may wait() answer EVENT_OK for an event nobody set?
          MaxOpens     \* bound: how often open() is called

ASSUME UsbAssumption ==
  /\ NoWriter \notin Writers
  /\ OpenFaults \subseteq {"init", "device", "detach", "claim", "txalloc", "rxalloc"}
  /\ Spurious \in BOOLEAN
  /\ MaxOpens \in Nat

VARIABLES
  \* what open() acquires and close() gives back
  ctx,        \* what _ctx refers to: "null", "live" or "exited"
  handle,     \* _dev_handle # NULL
  claimed,    \* _is_interface_clamed
  tx,         \* _tx_libusb_transfer: "null", "idle", "flight" (submitted) or
              \* "done" (finished, but its callback has not run)
  rx,         \* _rx_libusb_transfer # NULL
  \* the pipeline thread
  working,    \* _is_pipe_working
  pipe,       \* "none", "check" (about to read the flag), "serving", "ended"
  \* the transmit side
  status,     \* _tx_libusb_transfer->status
  buffer,     \* the writer whose data _tx_libusb_transfer->buffer refers to
  signal,     \* _tx_completion_signal
  opLock,     \* the owner of _op_lock
  pc,         \* where each writer is in write()
  ret,        \* what its last write() returned
  \* the controller
  ctl,        \* "idle", "opening", "joining" or "destroyed"
  connected,  \* SlamtecSlamkitDriver::_isConnected
  \* history
  opens,      \* calls of open() so far
  failed,     \* open() calls that failed, by the failing step
  lost,       \* resources no pointer refers to any more
  misused,    \* was libusb given an object that had been given back?
  early       \* has a wait() answered EVENT_OK for an event nobody set?

life == <<ctx, handle, claimed, rx>>
pipeline == <<working, pipe>>
transmit == <<status, buffer, signal, opLock, pc, ret>>
control == <<ctl, connected>>
history == <<opens, failed, lost, misused, early>>
vars == <<life, tx, pipeline, transmit, control, history>>

Faults == {"init", "device", "detach", "claim", "txalloc", "rxalloc"}

\* open() fails late when it gives the context back but keeps the pointers.
LateFaults == {"detach", "claim", "txalloc", "rxalloc"}

Statuses == {"completed", "stall", "other"}

Init ==
  /\ ctx = "null" /\ handle = FALSE /\ claimed = FALSE
  /\ tx = "null" /\ rx = FALSE
  /\ working = FALSE /\ pipe = "none"
  /\ status = "other" /\ buffer = NoWriter /\ signal = FALSE /\ opLock = NoWriter
  /\ pc = [w \in Writers |-> "idle"]
  /\ ret = [w \in Writers |-> "none"]
  /\ ctl = "idle" /\ connected = FALSE
  /\ opens = 0 /\ failed = {} /\ lost = {} /\ misused = FALSE /\ early = FALSE
-----------------------------------------------------------------------------
\* What an assignment to a pointer leaves behind.
Overwritten(resource, held) == IF held THEN {resource} ELSE {}

\* connect() calls open() only while it is not connected.
MayOpen ==
  /\ ctl = "idle" /\ ~connected
  /\ opens < MaxOpens
  /\ opens' = opens + 1
  /\ UNCHANGED <<pipeline, transmit, misused, early>>

\* libusb_init or libusb_open_device_with_vid_pid fails: open() returns and
\* gives nothing back.  A failed libusb_init leaves _ctx as it was.
OpenFailsEarly(fault) ==
  /\ MayOpen
  /\ fault \in OpenFaults \ LateFaults
  /\ failed' = failed \cup {fault}
  /\ \/ /\ fault = "init"
        /\ UNCHANGED <<ctx, handle, lost>>
     \/ /\ fault = "device"
        /\ ctx' = "live"
        /\ handle' = FALSE
        /\ lost' = lost \cup Overwritten("context", ctx = "live")
                        \cup Overwritten("handle", handle)
  /\ UNCHANGED <<claimed, tx, rx, control>>

\* A later step fails: libusb_exit(_ctx), and every pointer is kept.
OpenFailsLate(fault) ==
  /\ MayOpen
  /\ fault \in OpenFaults \cap LateFaults
  /\ failed' = failed \cup {fault}
  /\ ctx' = "exited"
  /\ handle' = TRUE
  /\ claimed' = (claimed \/ fault \in {"txalloc", "rxalloc"})
  /\ tx' = CASE fault = "txalloc" -> "null"
             [] fault = "rxalloc" -> "idle"
             [] OTHER -> tx
  /\ rx' = (rx /\ fault # "rxalloc")
  /\ lost' = lost \cup Overwritten("context", ctx = "live")
                  \cup Overwritten("handle", handle)
                  \cup Overwritten("transfer", \/ fault \in {"txalloc", "rxalloc"} /\ tx # "null"
                                               \/ fault = "rxalloc" /\ rx)
  /\ UNCHANGED control

\* Every step succeeds, and start_pipe_line() creates the thread.  The thread
\* may run before the flag it looks at is set (OpenReturns).  libusb zeroes a
\* new transfer, and the status 0 means completed.
Open ==
  /\ ctl = "idle" /\ ~connected
  /\ opens < MaxOpens
  /\ opens' = opens + 1
  /\ ctx' = "live" /\ handle' = TRUE /\ claimed' = TRUE
  /\ tx' = "idle" /\ rx' = TRUE /\ status' = "completed"
  /\ pipe' = "check"
  /\ ctl' = "opening"
  /\ lost' = lost \cup Overwritten("context", ctx = "live")
                  \cup Overwritten("handle", handle)
                  \cup Overwritten("transfer", tx # "null" \/ rx)
  /\ UNCHANGED <<working, buffer, signal, opLock, pc, ret, connected, failed, misused, early>>

\* start_pipe_line() stores the flag; open() and connect() return.
OpenReturns ==
  /\ ctl = "opening"
  /\ working' = TRUE
  /\ ctl' = "idle"
  /\ connected' = TRUE
  /\ UNCHANGED <<life, tx, pipe, transmit, history>>
-----------------------------------------------------------------------------
\* libusb is misused when a claim is released on a handle that is NULL or of
\* an exited context, when such a handle is closed, or when a transfer that
\* libusb still works on is freed.
MisusedByClose ==
  \/ claimed /\ ~handle
  \/ handle /\ ctx # "live"
  \/ tx \in {"flight", "done"}

\* Seeded faults: slips in close(), in the pipeline thread and in write()
\* that the properties must notice.  The specification uses none of them.
GiveBackKeepsClaim ==
  /\ ctx' = "null" /\ handle' = FALSE
  /\ tx' = "null" /\ rx' = FALSE
  /\ misused' = (misused \/ MisusedByClose)
  /\ lost' = lost \cup Overwritten("context", ~handle /\ ctx = "live")
  /\ UNCHANGED <<claimed, transmit, opens, failed, early>>

GiveBackKeepsRx ==
  /\ ctx' = "null" /\ handle' = FALSE /\ claimed' = FALSE
  /\ tx' = "null"
  /\ misused' = (misused \/ MisusedByClose)
  /\ lost' = lost \cup Overwritten("context", ~handle /\ ctx = "live")
  /\ UNCHANGED <<rx, transmit, opens, failed, early>>

CloseWithoutJoin ==
  /\ ctl = "idle" /\ connected
  /\ \A w \in Writers : pc[w] = "idle"
  /\ working' = FALSE
  /\ connected' = FALSE
  /\ GiveBackKeepsRx
  /\ UNCHANGED <<pipe, ctl>>

CloseKeepsFlag ==
  /\ ctl = "idle" /\ connected
  /\ \A w \in Writers : pc[w] = "idle"
  /\ ctl' = "joining"
  /\ UNCHANGED <<life, tx, pipeline, transmit, connected, history>>

CallbackSetsRxEvent ==
  /\ pipe = "serving"
  /\ tx = "done"
  /\ tx' = "idle"
  /\ pipe' = "check"
  /\ UNCHANGED <<life, working, transmit, control, history>>

TimeoutSetsEvent ==
  /\ pipe = "serving"
  /\ signal' = TRUE
  /\ pipe' = "check"
  /\ UNCHANGED <<life, tx, working, status, buffer, opLock, pc, ret, control, history>>

WriteGivesUp(w) ==
  /\ pc[w] = "waiting"
  /\ ret' = [ret EXCEPT ![w] = "zero"]
  /\ pc' = [pc EXCEPT ![w] = "idle"]
  /\ opLock' = NoWriter
  /\ UNCHANGED <<life, tx, pipeline, status, buffer, signal, control, history>>

WriteReturnsStatus(w) ==
  /\ pc[w] = "waiting"
  /\ signal
  /\ signal' = FALSE
  /\ ret' = [ret EXCEPT ![w] = status]
  /\ pc' = [pc EXCEPT ![w] = "idle"]
  /\ opLock' = NoWriter
  /\ UNCHANGED <<life, tx, pipeline, status, buffer, control, history>>
-----------------------------------------------------------------------------
\* The part of close() behind the join.
GiveBack ==
  /\ ctx' = "null" /\ handle' = FALSE /\ claimed' = FALSE
  /\ tx' = "null" /\ rx' = FALSE
  /\ misused' = (misused \/ MisusedByClose)
  /\ lost' = lost \cup Overwritten("context", ~handle /\ ctx = "live")
  /\ UNCHANGED <<transmit, opens, failed, early>>

\* disconnect() takes no lock, so the caller keeps it apart from the requests
\* of other threads; it closes the channel only while it is connected.
Close ==
  /\ ctl = "idle" /\ connected
  /\ \A w \in Writers : pc[w] = "idle"
  /\ working
  /\ working' = FALSE
  /\ ctl' = "joining"
  /\ UNCHANGED <<life, tx, pipe, transmit, connected, history>>

CloseReturns ==
  /\ ctl = "joining"
  /\ pipe = "ended"
  /\ pipe' = "none"
  /\ ctl' = "idle"
  /\ connected' = FALSE
  /\ GiveBack
  /\ UNCHANGED working

\* ~USBChannel of a channel that is not connected runs close() once more.
Destroy ==
  /\ ctl = "idle" /\ ~connected
  /\ ctl' = "destroyed"
  /\ GiveBack
  /\ UNCHANGED <<pipeline, connected>>
-----------------------------------------------------------------------------
\* pipeline_handler reads _is_pipe_working.
PipeCheck ==
  /\ pipe = "check"
  /\ pipe' = IF working THEN "serving" ELSE "ended"
  /\ UNCHANGED <<life, tx, working, transmit, control, history>>

\* libusb_handle_events_timeout reports the finished transfer:
\* transfer_cb_proc sets the completion event.
PipeReports ==
  /\ pipe = "serving"
  /\ tx = "done"
  /\ tx' = "idle"
  /\ signal' = TRUE
  /\ pipe' = "check"
  /\ misused' = (misused \/ ctx # "live")
  /\ UNCHANGED <<life, working, status, buffer, opLock, pc, ret, control,
                 opens, failed, lost, early>>

\* It returns after its second without an event, or with an error.
PipeTimesOut ==
  /\ pipe = "serving"
  /\ pipe' = "check"
  /\ misused' = (misused \/ ctx # "live")
  /\ UNCHANGED <<life, tx, working, transmit, control, opens, failed, lost, early>>

\* The device acknowledges, stalls or disappears, or the 3 s are over.
DeviceFinishes(s) ==
  /\ tx = "flight"
  /\ tx' = "done"
  /\ status' = s
  /\ UNCHANGED <<life, pipeline, buffer, signal, opLock, pc, ret, control, history>>
-----------------------------------------------------------------------------
\* write() under _op_lock: the transfer gets the caller's buffer and the
\* event is reset.  The driver lets nobody write while it is not connected.
WritePrepares(w) ==
  /\ pc[w] = "idle"
  /\ connected /\ ctl = "idle"
  /\ opLock = NoWriter
  /\ tx # "null"
  /\ opLock' = w
  /\ buffer' = w
  /\ signal' = FALSE
  /\ pc' = [pc EXCEPT ![w] = "prepared"]
  /\ UNCHANGED <<life, tx, pipeline, status, ret, control, history>>

WriteSubmits(w) ==
  /\ pc[w] = "prepared"
  /\ tx = "idle"
  /\ tx' = "flight"
  /\ misused' = (misused \/ ctx # "live")
  /\ pc' = [pc EXCEPT ![w] = "waiting"]
  /\ UNCHANGED <<life, pipeline, status, buffer, signal, opLock, ret, control,
                 opens, failed, lost, early>>

\* libusb_submit_transfer fails, as it does for a transfer that is still under
\* way; write() returns 0.  What it cancels is finished by DeviceFinishes.
WriteSubmitFails(w) ==
  /\ pc[w] = "prepared"
  /\ pc' = [pc EXCEPT ![w] = "idle"]
  /\ ret' = [ret EXCEPT ![w] = "zero"]
  /\ opLock' = NoWriter
  /\ UNCHANGED <<life, tx, pipeline, status, buffer, signal, control, history>>

\* The rest of write(), behind the wait.
WriteEnds(w) ==
  /\ ret' = [ret EXCEPT ![w] = IF status = "completed" THEN "length" ELSE "zero"]
  /\ pc' = [pc EXCEPT ![w] = "idle"]
  /\ opLock' = NoWriter
  /\ UNCHANGED <<life, tx, pipeline, status, buffer, control>>

\* The wait for the event, which has no deadline, ends with the event.
WriteReturns(w) ==
  /\ pc[w] = "waiting"
  /\ signal
  /\ signal' = FALSE
  /\ WriteEnds(w)
  /\ UNCHANGED history

\* The condition variable wakes without being signalled, and wait(), which does
\* not test the event again, answers EVENT_OK while the transfer is under way.
WriteWakesEarly(w) ==
  /\ Spurious
  /\ pc[w] = "waiting"
  /\ ~signal
  /\ early' = TRUE
  /\ WriteEnds(w)
  /\ UNCHANGED <<signal, opens, failed, lost, misused>>
-----------------------------------------------------------------------------
Pipe == PipeCheck \/ PipeReports \/ PipeTimesOut

Write(w) ==
  \/ WritePrepares(w) \/ WriteSubmits(w) \/ WriteSubmitFails(w)
  \/ WriteReturns(w) \/ WriteWakesEarly(w)

Control ==
  \/ \E fault \in Faults : OpenFailsEarly(fault) \/ OpenFailsLate(fault)
  \/ Open \/ OpenReturns \/ Close \/ CloseReturns \/ Destroy

Next ==
  \/ Control
  \/ Pipe
  \/ \E s \in Statuses : DeviceFinishes(s)
  \/ \E w \in Writers : Write(w)

Spec == Init /\ [][Next]_vars

\* The scheduler runs every thread that can run.  libusb_handle_events_timeout
\* reports a finished transfer before it reports that nothing happened, and
\* libusb finishes a transfer after TX_TICKET_TIMEOUT at the latest.  Nobody
\* has to open, to close or to start a write.
FairSpec ==
  /\ Spec
  /\ WF_vars(PipeCheck) /\ WF_vars(PipeTimesOut) /\ SF_vars(PipeReports)
  /\ WF_vars(\E s \in Statuses : DeviceFinishes(s))
  /\ WF_vars(OpenReturns) /\ WF_vars(CloseReturns)
  /\ \A w \in Writers :
        WF_vars(WriteSubmits(w) \/ WriteSubmitFails(w)) /\ WF_vars(WriteReturns(w))
-----------------------------------------------------------------------------
\* The variables range over the values above.
LifeTypeOK ==
  /\ ctx \in {"null", "live", "exited"}
  /\ handle \in BOOLEAN /\ claimed \in BOOLEAN /\ rx \in BOOLEAN
  /\ tx \in {"null", "idle", "flight", "done"}
  /\ working \in BOOLEAN /\ pipe \in {"none", "check", "serving", "ended"}

TransmitTypeOK ==
  /\ status \in Statuses /\ signal \in BOOLEAN
  /\ buffer \in Writers \cup {NoWriter} /\ opLock \in Writers \cup {NoWriter}
  /\ pc \in [Writers -> {"idle", "prepared", "waiting"}]
  /\ ret \in [Writers -> {"none", "length", "zero"}]

ControlTypeOK ==
  /\ ctl \in {"idle", "opening", "joining", "destroyed"} /\ connected \in BOOLEAN
  /\ opens \in 0..MaxOpens /\ failed \subseteq Faults
  /\ lost \subseteq {"context", "handle", "transfer"}
  /\ misused \in BOOLEAN /\ early \in BOOLEAN

TypeOK == LifeTypeOK /\ TransmitTypeOK /\ ControlTypeOK

\* As long as no wait() has answered EVENT_OK for an event nobody set:
\* while libusb may read the caller's data, the caller is inside write() and
\* nobody else can get at the transfer.  The data is a local array of
\* _sendCommand, gone when write() returns.
BufferOwnedUntilDone ==
  tx \in {"flight", "done"} =>
     early \/ \E w \in Writers : buffer = w /\ opLock = w /\ pc[w] = "waiting"

\* As long as no wait() has answered EVENT_OK for an event nobody set: the
\* completion event is up only for the writer whose transfer has just been
\* reported, so the status that write() reads is that of its own transfer.
SignalIsForItsWriter ==
  signal /\ ~early =>
     /\ tx = "idle"
     /\ \E w \in Writers : buffer = w /\ opLock = w /\ pc[w] = "waiting"

\* As long as no wait() has answered EVENT_OK for an event nobody set, this
\* write()'s own wait included: when write() returns the length, the device has
\* completed the transfer that it submitted.
WrittenBytesWereSent ==
  [][\A w \in Writers :
       pc[w] = "waiting" /\ pc'[w] = "idle" /\ ret'[w] = "length" /\ ~early'
         => tx # "flight" /\ status = "completed"]_vars

\* The thread that calls libusb_handle_events_timeout(_ctx) is gone before
\* close() exits the context, however close() and the thread interleave.
ContextOutlivesPipeline ==
  pipe \in {"check", "serving"} => ctx = "live" /\ handle /\ tx # "null"

\* There are two ways to hand libusb what it no longer knows, or still works
\* on: an open() that failed behind libusb_open_device_with_vid_pid (lines
\* 111-155, then 184-213), and a write() whose wait() ended early and left its
\* transfer under way.
MisuseIsExplained ==
  misused => early \/ failed \cap LateFaults # {}

\* What the channel loses is lost by the failure that explains it: a context
\* by a missing device (line 103 is commented out), a handle by a failure
\* behind the open, a transfer by a failed allocation.
LossesAreExplained ==
  /\ "context" \in lost => "device" \in failed
  /\ "handle" \in lost => failed \cap LateFaults # {}
  /\ "transfer" \in lost => "rxalloc" \in failed

\* A channel that is not open has no thread, so the next open() assigns
\* _pipe_thread over a thread that was joined; and if no open() failed it
\* holds nothing at all.
ClosedIsClean ==
  ctl \in {"idle", "destroyed"} /\ ~connected =>
     /\ pipe = "none" /\ ~working
     /\ failed = {} => ctx = "null" /\ ~handle /\ ~claimed /\ tx = "null" /\ ~rx

\* write() comes back when the pipeline thread is there to report its
\* transfer, although its own wait has no deadline, and also when an earlier
\* write() ended too early.
WriteCompletes ==
  \A w \in Writers : (pc[w] = "waiting" /\ pipe # "ended") ~> pc[w] = "idle"

\* close() comes back from joining the pipeline thread.
CloseCompletes ==
  ctl = "joining" ~> ctl = "idle"

\* CHANGELOG.rst line 7 lists as fixed that the pipeline thread cannot start:
\* an open channel has its pipeline thread.
PipelineRuns ==
  connected /\ ctl = "idle" => pipe # "ended"
=============================================================================
