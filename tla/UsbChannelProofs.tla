-------------------------- MODULE UsbChannelProofs --------------------------
(***************************************************************************)
(* Theorems about UsbChannel, for any set of writers, any set of failing   *)
(* steps of open() and any number of calls of open().                      *)
(***************************************************************************)
EXTENDS UsbChannel, TLAPS

\* Every reachable state of the channel is well typed.
THEOREM Typing == Spec => []TypeOK
  <1>1. Init => TypeOK
    <2>1. 0 \in 0..MaxOpens
      BY UsbAssumption DEF UsbAssumption
    <2>2. QED
      BY <2>1 DEF Init, TypeOK, LifeTypeOK, TransmitTypeOK, ControlTypeOK, Statuses
  <1>2. TypeOK /\ [Next]_vars => TypeOK'
    <2> SUFFICES ASSUME TypeOK, [Next]_vars PROVE TypeOK'
      OBVIOUS
    <2> USE DEF TypeOK, LifeTypeOK, TransmitTypeOK, ControlTypeOK, Statuses
    <2>0. opens < MaxOpens => opens + 1 \in 0..MaxOpens
      BY UsbAssumption DEF UsbAssumption
    <2>1. ASSUME NEW fault \in Faults, OpenFailsEarly(fault) PROVE TypeOK'
      <3>1. failed' \subseteq Faults
        BY <2>1 DEF OpenFailsEarly
      <3>2. lost' \subseteq {"context", "handle", "transfer"}
        BY <2>1 DEF OpenFailsEarly, Overwritten
      <3>3. ctx' \in {"null", "live", "exited"} /\ handle' \in BOOLEAN
        BY <2>1 DEF OpenFailsEarly
      <3>4. opens' \in 0..MaxOpens
        BY <2>0, <2>1 DEF OpenFailsEarly, MayOpen
      <3>5. UNCHANGED <<claimed, tx, rx, misused, early>>
            /\ UNCHANGED pipeline /\ UNCHANGED transmit /\ UNCHANGED control
        BY <2>1 DEF OpenFailsEarly, MayOpen
      <3>6. QED
        BY <3>1, <3>2, <3>3, <3>4, <3>5 DEF pipeline, transmit, control
    <2>2. ASSUME NEW fault \in Faults, OpenFailsLate(fault) PROVE TypeOK'
      <3>1. failed' \subseteq Faults
        BY <2>2 DEF OpenFailsLate
      <3>2. lost' \subseteq {"context", "handle", "transfer"}
        BY <2>2 DEF OpenFailsLate, Overwritten
      <3>3. claimed' \in BOOLEAN /\ rx' \in BOOLEAN
        BY <2>2 DEF OpenFailsLate
      <3>4. QED
        BY <2>0, <2>2, <3>1, <3>2, <3>3
        DEF OpenFailsLate, MayOpen, pipeline, transmit, control
    <2>3. CASE Open
      BY <2>0, <2>3 DEF Open, Overwritten, transmit
    <2>4. CASE OpenReturns
      BY <2>4 DEF OpenReturns, life, transmit, history
    <2>5. CASE Close
      <3>1. working' = FALSE /\ ctl' = "joining"
            /\ UNCHANGED <<life, tx, pipe, transmit, connected, history>>
        BY <2>5 DEF Close
      <3>2. LifeTypeOK'
        BY <3>1 DEF life
      <3>3. TransmitTypeOK'
        BY <3>1 DEF transmit
      <3>4. ControlTypeOK'
        BY <3>1 DEF history
      <3>5. QED
        BY <3>2, <3>3, <3>4 DEF TypeOK
    <2>6. CASE CloseReturns
      <3>1. misused' \in BOOLEAN
        BY <2>6 DEF CloseReturns, GiveBack
      <3>2. QED
        BY <2>6, <3>1 DEF CloseReturns, GiveBack, Overwritten, transmit
    <2>7. CASE Destroy
      <3>1. misused' \in BOOLEAN
        BY <2>7 DEF Destroy, GiveBack
      <3>2. QED
        BY <2>7, <3>1 DEF Destroy, GiveBack, Overwritten, transmit, pipeline
    <2>8. CASE PipeCheck
      BY <2>8 DEF PipeCheck, life, transmit, control, history
    <2>9. CASE PipeReports
      <3>1. misused' \in BOOLEAN
        BY <2>9 DEF PipeReports
      <3>2. QED
        BY <2>9, <3>1 DEF PipeReports, life, control
    <2>10. CASE PipeTimesOut
      <3>1. misused' \in BOOLEAN
        BY <2>10 DEF PipeTimesOut
      <3>2. QED
        BY <2>10, <3>1 DEF PipeTimesOut, life, transmit, control
    <2>11. ASSUME NEW s \in Statuses, DeviceFinishes(s) PROVE TypeOK'
      BY <2>11 DEF DeviceFinishes, life, pipeline, control, history
    <2>12. ASSUME NEW w \in Writers, WritePrepares(w) PROVE TypeOK'
      <3>1. pc' \in [Writers -> {"idle", "prepared", "waiting"}]
        BY <2>12 DEF WritePrepares
      <3>2. LifeTypeOK'
        BY <2>12 DEF WritePrepares, life, pipeline
      <3>3. TransmitTypeOK'
        BY <2>12, <3>1 DEF WritePrepares
      <3>4. ControlTypeOK'
        BY <2>12 DEF WritePrepares, control, history
      <3>5. QED
        BY <3>2, <3>3, <3>4 DEF TypeOK
    <2>13. ASSUME NEW w \in Writers, WriteSubmits(w) PROVE TypeOK'
      <3>1. misused' \in BOOLEAN
        BY <2>13 DEF WriteSubmits
      <3>2. QED
        BY <2>13, <3>1 DEF WriteSubmits, life, pipeline, control
    <2>14. ASSUME NEW w \in Writers, WriteSubmitFails(w) PROVE TypeOK'
      BY <2>14 DEF WriteSubmitFails, life, pipeline, control, history
    <2>15. ASSUME NEW w \in Writers, WriteEnds(w),
                  signal' \in BOOLEAN, early' \in BOOLEAN,
                  UNCHANGED <<opens, failed, lost, misused>>
           PROVE  TypeOK'
      <3>1. pc' \in [Writers -> {"idle", "prepared", "waiting"}]
        BY <2>15 DEF WriteEnds
      <3>2. ret' \in [Writers -> {"none", "length", "zero"}]
        BY <2>15 DEF WriteEnds
      <3>3. LifeTypeOK'
        BY <2>15 DEF WriteEnds, life, pipeline
      <3>4. TransmitTypeOK'
        BY <2>15, <3>1, <3>2 DEF WriteEnds
      <3>5. ControlTypeOK'
        BY <2>15 DEF WriteEnds, control
      <3>6. QED
        BY <3>3, <3>4, <3>5 DEF TypeOK
    <2>16. ASSUME NEW w \in Writers, WriteReturns(w) PROVE TypeOK'
      BY <2>15, <2>16 DEF WriteReturns, history
    <2>17. ASSUME NEW w \in Writers, WriteWakesEarly(w) PROVE TypeOK'
      BY <2>15, <2>17 DEF WriteWakesEarly
    <2>18. CASE UNCHANGED vars
      BY <2>18 DEF vars, life, pipeline, transmit, control, history
    <2>19. QED
      BY <2>1, <2>2, <2>3, <2>4, <2>5, <2>6, <2>7, <2>8, <2>9, <2>10, <2>11,
         <2>12, <2>13, <2>14, <2>16, <2>17, <2>18
      DEF Next, Control, Pipe, Write
  <1>3. QED
    BY <1>1, <1>2, PTL DEF Spec
-----------------------------------------------------------------------------
\* The driver's view of the channel while it may be used.
InUse == connected \/ ctl \in {"opening", "joining"}

\* The thread and its flag follow the controller; the flag goes up only after
\* the thread exists, and the thread is joined before the controller rests.
PipelineFollowsControl ==
  /\ ctl = "destroyed" => ~connected
  /\ ctl = "opening" => ~connected /\ ~working /\ pipe \in {"check", "ended"}
  /\ ctl = "joining" => connected /\ ~working /\ pipe # "none"
  /\ ctl = "idle" /\ connected => working /\ pipe # "none"
  /\ ~InUse => ~working /\ pipe = "none"

\* A channel in use holds everything open() acquires.
HeldInUse ==
  InUse => ctx = "live" /\ handle /\ claimed /\ tx # "null" /\ rx

\* One writer at a time, the owner of _op_lock, and only on a channel that is
\* open.
WriterHoldsLock ==
  \A w \in Writers :
     /\ pc[w] # "idle" <=> opLock = w
     /\ opLock = w => buffer = w /\ connected /\ ctl = "idle"

\* The transfer and the event are the writer's, and nobody's transfer is
\* neither under way nor reported, until a wait() has returned too early.
WriterOwnsTransfer ==
  ~early =>
     \A w \in Writers :
        /\ pc[w] = "prepared" => tx = "idle" /\ ~signal
        /\ pc[w] = "waiting" => tx \in {"flight", "done"} \/ signal

QuietWithoutWriter ==
  ~early =>
    (tx \in {"flight", "done"} \/ signal =>
       /\ \E w \in Writers : opLock = w /\ pc[w] = "waiting"
       /\ tx \in {"flight", "done"} => ~signal
       /\ signal => tx = "idle")

TransmitInv ==
  /\ PipelineFollowsControl /\ HeldInUse /\ WriterHoldsLock
  /\ WriterOwnsTransfer /\ QuietWithoutWriter

LEMMA TransmitInvariant == Spec => []TransmitInv
  <1> USE DEF TransmitInv, PipelineFollowsControl, HeldInUse, InUse, WriterHoldsLock
  <1>1. Init => TransmitInv
    BY UsbAssumption DEF Init, WriterOwnsTransfer, QuietWithoutWriter, UsbAssumption
  <1>2. TypeOK /\ TransmitInv /\ [Next]_vars => TransmitInv'
    <2> SUFFICES ASSUME TypeOK, TransmitInv, [Next]_vars PROVE TransmitInv'
      OBVIOUS
    <2> USE UsbAssumption DEF TypeOK, LifeTypeOK, TransmitTypeOK, ControlTypeOK,
                              WriterOwnsTransfer, QuietWithoutWriter
    <2>1. ASSUME NEW fault \in Faults, OpenFailsEarly(fault) PROVE TransmitInv'
      BY <2>1 DEF OpenFailsEarly, MayOpen, pipeline, transmit, control
    <2>2. ASSUME NEW fault \in Faults, OpenFailsLate(fault) PROVE TransmitInv'
      BY <2>2 DEF OpenFailsLate, MayOpen, pipeline, transmit, control
    <2>3. CASE Open
      BY <2>3 DEF Open, transmit
    <2>4. CASE OpenReturns
      BY <2>4 DEF OpenReturns, life, transmit, history
    <2>5. CASE Close
      BY <2>5 DEF Close, life, transmit, history
    <2>6. CASE CloseReturns
      BY <2>6 DEF CloseReturns, GiveBack, transmit
    <2>7. CASE Destroy
      BY <2>7 DEF Destroy, GiveBack, transmit, pipeline
    <2>8. CASE PipeCheck
      BY <2>8 DEF PipeCheck, life, transmit, control, history
    <2>9. CASE PipeReports
      BY <2>9 DEF PipeReports, life, control
    <2>10. CASE PipeTimesOut
      BY <2>10 DEF PipeTimesOut, life, transmit, control
    <2>11. ASSUME NEW s \in Statuses, DeviceFinishes(s) PROVE TransmitInv'
      BY <2>11 DEF DeviceFinishes, life, pipeline, control, history
    <2>12. ASSUME NEW w \in Writers, WritePrepares(w) PROVE TransmitInv'
      BY <2>12 DEF WritePrepares, life, pipeline, control, history, UsbAssumption
    <2>13. ASSUME NEW w \in Writers, WriteSubmits(w) PROVE TransmitInv'
      BY <2>13 DEF WriteSubmits, life, pipeline, control
    <2>14. ASSUME NEW w \in Writers, WriteSubmitFails(w) PROVE TransmitInv'
      BY <2>14 DEF WriteSubmitFails, life, pipeline, control, history, UsbAssumption
    <2>15. ASSUME NEW w \in Writers, WriteReturns(w) PROVE TransmitInv'
      BY <2>15 DEF WriteReturns, WriteEnds, life, pipeline, control, history, UsbAssumption
    <2>16. ASSUME NEW w \in Writers, WriteWakesEarly(w) PROVE TransmitInv'
      BY <2>16 DEF WriteWakesEarly, WriteEnds, life, pipeline, control, UsbAssumption
    <2>17. CASE UNCHANGED vars
      BY <2>17 DEF vars, life, pipeline, transmit, control, history
    <2>18. QED
      BY <2>1, <2>2, <2>3, <2>4, <2>5, <2>6, <2>7, <2>8, <2>9, <2>10, <2>11,
         <2>12, <2>13, <2>14, <2>15, <2>16, <2>17
      DEF Next, Control, Pipe, Write
  <1>3. QED
    BY <1>1, <1>2, Typing, PTL DEF Spec

\* For any number of writers, and until a wait() has ended early, the data of a
\* transfer under way belongs to a writer that is waiting for it with _op_lock
\* held.
THEOREM BufferIsOwned == Spec => []BufferOwnedUntilDone
  <1>1. TransmitInv => BufferOwnedUntilDone
    BY DEF TransmitInv, WriterHoldsLock, WriterOwnsTransfer, QuietWithoutWriter, BufferOwnedUntilDone
  <1>2. QED
    BY <1>1, TransmitInvariant, PTL

\* For any number of writers, and until a wait() has ended early, a raised
\* completion event is the reply to the transfer of the one writer that waits
\* for it.
THEOREM SignalIsOwned == Spec => []SignalIsForItsWriter
  <1>1. TransmitInv => SignalIsForItsWriter
    BY DEF TransmitInv, WriterHoldsLock, WriterOwnsTransfer, QuietWithoutWriter, SignalIsForItsWriter
  <1>2. QED
    BY <1>1, TransmitInvariant, PTL

\* For any number of writers, and until a wait() has ended early, write()
\* returns the length only for a transfer of its own that the device has
\* completed.
THEOREM WritesAreCounted == Spec => WrittenBytesWereSent
  <1> DEFINE Counted ==
        \A w \in Writers :
          pc[w] = "waiting" /\ pc'[w] = "idle" /\ ret'[w] = "length" /\ ~early'
            => tx # "flight" /\ status = "completed"
  <1>1. TypeOK /\ TransmitInv /\ [Next]_vars => [Counted]_vars
    <2> SUFFICES ASSUME TypeOK, TransmitInv, Next,
                        NEW w \in Writers,
                        pc[w] = "waiting", pc'[w] = "idle", ret'[w] = "length", ~early'
                 PROVE  tx # "flight" /\ status = "completed"
      OBVIOUS
    <2>1. pc' # pc
      OBVIOUS
    <2>2. PICK v \in Writers : Write(v)
      BY <2>1 DEF Next, Control, Pipe, OpenFailsEarly, OpenFailsLate, MayOpen, Open,
         OpenReturns, Close, CloseReturns, Destroy, GiveBack, PipeCheck, PipeReports,
         PipeTimesOut, DeviceFinishes, transmit
    <2>3. WriteReturns(v) /\ v = w
      BY <2>2 DEF Write, WritePrepares, WriteSubmits, WriteSubmitFails, WriteReturns,
         WriteWakesEarly, WriteEnds, TypeOK, TransmitTypeOK, TransmitInv, WriterHoldsLock
    <2>4. signal /\ ~early /\ status = "completed"
      BY <2>3 DEF WriteReturns, WriteEnds, history, TypeOK, TransmitTypeOK
    <2>5. QED
      BY <2>4 DEF TransmitInv, QuietWithoutWriter
  <1>2. QED
    BY <1>1, Typing, TransmitInvariant, PTL DEF Spec, WrittenBytesWereSent

\* Whatever fails in open() and however often the channel is reopened, the
\* pipeline thread works on a context that has not been exited.
THEOREM PipelineContextLives == Spec => []ContextOutlivesPipeline
  <1>1. TransmitInv => ContextOutlivesPipeline
    BY DEF TransmitInv, PipelineFollowsControl, HeldInUse, InUse, ContextOutlivesPipeline
  <1>2. QED
    BY <1>1, TransmitInvariant, PTL
-----------------------------------------------------------------------------
\* Unless open() failed late, nothing is misused before a wait() ended early, what
\* channel not in use holds at most a context (of an open() without device).
ResourceInv ==
  /\ failed \cap LateFaults = {} =>
        /\ misused => early
        /\ handle => ctx = "live"
        /\ claimed => handle
        /\ ~InUse => ~handle /\ ~claimed /\ tx = "null" /\ ~rx
  /\ failed = {} /\ ~InUse => ctx = "null"

LEMMA ResourceInvariant == Spec => []ResourceInv
  <1> USE DEF ResourceInv, InUse, LateFaults
  <1>1. Init => ResourceInv
    BY DEF Init
  <1>2. TypeOK /\ TransmitInv /\ ResourceInv /\ [Next]_vars => ResourceInv'
    <2> SUFFICES ASSUME TypeOK, TransmitInv, ResourceInv, [Next]_vars
                 PROVE ResourceInv'
      OBVIOUS
    <2>1. ASSUME NEW fault \in Faults, OpenFailsEarly(fault) PROVE ResourceInv'
      BY <2>1 DEF OpenFailsEarly, MayOpen, pipeline, transmit, control
    <2>2. ASSUME NEW fault \in Faults, OpenFailsLate(fault) PROVE ResourceInv'
      BY <2>2 DEF OpenFailsLate, MayOpen, pipeline, transmit, control
    <2>3. CASE Open
      BY <2>3 DEF Open, transmit
    <2>4. CASE OpenReturns
      BY <2>4 DEF OpenReturns, life, transmit, history
    <2>5. CASE Close
      BY <2>5 DEF Close, life, transmit, history
    <2>6. CASE CloseReturns
      <3>1. ~early => tx \notin {"flight", "done"}
        BY <2>6 DEF CloseReturns, TransmitInv, QuietWithoutWriter, WriterHoldsLock
      <3>2. QED
        BY <2>6, <3>1 DEF CloseReturns, GiveBack, MisusedByClose
    <2>7. CASE Destroy
      BY <2>7 DEF Destroy, GiveBack, MisusedByClose, pipeline
    <2>8. CASE PipeCheck
      BY <2>8 DEF PipeCheck, life, control, history
    <2>9. CASE PipeReports
      <3>1. ctx = "live" /\ InUse
        BY <2>9 DEF PipeReports, TransmitInv, PipelineFollowsControl, HeldInUse
      <3>2. QED
        BY <2>9, <3>1 DEF PipeReports, life, control
    <2>10. CASE PipeTimesOut
      <3>1. ctx = "live"
        BY <2>10 DEF PipeTimesOut, TransmitInv, PipelineFollowsControl, HeldInUse
      <3>2. QED
        BY <2>10, <3>1 DEF PipeTimesOut, life, control
    <2>11. ASSUME NEW s \in Statuses, DeviceFinishes(s) PROVE ResourceInv'
      BY <2>11 DEF DeviceFinishes, life, control, history
    <2>12. ASSUME NEW w \in Writers, WritePrepares(w) PROVE ResourceInv'
      BY <2>12 DEF WritePrepares, life, control, history
    <2>13. ASSUME NEW w \in Writers, WriteSubmits(w) PROVE ResourceInv'
      <3>1. connected /\ ctx = "live"
        BY <2>13 DEF WriteSubmits, TransmitInv, WriterHoldsLock, HeldInUse
      <3>2. QED
        BY <2>13, <3>1 DEF WriteSubmits, life, control
    <2>14. ASSUME NEW w \in Writers, WriteSubmitFails(w) PROVE ResourceInv'
      BY <2>14 DEF WriteSubmitFails, life, control, history
    <2>15. ASSUME NEW w \in Writers, WriteReturns(w) PROVE ResourceInv'
      BY <2>15 DEF WriteReturns, WriteEnds, life, control, history
    <2>16. ASSUME NEW w \in Writers, WriteWakesEarly(w) PROVE ResourceInv'
      BY <2>16 DEF WriteWakesEarly, WriteEnds, life, control
    <2>17. CASE UNCHANGED vars
      BY <2>17 DEF vars, life, control, history
    <2>18. QED
      BY <2>1, <2>2, <2>3, <2>4, <2>5, <2>6, <2>7, <2>8, <2>9, <2>10, <2>11,
         <2>12, <2>13, <2>14, <2>15, <2>16, <2>17
      DEF Next, Control, Pipe, Write
  <1>3. QED
    BY <1>1, <1>2, Typing, TransmitInvariant, PTL DEF Spec

\* libusb is given an object it no longer knows, or still works on, only after
\* an open() that failed behind libusb_open_device_with_vid_pid or after a
\* wait() that ended early, for any number of opens and of writers.
THEOREM MisuseHasACause == Spec => []MisuseIsExplained
  <1>1. ResourceInv => MisuseIsExplained
    BY DEF ResourceInv, MisuseIsExplained
  <1>2. QED
    BY <1>1, ResourceInvariant, PTL

\* However often the channel is opened and closed, a closed channel has no
\* thread, and after opens that all succeeded it holds nothing.
THEOREM ClosedChannelIsClean == Spec => []ClosedIsClean
  <1>1. TransmitInv /\ ResourceInv => ClosedIsClean
    BY DEF TransmitInv, PipelineFollowsControl, ResourceInv, InUse, ClosedIsClean
  <1>2. QED
    BY <1>1, TransmitInvariant, ResourceInvariant, PTL
-----------------------------------------------------------------------------
\* A channel that is not in use holds a context only after a missing device,
\* a handle only after a late failure, a transfer only after the failure to
\* allocate the second one.
LossInv ==
  /\ ~InUse =>
       /\ ctx = "live" => "device" \in failed
       /\ handle => failed \cap LateFaults # {}
       /\ tx # "null" => "rxalloc" \in failed
       /\ ~rx
  /\ LossesAreExplained

\* What open() loses it was still holding, so an earlier open() had failed.
LEMMA LossInvariant == Spec => []LossInv
  <1> USE DEF LossInv, LossesAreExplained, InUse, LateFaults, Overwritten
  <1>1. Init => LossInv
    BY DEF Init
  <1>2. TypeOK /\ TransmitInv /\ LossInv /\ [Next]_vars => LossInv'
    <2> SUFFICES ASSUME TypeOK, TransmitInv, LossInv, [Next]_vars
                 PROVE LossInv'
      OBVIOUS
    <2>1. ASSUME NEW fault \in Faults, OpenFailsEarly(fault) PROVE LossInv'
      BY <2>1 DEF OpenFailsEarly, MayOpen, pipeline, transmit, control
    <2>2. ASSUME NEW fault \in Faults, OpenFailsLate(fault) PROVE LossInv'
      BY <2>2 DEF OpenFailsLate, MayOpen, pipeline, transmit, control
    <2>3. CASE Open
      BY <2>3 DEF Open
    <2>4. CASE OpenReturns
      BY <2>4 DEF OpenReturns, life, history
    <2>5. CASE Close
      BY <2>5 DEF Close, life, history
    <2>6. CASE CloseReturns
      <3>1. handle
        BY <2>6 DEF CloseReturns, TransmitInv, HeldInUse
      <3>2. QED
        BY <2>6, <3>1 DEF CloseReturns, GiveBack
    <2>7. CASE Destroy
      BY <2>7 DEF Destroy, GiveBack
    <2>8. CASE Pipe
      <3>1. tx' = "null" <=> tx = "null"
        BY <2>8 DEF Pipe, PipeCheck, PipeReports, PipeTimesOut
      <3>2. QED
        BY <2>8, <3>1 DEF Pipe, PipeCheck, PipeReports, PipeTimesOut, life, control, history
    <2>9. ASSUME NEW s \in Statuses, DeviceFinishes(s) PROVE LossInv'
      BY <2>9 DEF DeviceFinishes, life, control, history
    <2>10. ASSUME NEW w \in Writers, Write(w) PROVE LossInv'
      <3>1. tx' = "null" <=> tx = "null"
        BY <2>10 DEF Write, WritePrepares, WriteSubmits, WriteSubmitFails, WriteReturns,
                     WriteWakesEarly, WriteEnds
      <3>2. QED
        BY <2>10, <3>1
        DEF Write, WritePrepares, WriteSubmits, WriteSubmitFails, WriteReturns,
            WriteWakesEarly, WriteEnds, life, control, history
    <2>11. CASE UNCHANGED vars
      BY <2>11 DEF vars, life, control, history
    <2>12. QED
      BY <2>1, <2>2, <2>3, <2>4, <2>5, <2>6, <2>7, <2>8, <2>9, <2>10, <2>11
      DEF Next, Control
  <1>3. QED
    BY <1>1, <1>2, Typing, TransmitInvariant, PTL DEF Spec

\* For any number of opens and however they fail, each resource the channel
\* has lost was lost by the failure that explains it.
THEOREM LossesHaveTheirFailure == Spec => []LossesAreExplained
  <1>1. LossInv => LossesAreExplained
    BY DEF LossInv
  <1>2. QED
    BY <1>1, LossInvariant, PTL
=============================================================================
