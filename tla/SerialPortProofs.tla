-------------------------- MODULE SerialPortProofs --------------------------
(***************************************************************************)
(* The safety invariants of SerialPort, and that no wait ends before its   *)
(* time, for every set of sizes, timeouts and platforms.                   *)
(***************************************************************************)
EXTENDS SerialPort, TLAPS

LEMMA TypeOKInit == Init => TypeOK
  <1> SUFFICES ASSUME Init PROVE TypeOK
    OBVIOUS
  <1> USE SerialAssumption
      DEF SerialAssumption, Init, None, MacInit
  <1>1. FilesOK
    BY DEF FilesOK
  <1>2. CountsOK
    BY DEF CountsOK
  <1>3. FlagsOK
    BY DEF FlagsOK
  <1>4. PlacesOK
    BY DEF PlacesOK
  <1>42. CASE CloseClears
    <2> USE <1>42 DEF CloseClears, device, wait
    <2>1. FilesOK'
      BY DEF FilesOK
    <2>2. CountsOK'
      BY DEF CountsOK
    <2>3. FlagsOK'
      BY DEF FlagsOK
    <2>4. PlacesOK'
      BY DEF PlacesOK
    <2> QED
      BY <2>1, <2>2, <2>3, <2>4
  <1> QED
    BY <1>1, <1>2, <1>3, <1>4 DEF TypeOK

LEMMA TypeOKNext == TypeOK /\ [Next]_vars => TypeOK'
  <1> SUFFICES ASSUME TypeOK, [Next]_vars PROVE TypeOK'
    OBVIOUS
  <1> USE SerialAssumption
      DEF SerialAssumption, TypeOK, None, kernel, seen, Usable
  <1>1. CASE OpenFails
    <2> USE <1>1 DEF OpenFails, Dropped, CompletesIfAny, Completes, Outstanding, wait
    <2>1. FilesOK'
      BY DEF FilesOK
    <2>2. CountsOK'
      BY DEF CountsOK
    <2>3. FlagsOK'
      BY DEF FlagsOK
    <2>4. PlacesOK'
      BY DEF PlacesOK
    <2> QED
      BY <2>1, <2>2, <2>3, <2>4
  <1>2. CASE LinuxOpens
    <2> USE <1>2 DEF LinuxOpens, Opened, Dropped, CompletesIfAny, Completes, Outstanding, wait
    <2>1. FilesOK'
      BY DEF FilesOK
    <2>2. CountsOK'
      BY DEF CountsOK
    <2>3. FlagsOK'
      BY DEF FlagsOK
    <2>4. PlacesOK'
      BY DEF PlacesOK
    <2> QED
      BY <2>1, <2>2, <2>3, <2>4
  <1>3. CASE MacOpens
    <2> USE <1>3 DEF MacOpens, Opened, Dropped, CompletesIfAny, Completes, Outstanding, wait
    <2>1. FilesOK'
      BY DEF FilesOK
    <2>2. CountsOK'
      BY DEF CountsOK
    <2>3. FlagsOK'
      BY DEF FlagsOK
    <2>4. PlacesOK'
      BY DEF PlacesOK
    <2> QED
      BY <2>1, <2>2, <2>3, <2>4
  <1>4. CASE CloseMark
    <2> USE <1>4 DEF CloseMark, device, wait
    <2>1. FilesOK'
      BY DEF FilesOK
    <2>2. CountsOK'
      BY DEF CountsOK
    <2>3. FlagsOK'
      BY DEF FlagsOK
    <2>4. PlacesOK'
      BY DEF PlacesOK
    <2> QED
      BY <2>1, <2>2, <2>3, <2>4
  <1>5. CASE CloseCancel
    <2> USE <1>5 DEF CloseCancel, object, device, wait
    <2>1. FilesOK'
      BY DEF FilesOK
    <2>2. CountsOK'
      BY DEF CountsOK
    <2>3. FlagsOK'
      BY DEF FlagsOK
    <2>4. PlacesOK'
      BY DEF PlacesOK
    <2> QED
      BY <2>1, <2>2, <2>3, <2>4
  <1>6. CASE CloseRelease
    <2> USE <1>6 DEF CloseRelease, Released, MacReleased, wait
    <2>1. FilesOK'
      BY DEF FilesOK
    <2>2. CountsOK'
      BY DEF CountsOK
    <2>3. FlagsOK'
      BY DEF FlagsOK
    <2>4. PlacesOK'
      BY DEF PlacesOK
    <2> QED
      BY <2>1, <2>2, <2>3, <2>4
  <1>7. CASE CloseDone
    <2> USE <1>7 DEF CloseDone, object, device, wait
    <2>1. FilesOK'
      BY DEF FilesOK
    <2>2. CountsOK'
      BY DEF CountsOK
    <2>3. FlagsOK'
      BY DEF FlagsOK
    <2>4. PlacesOK'
      BY DEF PlacesOK
    <2> QED
      BY <2>1, <2>2, <2>3, <2>4
  <1>8. CASE \E level \in BOOLEAN : SetDTR(level)
    <2> USE <1>8 DEF SetDTR, object, wait
    <2>1. FilesOK'
      BY DEF FilesOK
    <2>2. CountsOK'
      BY DEF CountsOK
    <2>3. FlagsOK'
      BY DEF FlagsOK
    <2>4. PlacesOK'
      BY DEF PlacesOK
    <2> QED
      BY <2>1, <2>2, <2>3, <2>4
  <1>9. CASE Begin
    <2> USE <1>9 DEF Begin, object, device, wait
    <2>1. FilesOK'
      BY DEF FilesOK
    <2>2. CountsOK'
      BY DEF CountsOK
    <2>3. FlagsOK'
      BY DEF FlagsOK
    <2>4. PlacesOK'
      BY DEF PlacesOK
    <2> QED
      BY <2>1, <2>2, <2>3, <2>4
  <1>10. CASE End
    <2> USE <1>10 DEF End, object, device, wait
    <2>1. FilesOK'
      BY DEF FilesOK
    <2>2. CountsOK'
      BY DEF CountsOK
    <2>3. FlagsOK'
      BY DEF FlagsOK
    <2>4. PlacesOK'
      BY DEF PlacesOK
    <2> QED
      BY <2>1, <2>2, <2>3, <2>4
  <1>11. CASE Flush
    <2> USE <1>11 DEF Flush, Usable, Unmoved, object, wait
    <2>1. FilesOK'
      BY DEF FilesOK
    <2>2. CountsOK'
      BY DEF CountsOK
    <2>3. FlagsOK'
      BY DEF FlagsOK
    <2>4. PlacesOK'
      BY DEF PlacesOK
    <2> QED
      BY <2>1, <2>2, <2>3, <2>4
  <1>12. CASE \E n \in Sizes : Write(n)
    <2> USE <1>12 DEF Write, Unmoved, object, device, wait
    <2>1. FilesOK'
      BY DEF FilesOK
    <2>2. CountsOK'
      BY DEF CountsOK
    <2>3. FlagsOK'
      BY DEF FlagsOK
    <2>4. PlacesOK'
      BY DEF PlacesOK
    <2> QED
      BY <2>1, <2>2, <2>3, <2>4
  <1>13. CASE \E n \in Sizes : Read(n)
    <2> USE <1>13 DEF Read, Taken, Usable, Unmoved, object, wait
    <2>1. FilesOK'
      BY DEF FilesOK
    <2>2. CountsOK'
      BY DEF CountsOK
    <2>3. FlagsOK'
      BY DEF FlagsOK
    <2>4. PlacesOK'
      BY DEF PlacesOK
    <2> QED
      BY <2>1, <2>2, <2>3, <2>4
  <1>14. CASE Arrive
    <2> USE <1>14 DEF Arrive, Unmoved, object, wait
    <2>1. FilesOK'
      BY DEF FilesOK
    <2>2. CountsOK'
      BY DEF CountsOK
    <2>3. FlagsOK'
      BY DEF FlagsOK
    <2>4. PlacesOK'
      BY DEF PlacesOK
    <2> QED
      BY <2>1, <2>2, <2>3, <2>4
  <1>15. CASE WaitRefused
    <2> USE <1>15 DEF WaitRefused, Answer, Unmoved, object, device
    <2>1. FilesOK'
      BY DEF FilesOK
    <2>2. CountsOK'
      BY DEF CountsOK
    <2>3. FlagsOK'
      BY DEF FlagsOK
    <2>4. PlacesOK'
      BY DEF PlacesOK
    <2> QED
      BY <2>1, <2>2, <2>3, <2>4
  <1>16. CASE \E n \in Sizes, t \in Timeouts : WaitBegins(n, t)
    <2> USE <1>16 DEF WaitBegins, Go, Unmoved, object, device
    <2>1. FilesOK'
      BY DEF FilesOK
    <2>2. CountsOK'
      BY DEF CountsOK
    <2>3. FlagsOK'
      BY DEF FlagsOK
    <2>4. PlacesOK'
      BY DEF PlacesOK
    <2> QED
      BY <2>1, <2>2, <2>3, <2>4
  <1>17. CASE WaitEnters
    <2> USE <1>17 DEF WaitEnters, Go, Answer, Found, Unmoved, object, device
    <2>1. FilesOK'
      BY DEF FilesOK
    <2>2. CountsOK'
      BY DEF CountsOK
    <2>3. FlagsOK'
      BY DEF FlagsOK
    <2>4. PlacesOK'
      BY DEF PlacesOK
    <2> QED
      BY <2>1, <2>2, <2>3, <2>4
  <1>18. CASE Loop
    <2> USE <1>18 DEF Loop, Go, Answer, Unmoved, object, device
    <2>1. FilesOK'
      BY DEF FilesOK
    <2>2. CountsOK'
      BY DEF CountsOK
    <2>3. FlagsOK'
      BY DEF FlagsOK
    <2>4. PlacesOK'
      BY DEF PlacesOK
    <2> QED
      BY <2>1, <2>2, <2>3, <2>4
  <1>19. CASE MacLoop
    <2> USE <1>19 DEF MacLoop, Go, Answer, Unmoved, object, device
    <2>1. FilesOK'
      BY DEF FilesOK
    <2>2. CountsOK'
      BY DEF CountsOK
    <2>3. FlagsOK'
      BY DEF FlagsOK
    <2>4. PlacesOK'
      BY DEF PlacesOK
    <2> QED
      BY <2>1, <2>2, <2>3, <2>4
  <1>20. CASE SelectReady
    <2> USE <1>20 DEF SelectReady, Ready, Go, Unmoved, object, device
    <2>1. FilesOK'
      BY DEF FilesOK
    <2>2. CountsOK'
      BY DEF CountsOK
    <2>3. FlagsOK'
      BY DEF FlagsOK
    <2>4. PlacesOK'
      BY DEF PlacesOK
    <2> QED
      BY <2>1, <2>2, <2>3, <2>4
  <1>21. CASE SelectWaits
    <2> USE <1>21 DEF SelectWaits, Later, Forever, Go, Unmoved, object, device
    <2>1. FilesOK'
      BY DEF FilesOK
    <2>2. CountsOK'
      BY DEF CountsOK
    <2>3. FlagsOK'
      BY DEF FlagsOK
    <2>4. PlacesOK'
      BY DEF PlacesOK
    <2> QED
      BY <2>1, <2>2, <2>3, <2>4
  <1>22. CASE SelectTimesOut
    <2> USE <1>22 DEF SelectTimesOut, Answer, Unmoved, object, device
    <2>1. FilesOK'
      BY DEF FilesOK
    <2>2. CountsOK'
      BY DEF CountsOK
    <2>3. FlagsOK'
      BY DEF FlagsOK
    <2>4. PlacesOK'
      BY DEF PlacesOK
    <2> QED
      BY <2>1, <2>2, <2>3, <2>4
  <1>23. CASE SelectFails
    <2> USE <1>23 DEF SelectFails, Answer, Unmoved, object, device
    <2>1. FilesOK'
      BY DEF FilesOK
    <2>2. CountsOK'
      BY DEF CountsOK
    <2>3. FlagsOK'
      BY DEF FlagsOK
    <2>4. PlacesOK'
      BY DEF PlacesOK
    <2> QED
      BY <2>1, <2>2, <2>3, <2>4
  <1>24. CASE Cancelled
    <2> USE <1>24 DEF Cancelled, Answer, object, device
    <2>1. FilesOK'
      BY DEF FilesOK
    <2>2. CountsOK'
      BY DEF CountsOK
    <2>3. FlagsOK'
      BY DEF FlagsOK
    <2>4. PlacesOK'
      BY DEF PlacesOK
    <2> QED
      BY <2>1, <2>2, <2>3, <2>4
  <1>25. CASE Aborted
    <2> USE <1>25 DEF Aborted, Go, Unmoved, object, device
    <2>1. FilesOK'
      BY DEF FilesOK
    <2>2. CountsOK'
      BY DEF CountsOK
    <2>3. FlagsOK'
      BY DEF FlagsOK
    <2>4. PlacesOK'
      BY DEF PlacesOK
    <2> QED
      BY <2>1, <2>2, <2>3, <2>4
  <1>26. CASE Counts
    <2> USE <1>26 DEF Counts, Nap, MayNap, Missing, Enough, Found, Go, Answer, Unmoved, object, device
    <2>1. FilesOK'
      BY DEF FilesOK
    <2>2. CountsOK'
      BY DEF CountsOK
    <2>3. FlagsOK'
      BY DEF FlagsOK
    <2>4. PlacesOK'
      BY DEF PlacesOK
    <2> QED
      BY <2>1, <2>2, <2>3, <2>4
  <1>27. CASE Sleeps
    <2> USE <1>27 DEF Sleeps, Later, Go, Unmoved, object, device
    <2>1. FilesOK'
      BY DEF FilesOK
    <2>2. CountsOK'
      BY DEF CountsOK
    <2>3. FlagsOK'
      BY DEF FlagsOK
    <2>4. PlacesOK'
      BY DEF PlacesOK
    <2> QED
      BY <2>1, <2>2, <2>3, <2>4
  <1>28. CASE UNCHANGED vars
    <2> USE <1>28 DEF vars, object, device, wait
    <2>1. FilesOK'
      BY DEF FilesOK
    <2>2. CountsOK'
      BY DEF CountsOK
    <2>3. FlagsOK'
      BY DEF FlagsOK
    <2>4. PlacesOK'
      BY DEF PlacesOK
    <2> QED
      BY <2>1, <2>2, <2>3, <2>4
  <1>29. CASE NewChannel
    <2> USE <1>29 DEF NewChannel, MacInit, Outstanding
    <2>1. FilesOK'
      BY DEF FilesOK
    <2>2. CountsOK'
      BY DEF CountsOK
    <2>3. FlagsOK'
      BY DEF FlagsOK
    <2>4. PlacesOK'
      BY DEF PlacesOK
    <2> QED
      BY <2>1, <2>2, <2>3, <2>4
  <1>30. CASE WinOpens
    <2> USE <1>30 DEF WinOpens, Opened, Dropped, CompletesIfAny, Completes, Outstanding, wait
    <2>1. FilesOK'
      BY DEF FilesOK
    <2>2. CountsOK'
      BY DEF CountsOK
    <2>3. FlagsOK'
      BY DEF FlagsOK
    <2>4. PlacesOK'
      BY DEF PlacesOK
    <2> QED
      BY <2>1, <2>2, <2>3, <2>4
  <1>31. CASE WinCloseMask
    <2> USE <1>31 DEF WinCloseMask, CompletesIfAny, Completes, Outstanding, object, device, wait
    <2>1. FilesOK'
      BY DEF FilesOK
    <2>2. CountsOK'
      BY DEF CountsOK
    <2>3. FlagsOK'
      BY DEF FlagsOK
    <2>4. PlacesOK'
      BY DEF PlacesOK
    <2> QED
      BY <2>1, <2>2, <2>3, <2>4
  <1>32. CASE WinCloseReset
    <2> USE <1>32 DEF WinCloseReset, object, device
    <2>1. FilesOK'
      BY DEF FilesOK
    <2>2. CountsOK'
      BY DEF CountsOK
    <2>3. FlagsOK'
      BY DEF FlagsOK
    <2>4. PlacesOK'
      BY DEF PlacesOK
    <2> QED
      BY <2>1, <2>2, <2>3, <2>4
  <1>33. CASE WinCloseRelease
    <2> USE <1>33 DEF WinCloseRelease, Released, CompletesIfAny, Completes, Outstanding, wait
    <2>1. FilesOK'
      BY DEF FilesOK
    <2>2. CountsOK'
      BY DEF CountsOK
    <2>3. FlagsOK'
      BY DEF FlagsOK
    <2>4. PlacesOK'
      BY DEF PlacesOK
    <2> QED
      BY <2>1, <2>2, <2>3, <2>4
  <1>34. CASE WinArrive
    <2> USE <1>34 DEF WinArrive, Completes, Outstanding, Unmoved, object, wait
    <2>1. FilesOK'
      BY DEF FilesOK
    <2>2. CountsOK'
      BY DEF CountsOK
    <2>3. FlagsOK'
      BY DEF FlagsOK
    <2>4. PlacesOK'
      BY DEF PlacesOK
    <2> QED
      BY <2>1, <2>2, <2>3, <2>4
  <1>35. CASE \E n \in Sizes : WinWrite(n)
    <2> USE <1>35 DEF WinWrite, Unmoved, object, device, wait
    <2>1. FilesOK'
      BY DEF FilesOK
    <2>2. CountsOK'
      BY DEF CountsOK
    <2>3. FlagsOK'
      BY DEF FlagsOK
    <2>4. PlacesOK'
      BY DEF PlacesOK
    <2> QED
      BY <2>1, <2>2, <2>3, <2>4
  <1>36. CASE WinEnters
    <2> USE <1>36 DEF WinEnters, Enough, Usable, Go, Answer, Found, Unmoved, object, device
    <2>1. FilesOK'
      BY DEF FilesOK
    <2>2. CountsOK'
      BY DEF CountsOK
    <2>3. FlagsOK'
      BY DEF FlagsOK
    <2>4. PlacesOK'
      BY DEF PlacesOK
    <2> QED
      BY <2>1, <2>2, <2>3, <2>4
  <1>37. CASE WinLoop
    <2> USE <1>37 DEF WinLoop, Outstanding, Usable, Go, Answer, Unmoved, object, device
    <2>1. FilesOK'
      BY DEF FilesOK
    <2>2. CountsOK'
      BY DEF CountsOK
    <2>3. FlagsOK'
      BY DEF FlagsOK
    <2>4. PlacesOK'
      BY DEF PlacesOK
    <2> QED
      BY <2>1, <2>2, <2>3, <2>4
  <1>38. CASE WinWaitBegins
    <2> USE <1>38 DEF WinWaitBegins, Go, Unmoved, object, device
    <2>1. FilesOK'
      BY DEF FilesOK
    <2>2. CountsOK'
      BY DEF CountsOK
    <2>3. FlagsOK'
      BY DEF FlagsOK
    <2>4. PlacesOK'
      BY DEF PlacesOK
    <2> QED
      BY <2>1, <2>2, <2>3, <2>4
  <1>39. CASE WinWaits
    <2> USE <1>39 DEF WinWaits, Later, Forever, Go, Unmoved, object, device
    <2>1. FilesOK'
      BY DEF FilesOK
    <2>2. CountsOK'
      BY DEF CountsOK
    <2>3. FlagsOK'
      BY DEF FlagsOK
    <2>4. PlacesOK'
      BY DEF PlacesOK
    <2> QED
      BY <2>1, <2>2, <2>3, <2>4
  <1>40. CASE WinTimesOut
    <2> USE <1>40 DEF WinTimesOut, Answer, Unmoved, object, device
    <2>1. FilesOK'
      BY DEF FilesOK
    <2>2. CountsOK'
      BY DEF CountsOK
    <2>3. FlagsOK'
      BY DEF FlagsOK
    <2>4. PlacesOK'
      BY DEF PlacesOK
    <2> QED
      BY <2>1, <2>2, <2>3, <2>4
  <1>41. CASE WinWakes
    <2> USE <1>41 DEF WinWakes, Enough, Go, Answer, Found, Unmoved, object, device
    <2>1. FilesOK'
      BY DEF FilesOK
    <2>2. CountsOK'
      BY DEF CountsOK
    <2>3. FlagsOK'
      BY DEF FlagsOK
    <2>4. PlacesOK'
      BY DEF PlacesOK
    <2> QED
      BY <2>1, <2>2, <2>3, <2>4
  <1>42. CASE CloseClears
    <2> USE <1>42 DEF CloseClears, device, wait
    <2>1. FilesOK'
      BY DEF FilesOK
    <2>2. CountsOK'
      BY DEF CountsOK
    <2>3. FlagsOK'
      BY DEF FlagsOK
    <2>4. PlacesOK'
      BY DEF PlacesOK
    <2> QED
      BY <2>1, <2>2, <2>3, <2>4
  <1> QED
    BY <1>1, <1>2, <1>3, <1>4, <1>5, <1>6, <1>7, <1>8, <1>9, <1>10, <1>11, <1>12, <1>13, <1>14,
       <1>15, <1>16, <1>17, <1>18, <1>19, <1>20, <1>21, <1>22, <1>23, <1>24, <1>25, <1>26, <1>27, <1>28, <1>29,
       <1>30, <1>31, <1>32, <1>33, <1>34, <1>35, <1>36, <1>37, <1>38, <1>39, <1>40, <1>41, <1>42
       DEF Next, CloseStep, WaitStep, Looked, MacLooked, MacSetDTR, MacFlush, MacWrite, MacRead,
         WinSetDTR, WinFlush, WinRead

\* The variables of SerialPort keep to their ranges.
THEOREM SerialTypeCorrect == Spec => []TypeOK
  BY TypeOKInit, TypeOKNext, PTL DEF Spec
-----------------------------------------------------------------------------
\* A wait, and what it has found, belong to a request, which keeps the lock.
\* close() sets its mark first, so a wait that sees the mark, the byte in the
\* pipe or the closed port of a later step is a wait that was cut.
SessionInv ==
  /\ pc \notin {"idle", "dead"} => busy
  /\ found > 0 => busy
  /\ owner # "out" => pending
  /\ pending /\ (pc \notin {"idle", "dead"} \/ found > 0) => cut
  /\ opened /\ fd = None => owner = "released"
  /\ pc \in {"armed", "object"} /\ fd = None => cut
  /\ byte => pending \/ pipe = None
  /\ pc \in {"loop", "select", "woken", "sleep"} /\ "pipe" \in watch /\ byte => cut
  /\ pc = "woken" /\ "pipe" \in watch => cut
  /\ platform = "windows" => "pipe" \notin watch
  /\ ReadyIsQueued

LEMMA SessionInvNext == TypeOK /\ SessionInv /\ [Next]_vars => SessionInv'
  <1> SUFFICES ASSUME TypeOK, SessionInv, [Next]_vars PROVE SessionInv'
    OBVIOUS
  <1>0. pc # "dead" \/ UNCHANGED vars
    BY DEF Next
  <1> USE <1>0, SerialAssumption
      DEF SerialAssumption, TypeOK, FilesOK, CountsOK, PlacesOK, FlagsOK, SessionInv,
          ReadyIsQueued, kernel, seen, vars, Calls, Usable, None
  <1>1. CASE OpenFails
    BY <1>1 DEF OpenFails, Dropped, CompletesIfAny, Completes, Outstanding, wait
  <1>2. CASE LinuxOpens
    BY <1>2 DEF LinuxOpens, Opened, Dropped, CompletesIfAny, Completes, Outstanding, wait
  <1>3. CASE MacOpens
    BY <1>3 DEF MacOpens, Opened, Dropped, CompletesIfAny, Completes, Outstanding, wait
  <1>4. CASE CloseMark
    BY <1>4 DEF CloseMark, device, wait
  <1>5. CASE CloseCancel
    BY <1>5 DEF CloseCancel, object, device, wait
  <1>6. CASE CloseRelease
    BY <1>6 DEF CloseRelease, Released, MacReleased, wait
  <1>7. CASE CloseDone
    BY <1>7 DEF CloseDone, object, device, wait
  <1>8. CASE \E level \in BOOLEAN : SetDTR(level)
    BY <1>8 DEF SetDTR, object, wait
  <1>9. CASE Begin
    BY <1>9 DEF Begin, object, device, wait
  <1>10. CASE End
    BY <1>10 DEF End, object, device, wait
  <1>11. CASE Flush
    BY <1>11 DEF Flush, Usable, Unmoved, object, wait
  <1>12. CASE \E n \in Sizes : Write(n)
    BY <1>12 DEF Write, Unmoved, object, device, wait
  <1>13. CASE \E n \in Sizes : Read(n)
    BY <1>13 DEF Read, Taken, Usable, Unmoved, object, wait
  <1>14. CASE Arrive
    BY <1>14 DEF Arrive, Unmoved, object, wait
  <1>15. CASE WaitRefused
    BY <1>15 DEF WaitRefused, Answer, Unmoved, object, device
  <1>16. CASE \E n \in Sizes, t \in Timeouts : WaitBegins(n, t)
    BY <1>16 DEF WaitBegins, Go, Unmoved, object, device
  <1>17. CASE WaitEnters
    BY <1>17 DEF WaitEnters, Enough, Go, Answer, Found, Unmoved, object, device
  <1>18. CASE Loop
    BY <1>18 DEF Loop, Go, Answer, Unmoved, object, device
  <1>19. CASE MacLoop
    BY <1>19 DEF MacLoop, Go, Answer, Unmoved, object, device
  <1>20. CASE SelectReady
    BY <1>20 DEF SelectReady, Ready, Go, Unmoved, object, device
  <1>21. CASE SelectWaits
    BY <1>21 DEF SelectWaits, Later, Forever, Go, Unmoved, object, device
  <1>22. CASE SelectTimesOut
    BY <1>22 DEF SelectTimesOut, Answer, Unmoved, object, device
  <1>23. CASE SelectFails
    BY <1>23 DEF SelectFails, Answer, Unmoved, object, device
  <1>24. CASE Cancelled
    BY <1>24 DEF Cancelled, Answer, object, device
  <1>25. CASE Aborted
    BY <1>25 DEF Aborted, Go, Unmoved, object, device
  <1>26. CASE Counts
    BY <1>26 DEF Counts, Nap, MayNap, Missing, Enough, Found, Go, Answer, Unmoved, object, device
  <1>27. CASE Sleeps
    BY <1>27 DEF Sleeps, Later, Go, Unmoved, object, device
  <1>28. CASE UNCHANGED vars
    BY <1>28 DEF vars, object, device, wait
  <1>29. CASE NewChannel
    BY <1>29 DEF NewChannel, Outstanding, MacInit
  <1>30. CASE WinOpens
    BY <1>30 DEF WinOpens, Opened, Dropped, CompletesIfAny, Completes, Outstanding, wait
  <1>31. CASE WinCloseMask
    BY <1>31 DEF WinCloseMask, CompletesIfAny, Completes, Outstanding, object, device, wait
  <1>32. CASE WinCloseReset
    BY <1>32 DEF WinCloseReset, object, device
  <1>33. CASE WinCloseRelease
    BY <1>33 DEF WinCloseRelease, Released, CompletesIfAny, Completes, Outstanding, wait
  <1>34. CASE WinArrive
    BY <1>34 DEF WinArrive, Completes, Outstanding, Unmoved, object, wait
  <1>35. CASE \E n \in Sizes : WinWrite(n)
    BY <1>35 DEF WinWrite, Unmoved, object, device, wait
  <1>36. CASE WinEnters
    BY <1>36 DEF WinEnters, Enough, Usable, Go, Answer, Found, Unmoved, object, device
  <1>37. CASE WinLoop
    BY <1>37 DEF WinLoop, Outstanding, Usable, Go, Answer, Unmoved, object, device
  <1>38. CASE WinWaitBegins
    BY <1>38 DEF WinWaitBegins, Go, Unmoved, object, device
  <1>39. CASE WinWaits
    BY <1>39 DEF WinWaits, Later, Forever, Go, Unmoved, object, device
  <1>40. CASE WinTimesOut
    BY <1>40 DEF WinTimesOut, Answer, Unmoved, object, device
  <1>41. CASE WinWakes
    BY <1>41 DEF WinWakes, Enough, Go, Answer, Found, Unmoved, object, device
  <1>42. CASE CloseClears
    BY <1>42 DEF CloseClears, device, wait
  <1> QED
    BY <1>1, <1>2, <1>3, <1>4, <1>5, <1>6, <1>7, <1>8, <1>9, <1>10, <1>11, <1>12, <1>13, <1>14,
       <1>15, <1>16, <1>17, <1>18, <1>19, <1>20, <1>21, <1>22, <1>23, <1>24, <1>25, <1>26, <1>27, <1>28, <1>29,
       <1>30, <1>31, <1>32, <1>33, <1>34, <1>35, <1>36, <1>37, <1>38, <1>39, <1>40, <1>41, <1>42
       DEF Next, CloseStep, WaitStep, Looked, MacLooked, MacSetDTR, MacFlush, MacWrite, MacRead,
         WinSetDTR, WinFlush, WinRead

\* ReadyIsQueued, for every size and timeout, however often the port is opened,
\* closed and replaced: between a wait that answered true and the read only
\* close() or another channel can take the bytes away.
THEOREM ReadyStaysQueued == Spec => []ReadyIsQueued
  <1>1. Init => SessionInv
    BY SerialAssumption DEF Init, SessionInv, ReadyIsQueued, SerialAssumption
  <1>2. SessionInv => ReadyIsQueued
    BY DEF SessionInv
  <1> QED
    BY <1>1, <1>2, TypeOKInit, TypeOKNext, SessionInvNext, PTL DEF Spec

\* NoStaleCancel, for every size and timeout.
THEOREM CancelStaysFresh == Spec => []NoStaleCancel
  <1>1. Init => SessionInv
    BY SerialAssumption DEF Init, SessionInv, ReadyIsQueued, SerialAssumption
  <1>2. SessionInv => NoStaleCancel
    BY DEF SessionInv, NoStaleCancel, Ready
  <1> QED
    BY <1>1, <1>2, TypeOKInit, TypeOKNext, SessionInvNext, PTL DEF Spec
-----------------------------------------------------------------------------
\* What a wait still has to wait and what it has waited add up to its timeout
\* or more.
TimeInv == elapsed + left >= limit

LEMMA TimeInvNext == TypeOK /\ SessionInv /\ TimeInv /\ [Next]_vars => TimeInv'
  <1> SUFFICES ASSUME TypeOK, SessionInv, TimeInv, [Next]_vars PROVE TimeInv'
    OBVIOUS
  <1>0. pc # "dead" \/ UNCHANGED vars
    BY DEF Next
  <1> USE <1>0, SerialAssumption
      DEF SerialAssumption, TypeOK, CountsOK, PlacesOK, FlagsOK, SessionInv, TimeInv,
          kernel, seen, vars, Calls
  <1>1. CASE OpenFails
    BY <1>1 DEF OpenFails, Dropped, CompletesIfAny, Completes, Outstanding, wait
  <1>2. CASE LinuxOpens
    BY <1>2 DEF LinuxOpens, Opened, Dropped, CompletesIfAny, Completes, Outstanding, wait
  <1>3. CASE MacOpens
    BY <1>3 DEF MacOpens, Opened, Dropped, CompletesIfAny, Completes, Outstanding, wait
  <1>4. CASE CloseMark
    BY <1>4 DEF CloseMark, device, wait
  <1>5. CASE CloseCancel
    BY <1>5 DEF CloseCancel, object, device, wait
  <1>6. CASE CloseRelease
    BY <1>6 DEF CloseRelease, wait
  <1>7. CASE CloseDone
    BY <1>7 DEF CloseDone, object, device, wait
  <1>8. CASE \E level \in BOOLEAN : SetDTR(level)
    BY <1>8 DEF SetDTR, object, wait
  <1>9. CASE Begin
    BY <1>9 DEF Begin, object, device, wait
  <1>10. CASE End
    BY <1>10 DEF End, object, device, wait
  <1>11. CASE Flush
    BY <1>11 DEF Flush, Usable, Unmoved, object, wait
  <1>12. CASE \E n \in Sizes : Write(n)
    BY <1>12 DEF Write, Unmoved, object, device, wait
  <1>13. CASE \E n \in Sizes : Read(n)
    BY <1>13 DEF Read, Taken, Usable, Unmoved, object, wait
  <1>14. CASE Arrive
    BY <1>14 DEF Arrive, Unmoved, object, wait
  <1>15. CASE WaitRefused
    BY <1>15 DEF WaitRefused, Answer, Unmoved, object, device
  <1>16. CASE \E n \in Sizes, t \in Timeouts : WaitBegins(n, t)
    BY <1>16 DEF WaitBegins, Go, Unmoved, object, device
  <1>17. CASE WaitEnters
    BY <1>17 DEF WaitEnters, Enough, Go, Answer, Found, Unmoved, object, device
  <1>18. CASE Loop
    BY <1>18 DEF Loop, Go, Answer, Unmoved, object, device
  <1>19. CASE MacLoop
    BY <1>19 DEF MacLoop, Go, Answer, Unmoved, object, device
  <1>20. CASE SelectReady
    BY <1>20 DEF SelectReady, Ready, Go, Unmoved, object, device
  <1>21. CASE SelectWaits
    BY <1>21 DEF SelectWaits, Later, Forever, Go, Unmoved, object, device
  <1>22. CASE SelectTimesOut
    BY <1>22 DEF SelectTimesOut, Answer, Unmoved, object, device
  <1>23. CASE SelectFails
    BY <1>23 DEF SelectFails, Answer, Unmoved, object, device
  <1>24. CASE Cancelled
    BY <1>24 DEF Cancelled, Answer, object, device
  <1>25. CASE Aborted
    BY <1>25 DEF Aborted, Go, Unmoved, object, device
  <1>26. CASE Counts
    BY <1>26 DEF Counts, Nap, MayNap, Missing, Enough, Found, Go, Answer, Unmoved, object, device
  <1>27. CASE Sleeps
    BY <1>27 DEF Sleeps, Later, Go, Unmoved, object, device
  <1>28. CASE UNCHANGED vars
    BY <1>28 DEF vars, object, device, wait
  <1>29. CASE NewChannel
    BY <1>29 DEF NewChannel, Outstanding, MacInit
  <1>30. CASE WinOpens
    BY <1>30 DEF WinOpens, Opened, Dropped, CompletesIfAny, Completes, Outstanding, wait
  <1>31. CASE WinCloseMask
    BY <1>31 DEF WinCloseMask, CompletesIfAny, Completes, Outstanding, object, device, wait
  <1>32. CASE WinCloseReset
    BY <1>32 DEF WinCloseReset, object, device
  <1>33. CASE WinCloseRelease
    BY <1>33 DEF WinCloseRelease, Released, CompletesIfAny, Completes, Outstanding, wait
  <1>34. CASE WinArrive
    BY <1>34 DEF WinArrive, Completes, Outstanding, Unmoved, object, wait
  <1>35. CASE \E n \in Sizes : WinWrite(n)
    BY <1>35 DEF WinWrite, Unmoved, object, device, wait
  <1>36. CASE WinEnters
    BY <1>36 DEF WinEnters, Enough, Usable, Go, Answer, Found, Unmoved, object, device
  <1>37. CASE WinLoop
    BY <1>37 DEF WinLoop, Outstanding, Usable, Go, Answer, Unmoved, object, device
  <1>38. CASE WinWaitBegins
    BY <1>38 DEF WinWaitBegins, Go, Unmoved, object, device
  <1>39. CASE WinWaits
    BY <1>39 DEF WinWaits, Later, Forever, Go, Unmoved, object, device
  <1>40. CASE WinTimesOut
    BY <1>40 DEF WinTimesOut, Answer, Unmoved, object, device
  <1>41. CASE WinWakes
    BY <1>41 DEF WinWakes, Enough, Go, Answer, Found, Unmoved, object, device
  <1>42. CASE CloseClears
    BY <1>42 DEF CloseClears, device, wait
  <1> QED
    BY <1>1, <1>2, <1>3, <1>4, <1>5, <1>6, <1>7, <1>8, <1>9, <1>10, <1>11, <1>12, <1>13, <1>14,
       <1>15, <1>16, <1>17, <1>18, <1>19, <1>20, <1>21, <1>22, <1>23, <1>24, <1>25, <1>26, <1>27, <1>28, <1>29,
       <1>30, <1>31, <1>32, <1>33, <1>34, <1>35, <1>36, <1>37, <1>38, <1>39, <1>40, <1>41, <1>42
       DEF Next, CloseStep, WaitStep, Looked, MacLooked, MacSetDTR, MacFlush, MacWrite, MacRead,
         WinSetDTR, WinFlush, WinRead

\* Only a wait whose time is up, or a cancelled one, answers "timeout".
LEMMA NoEarlyStep ==
  TypeOK /\ SessionInv /\ TimeInv /\ [Next]_vars
    => (answer' = "timeout" /\ pc # "idle" /\ pc' = "idle" => elapsed >= limit \/ cut)
  <1> SUFFICES ASSUME TypeOK, SessionInv, TimeInv, [Next]_vars,
                      answer' = "timeout", pc # "idle", pc' = "idle"
               PROVE  elapsed >= limit \/ cut
    OBVIOUS
  <1> USE DEF TypeOK, CountsOK, PlacesOK, SessionInv, TimeInv, kernel, seen, Calls
  <1>1. CASE OpenFails
    BY <1>1 DEF OpenFails, Dropped, CompletesIfAny, Completes, Outstanding, wait
  <1>2. CASE LinuxOpens
    BY <1>2 DEF LinuxOpens, Opened, Dropped, CompletesIfAny, Completes, Outstanding, wait
  <1>3. CASE MacOpens
    BY <1>3 DEF MacOpens, Opened, Dropped, CompletesIfAny, Completes, Outstanding, wait
  <1>4. CASE CloseMark
    BY <1>4 DEF CloseMark, device, wait
  <1>5. CASE CloseCancel
    BY <1>5 DEF CloseCancel, object, device, wait
  <1>6. CASE CloseRelease
    BY <1>6 DEF CloseRelease, wait
  <1>7. CASE CloseDone
    BY <1>7 DEF CloseDone, object, device, wait
  <1>8. CASE \E level \in BOOLEAN : SetDTR(level)
    BY <1>8 DEF SetDTR, object, wait
  <1>9. CASE Begin
    BY <1>9 DEF Begin, object, device, wait
  <1>10. CASE End
    BY <1>10 DEF End, object, device, wait
  <1>11. CASE Flush
    BY <1>11 DEF Flush, Usable, Unmoved, object, wait
  <1>12. CASE \E n \in Sizes : Write(n)
    BY <1>12 DEF Write, Unmoved, object, device, wait
  <1>13. CASE \E n \in Sizes : Read(n)
    BY <1>13 DEF Read, Taken, Usable, Unmoved, object, wait
  <1>14. CASE Arrive
    BY <1>14 DEF Arrive, Unmoved, object, wait
  <1>15. CASE WaitRefused
    BY <1>15 DEF WaitRefused, Answer, Unmoved, object, device
  <1>16. CASE \E n \in Sizes, t \in Timeouts : WaitBegins(n, t)
    BY <1>16 DEF WaitBegins, Go, Unmoved, object, device
  <1>17. CASE WaitEnters
    BY <1>17 DEF WaitEnters, Enough, Go, Answer, Found, Unmoved, object, device
  <1>18. CASE Loop
    BY <1>18 DEF Loop, Go, Answer, Unmoved, object, device
  <1>19. CASE MacLoop
    BY <1>19 DEF MacLoop, Go, Answer, Unmoved, object, device
  <1>20. CASE SelectReady
    BY <1>20 DEF SelectReady, Ready, Go, Unmoved, object, device
  <1>21. CASE SelectWaits
    BY <1>21 DEF SelectWaits, Later, Forever, Go, Unmoved, object, device
  <1>22. CASE SelectTimesOut
    BY <1>22 DEF SelectTimesOut, Answer, Unmoved, object, device
  <1>23. CASE SelectFails
    BY <1>23 DEF SelectFails, Answer, Unmoved, object, device
  <1>24. CASE Cancelled
    BY <1>24 DEF Cancelled, Answer, object, device
  <1>25. CASE Aborted
    BY <1>25 DEF Aborted, Go, Unmoved, object, device
  <1>26. CASE Counts
    BY <1>26 DEF Counts, Nap, MayNap, Missing, Enough, Found, Go, Answer, Unmoved, object, device
  <1>27. CASE Sleeps
    BY <1>27 DEF Sleeps, Later, Go, Unmoved, object, device
  <1>28. CASE UNCHANGED vars
    BY <1>28 DEF vars, object, device, wait
  <1>29. CASE NewChannel
    BY <1>29 DEF NewChannel, Outstanding, MacInit
  <1>30. CASE WinOpens
    BY <1>30 DEF WinOpens, Opened, Dropped, CompletesIfAny, Completes, Outstanding, wait
  <1>31. CASE WinCloseMask
    BY <1>31 DEF WinCloseMask, CompletesIfAny, Completes, Outstanding, object, device, wait
  <1>32. CASE WinCloseReset
    BY <1>32 DEF WinCloseReset, object, device
  <1>33. CASE WinCloseRelease
    BY <1>33 DEF WinCloseRelease, Released, CompletesIfAny, Completes, Outstanding, wait
  <1>34. CASE WinArrive
    BY <1>34 DEF WinArrive, Completes, Outstanding, Unmoved, object, wait
  <1>35. CASE \E n \in Sizes : WinWrite(n)
    BY <1>35 DEF WinWrite, Unmoved, object, device, wait
  <1>36. CASE WinEnters
    BY <1>36 DEF WinEnters, Enough, Usable, Go, Answer, Found, Unmoved, object, device
  <1>37. CASE WinLoop
    BY <1>37 DEF WinLoop, Outstanding, Usable, Go, Answer, Unmoved, object, device
  <1>38. CASE WinWaitBegins
    BY <1>38 DEF WinWaitBegins, Go, Unmoved, object, device
  <1>39. CASE WinWaits
    BY <1>39 DEF WinWaits, Later, Forever, Go, Unmoved, object, device
  <1>40. CASE WinTimesOut
    BY <1>40 DEF WinTimesOut, Answer, Unmoved, object, device
  <1>41. CASE WinWakes
    BY <1>41 DEF WinWakes, Enough, Go, Answer, Found, Unmoved, object, device
  <1>42. CASE CloseClears
    BY <1>42 DEF CloseClears, device, wait
  <1> QED
    BY <1>1, <1>2, <1>3, <1>4, <1>5, <1>6, <1>7, <1>8, <1>9, <1>10, <1>11, <1>12, <1>13, <1>14,
       <1>15, <1>16, <1>17, <1>18, <1>19, <1>20, <1>21, <1>22, <1>23, <1>24, <1>25, <1>26, <1>27, <1>28, <1>29,
       <1>30, <1>31, <1>32, <1>33, <1>34, <1>35, <1>36, <1>37, <1>38, <1>39, <1>40, <1>41, <1>42
       DEF Next, CloseStep, WaitStep, Looked, MacLooked, MacSetDTR, MacFlush, MacWrite, MacRead,
         WinSetDTR, WinFlush, WinRead

\* TimeoutNotEarly, for every size and timeout and on each platform.
THEOREM TimeoutsAreNotEarly == Spec => TimeoutNotEarly
  <1>1. Init => SessionInv /\ TimeInv
    BY SerialAssumption DEF Init, SessionInv, ReadyIsQueued, TimeInv, SerialAssumption
  <1>2. TypeOK /\ SessionInv /\ TimeInv /\ [Next]_vars
          => [answer' = "timeout" /\ pc # "idle" /\ pc' = "idle"
                => elapsed >= limit \/ cut]_vars
    BY NoEarlyStep
  <1> QED
    BY <1>1, <1>2, TypeOKInit, TypeOKNext, SessionInvNext, TimeInvNext, PTL
       DEF Spec, TimeoutNotEarly
-----------------------------------------------------------------------------
\* A port that is not open holds nothing but what the macOS port starts with,
\* and only the macOS port ever holds standard input.
OwnedInv ==
  /\ DescriptorsOwned
  /\ ~opened => fd \in {None, MacInit}
  /\ owner \in {"released", "closed"} => fd = None
  /\ platform # "macOS" => fd # MacInit

LEMMA OwnedInvNext == TypeOK /\ OwnedInv /\ [Next]_vars => OwnedInv'
  <1> SUFFICES ASSUME TypeOK, OwnedInv, [Next]_vars PROVE OwnedInv'
    OBVIOUS
  <1> USE SerialAssumption
      DEF SerialAssumption, TypeOK, FilesOK, OwnedInv, DescriptorsOwned, None, MacInit, kernel, seen
  <1>1. CASE OpenFails
    BY <1>1 DEF OpenFails, Dropped, CompletesIfAny, Completes, Outstanding, wait
  <1>2. CASE LinuxOpens
    BY <1>2 DEF LinuxOpens, Opened, Dropped, CompletesIfAny, Completes, Outstanding, wait
  <1>3. CASE MacOpens
    BY <1>3 DEF MacOpens, Opened, Dropped, CompletesIfAny, Completes, Outstanding, wait
  <1>4. CASE CloseMark
    BY <1>4 DEF CloseMark, device, wait
  <1>5. CASE CloseCancel
    BY <1>5 DEF CloseCancel, object, device, wait
  <1>6. CASE CloseRelease
    BY <1>6 DEF CloseRelease, Released, MacReleased, wait
  <1>7. CASE CloseDone
    BY <1>7 DEF CloseDone, object, device, wait
  <1>8. CASE \E level \in BOOLEAN : SetDTR(level)
    BY <1>8 DEF SetDTR, object, wait
  <1>9. CASE Begin
    BY <1>9 DEF Begin, object, device, wait
  <1>10. CASE End
    BY <1>10 DEF End, object, device, wait
  <1>11. CASE Flush
    BY <1>11 DEF Flush, Usable, Unmoved, object, wait
  <1>12. CASE \E n \in Sizes : Write(n)
    BY <1>12 DEF Write, Unmoved, object, device, wait
  <1>13. CASE \E n \in Sizes : Read(n)
    BY <1>13 DEF Read, Taken, Usable, Unmoved, object, wait
  <1>14. CASE Arrive
    BY <1>14 DEF Arrive, Unmoved, object, wait
  <1>15. CASE WaitRefused
    BY <1>15 DEF WaitRefused, Answer, Unmoved, object, device
  <1>16. CASE \E n \in Sizes, t \in Timeouts : WaitBegins(n, t)
    BY <1>16 DEF WaitBegins, Go, Unmoved, object, device
  <1>17. CASE WaitEnters
    BY <1>17 DEF WaitEnters, Enough, Go, Answer, Found, Unmoved, object, device
  <1>18. CASE Loop
    BY <1>18 DEF Loop, Go, Answer, Unmoved, object, device
  <1>19. CASE MacLoop
    BY <1>19 DEF MacLoop, Go, Answer, Unmoved, object, device
  <1>20. CASE SelectReady
    BY <1>20 DEF SelectReady, Ready, Go, Unmoved, object, device
  <1>21. CASE SelectWaits
    BY <1>21 DEF SelectWaits, Later, Forever, Go, Unmoved, object, device
  <1>22. CASE SelectTimesOut
    BY <1>22 DEF SelectTimesOut, Answer, Unmoved, object, device
  <1>23. CASE SelectFails
    BY <1>23 DEF SelectFails, Answer, Unmoved, object, device
  <1>24. CASE Cancelled
    BY <1>24 DEF Cancelled, Answer, object, device
  <1>25. CASE Aborted
    BY <1>25 DEF Aborted, Go, Unmoved, object, device
  <1>26. CASE Counts
    BY <1>26 DEF Counts, Nap, MayNap, Missing, Enough, Found, Go, Answer, Unmoved, object, device
  <1>27. CASE Sleeps
    BY <1>27 DEF Sleeps, Later, Go, Unmoved, object, device
  <1>28. CASE UNCHANGED vars
    BY <1>28 DEF vars, object, device, wait
  <1>29. CASE NewChannel
    BY <1>29 DEF NewChannel, Outstanding, MacInit
  <1>30. CASE WinOpens
    BY <1>30 DEF WinOpens, Opened, Dropped, CompletesIfAny, Completes, Outstanding, wait
  <1>31. CASE WinCloseMask
    BY <1>31 DEF WinCloseMask, CompletesIfAny, Completes, Outstanding, object, device, wait
  <1>32. CASE WinCloseReset
    BY <1>32 DEF WinCloseReset, object, device
  <1>33. CASE WinCloseRelease
    BY <1>33 DEF WinCloseRelease, Released, CompletesIfAny, Completes, Outstanding, wait
  <1>34. CASE WinArrive
    BY <1>34 DEF WinArrive, Completes, Outstanding, Unmoved, object, wait
  <1>35. CASE \E n \in Sizes : WinWrite(n)
    BY <1>35 DEF WinWrite, Unmoved, object, device, wait
  <1>36. CASE WinEnters
    BY <1>36 DEF WinEnters, Enough, Usable, Go, Answer, Found, Unmoved, object, device
  <1>37. CASE WinLoop
    BY <1>37 DEF WinLoop, Outstanding, Usable, Go, Answer, Unmoved, object, device
  <1>38. CASE WinWaitBegins
    BY <1>38 DEF WinWaitBegins, Go, Unmoved, object, device
  <1>39. CASE WinWaits
    BY <1>39 DEF WinWaits, Later, Forever, Go, Unmoved, object, device
  <1>40. CASE WinTimesOut
    BY <1>40 DEF WinTimesOut, Answer, Unmoved, object, device
  <1>41. CASE WinWakes
    BY <1>41 DEF WinWakes, Enough, Go, Answer, Found, Unmoved, object, device
  <1>42. CASE CloseClears
    BY <1>42 DEF CloseClears, device, wait
  <1> QED
    BY <1>1, <1>2, <1>3, <1>4, <1>5, <1>6, <1>7, <1>8, <1>9, <1>10, <1>11, <1>12, <1>13, <1>14,
       <1>15, <1>16, <1>17, <1>18, <1>19, <1>20, <1>21, <1>22, <1>23, <1>24, <1>25, <1>26, <1>27, <1>28, <1>29,
       <1>30, <1>31, <1>32, <1>33, <1>34, <1>35, <1>36, <1>37, <1>38, <1>39, <1>40, <1>41, <1>42
       DEF Next, CloseStep, WaitStep, Looked, MacLooked, MacSetDTR, MacFlush, MacWrite, MacRead,
         WinSetDTR, WinFlush, WinRead

\* DescriptorsOwned, for every size, timeout and number of opens.
THEOREM DescriptorsStayOwned == Spec => []DescriptorsOwned
  <1>1. Init => OwnedInv
    BY DEF Init, OwnedInv, DescriptorsOwned, None, MacInit
  <1>2. OwnedInv => DescriptorsOwned
    BY DEF OwnedInv
  <1> QED
    BY <1>1, <1>2, TypeOKInit, TypeOKNext, OwnedInvNext, PTL DEF Spec
=============================================================================
