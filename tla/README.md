# slamkit_ros2 in TLA+

A verification development for the ROS 2 driver of the SlamKit IMU module: the
USB channel, the request/response driver, the synchronisation primitives under
them and the publishing node. The sources are under `src/`; paths below that
start with `sdk/` are under `src/sdk/slamkit_sdk/`.

## 1. The system

A SlamKit is a USB device that answers one command packet with one response
packet. `slamkitNode` opens it, asks it for a raw and for a processed IMU sample
at a fixed rate and publishes what it gets. `slamkitNodeClient` republishes the
angular velocity in degrees.

    node.cpp  main loop, de-duplication of samples, three ROS topics
       | getImuRawData / set_motion_hit_and_get_imu_processed / connect / disconnect
    sl_slamkit_driver.cpp  packets, the driver lock, connection flag
       | IChannel: open close write waitForData read clearReadCache
    sl_usb_channel.cpp  libusb transfers, pipeline thread, receive buffer
       | hal::Event, hal::Locker, std::thread, libusb
    device

| component | state it keeps | operations | what makes it correct |
|---|---|---|---|
| `hal/event.h` Event | `_is_signalled`, threads blocked on `_cond_var` | `set`, `wait` with and without deadline | no wakeup is lost, no completion is reported twice, a timeout consumes nothing |
| `hal/locker.h` Locker | the mutex | `lock` (untimed, try, timed), `unlock`, `AutoLocker` | mutual exclusion; a lock that was not taken is not given back |
| `sl_usb_channel.cpp` life cycle | libusb context, handle, claim, two transfers, pipeline flag and thread | `open`, `close`, destructor, `start_pipe_line`, `pipeline_handler` | what is opened is closed once, nothing is used after it was given back, the pipeline runs as long as the channel is open |
| `sl_usb_channel.cpp` transmit | `_op_lock`, the transfer, `_tx_completion_signal` | `write`, `transfer_cb_proc` | the caller's buffer is the transfer's until the completion, the result is that of this transfer, `write` returns |
| `sl_usb_channel.cpp` receive | `_rx_buffer`, `_rx_size` | `waitForData`, `read`, `clearReadCache` | what `read` copies is what the device sent since the cache was cleared, in order |
| `sl_slamkit_driver.cpp` | `_channel`, `_isConnected`, `_lock` | `connect`, `disconnect`, `getDeviceInfo`, `getImuRawData`, `set_motion_hit_and_get_imu_processed` | an answer is handed to the request that asked for it |
| `node.cpp` | last published time stamps, the sample variables of `main` | `imu_publish`, `imu_processed_publish`, the loop | only samples that were read are published, each once |
| `client.cpp` | nothing | two callbacks | the unit conversion |
| `arch/*/net_serial.*`, `sl_serial_channel.cpp` | file descriptor, self pipe, close-pending flag | `open`, `close`, destructor, `flush`, `senddata`, `recvdata`, `waitfordata`, `cancelOperation`, DTR | a cancel ends a wait and does not outlive it, a wait ends at its timeout and not before, no descriptor is lost |
| `arch/linux/net_socket.cpp`, `sl_tcp_channel.cpp`, `sl_udp_channel.cpp` | addresses, socket, its timeouts | the operations of `SocketAddress`, `StreamSocket`, `DGramSocket`; `open`, `close`, `write`, `waitForData`, `read` | every call with a limit returns, the peer is the one given, no socket is lost, an answer is that of its request |
| `sl_crc.cpp` | the table | `init`, `cal`, `getResult` | equals CRC-32 bit by bit |
| `arch/linux/thread.hpp`, `timer.*` | thread handle | `create`, `join`, `terminate`, priorities | |
| sockets of `arch/win32`, `arch/macOS` | as `arch/linux` | as `arch/linux` | not built by `CMakeLists.txt` on Linux |

### How the parts interact

`connect` opens the channel, which opens the device through libusb, claims the
interface and starts the pipeline thread. A request (`getImuRawData` and the two
others) takes the driver's lock, empties the read cache and writes the command;
`write` submits a transfer and blocks on `_tx_completion_signal`, which the
pipeline thread raises from libusb's callback. The lock is released, taken again,
and `waitForData` makes one or two bulk transfers into `_rx_buffer`, from which
`read` copies the answer. The driver looks at the sync byte and at the error code
and hands the payload out. The node asks for two answers per round and publishes
them. `disconnect` closes the channel, which stops and joins the thread and gives
back what was opened. The serial, TCP and UDP channels take the USB channel's place
under the same driver; the node refuses them (`node.cpp:199`), other users of the SDK
can choose them.

### What is hard about it

- Threads: the callers of the driver, the pipeline thread, the device. Two locks
  (`_lock`, `_op_lock`), an event, and a flag (`_is_pipe_working`) and a pointer
  set (`_ctx`, `_dev_handle`, the transfers) that no lock protects.
- Answers carry no number: which request an answer belongs to follows only from
  the order of things, and losses, timeouts and a second caller disturb it.
- A buffer that is never cleared: `clearReadCache` sets a count to zero, and the
  second transfer of `waitForData` is put at a place computed from what is missing, which
  for a wait for more than half the buffer may lie behind its end.
- Failures half-way: `open` has six ways to fail and gives back what it holds in
  none of them completely; the node goes on with what a failed call left.
- Waits without a deadline: the event in `write`, the join in `close`; and waits whose
  deadline never comes, as in the serial port's loop around `select` and the UDP
  channel's loop around datagrams that may be empty.
- `disconnect` takes no lock, and `connect` assigns `_channel` before it takes it: the
  descriptor, the pipe and the socket of a channel, or the channel itself, may go away
  under a request that waits in the kernel.

`PROJECT.json` lists these hazards one by one, at their lines, with the
properties that cover them.

## 2. Modules

| module | models | built on |
|---|---|---|
| `EventSpec` | what an event promises to the thread that waits on it | |
| `Event` | `hal/event.h`, the POSIX branch | refines `EventSpec` |
| `Hal`, `HalMC`, `HalProofs` | `hal/locker.h` with the event inside the lock, and the deadlines of both; the proofs about the event alone come first | extends `Event`, refines `EventSpec` |
| `UsbChannel`, `UsbChannelProofs` | `sl_usb_channel.cpp`: `open`, `close`, destructor, pipeline thread, `write` | takes the event as the latch of `EventSpec`, and as what it is when a wakeup has no signal |
| `RxBuffer` | the index arithmetic of `waitForData` and `read` | |
| `UsbRx`, `UsbRxProofs` | `sl_usb_channel.cpp`: `waitForData`, `read`, `clearReadCache`, byte by byte | `RxBuffer` |
| `RequestSpec` | what a caller counts on: a call is one exchange with the device | |
| `SlamkitDriver`, `SlamkitDriverMC`, `SlamkitDriverProofs`, `NoTornAnswerProofs` | `sl_slamkit_driver.cpp` with the channel's receive side and the device | `RxBuffer`, refines `RequestSpec` |
| `ImuNode`, `ImuNodeProofs` | `main` of `node.cpp`: start, loop and end | extends `SlamkitDriver` |
| `SerialPort`, `SerialPortProofs` | `sl_serial_channel.cpp` and `arch/{linux,macOS,win32}/net_serial.cpp` under the driver's lock | |
| `SocketAddress` | the addresses of `arch/linux/net_socket.cpp` | |
| `Socket` | its stream and datagram sockets, with the kernel's side | extends `SocketAddress` |
| `NetChannel`, `NetProofs` | `sl_tcp_channel.cpp`, `sl_udp_channel.cpp` under the driver, and the device | extends `Socket` |

### Event

`signalled` is `_is_signalled`. A stretch of code between taking and releasing
`_cond_locker` is one action: `Set`, `Reset`, `WaitSignalled`, `WaitBlocks`, and `Resume`,
`ResumeTimeout` or `ResumeFails` for the part of `wait` behind `pthread_cond_[timed]wait`:
it was woken, its deadline passed, or the call answered something else, which is the
`EVENT_FAILED` of lines 144-146. Being signalled (`Wake`), expiring (`Expire`) and getting
the mutex back are separate steps, so another thread can run between the signal and the
wakeup; `SpuriousWake` is the wakeup without a signal that POSIX allows. `sets` and `oks`
are history.

`EventSpec` is the abstract view: a flag, `Raise`, `Lower`, `Begin`, `Succeed` and
`GiveUp`. The mapping takes `signalled` for the flag and a thread that was woken or
expired but has not got the mutex for one that still waits.

### Hal

Threads take the lock in the ways `hal/locker.h` has - `AutoLock` and `LockBlocks`,
`LockTry`, `LockTimed` - and, inside, reset the event and wait for it, as `write` does
under `_op_lock`; `Signal` is the pipeline thread, which takes no lock. `Grant` and
`LockExpires` are the kernel's answers, `Leave` is `unlock`. `Answered` is the point of
`AutoLocker`: it goes on whatever the status is. `due` holds the last deadline with the
clock and the timeout it was computed from. With threads that go through the lock the
event has one waiter at a time, and then it is an `EventSpec` although it tests its flag
once (`ImplementsEventSpec`), as long as every wakeup has a signal. Without the lock, or
with wakeups that nobody caused, it is not: see section 3.

### UsbChannel

State: what `open` acquires (`ctx`, `handle`, `claimed`, `tx`, `rx`), the pipeline
thread and its flag (`pipe`, `working`), the transmit side (`status`, `buffer`,
`signal`, `opLock`, and per writer `pc` and `ret`), the controller (`ctl`,
`connected`). History: `failed`, `lost` (what no pointer refers to any more),
`misused` (whether libusb was handed something that had been given back or that it still
works on) and `early` (whether a `wait` has ended for an event nobody set).

`OpenFailsEarly` and `OpenFailsLate` are `open` with the failing step as parameter;
`Open` and `OpenReturns` are the successful one, cut where `start_pipe_line` has
created the thread and not yet set the flag. `Close` and `CloseReturns` are cut at
the join; `Destroy` is the destructor's `close`. `PipeCheck`, `PipeReports` and
`PipeTimesOut` are the loop of `pipeline_handler`, the second with
`transfer_cb_proc` in it. `WritePrepares`, `WriteSubmits`, `WriteSubmitFails` and
`WriteReturns` are `write`, cut at the submission and at the wait. With `Spurious`
there is also `WriteWakesEarly`: `event.h:115` tests its flag once, so a wakeup without a
signal ends the wait, and `write` reads the status of a transfer still under way, gives
up `_op_lock` and returns. The run has such wakeups. What the properties claim of a
transfer and its owner they claim until the first of them; afterwards a later `write`
may be told of the earlier transfer, and `close` may free a transfer under way, which
`MisuseIsExplained` gives as the second of two causes besides an `open` that failed late.

`_rx_libusb_transfer` is allocated and freed but never submitted, so it is a
resource here and nothing else. The driver serialises `disconnect` with nothing;
`Close` happens while nobody writes (see "Not modelled").

### RxBuffer and UsbRx

The device's bytes are numbered 1, 2, 3, ...; the buffer then shows where each of
its bytes came from, and 0 stands for a byte never received. A USB packet ends a
bulk transfer if it fits (`Receives`) and overflows it otherwise (`Overflows`: an
error, the packet is gone, and libusb may or may not count the room as filled).
`FirstTransfer` and `SecondTransfer` are the two calls in `waitForData`,
`FirstBrought` and `SecondBrought` what the code does with their results: a failed
first transfer is only printed, the second decides. `RxBuffer` holds the arithmetic
itself, among it `Rest`, which is the length of the second transfer and, in the
code, also its offset. `waitForData` admits every size up to the whole buffer (line 222);
a wait for more than half of it, 613 bytes on, can have a second transfer that goes
beyond `_rx_buffer`. What it overwrites is `_op_lock` and what follows, so the phase is
`"overrun"` from there on and nothing happens any more. `TypeOK` says which waits can
come to it. The driver's own are for 46 bytes at most.

### SlamkitDriver

A request is `SendCommand` (which takes the lock and hands the command to `write`),
`WriteReturns` (which gives it up), `WaitResponse` (the lock again), `FirstTransfer`,
perhaps `SecondTransfer`, and `Deliver` (`read` and the checks of the header).
`SendRefused` and `WaitRefused` are the early returns when not connected. The device is
`DeviceAnswers` and `DeviceIgnores`. `answer[c]` is what the caller's last call returned,
`given[c]` the request whose answer it was last given, whatever failed since
(`NeverOlder`). An answer is a row of cells `<<request, position>>`, so a mixture of two
answers is visible. The packets of the three kinds have 31, 35 and 46 bytes; `Lengths` is
3, 4 and 5 cells, which keeps their order and that every difference is shorter than the
shortest packet.

`Faults` selects the environment: `"lost"` commands and answers, `"late"` answers
(the timeout may pass before an answer that is under way), `"rxerr"` (the device
refuses a command) and `"reconnect"`.

`RequestSpec` knows callers, numbered calls and the device's reply: `Call`, `Serve` (once
per call, an answer or a refusal) and `Return`, which reports exactly that, and a timeout
only if there is no reply. The mapping takes a request for pending from `SendCommand` to
the end of the call, and for served while its answer is at the endpoint or the call is
about to read it; data counts as an answer if it is one, cell by cell
(`ImplementsRequestSpec`). Without late answers it is always the first transfer that
brings the answer: the second starts only when the endpoint has stayed empty for the
whole timeout, and what it fetches then lands behind the stale start of the buffer
(`sl_usb_channel.cpp:248`) and is lost. That case is the subject of `UsbRx`, not of this
refinement. It holds for a caller that has the driver to itself; two
callers refute it (`driver_two_clients` shows the shorter `AnswerIsOwn`).

### ImuNode

`phase` and `topic` are the place in the loop of `main`, `held` and `stamp` are
`imu_data` and `processed_data`, `last` are `last_ts_ms` and
`processed_last_ts_ms`. `Ask`, `Written` and `Wait` are the node's steps inside the
driver, the second the return of `write()`;
`Publish` is the return of the call with `imu_publish` or `imu_processed_publish`.
`NodeInit` leaves the samples uninitialised, as lines 207 and 210 of `node.cpp` do.
`DeviceSamples` lets the device's clock stand still or move between two answers.
The node has one thread, so the driver has the one client `Node`. `ChannelRefused`,
`ConnectFails` and `ConnectSucceeds` are the start of `main`, which returns -1 after the
first two; `Stop` is the end of the loop with `disconnect`.

### SerialPort

One thread makes requests under the driver's lock (`Begin` to `End`), calling `flush`,
`write`, `waitForData` and `read` in any order; the owner opens, closes and replaces the
channel. `open` is one step (`OpenFails`, `Opened`), for it holds the lock; `close` is cut
into its steps (`CloseMark`, `CloseCancel`, `CloseRelease`, `CloseClears`, `CloseDone`),
for it takes none: the descriptors go first, `_is_serial_opened` after them. `NewChannel`
is the assignment of `_channel` in `connect`, which takes no lock either: a request may be
in any call of the old channel, and what it does with freed memory ends the process or
looks like a port that is not open. An `open` that fails leaves `connected` as it was, for
another `connect` may have set it. `waitfordata` is cut at every look at what the owner
may change: `WaitEnters`, `Loop`, the `select` (`SelectReady`, `SelectWaits`,
`SelectTimesOut`, `SelectFails`), `Cancelled`, `Looked`, `Sleeps`. `watch` is the
descriptor set, which `select` overwrites. The three ports differ where the code does:

- Linux takes the time a `select` used off the timeout and has the self pipe;
- macOS gives each `select` the whole timeout and compares the nap with the whole timeout
  (`MayNap`), has no pipe, and starts with descriptor 0;
- Windows (`Win...`) waits for an event object that an overlapped `WaitCommEvent` sets.
  `close` is `SetCommMask`, `ResetEvent` and `CloseHandle`, in three steps.

Undefined behaviour is a choice: `FD_SET` and `FD_ISSET` of -1 abort the process or do
nothing; a `WaitCommEvent` left behind by a timed-out wait is completed by a byte, by
`close` or by the next wait's `SetCommMask` and writes to a stack frame that is gone,
which may end the process; the uninitialised count of a port that was closed may pass for
enough bytes. `found` are the bytes for which a wait answered true, `cut` says whether
`close` or another channel has come since that wait began; with an uninitialised count as
with a real one `found` is what the caller was told (`ReadyIsQueued`). A byte takes one
unit of time on the wire, a timeout is a number of these. New descriptors get new numbers,
so that one closed twice or used after its end shows.

### SocketAddress, Socket, NetChannel

`SocketAddress` has the operations on the shared `sockaddr_storage` as operators: both
types of addresses keep the port in one place and the host in two, a refused text still
changes the type, and the look-up compares families of the system with the numbers of
the address types.

`Socket` is one object of either kind with the kernel's side in `sock`. An operation
that may block is `Begins` and one of the completions in `CallEnds`; any call may fail.
The arithmetic of limits is left out but for the 0 that means none (`unlimited` holds the
directions without a limit); the constructors ignore a `setTimeout` that fails, so a new
socket may be without one too (`Limits`). `recv` takes part of
a stream, `recvFrom` cuts a datagram, `connect` at its limit leaves the connection under
way, and `dispose` under a call leaves that call its kernel's socket.

`NetChannel` puts both channels under the driver: the owner's steps (`NewChannel`,
`ChannelBind`, `TcpOpen` or `UdpOpen`, `Opened`, `TcpClose` or `UdpClose`,
`Disconnected`), a request from `SendCommand` to `TcpHasRead` or `UdpHasRead`, the device
(`Answers`, in two pieces over a stream, perhaps twice over datagrams; `Loses`) and
strangers (`Sent`). Datagrams may be empty (`SentEmpty`): `recvfrom` then answers 0 and
`RESULT_OK`, and the loop of `UdpChannel::read` goes round with nothing gained.
`NewChannel` may come under a request, as in `connect`: the process ends, or the call goes
on with the socket of the channel that is gone (`OrphanReturns`). `AfterClose` is a
request that meets a channel closed under it: the null pointer ends the process, a
descriptor read just before fails. Users that call the classes directly are looked at one
at a time (`user`): `CallerStep`, `NamerStep`.

## 3. Runs

| run | instance | shows |
|---|---|---|
| `hal` | 2 threads, 3 sets, 2 limits, 2 clock readings, Linux and macOS (395,936 states) | mutual exclusion whatever `lock` answers; inside the lock `Event` implements `EventSpec`; no lost wakeup; exact deadlines, which end what they limit |
| `usb_faults` | 2 writers, 3 opens, every fault of `open`, waits that end early (93,311 states) | ownership of the transfer until a wait ended early, life cycle, leaks and misuse explained, `write` and `close` return |
| `usb_start` | 1 writer, 1 open, no fault | an open channel whose pipeline thread has already ended |
| `rx_contract` | buffer of 8 bytes, waits for 2, 4, 6 and 9, packets of 1 to 4, 6 bytes sent (897,000 states) | which waits overrun the buffer; whole and halved answers are read in order; when the first byte is stale; waits end |
| `rx_ready` | waits for 2 and 4 bytes, packets of 1 to 4, 8 bytes sent | `waitForData` is true and the bytes are not there |
| `driver_faults` | 2 callers, 2 kinds, 3 requests, 2 connects, every fault (2.26 million states) | nothing older than what was last given, no torn answer |
| `driver_two_clients` | 2 callers, 2 requests, no fault | callers get each other's answers |
| `node_steady` | 3 rounds, losses and refusals, with and without a device | without late answers the driver implements `RequestSpec` for its sole caller; after a first sample only samples, each once and in order; shutdown from every phase, if `write` returns |
| `node_first` | 2 rounds, losses | an uninitialised sample is published |
| `serial_close` | 3 platforms, waits for 1 and 2 bytes, for ever and for 2 units, 2 opens | descriptors and cancellations across `close`, `open` and another channel at any point; what a true answer is worth; when a wait ends (442,065 states) |
| `serial_timeout` | Linux, waits for 1 and 2 bytes for 2 units | a wait with a timeout that never returns |
| `net` | both kinds of sockets, 2 sockets, 2 requests for 2 cells, reads and foreign datagrams of 2, empty datagrams (635,000 states) | own answers, the peer, the accounts of sockets, every call with a limit and every request made of such calls returns |

The bounds and why they are enough. Two writers, callers or openings show each
interleaving of two of them, and what a third could add (being the one a lock is granted
to) it adds in the place of the second; the theorems are for any number. Three opens of
the USB channel are a failure, another failure or success over its leftovers, and a
success after that. A wait for two and four bytes has every case of the second transfer:
nothing, a part shorter than half, half, more than half, too much; in a buffer of 8 the
wait for 6 is one for more than half of it and the one for 9 is refused. Three requests
are one that goes wrong, one that gets its answer and one that gets the answer of that.
Six requests of the node are three rounds: a sample, one that is missing or repeated, and
the next. The limits 1 and 1999 ms at both ends of a second are deadlines with and without
whole seconds and with and without a carry. Over the serial port a wait for two bytes can
find none, one and two; two opens are a session and the one that inherits what it left;
two units of time are a `select` that waits, waits again and times out. Over sockets two
requests are the one whose late or doubled answer is left and the one that meets it, two
cells are enough for an answer that is cut, and an empty datagram or a stranger's shows
where `read` goes round; a port above 65535 shows the cut to 16 bits; two sockets are the
one given up and its successor, or a listener and what it accepts. What is proved does not
depend on the bounds (section 5).

Deadlock is checked in `rx_ready`. It is switched off where the system may stop: an event
nobody sets, a destroyed channel, an aborted process, a buffer that was overrun, and
models whose requests are bounded.

### What the violations say

- `usb_start` (`sl_usb_channel.cpp:419`): the thread is created before the flag it
  tests is set. If it runs first it ends, and the next `write` waits for ever.
- `rx_ready` (`sl_usb_channel.cpp:248`): the second transfer is put at
  `size - ready_size` instead of `ready_size`.
- `driver_two_clients` (`sl_slamkit_driver.cpp:225`): the lock covers the sending of
  a command and the waiting for an answer, but not both together.
- `node_first` (`node.cpp:220`): the loop publishes after a call that failed.
- `serial_timeout` (`arch/linux/net_serial.cpp:335`): with fewer bytes queued than asked
  for, `select` returns at once, its timeout never passes, and the loop goes on for
  ever, with the driver's lock. The macOS port starts each round with the whole timeout
  and does the same.

Further disagreements are in the models but have no run of their own:

- `event.h:115` tests the flag with an `if`. With `Spurious`, or with a second waiter
  that no lock keeps out, `wait` answers `EVENT_OK` for an event nobody set; the
  assertion of line 152 that says otherwise is compiled out in the Release build
  (`WakeSeesSignal` and `OkNeverOutrunsSet`, which HalProofs proves for a sole waiter).
- `ReadReturn`: `read` copies bytes and returns 0 for them (`sl_usb_channel.cpp:381`,
  against the comment at `sl_slamkit_driver.h:112`). `WriteReturns`: a failed `write`
  returns 0, where `sl_slamkit_driver.h:104` says negative.
- With `"late"` in `Faults` even a sole caller gets the answer to an earlier request:
  `clearReadCache` does not empty the endpoint and no command code is compared.
- On Linux the bit of the pipe is lost with the first `select` that brings data, so a
  `close` after it does not end the wait (`CloseEndsWait` is about waits that still watch
  the pipe, and about channels that are not replaced meanwhile). macOS has no pipe at all.
  On Windows `ResetEvent` in `close` takes away the signal that `SetCommMask` has just
  given to a wait that has not run since; a wait without a timeout then sleeps for ever.
- A macOS port that is never opened closes standard input when it is destroyed
  (`DescriptorsOwned` says so).
- An address whose text is refused stands for the own host (`PeerIsGiven`), the look-up
  without DNS finds nothing, and with it IPv4 addresses only (`LookUp`).
- A part of an answer over TCP passes for the whole if it has the sync byte
  (`OwnAnswer`).
- A second `connect` of a driver that is just being connected replaces the channel of the
  first: its socket is never closed (`SocketsAccounted` excepts it), and a request may be
  in a call of it.
- After an `open` that failed on a driver that another `connect` has connected,
  `_isConnected` stays true with the port closed.

Not modelled, but seen: `sl_slamkit_cmd.h:101` gives the summed angles as degrees, and
`node.cpp:151` converts them from radians to degrees.

## 4. Fairness

- `Hal`: a thread that was woken or whose deadline passed gets the event's mutex back, a
  deadline passes, and a free mutex is given to a thread that waits for it with a
  deadline, or that deadline passes. Nobody is assumed to call `set` or to leave the lock.
- `UsbChannel`: the scheduler runs each thread that can run; no wait has to end early.
  `PipeReports` is strongly fair, because `libusb_handle_events_timeout` reports a
  finished transfer before it reports a timeout, so a pass of the loop cannot overlook it
  for ever. A submitted transfer finishes, at the latest by `TX_TICKET_TIMEOUT`. Nobody
  has to open, close or write. `WriteCompletes` is claimed for a pipeline thread that has
  not ended: after the start of `usb_start` a write hangs.
- `UsbRx`, `SlamkitDriver`: a bulk transfer with a timeout ends. The device need not
  send anything; in `SlamkitDriver` it takes the commands it gets, and may ignore
  them. Weak fairness is enough for the driver's lock because requests are bounded.
  `WaitEnds` takes an overrun of the buffer for an end.
- `ImuNode`: the one thread runs, but nobody promises that `write` returns: it waits
  without a deadline (`sl_usb_channel.cpp:304`) for the pipeline thread, which in
  `usb_start` has ended before it began. `Written` has no fairness, and
  `ShutdownCompletes` is claimed for behaviours in which the node is not stuck there
  for ever. Nobody has to interrupt the node.
- `SerialPort`: the request's thread and, once `disconnect` has begun, the owner's go on,
  and time passes. No byte has to come, no `select` has to fail, nobody has to close.
- `NetChannel`: the same of its two threads, and a call whose limit is not 0 ends at it
  (`CallExpires`): the kernel keeps `SO_RCVTIMEO` and `SO_SNDTIMEO`. No peer has to answer.
  `CallsReturn` excepts calls without a limit, because their caller asked for none or the
  constructor could not set one. For a whole request it further supposes a time from which
  on no `connect` keeps it from the lock and no empty datagram is queued: as long as those
  come, `UdpChannel::read` goes round, under the driver's lock.

## 5. Proofs

All theorems hold for every value of the constants that the named assumptions admit;
`MaxSets`, `MaxOpens`, `MaxRequests` and the like may be any natural number.

**HalProofs**, the event alone. `AutoResetLosesNoWakeup` assumes `AutoReset` and nothing
about the number of waiters or spurious wakeups. The property alone is inductive with the
typing: a `Set` that finds sleepers wakes one, a woken thread that goes takes the flag
down. `SoleWaiterSeesSignal`, `SoleWaiterCountsOnce` and `SoleWaiterImplements` assume one
waiter at most and `~Spurious` - the case of the channel, where `_op_lock` admits one
writer to the event. `OneSignalOneOk` strengthens the count: while the flag is up one
raised signal is still unspent. The refinement maps each action to its abstract one,
`Expire` to a stutter.

**HalProofs**, under the lock. `LockInv` is `Exclusion` with the typing: a thread gets
inside by being given the mutex, except by a call of `AutoLocker` that failed, and that
never happens because `AutoLocker` sets no deadline. From it follows that there is one
waiter at a time, so `OneSignalOneOk` holds for any number of threads
(`LockedEventImplements`), with no assumption but an auto-reset event and no spurious
wakeups - what SoleWaiter *assumed* of the event alone is here what the lock provides.
`EventStep` says that every step of `Hal` is a step of `Event`, which gives
`LockedEventLosesNoWakeup`. `DeadlinesAreExact` is arithmetic: one carry is enough, since
both parts are below a second.

**UsbChannelProofs.** `TransmitInv` ties the controller, the thread and its flag
together (`PipelineFollowsControl`), says that a channel in use holds everything
(`HeldInUse`), that a writer inside `write` owns `_op_lock` on an open channel
(`WriterHoldsLock`), and, if waits do not end early, that the transfer and the event
are that writer's (`WriterOwnsTransfer`, `QuietWithoutWriter`). None of the theorems
assumes that waits do not end early: the properties carry the condition themselves, as
`early`, which stays down until the first one does. No part of the invariant is
inductive alone: that no transfer is under way at `close` needs the writers, that
writers stay off a closed channel needs the controller. `ResourceInv` adds what holds
of the resources without a late failure. From these follow `BufferIsOwned`,
`SignalIsOwned`, `WritesAreCounted` and `MisuseHasACause`, and, whether waits end early
or not, `PipelineContextLives` and `ClosedChannelIsClean`. `LossInv` says what a
channel that is not in use can still hold - a context only after a missing device, a
handle only after a late failure, a transfer only after the receive transfer could
not be allocated - and gives `LossesHaveTheirFailure`.

**UsbRxProofs.** `StoreEffect` says what a transfer does to the buffer, cell by cell;
`RxInv` says for each phase what the buffer's start holds: after the first transfer
its bytes in order (`Prefix`), after the second, if it brought as much as the first,
all of them. `WholeAnswersAreRead` and `SyncByteIsFresh` follow for all sizes,
packets and streams, those that fill the buffer or exceed it among them.

**SlamkitDriverProofs.** `AnswersNeverGetOlder` rests on `Order`: commands and answers are
queued in the order of the requests, the request at the start of the buffer is older than
all that are still queued and no older than what any caller was ever given (`given`, which
a failed call leaves alone). Every first transfer that brings something moves the start of
the buffer forward; `Calls` is needed to know that a second transfer does not touch it and
that `read` copies at least one cell. `SoleCallerGetsItsAnswers` assumes one caller
(`SoleCaller`) and no late answers or reconnects (`Prompt`); `AloneInv` says that such a
caller finds at most its own answer at the endpoint, so a first transfer brings all of it
or nothing, and a second one never succeeds: it starts when a timeout has passed with the
command still unanswered, and then no answer may come. `SoleCallerIsServed` is the
refinement: on the same invariant `ServiceStep` maps each step (`FirstAlone`,
`SecondAlone` and `DeliverAlone` say what the three steps of a sole caller do), and
`ServiceView` reduces the mapping to what the invariant speaks of. It adds to
`AnswerIsOwn` that an answer in time is not lost between the endpoint and the caller, and
that no call times out that was answered.

**NoTornAnswerProofs.** `OneKindNeverTears` holds for all faults and callers, on top of
the invariant of SlamkitDriverProofs. `Untorn`: while all requests are of one kind, a
transfer into the room of an answer brings an answer or nothing, so the start of the
buffer is one answer (`Whole`), a second transfer follows only an empty first one and
lands behind that answer, and what is read is all there (`ClientWhole`). The theorem is
about one kind only, and must be: a caller that asks for raw data and then for the
device information, whose answer comes during the second transfer, is given the old
raw answer at the start of the buffer followed by what lay behind it.

**SerialPortProofs.** Typing, then three invariants about `close` in the middle of a
request. `ReadyStaysQueued` rests on `SessionInv`: what a wait found stays queued unless
`close` or another channel has come since it began, because everything else that empties
the queue - `open`, `flush`, `read` - is kept out by the driver's lock or is the request
itself, and a wait that counts bytes on a port whose descriptor is gone was cut off.
`CancelStaysFresh` comes out of the same invariant: the steps of `close` run with
`_closePending` set, only `open` and the constructor, which make the pipe anew, reset
it, and a wait that meets it set is one during which the channel was closed.
`DescriptorsStayOwned` needs that numbers are fresh and that an open port has a
descriptor of its own (`OwnedInv`); it holds for all three ports, with macOS's exception
spelled out in the property.

**ImuNodeProofs.** Like `SoleCallerGetsItsAnswers` these theorems assume `Prompt`: no
answer outlasts the timeout. With one that does, the node publishes the answer to another
request, and if it is of the other kind no sample at all, for `sl_slamkit_driver.cpp:186`
looks at the sync byte only. That
the node is the only client is `ImuNode`'s own assumption. `NodeInv` puts the driver's
invariants under the node's: `DriverPart` says where a request can be under way - only
while `main` waits to publish, and then the newest one, so that `AloneInv` holds from
`connect` to `disconnect`. `Log` says of each topic that the hold is the memory the node
started with or the sample of a request it is through with (`Settled`), that the
published rows are of the same two sorts, never the first after the second, with
timestamps that rise and end with `last_ts_ms` and do not exceed the one in the hold.
`StrictlyNewer` is not inductive without `Fresh`: the answer that has left the device is
not older than what the node holds. The device's clock never goes back, but nothing in
the node compares timestamps for order, so newness has to be carried from the device
through the endpoint and the driver to the topic. `NodePublishesWhatItReads` needs the
whole of it, for the one place a sample is suppressed is where its timestamp is
`last_ts_ms`. `NodeIsServed` carries the driver's refinement over to the node: outside the
rounds, where the driver is connected or disconnected, nothing is pending and the abstract
service rests (`ServiceRests`).

**Types.** `Typing`, `BufferIsNeverExceeded`, `LockAndCacheAreKept`, `SerialTypeCorrect`,
`HalTypeCorrect` and `TypesAreKept` are the type invariants of the runs. Three of them say
more than types: `BufferIsNeverExceeded` that only a wait for more than half the
buffer can have a transfer that leaves it, and that any other keeps transfers and counts
inside, whatever the first transfer brought; `LockAndCacheAreKept` that the lock is held
exactly inside `write` and `_waitResponse`; and `TypesAreKept` that every operation of a
socket address leaves a port of 16 bits and a host of the address's own family.

**SerialPortProofs**, time. `TimeoutNotEarly` is an action property; its step needs
`TimeInv`, that what a wait has waited and what it has left add up to its timeout at
least, and from `SessionInv` that a wait woken through the pipe was woken by a `close`
during it, for a stale byte in the pipe would end a wait early.

**NetProofs.** Three invariants, one on top of the other.

- `AccountInv`, for `NoSocketIsLost`, says that the object's socket, the accepted one and
  those given up are different, that numbers are fresh, and that only a connected channel
  whose owner is in no call has a socket that was opened. The last part makes it
  inductive: what is replaced while the driver is not connected was never opened, and
  what is replaced while it is connected the property excepts. Most steps leave
  the books alone, which `CallsKeepObject`, `CallerKeepsObject` and `RequestKeepsBooks` say
  once.
- `PeerInv`, for `PeerIsTheOneGiven`: the address the owner and the calls share is the one
  given whenever a connection is about to be made with it. A connection left under way by
  a `connect` that timed out has its peer already, and the next `connect` keeps it.
- `LiveInv`, for `AnswersBelong`, holds until the process is aborted. `Places` says where
  the owner and the request can be at the same time (the lock covers the opening, and a
  request goes on after `close` without a socket), `CallIsOwn` that a call under way is its
  caller's unless the channel it was made on has been replaced, and `PeerIsLinked` that the
  socket of a connected channel has its peer, so that no stranger gets through. `FlowInv`
  follows the answer of a request that began when nothing was under way (`OwnFlow`): the
  device has at most its command to answer (`commands`), a datagram socket holds whole
  answers to it and empty datagrams (`Datagrams`, several answers if the device repeats
  itself), a stream as many of its first cells as the device has sent (`Streamed`: the
  length of what is queued is `given`), until it is read, and what was read begins the
  answer (`HasRead`). The invariant is about the present request only; `BeginsFresh`
  establishes it anew for the next one that finds nothing on its way.

Only model-checked: every liveness property (`TimedCallsReturn`, `WriteCompletes`,
`CloseCompletes`, `WaitEnds`, `ShutdownCompletes`, `SilentWaitEnds`, `CloseEndsWait`,
`CallsReturn`), since fairness and `ENABLED` are out of the prover's reach. Every safety
property of a passing run is proved.

## 6. Not modelled

- Inside the modelled parts: the bytes and the checksum of a packet (`_sendCommand`);
  `actualReady`; the rate and the conversions of the node; `forceUnlock` and the
  destructor of `Locker`; the Windows branches of `event.h` and `locker.h`, wrappers of
  the system's events and mutexes.
- `disconnect` in the middle of a USB transfer: it is modelled between the two halves of a
  request over USB, and at any point over serial ports and sockets, where the code's own
  steps decide what happens. Over USB that is libusb's doing. `UsbChannel` knows no
  timeouts of bulk transfers, `UsbRx` no `close`: the sides share the handle only.
- Two threads in `connect` at once, but for what they do to a channel: the second `open` of
  a port or socket that is open, and the assignment of `_channel` under a request. The race
  on the `shared_ptr` itself is left out, and over USB nobody replaces the channel.
- Serial ports: the settings of the terminal, line errors and reads that stay pending on
  Windows, `rxqueue_count` (whose value nobody uses), and what a stray `FD_SET` overwrites.
- Sockets: the Windows and macOS files. The macOS one is the Linux one but for a socket
  option and raw sockets; `CMakeLists.txt` builds neither on Linux. The room
  `UdpChannel::read` gives its last datagram (`sl_udp_channel.cpp:91`) is not compared
  with the driver's buffer, which is larger than any packet.
- The CRC and `rp::hal::Thread`, which no code calls: the first is a function of its
  input without state, and comparing it with its definition is a computation over 32-bit
  words, not a matter of behaviour over time; the second wraps `pthread` calls. The client
  node has no state. Launch files are configuration.

## 7. What could come next

1. That `NetChannel` implements `RequestSpec` too, for requests that begin when nothing is
   under way; its answers may be repeated and cut, so the mapping has to say when one has
   come.
2. `IChannel` as a byte stream that the serial, TCP and USB channels implement in the cases
   section 3 shows to be sound.
3. `disconnect` during a USB transfer at the granularity of the accesses to `_dev_handle`.
