------------------------------ MODULE ImuNode ------------------------------
(***************************************************************************)
(* slamkit_node (node.cpp), the one client of the driver.  main() connects  *)
(* the driver to the USB channel the parameters name, or gives up.  In      *)
(* every round of its loop it asks for a raw and for a processed IMU sample *)
(* and publishes each on its topic unless it has the timestamp that was     *)
(* published last.  The rounds are composed with the steps of the driver,   *)
(* of the channel and of the device in module SlamkitDriver.                *)
(***************************************************************************)
EXTENDS SlamkitDriver

CONSTANT Node  \* the one client

ASSUME NodeAssumption == Clients = {Node} /\ Kinds = {"raw", "processed"}

VARIABLES channelType, \* the parameter: is it "usb"?
          phase,     \* what main() does next: "start", "head", "ask", "publish",
                     \* or "done" and "failed" (it has returned 0 or -1)
          topic,     \* for which kind of sample
          ok,        \* rclcpp::ok()
          clock,     \* the device's clock
          sample,    \* history: the time of the sample in each answer
          held,      \* imu_data and processed_data, as rows of cells
          stamp,     \* their timestamps
          last,      \* last_ts_ms and processed_last_ts_ms
          published   \* what was published on each topic: rows and timestamps

driver == <<shared, asked, wire, cache, caller>>
time == <<clock, sample>>
node == <<channelType, phase, topic, ok, held, stamp, last, published>>
nodeVars == <<driver, time, node>>

\* imu_data and processed_data are not initialised; their timestamps may be
\* zero like the timestamps published last.
NodeInit ==
  /\ connected = FALSE /\ connects = 0 /\ Quiet
  /\ channelType \in {"usb", "other"}
  /\ phase = "start" /\ topic = "raw" /\ ok = TRUE
  /\ clock = 0 /\ sample = [r \in 1 .. MaxRequests |-> 0]
  /\ held = [k \in Kinds |-> [i \in Cells(Size(k)) |-> Junk]]
  /\ stamp \in [Kinds -> {0, 1000}]
  /\ last = [k \in Kinds |-> 0]
  /\ published = [k \in Kinds |-> <<>>]

\* The cell of an answer with the timestamp: the first field of processed
\* samples, a later one of raw samples.
StampCell(k) == IF k = "raw" THEN 2 ELSE 1

\* The timestamp in a row that is taken for a sample of kind k.  In a row that
\* is none, the bytes of another field stand where it should be.
StampIn(k, row) ==
  LET cell == row[StampCell(k)] IN
  IF cell # Junk /\ Kind(cell[1]) = k /\ cell[2] = StampCell(k)
    THEN sample[cell[1]]
    ELSE 1000 + 10 * cell[1] + cell[2]

Fetched == answer[Node].result = "OK"
-----------------------------------------------------------------------------
\* A channel of another type is refused; main() returns, also when the driver
\* cannot open the channel.
ChannelRefused ==
  /\ phase = "start" /\ channelType # "usb"
  /\ phase' = "failed"
  /\ UNCHANGED <<driver, time, channelType, topic, ok, held, stamp, last, published>>

ConnectFails ==
  /\ phase = "start" /\ channelType = "usb"
  /\ phase' = "failed"
  /\ UNCHANGED <<driver, time, channelType, topic, ok, held, stamp, last, published>>

ConnectSucceeds ==
  /\ phase = "start" /\ channelType = "usb"
  /\ Connect
  /\ phase' = "head"
  /\ UNCHANGED <<time, channelType, topic, ok, held, stamp, last, published>>

\* The loop's condition, and disconnect() after the loop.
Round ==
  /\ phase = "head" /\ ok
  /\ Len(asked) + 2 <= MaxRequests
  /\ phase' = "ask" /\ topic' = "raw"
  /\ UNCHANGED <<driver, time, channelType, ok, held, stamp, last, published>>

Stop ==
  /\ phase = "head" /\ ~ok
  /\ phase' = "done"
  /\ connected' = FALSE
  /\ UNCHANGED <<connects, lock, asked, wire, cache, caller, time>>
  /\ UNCHANGED <<channelType, topic, ok, held, stamp, last, published>>

\* getImuRawData() or set_motion_hit_and_get_imu_processed() begins; write()
\* returns when the channel's thread reports the transfer, if it does (module
\* UsbChannel); ...
Ask ==
  /\ phase = "ask"
  /\ SendCommand(Node, topic)
  /\ phase' = "publish"
  /\ UNCHANGED <<time, channelType, topic, ok, held, stamp, last, published>>

Written == WriteReturns(Node) /\ UNCHANGED <<time, node>>

\* ... and the call goes on in the driver.
Wait ==
  /\ WaitResponse(Node) \/ FirstTransfer(Node) \/ SecondTransfer(Node) \/ Deliver(Node)
  /\ UNCHANGED <<time, node>>

\* Slips for the properties to notice; the specification uses none of them.
FailureClears ==
  /\ held' = [held EXCEPT ![topic] =
                IF Fetched THEN answer[Node].data ELSE [i \in Cells(Size(topic)) |-> Junk]]
  /\ stamp' = [stamp EXCEPT ![topic] = StampIn(topic, held'[topic])]

EmitAlways ==
  /\ published' = [published EXCEPT
       ![topic] = Append(@, [row |-> held'[topic], stamp |-> stamp'[topic]])]
  /\ last' = [last EXCEPT ![topic] = stamp'[topic]]

EmitSharesLast ==
  IF stamp'[topic] = last[topic]
    THEN UNCHANGED <<published, last>>
    ELSE /\ published' = [published EXCEPT
              ![topic] = Append(@, [row |-> held'[topic], stamp |-> stamp'[topic]])]
         /\ last' = [k \in Kinds |-> stamp'[topic]]

RetryUntilRead ==
  IF ~Fetched THEN phase' = "ask" /\ topic' = topic
  ELSE IF topic = "raw" THEN phase' = "ask" /\ topic' = "processed"
                        ELSE phase' = "head" /\ topic' = topic

\* A call that fails leaves the sample as it was ...
TakeAnswer ==
  /\ held' = IF Fetched THEN [held EXCEPT ![topic] = answer[Node].data] ELSE held
  /\ stamp' = IF Fetched THEN [stamp EXCEPT ![topic] = StampIn(topic, answer[Node].data)]
                         ELSE stamp

\* ... and the sample is published all the same, unless its timestamp is the
\* one published last.
Emit ==
  IF stamp'[topic] = last[topic]
    THEN UNCHANGED <<published, last>>
    ELSE /\ published' = [published EXCEPT
              ![topic] = Append(@, [row |-> held'[topic], stamp |-> stamp'[topic]])]
         /\ last' = [last EXCEPT ![topic] = stamp'[topic]]

NextTopic ==
  IF topic = "raw" THEN phase' = "ask" /\ topic' = "processed"
                   ELSE phase' = "head" /\ topic' = topic

\* The call has returned: imu_publish() or imu_processed_publish().
Publish ==
  /\ phase = "publish" /\ pc[Node] = "idle"
  /\ TakeAnswer
  /\ Emit
  /\ NextTopic
  /\ UNCHANGED <<driver, time, channelType, ok>>
-----------------------------------------------------------------------------
\* The device answers with the newest sample, perhaps the same as last time.
DeviceSamples ==
  /\ DeviceAnswers
  /\ clock' \in {clock, clock + 1}
  /\ sample' = [sample EXCEPT ![Head(commands)] = clock']
  /\ UNCHANGED node

DeviceIsSilent == DeviceIgnores /\ UNCHANGED <<time, node>>

\* The process is asked to end.
Interrupt ==
  /\ ok
  /\ ok' = FALSE
  /\ UNCHANGED <<driver, time, channelType, phase, topic, held, stamp, last, published>>

NodeNext ==
  \/ ChannelRefused
  \/ ConnectFails
  \/ ConnectSucceeds
  \/ Round
  \/ Stop
  \/ Ask
  \/ Written
  \/ Wait
  \/ Publish
  \/ DeviceSamples
  \/ DeviceIsSilent
  \/ Interrupt

NodeSpec == NodeInit /\ [][NodeNext]_nodeVars

\* The loop's thread runs, and the device takes the commands it gets.  Nothing
\* makes write() return: it has no deadline.
NodeFairSpec ==
  /\ NodeSpec
  /\ WF_nodeVars(ChannelRefused \/ ConnectFails \/ ConnectSucceeds)
  /\ WF_nodeVars(Round \/ Stop \/ Ask \/ Wait \/ Publish)
  /\ WF_nodeVars(DeviceSamples \/ DeviceIsSilent)
-----------------------------------------------------------------------------
\* A row published on topic k that is an answer to a request for such a sample.
IsSample(k, entry) ==
  \E r \in DOMAIN asked : Kind(r) = k /\ entry.row = Answer(r) /\ entry.stamp = sample[r]

\* README.md line 90: imu/data_raw carries raw IMU data (and imu/processed_yaw
\* processed data): what is published was read from the device.
PublishedIsSample ==
  \A k \in Kinds : \A i \in DOMAIN published[k] : IsSample(k, published[k][i])

\* The same once the first sample was read: calls that fail because a command or
\* an answer was lost or the device refused publish nothing that is not a sample
\* of the topic.  It takes a timeout longer than any answer: a late answer of the
\* other kind passes for one of the topic by its sync byte.
SamplesFollowSamples ==
  \A k \in Kinds : \A i, j \in DOMAIN published[k] :
     i < j /\ IsSample(k, published[k][i]) => IsSample(k, published[k][j])

\* No sample is published twice and none after a newer one, although a call
\* that fails leaves the old sample in place and the device may answer twice
\* with the same sample.
StrictlyNewer ==
  \A k \in Kinds : \A i, j \in DOMAIN published[k] :
     i < j /\ IsSample(k, published[k][i])
       => published[k][i].stamp < published[k][j].stamp

\* What a call has read is what was published last on its topic, except for a
\* first sample with timestamp 0, the initial value of last_ts_ms.
ReadIsPublished ==
  phase \in {"ask", "head"} /\ asked # <<>> /\ Fetched =>
    LET k == Kind(answer[Node].request) s == sample[answer[Node].request] IN
      \/ s = 0
      \/ published[k] # <<>> /\ published[k][Len(published[k])].stamp = s

\* When the process is asked to end, main() returns, and leaves the driver
\* disconnected, even if the device has fallen silent or was never found; but
\* not if a write() never returns, as when the channel's thread has ended before
\* it began (PipelineRuns in module UsbChannel).
ShutdownCompletes ==
  []<>(pc[Node] # "write") => (~ok ~> (phase \in {"done", "failed"} /\ ~connected))
=============================================================================
