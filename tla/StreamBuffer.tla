---------------------------- MODULE StreamBuffer ----------------------------
(***************************************************************************)
(* One stream, batching or message buffer of stream_buffer.cpp, with its   *)
(* one sender and its one receiver; either may be a task or an ISR.        *)
(*                                                                         *)
(* Grain.  The head is written by the sender only and the tail by the      *)
(* receiver only, without a lock, so each call is split at every access to *)
(* what the other end writes: the two tasks preempt each other between any *)
(* two steps.  A critical section, and a call made by an ISR, is one step. *)
(* The SEND_COMPLETED and RECEIVE_COMPLETED macros suspend the scheduler:  *)
(* the other task waits, an ISR does not.                                  *)
(*                                                                         *)
(* A blocked end waits for a direct-to-task notification, of which the     *)
(* state alone matters (the value is not used).  A task is off the ready   *)
(* list when it is at "blocked" with its notification state "waiting".     *)
(*                                                                         *)
(* A byte is the number, modulo ByteValues, of its place in all that was   *)
(* sent; the bytes of a message's length n are HeaderBytes cells           *)
(* ByteValues + n.                                                         *)
(***************************************************************************)
EXTENDS Integers, Sequences

CONSTANTS
  Kind,            \* ucFlags: "stream", "batching" or "message"
  Length,          \* xLength, one more than the bytes that fit
  TriggerLevel,    \* the trigger level the buffer is created with, at least 1
  HeaderBytes,     \* sizeof(configMESSAGE_BUFFER_LENGTH_TYPE)
  ByteValues,      \* how many bytes are told apart
  Sizes,           \* the lengths the application sends and makes room for
  Waits,           \* its xTicksToWait: "none", "finite", "forever"
  IsrEnds,         \* the ends that are ISRs
  Calls            \* the other API functions that are called

Sender == "sender"
Receiver == "receiver"
Ends == {Sender, Receiver}
Other(t) == IF t = Sender THEN Receiver ELSE Sender
Index == 0 .. Length - 1

ASSUME StreamBufferAssumption ==
  /\ Kind \in {"stream", "batching", "message"}
  /\ Length \in Nat /\ Length > 1
  /\ TriggerLevel \in 1 .. Length - 1
  /\ HeaderBytes \in Nat \ {0}
  /\ ByteValues \in Nat \ {0}
  /\ Sizes \subseteq Nat \ {0}
  /\ Waits \subseteq {"none", "finite", "forever"}
  /\ IsrEnds \subseteq Ends

Label == {"idle", "check", "wait", "blocked", "clear", "look", "copy", "publish",
          "trigger", "completed", "notify", "forget"}

VARIABLES
  xHead, xTail, Buffer, xTriggerLevelBytes,
  Waiting,       \* the ends whose handle is in TaskWaitingToSend / TaskWaitingToReceive
  NotifyState,   \* of each end's task
  pc, ticks,     \* where each end is in its call, and its xTicksToWait
  size,          \* xDataLengthBytes of the sender, xBufferLengthBytes of the receiver
  xSpace, xBytesAvailable, store, rxData,    \* locals
  nextByte, delivered                        \* history: bytes sent, the last receive

bufferVars == <<xHead, xTail, Buffer, xTriggerLevelBytes>>
waitVars   == <<Waiting, NotifyState>>
callVars   == <<pc, ticks, size>>
localVars  == <<xSpace, xBytesAvailable, store, rxData>>
history    == <<nextByte, delivered>>
vars == <<bufferVars, waitVars, callVars, localVars, history>>

-----------------------------------------------------------------------------
(* The ring. *)

Minimum(a, b) == IF a < b THEN a ELSE b
Header == IF Kind = "message" THEN HeaderBytes ELSE 0
Capacity == Length - 1    \* xMaxReportedSpace

AdvanceLate(i, n) == IF i + n > Length THEN i + n - Length ELSE i + n    \* mutant: > for >=
\* The index n bytes after i.
Advance(i, n) == IF i + n >= Length THEN i + n - Length ELSE i + n

BytesInBuffer ==
  LET n == Length + xHead - xTail IN IF n >= Length THEN n - Length ELSE n

\* mutant: the byte that tells full from empty is handed out
SpacesAvailableAll ==
  LET n == Length + xTail - xHead IN IF n > Length THEN n - Length ELSE n
SpacesAvailable ==
  LET n == Length + xTail - xHead - 1 IN IF n >= Length THEN n - Length ELSE n

\* Cell d of what the sender writes to send n bytes.
CellOf(n, d) ==
  IF d < Header THEN ByteValues + n ELSE (nextByte + d - Header) % ByteValues

\* The buffer after WriteBytesToBuffer of the header, if any, and n bytes at the head.
Written(n) ==
  [i \in Index |->
    LET d == IF i >= xHead THEN i - xHead ELSE i + Length - xHead
    IN  IF d < Header + n THEN CellOf(n, d) ELSE Buffer[i]]

\* ReadBytesFromBuffer of n bytes from index i.
BytesAt(i, n) == [k \in 1 .. n |-> Buffer[Advance(i, k - 1)]]

\* The length that the header at index i holds.
LengthAt(i) == Buffer[i] - ByteValues

\* The space the sender of n bytes asks for.
RequiredSpace(n) == IF Kind = "message" THEN n + Header ELSE Minimum(n, Capacity)

\* The bytes WriteMessageToBuffer accepts of n when it is told that room are free.
Accepted(n, room) ==
  IF Kind = "message" THEN IF room >= n + Header THEN n ELSE 0 ELSE Minimum(n, room)

\* mutant: a message is read into a buffer that is too small for it
ReadableCut(n, avail) ==
  Minimum(IF Kind = "message" THEN Minimum(LengthAt(xTail), n) ELSE n, avail - Header)
\* The bytes ReadMessageFromBuffer reads into room for n when avail are there.
Readable(n, avail) ==
  LET next == IF Kind # "message" THEN n
              ELSE IF LengthAt(xTail) > n THEN 0 ELSE LengthAt(xTail)
  IN  Minimum(next, avail - Header)

-----------------------------------------------------------------------------
(* Steps both ends take. *)

\* A task runs unless it waits for a notification or the other suspends the scheduler.
Runs(t) == pc[Other(t)] \notin {"notify", "forget"}
Goto(t, label) == pc' = [pc EXCEPT ![t] = label]

\* NotifyStateClear and the handle's store, in the critical section of the check.
Register(t) ==
  /\ Waiting' = Waiting \cup {t}
  /\ NotifyState' = [NotifyState EXCEPT ![t] = IF @ = "received" THEN "notWaiting" ELSE @]

NotifyStateIgnored(t) == "waiting"    \* mutant: the wait does not look for an earlier notification
NotifyStateAtWait(t) == IF NotifyState[t] = "received" THEN "received" ELSE "waiting"

\* GenericNotifyWait: suspends the task unless it was notified since it registered.
WaitForNotification(t) ==
  /\ pc[t] = "wait" /\ Runs(t)
  /\ NotifyState' = [NotifyState EXCEPT ![t] = NotifyStateAtWait(t)]
  /\ Goto(t, "blocked")
  /\ UNCHANGED <<bufferVars, Waiting, ticks, size, localVars, history>>

\* GenericNotifyWait returns: notified, or its ticks have passed.
WaitReturns(t) ==
  /\ pc[t] = "blocked" /\ Runs(t)
  /\ NotifyState[t] = "received" \/ ticks[t] = "finite"
  /\ NotifyState' = [NotifyState EXCEPT ![t] = "notWaiting"]
  /\ Goto(t, "clear")
  /\ UNCHANGED <<bufferVars, Waiting, ticks, size, localVars, history>>

\* SEND_COMPLETED, RECEIVE_COMPLETED: with the scheduler suspended, test the other end's
\* handle, notify it, and forget the handle.
Completed(t) ==
  /\ pc[t] = "completed" /\ Runs(t)
  /\ Goto(t, IF Other(t) \in Waiting THEN "notify" ELSE "idle")
  /\ UNCHANGED <<bufferVars, waitVars, ticks, size, localVars, history>>

NotifyOther(t) ==
  /\ pc[t] = "notify"
  /\ NotifyState' = [NotifyState EXCEPT ![Other(t)] = "received"]
  /\ Goto(t, "forget")
  /\ UNCHANGED <<bufferVars, Waiting, ticks, size, localVars, history>>

ForgetOther(t) ==
  /\ pc[t] = "forget"
  /\ Waiting' = Waiting \ {Other(t)}
  /\ Goto(t, "idle")
  /\ UNCHANGED <<bufferVars, NotifyState, ticks, size, localVars, history>>

\* mutant: the handle is cleared before it is used
CompletedFromISRLate(t) == Waiting' = Waiting \ {t} /\ UNCHANGED NotifyState
\* The same from an ISR, in one critical section.
CompletedFromISR(t) ==
  /\ Waiting' = Waiting \ {t}
  /\ NotifyState' = IF t \in Waiting THEN [NotifyState EXCEPT ![t] = "received"]
                                     ELSE NotifyState

-----------------------------------------------------------------------------
(* xStreamBufferSend. *)

\* A message that can never fit does not wait.
SendStart(n, w) ==
  LET ticksToWait == IF Kind = "message" /\ n + Header > Capacity THEN "none" ELSE w
  IN  /\ pc[Sender] = "idle" /\ Sender \notin IsrEnds /\ Runs(Sender)
      /\ size' = [size EXCEPT ![Sender] = n]
      /\ ticks' = [ticks EXCEPT ![Sender] = ticksToWait]
      /\ xSpace' = 0
      /\ Goto(Sender, IF ticksToWait = "none" THEN "look" ELSE "check")
      /\ UNCHANGED <<bufferVars, waitVars, xBytesAvailable, store, rxData, history>>

SendCheck ==
  /\ pc[Sender] = "check" /\ Runs(Sender)
  /\ xSpace' = SpacesAvailable
  /\ IF SpacesAvailable < RequiredSpace(size[Sender])
       THEN Register(Sender) /\ Goto(Sender, "wait")
       ELSE Goto(Sender, "look") /\ UNCHANGED waitVars
  /\ UNCHANGED <<bufferVars, ticks, size, xBytesAvailable, store, rxData, history>>

\* The handle is cleared after the wait; CheckForTimeOut sends a finite wait either way.
SendWoken ==
  /\ pc[Sender] = "clear" /\ Runs(Sender)
  /\ Waiting' = Waiting \ {Sender}
  /\ \/ Goto(Sender, "check")
     \/ ticks[Sender] = "finite" /\ Goto(Sender, "look")
  /\ UNCHANGED <<bufferVars, NotifyState, ticks, size, localVars, history>>

SendLook ==
  /\ pc[Sender] = "look" /\ Runs(Sender)
  /\ xSpace' = IF xSpace = 0 THEN SpacesAvailable ELSE xSpace
  /\ Goto(Sender, "copy")
  /\ UNCHANGED <<bufferVars, waitVars, ticks, size, xBytesAvailable, store, rxData, history>>

SendCopy ==
  LET n == Accepted(size[Sender], xSpace)
  IN  /\ pc[Sender] = "copy" /\ Runs(Sender)
      /\ IF n = 0 THEN Goto(Sender, "idle") /\ UNCHANGED <<Buffer, size>>
                  ELSE /\ Buffer' = Written(n)
                       /\ size' = [size EXCEPT ![Sender] = n]
                       /\ Goto(Sender, "publish")
      /\ UNCHANGED <<xHead, xTail, xTriggerLevelBytes, waitVars, ticks, localVars, history>>

SendPublish ==
  /\ pc[Sender] = "publish" /\ Runs(Sender)
  /\ xHead' = Advance(xHead, Header + size[Sender])
  /\ nextByte' = (nextByte + size[Sender]) % ByteValues
  /\ Goto(Sender, "trigger")
  /\ UNCHANGED <<xTail, Buffer, xTriggerLevelBytes, waitVars, ticks, size, localVars, delivered>>

TriggerReachedLate == BytesInBuffer > xTriggerLevelBytes    \* mutant: > for >=
TriggerReached == BytesInBuffer >= xTriggerLevelBytes

SendTrigger ==
  /\ pc[Sender] = "trigger" /\ Runs(Sender)
  /\ Goto(Sender, IF TriggerReached THEN "completed" ELSE "idle")
  /\ UNCHANGED <<bufferVars, waitVars, ticks, size, localVars, history>>

-----------------------------------------------------------------------------
(* xStreamBufferReceive. *)

\* xBytesToStoreMessageLength: what must be exceeded for a read.
BytesToStore == IF Kind = "batching" THEN xTriggerLevelBytes ELSE Header

ReceiveStart(n, w) ==
  /\ pc[Receiver] = "idle" /\ Receiver \notin IsrEnds /\ Runs(Receiver)
  /\ size' = [size EXCEPT ![Receiver] = n]
  /\ ticks' = [ticks EXCEPT ![Receiver] = w]
  /\ store' = BytesToStore
  /\ Goto(Receiver, IF w = "none" THEN "look" ELSE "check")
  /\ UNCHANGED <<bufferVars, waitVars, xSpace, xBytesAvailable, rxData, history>>

ReceiveCheck ==
  /\ pc[Receiver] = "check" /\ Runs(Receiver)
  /\ xBytesAvailable' = BytesInBuffer
  /\ IF BytesInBuffer <= store
       THEN Register(Receiver) /\ Goto(Receiver, "wait")
       ELSE Goto(Receiver, "copy") /\ UNCHANGED waitVars
  /\ UNCHANGED <<bufferVars, ticks, size, xSpace, store, rxData, history>>

\* mutant: the handle stays after a wait that timed out
ReceiveWokenKeeps ==
  /\ pc[Receiver] = "clear" /\ Runs(Receiver)
  /\ Goto(Receiver, "look")
  /\ UNCHANGED <<bufferVars, waitVars, ticks, size, localVars, history>>
ReceiveWoken ==
  /\ pc[Receiver] = "clear" /\ Runs(Receiver)
  /\ Waiting' = Waiting \ {Receiver}
  /\ Goto(Receiver, "look")
  /\ UNCHANGED <<bufferVars, NotifyState, ticks, size, localVars, history>>

ReceiveLook ==
  /\ pc[Receiver] = "look" /\ Runs(Receiver)
  /\ xBytesAvailable' = BytesInBuffer
  /\ Goto(Receiver, IF BytesInBuffer > store THEN "copy" ELSE "idle")
  /\ UNCHANGED <<bufferVars, waitVars, ticks, size, xSpace, store, rxData, history>>

ReceiveCopy ==
  LET n == Readable(size[Receiver], xBytesAvailable)
  IN  /\ pc[Receiver] = "copy" /\ Runs(Receiver)
      /\ IF n = 0 THEN Goto(Receiver, "idle") /\ UNCHANGED rxData
                  ELSE /\ rxData' = BytesAt(Advance(xTail, Header), n)
                       /\ Goto(Receiver, "publish")
      /\ UNCHANGED <<bufferVars, waitVars, ticks, size, xSpace, xBytesAvailable, store, history>>

ReceivePublish ==
  /\ pc[Receiver] = "publish" /\ Runs(Receiver)
  /\ xTail' = Advance(xTail, Header + Len(rxData))
  /\ delivered' = rxData
  /\ rxData' = <<>>
  /\ Goto(Receiver, "completed")
  /\ UNCHANGED <<xHead, Buffer, xTriggerLevelBytes, waitVars, ticks, size, xSpace,
                 xBytesAvailable, store, nextByte>>

-----------------------------------------------------------------------------
(* ISRs, and the calls of others. *)

SendFromISR(n) ==
  LET sent == Accepted(n, SpacesAvailable)
  IN  /\ Sender \in IsrEnds
      /\ sent > 0
      /\ Buffer' = Written(sent)
      /\ xHead' = Advance(xHead, Header + sent)
      /\ nextByte' = (nextByte + sent) % ByteValues
      /\ UNCHANGED <<xTail, xTriggerLevelBytes, callVars, localVars, delivered>>
      /\ IF TriggerReached' THEN CompletedFromISR(Receiver) ELSE UNCHANGED waitVars

ReceiveFromISR(n) ==
  LET received == Readable(n, BytesInBuffer)
  IN  /\ Receiver \in IsrEnds
      /\ BytesInBuffer > Header
      /\ received > 0
      /\ delivered' = BytesAt(Advance(xTail, Header), received)
      /\ xTail' = Advance(xTail, Header + received)
      /\ CompletedFromISR(Sender)
      /\ UNCHANGED <<xHead, Buffer, xTriggerLevelBytes, callVars, localVars, nextByte>>

\* xStreamBufferSendCompletedFromISR, xStreamBufferReceiveCompletedFromISR: the application
\* does not call them while the other end is notifying the same task itself.
CompletedCall(t) ==
  /\ "Completed" \in Calls
  /\ t \in Waiting /\ pc[Other(t)] # "notify"
  /\ CompletedFromISR(t)
  /\ UNCHANGED <<bufferVars, callVars, localVars, history>>

\* xStreamBufferSetTriggerLevel; 0 counts as 1.
SetTriggerLevel(level) ==
  /\ "SetTrigger" \in Calls
  /\ level < Length
  /\ xTriggerLevelBytes' = level
  /\ UNCHANGED <<xHead, xTail, Buffer, waitVars, callVars, localVars, history>>

MayReset == Waiting = {}

\* xStreamBufferReset, xStreamBufferResetFromISR: refused while a task waits.  The
\* application does not call it while an end is between its look at the buffer and its return.
Reset ==
  /\ "Reset" \in Calls
  /\ \A t \in Ends : pc[t] \in {"idle", "check", "wait", "blocked", "clear"}
  /\ MayReset
  /\ xHead' = 0 /\ xTail' = 0
  /\ Waiting' = {}
  /\ UNCHANGED <<Buffer, xTriggerLevelBytes, NotifyState, callVars, localVars, history>>

\* Notification 0 of a task is not the buffer's alone: anybody may notify it.
NotifyFromElsewhere(t) ==
  /\ "Notify" \in Calls
  /\ t \notin IsrEnds
  /\ NotifyState' = [NotifyState EXCEPT ![t] = "received"]
  /\ UNCHANGED <<bufferVars, Waiting, callVars, localVars, history>>

-----------------------------------------------------------------------------

Init ==
  /\ xHead = 0 /\ xTail = 0
  /\ Buffer = [i \in Index |-> 0]
  /\ xTriggerLevelBytes = TriggerLevel
  /\ Waiting = {}
  /\ NotifyState = [t \in Ends |-> "notWaiting"]
  /\ pc = [t \in Ends |-> "idle"]
  /\ ticks = [t \in Ends |-> "none"]
  /\ size = [t \in Ends |-> 0]
  /\ xSpace = 0 /\ xBytesAvailable = 0 /\ store = 0
  /\ rxData = <<>>
  /\ nextByte = 0 /\ delivered = <<>>

EndStep(t) ==
  \/ WaitForNotification(t) \/ WaitReturns(t)
  \/ Completed(t) \/ NotifyOther(t) \/ ForgetOther(t)
SendStep == SendCheck \/ SendWoken \/ SendLook \/ SendCopy \/ SendPublish \/ SendTrigger
ReceiveStep == ReceiveCheck \/ ReceiveWoken \/ ReceiveLook \/ ReceiveCopy \/ ReceivePublish

CallStart == \E n \in Sizes, w \in Waits : SendStart(n, w) \/ ReceiveStart(n, w)
FromISR == \E n \in Sizes : SendFromISR(n) \/ ReceiveFromISR(n)
Others ==
  \/ \E t \in Ends : CompletedCall(t) \/ NotifyFromElsewhere(t)
  \/ \E level \in Sizes : SetTriggerLevel(level)
  \/ Reset

Next == \/ \E t \in Ends : EndStep(t)
        \/ SendStep \/ ReceiveStep
        \/ CallStart \/ FromISR \/ Others

Spec == Init /\ [][Next]_vars

\* A task inside a call takes its next step: the two ends do not compete for the processor
\* for ever (one waits, or they share it by time slices), and a finite wait is ended by the tick.
FairSpec ==
  /\ Spec
  /\ \A t \in Ends : WF_vars(EndStep(t))
  /\ WF_vars(SendStep) /\ WF_vars(ReceiveStep)

-----------------------------------------------------------------------------
(* Properties. *)

\* Every variable has its type: the indices stay inside the buffer.
TypeOK ==
  /\ xHead \in Index /\ xTail \in Index
  /\ Buffer \in [Index -> Nat]
  /\ xTriggerLevelBytes \in 1 .. Length - 1
  /\ Waiting \subseteq Ends
  /\ NotifyState \in [Ends -> {"notWaiting", "waiting", "received"}]
  /\ pc \in [Ends -> Label]
  /\ ticks \in [Ends -> {"none", "finite", "forever"}]
  /\ size \in [Ends -> Nat]
  /\ xSpace \in 0 .. Capacity /\ xBytesAvailable \in 0 .. Capacity
  /\ store \in Nat
  /\ rxData \in Seq(Nat) /\ delivered \in Seq(Nat)
  /\ nextByte \in 0 .. ByteValues - 1

\* t has found it must wait and has not been notified since.
Committed(t) == pc[t] \in {"wait", "blocked"} /\ NotifyState[t] # "received"

\* No wake-up of the sender is lost: when the space it waits for is there, the receiver has
\* still to notify it (the check registers the sender in a critical section, the receiver
\* moves the tail before it looks for a handle).
SenderWoken ==
  Committed(Sender) /\ SpacesAvailable >= RequiredSpace(size[Sender])
    => pc[Receiver] \in {"completed", "notify"}

\* No wake-up of the receiver is lost: when enough bytes to notify and to read are there, the
\* sender has still to notify it.
ReceiverWoken ==
  Committed(Receiver) /\ BytesInBuffer > store /\ BytesInBuffer >= xTriggerLevelBytes
    => pc[Sender] \in {"trigger", "completed", "notify"}

\* A task handle is in the buffer only while that task is inside its wait: it is forgotten
\* however the wait ended, so nobody is notified for a wait that is over and Reset is not refused.
WaitersAreWaiting ==
  \A t \in Waiting : pc[t] \in {"wait", "blocked", "clear"}

\* With trigger level 1 the two ends never wait for each other: a sender that lacks space
\* leaves something to receive.
NeverBothBlocked == \E t \in Ends : ~Committed(t)

\* The messages between index i and the head, n bytes away.
MessagesFrom[i \in Index, n \in 0 .. Capacity] ==
  LET len == LengthAt(i)
  IN  IF n > Header /\ len \in 1 .. n - Header
        THEN <<BytesAt(Advance(i, Header), len)>>
               \o MessagesFrom[Advance(i, Header + len), n - Header - len]
        ELSE <<>>
Contents == IF Kind = "message" THEN MessagesFrom[xTail, BytesInBuffer]
                                ELSE BytesAt(xTail, BytesInBuffer)

\* The buffer implements a FIFO: whatever the interleaving, each receive returns the oldest
\* bytes, once, and a message whole.
Fifo == INSTANCE ByteStream WITH
  fifo <- Contents, Messages <- (Kind = "message"), MaxSend <- Capacity
BytesInOrder == Fifo!Spec

\* A sender that waits while its space is there goes on, and so does a receiver that waits
\* while enough bytes are there.
EndsProceed ==
  /\ (Committed(Sender) /\ SpacesAvailable >= RequiredSpace(size[Sender])) ~> ~Committed(Sender)
  /\ (Committed(Receiver) /\ BytesInBuffer > store /\ BytesInBuffer >= xTriggerLevelBytes)
       ~> ~Committed(Receiver)
=============================================================================
