------------------------ MODULE StreamBuffer_proofs ------------------------
(***************************************************************************)
(* Theorems about StreamBuffer, for every kind and length of buffer, every *)
(* trigger level, every choice of tasks and ISRs as its ends and of calls. *)
(***************************************************************************)
EXTENDS StreamBuffer, SequenceTheorems, TLAPS

(* The arithmetic of the ring. *)

\* A remainder modulo ByteValues is one of the byte values.
LEMMA ModByte == ASSUME NEW n \in Int PROVE n % ByteValues \in 0 .. ByteValues - 1
  BY StreamBufferAssumption

\* An index advanced by at most the capacity is an index.
LEMMA AdvanceIndex == ASSUME NEW i \in Index, NEW n \in 0 .. Capacity PROVE Advance(i, n) \in Index
  BY StreamBufferAssumption DEF Index, Capacity, Advance

\* Fill and space are numbers up to the capacity, and add up to it.
LEMMA FillAndSpace ==
  ASSUME xHead \in Index, xTail \in Index
  PROVE  /\ BytesInBuffer \in 0 .. Capacity /\ SpacesAvailable \in 0 .. Capacity
         /\ BytesInBuffer + SpacesAvailable = Capacity
  BY StreamBufferAssumption DEF Index, Capacity, BytesInBuffer, SpacesAvailable

\* They depend on the head and the tail only.
LEMMA FillUnchanged ==
  ASSUME UNCHANGED bufferVars
  PROVE  BytesInBuffer' = BytesInBuffer /\ SpacesAvailable' = SpacesAvailable
         /\ xTriggerLevelBytes' = xTriggerLevelBytes
  BY DEF bufferVars, BytesInBuffer, SpacesAvailable

\* The header is shorter than what is left of the assumptions' size_t.
LEMMA HeaderType == Header \in Nat
  BY StreamBufferAssumption DEF Header

\* What a write accepts fits in the space it was told of, its header included.
LEMMA AcceptedFits ==
  ASSUME NEW n \in Nat, NEW room \in 0 .. Capacity, Accepted(n, room) # 0
  PROVE  Accepted(n, room) \in Nat /\ Header + Accepted(n, room) \in 0 .. Capacity
  BY StreamBufferAssumption DEF Accepted, Header, Minimum, Capacity

\* What a read takes is no more than is available, its header included.
LEMMA ReadableFits ==
  ASSUME NEW n \in Nat, NEW avail \in Header .. Capacity, Buffer \in [Index -> Nat],
         xTail \in Index
  PROVE  Readable(n, avail) \in Int /\ Readable(n, avail) <= Capacity - Header
  BY StreamBufferAssumption, HeaderType DEF Readable, Minimum, Capacity, LengthAt

\* The buffer after a write holds numbers.
LEMMA WrittenType ==
  ASSUME NEW n \in Nat, Buffer \in [Index -> Nat], nextByte \in 0 .. ByteValues - 1,
         xHead \in Index
  PROVE  Written(n) \in [Index -> Nat]
<1>1. ASSUME NEW d \in Int PROVE CellOf(n, d) \in Nat
  <2>1. (nextByte + d - Header) % ByteValues \in 0 .. ByteValues - 1
    BY ModByte, HeaderType, StreamBufferAssumption
  <2> QED
    BY <2>1, StreamBufferAssumption DEF CellOf
<1>2. ASSUME NEW i \in Index
      PROVE  (IF i >= xHead THEN i - xHead ELSE i + Length - xHead) \in Int
  BY StreamBufferAssumption DEF Index
<1> QED
  BY <1>1, <1>2 DEF Written

\* What a read copies is a sequence of numbers, as long as asked.
LEMMA BytesAtType ==
  ASSUME NEW i \in Index, NEW n \in Int, n <= Capacity, Buffer \in [Index -> Nat]
  PROVE  BytesAt(i, n) \in Seq(Nat) /\ (n >= 0 => Len(BytesAt(i, n)) = n)
                                    /\ (n < 0 => Len(BytesAt(i, n)) = 0)
<1>1. ASSUME NEW k \in 1 .. n PROVE Buffer[Advance(i, k - 1)] \in Nat
  BY <1>1, AdvanceIndex, StreamBufferAssumption DEF Capacity
<1>2. CASE n >= 0
  BY <1>1, <1>2 DEF BytesAt
<1>3. CASE n < 0
  <2>1. 1 .. n = 1 .. 0
    BY <1>3
  <2>2. BytesAt(i, n) = [k \in 1 .. 0 |-> Buffer[Advance(i, k - 1)]]
    BY <2>1 DEF BytesAt
  <2> QED
    BY <2>2, <1>3
<1> QED
  BY <1>2, <1>3

-----------------------------------------------------------------------------
(* Types. *)

\* TypeOK is not inductive: a copy that does not fit would move an index out of the buffer.
Reading == {"check", "wait", "blocked", "clear", "look"}
CopiesFit ==
  /\ pc[Sender] = "publish" => Header + size[Sender] \in 0 .. Capacity
  /\ pc[Receiver] = "publish" => Header + Len(rxData) \in 0 .. Capacity
  /\ pc[Receiver] = "copy" => xBytesAvailable >= Header
  /\ pc[Receiver] \in Reading => store >= Header
TypeInv == TypeOK /\ CopiesFit

\* The initial state has the types.
LEMMA TypeInvInit == Init => TypeInv
  BY StreamBufferAssumption
     DEF Init, TypeInv, TypeOK, CopiesFit, Index, Ends, Sender, Receiver, Label, Capacity, Reading

\* The steps of waiting and notifying keep the types.
LEMMA EndStepType == ASSUME TypeInv, NEW t \in Ends, EndStep(t) PROVE TypeInv'
<1> USE DEF TypeInv, TypeOK, CopiesFit, Goto, Label, Ends, Sender, Receiver, Reading,
        bufferVars, waitVars, callVars, localVars, history, Index, Capacity
<1>1. CASE WaitForNotification(t)
  BY <1>1 DEF WaitForNotification, NotifyStateAtWait
<1>2. CASE WaitReturns(t)
  BY <1>2 DEF WaitReturns
<1>3. CASE Completed(t)
  BY <1>3 DEF Completed
<1>4. CASE NotifyOther(t)
  BY <1>4 DEF NotifyOther
<1>5. CASE ForgetOther(t)
  BY <1>5 DEF ForgetOther
<1> QED
  BY <1>1, <1>2, <1>3, <1>4, <1>5 DEF EndStep

\* The steps of a send keep the types.
LEMMA SendStepType == ASSUME TypeInv, SendStep PROVE TypeInv'
<1> USE DEF TypeInv, TypeOK, CopiesFit, Goto, Label, Ends, Sender, Receiver, Reading,
        waitVars, callVars, localVars, history
<1>1. CASE SendCheck
  BY <1>1, FillAndSpace DEF SendCheck, Register, bufferVars
<1>2. CASE SendWoken
  BY <1>2 DEF SendWoken, bufferVars
<1>3. CASE SendLook
  BY <1>3, FillAndSpace DEF SendLook, bufferVars
<1>4. CASE SendCopy
  <2> DEFINE n == Accepted(size[Sender], xSpace)
  <2>1. CASE n = 0
    BY <1>4, <2>1 DEF SendCopy, bufferVars
  <2>2. CASE n # 0
    <3>1. n \in Nat /\ Header + n \in 0 .. Capacity
      BY <2>2, AcceptedFits
    <3>2. Buffer' \in [Index -> Nat]
      BY <1>4, <2>2, <3>1, WrittenType DEF SendCopy
    <3>3. /\ size' = [size EXCEPT ![Sender] = n] /\ pc' = [pc EXCEPT ![Sender] = "publish"]
          /\ UNCHANGED <<xHead, xTail, xTriggerLevelBytes, waitVars, ticks, localVars, history>>
      BY <1>4, <2>2 DEF SendCopy
    <3> HIDE DEF n
    <3> QED
      BY <3>1, <3>2, <3>3
  <2> QED
    BY <2>1, <2>2
<1>5. CASE SendPublish
  <2>1. xHead' \in Index
    BY <1>5, AdvanceIndex DEF SendPublish
  <2>2. nextByte' \in 0 .. ByteValues - 1
    <3>1. nextByte + size[Sender] \in Int
      BY StreamBufferAssumption
    <3>2. nextByte' = (nextByte + size[Sender]) % ByteValues
      BY <1>5 DEF SendPublish
    <3> QED
      BY <3>1, <3>2, ModByte
  <2> QED
    BY <1>5, <2>1, <2>2 DEF SendPublish
<1>6. CASE SendTrigger
  BY <1>6 DEF SendTrigger, bufferVars
<1> QED
  BY <1>1, <1>2, <1>3, <1>4, <1>5, <1>6 DEF SendStep

\* The steps of a receive keep the types.
LEMMA ReceiveStepType == ASSUME TypeInv, ReceiveStep PROVE TypeInv'
<1> USE DEF TypeInv, TypeOK, CopiesFit, Goto, Label, Ends, Sender, Receiver, Reading,
        waitVars, callVars, localVars, history
<1>1. CASE ReceiveCheck
  <2>1. BytesInBuffer \in 0 .. Capacity /\ Capacity \in Int /\ Header \in Nat /\ store >= Header
    BY <1>1, FillAndSpace, HeaderType, StreamBufferAssumption DEF ReceiveCheck, Capacity
  <2>2. CASE BytesInBuffer <= store
    <3>1. /\ Register(Receiver) /\ pc' = [pc EXCEPT ![Receiver] = "wait"]
          /\ xBytesAvailable' = BytesInBuffer
          /\ UNCHANGED <<bufferVars, ticks, size, xSpace, store, rxData, history>>
      BY <1>1, <2>2 DEF ReceiveCheck
    <3> QED
      BY <2>1, <3>1 DEF Register, bufferVars
  <2>3. CASE ~(BytesInBuffer <= store)
    <3>1. BytesInBuffer >= Header
      BY <2>1, <2>3
    <3>2. /\ xBytesAvailable' = BytesInBuffer /\ pc' = [pc EXCEPT ![Receiver] = "copy"]
          /\ UNCHANGED <<bufferVars, waitVars, ticks, size, xSpace, store, rxData, history>>
      BY <1>1, <2>3 DEF ReceiveCheck
    <3> QED
      BY <2>1, <3>1, <3>2 DEF bufferVars
  <2> QED
    BY <2>2, <2>3
<1>2. CASE ReceiveWoken
  BY <1>2 DEF ReceiveWoken, bufferVars
<1>3. CASE ReceiveLook
  <2>1. BytesInBuffer \in 0 .. Capacity /\ Capacity \in Int /\ Header \in Nat /\ store >= Header
    BY <1>3, FillAndSpace, HeaderType, StreamBufferAssumption DEF ReceiveLook, Capacity
  <2>2. \E label \in {"copy", "idle"} :
          /\ pc' = [pc EXCEPT ![Receiver] = label]
          /\ label = "copy" => BytesInBuffer >= Header
    <3>1. CASE BytesInBuffer > store
      BY <1>3, <2>1, <3>1 DEF ReceiveLook
    <3>2. CASE ~(BytesInBuffer > store)
      BY <1>3, <3>2 DEF ReceiveLook
    <3> QED
      BY <3>1, <3>2
  <2>3. /\ xBytesAvailable' = BytesInBuffer
        /\ UNCHANGED <<bufferVars, waitVars, ticks, size, xSpace, store, rxData, history>>
    BY <1>3 DEF ReceiveLook
  <2> QED
    BY <2>1, <2>2, <2>3 DEF bufferVars
<1>4. CASE ReceiveCopy
  <2> DEFINE n == Readable(size[Receiver], xBytesAvailable)
  <2>1. CASE n = 0
    BY <1>4, <2>1 DEF ReceiveCopy, bufferVars
  <2>2. CASE n # 0
    <3>1. xBytesAvailable \in Header .. Capacity
      BY <1>4, HeaderType, StreamBufferAssumption DEF ReceiveCopy, Capacity
    <3>2. n \in Int /\ n <= Capacity - Header
      BY <3>1, ReadableFits
    <3>3. Advance(xTail, Header) \in Index
      BY <3>1, HeaderType, AdvanceIndex, StreamBufferAssumption DEF Capacity
    <3>4. /\ rxData' = BytesAt(Advance(xTail, Header), n)
          /\ pc' = [pc EXCEPT ![Receiver] = "publish"]
          /\ UNCHANGED <<bufferVars, waitVars, ticks, size, xSpace, xBytesAvailable, store, history>>
      BY <1>4, <2>2 DEF ReceiveCopy
    <3> HIDE DEF n
    <3> DEFINE bytes == BytesAt(Advance(xTail, Header), n)
    <3>5. n <= Capacity
      BY <3>2, HeaderType, StreamBufferAssumption DEF Capacity
    <3>6. bytes \in Seq(Nat) /\ (n >= 0 => Len(bytes) = n) /\ (n < 0 => Len(bytes) = 0)
      BY <3>2, <3>3, <3>5, BytesAtType
    <3>7. bytes \in Seq(Nat) /\ Len(bytes) \in 0 .. Capacity - Header
      BY <3>1, <3>2, <3>6, HeaderType, StreamBufferAssumption DEF Capacity
    <3>8. Header + Len(rxData') \in 0 .. Capacity
      BY <3>4, <3>7, HeaderType, StreamBufferAssumption DEF Capacity
    <3> QED
      BY <3>4, <3>7, <3>8 DEF bufferVars
  <2> QED
    BY <2>1, <2>2
<1>5. CASE ReceivePublish
  <2>1. xTail' \in Index
    BY <1>5, AdvanceIndex DEF ReceivePublish
  <2> QED
    BY <1>5, <2>1 DEF ReceivePublish
<1> QED
  BY <1>1, <1>2, <1>3, <1>4, <1>5 DEF ReceiveStep

\* So do the first steps of calls, ISRs and the calls of others.
LEMMA OutsideType ==
  ASSUME TypeInv, CallStart \/ FromISR \/ Others PROVE TypeInv'
<1> USE DEF TypeInv, TypeOK, CopiesFit, Goto, Label, Ends, Sender, Receiver, Reading,
        waitVars, callVars, localVars, history
<1>1. ASSUME NEW n \in Sizes, NEW w \in Waits, SendStart(n, w) PROVE TypeInv'
  BY <1>1, StreamBufferAssumption DEF SendStart, bufferVars, Capacity
<1>2. ASSUME NEW n \in Sizes, NEW w \in Waits, ReceiveStart(n, w) PROVE TypeInv'
  <2>1. BytesToStore \in Nat /\ BytesToStore >= Header
    BY HeaderType, StreamBufferAssumption DEF BytesToStore, Header
  <2> QED
    BY <1>2, <2>1, StreamBufferAssumption DEF ReceiveStart, bufferVars
<1>3. ASSUME NEW t \in Ends, CompletedFromISR(t)
      PROVE  Waiting' \subseteq Ends
             /\ NotifyState' \in [Ends -> {"notWaiting", "waiting", "received"}]
  BY <1>3 DEF CompletedFromISR
<1>4. ASSUME NEW n \in Sizes, SendFromISR(n) PROVE TypeInv'
  <2> DEFINE sent == Accepted(n, SpacesAvailable)
  <2>1. sent \in Nat /\ Header + sent \in 0 .. Capacity
    <3>1. sent # 0
      BY <1>4 DEF SendFromISR
    <3> QED
      BY <3>1, AcceptedFits, FillAndSpace, StreamBufferAssumption
  <2>2. /\ Buffer' = Written(sent) /\ xHead' = Advance(xHead, Header + sent)
        /\ nextByte' = (nextByte + sent) % ByteValues
        /\ UNCHANGED <<xTail, xTriggerLevelBytes, callVars, localVars, delivered>>
        /\ CompletedFromISR(Receiver) \/ UNCHANGED waitVars
    BY <1>4 DEF SendFromISR
  <2> HIDE DEF sent
  <2>3. Buffer' \in [Index -> Nat] /\ xHead' \in Index
    BY <2>1, <2>2, WrittenType, AdvanceIndex
  <2>4. nextByte' \in 0 .. ByteValues - 1
    <3>1. nextByte + sent \in Int
      BY <2>1, StreamBufferAssumption
    <3> QED
      BY <2>2, <3>1, ModByte
  <2> QED
    BY <1>3, <2>2, <2>3, <2>4
<1>5. ASSUME NEW n \in Sizes, ReceiveFromISR(n) PROVE TypeInv'
  <2> DEFINE received == Readable(n, BytesInBuffer)
  <2>1. BytesInBuffer \in Header .. Capacity
    BY <1>5, FillAndSpace, HeaderType, StreamBufferAssumption DEF ReceiveFromISR, Capacity
  <2>2. received \in Int /\ received <= Capacity - Header
    BY <2>1, ReadableFits, StreamBufferAssumption
  <2>3. /\ received > 0 /\ delivered' = BytesAt(Advance(xTail, Header), received)
        /\ xTail' = Advance(xTail, Header + received)
        /\ CompletedFromISR(Sender)
        /\ UNCHANGED <<xHead, Buffer, xTriggerLevelBytes, callVars, localVars, nextByte>>
    BY <1>5 DEF ReceiveFromISR
  <2> HIDE DEF received
  <2>4. Advance(xTail, Header) \in Index /\ xTail' \in Index
    BY <2>1, <2>2, <2>3, HeaderType, AdvanceIndex, StreamBufferAssumption DEF Capacity
  <2>5. delivered' \in Seq(Nat)
    BY <2>2, <2>3, <2>4, HeaderType, BytesAtType, StreamBufferAssumption DEF Capacity
  <2> QED
    BY <1>3, <2>3, <2>4, <2>5
<1>6. ASSUME NEW t \in Ends, CompletedCall(t) \/ NotifyFromElsewhere(t) PROVE TypeInv'
  BY <1>6, <1>3 DEF CompletedCall, NotifyFromElsewhere, bufferVars
<1>7. ASSUME NEW level \in Sizes, SetTriggerLevel(level) PROVE TypeInv'
  BY <1>7, StreamBufferAssumption DEF SetTriggerLevel
<1>8. ASSUME Reset PROVE TypeInv'
  BY <1>8, StreamBufferAssumption DEF Reset, Index
<1> QED
  BY <1>1, <1>2, <1>4, <1>5, <1>6, <1>7, <1>8 DEF CallStart, FromISR, Others

\* The strengthened type invariant is inductive.
LEMMA TypeInvStep == TypeInv /\ [Next]_vars => TypeInv'
<1> SUFFICES ASSUME TypeInv, [Next]_vars PROVE TypeInv'
  OBVIOUS
<1>1. CASE Next
  BY <1>1, EndStepType, SendStepType, ReceiveStepType, OutsideType DEF Next
<1>2. CASE UNCHANGED vars
  BY <1>2 DEF vars, bufferVars, waitVars, callVars, localVars, history, TypeInv, TypeOK,
     CopiesFit, Index, Capacity
<1> QED
  BY <1>1, <1>2

\* Every variable keeps its type: the head and the tail never leave the buffer, and no copy
\* is longer than the space it was checked against, for every length and header size.
THEOREM TypeCorrect == Spec => []TypeOK
<1>1. TypeInv => TypeOK
  BY DEF TypeInv
<1> QED
  BY <1>1, TypeInvInit, TypeInvStep, PTL DEF Spec

-----------------------------------------------------------------------------
(* Wake-ups. *)

\* What makes a wake-up sure to come: an end that has committed itself to wait is registered,
\* and its registration is not about to be dropped by an end that has not notified it.
Registered == \A t \in Ends : Committed(t) => t \in Waiting /\ pc[Other(t)] # "forget"
IsrEndsIdle == \A t \in IsrEnds : pc[t] = "idle"
WakeInv == Registered /\ IsrEndsIdle /\ WaitersAreWaiting /\ SenderWoken

\* Nobody waits in the initial state.
LEMMA WakeInvInit == Init => WakeInv /\ ReceiverWoken
  BY StreamBufferAssumption DEF Init, WakeInv, Registered, IsrEndsIdle, WaitersAreWaiting,
     SenderWoken, ReceiverWoken, Committed, Ends, Sender, Receiver

\* The steps of waiting and notifying lose no wake-up.
LEMMA EndStepWake ==
  ASSUME TypeInv, WakeInv, NEW t \in Ends, EndStep(t)
  PROVE  WakeInv' /\ (ReceiverWoken => ReceiverWoken')
<1> USE DEF TypeInv, TypeOK, WakeInv, Registered, IsrEndsIdle, WaitersAreWaiting, SenderWoken,
        ReceiverWoken, Committed, Goto, Ends, Sender, Receiver, Other, Runs, waitVars, callVars,
        localVars, RequiredSpace
<1>1. /\ BytesInBuffer' = BytesInBuffer /\ SpacesAvailable' = SpacesAvailable
      /\ xTriggerLevelBytes' = xTriggerLevelBytes
  BY FillUnchanged DEF EndStep, WaitForNotification, WaitReturns, Completed, NotifyOther,
     ForgetOther
<1>2. CASE WaitForNotification(t)
  BY <1>1, <1>2 DEF WaitForNotification, NotifyStateAtWait
<1>3. CASE WaitReturns(t)
  BY <1>1, <1>3 DEF WaitReturns
<1>4. CASE Completed(t)
  BY <1>1, <1>4 DEF Completed
<1>5. CASE NotifyOther(t)
  BY <1>1, <1>5 DEF NotifyOther
<1>6. CASE ForgetOther(t)
  BY <1>1, <1>6 DEF ForgetOther
<1> QED
  BY <1>2, <1>3, <1>4, <1>5, <1>6 DEF EndStep

\* Steps of an end that neither wait nor notify keep the invariant's first three parts.
LEMMA QuietMove ==
  ASSUME TypeInv, WakeInv, NEW t \in Ends, NEW l \in Label \ {"wait", "blocked", "forget"},
         pc[t] # "idle", Goto(t, l), NotifyState' = NotifyState, Waiting' = Waiting \ {t}
  PROVE  /\ Registered' /\ IsrEndsIdle' /\ WaitersAreWaiting'
         /\ ~Committed(t)'
         /\ Committed(Other(t))' <=> Committed(Other(t))
  BY DEF TypeInv, TypeOK, WakeInv, Registered, IsrEndsIdle, WaitersAreWaiting, Committed, Goto,
     Ends, Sender, Receiver, Other

\* ... and its other parts, if the sender is the one that moves,
LEMMA QuietSend ==
  ASSUME TypeInv, WakeInv, NEW l \in Label \ {"wait", "blocked", "forget"},
         pc[Sender] \notin {"idle", "trigger", "completed", "notify"}, Goto(Sender, l),
         NotifyState' = NotifyState, Waiting' = Waiting \ {Sender},
         BytesInBuffer' = BytesInBuffer, xTriggerLevelBytes' = xTriggerLevelBytes, store' = store
  PROVE  WakeInv' /\ (ReceiverWoken => ReceiverWoken')
<1>1. Sender \in Ends /\ Other(Sender) = Receiver
  BY DEF Ends, Other
<1>2. /\ Registered' /\ IsrEndsIdle' /\ WaitersAreWaiting' /\ ~Committed(Sender)'
      /\ Committed(Receiver)' <=> Committed(Receiver)
  BY <1>1, QuietMove
<1> QED
  BY <1>2 DEF WakeInv, SenderWoken, ReceiverWoken

\* ... or the receiver.
LEMMA QuietReceive ==
  ASSUME TypeInv, WakeInv, NEW l \in Label \ {"wait", "blocked", "forget"},
         pc[Receiver] \notin {"idle", "completed", "notify"}, Goto(Receiver, l),
         NotifyState' = NotifyState, Waiting' = Waiting \ {Receiver},
         SpacesAvailable' = SpacesAvailable, size' = size
  PROVE  WakeInv' /\ (ReceiverWoken => ReceiverWoken')
<1>1. Receiver \in Ends /\ Other(Receiver) = Sender
  BY DEF Ends, Other, Sender, Receiver
<1>2. /\ Registered' /\ IsrEndsIdle' /\ WaitersAreWaiting' /\ ~Committed(Receiver)'
      /\ Committed(Sender)' <=> Committed(Sender)
  BY <1>1, QuietMove
<1>3. RequiredSpace(size[Sender])' = RequiredSpace(size[Sender])
  BY DEF RequiredSpace
<1> QED
  BY <1>2, <1>3 DEF WakeInv, SenderWoken, ReceiverWoken

\* An end that is not in its wait is not registered.
LEMMA NotRegistered ==
  ASSUME WakeInv, NEW t \in Ends, pc[t] \notin {"wait", "blocked", "clear"}
  PROVE  Waiting \ {t} = Waiting
  BY DEF WakeInv, WaitersAreWaiting

\* Nor does an end that registers: it has not been notified, and is not when it waits for
\* what is not there.
LEMMA RegisterWake ==
  ASSUME TypeInv, WakeInv, NEW t \in Ends, pc[t] = "check", Runs(t), Register(t),
         Goto(t, "wait")
  PROVE  /\ Registered' /\ IsrEndsIdle' /\ WaitersAreWaiting'
         /\ Committed(Other(t))' <=> Committed(Other(t))
  BY DEF TypeInv, TypeOK, WakeInv, Registered, IsrEndsIdle, WaitersAreWaiting, Committed, Goto,
     Ends, Sender, Receiver, Other, Runs, Register

\* Nor do the steps of a send: the check registers the sender while the space is short, and
\* the head moves before the trigger level is tested.
LEMMA SendStepWake ==
  ASSUME TypeInv, WakeInv, SendStep
  PROVE  WakeInv' /\ (ReceiverWoken => ReceiverWoken')
<1> USE DEF Label, bufferVars, waitVars, localVars
<1>1. Sender \in Ends /\ Other(Sender) = Receiver
  BY DEF Ends, Other
<1>2. CASE SendCheck
  <2>1. /\ BytesInBuffer' = BytesInBuffer /\ SpacesAvailable' = SpacesAvailable
        /\ xTriggerLevelBytes' = xTriggerLevelBytes /\ size' = size /\ store' = store
    BY <1>2, FillUnchanged DEF SendCheck
  <2>2. CASE SpacesAvailable < RequiredSpace(size[Sender])
    <3>1. RequiredSpace(size[Sender]) \in Int /\ SpacesAvailable \in Int
      BY <1>1, FillAndSpace, HeaderType, StreamBufferAssumption
         DEF RequiredSpace, Minimum, Capacity, TypeInv, TypeOK
    <3>2. RequiredSpace(size[Sender])' = RequiredSpace(size[Sender])
      BY <2>1 DEF RequiredSpace
    <3>3. SenderWoken'
      BY <2>1, <2>2, <3>1, <3>2 DEF SenderWoken
    <3>4. pc[Sender] = "check" /\ Runs(Sender) /\ Register(Sender) /\ Goto(Sender, "wait")
      BY <1>2, <2>2 DEF SendCheck
    <3>5. /\ Registered' /\ IsrEndsIdle' /\ WaitersAreWaiting'
          /\ Committed(Receiver)' <=> Committed(Receiver)
      BY <1>1, <3>4, RegisterWake
    <3> QED
      BY <2>1, <3>3, <3>4, <3>5 DEF WakeInv, ReceiverWoken
  <2>3. CASE ~(SpacesAvailable < RequiredSpace(size[Sender]))
    BY <1>1, <1>2, <2>1, <2>3, QuietSend, NotRegistered DEF SendCheck
  <2> QED
    BY <2>2, <2>3
<1>3. CASE SendWoken
  <2>1. BytesInBuffer' = BytesInBuffer /\ xTriggerLevelBytes' = xTriggerLevelBytes
    BY <1>3, FillUnchanged DEF SendWoken
  <2> QED
    BY <1>1, <1>3, <2>1, QuietSend DEF SendWoken
<1>4. CASE SendLook
  BY <1>1, <1>4, FillUnchanged, QuietSend, NotRegistered DEF SendLook
<1>5. CASE SendCopy
  <2>1. BytesInBuffer' = BytesInBuffer /\ xTriggerLevelBytes' = xTriggerLevelBytes
    BY <1>5 DEF SendCopy, BytesInBuffer
  <2> QED
    BY <1>1, <1>5, <2>1, QuietSend, NotRegistered DEF SendCopy
<1>6. CASE SendPublish
  <2>1. /\ Registered' /\ IsrEndsIdle' /\ WaitersAreWaiting' /\ ~Committed(Sender)'
        /\ pc'[Sender] = "trigger"
    BY <1>1, <1>6, QuietMove, NotRegistered DEF SendPublish, Goto, TypeInv, TypeOK
  <2> QED
    BY <2>1 DEF WakeInv, SenderWoken, ReceiverWoken
<1>7. CASE SendTrigger
  <2> DEFINE l == IF TriggerReached THEN "completed" ELSE "idle"
  <2>1. /\ pc[Sender] = "trigger" /\ Goto(Sender, l) /\ UNCHANGED <<bufferVars, waitVars, store>>
    BY <1>7 DEF SendTrigger
  <2>2. /\ Registered' /\ IsrEndsIdle' /\ WaitersAreWaiting' /\ ~Committed(Sender)'
        /\ Committed(Receiver)' <=> Committed(Receiver)
    BY <1>1, <2>1, QuietMove, NotRegistered
  <2>3. BytesInBuffer' = BytesInBuffer /\ pc'[Sender] = l
    BY <1>1, <2>1, FillUnchanged DEF Goto, TypeInv, TypeOK
  <2> QED
    BY <2>1, <2>2, <2>3 DEF WakeInv, SenderWoken, ReceiverWoken, TriggerReached
<1> QED
  BY <1>2, <1>3, <1>4, <1>5, <1>6, <1>7 DEF SendStep

\* Nor do the steps of a receive: the tail moves before the sender's handle is tested.
LEMMA ReceiveStepWake ==
  ASSUME TypeInv, WakeInv, ReceiveStep
  PROVE  WakeInv' /\ (ReceiverWoken => ReceiverWoken')
<1> USE DEF Label, waitVars, localVars
<1>1. Receiver \in Ends /\ Other(Receiver) = Sender
  BY DEF Ends, Other, Sender, Receiver
<1>2. CASE ReceiveCheck
  <2>1. /\ BytesInBuffer' = BytesInBuffer /\ SpacesAvailable' = SpacesAvailable
        /\ size' = size /\ store' = store
        /\ BytesInBuffer \in Int /\ store \in Int
    BY <1>2, FillUnchanged, FillAndSpace, StreamBufferAssumption
       DEF ReceiveCheck, Capacity, TypeInv, TypeOK
  <2>2. CASE BytesInBuffer <= store
    <3>1. pc[Receiver] = "check" /\ Runs(Receiver) /\ Register(Receiver) /\ Goto(Receiver, "wait")
      BY <1>2, <2>2 DEF ReceiveCheck
    <3>2. /\ Registered' /\ IsrEndsIdle' /\ WaitersAreWaiting'
          /\ Committed(Sender)' <=> Committed(Sender)
      BY <1>1, <3>1, RegisterWake
    <3>3. RequiredSpace(size[Sender])' = RequiredSpace(size[Sender])
      BY <2>1 DEF RequiredSpace
    <3>4. ReceiverWoken'
      BY <2>1, <2>2 DEF ReceiverWoken
    <3> QED
      BY <2>1, <3>1, <3>2, <3>3, <3>4 DEF WakeInv, SenderWoken
  <2>3. CASE ~(BytesInBuffer <= store)
    BY <1>1, <1>2, <2>1, <2>3, QuietReceive, NotRegistered DEF ReceiveCheck
  <2> QED
    BY <2>2, <2>3
<1>3. CASE ReceiveWoken
  BY <1>1, <1>3, FillUnchanged, QuietReceive DEF ReceiveWoken
<1>4. CASE ReceiveLook
  BY <1>1, <1>4, FillUnchanged, QuietReceive, NotRegistered DEF ReceiveLook
<1>5. CASE ReceiveCopy
  <2>1. SpacesAvailable' = SpacesAvailable
    BY <1>5, FillUnchanged DEF ReceiveCopy
  <2> QED
    BY <1>1, <1>5, <2>1, QuietReceive, NotRegistered DEF ReceiveCopy
<1>6. CASE ReceivePublish
  <2>1. /\ Registered' /\ IsrEndsIdle' /\ WaitersAreWaiting' /\ ~Committed(Receiver)'
        /\ pc'[Receiver] = "completed"
    BY <1>1, <1>6, QuietMove, NotRegistered DEF ReceivePublish, Goto, TypeInv, TypeOK
  <2> QED
    BY <2>1 DEF WakeInv, SenderWoken, ReceiverWoken
<1> QED
  BY <1>2, <1>3, <1>4, <1>5, <1>6 DEF ReceiveStep

\* Nor do ISRs and others, but for a lower trigger level, which the receiver is not told of.
LEMMA OutsideWake ==
  ASSUME TypeInv, WakeInv, CallStart \/ FromISR \/ Others
  PROVE  WakeInv' /\ ("SetTrigger" \notin Calls /\ ReceiverWoken => ReceiverWoken')
<1> USE DEF TypeInv, TypeOK, WakeInv, Registered, IsrEndsIdle, WaitersAreWaiting, SenderWoken,
        ReceiverWoken, Committed, Goto, Ends, Sender, Receiver, Other, Runs, waitVars, callVars,
        localVars, RequiredSpace
<1>1. ASSUME NEW n \in Sizes, NEW w \in Waits, SendStart(n, w)
      PROVE  WakeInv' /\ (ReceiverWoken => ReceiverWoken')
  BY <1>1, FillUnchanged DEF SendStart
<1>2. ASSUME NEW n \in Sizes, NEW w \in Waits, ReceiveStart(n, w)
      PROVE  WakeInv' /\ (ReceiverWoken => ReceiverWoken')
  BY <1>2, FillUnchanged DEF ReceiveStart
<1>3. ASSUME NEW n \in Sizes, SendFromISR(n)
      PROVE  WakeInv' /\ (ReceiverWoken => ReceiverWoken')
  BY <1>3 DEF SendFromISR, CompletedFromISR, TriggerReached
<1>4. ASSUME NEW n \in Sizes, ReceiveFromISR(n)
      PROVE  WakeInv' /\ (ReceiverWoken => ReceiverWoken')
  BY <1>4 DEF ReceiveFromISR, CompletedFromISR
<1>5. ASSUME NEW t \in Ends, CompletedCall(t)
      PROVE  WakeInv' /\ (ReceiverWoken => ReceiverWoken')
  BY <1>5, FillUnchanged DEF CompletedCall, CompletedFromISR
<1>6. ASSUME NEW t \in Ends, NotifyFromElsewhere(t)
      PROVE  WakeInv' /\ (ReceiverWoken => ReceiverWoken')
  BY <1>6, FillUnchanged DEF NotifyFromElsewhere
<1>7. ASSUME NEW level \in Sizes, SetTriggerLevel(level)
      PROVE  WakeInv' /\ "SetTrigger" \in Calls
  BY <1>7 DEF SetTriggerLevel, SpacesAvailable
<1>8. ASSUME Reset PROVE WakeInv' /\ ReceiverWoken'
  BY <1>8 DEF Reset, MayReset
<1> QED
  BY <1>1, <1>2, <1>3, <1>4, <1>5, <1>6, <1>7, <1>8 DEF CallStart, FromISR, Others

\* The invariant is inductive.
LEMMA WakeInvStep ==
  TypeInv /\ WakeInv /\ [Next]_vars
    => WakeInv' /\ ("SetTrigger" \notin Calls /\ ReceiverWoken => ReceiverWoken')
<1> SUFFICES ASSUME TypeInv, WakeInv, [Next]_vars
             PROVE  WakeInv' /\ ("SetTrigger" \notin Calls /\ ReceiverWoken => ReceiverWoken')
  OBVIOUS
<1>1. CASE Next
  BY <1>1, EndStepWake, SendStepWake, ReceiveStepWake, OutsideWake DEF Next
<1>2. CASE UNCHANGED vars
  BY <1>2, FillUnchanged DEF vars, waitVars, callVars, localVars, WakeInv, Registered,
     IsrEndsIdle, WaitersAreWaiting, SenderWoken, ReceiverWoken, Committed, RequiredSpace
<1> QED
  BY <1>1, <1>2

\* No wake-up of a waiting sender is lost, for any length, any mix of tasks and ISRs and any
\* calls: when the space it needs is there, the receiver has still to notify it.
THEOREM SenderIsWoken == Spec => []SenderWoken
<1>1. WakeInv => SenderWoken
  BY DEF WakeInv
<1> QED
  BY <1>1, TypeInvInit, TypeInvStep, WakeInvInit, WakeInvStep, PTL DEF Spec

\* A task handle never stays in the buffer after the task's wait is over.
THEOREM HandlesAreForgotten == Spec => []WaitersAreWaiting
<1>1. WakeInv => WaitersAreWaiting
  BY DEF WakeInv
<1> QED
  BY <1>1, TypeInvInit, TypeInvStep, WakeInvInit, WakeInvStep, PTL DEF Spec

\* No wake-up of a waiting receiver is lost, as long as the trigger level is not changed.
THEOREM ReceiverIsWoken ==
  ASSUME "SetTrigger" \notin Calls PROVE Spec => []ReceiverWoken
<1>1. TypeInv /\ WakeInv /\ ReceiverWoken /\ [Next]_vars => ReceiverWoken'
  BY WakeInvStep
<1> QED
  BY <1>1, TypeInvInit, TypeInvStep, WakeInvInit, WakeInvStep, PTL DEF Spec

\* A stream buffer of trigger level 1 keeps that level, and its receiver waits only when it is empty.
LevelOne == xTriggerLevelBytes = 1 /\ (pc[Receiver] \in Reading => store = 0)

\* So it does in every step.
LEMMA LevelOneStep ==
  ASSUME Kind = "stream", "SetTrigger" \notin Calls
  PROVE  TypeInv /\ LevelOne /\ [Next]_vars => LevelOne'
<1> SUFFICES ASSUME TypeInv, LevelOne, [Next]_vars PROVE LevelOne'
  OBVIOUS
<1> USE DEF TypeInv, TypeOK, LevelOne, Goto, Ends, Sender, Receiver, Reading, bufferVars,
        callVars, localVars
<1>1. ASSUME NEW t \in Ends, EndStep(t) PROVE LevelOne'
  BY <1>1 DEF EndStep, WaitForNotification, WaitReturns, Completed, NotifyOther, ForgetOther
<1>2. CASE SendStep
  BY <1>2 DEF SendStep, SendCheck, SendWoken, SendLook, SendCopy, SendPublish, SendTrigger
<1>3. CASE ReceiveStep
  BY <1>3 DEF ReceiveStep, ReceiveCheck, ReceiveWoken, ReceiveLook, ReceiveCopy, ReceivePublish
<1>4. CASE CallStart
  BY <1>4 DEF CallStart, SendStart, ReceiveStart, BytesToStore, Header
<1>5. CASE FromISR \/ Others
  BY <1>5 DEF FromISR, SendFromISR, ReceiveFromISR, Others, CompletedCall, NotifyFromElsewhere,
     SetTriggerLevel, Reset
<1>6. CASE UNCHANGED vars
  BY <1>6 DEF vars
<1> QED
  BY <1>1, <1>2, <1>3, <1>4, <1>5, <1>6 DEF Next

\* In a stream buffer of trigger level 1 the two ends never wait for each other, whatever its
\* length: a sender that lacks space leaves bytes, of which the receiver has been or will be told.
THEOREM EndsNeverBothBlock ==
  ASSUME Kind = "stream", TriggerLevel = 1, "SetTrigger" \notin Calls
  PROVE  Spec => []NeverBothBlocked
<1>1. Init => LevelOne
  BY DEF Init, LevelOne, Reading, Receiver, Ends
<1>2. TypeInv /\ WakeInv /\ ReceiverWoken /\ [Next]_vars => ReceiverWoken'
  BY WakeInvStep
<1>3. TypeInv /\ WakeInv /\ ReceiverWoken /\ LevelOne => NeverBothBlocked
  <2> SUFFICES ASSUME TypeInv, WakeInv, ReceiverWoken, LevelOne,
                      Committed(Sender), Committed(Receiver)
               PROVE  FALSE
    BY DEF NeverBothBlocked, Ends
  <2>1. pc[Sender] \in {"wait", "blocked"} /\ pc[Receiver] \in {"wait", "blocked"}
    BY DEF Committed
  <2>2. RequiredSpace(size[Sender]) <= Capacity /\ RequiredSpace(size[Sender]) \in Int
    BY StreamBufferAssumption DEF RequiredSpace, Minimum, Capacity, TypeInv, TypeOK, Ends
  <2>3. SpacesAvailable < RequiredSpace(size[Sender])
    BY <2>1, <2>2, FillAndSpace, StreamBufferAssumption
       DEF WakeInv, SenderWoken, Capacity, TypeInv, TypeOK
  <2>4. BytesInBuffer > 0 /\ BytesInBuffer >= 1
    BY <2>2, <2>3, FillAndSpace, StreamBufferAssumption DEF TypeInv, TypeOK, Capacity
  <2> QED
    BY <2>1, <2>4 DEF ReceiverWoken, LevelOne, Reading
<1> QED
  BY <1>1, <1>2, <1>3, LevelOneStep, TypeInvInit, TypeInvStep, WakeInvInit, WakeInvStep, PTL
     DEF Spec

-----------------------------------------------------------------------------
(* The bytes of a stream: the ring as a queue. *)

\* A way along the ring can be gone in two parts.
LEMMA AdvanceTwice ==
  ASSUME NEW i \in Index, NEW m \in Nat, NEW k \in Nat, m + k <= Length
  PROVE  Advance(Advance(i, m), k) = Advance(i, m + k)
  BY StreamBufferAssumption DEF Index, Advance

\* The head is the fill away from the tail.
LEMMA TailToHead ==
  ASSUME xHead \in Index, xTail \in Index PROVE Advance(xTail, BytesInBuffer) = xHead
  BY StreamBufferAssumption DEF Index, Advance, BytesInBuffer

\* A head that moves on into free space fills it ...
LEMMA HeadMoves ==
  ASSUME xHead \in Index, xTail \in Index, NEW n \in 0 .. SpacesAvailable,
         xHead' = Advance(xHead, n), xTail' = xTail
  PROVE  BytesInBuffer' = BytesInBuffer + n /\ SpacesAvailable' = SpacesAvailable - n
  BY StreamBufferAssumption DEF Index, Advance, BytesInBuffer, SpacesAvailable

\* ... and a tail that moves on over bytes there are frees their space.
LEMMA TailMoves ==
  ASSUME xHead \in Index, xTail \in Index, NEW n \in 0 .. BytesInBuffer,
         xTail' = Advance(xTail, n), xHead' = xHead
  PROVE  BytesInBuffer' = BytesInBuffer - n /\ SpacesAvailable' = SpacesAvailable + n
  BY StreamBufferAssumption DEF Index, Advance, BytesInBuffer, SpacesAvailable

\* The n cells from the head on hold the next n bytes.
Copied(n) == \A k \in 0 .. n - 1 : Buffer[Advance(xHead, k)] = (nextByte + k) % ByteValues

\* The cells between the tail and the head keep what they hold.
CellsKept ==
  \A k \in 0 .. BytesInBuffer - 1 : Buffer'[Advance(xTail, k)] = Buffer[Advance(xTail, k)]

\* A copy into free space writes the next bytes from the head on and none of what is there.
LEMMA WriteCopies ==
  ASSUME TypeOK, Kind # "message", NEW n \in 1 .. SpacesAvailable, Buffer' = Written(n)
  PROVE  /\ \A k \in 0 .. n - 1 : Buffer'[Advance(xHead, k)] = (nextByte + k) % ByteValues
         /\ CellsKept
<1> DEFINE D(i) == IF i >= xHead THEN i - xHead ELSE i + Length - xHead
<1>1. Header = 0
  BY DEF Header
<1>2. /\ xHead \in Index /\ xTail \in Index /\ Length \in Nat /\ nextByte \in Int
      /\ BytesInBuffer \in 0 .. Capacity /\ SpacesAvailable \in 0 .. Capacity
  BY FillAndSpace, StreamBufferAssumption DEF TypeOK
<1>3. ASSUME NEW i \in Index
      PROVE  Buffer'[i] = IF D(i) < n THEN (nextByte + D(i)) % ByteValues ELSE Buffer[i]
  <2>1. D(i) \in Nat /\ n \in Int
    BY <1>2, StreamBufferAssumption DEF Index, Capacity
  <2>2. Buffer'[i] = IF D(i) < Header + n THEN CellOf(n, D(i)) ELSE Buffer[i]
    BY DEF Written
  <2> HIDE DEF D
  <2>3. CellOf(n, D(i)) = (nextByte + D(i)) % ByteValues
    <3>1. CellOf(n, D(i)) = (nextByte + D(i) - 0) % ByteValues
      BY <1>1, <2>1 DEF CellOf
    <3>2. nextByte + D(i) - 0 = nextByte + D(i)
      BY <1>2, <2>1
    <3> QED
      BY <3>1, <3>2
  <2>4. Header + n = n
    BY <1>1, <2>1
  <2> QED
    BY <2>2, <2>3, <2>4
<1>4. ASSUME NEW k \in 0 .. n - 1
      PROVE  Buffer'[Advance(xHead, k)] = (nextByte + k) % ByteValues
  <2>1. k \in 0 .. Capacity /\ k < n
    BY <1>2, StreamBufferAssumption DEF Capacity
  <2>2. Advance(xHead, k) \in Index
    BY <1>2, <2>1, AdvanceIndex
  <2>3. D(Advance(xHead, k)) = k
    BY <1>2, <2>1 DEF Advance, Index, Capacity
  <2> HIDE DEF D
  <2> QED
    BY <1>3, <2>1, <2>2, <2>3
<1>5. ASSUME NEW k \in 0 .. BytesInBuffer - 1
      PROVE  Buffer'[Advance(xTail, k)] = Buffer[Advance(xTail, k)]
  <2>1. k \in 0 .. Capacity
    BY <1>2, StreamBufferAssumption DEF Capacity
  <2>2. Advance(xTail, k) \in Index
    BY <1>2, <2>1, AdvanceIndex
  <2>3. ~(D(Advance(xTail, k)) < n)
    BY <1>2, <2>1 DEF Advance, Index, Capacity, BytesInBuffer, SpacesAvailable
  <2> HIDE DEF D
  <2> QED
    BY <1>3, <2>2, <2>3
<1> QED
  BY <1>4, <1>5 DEF CellsKept

\* What a stream holds is what lies between its tail and its head.
Bytes == BytesAt(xTail, BytesInBuffer)

\* It is a sequence of numbers, as long as the fill.
LEMMA BytesType == TypeOK => Bytes \in Seq(Nat) /\ Len(Bytes) = BytesInBuffer
  BY BytesAtType, FillAndSpace, StreamBufferAssumption DEF Bytes, TypeOK, Capacity

\* The next n bytes.
NextBytes(n) == [i \in 1 .. n |-> (nextByte + i - 1) % ByteValues]

\* Bytes copied after the head join the end of the stream when the head moves over them.
LEMMA BytesJoin ==
  ASSUME TypeOK, TypeOK', NEW n \in 1 .. SpacesAvailable, CellsKept,
         \A k \in 0 .. n - 1 : Buffer'[Advance(xHead, k)] = (nextByte + k) % ByteValues,
         xHead' = Advance(xHead, n), xTail' = xTail
  PROVE  Bytes' = Bytes \o NextBytes(n)
<1> DEFINE fill == BytesInBuffer
<1>1. /\ xHead \in Index /\ xTail \in Index /\ n \in Nat /\ fill \in 0 .. Capacity
      /\ fill + n <= Capacity /\ Capacity \in Nat /\ Capacity < Length /\ nextByte \in Int
      /\ Length \in Nat
  <2>1. /\ xHead \in Index /\ xTail \in Index /\ nextByte \in Int
        /\ Length \in Nat /\ Capacity \in Nat /\ Capacity < Length
    BY StreamBufferAssumption DEF TypeOK, Capacity
  <2>2. /\ fill \in 0 .. Capacity /\ SpacesAvailable \in 0 .. Capacity
        /\ fill + SpacesAvailable = Capacity
    BY <2>1, FillAndSpace
  <2> HIDE DEF fill
  <2> QED
    BY <2>1, <2>2
<1>2. BytesInBuffer' = fill + n
  BY <1>1, HeadMoves
<1>3. Bytes \in Seq(Nat) /\ Len(Bytes) = fill /\ \A k \in 1 .. fill : Bytes[k] = Buffer[Advance(xTail, k - 1)]
  BY BytesType DEF Bytes, BytesAt
<1>4. Bytes' \in Seq(Nat) /\ Len(Bytes') = fill + n
      /\ \A k \in 1 .. fill + n : Bytes'[k] = Buffer'[Advance(xTail, k - 1)]
  <2>1. (Bytes \in Seq(Nat) /\ Len(Bytes) = BytesInBuffer)'
    BY BytesType, PTL
  <2>2. Bytes' = [k \in 1 .. BytesInBuffer' |-> Buffer'[Advance(xTail', k - 1)]]
    BY DEF Bytes, BytesAt, Advance
  <2> QED
    BY <1>2, <2>1, <2>2
<1>5. NextBytes(n) \in Seq(Nat) /\ Len(NextBytes(n)) = n
      /\ \A k \in 1 .. n : NextBytes(n)[k] = (nextByte + k - 1) % ByteValues
  <2>1. \A k \in 1 .. n : (nextByte + k - 1) % ByteValues \in Nat
    BY <1>1, ModByte, StreamBufferAssumption
  <2> QED
    BY <1>1, <2>1 DEF NextBytes
<1>6. /\ Bytes \o NextBytes(n) \in Seq(Nat) /\ Len(Bytes \o NextBytes(n)) = fill + n
      /\ \A k \in 1 .. fill + n :
           (Bytes \o NextBytes(n))[k] = IF k <= fill THEN Bytes[k] ELSE NextBytes(n)[k - fill]
  <2> DEFINE s == Bytes
             t == NextBytes(n)
  <2>1. /\ s \in Seq(Nat) /\ t \in Seq(Nat) /\ Len(s) = fill /\ Len(t) = n
        /\ fill \in Nat /\ n \in Nat
    BY <1>1, <1>3, <1>5
  <2> HIDE DEF s, t, fill
  <2>2. s \o t \in Seq(Nat) /\ Len(s \o t) = fill + n
    BY <2>1, ConcatProperties
  <2>3. \A k \in 1 .. fill + n : (s \o t)[k] = IF k <= fill THEN s[k] ELSE t[k - fill]
    BY <2>1, ConcatProperties
  <2> QED
    BY <2>2, <2>3 DEF s, t
<1>7. ASSUME NEW k \in 1 .. fill + n PROVE Bytes'[k] = (Bytes \o NextBytes(n))[k]
  <2>1. CASE k <= fill
    <3>1. k - 1 \in 0 .. fill - 1 /\ k \in 1 .. fill
      BY <1>1, <2>1
    <3>2. Buffer'[Advance(xTail, k - 1)] = Buffer[Advance(xTail, k - 1)]
      BY <3>1 DEF CellsKept
    <3> QED
      BY <1>3, <1>4, <1>6, <2>1, <3>1, <3>2
  <2>2. CASE ~(k <= fill)
    <3> DEFINE j == k - 1 - fill
    <3>1. j \in 0 .. n - 1 /\ j \in Nat /\ fill \in Nat /\ fill + j <= Length /\ k - fill \in 1 .. n
          /\ k - 1 = fill + j /\ nextByte + (k - fill) - 1 = nextByte + j
      BY <1>1, <2>2
    <3>2. Advance(xTail, k - 1) = Advance(xHead, j)
      <4>1. Advance(Advance(xTail, fill), j) = Advance(xTail, fill + j)
        BY <1>1, <3>1, AdvanceTwice
      <4> QED
        BY <1>1, <3>1, <4>1, TailToHead
    <3>3. Buffer'[Advance(xHead, j)] = (nextByte + j) % ByteValues
      BY <3>1
    <3>4. NextBytes(n)[k - fill] = (nextByte + (k - fill) - 1) % ByteValues
      BY <1>5, <3>1
    <3> QED
      BY <1>4, <1>6, <2>2, <3>1, <3>2, <3>3, <3>4
  <2> QED
    BY <2>1, <2>2
<1> QED
  BY <1>4, <1>6, <1>7, SeqEqual

\* A read takes the oldest bytes, ...
LEMMA ReadTakes ==
  ASSUME TypeOK, NEW n \in 1 .. BytesInBuffer
  PROVE  BytesAt(xTail, n) = SubSeq(Bytes, 1, n) /\ n \in 1 .. Len(Bytes)
<1>1. Bytes \in Seq(Nat) /\ Len(Bytes) = BytesInBuffer /\ BytesInBuffer \in 0 .. Capacity
      /\ \A k \in 1 .. BytesInBuffer : Bytes[k] = Buffer[Advance(xTail, k - 1)]
  BY BytesType, FillAndSpace DEF Bytes, BytesAt, TypeOK
<1>2. n \in Int /\ n >= 1 /\ n <= Capacity
  BY <1>1, StreamBufferAssumption DEF Capacity
<1>3. BytesAt(xTail, n) \in Seq(Nat) /\ Len(BytesAt(xTail, n)) = n
      /\ \A k \in 1 .. n : BytesAt(xTail, n)[k] = Buffer[Advance(xTail, k - 1)]
  <2>1. xTail \in Index /\ Buffer \in [Index -> Nat]
    BY DEF TypeOK
  <2>2. BytesAt(xTail, n) \in Seq(Nat) /\ Len(BytesAt(xTail, n)) = n
    BY <1>2, <2>1, BytesAtType
  <2>3. \A k \in 1 .. n : BytesAt(xTail, n)[k] = Buffer[Advance(xTail, k - 1)]
    BY DEF BytesAt
  <2> QED
    BY <2>2, <2>3
<1>4. /\ SubSeq(Bytes, 1, n) \in Seq(Nat) /\ Len(SubSeq(Bytes, 1, n)) = n
      /\ \A k \in 1 .. n : SubSeq(Bytes, 1, n)[k] = Bytes[k]
  BY <1>1, <1>2
<1>5. \A k \in 1 .. n : k \in 1 .. BytesInBuffer
  BY <1>1, <1>2, StreamBufferAssumption DEF Capacity
<1>6. BytesAt(xTail, n) = SubSeq(Bytes, 1, n)
  BY <1>1, <1>3, <1>4, <1>5, SeqEqual
<1> QED
  BY <1>1, <1>6

\* ... and leaves the others when the tail moves over them.
LEMMA BytesLeave ==
  ASSUME TypeOK, TypeOK', NEW n \in 1 .. BytesInBuffer,
         xTail' = Advance(xTail, n), xHead' = xHead, Buffer' = Buffer
  PROVE  Bytes' = SubSeq(Bytes, n + 1, Len(Bytes))
<1> DEFINE fill == BytesInBuffer
<1>1. /\ xHead \in Index /\ xTail \in Index /\ fill \in 0 .. Capacity /\ n \in 1 .. fill
      /\ Capacity \in Nat /\ Capacity < Length /\ Length \in Nat
  BY FillAndSpace, StreamBufferAssumption DEF TypeOK, Capacity
<1>2. BytesInBuffer' = fill - n
  <2>1. n \in 0 .. BytesInBuffer
    BY <1>1
  <2> QED
    BY <1>1, <2>1, TailMoves
<1>3. Bytes \in Seq(Nat) /\ Len(Bytes) = fill
      /\ \A k \in 1 .. fill : Bytes[k] = Buffer[Advance(xTail, k - 1)]
  BY BytesType DEF Bytes, BytesAt
<1>4. Bytes' \in Seq(Nat) /\ Len(Bytes') = fill - n
      /\ \A k \in 1 .. fill - n : Bytes'[k] = Buffer[Advance(Advance(xTail, n), k - 1)]
  <2>1. (Bytes \in Seq(Nat) /\ Len(Bytes) = BytesInBuffer)'
    BY BytesType, PTL
  <2>2. Bytes' = [k \in 1 .. BytesInBuffer' |-> Buffer'[Advance(xTail', k - 1)]]
    BY DEF Bytes, BytesAt, Advance
  <2> QED
    BY <1>2, <2>1, <2>2
<1>5. /\ SubSeq(Bytes, n + 1, Len(Bytes)) \in Seq(Nat)
      /\ Len(SubSeq(Bytes, n + 1, Len(Bytes))) = fill - n
      /\ \A k \in 1 .. fill - n : SubSeq(Bytes, n + 1, Len(Bytes))[k] = Bytes[n + k]
  BY <1>1, <1>3
<1>6. ASSUME NEW k \in 1 .. fill - n
      PROVE  Bytes'[k] = SubSeq(Bytes, n + 1, Len(Bytes))[k]
  <2>1. k - 1 \in Nat /\ n \in Nat /\ n + (k - 1) <= Length /\ n + k \in 1 .. fill
        /\ (n + k) - 1 = n + (k - 1)
    BY <1>1
  <2>2. Advance(Advance(xTail, n), k - 1) = Advance(xTail, n + (k - 1))
    BY <1>1, <2>1, AdvanceTwice
  <2>3. Bytes'[k] = Buffer[Advance(xTail, n + (k - 1))]
    BY <1>4, <2>2
  <2>4. Bytes[n + k] = Buffer[Advance(xTail, n + (k - 1))]
    BY <1>3, <2>1
  <2> QED
    BY <1>5, <2>3, <2>4
<1> QED
  BY <1>4, <1>5, <1>6, SeqEqual

\* What the sender has looked at and copied stays true while the receiver goes on, ...
SpaceThere ==
  pc[Sender] \in {"check", "wait", "blocked", "clear", "look", "copy"} => xSpace <= SpacesAvailable
CopiedAhead ==
  pc[Sender] = "publish" => size[Sender] \in 1 .. SpacesAvailable /\ Copied(size[Sender])
\* ... and what the receiver has looked at and copied while the sender does.
FillThere == pc[Receiver] = "copy" => xBytesAvailable <= BytesInBuffer
DataThere ==
  pc[Receiver] = "publish" =>
    Len(rxData) \in 1 .. BytesInBuffer /\ rxData = BytesAt(xTail, Len(rxData))
StreamInv == SpaceThere /\ CopiedAhead /\ FillThere /\ DataThere

FifoStep == [Fifo!Next]_(Fifo!vars)

\* The abstract queue of a stream holds its bytes.
LEMMA ContentsAreBytes ==
  ASSUME Kind # "message" PROVE Contents = Bytes /\ Contents' = Bytes'
  BY DEF Contents, Bytes

\* A step that leaves the queue alone stutters, ...
LEMMA Stutters ==
  ASSUME Kind # "message", Bytes' = Bytes, delivered' = delivered, nextByte' = nextByte
  PROVE  FifoStep
  BY ContentsAreBytes DEF FifoStep, Fifo!vars

\* ... and the others write, read or clear.
LEMMA Writes ==
  ASSUME Kind # "message", NEW n \in 1 .. Capacity, Bytes' = Bytes \o NextBytes(n),
         nextByte' = (nextByte + n) % ByteValues, delivered' = delivered
  PROVE  FifoStep
<1>1. Fifo!Write(n)
  BY ContentsAreBytes DEF Fifo!Write, NextBytes
<1> QED
  BY <1>1 DEF FifoStep, Fifo!Next

LEMMA Reads ==
  ASSUME Kind # "message", NEW n \in 1 .. Len(Bytes), delivered' = SubSeq(Bytes, 1, n),
         Bytes' = SubSeq(Bytes, n + 1, Len(Bytes)), nextByte' = nextByte
  PROVE  FifoStep
<1>1. Fifo!ReadBytes(n)
  BY ContentsAreBytes DEF Fifo!ReadBytes
<1>2. n \in 1 .. Len(Contents)
  BY ContentsAreBytes
<1> QED
  BY <1>1, <1>2 DEF FifoStep, Fifo!Next

LEMMA Clears ==
  ASSUME Kind # "message", Bytes' = <<>>, delivered' = delivered, nextByte' = nextByte
  PROVE  FifoStep
  BY ContentsAreBytes DEF FifoStep, Fifo!Next, Fifo!Clear

\* A step that moves neither index and writes none of the bytes between them keeps them.
LEMMA BytesStay ==
  ASSUME TypeOK, TypeOK', xHead' = xHead, xTail' = xTail, CellsKept PROVE Bytes' = Bytes
<1>1. BytesInBuffer' = BytesInBuffer /\ BytesInBuffer \in Int
  <2>1. BytesInBuffer' = BytesInBuffer
    BY DEF BytesInBuffer
  <2>2. BytesInBuffer \in 0 .. Capacity /\ Capacity \in Int
    BY FillAndSpace, StreamBufferAssumption DEF TypeOK, Capacity
  <2> QED
    BY <2>1, <2>2
<1>2. Bytes' = [k \in 1 .. BytesInBuffer |-> Buffer'[Advance(xTail, k - 1)]]
  BY <1>1 DEF Bytes, BytesAt, Advance
<1>3. ASSUME NEW k \in 1 .. BytesInBuffer
      PROVE  Buffer'[Advance(xTail, k - 1)] = Buffer[Advance(xTail, k - 1)]
  <2>1. k - 1 \in 0 .. BytesInBuffer - 1
    BY <1>1
  <2> QED
    BY <2>1 DEF CellsKept
<1> QED
  BY <1>2, <1>3 DEF Bytes, BytesAt

\* A step that does not touch the ring moves nothing.
LEMMA RingStays ==
  ASSUME xHead' = xHead, xTail' = xTail, Buffer' = Buffer
  PROVE  /\ BytesInBuffer' = BytesInBuffer /\ SpacesAvailable' = SpacesAvailable
         /\ CellsKept /\ Bytes' = Bytes
  BY DEF BytesInBuffer, SpacesAvailable, CellsKept, Bytes, BytesAt, Advance

\* The fill and the space, and what was seen of them, are numbers, before a step and after it.
LEMMA FillNumber ==
  TypeOK => /\ BytesInBuffer \in Int /\ xBytesAvailable \in Int
            /\ SpacesAvailable \in Int /\ xSpace \in Int
  BY FillAndSpace, StreamBufferAssumption DEF TypeOK, Capacity

LEMMA FillTypes ==
  ASSUME TypeOK, TypeOK'
  PROVE  /\ BytesInBuffer \in Int /\ BytesInBuffer' \in Int /\ xBytesAvailable \in Int
         /\ SpacesAvailable \in Int /\ SpacesAvailable' \in Int /\ xSpace \in Int
<1>1. (/\ BytesInBuffer \in Int /\ xBytesAvailable \in Int
       /\ SpacesAvailable \in Int /\ xSpace \in Int)'
  BY FillNumber, PTL
<1> QED
  BY <1>1, FillNumber

\* The receiver's view outlives any step that takes nothing out and writes none of the bytes there.
LEMMA ReceiverKept ==
  ASSUME TypeOK, TypeOK', FillThere, DataThere, pc'[Receiver] = pc[Receiver],
         xBytesAvailable' = xBytesAvailable, rxData' = rxData, xTail' = xTail, CellsKept,
         BytesInBuffer' >= BytesInBuffer
  PROVE  FillThere' /\ DataThere'
<1>1. BytesInBuffer \in Int /\ BytesInBuffer' \in Int /\ xBytesAvailable \in Int
  BY FillTypes
<1>2. FillThere'
  BY <1>1 DEF FillThere
<1>3. ASSUME pc[Receiver] = "publish"
      PROVE  Len(rxData) \in 1 .. BytesInBuffer' /\ rxData = BytesAt(xTail, Len(rxData))'
  <2>1. Len(rxData) \in 1 .. BytesInBuffer /\ rxData = BytesAt(xTail, Len(rxData))
    BY <1>3 DEF DataThere
  <2> DEFINE n == Len(rxData)
  <2>2. n \in 1 .. BytesInBuffer'
    BY <1>1, <2>1
  <2>3. \A k \in 1 .. n : Buffer'[Advance(xTail, k - 1)] = Buffer[Advance(xTail, k - 1)]
    <3> SUFFICES ASSUME NEW k \in 1 .. n
                 PROVE  Buffer'[Advance(xTail, k - 1)] = Buffer[Advance(xTail, k - 1)]
      OBVIOUS
    <3>1. k - 1 \in 0 .. BytesInBuffer - 1
      BY <1>1, <2>1
    <3> QED
      BY <3>1 DEF CellsKept
  <2>4. BytesAt(xTail, Len(rxData))' = [k \in 1 .. n |-> Buffer'[Advance(xTail, k - 1)]]
    BY DEF BytesAt, Advance
  <2>5. BytesAt(xTail, Len(rxData)) = [k \in 1 .. n |-> Buffer[Advance(xTail, k - 1)]]
    BY DEF BytesAt
  <2> QED
    BY <2>1, <2>2, <2>3, <2>4, <2>5
<1> QED
  BY <1>2, <1>3 DEF DataThere

\* The sender's view outlives any step that leaves the head, the cells and the space there.
LEMMA SenderKept ==
  ASSUME TypeOK, TypeOK', SpaceThere, CopiedAhead, pc'[Sender] = pc[Sender],
         size'[Sender] = size[Sender], xSpace' = xSpace, xHead' = xHead, Buffer' = Buffer,
         nextByte' = nextByte, SpacesAvailable' >= SpacesAvailable
  PROVE  SpaceThere' /\ CopiedAhead'
<1>1. SpacesAvailable \in Int /\ SpacesAvailable' \in Int /\ xSpace \in Int
  BY FillTypes
<1>2. SpaceThere'
  BY <1>1 DEF SpaceThere
<1>3. CopiedAhead'
  BY <1>1 DEF CopiedAhead, Copied, Advance
<1> QED
  BY <1>2, <1>3

\* A step that touches none of this keeps it all.
LEMMA Untouched ==
  ASSUME Kind # "message", StreamInv, xHead' = xHead, xTail' = xTail, Buffer' = Buffer,
         nextByte' = nextByte, delivered' = delivered, pc' = pc, size' = size, rxData' = rxData,
         xBytesAvailable' = xBytesAvailable, xSpace' = xSpace
  PROVE  StreamInv' /\ FifoStep
<1>1. BytesInBuffer' = BytesInBuffer /\ SpacesAvailable' = SpacesAvailable /\ Bytes' = Bytes
  BY RingStays
<1>2. SpaceThere' /\ FillThere'
  BY <1>1 DEF StreamInv, SpaceThere, FillThere
<1>3. CopiedAhead'
  BY <1>1 DEF StreamInv, CopiedAhead, Copied, Advance
<1>4. DataThere'
  BY <1>1 DEF StreamInv, DataThere, BytesAt, Advance
<1> QED
  BY <1>1, <1>2, <1>3, <1>4, Stutters DEF StreamInv

\* The steps of waiting and notifying touch neither the ring nor what is copied.
LEMMA EndStepStream ==
  ASSUME Kind # "message", TypeInv, TypeInv', StreamInv, NEW t \in Ends, EndStep(t)
  PROVE  StreamInv' /\ FifoStep
<1>1. /\ xHead' = xHead /\ xTail' = xTail /\ Buffer' = Buffer /\ size' = size
      /\ xSpace' = xSpace /\ xBytesAvailable' = xBytesAvailable /\ rxData' = rxData
      /\ nextByte' = nextByte /\ delivered' = delivered
  BY DEF EndStep, WaitForNotification, WaitReturns, Completed, NotifyOther, ForgetOther,
     bufferVars, localVars, history
<1>2. /\ BytesInBuffer' = BytesInBuffer /\ SpacesAvailable' = SpacesAvailable
      /\ CellsKept /\ Bytes' = Bytes
  BY <1>1, RingStays
<1>3. \A e \in Ends : \/ pc'[e] = pc[e]
                      \/ pc[e] = "wait" /\ pc'[e] = "blocked"
                      \/ pc[e] = "blocked" /\ pc'[e] = "clear"
                      \/ pc'[e] \in {"notify", "forget", "idle"}
  <2>1. pc \in [Ends -> Label]
    BY DEF TypeInv, TypeOK
  <2>2. CASE WaitForNotification(t)
    BY <2>1, <2>2 DEF WaitForNotification, Goto
  <2>3. CASE WaitReturns(t)
    BY <2>1, <2>3 DEF WaitReturns, Goto
  <2>4. CASE Completed(t)
    BY <2>1, <2>4 DEF Completed, Goto
  <2>5. CASE NotifyOther(t) \/ ForgetOther(t)
    BY <2>1, <2>5 DEF NotifyOther, ForgetOther, Goto
  <2> QED
    BY <2>2, <2>3, <2>4, <2>5 DEF EndStep
<1>4. /\ pc'[Sender] = "publish" => pc[Sender] = "publish"
      /\ pc'[Sender] \in {"check", "wait", "blocked", "clear", "look", "copy"}
           => pc[Sender] \in {"check", "wait", "blocked", "clear", "look", "copy"}
      /\ pc'[Receiver] = "copy" => pc[Receiver] = "copy"
      /\ pc'[Receiver] = "publish" => pc[Receiver] = "publish"
  BY <1>3 DEF Ends
<1>5. SpaceThere'
  BY <1>1, <1>2, <1>4 DEF StreamInv, SpaceThere
<1>6. CopiedAhead'
  BY <1>1, <1>2, <1>4 DEF StreamInv, CopiedAhead, Copied, Advance
<1>7. FillThere'
  BY <1>1, <1>2, <1>4 DEF StreamInv, FillThere
<1>8. DataThere'
  BY <1>1, <1>2, <1>4 DEF StreamInv, DataThere, BytesAt, Advance
<1> QED
  BY <1>1, <1>2, <1>5, <1>6, <1>7, <1>8, Stutters DEF StreamInv

\* A write joins the next bytes to the stream when, and only when, the head moves over them.
LEMMA SendStepStream ==
  ASSUME Kind # "message", TypeInv, TypeInv', StreamInv, SendStep
  PROVE  StreamInv' /\ FifoStep
<1> USE DEF TypeInv, StreamInv
<1>1. pc'[Receiver] = pc[Receiver] /\ xBytesAvailable' = xBytesAvailable /\ rxData' = rxData
      /\ xTail' = xTail /\ delivered' = delivered /\ size[Sender] \in Nat
  BY DEF SendStep, SendCheck, SendWoken, SendLook, SendCopy, SendPublish, SendTrigger, Goto,
     TypeOK, Sender, Receiver, Ends, bufferVars, localVars, history
<1>2. CASE SendCheck \/ SendWoken \/ SendLook \/ SendTrigger
  <2>1. xHead' = xHead /\ Buffer' = Buffer /\ nextByte' = nextByte
    BY <1>2 DEF SendCheck, SendWoken, SendLook, SendTrigger, bufferVars, history
  <2>2. /\ BytesInBuffer' = BytesInBuffer /\ SpacesAvailable' = SpacesAvailable
        /\ CellsKept /\ Bytes' = Bytes
    BY <1>1, <2>1, RingStays
  <2>3. SpacesAvailable \in Int /\ BytesInBuffer \in Int /\ xSpace \in Int
    BY FillTypes
  <2>4. FillThere' /\ DataThere'
    <3>1. BytesInBuffer' >= BytesInBuffer
      BY <2>2, <2>3
    <3> QED
      BY <1>1, <2>2, <3>1, ReceiverKept
  <2>5. pc'[Sender] # "publish"
    BY <1>2 DEF SendCheck, SendWoken, SendLook, SendTrigger, Goto, TypeOK, Ends
  <2>6. SpaceThere'
    <3>1. CASE SendCheck \/ SendLook
      <4>1. xSpace' <= SpacesAvailable
        BY <2>3, <3>1 DEF SendCheck, SendLook, SpaceThere
      <4> QED
        BY <2>2, <4>1 DEF SpaceThere
    <3>2. CASE SendWoken
      BY <2>2, <3>2 DEF SendWoken, localVars, SpaceThere
    <3>3. CASE SendTrigger
      BY <3>3 DEF SendTrigger, Goto, SpaceThere, TypeOK, Ends
    <3> QED
      BY <1>2, <3>1, <3>2, <3>3
  <2> QED
    BY <1>1, <2>1, <2>2, <2>4, <2>5, <2>6, Stutters DEF CopiedAhead
<1>3. CASE SendCopy
  <2> DEFINE n == Accepted(size[Sender], xSpace)
  <2>1. /\ pc[Sender] = "copy" /\ xHead' = xHead /\ nextByte' = nextByte /\ xSpace' = xSpace
    BY <1>3 DEF SendCopy, localVars, history
  <2>2. CASE n = 0
    <3>1. Buffer' = Buffer /\ pc'[Sender] = "idle"
      BY <1>3, <2>2 DEF SendCopy, Goto, TypeOK, Ends
    <3>2. /\ BytesInBuffer' = BytesInBuffer /\ CellsKept /\ Bytes' = Bytes
      BY <1>1, <2>1, <3>1, RingStays
    <3>3. BytesInBuffer' >= BytesInBuffer
      BY <3>2, FillTypes
    <3>4. FillThere' /\ DataThere'
      BY <1>1, <3>2, <3>3, ReceiverKept
    <3> QED
      BY <1>1, <2>1, <3>1, <3>2, <3>4, Stutters DEF SpaceThere, CopiedAhead
  <2>3. CASE n # 0
    <3>1. Buffer' = Written(n) /\ size'[Sender] = n /\ pc'[Sender] = "publish"
      BY <1>3, <2>3 DEF SendCopy, Goto, TypeOK, Ends
    <3>2. n \in 1 .. SpacesAvailable
      <4>1. xSpace <= SpacesAvailable /\ xSpace \in Int /\ xSpace >= 0 /\ SpacesAvailable \in Int
        <5>1. xSpace <= SpacesAvailable
          BY <2>1 DEF SpaceThere
        <5>2. xSpace \in 0 .. Capacity /\ Capacity \in Int
          BY StreamBufferAssumption DEF TypeOK, Capacity
        <5> QED
          BY <5>1, <5>2, FillTypes
      <4>2. n = Minimum(size[Sender], xSpace)
        BY DEF Accepted
      <4> QED
        BY <1>1, <2>3, <4>1, <4>2 DEF Minimum
    <3> HIDE DEF n
    <3>3. /\ \A k \in 0 .. n - 1 : Buffer'[Advance(xHead, k)] = (nextByte + k) % ByteValues
          /\ CellsKept
      BY <3>1, <3>2, WriteCopies
    <3>4. BytesInBuffer' = BytesInBuffer /\ SpacesAvailable' = SpacesAvailable
      BY <1>1, <2>1 DEF BytesInBuffer, SpacesAvailable
    <3>5. BytesInBuffer' >= BytesInBuffer
      BY <3>4, FillTypes
    <3>6. FillThere' /\ DataThere'
      BY <1>1, <3>3, <3>5, ReceiverKept
    <3>7. CopiedAhead'
      BY <2>1, <3>1, <3>2, <3>3, <3>4 DEF CopiedAhead, Copied, Advance
    <3>8. Bytes' = Bytes
      BY <1>1, <2>1, <3>3, BytesStay
    <3> QED
      BY <1>1, <2>1, <3>1, <3>6, <3>7, <3>8, Stutters DEF SpaceThere
  <2> QED
    BY <2>2, <2>3
<1>4. CASE SendPublish
  <2> DEFINE n == size[Sender]
  <2>1. /\ pc[Sender] = "publish" /\ pc'[Sender] = "trigger" /\ Buffer' = Buffer
        /\ xHead' = Advance(xHead, Header + n) /\ nextByte' = (nextByte + n) % ByteValues
    BY <1>4 DEF SendPublish, Goto, TypeOK, Ends
  <2>2. Header + n = n
    BY <1>1 DEF Header
  <2>3. n \in 1 .. SpacesAvailable /\ Copied(n)
    BY <2>1 DEF CopiedAhead
  <2>4. n \in 0 .. SpacesAvailable /\ n \in 1 .. Capacity /\ n >= 0
    <3>1. SpacesAvailable \in 0 .. Capacity /\ Capacity \in Int
      BY FillAndSpace, StreamBufferAssumption DEF TypeOK, Capacity
    <3> HIDE DEF n
    <3> QED
      BY <2>3, <3>1
  <2> HIDE DEF n
  <2>5. BytesInBuffer' = BytesInBuffer + n
    BY <1>1, <2>1, <2>2, <2>4, HeadMoves DEF TypeOK
  <2>6. CellsKept
    BY <2>1 DEF CellsKept
  <2>7. BytesInBuffer' >= BytesInBuffer
    BY <2>4, <2>5, FillTypes
  <2>8. FillThere' /\ DataThere'
    BY <1>1, <2>6, <2>7, ReceiverKept
  <2>9. \A k \in 0 .. n - 1 : Buffer'[Advance(xHead, k)] = (nextByte + k) % ByteValues
    BY <2>1, <2>3 DEF Copied
  <2>10. Bytes' = Bytes \o NextBytes(n)
    BY <1>1, <2>1, <2>2, <2>3, <2>6, <2>9, BytesJoin
  <2> QED
    BY <1>1, <2>1, <2>4, <2>8, <2>10, Writes DEF SpaceThere, CopiedAhead
<1> QED
  BY <1>2, <1>3, <1>4 DEF SendStep

\* A read takes what the receiver copied when, and only when, the tail moves over it.
LEMMA ReceiveStepStream ==
  ASSUME Kind # "message", TypeInv, TypeInv', StreamInv, ReceiveStep
  PROVE  StreamInv' /\ FifoStep
<1> USE DEF TypeInv, StreamInv
<1>1. pc'[Sender] = pc[Sender] /\ size' = size /\ xSpace' = xSpace
      /\ xHead' = xHead /\ Buffer' = Buffer /\ nextByte' = nextByte
  BY DEF ReceiveStep, ReceiveCheck, ReceiveWoken, ReceiveLook, ReceiveCopy, ReceivePublish, Goto,
     TypeOK, Sender, Receiver, Ends, bufferVars, localVars, history
<1>2. CASE ReceiveCheck \/ ReceiveWoken \/ ReceiveLook \/ ReceiveCopy
  <2>1. xTail' = xTail /\ delivered' = delivered
    BY <1>2 DEF ReceiveCheck, ReceiveWoken, ReceiveLook, ReceiveCopy, bufferVars, history
  <2>2. /\ BytesInBuffer' = BytesInBuffer /\ SpacesAvailable' = SpacesAvailable
        /\ CellsKept /\ Bytes' = Bytes
    BY <1>1, <2>1, RingStays
  <2>3. SpacesAvailable' >= SpacesAvailable
    BY <2>2, FillTypes
  <2>4. SpaceThere' /\ CopiedAhead'
    BY <1>1, <2>3, SenderKept
  <2>5. FillThere'
    <3>1. CASE ReceiveCheck \/ ReceiveLook
      <4>1. xBytesAvailable' <= BytesInBuffer
        BY <3>1, FillTypes DEF ReceiveCheck, ReceiveLook
      <4> QED
        BY <2>2, <4>1 DEF FillThere
    <3>2. CASE ReceiveWoken \/ ReceiveCopy
      BY <3>2 DEF ReceiveWoken, ReceiveCopy, Goto, FillThere, TypeOK, Ends
    <3> QED
      BY <1>2, <3>1, <3>2
  <2>6. DataThere'
    <3>1. CASE ReceiveCheck \/ ReceiveLook \/ ReceiveWoken
      BY <3>1 DEF ReceiveCheck, ReceiveLook, ReceiveWoken, Goto, DataThere, TypeOK, Ends
    <3>2. CASE ReceiveCopy
      <4> DEFINE n == Readable(size[Receiver], xBytesAvailable)
      <4>1. CASE n = 0
        BY <3>2, <4>1 DEF ReceiveCopy, Goto, DataThere, TypeOK, Ends
      <4>2. CASE n # 0
        <5>1. rxData' = BytesAt(Advance(xTail, Header), n) /\ pc[Receiver] = "copy"
          BY <3>2, <4>2 DEF ReceiveCopy
        <5>2. Advance(xTail, Header) = xTail
          BY StreamBufferAssumption DEF Header, Advance, TypeOK, Index
        <5>3. n \in 1 .. BytesInBuffer
          <6>1. xBytesAvailable <= BytesInBuffer
            BY <5>1 DEF FillThere
          <6>2. n = Minimum(size[Receiver], xBytesAvailable - 0)
            BY DEF Readable, Header
          <6>3. xBytesAvailable \in 0 .. Capacity /\ size[Receiver] \in Nat
            BY DEF TypeOK, Ends
          <6> HIDE DEF n
          <6> QED
            BY <4>2, <6>1, <6>2, <6>3, FillTypes DEF Minimum
        <5> HIDE DEF n
        <5>4. Len(rxData') = n
          <6>1. BytesInBuffer <= Capacity /\ BytesInBuffer \in Int /\ Capacity \in Int
            BY FillAndSpace, StreamBufferAssumption DEF TypeOK, Capacity
          <6>2. n \in Int /\ n <= Capacity /\ n >= 0
            BY <5>3, <6>1
          <6> QED
            BY <5>1, <5>2, <6>2, BytesAtType DEF TypeOK
        <5>5. rxData' = [k \in 1 .. Len(rxData') |-> Buffer'[Advance(xTail, k - 1)]]
          BY <1>1, <5>1, <5>2, <5>4 DEF BytesAt
        <5>6. rxData' = BytesAt(xTail, Len(rxData))'
          BY <2>1, <5>5 DEF BytesAt, Advance
        <5> QED
          BY <2>2, <5>3, <5>4, <5>6 DEF DataThere
      <4> QED
        BY <4>1, <4>2
    <3> QED
      BY <1>2, <3>1, <3>2
  <2> QED
    BY <1>1, <2>1, <2>2, <2>4, <2>5, <2>6, Stutters
<1>3. CASE ReceivePublish
  <2> DEFINE n == Len(rxData)
  <2>1. /\ pc[Receiver] = "publish" /\ pc'[Receiver] = "completed"
        /\ xTail' = Advance(xTail, Header + n) /\ delivered' = rxData
    BY <1>3 DEF ReceivePublish, Goto, TypeOK, Ends
  <2>2. n \in 1 .. BytesInBuffer /\ rxData = BytesAt(xTail, n)
    BY <2>1 DEF DataThere
  <2>3. n \in Nat /\ n \in 0 .. BytesInBuffer
    BY <2>2, FillTypes
  <2> HIDE DEF n
  <2>4. Header + n = n
    BY <2>3 DEF Header
  <2>5. SpacesAvailable' = SpacesAvailable + n
    BY <1>1, <2>1, <2>3, <2>4, TailMoves DEF TypeOK
  <2>6. SpacesAvailable' >= SpacesAvailable
    BY <2>3, <2>5, FillTypes
  <2>7. SpaceThere' /\ CopiedAhead'
    BY <1>1, <2>6, SenderKept
  <2>8. delivered' = SubSeq(Bytes, 1, n) /\ n \in 1 .. Len(Bytes)
    BY <2>1, <2>2, ReadTakes
  <2>9. Bytes' = SubSeq(Bytes, n + 1, Len(Bytes))
    BY <1>1, <2>1, <2>2, <2>4, BytesLeave
  <2> QED
    BY <1>1, <2>1, <2>7, <2>8, <2>9, Reads DEF FillThere, DataThere
<1> QED
  BY <1>2, <1>3 DEF ReceiveStep

\* So it is for an ISR, which copies and moves in one step; a reset empties the stream.
LEMMA OutsideStream ==
  ASSUME Kind # "message", TypeInv, TypeInv', IsrEndsIdle, StreamInv,
         CallStart \/ FromISR \/ Others
  PROVE  StreamInv' /\ FifoStep
<1> USE DEF TypeInv, StreamInv
<1>1. ASSUME NEW n \in Sizes, NEW w \in Waits, SendStart(n, w) PROVE StreamInv' /\ FifoStep
  <2>1. /\ xHead' = xHead /\ xTail' = xTail /\ Buffer' = Buffer /\ nextByte' = nextByte
        /\ delivered' = delivered /\ pc'[Receiver] = pc[Receiver] /\ rxData' = rxData
        /\ xBytesAvailable' = xBytesAvailable /\ xSpace' = 0 /\ pc'[Sender] \in {"look", "check"}
    BY <1>1 DEF SendStart, bufferVars, history, Goto, TypeOK, Ends, Sender, Receiver
  <2>2. /\ BytesInBuffer' = BytesInBuffer /\ SpacesAvailable' = SpacesAvailable
        /\ CellsKept /\ Bytes' = Bytes
    BY <2>1, RingStays
  <2>3. BytesInBuffer' >= BytesInBuffer
    BY <2>2, FillTypes
  <2>4. 0 <= SpacesAvailable
    BY FillAndSpace, StreamBufferAssumption DEF TypeOK, Capacity
  <2>5. FillThere' /\ DataThere'
    BY <2>1, <2>2, <2>3, ReceiverKept
  <2> QED
    BY <2>1, <2>2, <2>4, <2>5, Stutters DEF SpaceThere, CopiedAhead
<1>2. ASSUME NEW n \in Sizes, NEW w \in Waits, ReceiveStart(n, w) PROVE StreamInv' /\ FifoStep
  <2>1. /\ xHead' = xHead /\ xTail' = xTail /\ Buffer' = Buffer /\ nextByte' = nextByte
        /\ delivered' = delivered /\ pc'[Sender] = pc[Sender] /\ size'[Sender] = size[Sender]
        /\ xSpace' = xSpace /\ pc'[Receiver] \in {"look", "check"}
    BY <1>2 DEF ReceiveStart, bufferVars, history, Goto, TypeOK, Ends, Sender, Receiver
  <2>2. SpacesAvailable' = SpacesAvailable /\ Bytes' = Bytes
    BY <2>1, RingStays
  <2>3. SpacesAvailable' >= SpacesAvailable
    BY <2>2, FillTypes
  <2>4. SpaceThere' /\ CopiedAhead'
    BY <2>1, <2>3, SenderKept
  <2> QED
    BY <2>1, <2>2, <2>4, Stutters DEF FillThere, DataThere
<1>3. ASSUME NEW w \in Sizes, SendFromISR(w) PROVE StreamInv' /\ FifoStep
  <2> DEFINE n == Accepted(w, SpacesAvailable)
  <2>1. /\ Sender \in IsrEnds /\ n > 0 /\ Buffer' = Written(n) /\ xHead' = Advance(xHead, Header + n)
        /\ nextByte' = (nextByte + n) % ByteValues /\ xTail' = xTail /\ delivered' = delivered
        /\ pc' = pc /\ rxData' = rxData /\ xBytesAvailable' = xBytesAvailable
    BY <1>3 DEF SendFromISR, callVars, localVars
  <2>2. n \in 1 .. SpacesAvailable
    <3>1. w \in Nat /\ SpacesAvailable \in Int
      BY FillTypes, StreamBufferAssumption
    <3>2. n = Minimum(w, SpacesAvailable)
      BY DEF Accepted
    <3> HIDE DEF n
    <3> QED
      BY <2>1, <3>1, <3>2 DEF Minimum
  <2> HIDE DEF n
  <2>3. n \in Nat /\ n \in 0 .. SpacesAvailable /\ n \in 1 .. Capacity
    <3>1. SpacesAvailable \in 0 .. Capacity /\ Capacity \in Int
      BY FillAndSpace, StreamBufferAssumption DEF TypeOK, Capacity
    <3> QED
      BY <2>2, <3>1
  <2>4. Header + n = n
    BY <2>3 DEF Header
  <2>5. /\ \A k \in 0 .. n - 1 : Buffer'[Advance(xHead, k)] = (nextByte + k) % ByteValues
        /\ CellsKept
    BY <2>1, <2>2, WriteCopies
  <2>6. BytesInBuffer' = BytesInBuffer + n
    BY <2>1, <2>3, <2>4, HeadMoves DEF TypeOK
  <2>7. BytesInBuffer' >= BytesInBuffer
    BY <2>3, <2>6, FillTypes
  <2>8. FillThere' /\ DataThere'
    BY <2>1, <2>5, <2>7, ReceiverKept
  <2>9. Bytes' = Bytes \o NextBytes(n)
    BY <2>1, <2>2, <2>4, <2>5, BytesJoin
  <2>10. pc'[Sender] = "idle"
    BY <2>1 DEF IsrEndsIdle
  <2> QED
    BY <2>1, <2>3, <2>8, <2>9, <2>10, Writes DEF SpaceThere, CopiedAhead
<1>4. ASSUME NEW w \in Sizes, ReceiveFromISR(w) PROVE StreamInv' /\ FifoStep
  <2> DEFINE n == Readable(w, BytesInBuffer)
  <2>1. /\ Receiver \in IsrEnds /\ n > 0 /\ delivered' = BytesAt(Advance(xTail, Header), n)
        /\ xTail' = Advance(xTail, Header + n) /\ xHead' = xHead /\ Buffer' = Buffer
        /\ nextByte' = nextByte /\ pc' = pc /\ size' = size /\ xSpace' = xSpace
    BY <1>4 DEF ReceiveFromISR, callVars, localVars
  <2>2. n \in 1 .. BytesInBuffer
    <3>1. w \in Nat /\ BytesInBuffer \in Int
      BY FillTypes, StreamBufferAssumption
    <3>2. n = Minimum(w, BytesInBuffer - 0)
      BY DEF Readable, Header
    <3> HIDE DEF n
    <3> QED
      BY <2>1, <3>1, <3>2 DEF Minimum
  <2> HIDE DEF n
  <2>3. n \in Nat /\ n \in 0 .. BytesInBuffer
    BY <2>2, FillTypes
  <2>4. Header + n = n
    BY <2>3 DEF Header
  <2>5. Advance(xTail, Header) = xTail
    BY StreamBufferAssumption DEF Header, Advance, TypeOK, Index
  <2>6. SpacesAvailable' = SpacesAvailable + n
    BY <2>1, <2>3, <2>4, TailMoves DEF TypeOK
  <2>7. SpacesAvailable' >= SpacesAvailable
    BY <2>3, <2>6, FillTypes
  <2>8. SpaceThere' /\ CopiedAhead'
    BY <2>1, <2>7, SenderKept
  <2>9. delivered' = SubSeq(Bytes, 1, n) /\ n \in 1 .. Len(Bytes)
    BY <2>1, <2>2, <2>5, ReadTakes
  <2>10. Bytes' = SubSeq(Bytes, n + 1, Len(Bytes))
    BY <2>1, <2>2, <2>4, BytesLeave
  <2>11. pc'[Receiver] = "idle"
    BY <2>1 DEF IsrEndsIdle
  <2> QED
    BY <2>1, <2>8, <2>9, <2>10, <2>11, Reads DEF FillThere, DataThere
<1>5. ASSUME \/ \E t \in Ends : CompletedCall(t) \/ NotifyFromElsewhere(t)
             \/ \E level \in Sizes : SetTriggerLevel(level)
      PROVE  StreamInv' /\ FifoStep
  <2>1. /\ xHead' = xHead /\ xTail' = xTail /\ Buffer' = Buffer /\ nextByte' = nextByte
        /\ delivered' = delivered /\ pc' = pc /\ size' = size /\ rxData' = rxData
        /\ xBytesAvailable' = xBytesAvailable /\ xSpace' = xSpace
    BY <1>5 DEF CompletedCall, NotifyFromElsewhere, SetTriggerLevel, bufferVars, callVars,
       localVars, history
  <2> QED
    BY <2>1, Untouched
<1>6. ASSUME Reset PROVE StreamInv' /\ FifoStep
  <2>1. /\ pc' = pc /\ xHead' = 0 /\ xTail' = 0 /\ nextByte' = nextByte /\ delivered' = delivered
        /\ xSpace' = xSpace
        /\ \A t \in Ends : pc[t] \in {"idle", "check", "wait", "blocked", "clear"}
    BY <1>6 DEF Reset, callVars, localVars, history
  <2>2. BytesInBuffer' = 0 /\ SpacesAvailable' = Capacity
    BY <2>1, StreamBufferAssumption DEF BytesInBuffer, SpacesAvailable, Capacity
  <2>3. Bytes' = <<>>
    <3>1. (Bytes \in Seq(Nat) /\ Len(Bytes) = BytesInBuffer)'
      BY BytesType, PTL
    <3> QED
      BY <2>2, <3>1
  <2>4. SpaceThere'
    BY <2>1, <2>2, StreamBufferAssumption DEF SpaceThere, TypeOK, Capacity
  <2> QED
    BY <2>1, <2>3, <2>4, Clears DEF CopiedAhead, FillThere, DataThere, Ends
<1> QED
  BY <1>1, <1>2, <1>3, <1>4, <1>5, <1>6 DEF CallStart, FromISR, Others

\* The invariant is inductive, and every step is one of the queue's.
LEMMA StreamStep ==
  ASSUME Kind # "message"
  PROVE  TypeInv /\ TypeInv' /\ WakeInv /\ StreamInv /\ [Next]_vars => StreamInv' /\ FifoStep
<1> SUFFICES ASSUME TypeInv, TypeInv', WakeInv, StreamInv, [Next]_vars
             PROVE  StreamInv' /\ FifoStep
  OBVIOUS
<1>1. CASE Next
  BY <1>1, EndStepStream, SendStepStream, ReceiveStepStream, OutsideStream DEF Next, WakeInv
<1>2. CASE UNCHANGED vars
  <2>1. /\ xHead' = xHead /\ xTail' = xTail /\ Buffer' = Buffer /\ nextByte' = nextByte
        /\ delivered' = delivered /\ pc' = pc /\ size' = size /\ rxData' = rxData
        /\ xBytesAvailable' = xBytesAvailable /\ xSpace' = xSpace
    BY <1>2 DEF vars, bufferVars, callVars, localVars, history
  <2> QED
    BY <2>1, Untouched
<1> QED
  BY <1>1, <1>2

\* A stream or batching buffer is a queue of bytes, for every length, trigger level and mix of
\* tasks and ISRs, however the copies of the two ends overlap: what is received is what was sent,
\* in order, each byte once.
THEOREM StreamsInOrder == ASSUME Kind # "message" PROVE Spec => BytesInOrder
<1>1. Init => StreamInv
  BY StreamBufferAssumption
     DEF Init, StreamInv, SpaceThere, CopiedAhead, FillThere, DataThere, Ends
<1>2. Init => Fifo!Init
  <2> SUFFICES ASSUME Init PROVE Fifo!Init
    OBVIOUS
  <2>1. BytesInBuffer = 0
    BY StreamBufferAssumption DEF Init, BytesInBuffer
  <2>2. TypeOK
    BY TypeInvInit DEF TypeInv
  <2>3. Bytes = <<>>
    BY <2>1, <2>2, BytesType
  <2> QED
    BY <2>3, ContentsAreBytes DEF Init, Fifo!Init
<1> QED
  BY <1>1, <1>2, StreamStep, TypeInvInit, TypeInvStep, WakeInvInit, WakeInvStep, PTL
     DEF Spec, BytesInOrder, Fifo!Spec, FifoStep
=============================================================================
