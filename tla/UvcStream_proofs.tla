---------------------------- MODULE UvcStream_proofs ----------------------------
(***************************************************************************)
(* Proofs about UvcStream, for any number of transfers and of frames: the  *)
(* frame id keeps neighbouring frames apart, the handle is freed in        *)
(* silence, no thread waits for what nobody will do, and the stream hands  *)
(* over frames as LatestFrame says.                                        *)
(***************************************************************************)
EXTENDS UvcStream, TLAPS

\* What a swap makes of the buffers, and a callback of the transfers.
LEMMA SwapTypes ==
  ASSUME TypeOK, NEW STATE parts, parts \in SUBSET Frames, SwapBuffers(parts)
  PROVE  hold' \in Holds /\ seq' \in Nat /\ bfh_err' \in BOOLEAN /\ cb' \in Callers
  <1>1. hold' \in Holds
    <2>1. seq \in Nat /\ bfh_err \in BOOLEAN
      BY DEF TypeOK
    <2>2. [seq |-> seq, parts |-> parts, err |-> bfh_err] \in Holds
      BY <2>1 DEF Holds
    <2>3. QED
      BY <2>2 DEF SwapBuffers
  <1>2. seq' \in Nat /\ bfh_err' \in BOOLEAN
    <2>1. seq' = seq + 1 /\ bfh_err' = FALSE
      BY DEF SwapBuffers
    <2>2. seq \in Nat
      BY DEF TypeOK
    <2>3. seq' \in Nat
      BY <2>1, <2>2
    <2>4. bfh_err' \in BOOLEAN
      BY <2>1
    <2>5. QED
      BY <2>3, <2>4
  <1>3. cb' \in Callers
    BY DEF TypeOK, SwapBuffers, Woken, Callers
  <1>4. QED
    BY <1>1, <1>2, <1>3

LEMMA BackTypes ==
  ASSUME TypeOK, NEW t \in Transfers, NEW next \in {"data", "decide"},
         NEW p \in Packets \cup {NoPacket}, NEW again \in BOOLEAN,
         CalledBack(t, next, p, again)
  PROVE  transfers' \in [Transfers -> Places] /\ ev' \in Events
  BY DEF TypeOK, CalledBack, Places, Events

\* The variables keep their types.
THEOREM TypeCorrect == Spec => []TypeOK
  <1>1. ASSUME Init PROVE TypeOK
    <2>1. ev \in Events /\ cb \in Callers /\ transfers \in [Transfers -> Places]
      BY <1>1 DEF Init, Idle, Events, Callers, Places
    <2>2. hold \in Holds /\ frame \in Nat
      BY <1>1 DEF Init, Holds
    <2>3. /\ seq \in Nat /\ last_seq \in Nat /\ shown \in Nat
          /\ fid \in 0 .. 1 /\ cam \in 1 .. MaxFrames + 1
      BY <1>1, StreamAssumption DEF Init
    <2>4. /\ outbuf \in SUBSET Frames /\ bfh_err \in BOOLEAN /\ running \in BOOLEAN
          /\ gone \in BOOLEAN /\ failed \in BOOLEAN /\ isochronous \in BOOLEAN
      BY <1>1 DEF Init
    <2>5. QED
      BY <1>1, <2>1, <2>2, <2>3, <2>4 DEF Init, TypeOK
  <1>2. ASSUME TypeOK, [Next]_vars PROVE TypeOK'
    <2> USE <1>2, StreamAssumption
    <2>1. CASE UNCHANGED vars
      BY <2>1 DEF TypeOK, vars, working, user
    <2>2. CASE Starting
      <3>1. CASE StartRefused \/ StartStream \/ SubmitFails
        BY <3>1 DEF TypeOK, StartRefused, StartStream, SubmitFails, Places, Callers, working, user
      <3>2. ASSUME NEW t \in Transfers, Submit(t) PROVE TypeOK'
        BY <3>2 DEF TypeOK, Submit, Places, working, user
      <3>3. QED
        BY <2>2, <3>1, <3>2 DEF Starting
    <2>3. CASE Close \/ Closing
      BY <2>3, ZenonT(60)
         DEF TypeOK, Close, Closing, Stop, Drained, Join, Free, Woken, Callers, working, user
    <2>4. CASE ProcessData
      <3> DEFINE p     == ev.packet
                 parts == IF p.data THEN outbuf \cup {p.frame} ELSE outbuf
      <3>1. parts \in SUBSET Frames
        <4>1. p \in Packets \cup {NoPacket} /\ outbuf \in SUBSET Frames
          BY DEF TypeOK, Events
        <4>2. p.data => p.frame \in Frames
          BY <4>1 DEF Packets, NoPacket
        <4>3. QED
          BY <4>1, <4>2
      <3>2. ev' \in Events
        BY <2>4 DEF TypeOK, ProcessData, Events
      <3>3. /\ UNCHANGED <<isochronous, running, transfers, ctl, fid, last_seq, frame,
                           shown, cam, gone, failed>>
            /\ \/ SwapBuffers(parts) /\ outbuf' = {}
               \/ KeepBuffers /\ outbuf' = parts
        BY <2>4 DEF ProcessData
      <3>4. CASE SwapBuffers(parts) /\ outbuf' = {}
        BY <3>1, <3>2, <3>3, <3>4, SwapTypes DEF TypeOK
      <3>5. CASE KeepBuffers /\ outbuf' = parts
        BY <3>1, <3>2, <3>3, <3>5 DEF TypeOK, KeepBuffers
      <3>6. QED
        BY <3>3, <3>4, <3>5
    <2>5. CASE Decide \/ Resubmit \/ ResubmitFails \/ DeleteTransfer
      <3>1. ev' \in Events
        <4>1. Idle \in Events
          BY DEF Idle, Events
        <4>2. CASE Decide
          BY <4>2 DEF TypeOK, Decide, Events
        <4>3. CASE Resubmit \/ ResubmitFails \/ DeleteTransfer
          BY <4>1, <4>3 DEF Resubmit, ResubmitFails, DeleteTransfer
        <4>4. QED
          BY <2>5, <4>2, <4>3
      <3>2. transfers' \in [Transfers -> Places]
        BY <2>5 DEF TypeOK, Decide, Resubmit, ResubmitFails, DeleteTransfer, Becomes, Places
      <3>3. cb' \in Callers
        BY <2>5 DEF TypeOK, Decide, Resubmit, ResubmitFails, DeleteTransfer, Woken, Callers,
                    user
      <3>4. UNCHANGED <<isochronous, running, ctl, working, hold, last_seq, frame,
                        shown, cam, gone, failed>>
        BY <2>5 DEF Decide, Resubmit, ResubmitFails, DeleteTransfer, user
      <3>5. QED
        BY <3>1, <3>2, <3>3, <3>4 DEF TypeOK, working
    <2>6. CASE Caller \/ Unplug
      <3>1. cb' \in Callers
        BY <2>6 DEF TypeOK, Caller, Sleep, EndThread, Take, CallUser, Unplug, Callers, user
      <3>2. hold.seq \in Nat /\ hold.err \in BOOLEAN /\ frame \in Nat
        BY DEF TypeOK, Holds
      <3>3. [seq |-> hold.seq, err |-> hold.err] \in [seq : Nat, err : BOOLEAN]
        BY <3>2
      <3>4. frame' \in Nat
        BY <2>6, <3>3 DEF TypeOK, Caller, Sleep, EndThread, Take, CallUser, Unplug, Populate,
                          user
      <3>5. last_seq' \in Nat /\ shown' \in Nat
        BY <2>6, <3>2 DEF TypeOK, Caller, Sleep, EndThread, Take, CallUser, Unplug, user
      <3>6. gone' \in BOOLEAN
        BY <2>6 DEF TypeOK, Caller, Sleep, EndThread, Take, CallUser, Unplug
      <3>7. UNCHANGED <<isochronous, running, transfers, ctl, ev, working, hold, cam, failed>>
        BY <2>6 DEF Caller, Sleep, EndThread, Take, CallUser, Unplug
      <3>8. QED
        BY <3>1, <3>4, <3>5, <3>6, <3>7 DEF TypeOK, working
    <2>7. ASSUME NEW t \in Transfers, NEW p \in Packets, Completed(t, p)
          PROVE  TypeOK'
      <3>1. CalledBack(t, "data", p, TRUE)
        BY <2>7 DEF Completed
      <3>2. cam' \in 1 .. MaxFrames + 1 /\ fid' \in 0 .. 1
        BY <2>7 DEF Completed, Packets, Frames, FidOf
      <3>3. /\ UNCHANGED <<isochronous, running, ctl, last_seq, frame, shown, gone,
                           failed>>
            /\ \/ SwapBuffers(outbuf) /\ outbuf' = {}
               \/ KeepBuffers /\ UNCHANGED outbuf
        BY <2>7 DEF Completed
      <3>4. outbuf \in SUBSET Frames
        BY DEF TypeOK
      <3>5. CASE SwapBuffers(outbuf) /\ outbuf' = {}
        BY <3>1, <3>2, <3>3, <3>4, <3>5, BackTypes, SwapTypes, ZenonT(60) DEF TypeOK
      <3>6. CASE KeepBuffers /\ UNCHANGED outbuf
        BY <3>1, <3>2, <3>3, <3>6, BackTypes, ZenonT(60) DEF TypeOK, KeepBuffers
      <3>7. QED
        BY <3>3, <3>5, <3>6
    <2>8. ASSUME NEW t \in Transfers, Broken(t) \/ Retried(t) \/ GivenUp(t) \/ NoDevice(t)
          PROVE  TypeOK'
      <3>1. \E again \in BOOLEAN : CalledBack(t, "decide", NoPacket, again)
        BY <2>8 DEF Broken, Retried, GivenUp, NoDevice
      <3>2. QED
        BY <2>8, <3>1, BackTypes, ZenonT(60) DEF TypeOK, Broken, Retried, GivenUp, NoDevice, working, user
    <2>9. QED
      BY <2>1, <2>2, <2>3, <2>4, <2>5, <2>6, <2>7, <2>8
         DEF Next, Callback, Answered
  <1>3. QED
    BY <1>1, <1>2, PTL DEF Spec

-------------------------------------------------------------------------------
(* The frame id. *)

\* All data in a buffer is of frames with the same frame id, which is fid for the
\* buffer that is filled.
Parity ==
  /\ \A n \in outbuf : FidOf(n) = fid
  /\ ev.at = "data" /\ ev.packet.data => FidOf(ev.packet.frame) = fid
  /\ \A i, j \in hold.parts : FidOf(i) = FidOf(j)

LEMMA ParityStep ==
  ASSUME TypeOK, Parity, [Next]_vars PROVE Parity'
  <1>1. CASE UNCHANGED <<ev, fid, outbuf, hold>>
    BY <1>1 DEF Parity, FidOf
  <1>2. ASSUME NEW t \in Transfers, NEW p \in Packets, Completed(t, p)
        PROVE  Parity'
    <2>1. fid' = FidOf(p.frame) /\ ev'.packet = p
      BY <1>2 DEF Completed, CalledBack
    <2>2. CASE FidFlipped(p)
      <3>1. outbuf' = {} /\ hold'.parts = outbuf
        BY <1>2, <2>2 DEF Completed, SwapBuffers
      <3>2. QED
        BY <2>1, <3>1 DEF Parity, FidOf
    <2>3. CASE ~FidFlipped(p)
      <3>1. outbuf' = outbuf /\ hold' = hold
        BY <1>2, <2>3 DEF Completed, KeepBuffers
      <3>2. fid' = fid \/ outbuf = {}
        BY <2>1, <2>3 DEF FidFlipped
      <3>3. QED
        BY <2>1, <3>1, <3>2 DEF Parity, FidOf
    <2>4. QED
      BY <2>2, <2>3
  <1>3. CASE ProcessData
    <2> DEFINE p     == ev.packet
               parts == IF p.data THEN outbuf \cup {p.frame} ELSE outbuf
    <2>1. fid' = fid /\ ev'.at = "decide" /\ ev.at = "data"
      BY <1>3 DEF ProcessData
    <2>2. \A n \in parts : FidOf(n) = fid
      BY <2>1 DEF Parity
    <2>3. \/ outbuf' = {} /\ hold'.parts = parts
          \/ outbuf' = parts /\ hold' = hold
      BY <1>3 DEF ProcessData, SwapBuffers, KeepBuffers
    <2> HIDE DEF parts
    <2>4. QED
      BY <2>1, <2>2, <2>3 DEF Parity, FidOf
  <1>4. CASE UNCHANGED <<fid, outbuf, hold>> /\ ev'.at # "data"
    BY <1>4 DEF Parity, FidOf
  <1>5. ASSUME NEW t \in Transfers, Broken(t) \/ Retried(t) \/ GivenUp(t) \/ NoDevice(t)
        PROVE  Parity'
    BY <1>4, <1>5 DEF Broken, Retried, GivenUp, NoDevice, CalledBack, working
  <1>6. CASE Resubmit \/ ResubmitFails \/ DeleteTransfer
    BY <1>4, <1>6 DEF Resubmit, ResubmitFails, DeleteTransfer, Idle, working
  <1>7. CASE Decide
    <2>1. ev'.at \in {"submit", "delete"}
      BY <1>7 DEF TypeOK, Events, Decide
    <2>2. QED
      BY <1>4, <1>7, <2>1 DEF Decide, working
  <1>8. CASE UNCHANGED vars \/ Starting \/ Close \/ Closing \/ Caller \/ Unplug
    BY <1>1, <1>8 DEF vars, working, Starting, StartRefused, StartStream, Submit, SubmitFails,
       Close, Closing, Stop, Drained, Join, Free, Caller, Sleep, EndThread, Take, CallUser,
       Unplug
  <1>9. QED
    BY <1>2, <1>3, <1>5, <1>6, <1>7, <1>8 DEF Next, Callback, Answered

\* However many packets are lost, no frame that is handed over holds data of two
\* frames that follow each other: the frame id that _uvc_process_payload compares
\* tells them apart.
THEOREM FramesStayApart == Spec => []NeighboursApart
  <1>1. Init => Parity
    BY DEF Init, Parity, Idle, NoPacket
  <1>2. TypeOK /\ Parity /\ [Next]_vars => Parity'
    BY ParityStep
  <1>3. TypeOK /\ Parity => NeighboursApart
    <2> SUFFICES ASSUME TypeOK, Parity, NEW n \in hold.parts, n + 1 \in hold.parts
                 PROVE  FALSE
      BY DEF NeighboursApart
    <2>1. n \in Nat
      BY DEF TypeOK, Holds, Frames
    <2>2. n % 2 = (n + 1) % 2
      BY DEF Parity, FidOf
    <2>3. QED
      BY <2>1, <2>2
  <1>4. QED
    BY <1>1, <1>2, <1>3, TypeCorrect, PTL DEF Spec

-------------------------------------------------------------------------------
(* What the user's thread is given. *)

\* Only Take copies a frame, and CallUser gives it to the user.
LEMMA FrameStep ==
  ASSUME [Next]_vars
  PROVE  \/ UNCHANGED <<frame, shown>>
         \/ Take
         \/ CallUser
  <1>1. CASE UNCHANGED vars \/ Starting \/ Close \/ Closing \/ Unplug \/ Sleep \/ EndThread
    BY <1>1 DEF vars, user, Starting, StartRefused, StartStream, Submit, SubmitFails,
       Close, Closing, Stop, Drained, Join, Free, Sleep, EndThread, Unplug
  <1>2. CASE Callback
    BY <1>2 DEF Callback, ProcessData, Decide, Resubmit, ResubmitFails, DeleteTransfer, user
  <1>3. ASSUME NEW t \in Transfers, Answered(t) PROVE UNCHANGED <<frame, shown>>
    BY <1>3 DEF Answered, Completed, Broken, Retried, GivenUp, NoDevice, user
  <1>4. QED
    BY <1>1, <1>2, <1>3 DEF Next, Caller

\* The numbers: of the frame that is filled, the one that is held, the one that
\* was copied and the one the user has seen.
Order ==
  /\ seq = hold.seq + 1 \/ (seq = 0 /\ hold.seq = 0)
  /\ shown <= frame /\ frame <= hold.seq

\* The frame that is held changes by a swap only.
LEMMA HoldStep ==
  ASSUME [Next]_vars
  PROVE  \/ UNCHANGED <<hold, seq>>
         \/ hold'.seq = seq /\ seq' = seq + 1 /\ UNCHANGED <<frame, shown>>
  <1>1. CASE UNCHANGED vars \/ Starting \/ Close \/ Closing \/ Unplug \/ Caller
    BY <1>1 DEF vars, working, Starting, StartRefused, StartStream, Submit, SubmitFails,
       Close, Closing, Stop, Drained, Join, Free, Caller, Sleep, EndThread, Take, CallUser,
       Unplug
  <1>2. CASE ProcessData
    BY <1>2 DEF ProcessData, SwapBuffers, KeepBuffers
  <1>3. CASE Decide \/ Resubmit \/ ResubmitFails \/ DeleteTransfer
    BY <1>3 DEF Decide, Resubmit, ResubmitFails, DeleteTransfer, working
  <1>4. ASSUME NEW t \in Transfers, NEW p \in Packets, Completed(t, p)
        PROVE  \/ UNCHANGED <<hold, seq>>
               \/ hold'.seq = seq /\ seq' = seq + 1 /\ UNCHANGED <<frame, shown>>
    BY <1>4 DEF Completed, SwapBuffers, KeepBuffers
  <1>5. ASSUME NEW t \in Transfers, Broken(t) \/ Retried(t) \/ GivenUp(t) \/ NoDevice(t)
        PROVE  UNCHANGED <<hold, seq>>
    BY <1>5 DEF Broken, Retried, GivenUp, NoDevice, working
  <1>6. QED
    BY <1>1, <1>2, <1>3, <1>4, <1>5 DEF Next, Callback, Answered

LEMMA OrderStep ==
  ASSUME TypeOK, Order, [Next]_vars PROVE Order' /\ [Handed!Next]_(Handed!vars)
  <1>1. /\ seq \in Nat /\ hold.seq \in Nat /\ frame \in Nat /\ shown \in Nat
    BY DEF TypeOK, Holds
  <1>2. CASE UNCHANGED <<hold, seq, frame, shown>>
    BY <1>2 DEF Order, Handed!vars
  <1>3. CASE hold'.seq = seq /\ seq' = seq + 1 /\ UNCHANGED <<frame, shown>>
    <2>1. Order'
      BY <1>1, <1>3 DEF Order
    <2>2. UNCHANGED <<hold.seq, shown>> \/ (hold'.seq \in Nat /\ hold'.seq > hold.seq)
      BY <1>1, <1>3 DEF Order
    <2>3. QED
      BY <1>3, <2>1, <2>2 DEF Handed!vars, Handed!Next, Handed!Make
  <1>4. CASE Take /\ UNCHANGED <<hold, seq>>
    <2>1. UNCHANGED shown /\ (frame' \in {frame, hold.seq})
      BY <1>4 DEF Take, Populate
    <2>2. QED
      BY <1>1, <1>4, <2>1 DEF Order, Handed!vars
  <1>5. CASE CallUser /\ UNCHANGED <<hold, seq>>
    <2>1. UNCHANGED frame /\ shown' \in {shown, frame}
      BY <1>5 DEF CallUser
    <2>2. Order'
      BY <1>1, <1>5, <2>1 DEF Order
    <2>3. shown' \in shown .. hold.seq
      BY <1>1, <2>1 DEF Order
    <2>4. QED
      BY <1>5, <2>2, <2>3 DEF Handed!vars, Handed!Next, Handed!Show
  <1>6. QED
    BY <1>2, <1>3, <1>4, <1>5, FrameStep, HoldStep

\* The stream hands over frames as LatestFrame says: never an older one after a
\* newer one, and none whose number was not given yet.
THEOREM RelaysFrames == Spec => Relays
  <1>1. Init => Order /\ Handed!Init
    BY DEF Init, Order, Handed!Init
  <1>2. TypeOK /\ Order /\ [Next]_vars => Order' /\ [Handed!Next]_(Handed!vars)
    BY OrderStep
  <1>3. QED
    BY <1>1, <1>2, TypeCorrect, PTL DEF Spec, Relays, Handed!Spec

-------------------------------------------------------------------------------
(* The end of the stream. *)

\* Where the transfers and the threads are.  An answer that is worked on holds a
\* transfer; a stream that is not open yet, or failed before it had transfers, has
\* nothing; a stream that is on runs; one that is joined has no transfers.
Quiet == AllDeleted /\ cb \in {"none", "ended"}

Phases ==
  /\ ev.at # "idle" => \E t \in Transfers : transfers[t] = "back"
  /\ ctl = "open" => AllDeleted /\ cb = "none" /\ ~running
  /\ ctl \in {"submit", "on", "stop"} /\ ~gone => running
  /\ ctl = "failed" => ~running
  /\ ctl = "failed" /\ ~failed => AllDeleted /\ cb = "none"
  /\ ctl = "join" => AllDeleted
  /\ ctl \in {"free", "freed"} /\ ~gone /\ ~failed => Quiet

LEMMA PhasesStep ==
  ASSUME TypeOK, Phases, [Next]_vars PROVE Phases'
  <1> USE DEF Quiet, AllDeleted
  <1>1. CASE UNCHANGED vars
    BY <1>1 DEF Phases, vars, user
  <1>2. CASE StartRefused
    BY <1>2 DEF Phases, StartRefused, user
  <1>3. CASE StartStream
    <2>1. ev.at = "idle"
      BY <1>3 DEF Phases, StartStream
    <2>2. QED
      BY <1>3, <2>1 DEF Phases, StartStream
  <1>4. CASE SubmitFails
    BY <1>4 DEF Phases, SubmitFails, user
  <1>5. ASSUME NEW t \in Transfers, Submit(t) PROVE Phases'
    <2>1. \A u \in Transfers : transfers[u] = "back" => transfers'[u] = "back"
      BY <1>5 DEF TypeOK, Submit
    <2>2. QED
      BY <1>5, <2>1 DEF Phases, Submit, user
  <1>6. CASE Close
    BY <1>6 DEF Phases, Close, user
  <1>7. CASE Stop
    BY <1>7 DEF Phases, Stop, user
  <1>8. CASE Drained
    BY <1>8 DEF Phases, Drained
  <1>9. CASE Join
    BY <1>9 DEF Phases, Join, user
  <1>10. CASE Free
    BY <1>10 DEF Phases, Free, user
  <1>11. CASE Unplug
    BY <1>11 DEF Phases, Unplug, user
  <1>12. CASE Caller
    BY <1>12 DEF Phases, Caller, Sleep, EndThread, Take, CallUser
  <1>13. CASE ProcessData
    <2>1. ev.at = "data" /\ UNCHANGED <<transfers, ctl, running, gone, failed>>
      BY <1>13 DEF ProcessData
    <2>2. cb' \in {cb, Woken}
      BY <1>13 DEF ProcessData, SwapBuffers, KeepBuffers
    <2>3. QED
      BY <2>1, <2>2 DEF Phases, Woken
  <1>14. CASE Decide
    BY <1>14 DEF Phases, Decide, user
  <1>15. CASE Resubmit \/ ResubmitFails \/ DeleteTransfer
    <2>1. /\ ev'.at = "idle" /\ ev.at # "idle"
          /\ UNCHANGED <<ctl, running, gone, failed>> /\ cb' \in {cb, Woken}
      BY <1>15 DEF Resubmit, ResubmitFails, DeleteTransfer, Idle, user
    <2>2. \E t \in Transfers : transfers[t] = "back"
      BY <2>1 DEF Phases
    <2>3. QED
      BY <2>1, <2>2 DEF Phases, Woken
  <1>16. ASSUME NEW t \in Transfers, NEW p \in Packets, Completed(t, p)
         PROVE  Phases'
    <2>1. transfers[t] = "flying" /\ transfers'[t] = "back"
      BY <1>16 DEF Completed, CalledBack, TypeOK
    <2>2. UNCHANGED <<ctl, running, gone, failed>> /\ cb' \in {cb, Woken}
      BY <1>16 DEF Completed, SwapBuffers, KeepBuffers
    <2>3. QED
      BY <2>1, <2>2 DEF Phases, Woken
  <1>17. ASSUME NEW t \in Transfers, Broken(t) \/ Retried(t) \/ GivenUp(t) \/ NoDevice(t)
         PROVE  Phases'
    <2>1. transfers[t] = "flying" /\ transfers'[t] = "back"
      BY <1>17 DEF Broken, Retried, GivenUp, NoDevice, CalledBack, TypeOK
    <2>2. /\ UNCHANGED <<ctl, gone, failed, cb>>
          /\ UNCHANGED running \/ (gone /\ ~running')
      BY <1>17 DEF Broken, Retried, GivenUp, NoDevice, user
    <2>3. QED
      BY <2>1, <2>2 DEF Phases
  <1>18. QED
    BY <1>1, <1>2, <1>3, <1>4, <1>5, <1>6, <1>7, <1>8, <1>9, <1>10, <1>11, <1>12, <1>13,
       <1>14, <1>15, <1>16, <1>17 DEF Next, Starting, Closing, Callback, Answered

\* As long as the camera is there and every transfer could be submitted, nothing
\* uses the handle any more when uvc_stream_close frees it.
THEOREM FreedInSilence == Spec => []QuietWhenFreed
  <1>1. Init => Phases
    BY DEF Init, Phases, Quiet, AllDeleted, Idle
  <1>2. TypeOK /\ Phases /\ [Next]_vars => Phases'
    BY PhasesStep
  <1>3. Phases => QuietWhenFreed
    BY DEF Phases, QuietWhenFreed, Quiet, AllDeleted
  <1>4. QED
    BY <1>1, <1>2, <1>3, TypeCorrect, PTL DEF Spec

-------------------------------------------------------------------------------
(* Who waits is woken. *)

\* A transfer that was called back is worked on; from the start on all transfers have
\* been submitted; a stream runs neither before it is started nor
\* while whoever closes it waits.
WakeInv ==
  /\ cb = "asleep" /\ Alive /\ ~running /\ ~failed
       => ctl = "drain" \/ ev.at \in {"decide", "delete"}
  /\ \A t \in Transfers : transfers[t] = "back" => ev.at # "idle"
  /\ ctl \in {"on", "stop", "drain"} => \A t \in Transfers : transfers[t] # "ready"
  /\ ctl \in {"open", "failed", "drain", "join"} => ~running
  /\ ctl = "join" => cb # "asleep"

LEMMA WakeStep ==
  ASSUME TypeOK, WakeInv, [Next]_vars PROVE WakeInv'
  <1> USE DEF Alive
  <1>0. cb \in Callers /\ ctl # "none" /\ transfers \in [Transfers -> Places]
    BY DEF TypeOK
  <1>1. ASSUME UNCHANGED <<transfers, ctl, ev>>, failed => failed',
               running' = running, cb' = cb \/ cb' # "asleep"
        PROVE  WakeInv'
    BY <1>1 DEF WakeInv
  <1>2. CASE UNCHANGED vars \/ Unplug
    BY <1>1, <1>2 DEF vars, Unplug, user
  <1>3. CASE EndThread \/ Take \/ CallUser
    BY <1>1, <1>3 DEF EndThread, Take, CallUser
  <1>4. CASE Sleep
    BY <1>4 DEF WakeInv, Sleep
  <1>5. CASE StartRefused
    BY <1>5 DEF WakeInv, StartRefused, user
  <1>6. CASE StartStream
    BY <1>6 DEF WakeInv, StartStream, user
  <1>7. CASE SubmitFails
    BY <1>7 DEF WakeInv, SubmitFails, user
  <1>8. ASSUME NEW t \in Transfers, Submit(t) PROVE WakeInv'
    <2>1. /\ ctl = "submit" /\ ctl' \in {"submit", "on"}
          /\ \A u \in Transfers : transfers'[u] = IF u = t THEN "flying" ELSE transfers[u]
          /\ UNCHANGED <<running, ev, cb, failed>>
      BY <1>0, <1>8 DEF Submit, user
    <2>2. ctl' = "on" => \A u \in Transfers \ {t} : transfers[u] # "ready"
      BY <1>8 DEF Submit
    <2>3. QED
      BY <2>1, <2>2 DEF WakeInv
  <1>9. CASE Close
    BY <1>9 DEF WakeInv, Close, user
  <1>10. CASE Stop
    BY <1>10 DEF WakeInv, Stop, user
  <1>11. CASE Drained
    BY <1>11 DEF WakeInv, Drained, Woken
  <1>12. CASE Join \/ Free
    BY <1>12 DEF WakeInv, Join, Free, user
  <1>13. CASE ProcessData
    <2>1. /\ ev'.at = "decide" /\ UNCHANGED <<transfers, ctl, running, failed>>
          /\ cb' = cb \/ cb' # "asleep"
      BY <1>13 DEF ProcessData, SwapBuffers, KeepBuffers, Woken
    <2>2. QED
      BY <2>1 DEF WakeInv
  <1>14. CASE Decide
    <2>1. /\ ev.at = "decide" /\ ev'.at \in {"submit", "delete"}
          /\ ev'.at = "submit" => running
          /\ UNCHANGED <<transfers, ctl, running, cb, failed>>
      BY <1>14 DEF Decide, Again, TypeOK, Events, user
    <2>2. QED
      BY <2>1 DEF WakeInv
  <1>15. CASE Resubmit \/ ResubmitFails \/ DeleteTransfer
    <2>1. /\ UNCHANGED <<ctl, running, failed>>
          /\ \/ ev.at = "submit" /\ cb' = cb
             \/ cb' # "asleep"
      BY <1>15 DEF Resubmit, ResubmitFails, DeleteTransfer, Woken, user
    <2>2. \A t \in Transfers : transfers'[t] \notin {"back", "ready"} \/ transfers'[t] = transfers[t]
      BY <1>0, <1>15 DEF Resubmit, ResubmitFails, DeleteTransfer, Becomes
    <2>3. \A t \in Transfers : transfers'[t] # "back"
      BY <1>0, <1>15 DEF Resubmit, ResubmitFails, DeleteTransfer, Becomes
    <2>4. QED
      BY <2>1, <2>2, <2>3 DEF WakeInv
  <1>16. ASSUME NEW t \in Transfers, Answered(t) PROVE WakeInv'
    <2>1. /\ ev.at = "idle" /\ ev'.at \in {"data", "decide"}
          /\ \A u \in Transfers : transfers'[u] = IF u = t THEN "back" ELSE transfers[u]
      BY <1>0, <1>16 DEF Answered, Completed, Broken, Retried, GivenUp, NoDevice, CalledBack
    <2>2. UNCHANGED <<ctl, failed>> /\ (cb' = cb \/ cb' # "asleep")
      BY <1>16 DEF Answered, Completed, Broken, Retried, GivenUp, NoDevice, SwapBuffers,
                   KeepBuffers, Woken, user
    <2>3. \/ running' = running
          \/ ~running' /\ ev'.at = "decide"
      BY <1>16 DEF Answered, Completed, Broken, Retried, GivenUp, NoDevice, CalledBack
    <2>4. QED
      BY <2>1, <2>2, <2>3 DEF WakeInv
  <1>17. QED
    BY <1>2, <1>3, <1>4, <1>5, <1>6, <1>7, <1>8, <1>9, <1>10, <1>11, <1>12, <1>13, <1>14,
       <1>15, <1>16 DEF Next, Starting, Closing, Callback, Caller

\* For any number of transfers, whether the camera is unplugged or its answers are lost:
\* the user's thread does not sleep on a stream that has ceased to run unless a callback
\* or uvc_stream_stop will wake it, and uvc_stream_stop waits for what is yet to be
\* answered or deleted (_uvc_stream_callback, _uvc_delete_transfer, uvc_stream_stop).
THEOREM NobodyForgotten == Spec => []WaitersAreWoken
  <1>1. Init => WakeInv
    BY DEF Init, WakeInv, Idle, Alive
  <1>2. TypeOK /\ WakeInv /\ [Next]_vars => WakeInv'
    BY WakeStep
  <1>3. TypeOK /\ WakeInv => WaitersAreWoken
    <2> SUFFICES ASSUME TypeOK, WakeInv, ctl = "drain", ~AllDeleted, ~Dropped, NoneFlies
                 PROVE  ev.at # "idle"
      BY DEF WakeInv, WaitersAreWoken
    <2>1. PICK t \in Transfers : transfers[t] # "none"
      BY DEF AllDeleted
    <2>2. transfers[t] = "back"
      BY <2>1 DEF TypeOK, Places, Dropped, NoneFlies, WakeInv
    <2>3. QED
      BY <2>2 DEF WakeInv
  <1>4. QED
    BY <1>1, <1>2, <1>3, TypeCorrect, PTL DEF Spec
===============================================================================
