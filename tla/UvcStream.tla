------------------------------- MODULE UvcStream --------------------------------
(***************************************************************************)
(* One video stream of libuvc, stream.c, from uvc_start_streaming to       *)
(* uvc_stop_streaming.  Three threads share the handle: the one that       *)
(* starts and closes the stream, the event thread that libusb calls back   *)
(* with each transfer, and the thread that calls the user's function.  The *)
(* two frame buffers, the sequence numbers and the transfers are guarded   *)
(* by cb_mutex; the flag running is not.                                   *)
(*                                                                         *)
(* A section under cb_mutex is one step, and so is what a thread does      *)
(* between two looks at shared state.  A transfer carries one packet, and  *)
(* a packet the frame it belongs to: the camera toggles the frame id bit   *)
(* with each frame.  What a frame contains is the set of the frames its    *)
(* packets belong to.  The handle is not looked at any more once it is     *)
(* freed: what a thread does with it then is not defined.                  *)
(***************************************************************************)
EXTENDS Naturals, FiniteSets

CONSTANTS Transfers,   \* strmh->transfers, LIBUVC_NUM_TRANSFER_BUFS of them
          MaxFrames    \* bound on the frames the camera sends

ASSUME StreamAssumption ==
  /\ Transfers # {} /\ IsFiniteSet(Transfers)
  /\ MaxFrames \in Nat

VARIABLES isochronous,   \* the interface has several altsettings
          running,
          transfers,     \* what has become of each transfer
          ctl,           \* the thread that starts and closes the stream
          ev,            \* the event thread
          cb,            \* _uvc_user_caller
          seq, fid, outbuf, bfh_err,  \* of the event thread only
          hold,          \* holdbuf, hold_seq, hold_bfh_err
          last_seq,
          frame,         \* strmh->frame: the number of the frame last copied
          cam,           \* the frame the camera sends
          gone,          \* the camera is unplugged
          failed,        \* history: a transfer could not be submitted by start
          shown          \* history: the number of the frame last given to the user

working == <<seq, fid, outbuf, bfh_err>>
user    == <<cb, last_seq, frame, shown>>
vars    == <<isochronous, running, transfers, ctl, ev, working, hold,
             user, cam, gone, failed>>

\* A packet that is used: the frame it belongs to, whether it carries image data
\* and the end of the frame.  The error bit changes nothing in a bulk stream.  Every
\* header has the byte with the bits: one that is too short for it, which a bulk
\* stream appends without comparing the frame id, is not among the packets.
Frames  == 1 .. MaxFrames
Packets == [frame : Frames, data : BOOLEAN, eof : BOOLEAN]

NoPacket == [frame |-> 0, data |-> FALSE, eof |-> FALSE]

Events == [at : {"idle", "data", "decide", "submit", "delete"},
           packet : Packets \cup {NoPacket}, again : BOOLEAN]
Holds  == [seq : Nat, parts : SUBSET Frames, err : BOOLEAN]
Places == {"none", "ready", "flying", "back", "dropped"}
Callers == {"none", "look", "asleep", "call", "ended"}

TypeOK ==
  /\ isochronous \in BOOLEAN /\ running \in BOOLEAN
  /\ transfers \in [Transfers -> Places]
  /\ ctl \in {"open", "submit", "on", "failed", "stop", "drain", "join",
              "free", "freed"}
  /\ ev \in Events /\ cb \in Callers
  /\ seq \in Nat /\ fid \in 0 .. 1 /\ outbuf \in SUBSET Frames
  /\ bfh_err \in BOOLEAN
  /\ hold \in Holds
  /\ last_seq \in Nat
  /\ frame \in Nat
  /\ cam \in 1 .. MaxFrames + 1
  /\ gone \in BOOLEAN /\ failed \in BOOLEAN
  /\ shown \in Nat

-------------------------------------------------------------------------------
Alive == ctl # "freed"

Idle == [at |-> "idle", packet |-> NoPacket, again |-> FALSE]

\* The transfer that is called back is what its callback makes of it.
Becomes(what) ==
  transfers' = [t \in Transfers |-> IF transfers[t] = "back" THEN what ELSE transfers[t]]

\* pthread_cond_broadcast(&strmh->cb_cond), and a variant that is left out.
NotWoken == cb
Woken == IF cb = "asleep" THEN "look" ELSE cb

\* UVC_STREAM_FID of a packet, and a variant that does not mask it.
Unmasked(n) == n
FidOf(n) == n % 2

-------------------------------------------------------------------------------
(* The thread that starts the stream. *)

\* uvc_stream_start_bandwidth gives up before it has made anything.
StartRefused ==
  /\ ctl = "open"
  /\ ctl' = "failed"
  /\ UNCHANGED <<isochronous, running, transfers, ev, working, hold, user,
                 cam, gone, failed>>

StartStream ==
  /\ ctl = "open"
  /\ running' = TRUE
  /\ transfers' = [t \in Transfers |-> "ready"]
  /\ cb' = "look"
  /\ ctl' = "submit"
  /\ UNCHANGED <<isochronous, ev, working, hold, last_seq, frame, shown,
                 cam, gone, failed>>

Submit(t) ==
  /\ ctl = "submit" /\ transfers[t] = "ready"
  /\ transfers' = [transfers EXCEPT ![t] = "flying"]
  /\ ctl' = IF \E u \in Transfers \ {t} : transfers[u] = "ready" THEN "submit" ELSE "on"
  /\ UNCHANGED <<isochronous, running, ev, working, hold, user, cam, gone,
                 failed>>

\* The transfers that were submitted go on, nobody is woken.
SubmitFails ==
  /\ ctl = "submit"
  /\ running' = FALSE /\ failed' = TRUE
  /\ ctl' = "failed"
  /\ UNCHANGED <<isochronous, transfers, ev, working, hold, user, cam, gone>>

-------------------------------------------------------------------------------
(* libusb and the event thread. *)

Unplug ==
  /\ Alive /\ ~gone
  /\ gone' = TRUE
  /\ UNCHANGED <<isochronous, running, transfers, ctl, ev, working, hold,
                 user, cam, failed>>

\* The callback of transfer t begins.
CalledBack(t, next, p, again) ==
  /\ Alive /\ ev.at = "idle" /\ transfers[t] = "flying"
  /\ transfers' = [transfers EXCEPT ![t] = "back"]
  /\ ev' = [at |-> next, packet |-> p, again |-> again]

\* _uvc_swap_buffers.
SwapBuffers(parts) ==
  /\ hold' = [seq |-> seq, parts |-> parts, err |-> bfh_err]
  /\ seq' = seq + 1
  /\ bfh_err' = FALSE
  /\ cb' = Woken

KeepBuffers == UNCHANGED <<hold, seq, bfh_err, cb>>

\* The frame id has flipped while there is data of the frame before, and a
\* variant that relies on the end-of-frame bit.
FidIgnored(p) == FALSE
FidFlipped(p) == fid # FidOf(p.frame) /\ outbuf # {}

\* _uvc_process_payload and _uvc_process_payload_iso as far as the header.
Completed(t, p) ==
  /\ ~gone /\ p.frame >= cam
  /\ CalledBack(t, "data", p, TRUE)
  /\ cam' = IF p.eof THEN p.frame + 1 ELSE p.frame
  /\ fid' = FidOf(p.frame)
  /\ IF FidFlipped(p)
     THEN SwapBuffers(outbuf) /\ outbuf' = {}
     ELSE KeepBuffers /\ UNCHANGED outbuf
  /\ UNCHANGED <<isochronous, running, ctl, last_seq, frame, shown, gone, failed>>

\* A packet that is broken spoils the frame.
Broken(t) ==
  /\ ~gone
  /\ CalledBack(t, "decide", NoPacket, TRUE)
  /\ bfh_err' = TRUE
  /\ UNCHANGED <<isochronous, running, ctl, seq, fid, outbuf, hold, user, cam, gone,
                 failed>>

\* The rest of both: the data, and the frame that is complete.
ProcessData ==
  /\ Alive /\ ev.at = "data"
  /\ LET p     == ev.packet
         parts == IF p.data THEN outbuf \cup {p.frame} ELSE outbuf
         ends  == p.eof /\ IF isochronous THEN parts # {} ELSE p.data
     IN IF ends
        THEN SwapBuffers(parts) /\ outbuf' = {}
        ELSE KeepBuffers /\ outbuf' = parts
  /\ ev' = [at |-> "decide", packet |-> NoPacket, again |-> ev.again]
  /\ UNCHANGED <<isochronous, running, transfers, ctl, fid, last_seq, frame,
                 shown, cam, gone, failed>>

\* LIBUSB_TRANSFER_TIMED_OUT, STALL and OVERFLOW; a packet that is empty, and one
\* with the error bit in an isochronous stream, which is left out.
Retried(t) ==
  /\ ~gone
  /\ CalledBack(t, "decide", NoPacket, TRUE)
  /\ UNCHANGED <<isochronous, running, ctl, working, hold, user, cam, gone, failed>>

\* LIBUSB_TRANSFER_ERROR, and CANCELLED.
GivenUp(t) ==
  /\ CalledBack(t, "decide", NoPacket, FALSE)
  /\ UNCHANGED <<isochronous, running, ctl, working, hold, user, cam, gone, failed>>

\* LIBUSB_TRANSFER_NO_DEVICE: nobody is woken here.
NoDevice(t) ==
  /\ gone
  /\ CalledBack(t, "decide", NoPacket, FALSE)
  /\ running' = FALSE
  /\ UNCHANGED <<isochronous, ctl, working, hold, user, cam, gone, failed>>

\* The transfer goes on.
Again == running /\ ev.again

\* The end of _uvc_stream_callback looks at running without the lock.
Decide ==
  /\ Alive /\ ev.at = "decide"
  /\ ev' = [ev EXCEPT !.at = IF Again THEN "submit" ELSE "delete"]
  /\ UNCHANGED <<isochronous, running, transfers, ctl, working, hold, user,
                 cam, gone, failed>>

\* libusb_submit_transfer, and its result, which nobody looks at.
Resubmit ==
  /\ Alive /\ ev.at = "submit"
  /\ ~gone
  /\ Becomes("flying")
  /\ ev' = Idle
  /\ UNCHANGED <<isochronous, running, ctl, working, hold, user, cam, gone,
                 failed>>

ResubmitFails ==
  /\ Alive /\ ev.at = "submit"
  /\ Becomes("dropped")
  /\ ev' = Idle
  /\ UNCHANGED <<isochronous, running, ctl, working, hold, user, cam, gone,
                 failed>>

\* _uvc_delete_transfer.
DeleteTransfer ==
  /\ Alive /\ ev.at = "delete"
  /\ Becomes("none")
  /\ cb' = Woken
  /\ ev' = Idle
  /\ UNCHANGED <<isochronous, running, ctl, working, hold, last_seq, frame,
                 shown, cam, gone, failed>>

-------------------------------------------------------------------------------
(* _uvc_user_caller. *)

Sleep ==
  /\ Alive /\ cb = "look"
  /\ running /\ last_seq = hold.seq
  /\ cb' = "asleep"
  /\ UNCHANGED <<isochronous, running, transfers, ctl, ev, working, hold,
                 last_seq, frame, shown, cam, gone, failed>>

EndThread ==
  /\ Alive /\ cb = "look"
  /\ ~running
  /\ cb' = "ended"
  /\ UNCHANGED <<isochronous, running, transfers, ctl, ev, working, hold,
                 last_seq, frame, shown, cam, gone, failed>>

\* _uvc_populate_frame when the frame is good, and a variant that copies from the
\* buffer that is being filled.
Working  == seq
Populate == IF hold.err THEN frame ELSE hold.seq

Take ==
  /\ Alive /\ cb = "look"
  /\ running /\ last_seq # hold.seq
  /\ last_seq' = hold.seq
  /\ frame' = Populate
  /\ cb' = "call"
  /\ UNCHANGED <<isochronous, running, transfers, ctl, ev, working, hold,
                 shown, cam, gone, failed>>

\* hold_bfh_err is looked at again, without the lock: it may be that of a newer
\* frame, and the user is given once more what was copied before, or what never was.
CallUser ==
  /\ Alive /\ cb = "call"
  /\ shown' = IF hold.err THEN shown ELSE frame
  /\ cb' = "look"
  /\ UNCHANGED <<isochronous, running, transfers, ctl, ev, working, hold,
                 last_seq, frame, cam, gone, failed>>

-------------------------------------------------------------------------------
(* uvc_stream_close, uvc_stream_stop. *)

Close ==
  /\ ctl \in {"on", "failed"}
  /\ ctl' = IF running THEN "stop" ELSE "free"
  /\ UNCHANGED <<isochronous, running, transfers, ev, working, hold, user,
                 cam, gone, failed>>

\* The flag is looked at once more.  All transfers are cancelled: libusb answers
\* them sooner than it would have, which the fairness of Answered stands for.
Stop ==
  /\ ctl = "stop"
  /\ running' = FALSE
  /\ ctl' = IF running THEN "drain" ELSE "free"
  /\ UNCHANGED <<isochronous, transfers, ev, working, hold, user, cam, gone, failed>>

\* All transfers are deleted; a variant waits for those that fly only.
NoneFlies  == \A t \in Transfers : transfers[t] # "flying"
AllDeleted == \A t \in Transfers : transfers[t] = "none"

Drained ==
  /\ ctl = "drain" /\ AllDeleted
  /\ cb' = Woken
  /\ ctl' = "join"
  /\ UNCHANGED <<isochronous, running, transfers, ev, working, hold, last_seq,
                 frame, shown, cam, gone, failed>>

Join ==
  /\ ctl = "join" /\ cb = "ended"
  /\ ctl' = "free"
  /\ UNCHANGED <<isochronous, running, transfers, ev, working, hold, user,
                 cam, gone, failed>>

Free ==
  /\ ctl = "free"
  /\ ctl' = "freed"
  /\ UNCHANGED <<isochronous, running, transfers, ev, working, hold, user,
                 cam, gone, failed>>

-------------------------------------------------------------------------------
Init ==
  /\ isochronous \in BOOLEAN
  /\ running = FALSE
  /\ transfers = [t \in Transfers |-> "none"]
  /\ ctl = "open" /\ ev = Idle /\ cb = "none"
  /\ seq = 0 /\ fid = 0 /\ outbuf = {} /\ bfh_err = FALSE
  /\ hold = [seq |-> 0, parts |-> {}, err |-> FALSE]
  /\ last_seq = 0 /\ frame = 0
  /\ cam = 1 /\ gone = FALSE /\ failed = FALSE
  /\ shown = 0

\* The answer to a transfer.
Answered(t) ==
  \/ \E p \in Packets : Completed(t, p)
  \/ Broken(t) \/ Retried(t) \/ GivenUp(t) \/ NoDevice(t)

Callback == ProcessData \/ Decide \/ Resubmit \/ ResubmitFails \/ DeleteTransfer
Caller   == Sleep \/ EndThread \/ Take \/ CallUser
Starting == StartRefused \/ StartStream \/ SubmitFails \/ \E t \in Transfers : Submit(t)
Closing  == Stop \/ Drained \/ Join \/ Free

Next ==
  \/ Starting \/ Close \/ Closing
  \/ Callback \/ Caller \/ Unplug
  \/ \E t \in Transfers : Answered(t)

\* The threads run; libusb answers every transfer within its timeout of five
\* seconds, and the answers in their order.  The user need not close the
\* stream, nobody need unplug the camera.
Fairness ==
  /\ WF_vars(Closing) /\ WF_vars(Callback) /\ WF_vars(Caller)
  /\ \A t \in Transfers : SF_vars(Answered(t))

Spec == Init /\ [][Next]_vars /\ Fairness

-------------------------------------------------------------------------------
\* A transfer that could not be submitted again.
Dropped == \E t \in Transfers : transfers[t] = "dropped"

\* No frame that is handed over contains data of a frame and of the one after
\* it, whatever packets are lost: _uvc_process_payload compares the frame id.  A
\* frame may lack what was lost, and have data of the one before the last.
NeighboursApart == \A n \in hold.parts : n + 1 \notin hold.parts

\* uvc_stream_close frees the handle when no transfer, no callback and no thread
\* uses it any more, as long as the camera has not been unplugged and every
\* transfer could be submitted.
QuietWhenFreed ==
  ctl = "freed" /\ ~gone /\ ~failed
    => /\ \A t \in Transfers : transfers[t] = "none"
       /\ ev.at = "idle" /\ cb \in {"none", "ended"}

\* Nobody waits for what nobody will do.  The user's thread does not sleep on a
\* stream that has ceased to run unless a callback or uvc_stream_stop is on its
\* way to wake it; uvc_stream_stop waits for transfers that libusb has yet to
\* answer or a callback works on, or one could not be submitted again; and it
\* joins a thread that is awake (_uvc_delete_transfer, uvc_stream_stop).
WaitersAreWoken ==
  /\ cb = "asleep" /\ Alive /\ ~running /\ ~failed
       => ctl = "drain" \/ ev.at \in {"decide", "delete"}
  /\ ctl = "drain" /\ ~AllDeleted /\ ~Dropped
       => ev.at # "idle" \/ ~NoneFlies
  /\ ctl = "join" => cb # "asleep"

\* What the comment of uvc_stop_streaming says it does, and uvc_free_devh relies
\* on: the thread that calls the user has ended when the handle is freed.
ThreadsHaveDied == ctl = "freed" => cb \in {"none", "ended"}

\* The user gets the frames in the order of the camera and never an older one after
\* a newer one.  He may get one twice, miss one, and be called before any was copied.
Handed == INSTANCE LatestFrame WITH made <- hold.seq, shown <- shown
Relays == Handed!Spec

\* uvc_stream_stop waits for transfers and for the user's thread, and it ends,
\* unless a transfer could not be submitted again: that one is never deleted.
StopEnds == (ctl = "stop") ~> (ctl = "freed" \/ Dropped)

\* An answer that says that the camera is gone ends the user's thread, although
\* running is cleared without waking it.
NoDeviceEnds == (ctl = "on" /\ ~running) ~> (cb = "ended" \/ ctl # "on")

\* Both: a stream ends, whoever ends it.
Ends == StopEnds /\ NoDeviceEnds
===============================================================================
