------------------------------ MODULE LiveShare ------------------------------
(***************************************************************************)
(* A live share: the native sender (the WebRTC part of protocol/upload.rs, *)
(* rtc_upload.rs), the signalling endpoints (WebRtcTransferController.php) *)
(* and one native receiver (webrtc.rs, LiveDownload in download.rs).       *)
(*                                                                         *)
(* A manifest and an SDP answer are named after the incarnation of the     *)
(* sender that made them; a frame after the chunk it was cut from and its  *)
(* place.  A data channel is ordered and reliable until one side closes it.*)
(***************************************************************************)
EXTENDS Naturals, Sequences, FiniteSets

CONSTANTS
  Sid,       \* identifiers of receiver sessions
  Chunk,     \* chunks of the share
  Frames,    \* frames of one chunk
  MaxPeers,  \* WEBRTC_MAX_PEERS
  MaxEpoch,  \* bound on the incarnations of the sender
  MaxSeq,    \* bound on the chunk requests of the receiver
  Burn,      \* values of "a burn-on-read note"
  None

VARIABLES
  server,   \* the transfer row and the heartbeat of the sender
  sess,     \* the cached sessions
  sender,   \* the sending process
  saved,    \* its saved job and spool
  recv,     \* the receiving process
  wire      \* the data channel of each session

vars == <<server, sess, sender, saved, recv, wire>>

Terminal == {"completed", "cancelled", "failed"}
Epoch == 1..MaxEpoch
Closed == [open |-> FALSE, up |-> <<>>, down |-> <<>>]
NoPeer == [at |-> "none", pending |-> None]
Whole(c) == [i \in 1..Frames |-> <<c, i>>]

TypeOK ==
  /\ server.status \in {"pending", "live", "ended"} /\ server.manifest \in Epoch \cup {None}
  /\ server.pulse \in BOOLEAN /\ server.claim \in Sid \cup {None}
  /\ \A s \in Sid : sess[s] # None => /\ sess[s].answer \in Epoch \cup {None}
                                      /\ sess[s].status \in {"waiting", "active"} \cup Terminal
  /\ saved.state \in {"preparing", "sending", "serving", "ended"} /\ saved.durable \subseteq Chunk
  /\ sender.epoch \in Epoch /\ \A s \in Sid : sender.peer[s].at \in {"none", "answering", "waiting", "serving"}
  /\ recv.pc \in {"idle", "registering", "registered", "polling", "connecting", "connected", "requesting"}
  /\ recv.seq \in 0..MaxSeq

Init ==
  /\ server \in {[status |-> "pending", manifest |-> None, pulse |-> FALSE, claim |-> None, burn |-> b] : b \in Burn}
  /\ sess = [s \in Sid |-> None]
  /\ saved = [state |-> "preparing", durable |-> {}, manifest |-> None]
  /\ sender = [up |-> TRUE, epoch |-> 1, answered |-> {}, peer |-> [s \in Sid |-> NoPeer]]
  /\ recv = [pc |-> "idle", sid |-> None, want |-> None, announced |-> FALSE, bytes |-> <<>>, seq |-> 0, answer |-> None,
             have |-> [c \in Chunk |-> <<>>], used |-> {}]
  /\ wire = [s \in Sid |-> Closed]
-----------------------------------------------------------------------------
(* The sender: continue_job of a live transfer.                            *)

\* prepare_live_ciphertext: the immutable file is durable before its record.
PrepareChunk(c) ==
  /\ sender.up /\ saved.state = "preparing" /\ c \notin saved.durable
  /\ saved' = [saved EXCEPT !.durable = @ \cup {c}]
  /\ UNCHANGED <<server, sess, sender, recv, wire>>

Prepared ==
  /\ sender.up /\ saved.state = "preparing" /\ saved.durable = Chunk
  /\ saved' = [saved EXCEPT !.state = "sending"]
  /\ UNCHANGED <<server, sess, sender, recv, wire>>

\* An encryption under fresh randomness, saved before it is sent.
SaveManifest ==
  /\ sender.up /\ saved.state = "sending" /\ saved.manifest = None
  /\ saved' = [saved EXCEPT !.manifest = sender.epoch]
  /\ UNCHANGED <<server, sess, sender, recv, wire>>

\* publish: accepted once, afterwards only with the same envelope.  The answer
\* may be lost, and the process may die before it saves the new state.
Publish ==
  /\ sender.up /\ saved.state = "sending" /\ saved.manifest # None
  /\ server.status = "live" => server.manifest = saved.manifest
  /\ server.status # "ended"
  /\ server' = [server EXCEPT !.status = "live", !.manifest = saved.manifest, !.pulse = TRUE]
  /\ saved' \in {saved, [saved EXCEPT !.state = "serving"]}
  /\ UNCHANGED <<sess, sender, recv, wire>>

Serving == sender.up /\ saved.state = "serving" /\ server.status = "live"
Busy == {s \in Sid : sender.peer[s].at # "none"}
Open(s) == sess[s] # None /\ sess[s].status \notin Terminal

\* Ends the peers of ps: their channels close.
WithoutPeers(ps) == [sender EXCEPT !.peer = [s \in Sid |-> IF s \in ps THEN NoPeer ELSE @[s]]]
CloseWire(ss) == [s \in Sid |-> IF s \in ss THEN Closed ELSE wire[s]]

\* One round of serve_live: peers of ended sessions are stopped, and every
\* session with an offer that was not answered gets a peer, while there is room.
Poll ==
  /\ Serving
  /\ server' = [server EXCEPT !.pulse = TRUE]
  /\ LET stopped == {s \in Busy : sess[s] # None /\ sess[s].status \in Terminal}
         kept    == {s \in sender.answered : Open(s)}
         wants   == {s \in Sid : Open(s) /\ sess[s].offer /\ s \notin Busy \cup kept}
     IN \E new \in SUBSET wants :
          /\ Cardinality(new) = IF Cardinality(wants) + Cardinality(Busy) <= MaxPeers THEN Cardinality(wants)
                                ELSE MaxPeers - Cardinality(Busy)
          /\ sender' = [WithoutPeers(stopped) EXCEPT
               !.answered = kept \cup new,
               !.peer = [s \in Sid |-> IF s \in new THEN [NoPeer EXCEPT !.at = "answering"] ELSE @[s]]]
          /\ wire' = CloseWire(stopped)
  /\ UNCHANGED <<sess, saved, recv>>

\* connect_sender and answer(): an answer is immutable, so the answer of a later
\* incarnation is refused and its peer ends.
Answer(s) ==
  /\ Serving /\ sender.peer[s].at = "answering"
  /\ LET accepted == server.pulse /\ Open(s) /\ sess[s].answer \in {None, sender.epoch}
     IN /\ sess' = IF accepted THEN [sess EXCEPT ![s].answer = sender.epoch] ELSE sess
        /\ sender' = IF accepted THEN [sender EXCEPT !.peer[s].at = "waiting"] ELSE WithoutPeers({s})
  /\ UNCHANGED <<server, saved, recv, wire>>

\* receiver_channel: the channel of the receiver arrives.
SenderConnected(s) ==
  /\ sender.peer[s].at = "waiting" /\ wire[s].open
  /\ sender' = [sender EXCEPT !.peer[s].at = "serving"]
  /\ UNCHANGED <<server, sess, saved, recv, wire>>

Send(s, messages) == wire' = [wire EXCEPT ![s].down = @ \o messages, ![s].up = Tail(@)]

Cut(m, c) ==
  <<[kind |-> "chunk", seq |-> m.seq, chunk |-> m.chunk]>>
  \o [i \in 1..Frames |-> [kind |-> "frame", seq |-> m.seq, of |-> c, offset |-> i]]

\* serve_artifacts: one request at a time, a chunk is announced and then cut
\* into frames; anything else than the awaited acknowledgement ends the peer.
ServeMessage(s) ==
  /\ sender.peer[s].at = "serving" /\ wire[s].open /\ wire[s].up # <<>>
  /\ LET m == Head(wire[s].up) pending == sender.peer[s].pending
     IN CASE m.kind = "request" /\ pending = None ->
               /\ m.chunk \in saved.durable /\ Send(s, Cut(m, m.chunk))
               /\ sender' = [sender EXCEPT !.peer[s].pending = m.seq]
          [] m.kind = "ack" /\ pending = m.seq ->
               /\ Send(s, <<>>) /\ sender' = [sender EXCEPT !.peer[s].pending = None]
          [] OTHER -> wire' = CloseWire({s}) /\ sender' = WithoutPeers({s})
  /\ UNCHANGED <<server, sess, saved, recv>>

\* The channel closed, the connection or an acknowledgement timed out, or the
\* transport found the receiver gone: an idle channel has no timeout of its own.
PeerEnds(s) ==
  /\ sender.peer[s].at \in {"waiting", "serving"}
  /\ wire' = CloseWire({s}) /\ sender' = WithoutPeers({s})
  /\ UNCHANGED <<server, sess, saved, recv>>

\* Ctrl+C or a crash: the share stays published, the spool and the job stay.
SenderStops ==
  /\ sender.up
  /\ sender' = [WithoutPeers(Sid) EXCEPT !.up = FALSE, !.answered = {}]
  /\ wire' = CloseWire(Sid)
  /\ UNCHANGED <<server, sess, saved, recv>>

SenderResumes ==
  /\ ~sender.up /\ sender.epoch < MaxEpoch /\ saved.state # "ended"
  /\ sender' = [sender EXCEPT !.up = TRUE, !.epoch = @ + 1]
  /\ UNCHANGED <<server, sess, saved, recv, wire>>

\* end_live and end(): the row first, then the cache is dropped outside the lock.
EndLive ==
  /\ server.status \in {"live", "ended"} /\ ~sender.up
  /\ server' = [server EXCEPT !.status = "ended"]
  /\ saved' \in {saved, [saved EXCEPT !.state = "ended"]}
  /\ UNCHANGED <<sess, sender, recv, wire>>

RevokeSessions ==
  /\ server.status = "ended"
  /\ server' = [server EXCEPT !.pulse = FALSE] /\ sess' = [s \in Sid |-> None]
  /\ UNCHANGED <<sender, saved, recv, wire>>
-----------------------------------------------------------------------------
(* The signalling server on its own.                                       *)

PulseExpires ==
  /\ server.pulse /\ server' = [server EXCEPT !.pulse = FALSE]
  /\ UNCHANGED <<sess, sender, saved, recv, wire>>

\* prune: a session nobody touched for a while is dropped.
SessionExpires(s) ==
  /\ sess[s] # None /\ sess' = [sess EXCEPT ![s] = None]
  /\ UNCHANGED <<server, sender, saved, recv, wire>>

Reachable == server.status = "live" /\ server.pulse

\* Faulty variant: a claim whose session is gone is given away.
MayClaimAgain == server.burn => (server.claim # None => sess[server.claim] = None)

MayClaim == server.burn => server.claim = None
-----------------------------------------------------------------------------
(* The receiver: LiveDownload.                                             *)

Disconnected == [recv EXCEPT !.pc = "idle", !.sid = None, !.answer = None, !.want = None, !.announced = FALSE, !.bytes = <<>>]

\* register(): the claim of a burn-on-read note is committed with the database.
Register(s) ==
  /\ recv.pc = "idle" /\ s \notin recv.used /\ \E c \in Chunk : recv.have[c] = <<>>
  /\ Reachable /\ Cardinality({o \in Sid : Open(o)}) < MaxPeers /\ MayClaim
  /\ server' = [server EXCEPT !.claim = IF server.burn THEN s ELSE None]
  /\ recv' = [recv EXCEPT !.pc = "registering", !.sid = s, !.used = @ \cup {s}]
  /\ UNCHANGED <<sess, sender, saved, wire>>

\* The second half of register(): the session is cached, or the cache fails.
CacheSession ==
  /\ recv.pc = "registering"
  /\ \/ /\ sess' = [sess EXCEPT ![recv.sid] = [offer |-> FALSE, answer |-> None, status |-> "waiting"]]
        /\ recv' = [recv EXCEPT !.pc = "registered"]
     \/ recv' = Disconnected /\ UNCHANGED sess
  /\ UNCHANGED <<server, sender, saved, wire>>

\* The receiver gives up: without the server it cannot say so, and its session
\* stays behind.
Abandon == recv' = Disconnected /\ wire' = CloseWire({recv.sid}) /\ UNCHANGED <<server, sess, sender, saved>>

Publishable == Reachable /\ Open(recv.sid)

Offer ==
  /\ recv.pc = "registered" /\ Publishable
  /\ sess' = [sess EXCEPT ![recv.sid].offer = TRUE] /\ recv' = [recv EXCEPT !.pc = "polling"]
  /\ UNCHANGED <<server, sender, saved, wire>>

\* receiver_status: an answer is taken whatever the status is.
TakeAnswer ==
  /\ recv.pc = "polling" /\ Reachable /\ sess[recv.sid] # None /\ sess[recv.sid].answer # None
  /\ recv' = [recv EXCEPT !.pc = "connecting", !.answer = sess[recv.sid].answer]
  /\ UNCHANGED <<server, sess, sender, saved, wire>>

\* ICE connects the two descriptions, if the sender that answered still waits;
\* then the session is reported as active.
Connect ==
  /\ recv.pc = "connecting" /\ sender.peer[recv.sid].at = "waiting" /\ recv.answer = sender.epoch
  /\ wire' = [wire EXCEPT ![recv.sid] = [Closed EXCEPT !.open = TRUE]]
  /\ IF Publishable THEN /\ sess' = [sess EXCEPT ![recv.sid].status = "active"]
                         /\ recv' = [recv EXCEPT !.pc = "connected"]
     ELSE UNCHANGED sess /\ recv' = Disconnected
  /\ UNCHANGED <<server, sender, saved>>

\* The receiving process is gone; nobody closes its channel.
ReceiverDies ==
  /\ recv.pc # "idle" /\ recv' = Disconnected
  /\ UNCHANGED <<server, sess, sender, saved, wire>>

\* CONNECT_TIMEOUT, an unreachable server, an ended session.
ConnectFails ==
  /\ recv.pc \in {"registered", "polling", "connecting"} /\ Abandon

RequestChunk(c) ==
  /\ recv.pc = "connected" /\ recv.have[c] = <<>> /\ recv.seq < MaxSeq /\ wire[recv.sid].open
  /\ recv' = [recv EXCEPT !.pc = "requesting", !.want = c, !.announced = FALSE, !.bytes = <<>>, !.seq = @ + 1]
  /\ wire' = [wire EXCEPT ![recv.sid].up = Append(@, [kind |-> "request", seq |-> recv.seq, chunk |-> c])]
  /\ UNCHANGED <<server, sess, sender, saved>>

\* A timeout, a closed channel, or a heartbeat that is refused: the session is
\* reported as failed if possible, and the channel is never used again.
RequestFails ==
  /\ recv.pc \in {"connected", "requesting"}
  /\ sess' = IF Publishable THEN [sess EXCEPT ![recv.sid].status = "failed"] ELSE sess
  /\ recv' = Disconnected /\ wire' = CloseWire({recv.sid})
  /\ UNCHANGED <<server, sender, saved>>

\* The announcement names the request; frames carry its number and offset.
Expected(m) ==
  \/ m.kind = "chunk" /\ ~recv.announced /\ m.seq = recv.seq - 1 /\ m.chunk = recv.want
  \/ m.kind = "frame" /\ recv.announced /\ m.seq = recv.seq - 1 /\ m.offset = Len(recv.bytes) + 1

\* request_chunk: the last frame is acknowledged.
ReceiveMessage ==
  /\ recv.pc = "requesting" /\ wire[recv.sid].open /\ wire[recv.sid].down # <<>>
  /\ LET m == Head(wire[recv.sid].down) IN
     /\ Expected(m)
     /\ LET bytes == IF m.kind = "frame" THEN Append(recv.bytes, <<m.of, m.offset>>) ELSE recv.bytes
            done  == Len(bytes) = Frames
        IN /\ recv' = [recv EXCEPT !.announced = TRUE, !.bytes = bytes,
                                   !.pc = IF done THEN "connected" ELSE @,
                                   !.have[recv.want] = IF done THEN bytes ELSE @]
           /\ wire' = [wire EXCEPT ![recv.sid].down = Tail(@),
                         ![recv.sid].up = IF done THEN Append(@, [kind |-> "ack", seq |-> m.seq]) ELSE @]
  /\ UNCHANGED <<server, sess, sender, saved>>

\* finish("completed")
Finish ==
  /\ recv.pc = "connected" /\ \A c \in Chunk : recv.have[c] # <<>>
  /\ sess' = IF Publishable THEN [sess EXCEPT ![recv.sid].status = "completed"] ELSE sess
  /\ recv' = Disconnected /\ wire' = CloseWire({recv.sid})
  /\ UNCHANGED <<server, sender, saved>>

Next ==
  \/ \E c \in Chunk : PrepareChunk(c) \/ RequestChunk(c)
  \/ Prepared \/ SaveManifest \/ Publish \/ Poll \/ SenderStops \/ SenderResumes \/ EndLive \/ RevokeSessions
  \/ \E s \in Sid : Answer(s) \/ SenderConnected(s) \/ ServeMessage(s) \/ PeerEnds(s) \/ SessionExpires(s) \/ Register(s)
  \/ PulseExpires \/ CacheSession \/ Offer \/ TakeAnswer \/ Connect \/ ConnectFails \/ ReceiverDies
  \/ RequestFails \/ ReceiveMessage \/ Finish

Spec == Init /\ [][Next]_vars
-----------------------------------------------------------------------------
\* A chunk the receiver keeps is exactly the chunk it asked for: frames of an
\* earlier, failed request never reach a later one.
ReceivedExact == \A c \in Chunk : recv.have[c] # <<>> => recv.have[c] = Whole(c)

\* What is published can be served: every chunk is on the disk of the sender, and
\* the saved envelope is the one the server has, whenever the sender died.
ShareServable ==
  server.status = "live" => saved.durable = Chunk /\ saved.manifest = server.manifest

\* An answer never changes, a terminal status is final while the session exists,
\* and a share that has ended is not published again.
SignallingMonotoneStep ==
  /\ \A s \in Sid : sess[s] # None /\ sess'[s] # None =>
       /\ sess[s].answer # None => sess'[s].answer = sess[s].answer
       /\ sess[s].status \in Terminal => sess'[s].status = sess[s].status
  /\ server.status = "ended" => server'.status = "ended"

\* Only the session that claimed a burn-on-read note ever connects to the sender.
BurnClaimedOnce ==
  server.burn => \A s \in Sid : wire[s].open \/ sess[s] # None => s = server.claim
=============================================================================
