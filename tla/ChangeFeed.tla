----------------------------- MODULE ChangeFeed -----------------------------
(***************************************************************************)
(* The change streams of one account: how a commit wakes the devices that  *)
(* watch, and how a stream ends when its credential does.                  *)
(*                                                                         *)
(* A handler commits first and tells the broker afterwards; a stream       *)
(* subscribes first and reads the database afterwards.  The broker lives   *)
(* in the process: its channels hold one event, and each of its calls runs *)
(* under one mutex.  What a page holds is AccountSync's subject (as is the *)
(* cursor a stream acknowledges when it opens); here a page is the         *)
(* sequence it ends at.                                                    *)
(***************************************************************************)
EXTENDS Integers, Sequences

CONSTANTS
  Device,        \* rows of the devices table, past and future
  Stream,        \* connections to GET /v1/changes/watch (a bound)
  Handler,       \* requests that write, in flight (a bound)
  MaxSeq,        \* bound on the account's change_seq
  MaxToken,      \* bound on the tokens minted for a device
  UnreportedCommits,  \* whether a commit that took effect may be reported failed
  None           \* no device

ASSUME FeedAssumption ==
  /\ None \notin Device
  /\ MaxSeq \in Nat /\ MaxToken \in Nat
  /\ UnreportedCommits \in BOOLEAN

VARIABLES
  log,      \* who wrote each change_seq: a device, or None for the operator
  devices,  \* device -> is there a row, and the number of its current token
  handler,  \* handler -> the call to the broker it still has to make
  stream,   \* the streams, with what the broker has queued for each
  unheardWrites,  \* history: the sequences of writes nobody was told of
  unheardEnds     \* history: <<device, token>> whose end nobody was told of

vars == <<log, devices, handler, stream, unheardWrites, unheardEnds>>
history == <<unheardWrites, unheardEnds>>

----------------------------------------------------------------------------
NoCall == [call |-> "none", device |-> None, seq |-> 0]
Call   == [call : {"none", "publish", "revoke", "disconnect"},
           device : Device \cup {None}, seq : Nat]

(* `cursor` is the last one sent, `end` and `more` the page being sent,    *)
(* `event` what the channel holds.                                         *)
Phase  == {"closed", "opened", "subscribed", "revalidated", "woken", "more",
           "sending", "waiting"}
Event  == {"none", "changes", "revoked", "disconnected"}
Conn   == [phase : Phase, device : Device \cup {None}, token : Nat, cursor : Nat,
           end : Nat, more : BOOLEAN, event : Event]
Closed == [phase |-> "closed", device |-> None, token |-> 0, cursor |-> 0,
           end |-> 0, more |-> FALSE, event |-> "none"]

TypeOK ==
  /\ log \in Seq(Device \cup {None})
  /\ devices \in [Device -> [status : {"absent", "active", "revoked", "removed"},
                             token : Nat]]
  /\ handler \in [Handler -> Call]
  /\ stream \in [Stream -> Conn]
  /\ unheardWrites \subseteq Nat
  /\ unheardEnds \subseteq Device \X Nat

Init ==
  /\ log = <<>>
  /\ devices = [d \in Device |-> [status |-> "absent", token |-> 0]]
  /\ handler = [h \in Handler |-> NoCall]
  /\ stream = [s \in Stream |-> Closed]
  /\ unheardWrites = {} /\ unheardEnds = {}

changeSeq     == Len(log)
Subscribed(s) == stream[s].phase \notin {"closed", "opened"}

(* store.AuthenticateDeviceToken.                                          *)
Authentic(d, token) == devices[d].status = "active" /\ devices[d].token = token

----------------------------------------------------------------------------
(* Handlers: the commit, then the broker.                                  *)

(* A handler whose commit took effect goes on to call the broker; one that *)
(* was told its commit failed does not.  A retry of that push is answered  *)
(* from applied_batches, which commits nothing and calls nobody.           *)
Calls(h, call, d, seq) ==
  /\ handler' = [handler EXCEPT ![h] = [call |-> call, device |-> d, seq |-> seq]]
  /\ UNCHANGED history
CallsNobody(writes, ends) ==
  /\ UnreportedCommits
  /\ unheardWrites' = unheardWrites \cup writes
  /\ unheardEnds' = unheardEnds \cup ends
  /\ UNCHANGED handler

(* A write of device d, or of the operator, takes the next change_seq.     *)
Write(h, d) ==
  /\ handler[h] = NoCall /\ changeSeq < MaxSeq
  /\ log' = Append(log, d)
  /\ Calls(h, "publish", d, changeSeq + 1) \/ CallsNobody({changeSeq + 1}, {})
  /\ UNCHANGED <<devices, stream>>

(* handlePushChanges, with something to commit.  A request authenticated   *)
(* before its device was revoked runs on.                                  *)
Push(h, d) == devices[d].status \in {"active", "revoked"} /\ Write(h, d)

(* The operator erases a notebook or stops hosting one.                    *)
OperatorWrite(h) == Write(h, None)

(* The end of what a device presented so far: its row changes, then the    *)
(* broker is told.                                                         *)
EndCredential(h, d, row, call) ==
  /\ handler[h] = NoCall
  /\ devices' = [devices EXCEPT ![d] = row]
  /\ Calls(h, call, d, 0) \/ CallsNobody({}, {<<d, devices[d].token>>})
  /\ UNCHANGED <<log, stream>>

(* handleRevokeDevice, of the API and of the panel; again is no error.     *)
RevokeDevice(h, d) ==
  /\ devices[d].status \in {"active", "revoked"}
  /\ EndCredential(h, d, [devices[d] EXCEPT !.status = "revoked"], "revoke")

(* handleRegisterDevice: a new row, or the row of the installation with a  *)
(* new token and its revocation cleared.                                   *)
RegisterDevice(h, d) ==
  /\ devices[d].status # "removed" /\ devices[d].token < MaxToken
  /\ EndCredential(h, d, [status |-> "active", token |-> devices[d].token + 1], "disconnect")

(* store.DeleteRevokedDevice and DeleteRevokedDevices.  Nobody is told.    *)
DeleteRevokedDevices(gone) ==
  /\ gone # {}
  /\ \A d \in gone : devices[d].status = "revoked"
  /\ devices' = [d \in Device |-> IF d \in gone THEN [devices[d] EXCEPT !.status = "removed"]
                                                ELSE devices[d]]
  /\ UNCHANGED <<log, handler, stream, history>>

(* Broker.Publish: a channel that holds an event already is left alone.    *)
(* The author's own streams are not woken.                                 *)
Published(excluded) ==
  [s \in Stream |->
     IF Subscribed(s) /\ stream[s].device # excluded /\ stream[s].event = "none"
     THEN [stream[s] EXCEPT !.event = "changes"] ELSE stream[s]]

(* Faulty: the urgent event is dropped when the channel is full.           *)
FaultyDelivered(event, d) ==
  [s \in Stream |-> IF Subscribed(s) /\ stream[s].device = d /\ stream[s].event = "none"
                    THEN [stream[s] EXCEPT !.event = event] ELSE stream[s]]

(* Broker.Revoke and Broker.Disconnect (deliverUrgently): whatever the     *)
(* channel holds is replaced.                                              *)
Delivered(event, d) ==
  [s \in Stream |-> IF Subscribed(s) /\ stream[s].device = d
                    THEN [stream[s] EXCEPT !.event = event] ELSE stream[s]]

(* Faulty: a push wakes the author's streams in place of the others.       *)
FaultyAnnounce(h) ==
  /\ handler[h] # NoCall
  /\ stream' = CASE handler[h].call = "publish" ->
                      [s \in Stream |->
                         IF Subscribed(s) /\ stream[s].device = handler[h].device
                         THEN [stream[s] EXCEPT !.event = "changes"] ELSE stream[s]]
                 [] handler[h].call = "revoke" -> Delivered("revoked", handler[h].device)
                 [] OTHER -> Delivered("disconnected", handler[h].device)
  /\ handler' = [handler EXCEPT ![h] = NoCall]
  /\ UNCHANGED <<log, devices, history>>

Announce(h) ==
  /\ \/ handler[h].call = "publish" /\ stream' = Published(handler[h].device)
     \/ handler[h].call = "revoke" /\ stream' = Delivered("revoked", handler[h].device)
     \/ handler[h].call = "disconnect"
        /\ stream' = Delivered("disconnected", handler[h].device)
  /\ handler' = [handler EXCEPT ![h] = NoCall]
  /\ UNCHANGED <<log, devices, history>>

----------------------------------------------------------------------------
(* Streams: handleWatchChanges.                                            *)

(* Faulty: the first page is to start with the presented cursor itself.    *)
FaultyOpen(s, d, since) ==
  /\ stream[s].phase = "closed"
  /\ devices[d].status = "active"
  /\ stream' = [stream EXCEPT ![s] = [Closed EXCEPT
       !.phase = "opened", !.device = d, !.token = devices[d].token, !.cursor = since - 1]]
  /\ UNCHANGED <<log, devices, handler, history>>

(* The middleware authenticates the request; `since` is a cursor the       *)
(* client was given.                                                       *)
Open(s, d, since) ==
  /\ stream[s].phase = "closed"
  /\ devices[d].status = "active"
  /\ stream' = [stream EXCEPT ![s] = [Closed EXCEPT
       !.phase = "opened", !.device = d, !.token = devices[d].token, !.cursor = since]]
  /\ UNCHANGED <<log, devices, handler, history>>

(* Broker.Subscribe.                                                       *)
Subscribe(s) ==
  /\ stream[s].phase = "opened"
  /\ stream' = [stream EXCEPT ![s].phase = "subscribed"]
  /\ UNCHANGED <<log, devices, handler, history>>

(* Faulty: the middleware's answer is taken as good.                       *)
FaultyRevalidate(s) ==
  /\ stream[s].phase = "subscribed"
  /\ stream' = [stream EXCEPT ![s].phase = "revalidated"]
  /\ UNCHANGED <<log, devices, handler, history>>

(* The token is looked up once more.                                       *)
Revalidate(s) ==
  /\ stream[s].phase = "subscribed"
  /\ stream' = [stream EXCEPT ![s] =
       IF Authentic(@.device, @.token) THEN [@ EXCEPT !.phase = "revalidated"] ELSE Closed]
  /\ UNCHANGED <<log, devices, handler, history>>

(* A pull bounds its page by the change_seq it reads first; a page ends    *)
(* there, or earlier with more to come.                                    *)
ReadPage(s) ==
  /\ stream[s].phase \in {"revalidated", "woken", "more"}
  /\ \E end \in {changeSeq} \cup (stream[s].cursor + 1)..changeSeq :
       stream' = [stream EXCEPT ![s] =
         [@ EXCEPT !.phase = "sending", !.end = end, !.more = end < changeSeq]]
  /\ UNCHANGED <<log, devices, handler, history>>

(* Faulty: with the page sent, a wakeup that came meanwhile is taken as    *)
(* answered.                                                               *)
FaultySendPage(s) ==
  /\ stream[s].phase = "sending"
  /\ stream' = [stream EXCEPT ![s] =
       [@ EXCEPT !.phase = IF stream[s].more THEN "more" ELSE "waiting",
                 !.cursor = stream[s].end, !.end = 0, !.more = FALSE,
                 !.event = IF @ = "changes" THEN "none" ELSE @]]
  /\ UNCHANGED <<log, devices, handler, history>>

(* writeChangePages: the page is written and the cursor moves with it; an  *)
(* empty one after a wakeup is not sent, which makes no difference here.   *)
SendPage(s) ==
  /\ stream[s].phase = "sending"
  /\ stream' = [stream EXCEPT ![s] =
       [@ EXCEPT !.phase = IF stream[s].more THEN "more" ELSE "waiting",
                 !.cursor = stream[s].end, !.end = 0, !.more = FALSE]]
  /\ UNCHANGED <<log, devices, handler, history>>

(* The event is taken from the channel before the database is read.        *)
Wake(s) ==
  /\ stream[s].phase = "waiting" /\ stream[s].event = "changes"
  /\ stream' = [stream EXCEPT ![s] = [@ EXCEPT !.phase = "woken", !.event = "none"]]
  /\ UNCHANGED <<log, devices, handler, history>>

(* A terminal event: `revoked` is written to the client, the other is not. *)
Finish(s) ==
  /\ stream[s].phase = "waiting" /\ stream[s].event \in {"revoked", "disconnected"}
  /\ stream' = [stream EXCEPT ![s] = Closed]
  /\ UNCHANGED <<log, devices, handler, history>>

(* The client goes away, a write times out or a query fails.               *)
Close(s) ==
  /\ stream[s].phase # "closed"
  /\ stream' = [stream EXCEPT ![s] = Closed]
  /\ UNCHANGED <<log, devices, handler, history>>

(* The process stops: its requests, its streams and its broker with it.    *)
Restart ==
  /\ handler' = [h \in Handler |-> NoCall]
  /\ stream' = [s \in Stream |-> Closed]
  /\ UNCHANGED <<log, devices, history>>

----------------------------------------------------------------------------
Next ==
  \/ \E h \in Handler, d \in Device : Push(h, d)
  \/ \E h \in Handler : OperatorWrite(h)
  \/ \E h \in Handler, d \in Device : RevokeDevice(h, d)
  \/ \E h \in Handler, d \in Device : RegisterDevice(h, d)
  \/ \E gone \in SUBSET Device : DeleteRevokedDevices(gone)
  \/ \E h \in Handler : Announce(h)
  \/ \E s \in Stream, d \in Device, since \in 0..changeSeq : Open(s, d, since)
  \/ \E s \in Stream : Subscribe(s)
  \/ \E s \in Stream : Revalidate(s)
  \/ \E s \in Stream : ReadPage(s)
  \/ \E s \in Stream : SendPage(s)
  \/ \E s \in Stream : Wake(s)
  \/ \E s \in Stream : Finish(s)
  \/ \E s \in Stream : Close(s)
  \/ Restart

Spec == Init /\ [][Next]_vars

(* A handler that has committed runs on to its call to the broker, which   *)
(* never blocks; a stream's query returns and its write ends, at the latest*)
(* when the write deadline does.  Nobody has to write, connect or leave.   *)
Fairness ==
  /\ \A h \in Handler : WF_vars(Announce(h))
  /\ \A s \in Stream : /\ WF_vars(Subscribe(s)) /\ WF_vars(Revalidate(s))
                       /\ WF_vars(ReadPage(s)) /\ WF_vars(SendPage(s))
                       /\ WF_vars(Wake(s)) /\ WF_vars(Finish(s))
FairSpec == Spec /\ Fairness

----------------------------------------------------------------------------
(* What the code promises and keeps.                                       *)

Announced(seq) == \A h \in Handler : ~(handler[h].call = "publish" /\ handler[h].seq = seq)

(* No lost wakeup: an idle stream with an empty channel has sent every     *)
(* write of another device, but those whose handler has yet to tell the    *)
(* broker or was told its commit failed, however commits, coalesced events *)
(* and the reads of a page interleave ("a concurrent commit is either in   *)
(* that read or leaves a broker wakeup behind it").                        *)
NoLostWakeup ==
  \A s \in Stream : stream[s].phase = "waiting" /\ stream[s].event = "none" =>
    \A seq \in (stream[s].cursor + 1)..changeSeq :
      log[seq] # stream[s].device /\ seq \notin unheardWrites => ~Announced(seq)

(* Faults of one device's credential that still have to reach the broker.  *)
EndComing(d) ==
  \E h \in Handler : handler[h].call \in {"revoke", "disconnect"} /\ handler[h].device = d

(* No stream outlives its credential: one that passed its second lookup    *)
(* has a valid token, or the event that ends it is in its channel or on    *)
(* its way, whatever else is queued, unless the handler that ended it was  *)
(* told its commit failed ("one more lookup after subscribing leaves no    *)
(* gap").                                                                  *)
StreamsEndWithTheirToken ==
  \A s \in Stream :
    stream[s].phase \in {"revalidated", "woken", "more", "sending", "waiting"} =>
      \/ Authentic(stream[s].device, stream[s].token)
      \/ stream[s].event \in {"revoked", "disconnected"}
      \/ EndComing(stream[s].device)
      \/ <<stream[s].device, stream[s].token>> \in unheardEnds

(* A write of another device that was reported as committed reaches every  *)
(* stream that stays open, whoever else writes meanwhile.                  *)
EventuallyStreamed ==
  \A s \in Stream : \A seq \in 1..MaxSeq :
    (/\ stream[s].phase # "closed"
     /\ seq <= changeSeq /\ log[seq] # stream[s].device /\ seq \notin unheardWrites)
      ~> (stream[s].phase = "closed" \/ stream[s].cursor >= seq)

(* A stream whose token was replaced or whose device was revoked ends, if  *)
(* that was reported as committed, and the client need not do anything.    *)
StaleStreamsEnd ==
  \A s \in Stream :
    (/\ Subscribed(s) /\ ~Authentic(stream[s].device, stream[s].token)
     /\ <<stream[s].device, stream[s].token>> \notin unheardEnds)
      ~> stream[s].phase = "closed"

----------------------------------------------------------------------------
(* What the documents promise and the code does not keep.                  *)

(* "A `revoked` event racing it there would make the app forget the        *)
(* account it just signed in to": `revoked` is only sent on a stream whose *)
(* token no longer authenticates.                                          *)
RevokedTokensAreGone ==
  \A s \in Stream : stream[s].phase = "waiting" /\ stream[s].event = "revoked" =>
    ~Authentic(stream[s].device, stream[s].token)
=============================================================================
