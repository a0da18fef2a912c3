-------------------------- MODULE ChangeFeedProofs --------------------------
(***************************************************************************)
(* Proofs about ChangeFeed: its types, that no wakeup is lost and that no  *)
(* stream outlives its credential, for any number of devices, streams and  *)
(* requests in flight, whatever a commit is reported as.                   *)
(***************************************************************************)
EXTENDS ChangeFeed, TLAPS

----------------------------------------------------------------------------
(* Types.                                                                  *)

(* The records a handler and a stream start from.                          *)
LEMMA StartTypes == NoCall \in Call /\ Closed \in Conn
BY DEF NoCall, Call, Closed, Conn, Phase, Event

(* What a handler calls, or whom it leaves unheard, is well typed.         *)
LEMMA CallTypes ==
  ASSUME TypeOK, NEW h \in Handler, NEW call \in {"publish", "revoke", "disconnect"},
         NEW d \in Device \cup {None}, NEW seq \in Nat,
         NEW writes \in SUBSET Nat, NEW ends \in SUBSET (Device \X Nat),
         Calls(h, call, d, seq) \/ CallsNobody(writes, ends)
  PROVE  /\ handler' \in [Handler -> Call]
         /\ unheardWrites' \subseteq Nat /\ unheardEnds' \subseteq Device \X Nat
<1>1. [call |-> call, device |-> d, seq |-> seq] \in Call
  BY DEF Call
<1>2. CASE Calls(h, call, d, seq)
  BY <1>1, <1>2 DEF Calls, history, TypeOK
<1>3. CASE CallsNobody(writes, ends)
  BY <1>3 DEF CallsNobody, TypeOK
<1> QED
  BY <1>2, <1>3

(* A write keeps the types.                                                *)
LEMMA WriteTypes ==
  ASSUME TypeOK, NEW h \in Handler, NEW d \in Device \cup {None}, Write(h, d)
  PROVE  TypeOK'
<1>1. changeSeq + 1 \in Nat
  BY DEF TypeOK, changeSeq
<1>2. {changeSeq + 1} \in SUBSET Nat /\ {} \in SUBSET (Device \X Nat)
  BY <1>1
<1>3. /\ handler' \in [Handler -> Call]
      /\ unheardWrites' \subseteq Nat /\ unheardEnds' \subseteq Device \X Nat
  BY <1>1, <1>2, CallTypes DEF Write
<1> QED
  BY <1>3 DEF Write, TypeOK

(* So does the end of a credential.                                        *)
LEMMA EndTypes ==
  ASSUME TypeOK, NEW h \in Handler, NEW d \in Device, NEW call \in {"revoke", "disconnect"},
         NEW row \in [status : {"absent", "active", "revoked", "removed"}, token : Nat],
         EndCredential(h, d, row, call)
  PROVE  TypeOK'
<1> DEFINE ended == {<<d, devices[d].token>>}
<1>1. {} \in SUBSET Nat /\ ended \in SUBSET (Device \X Nat)
      /\ call \in {"publish", "revoke", "disconnect"} /\ 0 \in Nat
  BY DEF TypeOK
<1>2. Calls(h, call, d, 0) \/ CallsNobody({}, ended)
  BY DEF EndCredential
<1> HIDE DEF ended
<1>3. /\ handler' \in [Handler -> Call]
      /\ unheardWrites' \subseteq Nat /\ unheardEnds' \subseteq Device \X Nat
  BY <1>1, <1>2, CallTypes
<1> QED
  BY <1>3 DEF EndCredential, TypeOK

(* The broker's calls touch the channels only.                             *)
LEMMA BrokerTypes ==
  ASSUME TypeOK
  PROVE  /\ \A excluded : Published(excluded) \in [Stream -> Conn]
         /\ \A d : \A event \in Event : Delivered(event, d) \in [Stream -> Conn]
<1>1. stream \in [Stream -> Conn]
  BY DEF TypeOK
<1>2. \A s \in Stream : \A event \in Event : [stream[s] EXCEPT !.event = event] \in Conn
  BY <1>1 DEF Conn
<1>3. "changes" \in Event
  BY DEF Event
<1> QED
  BY <1>1, <1>2, <1>3 DEF Published, Delivered

(* A stream moves on as its handler's steps do.                            *)
LEMMA ConnSteps ==
  ASSUME NEW c \in Conn
  PROVE  /\ \A p \in Phase : [c EXCEPT !.phase = p] \in Conn
         /\ \A p \in Phase, end \in Nat, more \in BOOLEAN :
              [c EXCEPT !.phase = p, !.end = end, !.more = more] \in Conn
         /\ \A p \in Phase :
              [c EXCEPT !.phase = p, !.cursor = c.end, !.end = 0, !.more = FALSE] \in Conn
         /\ \A p \in Phase : [c EXCEPT !.phase = p, !.event = "none"] \in Conn
<1>1. \A p \in Phase : [c EXCEPT !.phase = p] \in Conn
  BY DEF Conn
<1>2. \A p \in Phase, end \in Nat, more \in BOOLEAN :
        [c EXCEPT !.phase = p, !.end = end, !.more = more] \in Conn
  BY DEF Conn
<1>3. \A p \in Phase :
        [c EXCEPT !.phase = p, !.cursor = c.end, !.end = 0, !.more = FALSE] \in Conn
  BY DEF Conn
<1>4. \A p \in Phase : [c EXCEPT !.phase = p, !.event = "none"] \in Conn
  BY DEF Conn, Event
<1> QED
  BY <1>1, <1>2, <1>3, <1>4

(* A new account without devices is well typed.                            *)
LEMMA TypeInit == Init => TypeOK
BY StartTypes DEF Init, TypeOK

(* Every step keeps the types: one case per action.                        *)
LEMMA TypeStep == TypeOK /\ [Next]_vars => TypeOK'
<1> SUFFICES ASSUME TypeOK, [Next]_vars  PROVE TypeOK'
  OBVIOUS
<1> USE FeedAssumption
<1>0. changeSeq \in Nat
  BY DEF TypeOK, changeSeq
<1>1. ASSUME NEW h \in Handler, NEW d \in Device, Push(h, d)  PROVE TypeOK'
  BY <1>1, WriteTypes DEF Push
<1>2. ASSUME NEW h \in Handler, OperatorWrite(h)  PROVE TypeOK'
  BY <1>2, WriteTypes DEF OperatorWrite
<1>3. ASSUME NEW h \in Handler, NEW d \in Device, RevokeDevice(h, d)  PROVE TypeOK'
  <2>1. [devices[d] EXCEPT !.status = "revoked"]
          \in [status : {"absent", "active", "revoked", "removed"}, token : Nat]
    BY DEF TypeOK
  <2> QED
    BY <1>3, <2>1, EndTypes DEF RevokeDevice
<1>4. ASSUME NEW h \in Handler, NEW d \in Device, RegisterDevice(h, d)  PROVE TypeOK'
  <2>1. [status |-> "active", token |-> devices[d].token + 1]
          \in [status : {"absent", "active", "revoked", "removed"}, token : Nat]
    BY DEF TypeOK
  <2> QED
    BY <1>4, <2>1, EndTypes DEF RegisterDevice
<1>5. ASSUME NEW gone \in SUBSET Device, DeleteRevokedDevices(gone)  PROVE TypeOK'
  BY <1>5 DEF DeleteRevokedDevices, TypeOK, history
<1>6. ASSUME NEW h \in Handler, Announce(h)  PROVE TypeOK'
  <2>1. stream' \in [Stream -> Conn]
    BY <1>6, BrokerTypes DEF Announce, Event
  <2> QED
    BY <1>6, <2>1, StartTypes DEF Announce, TypeOK, history
<1>7. ASSUME NEW s \in Stream, NEW d \in Device, NEW since \in 0..changeSeq, Open(s, d, since)
      PROVE  TypeOK'
  <2>1. devices[d].token \in Nat /\ since \in Nat
    BY <1>0 DEF TypeOK, history
  <2>2. \A token \in Nat : [Closed EXCEPT !.phase = "opened", !.device = d, !.token = token,
                                          !.cursor = since] \in Conn
    BY <2>1 DEF Closed, Conn, Phase, Event
  <2> QED
    BY <1>7, <2>1, <2>2 DEF Open, TypeOK, history
<1>8. ASSUME NEW s \in Stream, Subscribe(s)  PROVE TypeOK'
  BY <1>8, ConnSteps DEF Subscribe, TypeOK, Phase, history
<1>9. ASSUME NEW s \in Stream, Revalidate(s)  PROVE TypeOK'
  BY <1>9, StartTypes, ConnSteps DEF Revalidate, TypeOK, Phase, history
<1>10. ASSUME NEW s \in Stream, ReadPage(s)  PROVE TypeOK'
  <2>1. PICK end \in {changeSeq} \cup (stream[s].cursor + 1)..changeSeq :
          stream' = [stream EXCEPT ![s] =
            [stream[s] EXCEPT !.phase = "sending", !.end = end, !.more = end < changeSeq]]
    BY <1>10 DEF ReadPage
  <2>2. stream[s] \in Conn /\ (end < changeSeq) \in BOOLEAN /\ "sending" \in Phase /\ end \in Nat
    BY <1>0, <2>1 DEF TypeOK, Phase, Conn
  <2>3. stream' \in [Stream -> Conn]
    BY <2>1, <2>2, ConnSteps DEF TypeOK, history
  <2> QED
    BY <1>10, <2>3 DEF ReadPage, TypeOK, history
<1>11. ASSUME NEW s \in Stream, SendPage(s)  PROVE TypeOK'
  BY <1>11, ConnSteps DEF SendPage, TypeOK, Phase, history
<1>12. ASSUME NEW s \in Stream, Wake(s)  PROVE TypeOK'
  BY <1>12, ConnSteps DEF Wake, TypeOK, Phase, history
<1>13. ASSUME NEW s \in Stream, Finish(s) \/ Close(s)  PROVE TypeOK'
  BY <1>13, StartTypes DEF Finish, Close, TypeOK, history
<1>14. CASE Restart
  BY <1>14, StartTypes DEF Restart, TypeOK, history
<1>15. CASE UNCHANGED vars
  BY <1>15 DEF vars, TypeOK, history
<1> QED
  BY <1>1, <1>2, <1>3, <1>4, <1>5, <1>6, <1>7, <1>8, <1>9, <1>10, <1>11, <1>12,
     <1>13, <1>14, <1>15 DEF Next

(* Every reachable state has the types of TypeOK.                          *)
THEOREM FeedTypeCorrect == Spec => []TypeOK
<1>1. Init => TypeOK
  BY TypeInit
<1>2. TypeOK /\ [Next]_vars => TypeOK'
  BY TypeStep
<1> QED
  BY <1>1, <1>2, PTL DEF Spec

----------------------------------------------------------------------------
(* No lost wakeup.                                                         *)

(* Whatever lies above `from` is the stream's own, unheard of or still to  *)
(* be announced.                                                           *)
Covered(s, from) ==
  \A seq \in (from + 1)..changeSeq :
    log[seq] # stream[s].device /\ seq \notin unheardWrites => ~Announced(seq)

(* A handler announces what its device wrote.                              *)
CallsTrue ==
  \A h \in Handler : handler[h].call = "publish" =>
    handler[h].seq \in 1..changeSeq /\ log[handler[h].seq] = handler[h].device

(* What a stream will have sent when it waits again.                       *)
SendingCovered ==
  \A s \in Stream :
    stream[s].phase = "sending" /\ ~stream[s].more /\ stream[s].event = "none" =>
      Covered(s, stream[s].end)
WaitingCovered ==
  \A s \in Stream : stream[s].phase = "waiting" /\ stream[s].event = "none" =>
    Covered(s, stream[s].cursor)

(* The inductive invariant: the property, the same of the last page being  *)
(* sent, and what the calls in flight stand for.                           *)
WakeInv == TypeOK /\ CallsTrue /\ SendingCovered /\ WaitingCovered

(* A handler with nothing to call announces nothing.                       *)
LEMMA OtherCallsStay ==
  ASSUME TypeOK, NEW h \in Handler, handler[h] = NoCall,
         NEW c \in Call, handler' = [handler EXCEPT ![h] = c], NEW seq, ~Announced(seq)
  PROVE  ~Announced(seq)'
BY DEF TypeOK, Announced, NoCall

(* A new sequence that is announced, or that nobody is told of, leaves     *)
(* every stream covered.                                                   *)
LEMMA NewWriteCovered ==
  ASSUME WakeInv, TypeOK', NEW h \in Handler, NEW d, NEW n \in Nat, n = changeSeq,
         changeSeq' = n + 1, log'[n + 1] = d, \A seq \in 1..n : log'[seq] = log[seq],
         stream' = stream, \A g \in Handler : g # h => handler'[g] = handler[g],
         handler'[h].call = "publish" => handler'[h].seq = n + 1 /\ handler'[h].device = d,
         unheardWrites \subseteq unheardWrites',
         \A seq : ~Announced(seq) => ~Announced(seq)',
         n + 1 \in unheardWrites' \/ ~Announced(n + 1)'
  PROVE  WakeInv'
<1>1. ASSUME NEW s \in Stream, NEW from \in Nat, Covered(s, from)
      PROVE  \A seq \in (from + 1)..(n + 1) :
               log'[seq] # stream[s].device /\ seq \notin unheardWrites' => ~Announced(seq)'
  <2>1. ASSUME NEW seq \in (from + 1)..n, log'[seq] # stream[s].device,
               seq \notin unheardWrites'
        PROVE  ~Announced(seq)'
    <3>1. seq \in 1..n /\ seq \in (from + 1)..changeSeq /\ seq \notin unheardWrites
      BY <2>1
    <3>2. log'[seq] = log[seq]
      BY <3>1
    <3>3. ~Announced(seq)
      BY <1>1, <2>1, <3>1, <3>2 DEF Covered
    <3> QED
      BY <3>3
  <2>2. \A seq \in (from + 1)..(n + 1) : seq \in (from + 1)..n \/ seq = n + 1
    OBVIOUS
  <2> QED
    BY <2>1, <2>2
<1>2. \A s \in Stream : stream[s].end \in Nat /\ stream[s].cursor \in Nat
  BY DEF WakeInv, TypeOK, Conn
<1>3. CallsTrue'
  <2>1. ASSUME NEW g \in Handler, handler'[g].call = "publish"
        PROVE  handler'[g].seq \in 1..(n + 1) /\ log'[handler'[g].seq] = handler'[g].device
    <3>1. CASE g = h
      <4>1. n + 1 \in 1..(n + 1)
        OBVIOUS
      <4> QED
        BY <2>1, <3>1, <4>1
    <3>2. CASE g # h
      <4>1. handler'[g] = handler[g]
        BY <3>2
      <4>2. handler[g].seq \in 1..n /\ log[handler[g].seq] = handler[g].device
        BY <2>1, <4>1 DEF WakeInv, CallsTrue
      <4>3. handler[g].seq \in 1..(n + 1) /\ log'[handler[g].seq] = log[handler[g].seq]
        BY <4>2
      <4> QED
        BY <4>1, <4>2, <4>3
    <3> QED
      BY <3>1, <3>2
  <2> QED
    BY <2>1 DEF CallsTrue
<1>4. ASSUME NEW s \in Stream, NEW from \in Nat, Covered(s, from), stream'[s] = stream[s]
      PROVE  \A seq \in (from + 1)..changeSeq' :
               log'[seq] # stream'[s].device /\ seq \notin unheardWrites' => ~Announced(seq)'
  BY <1>1, <1>4
<1>5. SendingCovered' /\ WaitingCovered'
  BY <1>2, <1>4 DEF WakeInv, SendingCovered, WaitingCovered, Covered
<1> QED
  BY <1>3, <1>5 DEF WakeInv

(* A write takes the next sequence and is announced by its handler, or     *)
(* nobody is told of it.                                                   *)
LEMMA WriteKeepsWakes ==
  ASSUME WakeInv, NEW h \in Handler, NEW d \in Device \cup {None}, Write(h, d), TypeOK'
  PROVE  WakeInv'
<1>0. PICK n \in Nat : n = changeSeq
  BY DEF WakeInv, TypeOK, changeSeq
<1>1. /\ changeSeq' = n + 1 /\ log'[n + 1] = d
      /\ \A seq \in 1..n : log'[seq] = log[seq]
  BY <1>0 DEF Write, WakeInv, TypeOK, changeSeq
<1>2. stream' = stream /\ handler[h] = NoCall
  BY DEF Write
<1>3. CASE Calls(h, "publish", d, n + 1)
  <2>1. [call |-> "publish", device |-> d, seq |-> n + 1] \in Call
    BY <1>0 DEF Call
  <2>2. handler' = [handler EXCEPT
          ![h] = [call |-> "publish", device |-> d, seq |-> n + 1]]
    BY <1>3 DEF Calls
  <2>3. \A seq : ~Announced(seq) => ~Announced(seq)'
    BY <1>2, <2>1, <2>2, OtherCallsStay DEF WakeInv
  <2>4. handler'[h].call = "publish" /\ handler'[h].seq = n + 1 /\ handler'[h].device = d
    BY <2>2 DEF WakeInv, TypeOK
  <2>5. ~Announced(n + 1)'
    BY <2>4 DEF Announced
  <2>6. \A g \in Handler : g # h => handler'[g] = handler[g]
    BY <2>2 DEF WakeInv, TypeOK
  <2>7. unheardWrites \subseteq unheardWrites'
    BY <1>3 DEF Calls, history
  <2> QED
    BY <1>0, <1>1, <1>2, <2>3, <2>4, <2>5, <2>6, <2>7, NewWriteCovered
<1>4. CASE CallsNobody({n + 1}, {})
  <2>1. handler' = handler /\ n + 1 \in unheardWrites' /\ unheardWrites \subseteq unheardWrites'
    BY <1>4 DEF CallsNobody
  <2>2. \A seq : ~Announced(seq) => ~Announced(seq)'
    BY <2>1 DEF Announced
  <2>3. handler'[h].call = "none"
    BY <1>2, <2>1 DEF NoCall
  <2> QED
    BY <1>0, <1>1, <1>2, <2>1, <2>2, <2>3, NewWriteCovered
<1> QED
  BY <1>0, <1>3, <1>4 DEF Write

(* Calls that announce no write change nothing either.                     *)
LEMMA QuietCallKeepsWakes ==
  ASSUME WakeInv, NEW h \in Handler, handler[h] = NoCall,
         NEW c \in Call, c.call # "publish", handler' = [handler EXCEPT ![h] = c],
         UNCHANGED <<log, stream, unheardWrites>>, TypeOK'
  PROVE  WakeInv'
<1>1. \A seq : ~Announced(seq) => ~Announced(seq)'
  BY OtherCallsStay DEF WakeInv
<1>2. changeSeq' = changeSeq
  BY DEF changeSeq
<1>3. \A s \in Stream : \A from : Covered(s, from) => Covered(s, from)'
  BY <1>1, <1>2 DEF Covered
<1>4. CallsTrue'
  BY <1>2 DEF WakeInv, CallsTrue, TypeOK
<1> QED
  BY <1>1, <1>2, <1>4 DEF WakeInv, SendingCovered, WaitingCovered, Covered

(* The broker is told.                                                     *)
LEMMA AnnounceKeepsWakes ==
  ASSUME WakeInv, NEW h \in Handler, Announce(h), TypeOK'
  PROVE  WakeInv'
<1>1. /\ changeSeq' = changeSeq /\ log' = log /\ unheardWrites' = unheardWrites
      /\ handler' = [handler EXCEPT ![h] = NoCall]
  BY DEF Announce, changeSeq, history
<1>2. CallsTrue'
  BY <1>1 DEF WakeInv, CallsTrue, TypeOK, NoCall
<1>3. ASSUME NEW s \in Stream, stream'[s].phase \in {"sending", "waiting"},
             stream'[s].event = "none"
      PROVE  /\ stream'[s] = stream[s]
             /\ handler[h].call = "publish" => stream[s].device = handler[h].device
  <2>1. CASE handler[h].call = "publish"
    BY <1>3, <2>1 DEF Announce, Published, Subscribed, WakeInv, TypeOK, Conn
  <2>2. CASE handler[h].call = "revoke"
    BY <1>3, <2>2 DEF Announce, Delivered, WakeInv, TypeOK, Conn
  <2>3. CASE handler[h].call = "disconnect"
    BY <1>3, <2>3 DEF Announce, Delivered, WakeInv, TypeOK, Conn
  <2> QED
    BY <2>1, <2>2, <2>3 DEF Announce
<1>4. ASSUME NEW s \in Stream, stream'[s].phase \in {"sending", "waiting"},
             stream'[s].event = "none", NEW from, Covered(s, from)
      PROVE  Covered(s, from)'
  <2>1. ASSUME NEW seq \in (from + 1)..changeSeq, log[seq] # stream[s].device,
               seq \notin unheardWrites
        PROVE  ~Announced(seq)'
    <3>1. PICK g \in Handler : handler[g].call = "publish" /\ handler[g].seq = seq
      BY <1>4, <2>1 DEF Covered, Announced
    <3>2. g # h
      BY <1>3, <1>4, <2>1, <3>1 DEF WakeInv, CallsTrue
    <3>3. handler'[g] = handler[g]
      BY <1>1, <3>2 DEF WakeInv, TypeOK
    <3> QED
      BY <3>1, <3>3 DEF Announced
  <2> QED
    BY <1>1, <1>3, <1>4, <2>1 DEF Covered
<1>5. SendingCovered' /\ WaitingCovered'
  BY <1>3, <1>4 DEF WakeInv, SendingCovered, WaitingCovered
<1> QED
  BY <1>2, <1>5 DEF WakeInv

(* A stream moves on, the others and the handlers do not.                  *)
LEMMA StreamKeepsWakes ==
  ASSUME WakeInv, NEW s \in Stream, UNCHANGED <<log, handler, unheardWrites>>, TypeOK',
         \A t \in Stream \ {s} : stream'[t] = stream[t],
         stream'[s].phase = "sending" /\ ~stream'[s].more /\ stream'[s].event = "none"
           => stream'[s].end = changeSeq,
         stream'[s].phase = "waiting" /\ stream'[s].event = "none"
           => /\ stream[s].phase = "sending" /\ ~stream[s].more /\ stream[s].event = "none"
              /\ stream'[s].cursor = stream[s].end /\ stream'[s].device = stream[s].device
  PROVE  WakeInv'
<1>1. changeSeq' = changeSeq /\ changeSeq \in Nat /\ \A seq : Announced(seq)' <=> Announced(seq)
  BY DEF changeSeq, Announced, WakeInv, TypeOK
<1>2. CallsTrue'
  BY <1>1 DEF WakeInv, CallsTrue
<1>3. SendingCovered'
  <2>1. ASSUME NEW t \in Stream, stream'[t].phase = "sending", ~stream'[t].more,
               stream'[t].event = "none"
        PROVE  \A seq \in (stream'[t].end + 1)..changeSeq :
                 log[seq] # stream'[t].device /\ seq \notin unheardWrites => ~Announced(seq)
    <3>1. CASE t = s
      BY <1>1, <2>1, <3>1
    <3>2. CASE t # s
      <4>1. stream'[t] = stream[t]
        BY <3>2
      <4> QED
        BY <2>1, <4>1 DEF WakeInv, SendingCovered, Covered
    <3> QED
      BY <3>1, <3>2
  <2> QED
    BY <1>1, <2>1 DEF SendingCovered, Covered
<1>4. WaitingCovered'
  <2>1. ASSUME NEW t \in Stream, stream'[t].phase = "waiting", stream'[t].event = "none"
        PROVE  \A seq \in (stream'[t].cursor + 1)..changeSeq :
                 log[seq] # stream'[t].device /\ seq \notin unheardWrites => ~Announced(seq)
    <3>1. CASE t = s
      <4>1. Covered(s, stream[s].end)
        BY <2>1, <3>1 DEF WakeInv, SendingCovered
      <4> QED
        BY <2>1, <3>1, <4>1 DEF Covered
    <3>2. CASE t # s
      <4>1. stream'[t] = stream[t]
        BY <3>2
      <4> QED
        BY <2>1, <4>1 DEF WakeInv, WaitingCovered, Covered
    <3> QED
      BY <3>1, <3>2
  <2> QED
    BY <1>1, <2>1 DEF WaitingCovered, Covered
<1> QED
  BY <1>2, <1>3, <1>4 DEF WakeInv

(* A new account has nothing to announce and nobody to tell.               *)
LEMMA WakeInit == Init => WakeInv
<1> SUFFICES ASSUME Init  PROVE WakeInv
  OBVIOUS
<1>1. \A h \in Handler : handler[h].call = "none"
  BY DEF Init, NoCall
<1>2. \A s \in Stream : stream[s].phase = "closed"
  BY DEF Init, Closed
<1> QED
  BY <1>1, <1>2, TypeInit DEF WakeInv, CallsTrue, SendingCovered, WaitingCovered

(* With the log, the handlers and the streams it stays.                    *)
LEMMA SameKeepsWakes ==
  ASSUME WakeInv, TypeOK', UNCHANGED <<log, handler, stream, unheardWrites>>
  PROVE  WakeInv'
<1>1. \A seq : Announced(seq)' <=> Announced(seq)
  BY DEF Announced
<1>2. changeSeq' = changeSeq
  BY DEF changeSeq
<1> QED
  BY <1>1, <1>2 DEF WakeInv, CallsTrue, SendingCovered, WaitingCovered, Covered

(* Signing in and revoking change no stream by themselves.                 *)
LEMMA CredentialsKeepWakes ==
  ASSUME WakeInv, TypeOK', NEW h \in Handler, NEW d \in Device, NEW row,
         NEW call \in {"revoke", "disconnect"}, EndCredential(h, d, row, call)
  PROVE  WakeInv'
<1>1. CASE Calls(h, call, d, 0)
  <2>1. handler' = [handler EXCEPT ![h] = [call |-> call, device |-> d, seq |-> 0]]
    BY <1>1 DEF Calls
  <2>2. [call |-> call, device |-> d, seq |-> 0] \in Call
    BY DEF Call
  <2>3. [call |-> call, device |-> d, seq |-> 0].call # "publish"
    OBVIOUS
  <2>4. handler[h] = NoCall /\ UNCHANGED <<log, stream, unheardWrites>>
    BY <1>1 DEF EndCredential, Calls, history
  <2> QED
    BY <2>1, <2>2, <2>3, <2>4, QuietCallKeepsWakes
<1>2. CASE CallsNobody({}, {<<d, devices[d].token>>})
  <2>1. UNCHANGED <<log, handler, stream, unheardWrites>>
    BY <1>2 DEF EndCredential, CallsNobody
  <2> QED
    BY <2>1, SameKeepsWakes
<1> QED
  BY <1>1, <1>2 DEF EndCredential

(* A stream's own steps: only a page that ends at the account's sequence   *)
(* is the last one, and only its sending makes the stream wait.            *)
LEMMA StreamStepsKeepWakes ==
  ASSUME WakeInv, TypeOK', NEW s \in Stream,
         \/ \E d \in Device, since \in 0..changeSeq : Open(s, d, since)
         \/ Subscribe(s) \/ Revalidate(s) \/ ReadPage(s) \/ SendPage(s)
         \/ Wake(s) \/ Finish(s) \/ Close(s)
  PROVE  WakeInv'
<1> DEFINE Last == stream'[s].phase = "sending" /\ ~stream'[s].more /\ stream'[s].event = "none"
                     => stream'[s].end = changeSeq
           Idle == stream'[s].phase = "waiting" /\ stream'[s].event = "none"
                     => /\ stream[s].phase = "sending" /\ ~stream[s].more
                        /\ stream[s].event = "none" /\ stream'[s].cursor = stream[s].end
                        /\ stream'[s].device = stream[s].device
           Others == UNCHANGED <<log, handler, unheardWrites>> /\ \A t \in Stream \ {s} : stream'[t] = stream[t]
<1>0. stream \in [Stream -> Conn] /\ changeSeq \in Nat
  BY DEF WakeInv, TypeOK, changeSeq
<1>1. ASSUME NEW d \in Device, NEW since \in 0..changeSeq, Open(s, d, since)
      PROVE  Last /\ Idle /\ Others
  BY <1>0, <1>1 DEF Open, Closed, history
<1>2. CASE Subscribe(s)
  <2>1. Last /\ Idle /\ Others
    BY <1>0, <1>2 DEF Subscribe, Conn, history
  <2> QED
    BY <2>1, StreamKeepsWakes
<1>3. CASE Revalidate(s)
  <2>1. Last /\ Idle /\ Others
    BY <1>0, <1>3 DEF Revalidate, Conn, Closed, history
  <2> QED
    BY <2>1, StreamKeepsWakes
<1>4. CASE ReadPage(s)
  <2>1. PICK end \in {changeSeq} \cup (stream[s].cursor + 1)..changeSeq :
          stream' = [stream EXCEPT ![s] =
            [stream[s] EXCEPT !.phase = "sending", !.end = end, !.more = end < changeSeq]]
    BY <1>4 DEF ReadPage
  <2>2. PICK n \in Nat : n = changeSeq
    BY <1>0
  <2>3. end \in Int /\ end <= n
    BY <1>0, <2>1, <2>2 DEF Conn
  <2>4. /\ stream'[s].phase = "sending" /\ stream'[s].end = end
        /\ ~stream'[s].more => ~(end < n)
    BY <1>0, <2>1, <2>2 DEF Conn
  <2>5. Last /\ Idle
    BY <2>2, <2>3, <2>4
  <2>6. Others
    BY <1>0, <1>4, <2>1 DEF ReadPage, history
  <2> QED
    BY <2>5, <2>6, StreamKeepsWakes
<1>5. CASE SendPage(s)
  <2>1. Last /\ Idle /\ Others
    BY <1>0, <1>5 DEF SendPage, Conn, history
  <2> QED
    BY <2>1, StreamKeepsWakes
<1>6. CASE Wake(s)
  <2>1. Last /\ Idle /\ Others
    BY <1>0, <1>6 DEF Wake, Conn, history
  <2> QED
    BY <2>1, StreamKeepsWakes
<1>7. CASE Finish(s) \/ Close(s)
  <2>1. Last /\ Idle /\ Others
    BY <1>0, <1>7 DEF Finish, Close, Closed, history
  <2> QED
    BY <2>1, StreamKeepsWakes
<1> QED
  BY <1>1, <1>2, <1>3, <1>4, <1>5, <1>6, <1>7, StreamKeepsWakes

(* Every step keeps the invariant.                                         *)
LEMMA WakeStep == WakeInv /\ [Next]_vars => WakeInv'
<1> SUFFICES ASSUME WakeInv, [Next]_vars  PROVE WakeInv'
  OBVIOUS
<1>0. TypeOK'
  BY TypeStep DEF WakeInv
<1>1. CASE \E h \in Handler : (\E d \in Device : Push(h, d)) \/ OperatorWrite(h)
  BY <1>0, <1>1, WriteKeepsWakes DEF Push, OperatorWrite
<1>2. CASE \E h \in Handler, d \in Device : RevokeDevice(h, d) \/ RegisterDevice(h, d)
  <2>1. PICK h \in Handler, d \in Device : RevokeDevice(h, d) \/ RegisterDevice(h, d)
    BY <1>2
  <2>2. CASE RevokeDevice(h, d)
    BY <1>0, <2>2, CredentialsKeepWakes DEF RevokeDevice
  <2>3. CASE RegisterDevice(h, d)
    BY <1>0, <2>3, CredentialsKeepWakes DEF RegisterDevice
  <2> QED
    BY <2>1, <2>2, <2>3
<1>3. CASE \E h \in Handler : Announce(h)
  BY <1>0, <1>3, AnnounceKeepsWakes
<1>4. CASE \E s \in Stream :
             \/ \E d \in Device, since \in 0..changeSeq : Open(s, d, since)
             \/ Subscribe(s) \/ Revalidate(s) \/ ReadPage(s) \/ SendPage(s)
             \/ Wake(s) \/ Finish(s) \/ Close(s)
  <2>1. PICK s \in Stream :
             \/ \E d \in Device, since \in 0..changeSeq : Open(s, d, since)
             \/ Subscribe(s) \/ Revalidate(s) \/ ReadPage(s) \/ SendPage(s)
             \/ Wake(s) \/ Finish(s) \/ Close(s)
    BY <1>4
  <2> QED
    BY <1>0, <2>1, StreamStepsKeepWakes
<1>5. CASE UNCHANGED <<log, handler, stream, unheardWrites>>
  BY <1>0, <1>5, SameKeepsWakes
<1>6. CASE Restart
  <2>1. \A h \in Handler : handler'[h].call = "none"
    BY <1>6 DEF Restart, NoCall
  <2>2. \A s \in Stream : stream'[s].phase = "closed"
    BY <1>6 DEF Restart, Closed
  <2> QED
    BY <1>0, <2>1, <2>2 DEF WakeInv, CallsTrue, SendingCovered, WaitingCovered
<1> QED
  BY <1>1, <1>2, <1>3, <1>4, <1>5, <1>6 DEF Next, vars, history, DeleteRevokedDevices

(* Every commit wakes each stream that has not sent it, through the event  *)
(* a page's read left behind, if its handler learns that it took effect.   *)
THEOREM WakeupsNeverLost == Spec => []NoLostWakeup
<1>1. Init => WakeInv
  BY WakeInit
<1>2. WakeInv /\ [Next]_vars => WakeInv'
  BY WakeStep
<1>3. WakeInv => NoLostWakeup
  BY DEF WakeInv, WaitingCovered, Covered, NoLostWakeup
<1> QED
  BY <1>1, <1>2, <1>3, PTL DEF Spec

----------------------------------------------------------------------------
(* No stream outlives its credential.                                      *)

(* An open stream is a device's.                                           *)
StreamsOwned == \A s \in Stream : stream[s].phase # "closed" => stream[s].device \in Device

(* With that and the types the property is inductive.                      *)
TokenInv == TypeOK /\ StreamsOwned /\ StreamsEndWithTheirToken

(* A stream that got past its second lookup stays as it was, to the events *)
(* that end it.                                                            *)
Past == {"revalidated", "woken", "more", "sending", "waiting"}
SameStream(s) ==
  stream'[s].phase \in Past =>
    /\ stream[s].phase \in Past
    /\ stream'[s].device = stream[s].device /\ stream'[s].token = stream[s].token
    /\ stream[s].event \in {"revoked", "disconnected"}
         => stream'[s].event \in {"revoked", "disconnected"}

(* One stream's promise, its device and token named.                       *)
EndsNext(s) ==
  stream'[s].phase \in Past =>
    \E d, token : /\ d = stream'[s].device /\ token = stream'[s].token
                  /\ \/ Authentic(d, token)'
                     \/ stream'[s].event \in {"revoked", "disconnected"}
                     \/ EndComing(d)'
                     \/ <<d, token>> \in unheardEnds'

(* With the credentials as they were too, and no end called off, it keeps  *)
(* its promise.                                                            *)
LEMMA EndsStay ==
  ASSUME TokenInv, NEW s \in Stream, SameStream(s),
         \A d \in Device : \A token :
           Authentic(d, token) =>
             Authentic(d, token)' \/ EndComing(d)' \/ <<d, token>> \in unheardEnds',
         unheardEnds \subseteq unheardEnds',
         \A d : EndComing(d) /\ stream[s].device = d /\ stream'[s].phase \in Past
           => EndComing(d)' \/ stream'[s].event \in {"revoked", "disconnected"}
  PROVE  EndsNext(s)
<1> SUFFICES ASSUME stream'[s].phase \in Past
             PROVE  \E d, token :
                      /\ d = stream'[s].device /\ token = stream'[s].token
                      /\ \/ Authentic(d, token)'
                         \/ stream'[s].event \in {"revoked", "disconnected"}
                         \/ EndComing(d)'
                         \/ <<d, token>> \in unheardEnds'
  BY DEF EndsNext
<1>1. PICK d \in Device : d = stream[s].device
  BY DEF TokenInv, StreamsOwned, SameStream, Past
<1>2. PICK token : token = stream[s].token
  OBVIOUS
<1>3. d = stream'[s].device /\ token = stream'[s].token
  BY <1>1, <1>2 DEF SameStream
<1>4. \/ Authentic(d, token) \/ EndComing(d) \/ <<d, token>> \in unheardEnds
      \/ stream[s].event \in {"revoked", "disconnected"}
  BY <1>1, <1>2 DEF TokenInv, StreamsEndWithTheirToken, SameStream, Past
<1> QED
  BY <1>1, <1>2, <1>3, <1>4 DEF SameStream

(* The promises of the streams are the property.                           *)
LEMMA EndsAll == (\A s \in Stream : EndsNext(s)) => StreamsEndWithTheirToken'
<1> SUFFICES ASSUME \A s \in Stream : EndsNext(s), NEW s \in Stream,
                    stream'[s].phase \in Past
             PROVE  \/ /\ devices'[stream'[s].device].status = "active"
                       /\ devices'[stream'[s].device].token = stream'[s].token
                    \/ stream'[s].event \in {"revoked", "disconnected"}
                    \/ \E h \in Handler : /\ handler'[h].call \in {"revoke", "disconnect"}
                                          /\ handler'[h].device = stream'[s].device
                    \/ <<stream'[s].device, stream'[s].token>> \in unheardEnds'
  BY DEF StreamsEndWithTheirToken, Authentic, EndComing, Past
<1>1. PICK d, token : /\ d = stream'[s].device /\ token = stream'[s].token
                      /\ \/ Authentic(d, token)'
                         \/ stream'[s].event \in {"revoked", "disconnected"}
                         \/ EndComing(d)'
                         \/ <<d, token>> \in unheardEnds'
  BY DEF EndsNext
<1> QED
  BY <1>1 DEF Authentic, EndComing

(* What a handler with no call takes on calls no other end off.            *)
LEMMA EndsStillComing ==
  ASSUME TypeOK, NEW h \in Handler, handler[h].call \notin {"revoke", "disconnect"},
         NEW c, handler' = [handler EXCEPT ![h] = c], NEW d, EndComing(d)
  PROVE  EndComing(d)'
<1>1. PICK g \in Handler : handler[g].call \in {"revoke", "disconnect"} /\ handler[g].device = d
  BY DEF EndComing
<1>2. handler'[g] = handler[g]
  BY <1>1 DEF TypeOK
<1> QED
  BY <1>1, <1>2 DEF EndComing

(* What a handler with no call takes on, or leaves unheard, calls no end   *)
(* off.                                                                    *)
LEMMA CallKeepsEndsComing ==
  ASSUME TypeOK, NEW h \in Handler, handler[h] = NoCall, NEW call, NEW d, NEW seq,
         NEW writes, NEW ends, Calls(h, call, d, seq) \/ CallsNobody(writes, ends)
  PROVE  /\ \A e : EndComing(e) => EndComing(e)'
         /\ unheardEnds \subseteq unheardEnds'
<1>1. CASE Calls(h, call, d, seq)
  <2>1. handler' = [handler EXCEPT ![h] = [call |-> call, device |-> d, seq |-> seq]]
    BY <1>1 DEF Calls
  <2>2. handler[h].call \notin {"revoke", "disconnect"}
    BY DEF NoCall
  <2>3. unheardEnds' = unheardEnds
    BY <1>1 DEF Calls, history
  <2> QED
    BY <2>1, <2>2, <2>3, EndsStillComing
<1>2. CASE CallsNobody(writes, ends)
  BY <1>2 DEF CallsNobody, EndComing
<1> QED
  BY <1>1, <1>2

(* A write changes no credential.                                          *)
LEMMA WritesKeepEnds ==
  ASSUME TokenInv, NEW h \in Handler, NEW d, Write(h, d)
  PROVE  StreamsEndWithTheirToken'
<1>1. UNCHANGED <<devices, stream>> /\ handler[h] = NoCall
  BY DEF Write
<1>2. (\A e : EndComing(e) => EndComing(e)') /\ unheardEnds \subseteq unheardEnds'
  BY <1>1, CallKeepsEndsComing DEF Write, TokenInv
<1>3. \A s \in Stream : SameStream(s)
  BY <1>1 DEF SameStream
<1>4. \A e, token : Authentic(e, token) => Authentic(e, token)'
  BY <1>1 DEF Authentic
<1>5. \A s \in Stream : EndsNext(s)
  BY <1>2, <1>3, <1>4, EndsStay
<1> QED
  BY <1>5, EndsAll

(* A credential ends with the call that will say so, or with nobody told.  *)
LEMMA CredentialsKeepEnds ==
  ASSUME TokenInv, NEW h \in Handler, NEW d \in Device, NEW row,
         NEW call \in {"revoke", "disconnect"}, EndCredential(h, d, row, call)
  PROVE  StreamsEndWithTheirToken'
<1>1. UNCHANGED stream /\ handler[h] = NoCall
  BY DEF EndCredential
<1>2. \A e \in Device \ {d} : devices'[e] = devices[e]
  BY DEF TokenInv, TypeOK, EndCredential
<1>3. (\A e : EndComing(e) => EndComing(e)') /\ unheardEnds \subseteq unheardEnds'
  BY <1>1, CallKeepsEndsComing DEF EndCredential, TokenInv
<1>4. EndComing(d)' \/ <<d, devices[d].token>> \in unheardEnds'
  <2>1. CASE Calls(h, call, d, 0)
    <3>1. handler'[h].call \in {"revoke", "disconnect"} /\ handler'[h].device = d
      BY <2>1 DEF Calls, TokenInv, TypeOK
    <3> QED
      BY <3>1 DEF EndComing
  <2>2. CASE CallsNobody({}, {<<d, devices[d].token>>})
    BY <2>2 DEF CallsNobody
  <2> QED
    BY <2>1, <2>2 DEF EndCredential
<1>5. ASSUME NEW e \in Device, NEW token, Authentic(e, token)
      PROVE  Authentic(e, token)' \/ EndComing(e)' \/ <<e, token>> \in unheardEnds'
  <2>1. CASE e = d
    BY <1>4, <1>5, <2>1 DEF Authentic
  <2>2. CASE e # d
    BY <1>2, <1>5, <2>2 DEF Authentic
  <2> QED
    BY <2>1, <2>2
<1>6. \A s \in Stream : SameStream(s)
  BY <1>1 DEF SameStream
<1>7. \A s \in Stream : EndsNext(s)
  BY <1>3, <1>5, <1>6, EndsStay
<1> QED
  BY <1>7, EndsAll

(* A row that is removed was revoked.                                      *)
LEMMA RemovalKeepsEnds ==
  ASSUME TokenInv, NEW gone \in SUBSET Device, DeleteRevokedDevices(gone)
  PROVE  StreamsEndWithTheirToken'
<1>1. UNCHANGED <<handler, stream, unheardEnds>>
  BY DEF DeleteRevokedDevices, history
<1>2. \A d \in Device : \A token : Authentic(d, token) => Authentic(d, token)'
  BY DEF DeleteRevokedDevices, Authentic
<1>3. \A d : EndComing(d) => EndComing(d)'
  BY <1>1 DEF EndComing
<1>4. \A s \in Stream : SameStream(s)
  BY <1>1 DEF SameStream
<1>5. \A s \in Stream : EndsNext(s)
  BY <1>1, <1>2, <1>3, <1>4, EndsStay
<1> QED
  BY <1>5, EndsAll

(* The call that ends a credential leaves its event with every subscriber. *)
LEMMA AnnounceKeepsEnds ==
  ASSUME TokenInv, NEW h \in Handler, Announce(h)
  PROVE  StreamsEndWithTheirToken'
<1>1. UNCHANGED <<devices, unheardEnds>> /\ handler' = [handler EXCEPT ![h] = NoCall]
  BY DEF Announce, history
<1>2. stream \in [Stream -> Conn]
  BY DEF TokenInv, TypeOK
<1>3. ASSUME NEW s \in Stream  PROVE SameStream(s)
  <2>1. CASE handler[h].call = "publish"
    BY <1>2, <2>1 DEF Announce, Published, SameStream, Conn
  <2>2. CASE handler[h].call = "revoke"
    BY <1>2, <2>2 DEF Announce, Delivered, SameStream, Conn
  <2>3. CASE handler[h].call = "disconnect"
    BY <1>2, <2>3 DEF Announce, Delivered, SameStream, Conn
  <2> QED
    BY <2>1, <2>2, <2>3 DEF Announce
<1>4. ASSUME NEW s \in Stream, NEW d, EndComing(d), stream[s].device = d,
             stream'[s].phase \in Past
      PROVE  EndComing(d)' \/ stream'[s].event \in {"revoked", "disconnected"}
  <2>1. PICK g \in Handler : handler[g].call \in {"revoke", "disconnect"} /\ handler[g].device = d
    BY <1>4 DEF EndComing
  <2>2. CASE g # h
    <3>1. handler'[g] = handler[g]
      BY <1>1, <2>2 DEF TokenInv, TypeOK
    <3> QED
      BY <2>1, <3>1 DEF EndComing
  <2>3. CASE g = h
    <3>1. stream[s].phase \in Past
      BY <1>3, <1>4 DEF SameStream
    <3>2. Subscribed(s) /\ stream[s].device = handler[h].device
      BY <1>4, <2>1, <2>3, <3>1 DEF Subscribed, Past
    <3>3. CASE handler[h].call = "revoke"
      BY <1>2, <3>2, <3>3 DEF Announce, Delivered, Conn
    <3>4. CASE handler[h].call = "disconnect"
      BY <1>2, <3>2, <3>4 DEF Announce, Delivered, Conn
    <3> QED
      BY <2>1, <2>3, <3>3, <3>4
  <2> QED
    BY <2>2, <2>3
<1>5. \A d, token : Authentic(d, token) => Authentic(d, token)'
  BY <1>1 DEF Authentic
<1>6. \A s \in Stream : EndsNext(s)
  BY <1>1, <1>3, <1>4, <1>5, EndsStay
<1> QED
  BY <1>6, EndsAll

(* A stream gets past its second lookup with a valid token only, and takes *)
(* no event that ends it but to end.                                       *)
LEMMA StreamStepsKeepEnds ==
  ASSUME TokenInv, NEW s \in Stream,
         \/ \E d \in Device, since \in 0..changeSeq : Open(s, d, since)
         \/ Subscribe(s) \/ Revalidate(s) \/ ReadPage(s) \/ SendPage(s)
         \/ Wake(s) \/ Finish(s) \/ Close(s)
  PROVE  StreamsEndWithTheirToken'
<1>1. UNCHANGED <<devices, handler, unheardEnds>>
  BY DEF Open, Subscribe, Revalidate, ReadPage, SendPage, Wake, Finish, Close, history
<1>2. stream \in [Stream -> Conn]
  BY DEF TokenInv, TypeOK
<1>3. PICK c : stream' = [stream EXCEPT ![s] = c]
  BY DEF Open, Subscribe, Revalidate, ReadPage, SendPage, Wake, Finish, Close
<1>4. stream'[s] = c /\ \A t \in Stream \ {s} : stream'[t] = stream[t]
  BY <1>2, <1>3
<1>5. /\ \A d, token : Authentic(d, token) => Authentic(d, token)'
      /\ \A d : EndComing(d) => EndComing(d)'
  BY <1>1 DEF Authentic, EndComing
<1>6. SameStream(s) \/ EndsNext(s)
  <2>1. CASE \E d \in Device, since \in 0..changeSeq : Open(s, d, since)
    <3>1. stream'[s].phase = "opened"
      BY <1>2, <2>1 DEF Open, Closed
    <3> QED
      BY <3>1 DEF SameStream, Past
  <2>2. CASE Subscribe(s)
    BY <1>2, <2>2 DEF Subscribe, SameStream, Past, Conn
  <2>3. CASE Revalidate(s)
    <3>1. CASE Authentic(stream[s].device, stream[s].token)
      <4>1. PICK d, token : d = stream[s].device /\ token = stream[s].token
        OBVIOUS
      <4>2. stream'[s].device = d /\ stream'[s].token = token
        BY <1>2, <2>3, <3>1, <4>1 DEF Revalidate, Conn
      <4> QED
        BY <1>5, <3>1, <4>1, <4>2 DEF EndsNext
    <3>2. CASE ~Authentic(stream[s].device, stream[s].token)
      BY <1>2, <2>3, <3>2 DEF Revalidate, Closed, SameStream, Past
    <3> QED
      BY <3>1, <3>2
  <2>4. CASE ReadPage(s)
    <3>1. PICK end, more : stream' = [stream EXCEPT ![s] =
            [stream[s] EXCEPT !.phase = "sending", !.end = end, !.more = more]]
      BY <2>4 DEF ReadPage
    <3>2. stream[s].phase \in Past
      BY <2>4 DEF ReadPage, Past
    <3> QED
      BY <1>2, <3>1, <3>2 DEF SameStream, Conn
  <2>5. CASE SendPage(s)
    BY <1>2, <2>5 DEF SendPage, SameStream, Past, Conn
  <2>6. CASE Wake(s)
    BY <1>2, <2>6 DEF Wake, SameStream, Past, Conn
  <2>7. CASE Finish(s) \/ Close(s)
    BY <1>2, <2>7 DEF Finish, Close, Closed, SameStream, Past
  <2> QED
    BY <2>1, <2>2, <2>3, <2>4, <2>5, <2>6, <2>7
<1>7. \A t \in Stream \ {s} : SameStream(t)
  BY <1>4 DEF SameStream
<1>8. \A t \in Stream : EndsNext(t)
  BY <1>1, <1>5, <1>6, <1>7, EndsStay
<1> QED
  BY <1>8, EndsAll

(* Only a device opens a stream, and it stays that device's.               *)
LEMMA OwnersStay ==
  ASSUME TokenInv, [Next]_vars
  PROVE  StreamsOwned'
<1>1. stream \in [Stream -> Conn]
  BY DEF TokenInv, TypeOK
<1>2. ASSUME NEW h \in Handler, Announce(h)  PROVE StreamsOwned'
  BY <1>1, <1>2 DEF Announce, Published, Delivered, TokenInv, StreamsOwned, Conn
<1>3. ASSUME NEW s \in Stream, NEW d \in Device, NEW since \in 0..changeSeq, Open(s, d, since)
      PROVE  StreamsOwned'
  BY <1>1, <1>3 DEF Open, Closed, TokenInv, StreamsOwned
<1>4. ASSUME NEW s \in Stream, Subscribe(s) \/ Revalidate(s) \/ SendPage(s)
                                 \/ Wake(s) \/ Finish(s) \/ Close(s)
      PROVE  StreamsOwned'
  <2>1. CASE Subscribe(s)
    BY <1>1, <2>1 DEF Subscribe, TokenInv, StreamsOwned, Conn
  <2>2. CASE Revalidate(s)
    BY <1>1, <2>2 DEF Revalidate, Closed, TokenInv, StreamsOwned, Conn
  <2>3. CASE SendPage(s)
    BY <1>1, <2>3 DEF SendPage, TokenInv, StreamsOwned, Conn
  <2>4. CASE Wake(s)
    BY <1>1, <2>4 DEF Wake, TokenInv, StreamsOwned, Conn
  <2>5. CASE Finish(s) \/ Close(s)
    BY <1>1, <2>5 DEF Finish, Close, Closed, TokenInv, StreamsOwned
  <2> QED
    BY <1>4, <2>1, <2>2, <2>3, <2>4, <2>5
<1>5. ASSUME NEW s \in Stream, ReadPage(s)  PROVE StreamsOwned'
  <2>1. PICK end, more : stream' = [stream EXCEPT ![s] =
          [stream[s] EXCEPT !.phase = "sending", !.end = end, !.more = more]]
    BY <1>5 DEF ReadPage
  <2>2. stream[s].phase # "closed"
    BY <1>5 DEF ReadPage
  <2> QED
    BY <1>1, <2>1, <2>2 DEF TokenInv, StreamsOwned, Conn
<1>6. CASE Restart
  BY <1>6 DEF Restart, Closed, StreamsOwned
<1>7. CASE UNCHANGED stream
  BY <1>7 DEF TokenInv, StreamsOwned
<1> QED
  BY <1>2, <1>3, <1>4, <1>5, <1>6, <1>7
  DEF Next, vars, Push, OperatorWrite, Write, RevokeDevice, RegisterDevice, EndCredential,
      DeleteRevokedDevices

(* Every step keeps the invariant.                                         *)
LEMMA TokenStep == TokenInv /\ [Next]_vars => TokenInv'
<1> SUFFICES ASSUME TokenInv, [Next]_vars  PROVE StreamsEndWithTheirToken'
  BY TypeStep, OwnersStay DEF TokenInv
<1>1. CASE \E h \in Handler : (\E d \in Device : Push(h, d)) \/ OperatorWrite(h)
  BY <1>1, WritesKeepEnds DEF Push, OperatorWrite
<1>2. CASE \E h \in Handler, d \in Device : RevokeDevice(h, d) \/ RegisterDevice(h, d)
  <2>1. PICK h \in Handler, d \in Device : RevokeDevice(h, d) \/ RegisterDevice(h, d)
    BY <1>2
  <2>2. CASE RevokeDevice(h, d)
    BY <2>2, CredentialsKeepEnds DEF RevokeDevice
  <2>3. CASE RegisterDevice(h, d)
    BY <2>3, CredentialsKeepEnds DEF RegisterDevice
  <2> QED
    BY <2>1, <2>2, <2>3
<1>3. CASE \E gone \in SUBSET Device : DeleteRevokedDevices(gone)
  BY <1>3, RemovalKeepsEnds
<1>4. CASE \E h \in Handler : Announce(h)
  BY <1>4, AnnounceKeepsEnds
<1>5. CASE \E s \in Stream :
             \/ \E d \in Device, since \in 0..changeSeq : Open(s, d, since)
             \/ Subscribe(s) \/ Revalidate(s) \/ ReadPage(s) \/ SendPage(s)
             \/ Wake(s) \/ Finish(s) \/ Close(s)
  <2>1. PICK s \in Stream :
             \/ \E d \in Device, since \in 0..changeSeq : Open(s, d, since)
             \/ Subscribe(s) \/ Revalidate(s) \/ ReadPage(s) \/ SendPage(s)
             \/ Wake(s) \/ Finish(s) \/ Close(s)
    BY <1>5
  <2> QED
    BY <2>1, StreamStepsKeepEnds
<1>6. CASE Restart
  <2>1. \A s \in Stream : stream'[s].phase = "closed"
    BY <1>6 DEF Restart, Closed
  <2> QED
    BY <2>1, EndsAll DEF EndsNext, Past
<1>7. CASE UNCHANGED vars
  <2>1. \A d, token : Authentic(d, token) => Authentic(d, token)'
    BY <1>7 DEF vars, Authentic
  <2>2. \A d : EndComing(d) => EndComing(d)'
    BY <1>7 DEF vars, EndComing
  <2>3. \A s \in Stream : SameStream(s)
    BY <1>7 DEF vars, SameStream
  <2>4. \A s \in Stream : EndsNext(s)
    BY <1>7, <2>1, <2>2, <2>3, EndsStay DEF vars
  <2> QED
    BY <2>4, EndsAll
<1> QED
  BY <1>1, <1>2, <1>3, <1>4, <1>5, <1>6, <1>7 DEF Next

(* A stream past its second lookup has a valid token, or its end is in its *)
(* channel or on its way there, or was reported as failed.                 *)
THEOREM StreamsNeverOutliveTokens == Spec => []StreamsEndWithTheirToken
<1>1. Init => TokenInv
  BY TypeInit DEF Init, Closed, TokenInv, StreamsOwned, StreamsEndWithTheirToken
<1>2. TokenInv /\ [Next]_vars => TokenInv'
  BY TokenStep
<1>3. TokenInv => StreamsEndWithTheirToken
  BY DEF TokenInv
<1> QED
  BY <1>1, <1>2, <1>3, PTL DEF Spec
=============================================================================
