-------------------------- MODULE ClientViewProofs --------------------------
(***************************************************************************)
(* What the server sends is what the peer was promised, for every value of *)
(* the constants.  The history of the peer (view) and the record of the    *)
(* server (client) are kept in step by every handler: that is the          *)
(* invariant, and each promise follows from it and the step that sends.    *)
(***************************************************************************)
EXTENDS ClientView, RtspServerProofs, FiniteSetTheorems

(* The requests of a buffer are newer than the answered one, in order.     *)
Ordered(buf, answered, last) ==
    /\ answered <= last
    /\ \A k \in DOMAIN buf : answered < buf[k].cseq /\ buf[k].cseq <= last
    /\ \A j, k \in DOMAIN buf : j < k => buf[j].cseq < buf[k].cseq

(* The peer knows its session as the server does.                          *)
SessionKnown(c, v) ==
    /\ v.playing = c.playing /\ v.session = c.session /\ v.stream = c.stream_id
    /\ \A t \in Track : (v.next[t] # NotSetUp) = c.tracks[t].active
    /\ c.playing => ~AuthEnabled \/ c.loopback \/ v.granted

(* And, when nothing is lost on the way, how far its media has come.       *)
MediaKnown(c, v) ==
    /\ \A t \in Track : c.tracks[t].active => v.next[t] = c.tracks[t].seq
    /\ c.playing => v.heard \/ c.waiting_for_sps

(* Of the metadata packets since PLAY the last was due by time t.          *)
Due(c, v, t) ==
    /\ v.playedAt + v.metas * MetadataInterval <= c.next_metadata
    /\ v.metas > 0 => v.playedAt + (v.metas - 1) * MetadataInterval <= t

View == [answered : Nat, granted : BOOLEAN, playing : BOOLEAN,
         session : SessionIds \cup {NoSession}, stream : Stream, next : [Track -> Int],
         heard : BOOLEAN, metas : Nat, playedAt : Nat]

PeerInv(c, v, time, read) ==
    /\ c.tcp_fd = NoFd => c = NewClient
    /\ Ordered(c.rxbuf, v.answered, c.cseq)
    /\ SessionKnown(c, v)
    /\ ~Lossy => MediaKnown(c, v)
    /\ v.playedAt <= time
    /\ c.playing => Due(c, v, read)

ViewInv ==
    /\ FlagsInv /\ now <= clock
    /\ view \in [Slot -> View]
    /\ \A i \in Slot : PeerInv(client[i], view[i], clock, now)

-----------------------------------------------------------------------------
(* The fold of a step's messages, of which there are at most three.        *)

LEMMA TopOfThree ==
    ASSUME NEW s \in SUBSET (1 .. 3), s # {}
    PROVE  Max(s) = IF 3 \in s THEN 3 ELSE IF 2 \in s THEN 2 ELSE 1
<1> DEFINE top == IF 3 \in s THEN 3 ELSE IF 2 \in s THEN 2 ELSE 1
<1>1. \A x \in s : x = 1 \/ x = 2 \/ x = 3
  OBVIOUS
<1>2. 3 \in s \/ 2 \in s \/ 1 \in s
  BY <1>1
<1>3. top \in s /\ top \in 1 .. 3 /\ \A y \in s : top >= y
  BY <1>1, <1>2
<1> HIDE DEF top
<1>4. Max(s) \in s /\ \A y \in s : Max(s) >= y
  BY <1>3 DEF Max
<1>5. Max(s) \in 1 .. 3 /\ Max(s) >= top /\ top >= Max(s)
  BY <1>3, <1>4
<1>6. Max(s) = top
  BY <1>3, <1>5
<1> QED
  BY <1>6 DEF top

(* What v becomes when the messages numbered in s are seen in order.       *)
Upto1(v, msgs, s) == IF 1 \in s THEN See(v, msgs[1]) ELSE v
Upto2(v, msgs, s) == IF 2 \in s THEN See(Upto1(v, msgs, s), msgs[2]) ELSE Upto1(v, msgs, s)
Upto3(v, msgs, s) == IF 3 \in s THEN See(Upto2(v, msgs, s), msgs[3]) ELSE Upto2(v, msgs, s)

LEMMA FoldSee ==
    ASSUME NEW v, NEW msgs, NEW n \in 0 .. 3, DOMAIN msgs = 1 .. n
    PROVE  FoldLeft(See, v, msgs) = Upto3(v, msgs, 1 .. n)
<1> DEFINE body(f, s) == IF s = {} THEN v ELSE See(f[s \ {Max(s)}], msgs[Max(s)])
           g == [s \in SUBSET (1 .. n) |-> Upto3(v, msgs, s)]
           iter == CHOOSE f : f = [s \in SUBSET (1 .. n) |-> body(f, s)]
<1>1. FoldLeft(See, v, msgs) = iter[1 .. n]
  BY DEF FoldLeft, MapThenFoldSet
<1>2. g = [s \in SUBSET (1 .. n) |-> body(g, s)]
  <2> SUFFICES ASSUME NEW s \in SUBSET (1 .. n) PROVE Upto3(v, msgs, s) = body(g, s)
    OBVIOUS
  <2>1. s \in SUBSET (1 .. 3)
    <3>1. 1 .. n \subseteq 1 .. 3
      OBVIOUS
    <3> QED
      BY <3>1
  <2>0. s \ {Max(s)} \in SUBSET (1 .. n)
    OBVIOUS
  <2>2. g[s \ {Max(s)}] = Upto3(v, msgs, s \ {Max(s)})
    BY <2>0
  <2> HIDE DEF g
  <2>3. CASE s = {}
    BY <2>3 DEF Upto1, Upto2, Upto3
  <2>4. CASE s # {}
    BY <2>1, <2>2, <2>4, TopOfThree DEF Upto1, Upto2, Upto3
  <2> QED
    BY <2>3, <2>4
<1>3. iter = [s \in SUBSET (1 .. n) |-> body(iter, s)]
  BY <1>2
<1>4. \A s \in SUBSET (1 .. n) : iter[s] = body(iter, s)
  BY <1>3
<1> HIDE DEF iter
<1>5. \A s \in SUBSET (1 .. n) : s \in SUBSET (1 .. 3)
  <2>1. 1 .. n \subseteq 1 .. 3
    OBVIOUS
  <2> QED
    BY <2>1
<1>6. \A s \in SUBSET (1 .. n) : \A x \in s : s \ {x} \in SUBSET (1 .. n)
  OBVIOUS
<1>7. iter[{}] = v
  BY <1>4
<1>8. ASSUME NEW s \in SUBSET (1 .. n), 3 \notin s, 2 \notin s
      PROVE  iter[s] = Upto1(v, msgs, s)
  <2>1. s = {} \/ s = {1}
    <3>1. \A x \in s : x \in 1 .. 3 /\ x # 3 /\ x # 2
      BY <1>5, <1>8
    <3>2. \A x \in s : x = 1
      BY <3>1
    <3> QED
      BY <3>2
  <2>2. CASE s = {}
    BY <1>7, <2>2 DEF Upto1
  <2>3. CASE s = {1}
    <3>1. Max(s) = 1 /\ s \ {1} = {}
      BY <1>5, <2>3, TopOfThree
    <3> QED
      BY <1>4, <1>7, <2>3, <3>1 DEF Upto1
  <2> QED
    BY <2>1, <2>2, <2>3
<1>9. ASSUME NEW s \in SUBSET (1 .. n), 3 \notin s
      PROVE  iter[s] = Upto2(v, msgs, s)
  <2>1. CASE 2 \notin s
    BY <1>8, <1>9, <2>1 DEF Upto2
  <2>2. CASE 2 \in s
    <3>1. Max(s) = 2 /\ s # {}
      BY <1>5, <1>9, <2>2, TopOfThree
    <3>2. iter[s \ {2}] = Upto1(v, msgs, s \ {2})
      BY <1>6, <1>8, <1>9, <2>2
    <3>3. Upto1(v, msgs, s \ {2}) = Upto1(v, msgs, s)
      BY DEF Upto1
    <3> QED
      BY <1>4, <2>2, <3>1, <3>2, <3>3 DEF Upto2
  <2> QED
    BY <2>1, <2>2
<1>10. ASSUME NEW s \in SUBSET (1 .. n) PROVE iter[s] = Upto3(v, msgs, s)
  <2>1. CASE 3 \notin s
    BY <1>9, <2>1 DEF Upto3
  <2>2. CASE 3 \in s
    <3>1. Max(s) = 3 /\ s # {}
      BY <1>5, <2>2, TopOfThree
    <3>2. iter[s \ {3}] = Upto2(v, msgs, s \ {3})
      BY <1>6, <1>9, <2>2
    <3>3. Upto2(v, msgs, s \ {3}) = Upto2(v, msgs, s)
      BY DEF Upto1, Upto2
    <3> QED
      BY <1>4, <2>2, <3>1, <3>2, <3>3 DEF Upto3
  <2> QED
    BY <2>1, <2>2
<1> QED
  BY <1>1, <1>10

LEMMA FoldNone == ASSUME NEW v PROVE FoldLeft(See, v, <<>>) = v
<1> DEFINE none == <<>>
<1>1. DOMAIN none = 1 .. 0
  OBVIOUS
<1> HIDE DEF none
<1>2. FoldLeft(See, v, none) = Upto3(v, none, 1 .. 0)
  BY <1>1, FoldSee
<1> QED
  BY <1>2 DEF Upto1, Upto2, Upto3, none

LEMMA FoldOne ==
    ASSUME NEW v, NEW msgs, DOMAIN msgs = 1 .. 1
    PROVE  FoldLeft(See, v, msgs) = See(v, msgs[1])
<1>1. FoldLeft(See, v, msgs) = Upto3(v, msgs, 1 .. 1)
  BY FoldSee
<1> QED
  BY <1>1 DEF Upto1, Upto2, Upto3

LEMMA FoldTwo ==
    ASSUME NEW v, NEW msgs, DOMAIN msgs = 1 .. 2
    PROVE  FoldLeft(See, v, msgs) = See(See(v, msgs[1]), msgs[2])
<1>1. FoldLeft(See, v, msgs) = Upto3(v, msgs, 1 .. 2)
  BY FoldSee
<1> QED
  BY <1>1 DEF Upto1, Upto2, Upto3

LEMMA FoldThree ==
    ASSUME NEW v, NEW msgs, DOMAIN msgs = 1 .. 3
    PROVE  FoldLeft(See, v, msgs) = See(See(See(v, msgs[1]), msgs[2]), msgs[3])
<1>1. FoldLeft(See, v, msgs) = Upto3(v, msgs, 1 .. 3)
  BY FoldSee
<1> QED
  BY <1>1 DEF Upto1, Upto2, Upto3

-----------------------------------------------------------------------------
(* What one step of the server is for the slot of one peer: c and d are    *)
(* its record before and after, m the reply it was sent.                   *)

KeepsSession(c, d) ==
    /\ d.tcp_fd = c.tcp_fd /\ d.loopback = c.loopback
    /\ d.stream_id = c.stream_id /\ d.session = c.session
    /\ d.playing = c.playing /\ d.waiting_for_sps = c.waiting_for_sps
    /\ d.next_metadata = c.next_metadata /\ d.tracks = c.tracks

KeepsOrder(c, d) ==
    \A a \in Nat : Ordered(c.rxbuf, a, c.cseq) => Ordered(d.rxbuf, a, d.cseq)

Silent(i) ==
    /\ out'[i] = <<>>
    /\ KeepsSession(client[i], client'[i]) /\ KeepsOrder(client[i], client'[i])
    /\ client[i].tcp_fd = NoFd => client'[i] = client[i]

Blank(d) ==
    /\ d.stream_id = 0 /\ d.session = NoSession /\ d.tracks = AllClosed
    /\ ~d.playing /\ ~d.waiting_for_sps /\ d.rxbuf = <<>> /\ d.cseq = 0

Reconnected(i) ==
    /\ out'[i] = <<>> /\ client'[i].tcp_fd # client[i].tcp_fd
    /\ Blank(client'[i])
    /\ client'[i].tcp_fd = NoFd => client'[i] = NewClient

(* The reply means nothing to the session.                                 *)
Told(c, d, m) ==
    /\ KeepsSession(c, d) /\ m.status # 500
    /\ ~Confirms(m, "SETUP") /\ ~Confirms(m, "PLAY") /\ ~Confirms(m, "TEARDOWN")

GivenTrack(c, d, m) ==
    /\ Confirms(m, "SETUP")
    /\ d.tracks[m.req.track].active /\ d.tracks[m.req.track].seq = 0
    /\ \A t \in Track : t # m.req.track => d.tracks[t] = c.tracks[t]
    /\ d.stream_id = m.req.stream /\ d.session = m.session
    /\ c.session # NoSession => m.session = c.session
    /\ d.playing = c.playing /\ d.waiting_for_sps = c.waiting_for_sps
    /\ d.next_metadata = c.next_metadata

RefusedTrack(c, d, m) ==
    /\ m.status = 500 /\ ~d.tracks[m.req.track].active
    /\ \A t \in Track : t # m.req.track => d.tracks[t] = c.tracks[t]
    /\ d.stream_id = c.stream_id /\ d.session = c.session
    /\ d.playing = c.playing /\ d.waiting_for_sps = c.waiting_for_sps
    /\ d.next_metadata = c.next_metadata

LetPlay(c, d, m) ==
    /\ Confirms(m, "PLAY")
    /\ ~AuthEnabled \/ c.loopback \/ m.req.cred
    /\ d.playing /\ d.waiting_for_sps /\ d.next_metadata = clock
    /\ d.tracks = c.tracks /\ d.stream_id = c.stream_id /\ d.session = c.session

Ended(c, d, m) ==
    /\ Confirms(m, "TEARDOWN")
    /\ ~d.playing /\ ~d.waiting_for_sps /\ d.session = NoSession
    /\ d.stream_id = c.stream_id /\ \A t \in Track : ~d.tracks[t].active

Answers(i, m) ==
    /\ m.kind = "reply" /\ m.req \in Request /\ m.cseq = client[i].rxbuf[1].cseq
    /\ m.session \in SessionIds \cup {NoSession}
    /\ client[i].rxbuf \in Seq(Item) /\ client[i].rxbuf # <<>>
    /\ client'[i].rxbuf = Tail(client[i].rxbuf) /\ client'[i].cseq = client[i].cseq
    /\ client'[i].tcp_fd = client[i].tcp_fd /\ client'[i].loopback = client[i].loopback
    /\ client[i].tcp_fd # NoFd

Replied(i) ==
    \E m : /\ Answers(i, m)
           /\ \/ /\ out'[i] = <<m>>
                 /\ \/ Told(client[i], client'[i], m)
                    \/ GivenTrack(client[i], client'[i], m)
                    \/ RefusedTrack(client[i], client'[i], m)
                    \/ LetPlay(client[i], client'[i], m)
              \/ out'[i] = Append(Byes(client[i]), m) /\ Ended(client[i], client'[i], m)

(* The track t of the slot went on by n packets.                           *)
Advanced(c, d, t, n) ==
    /\ d.tcp_fd = c.tcp_fd /\ d.loopback = c.loopback
    /\ d.stream_id = c.stream_id /\ d.session = c.session /\ d.playing = c.playing
    /\ \A u \in Track : d.tracks[u].active = c.tracks[u].active
    /\ d.tracks[t].seq = (c.tracks[t].seq + n) % SeqModulus
    /\ \A u \in Track : u # t => d.tracks[u] = c.tracks[u]

SentMetadata(i) ==
    /\ client[i].tcp_fd # NoFd
    /\ client[i].playing /\ client[i].tracks["metadata"].active
    /\ now >= client[i].next_metadata
    /\ out'[i] = <<[kind |-> "rtp", track |-> "metadata", stream |-> client[i].stream_id,
                    nal |-> "xml", seq |-> client[i].tracks["metadata"].seq,
                    marker |-> TRUE]>>
    /\ Advanced(client[i], client'[i], "metadata", 1) /\ KeepsOrder(client[i], client'[i])
    /\ client'[i].waiting_for_sps = client[i].waiting_for_sps
    /\ client'[i].next_metadata = client[i].next_metadata + MetadataInterval

SentVideo(i) == \E nal \in Nals :
    /\ client[i].tcp_fd # NoFd
    /\ Receives(client[i], nal) /\ out'[i] = VideoPackets(client[i], nal)
    /\ Advanced(client[i], client'[i], "video", Packets(nal))
    /\ KeepsOrder(client[i], client'[i])
    /\ ~client'[i].waiting_for_sps /\ client'[i].next_metadata = client[i].next_metadata

Kinds(i) == Silent(i) \/ Reconnected(i) \/ Replied(i) \/ SentMetadata(i) \/ SentVideo(i)

FreeIsNew == \A i \in Slot : client[i].tcp_fd = NoFd => client[i] = NewClient

LEMMA SameIsSilent ==
    ASSUME NEW i \in Slot, client'[i] = client[i], out'[i] = <<>>
    PROVE  Silent(i)
  BY DEF Silent, KeepsSession, KeepsOrder

LEMMA SkipKinds ==
    ASSUME TypeOK, NEW i \in Slot, client' = client, out' = Silence
    PROVE  Silent(i)
  BY SameIsSilent DEF Silence

(* Slot cur becomes c; the others do not change.                           *)
LEMMA Mine ==
    ASSUME TypeOK, NEW c, BecomeMe(c), NEW msgs, SendMe(msgs), NEW i \in Slot
    PROVE  IF i = cur THEN client'[i] = c /\ out'[i] = msgs ELSE Silent(i)
<1>1. CASE i = cur
  BY <1>1 DEF TypeOK, BecomeMe, SendMe
<1>2. CASE i # cur
  BY <1>2, SameIsSilent DEF TypeOK, BecomeMe, SendMe
<1> QED
  BY <1>1, <1>2

(* A handled request leaves the buffer and is answered by its number.      *)
LEMMA HandledAnswers ==
    ASSUME FlagsInv, Pending, NEW c, DOMAIN c = DOMAIN Me,
           c.rxbuf = Me.rxbuf, c.cseq = Me.cseq,
           c.tcp_fd = Me.tcp_fd, c.loopback = Me.loopback,
           NEW status, NEW id \in SessionIds \cup {NoSession},
           client'[cur] = [c EXCEPT !.rxbuf = Rest(@)]
    PROVE  Answers(cur, Answer(status, id))
<1>1. Req \in Request /\ Me \in Client /\ TypeOK
  BY ReqType DEF FlagsInv
<1>2. Me.rxbuf \in Seq(Item) /\ Me.rxbuf # <<>> /\ Me.tcp_fd # NoFd
  BY <1>1 DEF Client, Pending, FlagsInv, Serving
<1>3. Head(Me.rxbuf) = Me.rxbuf[1]
  BY <1>2
<1>4. /\ client'[cur].rxbuf = Tail(Me.rxbuf) /\ client'[cur].cseq = Me.cseq
      /\ client'[cur].tcp_fd = Me.tcp_fd /\ client'[cur].loopback = Me.loopback
  BY <1>1 DEF Rest, Client
<1> QED
  BY <1>1, <1>2, <1>3, <1>4 DEF Answers, Answer, Me

LEMMA ReplyOnlyKinds ==
    ASSUME FlagsInv, Pending, NEW i \in Slot, NEW status, ReplyOnly(status), status # 500,
           status = 200 => Req.method \notin {"SETUP", "PLAY", "TEARDOWN"}
    PROVE  Silent(i) \/ Replied(i)
<1> DEFINE c == [Me EXCEPT !.rxbuf = Rest(@)]
           m == Answer(status, NoSession)
<1>1. Me \in Client /\ TypeOK
  BY ReqType DEF FlagsInv
<1>2. BecomeMe(c) /\ SendMe(<<m>>)
  BY DEF ReplyOnly, Handled
<1>3. KeepsSession(Me, c)
  BY <1>1 DEF KeepsSession, Client
<1>4. CASE i = cur
  <2>1. client'[i] = c /\ out'[i] = <<m>>
    BY <1>1, <1>2, <1>4, Mine
  <2>2. Answers(i, m)
    BY <1>4, <2>1, HandledAnswers
  <2>3. Told(Me, c, m)
    BY <1>3 DEF Told, Confirms, Answer
  <2> HIDE DEF c, m
  <2> QED
    BY <1>4, <2>1, <2>2, <2>3 DEF Replied, Me
<1>5. CASE i # cur
  BY <1>1, <1>2, <1>5, Mine
<1> QED
  BY <1>4, <1>5

LEMMA SetupDoneKinds ==
    ASSUME FlagsInv, Pending, NEW i \in Slot, Req.method = "SETUP", Req.stream \in Stream,
           NEW new \in TrackRecord, new.active, new.seq = 0, SetupDone(new)
    PROVE  Silent(i) \/ Replied(i)
<1>1. Me \in Client /\ TypeOK /\ Req \in Request
  BY ReqType DEF FlagsInv
<1>2. PICK id \in IdFor(Me) :
         Handled([Me EXCEPT !.tracks[Req.track] = new, !.stream_id = Req.stream,
                            !.session = id], <<Answer(200, id)>>)
  BY DEF SetupDone
<1> DEFINE b == [Me EXCEPT !.tracks[Req.track] = new, !.stream_id = Req.stream,
                           !.session = id]
           c == [b EXCEPT !.rxbuf = Rest(@)]
           m == Answer(200, id)
<1>3. BecomeMe(c) /\ SendMe(<<m>>)
  BY <1>2 DEF Handled
<1>4. id \in SessionIds \cup {NoSession} /\ (Me.session # NoSession => id = Me.session)
  BY <1>1, <1>2 DEF IdFor, Client
<1>5. /\ DOMAIN b = DOMAIN Me /\ b.rxbuf = Me.rxbuf /\ b.cseq = Me.cseq
      /\ b.tcp_fd = Me.tcp_fd /\ b.loopback = Me.loopback
      /\ b.tracks[Req.track] = new
      /\ \A t \in Track : t # Req.track => b.tracks[t] = Me.tracks[t]
      /\ b.stream_id = Req.stream /\ b.session = id
      /\ b.playing = Me.playing /\ b.waiting_for_sps = Me.waiting_for_sps
      /\ b.next_metadata = Me.next_metadata
  BY <1>1 DEF Client, Request
<1>6. CASE i = cur
  <2>1. client'[i] = c /\ out'[i] = <<m>>
    BY <1>1, <1>3, <1>6, Mine
  <2>2. m.req = Req /\ m.status = 200 /\ m.session = id
    BY DEF Answer
  <2> HIDE DEF b
  <2>3. Answers(i, m)
    BY <1>4, <1>5, <1>6, <2>1, HandledAnswers
  <2>4. GivenTrack(Me, c, m)
    <3>1. /\ c.tracks = b.tracks /\ c.stream_id = b.stream_id /\ c.session = b.session
          /\ c.playing = b.playing /\ c.waiting_for_sps = b.waiting_for_sps
          /\ c.next_metadata = b.next_metadata
      OBVIOUS
    <3> HIDE DEF c, m
    <3> QED
      BY <1>4, <1>5, <2>2, <3>1 DEF GivenTrack, Confirms
  <2> HIDE DEF c, m
  <2> QED
    BY <1>6, <2>1, <2>3, <2>4 DEF Replied, Me
<1>7. CASE i # cur
  BY <1>1, <1>3, <1>7, Mine
<1> QED
  BY <1>6, <1>7

LEMMA SetupFailedKinds ==
    ASSUME FlagsInv, Pending, NEW i \in Slot, NEW left, ~left.active, SetupFailed(left)
    PROVE  Silent(i) \/ Replied(i)
<1>1. Me \in Client /\ TypeOK /\ Req \in Request
  BY ReqType DEF FlagsInv
<1> DEFINE b == [Me EXCEPT !.tracks[Req.track] = left]
           c == [b EXCEPT !.rxbuf = Rest(@)]
           m == Answer(500, NoSession)
<1>3. BecomeMe(c) /\ SendMe(<<m>>)
  BY DEF SetupFailed, Handled
<1>5. /\ DOMAIN b = DOMAIN Me /\ b.rxbuf = Me.rxbuf /\ b.cseq = Me.cseq
      /\ b.tcp_fd = Me.tcp_fd /\ b.loopback = Me.loopback
      /\ b.tracks[Req.track] = left
      /\ \A t \in Track : t # Req.track => b.tracks[t] = Me.tracks[t]
      /\ b.stream_id = Me.stream_id /\ b.session = Me.session
      /\ b.playing = Me.playing /\ b.waiting_for_sps = Me.waiting_for_sps
      /\ b.next_metadata = Me.next_metadata
  BY <1>1 DEF Client, Request
<1>6. CASE i = cur
  <2>1. client'[i] = c /\ out'[i] = <<m>>
    BY <1>1, <1>3, <1>6, Mine
  <2>2. m.req = Req /\ m.status = 500
    BY DEF Answer
  <2> HIDE DEF b
  <2>3. Answers(i, m)
    BY <1>5, <1>6, <2>1, HandledAnswers
  <2>4. RefusedTrack(Me, c, m)
    <3>1. /\ c.tracks = b.tracks /\ c.stream_id = b.stream_id /\ c.session = b.session
          /\ c.playing = b.playing /\ c.waiting_for_sps = b.waiting_for_sps
          /\ c.next_metadata = b.next_metadata
      OBVIOUS
    <3> HIDE DEF c, m
    <3> QED
      BY <1>5, <2>2, <3>1 DEF RefusedTrack
  <2> HIDE DEF c, m
  <2> QED
    BY <1>6, <2>1, <2>3, <2>4 DEF Replied, Me
<1>7. CASE i # cur
  BY <1>1, <1>3, <1>7, Mine
<1> QED
  BY <1>6, <1>7

LEMMA SetupKinds ==
    ASSUME FlagsInv, Setup, NEW i \in Slot
    PROVE  Silent(i) \/ Replied(i)
<1>1. Pending /\ Req.method = "SETUP"
  BY DEF Setup, SetupNoTransport, SetupTcp, SetupNoPorts, SetupUdp, SetupLastPort, SetupBy, Asks
<1>2. ClosedTrack \in TrackRecord /\ ~ClosedTrack.active /\ ClosedTrack.seq = 0
  BY ClosedTrackType DEF ClosedTrack
<1>3. Req.stream \in Stream
  BY ConstantsAssumption DEF Setup, SetupNoTransport, SetupTcp, SetupNoPorts, SetupUdp,
     SetupLastPort, SetupBy, NoStream, Asks
<1>4. CASE SetupNoTransport
  BY <1>1, <1>4, ReplyOnlyKinds DEF SetupNoTransport
<1>5. CASE SetupTcp
  <2> DEFINE new == [ClosedTrack EXCEPT !.active = TRUE, !.interleaved = TRUE]
  <2>1. new \in TrackRecord /\ new.active /\ new.seq = 0
    BY <1>2 DEF TrackRecord
  <2> HIDE DEF new
  <2> QED
    BY <1>1, <1>3, <1>5, <2>1, SetupDoneKinds DEF SetupTcp, new
<1>6. CASE SetupNoPorts
  BY <1>1, <1>2, <1>6, SetupFailedKinds DEF SetupNoPorts
<1>7. ASSUME NEW rtp \in Fds, NEW rtcp \in Fds, SetupUdp(rtp, rtcp)
      PROVE  Silent(i) \/ Replied(i)
  <2> DEFINE new == [ClosedTrack EXCEPT !.active = TRUE, !.rtp_fd = rtp, !.rtcp_fd = rtcp]
  <2>1. new \in TrackRecord /\ new.active /\ new.seq = 0
    BY <1>2 DEF TrackRecord
  <2> HIDE DEF new
  <2> QED
    BY <1>1, <1>3, <1>7, <2>1, SetupDoneKinds DEF SetupUdp, new
<1>8. ASSUME NEW rtp \in Fds, NEW rtcp \in Fds, SetupLastPort(rtp, rtcp)
      PROVE  Silent(i) \/ Replied(i)
  <2>1. ~[ClosedTrack EXCEPT !.rtp_fd = rtp, !.rtcp_fd = rtcp].active
    BY DEF ClosedTrack
  <2> QED
    BY <1>1, <1>8, <2>1, SetupFailedKinds DEF SetupLastPort
<1> QED
  BY <1>4, <1>5, <1>6, <1>7, <1>8 DEF Setup

LEMMA PlayKinds ==
    ASSUME FlagsInv, Play, NEW i \in Slot
    PROVE  Silent(i) \/ Replied(i)
<1> DEFINE b == Started(Me)
           c == [b EXCEPT !.rxbuf = Rest(@)]
           m == Answer(200, NoSession)
<1>0. Pending /\ Req.method = "PLAY" /\ AuthOk(Req)
  BY DEF Play, NamesSession, Asks
<1>1. Me \in Client /\ TypeOK /\ Req \in Request
  BY <1>0, ReqType DEF FlagsInv
<1>3. BecomeMe(c) /\ SendMe(<<m>>)
  BY DEF Play, Handled
<1>5. /\ DOMAIN b = DOMAIN Me /\ b.rxbuf = Me.rxbuf /\ b.cseq = Me.cseq
      /\ b.tcp_fd = Me.tcp_fd /\ b.loopback = Me.loopback /\ b.tracks = Me.tracks
      /\ b.stream_id = Me.stream_id /\ b.session = Me.session
      /\ b.playing /\ b.waiting_for_sps /\ b.next_metadata = clock
  BY <1>1 DEF Client, Started
<1>6. CASE i = cur
  <2>1. client'[i] = c /\ out'[i] = <<m>>
    BY <1>1, <1>3, <1>6, Mine
  <2>2. m.req = Req /\ m.status = 200
    BY DEF Answer
  <2> HIDE DEF b
  <2>3. Answers(i, m)
    BY <1>0, <1>5, <1>6, <2>1, HandledAnswers
  <2>4. LetPlay(Me, c, m)
    <3>1. /\ c.tracks = b.tracks /\ c.stream_id = b.stream_id /\ c.session = b.session
          /\ c.playing = b.playing /\ c.waiting_for_sps = b.waiting_for_sps
          /\ c.next_metadata = b.next_metadata
      OBVIOUS
    <3> HIDE DEF c, m
    <3> QED
      BY <1>0, <1>5, <2>2, <3>1 DEF LetPlay, Confirms, AuthOk
  <2> HIDE DEF c, m
  <2> QED
    BY <1>6, <2>1, <2>3, <2>4 DEF Replied, Me
<1>7. CASE i # cur
  BY <1>1, <1>3, <1>7, Mine
<1> QED
  BY <1>6, <1>7

LEMMA TeardownKinds ==
    ASSUME FlagsInv, Teardown, NEW i \in Slot
    PROVE  Silent(i) \/ Replied(i)
<1> DEFINE b == SessionReset(Me)
           c == [b EXCEPT !.rxbuf = Rest(@)]
           m == Answer(200, NoSession)
<1>0. Pending /\ Req.method = "TEARDOWN"
  BY DEF Teardown, NamesSession, Asks
<1>1. Me \in Client /\ TypeOK /\ Req \in Request
  BY <1>0, ReqType DEF FlagsInv
<1>3. BecomeMe(c) /\ SendMe(Append(Byes(Me), m))
  BY DEF Teardown, Handled
<1>5. /\ DOMAIN b = DOMAIN Me /\ b.rxbuf = Me.rxbuf /\ b.cseq = Me.cseq
      /\ b.tcp_fd = Me.tcp_fd /\ b.loopback = Me.loopback
      /\ \A t \in Track : ~b.tracks[t].active
      /\ b.stream_id = Me.stream_id /\ b.session = NoSession
      /\ ~b.playing /\ ~b.waiting_for_sps
  BY <1>1 DEF Client, SessionReset, AllClosed, ClosedTrack
<1>6. CASE i = cur
  <2>1. client'[i] = c /\ out'[i] = Append(Byes(Me), m)
    BY <1>1, <1>3, <1>6, Mine
  <2>2. m.req = Req /\ m.status = 200
    BY DEF Answer
  <2> HIDE DEF b
  <2>3. Answers(i, m)
    BY <1>0, <1>5, <1>6, <2>1, HandledAnswers
  <2>4. Ended(Me, c, m)
    <3>1. /\ c.tracks = b.tracks /\ c.stream_id = b.stream_id /\ c.session = b.session
          /\ c.playing = b.playing /\ c.waiting_for_sps = b.waiting_for_sps
      OBVIOUS
    <3> HIDE DEF c, m
    <3> QED
      BY <1>0, <1>5, <2>2, <3>1 DEF Ended, Confirms
  <2> HIDE DEF c, m
  <2> QED
    BY <1>6, <2>1, <2>3, <2>4 DEF Replied, Me
<1>7. CASE i # cur
  BY <1>1, <1>3, <1>7, Mine
<1> QED
  BY <1>6, <1>7

LEMMA HandleKinds ==
    ASSUME FlagsInv, Handle, NEW i \in Slot
    PROVE  Silent(i) \/ Replied(i)
<1>1. CASE Setup
  BY <1>1, SetupKinds
<1>2. CASE Play
  BY <1>2, PlayKinds
<1>3. CASE Teardown
  BY <1>3, TeardownKinds
<1>4. CASE \/ Unauthorized \/ Options \/ GetParameter \/ UnknownMethod
           \/ StreamNotFound \/ Describe \/ BadSession
  <2>1. /\ Pending
        /\ \E status : /\ ReplyOnly(status) /\ status # 500
                       /\ status = 200 => Req.method \notin {"SETUP", "PLAY", "TEARDOWN"}
    <3>1. SessionStatus(Req) \in {200, 400, 454}
      BY DEF SessionStatus
    <3> QED
      BY <1>4, <3>1 DEF Unauthorized, Options, GetParameter, UnknownMethod, StreamNotFound,
         NoStream, Describe, BadSession, Asks
  <2> QED
    BY <2>1, ReplyOnlyKinds
<1> QED
  BY <1>1, <1>2, <1>3, <1>4 DEF Handle

(* A batch of new requests is numbered on from the last one.               *)
LEMMA BatchOrdered ==
    ASSUME NEW c \in Client, NEW a \in Nat, Ordered(c.rxbuf, a, c.cseq),
           NEW n \in Nat, NEW added \in Seq(Item), Len(added) = n,
           \A k \in 1 .. n : added[k].cseq = c.cseq + k
    PROVE  Ordered(c.rxbuf \o added, a, c.cseq + n)
<1> DEFINE old == c.rxbuf
           new == old \o added
<1>1. old \in Seq(Item) /\ c.cseq \in Nat /\ Len(old) \in Nat
  BY DEF Client
<1> HIDE DEF old
<1>2. /\ DOMAIN new = 1 .. (Len(old) + n) /\ DOMAIN old = 1 .. Len(old)
      /\ \A k \in 1 .. Len(old) : new[k] = old[k]
      /\ \A k \in (Len(old) + 1) .. (Len(old) + n) : new[k] = added[k - Len(old)]
  <2>1. new \in Seq(Item) /\ Len(new) = Len(old) + n
    <3>1. \A s, t \in Seq(Item) : s \o t \in Seq(Item)
      OBVIOUS
    <3>2. \A s, t \in Seq(Item) : Len(s \o t) = Len(s) + Len(t)
      OBVIOUS
    <3> QED
      BY <1>1, <3>1, <3>2
  <2>2. DOMAIN new = 1 .. (Len(old) + n) /\ DOMAIN old = 1 .. Len(old)
    BY <1>1, <2>1
  <2>3. \A k \in 1 .. Len(old) : new[k] = old[k]
    BY <1>1
  <2>4. \A k \in (Len(old) + 1) .. (Len(old) + n) : new[k] = added[k - Len(old)]
    BY <1>1
  <2> QED
    BY <2>2, <2>3, <2>4
<1>3. \A k \in 1 .. Len(old) : old[k].cseq \in Nat
  <2>1. \A k \in 1 .. Len(old) : old[k] \in Item
    BY <1>1
  <2> QED
    BY <2>1 DEF Item
<1> HIDE DEF new
<1>4. \A k \in 1 .. Len(old) :
         new[k].cseq \in Nat /\ a < new[k].cseq /\ new[k].cseq <= c.cseq
  BY <1>2, <1>3 DEF Ordered, old
<1>5. \A k \in (Len(old) + 1) .. (Len(old) + n) : new[k].cseq = c.cseq + (k - Len(old))
  BY <1>1, <1>2
<1>6. a <= c.cseq + n
  BY <1>1 DEF Ordered
<1>7. ASSUME NEW k \in DOMAIN new PROVE a < new[k].cseq /\ new[k].cseq <= c.cseq + n
  <2>1. CASE k \in 1 .. Len(old)
    BY <1>1, <1>4, <2>1
  <2>2. CASE k \in (Len(old) + 1) .. (Len(old) + n)
    BY <1>1, <1>5, <2>2 DEF Ordered
  <2> QED
    BY <1>1, <1>2, <2>1, <2>2
<1>8. ASSUME NEW j \in DOMAIN new, NEW k \in DOMAIN new, j < k
      PROVE  new[j].cseq < new[k].cseq
  <2>1. CASE k \in 1 .. Len(old)
    <3>1. j \in 1 .. Len(old) /\ new[j] = old[j] /\ new[k] = old[k]
      BY <1>1, <1>2, <1>8, <2>1
    <3>2. old[j].cseq < old[k].cseq
      BY <1>2, <1>8, <2>1, <3>1 DEF Ordered, old
    <3> QED
      BY <3>1, <3>2
  <2>2. CASE k \in (Len(old) + 1) .. (Len(old) + n)
    <3>1. CASE j \in 1 .. Len(old)
      BY <1>1, <1>4, <1>5, <2>2, <3>1
    <3>2. CASE j \in (Len(old) + 1) .. (Len(old) + n)
      BY <1>1, <1>5, <1>8, <2>2, <3>2
    <3> QED
      BY <1>1, <1>2, <3>1, <3>2
  <2> QED
    BY <1>1, <1>2, <2>1, <2>2
<1> QED
  BY <1>6, <1>7, <1>8 DEF Ordered, old, new

LEMMA ReceiveKinds ==
    ASSUME FlagsInv, Receive, NEW i \in Slot
    PROVE  Silent(i)
<1>1. TypeOK /\ Me \in Client /\ Me.tcp_fd # NoFd /\ out' = Silence
  BY DEF FlagsInv, TypeOK, Me, Receive
<1>2. PICK n \in 0 .. MaxBatch : \E batch \in [1 .. n -> Requests] :
         BecomeMe([Me EXCEPT !.rxbuf = @ \o Numbered(batch, n), !.cseq = @ + n])
  BY DEF Receive
<1>3. PICK batch \in [1 .. n -> Requests] :
         BecomeMe([Me EXCEPT !.rxbuf = @ \o Numbered(batch, n), !.cseq = @ + n])
  BY <1>2
<1> DEFINE added == Numbered(batch, n)
           c == [Me EXCEPT !.rxbuf = Me.rxbuf \o added, !.cseq = Me.cseq + n]
<1>4. added \in Seq(Item) /\ Len(added) = n /\ n \in Nat
      /\ \A k \in 1 .. n : added[k].cseq = Me.cseq + k
  BY <1>1, ConstantsAssumption DEF Numbered, Item, Client
<1> HIDE DEF added
<1>5. KeepsSession(Me, c) /\ c.rxbuf = Me.rxbuf \o added /\ c.cseq = Me.cseq + n
  BY <1>1 DEF KeepsSession, Client
<1>6. BecomeMe(c)
  BY <1>3 DEF added
<1> HIDE DEF c
<1>7. KeepsOrder(Me, c)
  BY <1>1, <1>4, <1>5, BatchOrdered DEF KeepsOrder
<1>8. CASE i = cur
  <2>1. client'[i] = c
    BY <1>1, <1>6, <1>8 DEF BecomeMe, TypeOK
  <2> QED
    BY <1>1, <1>5, <1>7, <1>8, <2>1 DEF Silent, Silence, Me
<1>9. CASE i # cur
  BY <1>1, <1>6, <1>9, SameIsSilent DEF BecomeMe, TypeOK, Silence
<1> QED
  BY <1>8, <1>9

LEMMA FinishKinds ==
    ASSUME FlagsInv, FinishClient, NEW i \in Slot
    PROVE  Silent(i) \/ SentMetadata(i)
<1>1. TypeOK /\ Me \in Client /\ Me.tcp_fd # NoFd
  BY DEF FlagsInv, TypeOK, Me, Serving, FinishClient
<1> DEFINE c == [Me EXCEPT !.rxbuf = AfterOverflow(@)]
           b == BumpSeq(c, "metadata", 1)
           d == [b EXCEPT !.next_metadata = @ + MetadataInterval]
           p == [kind |-> "rtp", track |-> "metadata", stream |-> Me.stream_id,
                 nal |-> "xml", seq |-> Me.tracks["metadata"].seq, marker |-> TRUE]
<1>2. c.rxbuf = Me.rxbuf \/ c.rxbuf = <<>>
  BY <1>1 DEF AfterOverflow, Client
<1>3. KeepsSession(Me, c) /\ c.cseq = Me.cseq /\ DOMAIN c = DOMAIN Me
  BY <1>1 DEF KeepsSession, Client
<1> HIDE DEF c
<1>4. c.cseq \in Nat /\ KeepsOrder(Me, c)
  BY <1>1, <1>2, <1>3 DEF KeepsOrder, Ordered, Client
<1>5. CASE MetadataDue(Me)
  <2>1. SendMe(<<p>>) /\ BecomeMe(d)
    BY <1>5 DEF FinishClient, c
  <2>2. /\ b.tracks = [c.tracks EXCEPT !["metadata"].seq = (@ + 1) % SeqModulus]
        /\ b.tcp_fd = c.tcp_fd /\ b.loopback = c.loopback /\ b.stream_id = c.stream_id
        /\ b.session = c.session /\ b.playing = c.playing
        /\ b.waiting_for_sps = c.waiting_for_sps /\ b.next_metadata = c.next_metadata
        /\ b.rxbuf = c.rxbuf /\ b.cseq = c.cseq
    BY <1>1, <1>3 DEF BumpSeq, Client
  <2>3. DOMAIN b = DOMAIN c
    BY DEF BumpSeq
  <2> HIDE DEF b
  <2>4. /\ d.tracks = b.tracks
        /\ d.tcp_fd = b.tcp_fd /\ d.loopback = b.loopback /\ d.stream_id = b.stream_id
        /\ d.session = b.session /\ d.playing = b.playing
        /\ d.waiting_for_sps = b.waiting_for_sps
        /\ d.rxbuf = b.rxbuf /\ d.cseq = b.cseq
        /\ d.next_metadata = b.next_metadata + MetadataInterval
    BY <1>1, <1>3, <2>3 DEF Client
  <2> HIDE DEF d
  <2>5. c.tracks = Me.tracks /\ Me.tracks \in [Track -> TrackRecord]
    BY <1>1, <1>3 DEF KeepsSession, Client
  <2>6. Advanced(Me, d, "metadata", 1)
    <3>1. /\ \A u \in Track : d.tracks[u].active = Me.tracks[u].active
          /\ d.tracks["metadata"].seq = (Me.tracks["metadata"].seq + 1) % SeqModulus
          /\ \A u \in Track : u # "metadata" => d.tracks[u] = Me.tracks[u]
      BY <2>2, <2>4, <2>5 DEF Track, TrackRecord
    <3> QED
      BY <1>3, <2>2, <2>4, <3>1 DEF Advanced, KeepsSession
  <2>7. KeepsOrder(Me, d)
    BY <1>4, <2>2, <2>4 DEF KeepsOrder
  <2>8. CASE i = cur
    <3>1. client'[i] = d /\ out'[i] = <<p>>
      BY <1>1, <2>1, <2>8, Mine
    <3>2. Me.playing /\ Me.tracks["metadata"].active /\ now >= Me.next_metadata
      BY <1>5 DEF MetadataDue
    <3>3. d.waiting_for_sps = Me.waiting_for_sps
          /\ d.next_metadata = Me.next_metadata + MetadataInterval
      BY <1>3, <2>2, <2>4 DEF KeepsSession
    <3> QED
      BY <1>1, <2>6, <2>7, <2>8, <3>1, <3>2, <3>3 DEF SentMetadata, Me
  <2>9. CASE i # cur
    BY <1>1, <2>1, <2>9, Mine
  <2> QED
    BY <2>8, <2>9
<1>6. CASE ~MetadataDue(Me)
  <2>1. out' = Silence /\ BecomeMe(c)
    BY <1>6 DEF FinishClient, c
  <2>2. CASE i = cur
    <3>1. client'[i] = c
      BY <1>1, <2>1, <2>2 DEF BecomeMe, TypeOK
    <3> QED
      BY <1>1, <1>3, <1>4, <2>1, <2>2, <3>1 DEF Silent, Silence, Me
  <2>3. CASE i # cur
    BY <1>1, <2>1, <2>3, SameIsSilent DEF BecomeMe, TypeOK, Silence
  <2> QED
    BY <2>2, <2>3
<1> QED
  BY <1>5, <1>6

LEMMA PollKinds ==
    ASSUME TypeOK, FreeIsNew, NEW i \in Slot, Accept \/ Hangup \/ Close
    PROVE  Silent(i) \/ Reconnected(i)
<1>1. ASSUME out' = Silence, client'[i] = client[i]
      PROVE  Silent(i)
  BY <1>1, SameIsSilent DEF Silence
<1>2. ASSUME out' = Silence, client'[i] = NewClient
      PROVE  Silent(i) \/ Reconnected(i)
  <2>1. CASE client[i].tcp_fd = NoFd
    BY <1>1, <1>2, <2>1 DEF FreeIsNew
  <2>2. CASE client[i].tcp_fd # NoFd
    <3>1. Blank(NewClient)
      BY DEF NewClient, Blank
    <3>2. NewClient.tcp_fd = NoFd
      BY DEF NewClient
    <3> QED
      BY <1>2, <2>2, <3>1, <3>2 DEF Reconnected, Silence
  <2> QED
    BY <2>1, <2>2
<1>3. CASE NoPeer \/ RefusePeer
  BY <1>1, <1>3 DEF NoPeer, RefusePeer, StartPass
<1>4. ASSUME NEW j \in Slot, NEW fd \in Fds, AcceptPeer(j, fd)
      PROVE  Silent(i) \/ Reconnected(i)
  <2>1. PICK local \in BOOLEAN :
           client' = [client EXCEPT
              ![j] = [ClientReset(@) EXCEPT !.tcp_fd = fd, !.loopback = local]]
    BY <1>4 DEF AcceptPeer
  <2>2. out' = Silence /\ client[j].tcp_fd = NoFd /\ fd # NoFd
    BY <1>4, ConstantsAssumption DEF AcceptPeer, StartPass, NoFd
  <2>3. CASE i = j
    <3>1. client'[i] = [NewClient EXCEPT !.tcp_fd = fd, !.loopback = local]
      BY <2>1, <2>3 DEF ClientReset, TypeOK
    <3>2. client'[i].tcp_fd = fd /\ Blank(client'[i])
      BY <3>1 DEF NewClient, Blank
    <3> QED
      BY <2>2, <2>3, <3>1, <3>2 DEF Reconnected, Silence
  <2>4. CASE i # j
    BY <1>1, <2>1, <2>2, <2>4 DEF TypeOK
  <2> QED
    BY <2>3, <2>4
<1>5. CASE Hangup
  <2>1. out' = Silence /\ client' = [client EXCEPT ![cur] = NewClient]
    BY <1>5 DEF Hangup, BecomeMe, ClientReset
  <2> QED
    BY <1>1, <1>2, <2>1 DEF TypeOK
<1>6. CASE Close
  <2>1. out' = Silence /\ client'[i] = NewClient
    BY <1>6 DEF Close, ClientReset
  <2> QED
    BY <1>2, <2>1
<1> QED
  BY <1>3, <1>4, <1>5, <1>6 DEF Accept

LEMMA PushKinds ==
    ASSUME TypeOK, NEW nal \in Nals, PushNal(nal), NEW i \in Slot
    PROVE  Silent(i) \/ SentVideo(i)
<1> DEFINE c == client[i]
           b == BumpSeq(c, "video", Packets(nal))
           d == [b EXCEPT !.waiting_for_sps = FALSE]
<1>1. c \in Client
  BY DEF TypeOK
<1>2. /\ out'[i] = IF Receives(c, nal) THEN VideoPackets(c, nal) ELSE <<>>
      /\ client'[i] = IF Receives(c, nal) THEN d ELSE c
  BY DEF PushNal
<1>3. CASE ~Receives(c, nal)
  BY <1>2, <1>3, SameIsSilent
<1>4. CASE Receives(c, nal)
  <2>1. /\ b.tracks = [c.tracks EXCEPT !["video"].seq = (@ + Packets(nal)) % SeqModulus]
        /\ b.tcp_fd = c.tcp_fd /\ b.loopback = c.loopback /\ b.stream_id = c.stream_id
        /\ b.session = c.session /\ b.playing = c.playing
        /\ b.next_metadata = c.next_metadata /\ b.rxbuf = c.rxbuf /\ b.cseq = c.cseq
        /\ "waiting_for_sps" \in DOMAIN b
    BY <1>1 DEF BumpSeq, Client
  <2> HIDE DEF b
  <2>2. /\ d.tracks = b.tracks
        /\ d.tcp_fd = b.tcp_fd /\ d.loopback = b.loopback /\ d.stream_id = b.stream_id
        /\ d.session = b.session /\ d.playing = b.playing /\ ~d.waiting_for_sps
        /\ d.next_metadata = b.next_metadata /\ d.rxbuf = b.rxbuf /\ d.cseq = b.cseq
    BY <2>1
  <2>3. client'[i] = d
    BY <1>2, <1>4
  <2> HIDE DEF d
  <2>4. /\ \A u \in Track : d.tracks[u].active = c.tracks[u].active
        /\ d.tracks["video"].seq = (c.tracks["video"].seq + Packets(nal)) % SeqModulus
        /\ \A u \in Track : u # "video" => d.tracks[u] = c.tracks[u]
    <3>1. c.tracks \in [Track -> TrackRecord]
      BY <1>1 DEF Client
    <3> HIDE DEF c
    <3> QED
      BY <2>1, <2>2, <3>1 DEF Track, TrackRecord
  <2>5. Advanced(c, d, "video", Packets(nal)) /\ KeepsOrder(c, d)
    BY <2>1, <2>2, <2>4 DEF Advanced, KeepsOrder
  <2>6. c.tcp_fd # NoFd
    BY <1>4 DEF Receives
  <2> QED
    BY <1>2, <1>4, <2>1, <2>2, <2>3, <2>5, <2>6 DEF SentVideo
<1> QED
  BY <1>3, <1>4

LEMMA EachSlot ==
    ASSUME FlagsInv, FreeIsNew, Next, NEW i \in Slot
    PROVE  Kinds(i)
<1>1. TypeOK
  BY DEF FlagsInv
<1>2. CASE Accept \/ Hangup \/ Close
  BY <1>1, <1>2, PollKinds DEF Kinds
<1>3. CASE Handle
  BY <1>3, HandleKinds DEF Kinds
<1>4. CASE Receive
  BY <1>4, ReceiveKinds DEF Kinds
<1>5. CASE FinishClient
  BY <1>5, FinishKinds DEF Kinds
<1>6. CASE SkipFreeSlot \/ EndFrame \/ Outside
  <2>1. client' = client /\ out' = Silence
    BY <1>6 DEF SkipFreeSlot, EndFrame, Outside, Tick, TakeIdr
  <2> QED
    BY <1>1, <2>1, SkipKinds DEF Kinds
<1>7. ASSUME NEW nal \in Nals, PushNal(nal) PROVE Kinds(i)
  BY <1>1, <1>7, PushKinds DEF Kinds
<1> QED
  BY <1>2, <1>3, <1>4, <1>5, <1>6, <1>7 DEF Next, Loop

-----------------------------------------------------------------------------
(* What the peer makes of each kind of step. *)

LEMMA Observed ==
    ASSUME Observe, NEW i \in Slot, client'[i].tcp_fd = client[i].tcp_fd
    PROVE  \/ view'[i] = FoldLeft(See, view[i], out'[i])
           \/ Lossy /\ Sent(i, "rtp") # {} /\ view'[i] = view[i]
<1>1. PICK full \in FullSockets :
         view' = [j \in Slot |->
                    IF client'[j].tcp_fd # client[j].tcp_fd THEN Fresh
                    ELSE IF j \in full THEN view[j]
                    ELSE FoldLeft(See, view[j], out'[j])]
  BY DEF Observe
<1>2. i \in full => Lossy /\ Sent(i, "rtp") # {}
  BY <1>1 DEF FullSockets
<1> QED
  BY <1>1, <1>2

LEMMA SilentView ==
    ASSUME Observe, NEW i \in Slot, Silent(i)
    PROVE  view'[i] = view[i]
<1>1. client'[i].tcp_fd = client[i].tcp_fd /\ out'[i] = <<>>
  BY DEF Silent, KeepsSession
<1>2. Sent(i, "rtp") = {}
  BY <1>1 DEF Sent
<1>3. view'[i] = FoldLeft(See, view[i], <<>>)
  BY <1>1, <1>2, Observed
<1> QED
  BY <1>3, FoldNone

LEMMA FreshView ==
    ASSUME Observe, NEW i \in Slot, Reconnected(i)
    PROVE  view'[i] = Fresh
  BY DEF Observe, Reconnected

LEMMA ReplyView ==
    ASSUME Observe, NEW i \in Slot, NEW m, Answers(i, m), out'[i] = <<m>>
    PROVE  view'[i] = SeeReply(view[i], m)
<1>1. client'[i].tcp_fd = client[i].tcp_fd /\ m.kind = "reply"
  BY DEF Answers
<1>2. Sent(i, "rtp") = {}
  BY <1>1 DEF Sent
<1>3. view'[i] = FoldLeft(See, view[i], out'[i])
  BY <1>1, <1>2, Observed
<1>4. DOMAIN out'[i] = 1 .. 1 /\ out'[i][1] = m
  OBVIOUS
<1>5. view'[i] = See(view[i], m)
  BY <1>3, <1>4, FoldOne
<1> QED
  BY <1>1, <1>5 DEF See

LEMMA PacketView ==
    ASSUME Observe, NEW i \in Slot, client'[i].tcp_fd = client[i].tcp_fd,
           NEW n \in 1 .. 2, DOMAIN out'[i] = 1 .. n,
           \A k \in 1 .. n : out'[i][k].kind = "rtp"
    PROVE  \/ n = 1 /\ view'[i] = SeePacket(view[i], out'[i][1])
           \/ n = 2 /\ view'[i] = SeePacket(SeePacket(view[i], out'[i][1]), out'[i][2])
           \/ Lossy /\ view'[i] = view[i]
<1>1. CASE view'[i] = FoldLeft(See, view[i], out'[i])
  <2>1. \A v, k : k \in 1 .. n => See(v, out'[i][k]) = SeePacket(v, out'[i][k])
    BY DEF See
  <2>2. CASE n = 1
    <3>1. DOMAIN out'[i] = 1 .. 1
      BY <2>2
    <3>2. view'[i] = See(view[i], out'[i][1])
      BY <1>1, <3>1, FoldOne
    <3> QED
      BY <2>1, <2>2, <3>2
  <2>3. CASE n = 2
    <3>1. DOMAIN out'[i] = 1 .. 2
      BY <2>3
    <3>2. view'[i] = See(See(view[i], out'[i][1]), out'[i][2])
      BY <1>1, <3>1, FoldTwo
    <3> QED
      BY <2>1, <2>3, <3>2
  <2> QED
    BY <2>2, <2>3
<1>2. CASE Lossy /\ view'[i] = view[i]
  BY <1>2
<1> QED
  BY <1>1, <1>2, Observed

(* The messages of TEARDOWN: a BYE for each active track, then the reply.  *)
ByeOf(t) == [kind |-> "bye", track |-> t]

ByeMessages(c, m, msgs) ==
    LET v == c.tracks["video"].active
        t == c.tracks["metadata"].active
    IN  /\ v /\ t => /\ DOMAIN msgs = 1 .. 3 /\ msgs[3] = m
                     /\ msgs[1] = ByeOf("video") /\ msgs[2] = ByeOf("metadata")
        /\ v /\ ~t => DOMAIN msgs = 1 .. 2 /\ msgs[1] = ByeOf("video") /\ msgs[2] = m
        /\ ~v /\ t => DOMAIN msgs = 1 .. 2 /\ msgs[1] = ByeOf("metadata") /\ msgs[2] = m
        /\ ~v /\ ~t => DOMAIN msgs = 1 .. 1 /\ msgs[1] = m

LEMMA ByesOf ==
    ASSUME NEW c, NEW m
    PROVE  /\ ByeMessages(c, m, Append(Byes(c), m))
           /\ DOMAIN Append(Byes(c), m) = 1 .. Len(Append(Byes(c), m))
           /\ Len(Append(Byes(c), m)) \in 1 .. 3
<1> DEFINE S == {ByeOf("video"), ByeOf("metadata"), m}
           first == IF c.tracks["video"].active THEN <<ByeOf("video")>> ELSE <<>>
           second == IF c.tracks["metadata"].active THEN <<ByeOf("metadata")>> ELSE <<>>
           bytes == first \o second
           msgs == Append(bytes, m)
<1>1. Byes(c) = bytes
  BY DEF Byes, ByeOf
<1>2. first \in Seq(S) /\ second \in Seq(S) /\ m \in S
  <2>1. <<ByeOf("video")>> \in Seq(S) /\ <<ByeOf("metadata")>> \in Seq(S)
    OBVIOUS
  <2>2. <<>> \in Seq(S)
    OBVIOUS
  <2> QED
    BY <2>1, <2>2
<1>3. /\ c.tracks["video"].active => Len(first) = 1 /\ first[1] = ByeOf("video")
      /\ ~c.tracks["video"].active => Len(first) = 0
      /\ c.tracks["metadata"].active => Len(second) = 1 /\ second[1] = ByeOf("metadata")
      /\ ~c.tracks["metadata"].active => Len(second) = 0
  OBVIOUS
<1> HIDE DEF first, second, S
<1>4. /\ bytes \in Seq(S) /\ Len(bytes) = Len(first) + Len(second)
      /\ \A k \in 1 .. Len(first) : bytes[k] = first[k]
      /\ \A k \in (Len(first) + 1) .. (Len(first) + Len(second)) :
            bytes[k] = second[k - Len(first)]
  <2>1. \A s, t \in Seq(S) : s \o t \in Seq(S)
    OBVIOUS
  <2>2. \A s, t \in Seq(S) : Len(s \o t) = Len(s) + Len(t)
    OBVIOUS
  <2> QED
    BY <1>2, <2>1, <2>2
<1> HIDE DEF bytes
<1>5. /\ msgs \in Seq(S) /\ Len(msgs) = Len(bytes) + 1
      /\ \A k \in 1 .. Len(bytes) : msgs[k] = bytes[k]
      /\ msgs[Len(bytes) + 1] = m
  BY <1>2, <1>4
<1>6. DOMAIN msgs = 1 .. Len(msgs)
  BY <1>5
<1> HIDE DEF msgs
<1>7. ByeMessages(c, m, msgs) /\ Len(msgs) \in 1 .. 3
  BY <1>3, <1>4, <1>5, <1>6 DEF ByeMessages
<1> QED
  BY <1>1, <1>6, <1>7 DEF msgs

(* A view in which the next number of one track was replaced by n.         *)
LEMMA NextSet ==
    ASSUME NEW x \in View, NEW t \in Track, NEW n \in Int
    PROVE  LET y == [x EXCEPT !.next[t] = n]
           IN  /\ y \in View
               /\ y.answered = x.answered /\ y.granted = x.granted /\ y.playing = x.playing
               /\ y.session = x.session /\ y.stream = x.stream /\ y.heard = x.heard
               /\ y.metas = x.metas /\ y.playedAt = x.playedAt
               /\ \A u \in Track : y.next[u] = IF u = t THEN n ELSE x.next[u]
<1> DEFINE y == [x EXCEPT !.next[t] = n]
           nx == [x.next EXCEPT ![t] = n]
<1>1. x.next \in [Track -> Int]
  BY DEF View
<1>2. nx \in [Track -> Int] /\ \A u \in Track : nx[u] = IF u = t THEN n ELSE x.next[u]
  BY <1>1
<1>3. y = [x EXCEPT !.next = nx]
  OBVIOUS
<1> HIDE DEF nx, y
<1>4. /\ y \in View /\ y.next = nx
      /\ y.answered = x.answered /\ y.granted = x.granted /\ y.playing = x.playing
      /\ y.session = x.session /\ y.stream = x.stream /\ y.heard = x.heard
      /\ y.metas = x.metas /\ y.playedAt = x.playedAt
  BY <1>2, <1>3 DEF View
<1> QED
  BY <1>2, <1>4 DEF y

(* TEARDOWN leaves the peer as its view has it: nothing set up, no session. *)
LEMMA EndedView ==
    ASSUME Observe, NEW i \in Slot, NEW m, Answers(i, m), Confirms(m, "TEARDOWN"),
           out'[i] = Append(Byes(client[i]), m), view[i] \in View,
           SessionKnown(client[i], view[i])
    PROVE  /\ view'[i] \in View /\ view'[i].answered = m.cseq
           /\ ~view'[i].playing /\ view'[i].session = NoSession
           /\ view'[i].stream = view[i].stream /\ view'[i].playedAt = view[i].playedAt
           /\ \A t \in Track : view'[i].next[t] = NotSetUp
<1> DEFINE c == client[i]
           v == view[i]
           w(x) == [AfterTeardown(x) EXCEPT !.answered = m.cseq]
           bye(x, t) == [x EXCEPT !.next[t] = NotSetUp]
<1>1. /\ client'[i].tcp_fd = client[i].tcp_fd /\ m.kind = "reply" /\ m.cseq \in Nat
      /\ m.status = 200 /\ m.req.method = "TEARDOWN"
  <2>1. client[i].rxbuf[1] \in Item
    BY DEF Answers
  <2> QED
    BY <2>1 DEF Answers, Item, Confirms
<1>2. /\ ByeMessages(c, m, out'[i]) /\ DOMAIN out'[i] = 1 .. Len(out'[i])
      /\ Len(out'[i]) \in 1 .. 3
  BY ByesOf
<1>3. Sent(i, "rtp") = {}
  <2>1. ByeOf("video").kind # "rtp" /\ ByeOf("metadata").kind # "rtp" /\ m.kind # "rtp"
    BY <1>1 DEF ByeOf
  <2>2. \A k \in 1 .. Len(out'[i]) : out'[i][k].kind # "rtp"
    BY <1>2, <2>1 DEF ByeMessages
  <2> QED
    BY <2>2 DEF Sent
<1>4. view'[i] = FoldLeft(See, v, out'[i])
  BY <1>1, <1>3, Observed
<1>5. \A x : See(x, m) = w(x)
  BY <1>1 DEF See, SeeReply, Confirms
<1>6. \A x : See(x, ByeOf("video")) = bye(x, "video")
             /\ See(x, ByeOf("metadata")) = bye(x, "metadata")
  BY DEF See, ByeOf
<1>7. v \in View /\ v.next \in [Track -> Int]
  BY DEF View
<1>8. ASSUME NEW x \in View
      PROVE  /\ w(x) \in View /\ w(x).answered = m.cseq /\ ~w(x).playing
             /\ w(x).session = NoSession /\ w(x).stream = x.stream
             /\ w(x).playedAt = x.playedAt /\ w(x).next = x.next
  BY <1>1 DEF View, AfterTeardown
<1>9. ASSUME NEW x \in View, NEW t \in Track
      PROVE  /\ bye(x, t) \in View /\ bye(x, t).stream = x.stream
             /\ bye(x, t).playedAt = x.playedAt
             /\ \A u \in Track : bye(x, t).next[u] = IF u = t THEN NotSetUp ELSE x.next[u]
  <2>1. NotSetUp \in Int
    BY DEF NotSetUp
  <2> QED
    BY <2>1, NextSet
<1>10. "video" \in Track /\ "metadata" \in Track /\ \A t \in Track : t \in {"video", "metadata"}
  BY DEF Track
<1>11. \A t \in Track : ~c.tracks[t].active => v.next[t] = NotSetUp
  BY DEF SessionKnown
<1> HIDE DEF w, bye
<1>12. CASE c.tracks["video"].active /\ c.tracks["metadata"].active
  <2>1. /\ DOMAIN out'[i] = 1 .. 3 /\ out'[i][1] = ByeOf("video")
        /\ out'[i][2] = ByeOf("metadata") /\ out'[i][3] = m
    BY <1>2, <1>12 DEF ByeMessages
  <2>2. view'[i] = See(See(See(v, out'[i][1]), out'[i][2]), out'[i][3])
    BY <1>4, <2>1, FoldThree
  <2>3. view'[i] = w(bye(bye(v, "video"), "metadata"))
    BY <1>5, <1>6, <2>1, <2>2
  <2> DEFINE a == bye(v, "video")
             b == bye(a, "metadata")
  <2>4. a \in View /\ a.stream = v.stream /\ a.playedAt = v.playedAt
        /\ a.next["video"] = NotSetUp
    BY <1>7, <1>9, <1>10
  <2> HIDE DEF a
  <2>5. b \in View /\ b.stream = v.stream /\ b.playedAt = v.playedAt
        /\ b.next["metadata"] = NotSetUp /\ b.next["video"] = NotSetUp
    BY <1>9, <1>10, <2>4
  <2>6. view'[i] = w(b)
    BY <2>3 DEF a
  <2> HIDE DEF b
  <2> QED
    BY <1>8, <1>10, <2>5, <2>6
<1>13. CASE c.tracks["video"].active /\ ~c.tracks["metadata"].active
  <2>1. DOMAIN out'[i] = 1 .. 2 /\ out'[i][1] = ByeOf("video") /\ out'[i][2] = m
    BY <1>2, <1>13 DEF ByeMessages
  <2>2. view'[i] = See(See(v, out'[i][1]), out'[i][2])
    BY <1>4, <2>1, FoldTwo
  <2>3. view'[i] = w(bye(v, "video"))
    BY <1>5, <1>6, <2>1, <2>2
  <2> DEFINE a == bye(v, "video")
  <2>4. v.next["metadata"] = NotSetUp
    BY <1>10, <1>11, <1>13
  <2>5. a \in View /\ a.stream = v.stream /\ a.playedAt = v.playedAt
        /\ a.next["video"] = NotSetUp /\ a.next["metadata"] = NotSetUp
    BY <1>7, <1>9, <1>10, <2>4
  <2>6. view'[i] = w(a)
    BY <2>3
  <2> HIDE DEF a
  <2> QED
    BY <1>8, <1>10, <2>5, <2>6
<1>14. CASE ~c.tracks["video"].active /\ c.tracks["metadata"].active
  <2>1. DOMAIN out'[i] = 1 .. 2 /\ out'[i][1] = ByeOf("metadata") /\ out'[i][2] = m
    BY <1>2, <1>14 DEF ByeMessages
  <2>2. view'[i] = See(See(v, out'[i][1]), out'[i][2])
    BY <1>4, <2>1, FoldTwo
  <2>3. view'[i] = w(bye(v, "metadata"))
    BY <1>5, <1>6, <2>1, <2>2
  <2> DEFINE a == bye(v, "metadata")
  <2>4. v.next["video"] = NotSetUp
    BY <1>10, <1>11, <1>14
  <2>5. a \in View /\ a.stream = v.stream /\ a.playedAt = v.playedAt
        /\ a.next["metadata"] = NotSetUp /\ a.next["video"] = NotSetUp
    BY <1>7, <1>9, <1>10, <2>4
  <2>6. view'[i] = w(a)
    BY <2>3
  <2> HIDE DEF a
  <2> QED
    BY <1>8, <1>10, <2>5, <2>6
<1>15. CASE ~c.tracks["video"].active /\ ~c.tracks["metadata"].active
  <2>1. DOMAIN out'[i] = 1 .. 1 /\ out'[i][1] = m
    BY <1>2, <1>15 DEF ByeMessages
  <2>2. view'[i] = See(v, out'[i][1])
    BY <1>4, <2>1, FoldOne
  <2>3. view'[i] = w(v)
    BY <1>5, <2>1, <2>2
  <2> QED
    BY <1>7, <1>8, <1>10, <1>11, <1>15, <2>3
<1> QED
  BY <1>12, <1>13, <1>14, <1>15

-----------------------------------------------------------------------------
(* Each kind of step keeps the peer's view in step with the server's record. *)

Times ==
    /\ clock \in Nat /\ clock' \in Nat /\ now \in Nat /\ now' \in Nat
    /\ clock <= clock' /\ now <= now' /\ now' <= clock'

Before(i) ==
    /\ client[i] \in Client /\ client'[i] \in Client /\ Times /\ view[i] \in View
    /\ PeerInv(client[i], view[i], clock, now)

Kept(i) == view'[i] \in View /\ PeerInv(client'[i], view'[i], clock', now')

(* The handled request was the oldest: those that stay are newer.          *)
LEMMA TailOrdered ==
    ASSUME NEW buf \in Seq(Item), buf # <<>>, NEW a, NEW last \in Nat,
           Ordered(buf, a, last)
    PROVE  Ordered(Tail(buf), buf[1].cseq, last)
<1>1. /\ Tail(buf) \in Seq(Item) /\ Len(Tail(buf)) = Len(buf) - 1 /\ Len(buf) \in Nat \ {0}
      /\ \A k \in 1 .. Len(buf) - 1 : Tail(buf)[k] = buf[k + 1]
  OBVIOUS
<1>2. DOMAIN Tail(buf) = 1 .. Len(buf) - 1 /\ DOMAIN buf = 1 .. Len(buf)
  BY <1>1
<1>3. \A k \in DOMAIN buf : buf[k].cseq <= last
  BY DEF Ordered
<1>4. \A j, k \in DOMAIN buf : j < k => buf[j].cseq < buf[k].cseq
  BY DEF Ordered
<1>5. 1 \in DOMAIN buf /\ \A k \in 1 .. Len(buf) - 1 : k + 1 \in DOMAIN buf
  BY <1>1, <1>2
<1> QED
  BY <1>1, <1>2, <1>3, <1>4, <1>5 DEF Ordered

(* What was due stays due.                                                 *)
LEMMA DueLater ==
    ASSUME NEW c, NEW v, v.metas \in Nat, v.playedAt \in Nat,
           NEW t1 \in Nat, NEW t2 \in Nat, t1 <= t2, Due(c, v, t1)
    PROVE  Due(c, v, t2)
<1> DEFINE last == v.playedAt + (v.metas - 1) * MetadataInterval
<1>1. last \in Int
  BY ConstantsAssumption
<1>2. v.metas > 0 => last <= t1
  BY DEF Due
<1> HIDE DEF last
<1>3. v.metas > 0 => last <= t2
  BY <1>1, <1>2
<1> QED
  BY <1>3 DEF Due, last

LEMMA SilentKept ==
    ASSUME Observe, NEW i \in Slot, Before(i), Silent(i)
    PROVE  Kept(i)
<1> DEFINE c == client[i]
           d == client'[i]
           v == view[i]
<1>1. view'[i] = v
  BY SilentView
<1>2. v \in View /\ v.answered \in Nat /\ v.metas \in Nat /\ v.playedAt \in Nat
  BY DEF Before, View
<1>3. /\ c.tcp_fd = NoFd => c = NewClient
      /\ Ordered(c.rxbuf, v.answered, c.cseq) /\ SessionKnown(c, v)
      /\ ~Lossy => MediaKnown(c, v)
      /\ v.playedAt <= clock /\ (c.playing => Due(c, v, now))
  BY DEF Before, PeerInv
<1>4. Times
  BY DEF Before
<1>5. KeepsSession(c, d) /\ KeepsOrder(c, d) /\ (c.tcp_fd = NoFd => d = c)
  BY DEF Silent
<1> HIDE DEF c, d, v
<1>6. Ordered(d.rxbuf, v.answered, d.cseq)
  BY <1>2, <1>3, <1>5 DEF KeepsOrder
<1>7. SessionKnown(d, v) /\ (~Lossy => MediaKnown(d, v))
  BY <1>3, <1>5 DEF KeepsSession, SessionKnown, MediaKnown
<1>8. d.playing => Due(d, v, now')
  <2>1. Due(c, v, now) => Due(c, v, now')
    BY <1>2, <1>4, DueLater DEF Times
  <2> QED
    BY <1>3, <1>5, <2>1 DEF KeepsSession, Due
<1>9. v.playedAt <= clock'
  BY <1>2, <1>3, <1>4 DEF Times
<1>10. d.tcp_fd = NoFd => d = NewClient
  BY <1>3, <1>5 DEF KeepsSession
<1>11. PeerInv(d, v, clock', now')
  BY <1>6, <1>7, <1>8, <1>9, <1>10 DEF PeerInv
<1> QED
  BY <1>1, <1>2, <1>11 DEF Kept, d, v

LEMMA FreshKept ==
    ASSUME Observe, NEW i \in Slot, Before(i), Reconnected(i)
    PROVE  Kept(i)
<1> DEFINE d == client'[i]
<1>1. view'[i] = Fresh
  BY FreshView
<1>2. Fresh \in View
  BY DEF Fresh, View, Stream, NotSetUp
<1>3. Blank(d) /\ (d.tcp_fd = NoFd => d = NewClient)
  BY DEF Reconnected
<1>4. Times /\ d \in Client
  BY DEF Before
<1> HIDE DEF d
<1>5. Ordered(d.rxbuf, 0, d.cseq)
  BY <1>3 DEF Blank, Ordered
<1>6. SessionKnown(d, Fresh) /\ MediaKnown(d, Fresh)
  <2>1. d.playing = FALSE
    BY <1>3, <1>4 DEF Blank, Client
  <2>2. \A t \in Track : d.tracks[t].active = FALSE
    BY <1>3 DEF Blank, AllClosed, ClosedTrack
  <2>3. /\ Fresh.playing = FALSE /\ Fresh.session = NoSession /\ Fresh.stream = 0
        /\ \A t \in Track : Fresh.next[t] = NotSetUp
    BY DEF Fresh
  <2>4. d.session = NoSession /\ d.stream_id = 0
    BY <1>3 DEF Blank
  <2> QED
    BY <2>1, <2>2, <2>3, <2>4 DEF SessionKnown, MediaKnown
<1>7. Fresh.playedAt <= clock' /\ Fresh.answered = 0 /\ ~d.playing
  BY <1>3, <1>4 DEF Fresh, Times, Blank
<1>8. PeerInv(d, Fresh, clock', now')
  BY <1>3, <1>5, <1>6, <1>7 DEF PeerInv
<1> QED
  BY <1>1, <1>2, <1>8 DEF Kept, d

(* What every reply leaves true: its connection, and the requests after it. *)
LEMMA AnswersKept ==
    ASSUME NEW i \in Slot, Before(i), NEW m, Answers(i, m)
    PROVE  /\ m.cseq \in Nat /\ m.req.track \in Track
           /\ client'[i].tcp_fd # NoFd
           /\ Ordered(client'[i].rxbuf, m.cseq, client'[i].cseq)
<1> DEFINE c == client[i]
<1>1. c.rxbuf \in Seq(Item) /\ c.rxbuf # <<>> /\ c.cseq \in Nat
  BY DEF Answers, Before, Client
<1>2. c.rxbuf[1] \in Item
  BY <1>1
<1>3. m.cseq = c.rxbuf[1].cseq /\ m.req \in Request
  BY DEF Answers
<1>4. Ordered(c.rxbuf, view[i].answered, c.cseq)
  BY DEF Before, PeerInv
<1>5. Ordered(Tail(c.rxbuf), c.rxbuf[1].cseq, c.cseq)
  BY <1>1, <1>4, TailOrdered
<1>6. /\ client'[i].rxbuf = Tail(c.rxbuf) /\ client'[i].cseq = c.cseq
      /\ client'[i].tcp_fd # NoFd
  BY DEF Answers
<1> QED
  BY <1>2, <1>3, <1>5, <1>6 DEF Item, Request

LEMMA ToldKept ==
    ASSUME Observe, NEW i \in Slot, Before(i), NEW m, Answers(i, m), out'[i] = <<m>>,
           Told(client[i], client'[i], m)
    PROVE  Kept(i)
<1> DEFINE c == client[i]
           d == client'[i]
           v == view[i]
           u == view'[i]
<1>1. u = SeeReply(v, m)
  BY ReplyView
<1>2. m.cseq \in Nat /\ d.tcp_fd # NoFd /\ Ordered(d.rxbuf, m.cseq, d.cseq)
  BY AnswersKept
<1>3. u = [v EXCEPT !.answered = m.cseq]
  BY <1>1 DEF SeeReply, Told
<1>4. v \in View /\ Times /\ v.metas \in Nat /\ v.playedAt \in Nat
  BY DEF Before, View
<1>5. KeepsSession(c, d)
  BY DEF Told
<1>6. /\ SessionKnown(c, v) /\ (~Lossy => MediaKnown(c, v))
      /\ v.playedAt <= clock /\ (c.playing => Due(c, v, now))
  BY DEF Before, PeerInv
<1> HIDE DEF c, d, v, u
<1>7. /\ u \in View /\ u.answered = m.cseq
      /\ u.granted = v.granted /\ u.playing = v.playing /\ u.session = v.session
      /\ u.stream = v.stream /\ u.next = v.next /\ u.heard = v.heard
      /\ u.metas = v.metas /\ u.playedAt = v.playedAt
  BY <1>2, <1>3, <1>4 DEF View
<1>8. SessionKnown(d, u) /\ (~Lossy => MediaKnown(d, u))
  BY <1>5, <1>6, <1>7 DEF KeepsSession, SessionKnown, MediaKnown
<1>9. Due(c, v, now) => Due(c, v, now')
  BY <1>4, DueLater DEF Times
<1>10. (d.playing => Due(d, u, now')) /\ u.playedAt <= clock'
  BY <1>4, <1>5, <1>6, <1>7, <1>9 DEF KeepsSession, Due, Times
<1>11. PeerInv(d, u, clock', now')
  BY <1>2, <1>7, <1>8, <1>10 DEF PeerInv
<1> QED
  BY <1>7, <1>11 DEF Kept, d, u

LEMMA GivenKept ==
    ASSUME Observe, NEW i \in Slot, Before(i), NEW m, Answers(i, m), out'[i] = <<m>>,
           GivenTrack(client[i], client'[i], m)
    PROVE  Kept(i)
<1> DEFINE c == client[i]
           d == client'[i]
           v == view[i]
           u == view'[i]
           tr == m.req.track
           w == [v EXCEPT !.next[tr] = 0]
<1>1. u = SeeReply(v, m)
  BY ReplyView
<1>2. m.cseq \in Nat /\ tr \in Track /\ d.tcp_fd # NoFd /\ Ordered(d.rxbuf, m.cseq, d.cseq)
  BY AnswersKept
<1>3. u = [AfterSetup(v, m) EXCEPT !.answered = m.cseq]
  BY <1>1 DEF SeeReply, GivenTrack
<1>4. v \in View /\ Times /\ v.metas \in Nat /\ v.playedAt \in Nat /\ d \in Client
  BY DEF Before, View
<1>5. GivenTrack(c, d, m) /\ d.loopback = c.loopback /\ m.session \in SessionIds \cup {NoSession}
  BY DEF Answers
<1>6. /\ SessionKnown(c, v) /\ (~Lossy => MediaKnown(c, v))
      /\ v.playedAt <= clock /\ (c.playing => Due(c, v, now))
  BY DEF Before, PeerInv
<1>7. m.req.stream \in Stream
  BY <1>4, <1>5 DEF GivenTrack, Client
<1> HIDE DEF c, d, v, u, tr
<1>8. /\ w \in View
      /\ w.granted = v.granted /\ w.playing = v.playing /\ w.heard = v.heard
      /\ w.metas = v.metas /\ w.playedAt = v.playedAt
      /\ \A t \in Track : w.next[t] = IF t = tr THEN 0 ELSE v.next[t]
  BY <1>2, <1>4, NextSet
<1>9. u = [w EXCEPT !.session = m.session, !.stream = m.req.stream, !.answered = m.cseq]
  <2>1. v \in View
    BY <1>4
  <2> QED
    BY <1>3, <2>1 DEF AfterSetup, View, tr
<1> HIDE DEF w
<1>10. /\ u \in View /\ u.answered = m.cseq
       /\ u.session = m.session /\ u.stream = m.req.stream
       /\ u.granted = w.granted /\ u.playing = w.playing /\ u.next = w.next
       /\ u.heard = w.heard /\ u.metas = w.metas /\ u.playedAt = w.playedAt
  BY <1>2, <1>5, <1>7, <1>8, <1>9 DEF View
<1>11. \A t \in Track : (u.next[t] # NotSetUp) = d.tracks[t].active
  <2>1. \A t \in Track : t # tr => d.tracks[t] = c.tracks[t] /\ u.next[t] = v.next[t]
    BY <1>5, <1>8, <1>10 DEF GivenTrack, tr
  <2>2. \A t \in Track : t # tr => (u.next[t] # NotSetUp) = d.tracks[t].active
    BY <1>6, <2>1 DEF SessionKnown
  <2>3. u.next[tr] # NotSetUp
    BY <1>2, <1>8, <1>10 DEF NotSetUp
  <2>4. d.tracks[tr].active = TRUE
    BY <1>2, <1>4, <1>5 DEF GivenTrack, Client, TrackRecord, tr
  <2> QED
    BY <2>2, <2>3, <2>4
<1>12. SessionKnown(d, u)
  BY <1>5, <1>6, <1>8, <1>10, <1>11 DEF GivenTrack, SessionKnown
<1>13. ~Lossy => MediaKnown(d, u)
  BY <1>2, <1>5, <1>6, <1>8, <1>10 DEF GivenTrack, MediaKnown, tr
<1>14. Due(c, v, now) => Due(c, v, now')
  BY <1>4, DueLater DEF Times
<1>15. (d.playing => Due(d, u, now')) /\ u.playedAt <= clock'
  BY <1>4, <1>5, <1>6, <1>8, <1>10, <1>14 DEF GivenTrack, Due, Times
<1>16. PeerInv(d, u, clock', now')
  BY <1>2, <1>10, <1>12, <1>13, <1>15 DEF PeerInv
<1> QED
  BY <1>10, <1>16 DEF Kept, d, u

LEMMA RefusedKept ==
    ASSUME Observe, NEW i \in Slot, Before(i), NEW m, Answers(i, m), out'[i] = <<m>>,
           RefusedTrack(client[i], client'[i], m)
    PROVE  Kept(i)
<1> DEFINE c == client[i]
           d == client'[i]
           v == view[i]
           u == view'[i]
           tr == m.req.track
           w == [v EXCEPT !.next[tr] = NotSetUp]
<1>1. u = SeeReply(v, m)
  BY ReplyView
<1>2. m.cseq \in Nat /\ tr \in Track /\ d.tcp_fd # NoFd /\ Ordered(d.rxbuf, m.cseq, d.cseq)
  BY AnswersKept
<1>3. u = [w EXCEPT !.answered = m.cseq]
  BY <1>1 DEF SeeReply, RefusedTrack, Confirms
<1>4. v \in View /\ Times /\ v.metas \in Nat /\ v.playedAt \in Nat /\ d \in Client
  BY DEF Before, View
<1>5. RefusedTrack(c, d, m) /\ d.loopback = c.loopback
  BY DEF Answers
<1>6. /\ SessionKnown(c, v) /\ (~Lossy => MediaKnown(c, v))
      /\ v.playedAt <= clock /\ (c.playing => Due(c, v, now))
  BY DEF Before, PeerInv
<1>7. NotSetUp \in Int
  BY DEF NotSetUp
<1> HIDE DEF c, d, v, u, tr
<1>8. /\ w \in View
      /\ w.granted = v.granted /\ w.playing = v.playing /\ w.heard = v.heard
      /\ w.session = v.session /\ w.stream = v.stream
      /\ w.metas = v.metas /\ w.playedAt = v.playedAt
      /\ \A t \in Track : w.next[t] = IF t = tr THEN NotSetUp ELSE v.next[t]
  BY <1>2, <1>4, <1>7, NextSet
<1> HIDE DEF w
<1>10. /\ u \in View /\ u.answered = m.cseq
       /\ u.session = w.session /\ u.stream = w.stream
       /\ u.granted = w.granted /\ u.playing = w.playing /\ u.next = w.next
       /\ u.heard = w.heard /\ u.metas = w.metas /\ u.playedAt = w.playedAt
  BY <1>2, <1>3, <1>8 DEF View
<1>11. \A t \in Track : (u.next[t] # NotSetUp) = d.tracks[t].active
  <2>1. \A t \in Track : t # tr => d.tracks[t] = c.tracks[t] /\ u.next[t] = v.next[t]
    BY <1>5, <1>8, <1>10 DEF RefusedTrack, tr
  <2>2. \A t \in Track : t # tr => (u.next[t] # NotSetUp) = d.tracks[t].active
    BY <1>6, <2>1 DEF SessionKnown
  <2>3. u.next[tr] = NotSetUp
    BY <1>2, <1>8, <1>10
  <2>4. d.tracks[tr].active = FALSE
    BY <1>2, <1>4, <1>5 DEF RefusedTrack, Client, TrackRecord, tr
  <2> QED
    BY <2>2, <2>3, <2>4
<1>12. SessionKnown(d, u)
  BY <1>5, <1>6, <1>8, <1>10, <1>11 DEF RefusedTrack, SessionKnown
<1>13. ~Lossy => MediaKnown(d, u)
  BY <1>2, <1>5, <1>6, <1>8, <1>10 DEF RefusedTrack, MediaKnown, tr
<1>14. Due(c, v, now) => Due(c, v, now')
  BY <1>4, DueLater DEF Times
<1>15. (d.playing => Due(d, u, now')) /\ u.playedAt <= clock'
  BY <1>4, <1>5, <1>6, <1>8, <1>10, <1>14 DEF RefusedTrack, Due, Times
<1>16. PeerInv(d, u, clock', now')
  BY <1>2, <1>10, <1>12, <1>13, <1>15 DEF PeerInv
<1> QED
  BY <1>10, <1>16 DEF Kept, d, u

LEMMA PlayKept ==
    ASSUME Observe, NEW i \in Slot, Before(i), NEW m, Answers(i, m), out'[i] = <<m>>,
           LetPlay(client[i], client'[i], m)
    PROVE  Kept(i)
<1> DEFINE c == client[i]
           d == client'[i]
           v == view[i]
           u == view'[i]
<1>1. u = SeeReply(v, m)
  BY ReplyView
<1>2. m.cseq \in Nat /\ d.tcp_fd # NoFd /\ Ordered(d.rxbuf, m.cseq, d.cseq)
  BY AnswersKept
<1>3. u = [AfterPlay(v, m) EXCEPT !.answered = m.cseq]
  BY <1>1 DEF SeeReply, LetPlay, Confirms
<1>4. v \in View /\ Times /\ d \in Client
  BY DEF Before
<1>5. /\ LetPlay(c, d, m) /\ d.loopback = c.loopback /\ m.req.cred \in BOOLEAN
  BY DEF Answers, Request
<1>6. SessionKnown(c, v) /\ (~Lossy => MediaKnown(c, v))
  BY DEF Before, PeerInv
<1> HIDE DEF c, d, v, u
<1>7. /\ u \in View /\ u.answered = m.cseq /\ u.granted = m.req.cred /\ u.playing = TRUE
      /\ u.session = v.session /\ u.stream = v.stream /\ u.next = v.next
      /\ u.heard = FALSE /\ u.metas = 0 /\ u.playedAt = clock
  BY <1>2, <1>3, <1>4, <1>5 DEF View, AfterPlay, Times
<1>8. d.playing = TRUE
  BY <1>4, <1>5 DEF LetPlay, Client
<1>9. SessionKnown(d, u)
  BY <1>5, <1>6, <1>7, <1>8 DEF LetPlay, SessionKnown
<1>10. ~Lossy => MediaKnown(d, u)
  BY <1>5, <1>6, <1>7 DEF LetPlay, MediaKnown
<1>11. Due(d, u, now') /\ u.playedAt <= clock'
  <2>1. 0 * MetadataInterval = 0
    BY ConstantsAssumption
  <2> QED
    BY <1>4, <1>5, <1>7, <2>1 DEF LetPlay, Due, Times
<1>12. PeerInv(d, u, clock', now')
  BY <1>2, <1>7, <1>9, <1>10, <1>11 DEF PeerInv
<1> QED
  BY <1>7, <1>12 DEF Kept, d, u

LEMMA EndedKept ==
    ASSUME Observe, NEW i \in Slot, Before(i), NEW m, Answers(i, m),
           out'[i] = Append(Byes(client[i]), m), Ended(client[i], client'[i], m)
    PROVE  Kept(i)
<1> DEFINE c == client[i]
           d == client'[i]
           v == view[i]
           u == view'[i]
<1>1. SessionKnown(c, v) /\ v \in View /\ Times /\ d \in Client /\ v.playedAt <= clock
  BY DEF Before, PeerInv
<1>2. Ended(c, d, m)
  OBVIOUS
<1>3. /\ u \in View /\ u.answered = m.cseq /\ ~u.playing /\ u.session = NoSession
      /\ u.stream = v.stream /\ u.playedAt = v.playedAt
      /\ \A t \in Track : u.next[t] = NotSetUp
  BY <1>1, <1>2, EndedView DEF Ended
<1>4. m.cseq \in Nat /\ d.tcp_fd # NoFd /\ Ordered(d.rxbuf, m.cseq, d.cseq)
  BY AnswersKept
<1> HIDE DEF c, d, v, u
<1>5. /\ d.playing = FALSE /\ u.playing = FALSE /\ v.playedAt \in Nat
      /\ \A t \in Track : d.tracks[t].active = FALSE
  BY <1>1, <1>2, <1>3 DEF Ended, Client, View, TrackRecord
<1>6. SessionKnown(d, u) /\ MediaKnown(d, u)
  BY <1>1, <1>2, <1>3, <1>5 DEF Ended, SessionKnown, MediaKnown
<1>7. PeerInv(d, u, clock', now')
  BY <1>1, <1>3, <1>4, <1>5, <1>6 DEF PeerInv, Times
<1> QED
  BY <1>3, <1>7 DEF Kept, d, u

LEMMA RepliedKept ==
    ASSUME Observe, NEW i \in Slot, Before(i), Replied(i)
    PROVE  Kept(i)
<1>1. PICK m : /\ Answers(i, m)
               /\ \/ /\ out'[i] = <<m>>
                     /\ \/ Told(client[i], client'[i], m)
                        \/ GivenTrack(client[i], client'[i], m)
                        \/ RefusedTrack(client[i], client'[i], m)
                        \/ LetPlay(client[i], client'[i], m)
                  \/ out'[i] = Append(Byes(client[i]), m) /\ Ended(client[i], client'[i], m)
  BY DEF Replied
<1> QED
  BY <1>1, ToldKept, GivenKept, RefusedKept, PlayKept, EndedKept

(* A 16-bit counter: small values are themselves, one more twice is two more. *)
LEMMA SmallMod == ASSUME NEW q \in Nat \ {0}, NEW r \in 0 .. q - 1 PROVE r % q = r
  OBVIOUS

LEMMA TwiceMod ==
    ASSUME NEW q \in Nat \ {0}, NEW r \in 0 .. q - 1
    PROVE  (((r + 1) % q) + 1) % q = (r + 2) % q
<1>1. CASE r + 1 < q
  <2>1. (r + 1) % q = r + 1
    BY <1>1, SmallMod
  <2> QED
    BY <2>1
<1>2. CASE r + 1 = q
  <2>1. q % q = 0
    OBVIOUS
  <2>2. CASE q = 1
    OBVIOUS
  <2>3. CASE q > 1
    <3>1. 1 % q = 1
      BY <2>3, SmallMod
    <3>2. (q + 1) % q = 1
      BY <2>3
    <3> QED
      BY <1>2, <2>1, <3>1, <3>2
  <2> QED
    BY <2>2, <2>3
<1> QED
  BY <1>1, <1>2

(* A packet sent on an active track leaves the session as the peer knows it. *)
LEMMA AdvancedKnown ==
    ASSUME NEW c \in Client, NEW d \in Client, NEW v, NEW u, NEW t \in Track, NEW n \in Nat,
           SessionKnown(c, v), Advanced(c, d, t, n), c.tracks[t].active,
           u.playing = v.playing, u.session = v.session, u.stream = v.stream,
           u.granted = v.granted, u.next[t] \in Nat,
           \A x \in Track : x # t => u.next[x] = v.next[x]
    PROVE  SessionKnown(d, u)
<1>1. \A x \in Track : (u.next[x] # NotSetUp) = d.tracks[x].active
  <2>1. \A x \in Track : x # t => (u.next[x] # NotSetUp) = d.tracks[x].active
    BY DEF SessionKnown, Advanced
  <2>2. d.tracks[t].active = TRUE /\ u.next[t] # NotSetUp
    BY DEF Advanced, Client, TrackRecord, NotSetUp
  <2> QED
    BY <2>1, <2>2
<1> QED
  BY <1>1 DEF SessionKnown, Advanced

LEMMA MetadataKept ==
    ASSUME Observe, NEW i \in Slot, Before(i), SentMetadata(i)
    PROVE  Kept(i)
<1> DEFINE c == client[i]
           d == client'[i]
           v == view[i]
           u == view'[i]
           m == [kind |-> "rtp", track |-> "metadata", stream |-> c.stream_id,
                 nal |-> "xml", seq |-> c.tracks["metadata"].seq, marker |-> TRUE]
           nxt == (m.seq + 1) % SeqModulus
           w == [v EXCEPT !.next["metadata"] = nxt]
<1>1. /\ c.tcp_fd # NoFd /\ c.playing /\ c.tracks["metadata"].active
      /\ now >= c.next_metadata /\ out'[i] = <<m>>
      /\ Advanced(c, d, "metadata", 1) /\ KeepsOrder(c, d)
      /\ d.waiting_for_sps = c.waiting_for_sps
      /\ d.next_metadata = c.next_metadata + MetadataInterval
  BY DEF SentMetadata
<1>2. /\ v \in View /\ Times /\ v.metas \in Nat /\ v.playedAt \in Nat /\ v.answered \in Nat
      /\ c \in Client /\ d \in Client
  BY DEF Before, View
<1>3. /\ SessionKnown(c, v) /\ (~Lossy => MediaKnown(c, v))
      /\ v.playedAt <= clock /\ Due(c, v, now)
      /\ Ordered(c.rxbuf, v.answered, c.cseq)
  BY <1>1 DEF Before, PeerInv
<1>4. "metadata" \in Track /\ nxt \in 0 .. SeqModulus - 1 /\ nxt \in Int
  <2>1. m.seq \in Int /\ "metadata" \in Track
    BY <1>2 DEF Client, TrackRecord, Track
  <2> QED
    BY <2>1, ConstantsAssumption
<1>5. u = SeePacket(v, m) \/ u = v
  <2>1. d.tcp_fd = c.tcp_fd
    BY <1>1 DEF Advanced
  <2>2. DOMAIN out'[i] = 1 .. 1 /\ out'[i][1] = m
    BY <1>1
  <2>3. m.kind = "rtp" /\ \A k \in 1 .. 1 : k = 1
    OBVIOUS
  <2> HIDE DEF m
  <2> QED
    BY <2>1, <2>2, <2>3, PacketView
<1>6. SeePacket(v, m) = [w EXCEPT !.metas = @ + 1]
  BY DEF SeePacket
<1>7. ~Lossy => u = SeePacket(v, m)
  <2>1. d.tcp_fd = c.tcp_fd
    BY <1>1 DEF Advanced
  <2>2. DOMAIN out'[i] = 1 .. 1 /\ out'[i][1] = m
    BY <1>1
  <2>3. m.kind = "rtp" /\ \A k \in 1 .. 1 : k = 1
    OBVIOUS
  <2> HIDE DEF m
  <2> QED
    BY <2>1, <2>2, <2>3, PacketView
<1>8. m.seq = c.tracks["metadata"].seq /\ d.tracks["metadata"].seq = nxt
  BY <1>1 DEF Advanced
<1> HIDE DEF c, d, v, u, m, nxt
<1>9. /\ w \in View
      /\ w.answered = v.answered /\ w.granted = v.granted /\ w.playing = v.playing
      /\ w.heard = v.heard /\ w.session = v.session /\ w.stream = v.stream
      /\ w.metas = v.metas /\ w.playedAt = v.playedAt
      /\ \A t \in Track : w.next[t] = IF t = "metadata" THEN nxt ELSE v.next[t]
  BY <1>2, <1>4, NextSet
<1>10. /\ d.playing = c.playing /\ \A t \in Track : d.tracks[t].active = c.tracks[t].active
       /\ \A t \in Track : t # "metadata" => d.tracks[t] = c.tracks[t]
       /\ d.tcp_fd = c.tcp_fd
  BY <1>1 DEF Advanced
<1>11. Ordered(d.rxbuf, v.answered, d.cseq)
  BY <1>1, <1>2, <1>3 DEF KeepsOrder
<1>12. c.next_metadata \in Nat /\ MetadataInterval \in Nat
  BY <1>2, ConstantsAssumption DEF Client
<1>13. v.playedAt <= clock'
  BY <1>2, <1>3 DEF Times
<1> DEFINE sum == v.metas * MetadataInterval
<1>14. sum \in Nat /\ (v.metas + 1) * MetadataInterval = sum + MetadataInterval
  BY <1>2, <1>12
<1>15. v.playedAt + sum <= c.next_metadata
  BY <1>3 DEF Due
<1>16. CASE u = v
  <2>1. Lossy
    <3>1. ASSUME ~Lossy PROVE FALSE
      <4>1. u = [w EXCEPT !.metas = @ + 1]
        BY <1>6, <1>7, <3>1
      <4> HIDE DEF w
      <4>2. u.metas = v.metas + 1
        BY <1>9, <4>1 DEF View
      <4> QED
        BY <1>2, <1>16, <4>2
    <3> QED
      BY <3>1, LossyAssumption
  <2>2. SessionKnown(d, v)
    <3>1. /\ d.stream_id = c.stream_id /\ d.session = c.session /\ d.loopback = c.loopback
      BY <1>1 DEF Advanced
    <3> QED
      BY <1>3, <1>10, <3>1 DEF SessionKnown
  <2>3. Due(d, v, now')
    <3>1. Due(c, v, now')
      BY <1>2, <1>3, DueLater DEF Times
    <3> HIDE DEF sum
    <3>2. v.playedAt + sum <= d.next_metadata
      BY <1>1, <1>2, <1>12, <1>14, <1>15
    <3> QED
      BY <3>1, <3>2 DEF Due, sum
  <2>4. PeerInv(d, v, clock', now')
    BY <1>1, <1>10, <1>11, <1>13, <2>1, <2>2, <2>3 DEF PeerInv
  <2> QED
    BY <1>2, <1>16, <2>4 DEF Kept, d, u
<1>17. CASE u = SeePacket(v, m)
  <2>1. u = [w EXCEPT !.metas = @ + 1]
    BY <1>6, <1>17
  <2> HIDE DEF w
  <2>2. /\ u \in View /\ u.answered = v.answered /\ u.granted = v.granted
        /\ u.playing = v.playing /\ u.heard = v.heard /\ u.session = v.session
        /\ u.stream = v.stream /\ u.metas = v.metas + 1 /\ u.playedAt = v.playedAt
        /\ u.next = w.next
    BY <1>2, <1>9, <2>1 DEF View
  <2>3. SessionKnown(d, u)
    <3>1. u.next["metadata"] \in Nat
      BY <1>4, <1>9, <2>2
    <3>2. \A t \in Track : t # "metadata" => u.next[t] = v.next[t]
      BY <1>9, <2>2
    <3> QED
      BY <1>1, <1>2, <1>3, <1>4, <2>2, <3>1, <3>2, AdvancedKnown
  <2>4. ~Lossy => MediaKnown(d, u)
    BY <1>1, <1>3, <1>4, <1>8, <1>9, <1>10, <2>2 DEF MediaKnown
  <2>5. Due(d, u, now')
    <3>1. v.playedAt + sum <= now'
      <4> HIDE DEF sum
      <4> QED
        BY <1>1, <1>2, <1>12, <1>14, <1>15 DEF Times
    <3>2. (u.metas - 1) * MetadataInterval = sum
      BY <1>2, <1>12, <2>2
    <3>3. u.metas * MetadataInterval = sum + MetadataInterval
      BY <1>14, <2>2
    <3> HIDE DEF sum
    <3>4. v.playedAt + (sum + MetadataInterval) <= d.next_metadata
      BY <1>1, <1>2, <1>12, <1>14, <1>15
    <3> QED
      BY <2>2, <3>1, <3>2, <3>3, <3>4 DEF Due
  <2>6. PeerInv(d, u, clock', now')
    BY <1>1, <1>10, <1>11, <1>13, <2>2, <2>3, <2>4, <2>5 DEF PeerInv
  <2> QED
    BY <2>2, <2>6 DEF Kept, d, u
<1> QED
  BY <1>5, <1>16, <1>17

(* The next number the peer expects after the video packet p, once heard.   *)
LEMMA VideoSeen ==
    ASSUME NEW v \in View, NEW p, p.track = "video", p.seq \in Nat
    PROVE  LET u == SeePacket(v, p)
           IN  /\ u \in View /\ u.answered = v.answered /\ u.granted = v.granted
               /\ u.playing = v.playing /\ u.heard = TRUE /\ u.session = v.session
               /\ u.stream = v.stream /\ u.metas = v.metas /\ u.playedAt = v.playedAt
               /\ u.next["video"] = (p.seq + 1) % SeqModulus
               /\ u.next["video"] \in Nat
               /\ \A t \in Track : t # "video" => u.next[t] = v.next[t]
<1> DEFINE nxt == (p.seq + 1) % SeqModulus
           w == [v EXCEPT !.next["video"] = nxt]
           u == [w EXCEPT !.heard = TRUE]
<1>1. SeePacket(v, p) = u
  BY DEF SeePacket
<1>2. nxt \in Int /\ nxt \in Nat /\ "video" \in Track
  BY ConstantsAssumption DEF Track
<1> HIDE DEF nxt
<1>3. /\ w \in View
      /\ w.answered = v.answered /\ w.granted = v.granted /\ w.playing = v.playing
      /\ w.session = v.session /\ w.stream = v.stream
      /\ w.metas = v.metas /\ w.playedAt = v.playedAt
      /\ \A t \in Track : w.next[t] = IF t = "video" THEN nxt ELSE v.next[t]
  BY <1>2, NextSet
<1> HIDE DEF w
<1>4. /\ u \in View /\ u.answered = w.answered /\ u.granted = w.granted
      /\ u.playing = w.playing /\ u.heard = TRUE /\ u.session = w.session
      /\ u.stream = w.stream /\ u.metas = w.metas /\ u.playedAt = w.playedAt
      /\ u.next = w.next
  BY <1>3 DEF View
<1> HIDE DEF u
<1> QED
  BY <1>1, <1>2, <1>3, <1>4 DEF nxt

LEMMA VideoKept ==
    ASSUME Observe, NEW i \in Slot, Before(i), SentVideo(i)
    PROVE  Kept(i)
<1> DEFINE c == client[i]
           d == client'[i]
           v == view[i]
           u == view'[i]
           s == c.tracks["video"].seq
<1>1. PICK nal \in Nals :
         /\ c.tcp_fd # NoFd
         /\ Receives(c, nal) /\ out'[i] = VideoPackets(c, nal)
         /\ Advanced(c, d, "video", Packets(nal))
         /\ KeepsOrder(c, d)
         /\ ~d.waiting_for_sps /\ d.next_metadata = c.next_metadata
  BY DEF SentVideo
<1> DEFINE n == Packets(nal)
           p1 == out'[i][1]
           p2 == out'[i][2]
<1>2. n \in 1 .. 2 /\ n \in Nat
  BY DEF Packets
<1>3. /\ v \in View /\ Times /\ v.metas \in Nat /\ v.playedAt \in Nat /\ v.answered \in Nat
      /\ c \in Client /\ d \in Client
  BY DEF Before, View
<1>4. c.playing = TRUE /\ c.tracks["video"].active /\ "video" \in Track
  BY <1>1, <1>3 DEF Receives, Client, Track
<1>5. /\ SessionKnown(c, v) /\ (~Lossy => MediaKnown(c, v))
      /\ v.playedAt <= clock /\ Due(c, v, now)
      /\ Ordered(c.rxbuf, v.answered, c.cseq)
  BY <1>4 DEF Before, PeerInv
<1>6. s \in 0 .. SeqModulus - 1 /\ SeqModulus \in Nat \ {0}
  BY <1>3, <1>4, ConstantsAssumption DEF Client, TrackRecord
<1>7. /\ DOMAIN out'[i] = 1 .. n
      /\ \A k \in 1 .. n : /\ out'[i][k].kind = "rtp" /\ out'[i][k].track = "video"
                            /\ out'[i][k].seq = (s + k - 1) % SeqModulus
  BY <1>1 DEF VideoPackets
<1>8. \/ n = 1 /\ u = SeePacket(v, p1)
      \/ n = 2 /\ u = SeePacket(SeePacket(v, p1), p2)
      \/ Lossy /\ u = v
  <2>1. d.tcp_fd = c.tcp_fd
    BY <1>1 DEF Advanced
  <2> HIDE DEF n
  <2> QED
    BY <1>2, <1>7, <2>1, PacketView
<1>9. d.tracks["video"].seq = (s + n) % SeqModulus /\ d.playing = c.playing /\ d.tcp_fd = c.tcp_fd
  BY <1>1 DEF Advanced
<1> HIDE DEF c, d, v, u, s, n, p1, p2
<1>10. Ordered(d.rxbuf, v.answered, d.cseq)
  BY <1>1, <1>3, <1>5 DEF KeepsOrder
<1>11. v.playedAt <= clock'
  BY <1>3, <1>5 DEF Times
<1>12. Due(d, v, now')
  <2>1. Due(c, v, now')
    BY <1>3, <1>5, DueLater DEF Times
  <2> QED
    BY <1>1, <2>1 DEF Due
<1>13. ASSUME u \in View, u.answered = v.answered, u.granted = v.granted,
              u.playing = v.playing, u.heard = TRUE, u.session = v.session,
              u.stream = v.stream, u.metas = v.metas, u.playedAt = v.playedAt,
              u.next["video"] = (s + n) % SeqModulus, u.next["video"] \in Nat,
              \A t \in Track : t # "video" => u.next[t] = v.next[t]
       PROVE  Kept(i)
  <2>1. SessionKnown(d, u)
    <3>1. Advanced(c, d, "video", n) /\ n \in Nat
      BY <1>1, <1>2 DEF n
    <3>2. c \in Client /\ d \in Client /\ SessionKnown(c, v)
      BY <1>3, <1>5
    <3>3. /\ u.playing = v.playing /\ u.session = v.session /\ u.stream = v.stream
          /\ u.granted = v.granted /\ u.next["video"] \in Nat
          /\ \A t \in Track : t # "video" => u.next[t] = v.next[t]
      BY <1>13
    <3> QED
      BY <1>4, <3>1, <3>2, <3>3, AdvancedKnown
  <2>2. ~Lossy => MediaKnown(d, u)
    <3>1. /\ \A t \in Track : d.tracks[t].active = c.tracks[t].active
          /\ \A t \in Track : t # "video" => d.tracks[t] = c.tracks[t]
      BY <1>1 DEF Advanced
    <3> QED
      BY <1>5, <1>9, <1>13, <3>1 DEF MediaKnown
  <2>3. Due(d, u, now')
    BY <1>12, <1>13 DEF Due
  <2>4. PeerInv(d, u, clock', now')
    BY <1>1, <1>9, <1>10, <1>11, <1>13, <2>1, <2>2, <2>3 DEF PeerInv
  <2> QED
    BY <1>13, <2>4 DEF Kept, d, u
<1>14. CASE n = 1 /\ u = SeePacket(v, p1)
  <2>1. p1.track = "video" /\ p1.seq = (s + 1 - 1) % SeqModulus
    BY <1>2, <1>7, <1>14 DEF p1
  <2>2. p1.seq = s /\ p1.seq \in Nat
    BY <1>6, <2>1, SmallMod
  <2> QED
    BY <1>3, <1>13, <1>14, <2>1, <2>2, VideoSeen
<1>15. CASE n = 2 /\ u = SeePacket(SeePacket(v, p1), p2)
  <2> DEFINE h == SeePacket(v, p1)
  <2>1. /\ p1.track = "video" /\ p1.seq = (s + 1 - 1) % SeqModulus
        /\ p2.track = "video" /\ p2.seq = (s + 2 - 1) % SeqModulus
    BY <1>2, <1>7, <1>15 DEF p1, p2
  <2>2. p1.seq = s /\ p1.seq \in Nat
    BY <1>6, <2>1, SmallMod
  <2>3. p2.seq = (s + 1) % SeqModulus /\ p2.seq \in Nat
    BY <1>6, <2>1
  <2>4. /\ h \in View /\ h.answered = v.answered /\ h.granted = v.granted
        /\ h.playing = v.playing /\ h.session = v.session
        /\ h.stream = v.stream /\ h.metas = v.metas /\ h.playedAt = v.playedAt
        /\ \A t \in Track : t # "video" => h.next[t] = v.next[t]
    BY <1>3, <2>1, <2>2, VideoSeen
  <2> HIDE DEF h
  <2>5. u = SeePacket(h, p2)
    BY <1>15 DEF h
  <2>6. /\ u \in View /\ u.answered = h.answered /\ u.granted = h.granted
        /\ u.playing = h.playing /\ u.heard = TRUE /\ u.session = h.session
        /\ u.stream = h.stream /\ u.metas = h.metas /\ u.playedAt = h.playedAt
        /\ u.next["video"] = (p2.seq + 1) % SeqModulus /\ u.next["video"] \in Nat
        /\ \A t \in Track : t # "video" => u.next[t] = h.next[t]
    BY <2>1, <2>3, <2>4, <2>5, VideoSeen
  <2>7. u.next["video"] = (s + n) % SeqModulus
    BY <1>6, <1>15, <2>3, <2>6, TwiceMod
  <2> QED
    BY <1>13, <2>4, <2>6, <2>7
<1>16. CASE Lossy /\ u = v
  <2>1. SessionKnown(d, v)
    <3>1. /\ d.stream_id = c.stream_id /\ d.session = c.session /\ d.loopback = c.loopback
          /\ \A t \in Track : d.tracks[t].active = c.tracks[t].active
      BY <1>1 DEF Advanced
    <3> QED
      BY <1>5, <1>9, <3>1 DEF SessionKnown
  <2>2. PeerInv(d, v, clock', now')
    BY <1>1, <1>9, <1>10, <1>11, <1>12, <1>16, <2>1 DEF PeerInv
  <2> QED
    BY <1>3, <1>16, <2>2 DEF Kept, d, u
<1> QED
  BY <1>8, <1>14, <1>15, <1>16

-----------------------------------------------------------------------------
(* The invariant holds throughout. *)

(* The clock does not run backwards and a pass read it before.              *)
LEMMA TimesNext == TypeOK /\ TypeOK' /\ now <= clock /\ Next => Times
<1> SUFFICES ASSUME TypeOK, TypeOK', now <= clock, Next PROVE Times
  OBVIOUS
<1>1. clock \in Nat /\ clock' \in Nat /\ now \in Nat /\ now' \in Nat
  BY DEF TypeOK
<1>2. CASE clock' = clock /\ (now' = now \/ now' = clock)
  BY <1>1, <1>2 DEF Times
<1>3. CASE clock' = clock + 1 /\ now' = now
  BY <1>1, <1>3 DEF Times
<1>4. CASE Accept
  BY <1>2, <1>4 DEF Accept, NoPeer, RefusePeer, AcceptPeer, StartPass
<1>5. CASE SkipFreeSlot \/ Hangup \/ Receive \/ FinishClient \/ EndFrame \/ Close
  BY <1>2, <1>5 DEF SkipFreeSlot, Hangup, Receive, FinishClient, EndFrame, Close
<1>6. CASE Handle
  <2>1. UNCHANGED loop
    BY <1>6 DEF Handle, Unauthorized, Options, GetParameter, UnknownMethod, StreamNotFound,
                Describe, BadSession, Setup, SetupNoTransport, SetupTcp, SetupNoPorts,
                SetupUdp, SetupLastPort, SetupDone, SetupFailed, Play, Teardown,
                ReplyOnly, Handled
  <2> QED
    BY <1>2, <2>1 DEF loop
<1>7. CASE \E nal \in Nals : PushNal(nal)
  BY <1>2, <1>7 DEF PushNal, loop
<1>8. CASE Outside
  BY <1>2, <1>3, <1>8 DEF Outside, Tick, TakeIdr, loop
<1> QED
  BY <1>4, <1>5, <1>6, <1>7, <1>8 DEF Next, Loop

LEMMA ViewStart == ViewInit => ViewInv
<1> SUFFICES ASSUME ViewInit PROVE ViewInv
  OBVIOUS
<1>1. FlagsInv
  BY InitType, NewClientFlags DEF ViewInit, Init, FlagsInv, SessionFlagsAgree, Serving
<1>2. Fresh \in View
  BY DEF Fresh, View, Stream, NotSetUp
<1>3. now <= clock /\ Fresh.playedAt <= clock /\ clock = 0 /\ now = 0
  BY DEF ViewInit, Init, Fresh
<1>4. ASSUME NEW i \in Slot PROVE view[i] = Fresh /\ client[i] = NewClient
  BY DEF ViewInit, Init
<1>5. Ordered(<<>>, 0, 0)
  BY DEF Ordered
<1>6. /\ NewClient.rxbuf = <<>> /\ NewClient.cseq = 0 /\ Fresh.answered = 0
      /\ NewClient.playing = FALSE
  BY DEF NewClient, Fresh
<1>7. SessionKnown(NewClient, Fresh) /\ MediaKnown(NewClient, Fresh)
  <2>1. \A t \in Track : NewClient.tracks[t].active = FALSE /\ Fresh.next[t] = NotSetUp
    BY DEF NewClient, Fresh, AllClosed, ClosedTrack
  <2>2. /\ NewClient.playing = FALSE /\ NewClient.session = NoSession
        /\ NewClient.stream_id = 0
        /\ Fresh.playing = FALSE /\ Fresh.session = NoSession /\ Fresh.stream = 0
    BY DEF NewClient, Fresh
  <2> QED
    BY <2>1, <2>2 DEF SessionKnown, MediaKnown
<1>8. PeerInv(NewClient, Fresh, clock, now)
  BY <1>3, <1>5, <1>6, <1>7 DEF PeerInv
<1>9. view \in [Slot -> View]
  BY <1>2 DEF ViewInit
<1> QED
  BY <1>1, <1>3, <1>4, <1>8, <1>9 DEF ViewInv

(* What is known before and after a step of the server.                    *)
LEMMA ViewBefore ==
    ASSUME ViewInv, ViewNext, NEW i \in Slot
    PROVE  FlagsInv' /\ Before(i) /\ Kinds(i) /\ Observe
<1>1. FlagsInv /\ Next /\ Observe /\ now <= clock
  BY DEF ViewInv, ViewNext
<1>2. FlagsInv'
  BY <1>1, FlagsNext
<1>3. TypeOK /\ TypeOK'
  BY <1>1, <1>2 DEF FlagsInv
<1>4. client[i] \in Client /\ client'[i] \in Client
  BY <1>3 DEF TypeOK
<1>5. Times
  BY <1>1, <1>3, TimesNext
<1>6. view[i] \in View /\ PeerInv(client[i], view[i], clock, now)
  BY DEF ViewInv
<1>7. FreeIsNew
  BY DEF ViewInv, PeerInv, FreeIsNew
<1>8. Kinds(i)
  BY <1>1, <1>7, EachSlot
<1> QED
  BY <1>1, <1>2, <1>4, <1>5, <1>6, <1>8 DEF Before

LEMMA ViewStep == ViewInv /\ [ViewNext]_viewVars => ViewInv'
<1> SUFFICES ASSUME ViewInv, [ViewNext]_viewVars PROVE ViewInv'
  OBVIOUS
<1>1. CASE UNCHANGED viewVars
  <2>1. /\ UNCHANGED vars /\ view' = view /\ client' = client
        /\ clock' = clock /\ now' = now
    BY <1>1 DEF viewVars, vars, loop
  <2>2. FlagsInv'
    BY <2>1, FlagsNext DEF ViewInv
  <2> QED
    BY <2>1, <2>2 DEF ViewInv, PeerInv
<1>2. CASE ViewNext
  <2>1. 0 \in Slot
    BY ConstantsAssumption DEF Slot
  <2>2. FlagsInv' /\ Observe /\ Times
    BY <1>2, <2>1, ViewBefore DEF Before
  <2>3. ASSUME NEW i \in Slot PROVE Kept(i)
    <3>1. Before(i) /\ Kinds(i)
      BY <1>2, ViewBefore
    <3> QED
      BY <2>2, <3>1, SilentKept, FreshKept, RepliedKept, MetadataKept, VideoKept DEF Kinds
  <2>4. view' = [i \in Slot |-> view'[i]]
    BY <2>2 DEF Observe
  <2>5. view' \in [Slot -> View]
    BY <2>3, <2>4 DEF Kept
  <2>6. (now <= clock)'
    BY <2>2 DEF Times
  <2>7. \A i \in Slot : PeerInv(client[i], view[i], clock, now)'
    BY <2>3 DEF Kept, PeerInv
  <2> QED
    BY <2>2, <2>5, <2>6, <2>7 DEF ViewInv
<1> QED
  BY <1>1, <1>2

-----------------------------------------------------------------------------
(* What was sent, by the kind of its message. *)

LEMMA ReplySent ==
    ASSUME NEW i \in Slot, NEW m, m.kind = "reply",
           out'[i] = <<m>> \/ out'[i] = Append(Byes(client[i]), m)
    PROVE  /\ Sent(i, "reply") = {Len(out'[i])} /\ Sent(i, "rtp") = {}
           /\ out'[i][Len(out'[i])] = m
<1>1. CASE out'[i] = <<m>>
  <2>1. Len(out'[i]) = 1 /\ out'[i][1] = m
    BY <1>1
  <2> QED
    BY <2>1 DEF Sent
<1>2. CASE out'[i] = Append(Byes(client[i]), m)
  <2> DEFINE msgs == out'[i]
             n == Len(msgs)
  <2>1. ByeMessages(client[i], m, msgs) /\ DOMAIN msgs = 1 .. n /\ n \in 1 .. 3
    BY <1>2, ByesOf
  <2>2. ByeOf("video").kind = "bye" /\ ByeOf("metadata").kind = "bye"
    BY DEF ByeOf
  <2> HIDE DEF msgs, n
  <2>3. /\ msgs[n] = m /\ \A k \in 1 .. n : k # n => msgs[k].kind = "bye"
    <3>1. \A top \in 1 .. 3 : DOMAIN msgs = 1 .. top => n = top
      <4>1. \A top \in 1 .. 3 : DOMAIN msgs = 1 .. top => n \in 1 .. top /\ top \in 1 .. n
        BY <2>1
      <4> QED
        BY <2>1, <4>1
    <3>2. \/ DOMAIN msgs = 1 .. 1 /\ msgs[1] = m
          \/ DOMAIN msgs = 1 .. 2 /\ msgs[2] = m /\ msgs[1].kind = "bye"
          \/ DOMAIN msgs = 1 .. 3 /\ msgs[3] = m /\ msgs[1].kind = "bye" /\ msgs[2].kind = "bye"
      BY <2>1, <2>2 DEF ByeMessages
    <3> QED
      BY <2>1, <3>1, <3>2
  <2>4. Sent(i, "reply") = {k \in 1 .. n : msgs[k].kind = "reply"}
        /\ Sent(i, "rtp") = {k \in 1 .. n : msgs[k].kind = "rtp"}
    BY DEF Sent, msgs, n
  <2>5. n \in 1 .. n /\ msgs[n].kind = "reply"
    BY <2>1, <2>3
  <2>6. {k \in 1 .. n : msgs[k].kind = "reply"} = {n}
        /\ {k \in 1 .. n : msgs[k].kind = "rtp"} = {}
    BY <2>3, <2>5
  <2> QED
    BY <2>3, <2>4, <2>6 DEF msgs, n
<1> QED
  BY <1>1, <1>2

LEMMA VideoSent ==
    ASSUME NEW i \in Slot, NEW c, NEW nal, out'[i] = VideoPackets(c, nal)
    PROVE  /\ Sent(i, "reply") = {} /\ Sent(i, "rtp") = 1 .. Packets(nal)
           /\ Packets(nal) \in 1 .. 2
           /\ \A k \in 1 .. Packets(nal) :
                 /\ out'[i][k].track = "video" /\ out'[i][k].stream = nal.stream
                 /\ out'[i][k].nal = nal.kind
                 /\ out'[i][k].seq = (c.tracks["video"].seq + k - 1) % SeqModulus
<1> DEFINE n == Packets(nal)
<1>1. n \in 1 .. 2
  BY DEF Packets
<1> HIDE DEF n
<1>2. out'[i] = [k \in 1 .. n |->
                   [kind |-> "rtp", track |-> "video", stream |-> nal.stream, nal |-> nal.kind,
                    seq |-> (c.tracks["video"].seq + k - 1) % SeqModulus,
                    marker |-> nal.last /\ k = n]]
  BY DEF VideoPackets, n
<1>3. Len(out'[i]) = n /\ \A k \in 1 .. n : out'[i][k].kind = "rtp"
  <2>1. DOMAIN out'[i] = 1 .. n /\ n \in Nat
    BY <1>1, <1>2
  <2>2. Len(out'[i]) = n
    BY <1>1, <1>2
  <2>3. ASSUME NEW k \in 1 .. n PROVE out'[i][k].kind = "rtp"
    BY <1>2
  <2> QED
    BY <2>2, <2>3
<1>4. Sent(i, "reply") = {} /\ Sent(i, "rtp") = 1 .. n
  BY <1>3 DEF Sent
<1> QED
  BY <1>1, <1>2, <1>4 DEF n

LEMMA MetadataSent ==
    ASSUME NEW i \in Slot, NEW m, out'[i] = <<m>>, m.kind = "rtp"
    PROVE  Sent(i, "reply") = {} /\ Sent(i, "rtp") = {1} /\ out'[i][1] = m
<1>1. Len(out'[i]) = 1 /\ out'[i][1] = m
  OBVIOUS
<1> QED
  BY <1>1 DEF Sent

(* A step that sends a reply is one that answers a request ...             *)
LEMMA RepliesOnly ==
    ASSUME NEW i \in Slot, Kinds(i), NEW k \in Sent(i, "reply")
    PROVE  \E m : /\ out'[i][k] = m /\ k = Len(out'[i]) /\ Answers(i, m)
                  /\ \/ Told(client[i], client'[i], m)
                     \/ GivenTrack(client[i], client'[i], m)
                     \/ RefusedTrack(client[i], client'[i], m)
                     \/ LetPlay(client[i], client'[i], m)
                     \/ /\ out'[i] = Append(Byes(client[i]), m)
                        /\ Ended(client[i], client'[i], m)
<1>1. CASE out'[i] = <<>>
  <2>1. Sent(i, "reply") = {}
    BY <1>1 DEF Sent
  <2> QED
    BY <2>1
<1>2. CASE Replied(i)
  <2>1. PICK m : /\ Answers(i, m)
                 /\ \/ /\ out'[i] = <<m>>
                       /\ \/ Told(client[i], client'[i], m)
                          \/ GivenTrack(client[i], client'[i], m)
                          \/ RefusedTrack(client[i], client'[i], m)
                          \/ LetPlay(client[i], client'[i], m)
                    \/ /\ out'[i] = Append(Byes(client[i]), m)
                       /\ Ended(client[i], client'[i], m)
    BY <1>2 DEF Replied
  <2>2. m.kind = "reply"
    BY <2>1 DEF Answers
  <2>3. k = Len(out'[i]) /\ out'[i][k] = m
    BY <2>1, <2>2, ReplySent
  <2> QED
    BY <2>1, <2>3
<1>3. CASE SentMetadata(i)
  BY <1>3, MetadataSent DEF SentMetadata
<1>4. CASE SentVideo(i)
  BY <1>4, VideoSent DEF SentVideo
<1> QED
  BY <1>1, <1>2, <1>3, <1>4 DEF Kinds, Silent, Reconnected

(* ... and one that sends a packet sends metadata or video.                *)
LEMMA PacketsOnly ==
    ASSUME NEW i \in Slot, Kinds(i), Sent(i, "rtp") # {}
    PROVE  SentMetadata(i) \/ SentVideo(i)
<1>1. CASE out'[i] = <<>>
  BY <1>1 DEF Sent
<1>2. CASE Replied(i)
  <2>1. PICK m : Answers(i, m) /\ (out'[i] = <<m>> \/ out'[i] = Append(Byes(client[i]), m))
    BY <1>2 DEF Replied
  <2>2. m.kind = "reply"
    BY <2>1 DEF Answers
  <2> QED
    BY <2>1, <2>2, ReplySent
<1> QED
  BY <1>1, <1>2 DEF Kinds, Silent, Reconnected

-----------------------------------------------------------------------------
LEMMA ViewInductive == ViewSpec => []ViewInv
BY ViewStart, ViewStep, PTL DEF ViewSpec

(* What a peer that is sent packets knows.                                 *)
LEMMA PacketsKnown ==
    ASSUME NEW i \in Slot, Before(i), SentMetadata(i) \/ SentVideo(i)
    PROVE  /\ client[i].playing /\ SessionKnown(client[i], view[i])
           /\ ~Lossy => MediaKnown(client[i], view[i])
           /\ view[i].playing = TRUE
           /\ ~AuthEnabled \/ client[i].loopback \/ view[i].granted
<1>1. client[i].playing
  BY DEF SentMetadata, SentVideo, Receives
<1>2. SessionKnown(client[i], view[i]) /\ (~Lossy => MediaKnown(client[i], view[i]))
  BY DEF Before, PeerInv
<1>3. client[i].playing = TRUE
  BY <1>1 DEF Before, Client
<1> QED
  BY <1>1, <1>2, <1>3 DEF SessionKnown

(***************************************************************************)
(* Replies come in the order of the requests and no request is answered    *)
(* twice, for any number of slots, any batches recv() delivers and any     *)
(* DESCRIBE that waits (drain_requests, handle_describe).                  *)
(***************************************************************************)
THEOREM RepliesAlwaysInOrder == ViewSpec => RepliesInOrder
<1>1. ViewInv /\ ViewNext =>
         \A i \in Slot : \A k \in Sent(i, "reply") :
            out'[i][k].cseq > view[i].answered
  <2> SUFFICES ASSUME ViewInv, ViewNext, NEW i \in Slot, NEW k \in Sent(i, "reply")
               PROVE  out'[i][k].cseq > view[i].answered
    OBVIOUS
  <2>1. Before(i) /\ Kinds(i)
    BY ViewBefore
  <2>2. PICK m : out'[i][k] = m /\ Answers(i, m)
    BY <2>1, RepliesOnly
  <2>3. /\ m.cseq = client[i].rxbuf[1].cseq
        /\ client[i].rxbuf \in Seq(Item) /\ client[i].rxbuf # <<>>
    BY <2>2 DEF Answers
  <2>4. 1 \in DOMAIN client[i].rxbuf
    BY <2>3
  <2>5. Ordered(client[i].rxbuf, view[i].answered, client[i].cseq)
    BY <2>1 DEF Before, PeerInv
  <2>6. view[i].answered < client[i].rxbuf[1].cseq
    BY <2>4, <2>5 DEF Ordered
  <2>7. view[i].answered \in Nat /\ client[i].rxbuf[1].cseq \in Nat
    <3>1. client[i].rxbuf[1] \in Item
      BY <2>3
    <3> QED
      BY <2>1, <3>1 DEF Before, View, Item
  <2> QED
    BY <2>2, <2>3, <2>6, <2>7
<1> QED
  BY <1>1, ViewInductive, PTL DEF RepliesInOrder, ViewSpec

(***************************************************************************)
(* A peer gets media only as it negotiated: of a track and stream it set   *)
(* up, between its PLAY and its TEARDOWN, whoever had the slot before      *)
(* (rtsp_server_push_nal, rtsp_server_poll, client_reset).                 *)
(***************************************************************************)
THEOREM MediaAlwaysNegotiated == ViewSpec => MediaAsNegotiated
<1>1. ViewInv /\ ViewNext =>
         \A i \in Slot : \A k \in Sent(i, "rtp") :
            /\ view[i].playing
            /\ view[i].next[out'[i][k].track] # NotSetUp
            /\ out'[i][k].stream = view[i].stream
  <2> SUFFICES ASSUME ViewInv, ViewNext, NEW i \in Slot, NEW k \in Sent(i, "rtp")
               PROVE  /\ view[i].playing
                      /\ view[i].next[out'[i][k].track] # NotSetUp
                      /\ out'[i][k].stream = view[i].stream
    OBVIOUS
  <2>1. Before(i) /\ Kinds(i)
    BY ViewBefore
  <2>2. SentMetadata(i) \/ SentVideo(i)
    BY <2>1, PacketsOnly
  <2>3. SessionKnown(client[i], view[i]) /\ view[i].playing
    BY <2>1, <2>2, PacketsKnown
  <2>4. \A t \in Track : client[i].tracks[t].active => view[i].next[t] # NotSetUp
    <3>1. \A t \in Track : client[i].tracks[t].active \in BOOLEAN
      BY <2>1 DEF Before, Client, TrackRecord
    <3> QED
      BY <2>3, <3>1 DEF SessionKnown
  <2>5. view[i].stream = client[i].stream_id
    BY <2>3 DEF SessionKnown
  <2>6. CASE SentMetadata(i)
    <3>1. k = 1 /\ out'[i][1].track = "metadata" /\ out'[i][1].stream = client[i].stream_id
      BY <2>6, MetadataSent DEF SentMetadata
    <3>2. client[i].tracks["metadata"].active /\ "metadata" \in Track
      BY <2>6 DEF SentMetadata, Track
    <3> QED
      BY <2>3, <2>4, <2>5, <3>1, <3>2
  <2>7. CASE SentVideo(i)
    <3>1. PICK nal : Receives(client[i], nal) /\ out'[i] = VideoPackets(client[i], nal)
      BY <2>7 DEF SentVideo
    <3>2. out'[i][k].track = "video" /\ out'[i][k].stream = nal.stream
      BY <3>1, VideoSent
    <3>3. /\ client[i].tracks["video"].active /\ "video" \in Track
          /\ client[i].stream_id = nal.stream
      BY <3>1 DEF Receives, Track
    <3> QED
      BY <2>3, <2>4, <2>5, <3>2, <3>3
  <2> QED
    BY <2>2, <2>6, <2>7
<1> QED
  BY <1>1, ViewInductive, PTL DEF MediaAsNegotiated, ViewSpec

(***************************************************************************)
(* No media without credentials, but to a loopback peer: the slot of a     *)
(* peer that was let in gives its successor nothing (auth_ok).             *)
(***************************************************************************)
THEOREM MediaAlwaysAuthorized == ViewSpec => MediaOnlyWithCredentials
<1>1. ViewInv /\ ViewNext =>
         \A i \in Slot : Sent(i, "rtp") # {} =>
            ~AuthEnabled \/ client[i].loopback \/ view[i].granted
  <2> SUFFICES ASSUME ViewInv, ViewNext, NEW i \in Slot, Sent(i, "rtp") # {}
               PROVE  ~AuthEnabled \/ client[i].loopback \/ view[i].granted
    OBVIOUS
  <2>1. Before(i) /\ Kinds(i)
    BY ViewBefore
  <2> QED
    BY <2>1, PacketsOnly, PacketsKnown
<1> QED
  BY <1>1, ViewInductive, PTL DEF MediaOnlyWithCredentials, ViewSpec

(***************************************************************************)
(* A second SETUP keeps the id of the session, up to its TEARDOWN          *)
(* (handle_setup: has_session).                                            *)
(***************************************************************************)
THEOREM SessionIdAlwaysKept == ViewSpec => SessionIdKept
<1>1. ViewInv /\ ViewNext =>
         \A i \in Slot : \A k \in Sent(i, "reply") :
            Confirms(out'[i][k], "SETUP") /\ view[i].session # NoSession
               => out'[i][k].session = view[i].session
  <2> SUFFICES ASSUME ViewInv, ViewNext, NEW i \in Slot, NEW k \in Sent(i, "reply"),
                      Confirms(out'[i][k], "SETUP"), view[i].session # NoSession
               PROVE  out'[i][k].session = view[i].session
    OBVIOUS
  <2>1. Before(i) /\ Kinds(i)
    BY ViewBefore
  <2>2. PICK m : /\ out'[i][k] = m
                 /\ \/ Told(client[i], client'[i], m)
                    \/ GivenTrack(client[i], client'[i], m)
                    \/ RefusedTrack(client[i], client'[i], m)
                    \/ LetPlay(client[i], client'[i], m)
                    \/ Ended(client[i], client'[i], m)
    BY <2>1, RepliesOnly
  <2>3. m.status = 200 /\ m.req.method = "SETUP"
    BY <2>2 DEF Confirms
  <2>4. GivenTrack(client[i], client'[i], m)
    BY <2>2, <2>3 DEF Told, RefusedTrack, LetPlay, Ended, Confirms
  <2>5. view[i].session = client[i].session
    BY <2>1 DEF Before, PeerInv, SessionKnown
  <2> QED
    BY <2>2, <2>4, <2>5 DEF GivenTrack
<1> QED
  BY <1>1, ViewInductive, PTL DEF SessionIdKept, ViewSpec

(***************************************************************************)
(* TEARDOWN says goodbye on exactly the tracks the peer knows as set up,   *)
(* on video first, and answers last (handle_request, send_bye).            *)
(***************************************************************************)
THEOREM TeardownAlwaysSaysGoodbye == ViewSpec => TeardownSaysGoodbye
<1>1. ViewInv /\ ViewNext =>
         \A i \in Slot : \A k \in Sent(i, "reply") :
            Confirms(out'[i][k], "TEARDOWN") =>
               /\ k = Len(out'[i])
               /\ {out'[i][j].track : j \in Sent(i, "bye")}
                     = {t \in Track : view[i].next[t] # NotSetUp}
               /\ \A j \in Sent(i, "bye") : out'[i][j].track = "video" => j = 1
  <2> SUFFICES ASSUME ViewInv, ViewNext, NEW i \in Slot, NEW k \in Sent(i, "reply"),
                      Confirms(out'[i][k], "TEARDOWN")
               PROVE  /\ k = Len(out'[i])
                      /\ {out'[i][j].track : j \in Sent(i, "bye")}
                            = {t \in Track : view[i].next[t] # NotSetUp}
                      /\ \A j \in Sent(i, "bye") : out'[i][j].track = "video" => j = 1
    OBVIOUS
  <2> DEFINE msgs == out'[i]
             n == Len(msgs)
             c == client[i]
             byes == {j \in 1 .. n : msgs[j].kind = "bye"}
  <2>1. Before(i) /\ Kinds(i)
    BY ViewBefore
  <2>2. PICK m : /\ msgs[k] = m /\ k = n /\ Answers(i, m)
                 /\ \/ Told(client[i], client'[i], m)
                    \/ GivenTrack(client[i], client'[i], m)
                    \/ RefusedTrack(client[i], client'[i], m)
                    \/ LetPlay(client[i], client'[i], m)
                    \/ msgs = Append(Byes(c), m) /\ Ended(client[i], client'[i], m)
    BY <2>1, RepliesOnly
  <2>3. m.status = 200 /\ m.req.method = "TEARDOWN" /\ m.kind = "reply"
    BY <2>2 DEF Confirms, Answers
  <2>4. msgs = Append(Byes(c), m)
    BY <2>2, <2>3 DEF Told, RefusedTrack, LetPlay, GivenTrack, Confirms
  <2>5. ByeMessages(c, m, msgs) /\ DOMAIN msgs = 1 .. n /\ n \in 1 .. 3
    BY <2>4, ByesOf
  <2>6. Sent(i, "bye") = byes
    BY DEF Sent
  <2>7. \A t \in Track : (view[i].next[t] # NotSetUp) = c.tracks[t].active
    BY <2>1 DEF Before, PeerInv, SessionKnown
  <2>8. /\ ByeOf("video").kind = "bye" /\ ByeOf("video").track = "video"
        /\ ByeOf("metadata").kind = "bye" /\ ByeOf("metadata").track = "metadata"
    BY DEF ByeOf
  <2> HIDE DEF msgs, n, c
  <2>9. \A top \in 1 .. 3 : DOMAIN msgs = 1 .. top => n = top
    <3>1. \A top \in 1 .. 3 : DOMAIN msgs = 1 .. top => n \in 1 .. top /\ top \in 1 .. n
      BY <2>5
    <3> QED
      BY <2>5, <3>1
  <2>10. \/ /\ n = 3 /\ msgs[1] = ByeOf("video") /\ msgs[2] = ByeOf("metadata") /\ msgs[3] = m
            /\ c.tracks["video"].active /\ c.tracks["metadata"].active
         \/ /\ n = 2 /\ msgs[1] = ByeOf("video") /\ msgs[2] = m
            /\ c.tracks["video"].active /\ ~c.tracks["metadata"].active
         \/ /\ n = 2 /\ msgs[1] = ByeOf("metadata") /\ msgs[2] = m
            /\ ~c.tracks["video"].active /\ c.tracks["metadata"].active
         \/ /\ n = 1 /\ msgs[1] = m
            /\ ~c.tracks["video"].active /\ ~c.tracks["metadata"].active
    BY <2>5, <2>9 DEF ByeMessages
  <2>11. \A t : t \in Track <=> t = "video" \/ t = "metadata"
    BY DEF Track
  <2>12. {msgs[j].track : j \in byes} = {t \in Track : c.tracks[t].active}
    <3>1. CASE n = 3
      <4>1. byes = {1, 2}
        BY <2>3, <2>8, <2>10, <3>1
      <4> QED
        BY <2>8, <2>10, <2>11, <3>1, <4>1
    <3>2. CASE n = 2 /\ msgs[1] = ByeOf("video")
      <4>1. byes = {1}
        BY <2>3, <2>8, <2>10, <3>2
      <4> QED
        BY <2>8, <2>10, <2>11, <3>2, <4>1
    <3>3. CASE n = 2 /\ msgs[1] = ByeOf("metadata")
      <4>1. byes = {1}
        BY <2>3, <2>8, <2>10, <3>3
      <4> QED
        BY <2>8, <2>10, <2>11, <3>3, <4>1
    <3>4. CASE n = 1
      <4>1. byes = {}
        BY <2>3, <2>10, <3>4
      <4> QED
        BY <2>10, <2>11, <3>4, <4>1
    <3> QED
      BY <2>10, <3>1, <3>2, <3>3, <3>4
  <2>13. \A j \in byes : msgs[j].track = "video" => j = 1
    BY <2>3, <2>8, <2>10
  <2>14. {t \in Track : c.tracks[t].active} = {t \in Track : view[i].next[t] # NotSetUp}
    BY <2>7
  <2> QED
    BY <2>2, <2>6, <2>12, <2>13, <2>14 DEF msgs, n
<1> QED
  BY <1>1, ViewInductive, PTL DEF TeardownSaysGoodbye, ViewSpec

-----------------------------------------------------------------------------
LEMMA TimesMonotonic ==
    ASSUME NEW a \in Nat, NEW b \in Nat, a <= b, NEW q \in Nat
    PROVE  a * q <= b * q
<1> DEFINE d == b - a
<1>1. d \in Nat /\ b = a + d
  OBVIOUS
<1> HIDE DEF d
<1>2. b * q = a * q + d * q /\ d * q \in Nat /\ a * q \in Nat
  BY <1>1
<1> QED
  BY <1>2

(***************************************************************************)
(* Metadata is never ahead of one packet per interval since PLAY, however  *)
(* late the polls: a late poll sends one packet and moves the next one by  *)
(* an interval from when it was due (next_metadata_us).                    *)
(***************************************************************************)
THEOREM MetadataAlwaysPaced == ViewSpec => []MetadataPaced
<1>1. ViewInv => MetadataPaced
  <2> SUFFICES ASSUME ViewInv, NEW i \in Slot, view[i].playing
               PROVE  view[i].metas <= 1 + (clock - view[i].playedAt) \div MetadataInterval
    BY DEF MetadataPaced
  <2> DEFINE q == MetadataInterval
             x == clock - view[i].playedAt
             k == x \div q
             m == view[i].metas
  <2>1. /\ view[i] \in View /\ PeerInv(client[i], view[i], clock, now)
        /\ clock \in Nat /\ now \in Nat /\ now <= clock
    BY DEF ViewInv, FlagsInv, TypeOK
  <2>2. q \in Nat \ {0} /\ x \in Nat /\ m \in Nat /\ view[i].playedAt \in Nat
    BY <2>1, ConstantsAssumption DEF View, PeerInv
  <2>3. k \in Nat /\ x < (k + 1) * q
    BY <2>2
  <2>4. m > 0 => view[i].playedAt + (m - 1) * q <= now
    BY <2>1 DEF PeerInv, SessionKnown, Due
  <2>5. ASSUME m > 1 + k PROVE FALSE
    <3>1. m - 1 \in Nat /\ k + 1 \in Nat /\ k + 1 <= m - 1
      BY <2>2, <2>3, <2>5
    <3>2. (k + 1) * q <= (m - 1) * q
      BY <2>2, <3>1, TimesMonotonic
    <3>3. view[i].playedAt + (m - 1) * q <= now
      BY <2>2, <2>3, <2>4, <2>5
    <3> DEFINE a == (k + 1) * q
               b == (m - 1) * q
    <3>4. a \in Int /\ b \in Int
      BY <2>2, <2>3
    <3>5. a <= b /\ x < a /\ view[i].playedAt + b <= now
      BY <2>3, <3>2, <3>3
    <3> HIDE DEF a, b, k, m, q
    <3> QED
      BY <2>1, <2>2, <3>4, <3>5
  <2> HIDE DEF k, m
  <2> QED
    BY <2>2, <2>3, <2>5 DEF k, m
<1> QED
  BY <1>1, ViewInductive, PTL

(***************************************************************************)
(* Where nothing is lost on the way, the sequence numbers of a track run   *)
(* on from its SETUP, modulo 2^16, through PLAY and TEARDOWN of others,    *)
(* fragments and a second SETUP (rtp_send, handle_setup).                  *)
(***************************************************************************)
THEOREM SequenceAlwaysContinues == ASSUME ~Lossy PROVE ViewSpec => SequenceContinues
<1>1. ViewInv /\ ViewNext =>
         \A i \in Slot : \A k \in Sent(i, "rtp") :
            LET before == {j \in Sent(i, "rtp") :
                              j < k /\ out'[i][j].track = out'[i][k].track}
            IN  out'[i][k].seq = (view[i].next[out'[i][k].track] + Cardinality(before))
                                 % SeqModulus
  <2> SUFFICES ASSUME ViewInv, ViewNext, NEW i \in Slot, NEW k \in Sent(i, "rtp")
               PROVE  LET before == {j \in Sent(i, "rtp") :
                                        j < k /\ out'[i][j].track = out'[i][k].track}
                      IN  out'[i][k].seq =
                             (view[i].next[out'[i][k].track] + Cardinality(before))
                             % SeqModulus
    OBVIOUS
  <2> DEFINE before == {j \in Sent(i, "rtp") :
                           j < k /\ out'[i][j].track = out'[i][k].track}
             c == client[i]
  <2>1. Before(i) /\ Kinds(i)
    BY ViewBefore
  <2>2. SentMetadata(i) \/ SentVideo(i)
    BY <2>1, PacketsOnly
  <2>3. MediaKnown(c, view[i]) /\ c \in Client
    BY <2>1, <2>2, PacketsKnown DEF Before
  <2>4. \A t \in Track : c.tracks[t].seq \in 0 .. SeqModulus - 1
    BY <2>3 DEF Client, TrackRecord
  <2>5. CASE SentMetadata(i)
    <3>1. /\ k = 1 /\ out'[i][1].track = "metadata" /\ Sent(i, "rtp") = {1}
          /\ out'[i][1].seq = c.tracks["metadata"].seq
      BY <2>5, MetadataSent DEF SentMetadata
    <3>2. before = {}
      BY <3>1
    <3>3. Cardinality(before) = 0
      BY <3>2, FS_EmptySet
    <3>4. "metadata" \in Track /\ view[i].next["metadata"] = c.tracks["metadata"].seq
      BY <2>3, <2>5 DEF SentMetadata, MediaKnown, Track
    <3>5. c.tracks["metadata"].seq % SeqModulus = c.tracks["metadata"].seq
      BY <2>4, <3>4, SmallMod, ConstantsAssumption
    <3>6. c.tracks["metadata"].seq + 0 = c.tracks["metadata"].seq
      BY <2>4, <3>4
    <3> QED
      BY <3>1, <3>3, <3>4, <3>5, <3>6
  <2>6. CASE SentVideo(i)
    <3> DEFINE s == c.tracks["video"].seq
    <3>1. PICK nal : Receives(c, nal) /\ out'[i] = VideoPackets(c, nal)
      BY <2>6 DEF SentVideo
    <3>2. /\ Sent(i, "rtp") = 1 .. Packets(nal) /\ Packets(nal) \in 1 .. 2
          /\ \A j \in 1 .. Packets(nal) :
                out'[i][j].track = "video" /\ out'[i][j].seq = (s + j - 1) % SeqModulus
      BY <3>1, VideoSent
    <3>3. /\ view[i].next["video"] = s /\ s \in Nat
      BY <2>3, <2>4, <3>1 DEF Receives, MediaKnown, Track
    <3>4. k \in 1 .. 2 /\ before = 1 .. k - 1
      BY <3>2
    <3>5. Cardinality(before) = k - 1
      <4> DEFINE top == k - 1
      <4>1. top \in 0 .. 1 /\ 1 \in Int /\ top \in Int /\ before = 1 .. top
        BY <3>4
      <4> HIDE DEF before, top
      <4>2. Cardinality(1 .. top) = IF 1 > top THEN 0 ELSE top - 1 + 1
        BY <4>1, FS_Interval, Zenon
      <4>3. Cardinality(before) = top
        BY <4>1, <4>2
      <4> QED
        BY <4>3 DEF top
    <3>6. s + k - 1 = s + (k - 1)
      BY <3>3, <3>4
    <3> QED
      BY <3>2, <3>3, <3>5, <3>6
  <2> QED
    BY <2>2, <2>5, <2>6
<1> QED
  BY <1>1, ViewInductive, PTL DEF SequenceContinues, ViewSpec

(***************************************************************************)
(* Where nothing is lost, the first video a peer gets after PLAY is an     *)
(* SPS, however often it played before (waiting_for_sps).                  *)
(***************************************************************************)
THEOREM PlayAlwaysStartsAtSps == ASSUME ~Lossy PROVE ViewSpec => PlayStartsAtSps
<1>1. ViewInv /\ ViewNext =>
         \A i \in Slot : \A k \in Sent(i, "rtp") :
            out'[i][k].track = "video" /\ ~view[i].heard /\ k = 1
               => out'[i][k].nal = "SPS"
  <2> SUFFICES ASSUME ViewInv, ViewNext, NEW i \in Slot, NEW k \in Sent(i, "rtp"),
                      out'[i][k].track = "video", ~view[i].heard, k = 1
               PROVE  out'[i][k].nal = "SPS"
    OBVIOUS
  <2>1. Before(i) /\ Kinds(i)
    BY ViewBefore
  <2>2. SentMetadata(i) \/ SentVideo(i)
    BY <2>1, PacketsOnly
  <2>3. client[i].waiting_for_sps
    BY <2>1, <2>2, PacketsKnown DEF MediaKnown
  <2>4. CASE SentMetadata(i)
    <3>1. out'[i][1].track = "metadata"
      BY <2>4, MetadataSent DEF SentMetadata
    <3> QED
      BY <3>1
  <2>5. CASE SentVideo(i)
    <3>1. PICK nal : Receives(client[i], nal) /\ out'[i] = VideoPackets(client[i], nal)
      BY <2>5 DEF SentVideo
    <3>2. nal.kind = "SPS"
      BY <2>3, <3>1 DEF Receives
    <3>3. out'[i][k].nal = nal.kind
      BY <3>1, VideoSent
    <3> QED
      BY <3>2, <3>3
  <2> QED
    BY <2>2, <2>4, <2>5
<1> QED
  BY <1>1, ViewInductive, PTL DEF PlayStartsAtSps, ViewSpec
=============================================================================
