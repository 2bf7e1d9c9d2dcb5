---------------------------- MODULE ScriptProofs ----------------------------
(***************************************************************************)
(* The calls of main(), for every number of channels and whatever call is  *)
(* refused: their order, and the memory they give to the drivers.  First   *)
(* the sequence of calls itself, part by part; then the program that goes  *)
(* through it.                                                             *)
(***************************************************************************)
EXTENDS BringUpProofs, SequenceTheorems

(* The calls of the script, with the channel each is for.                  *)
CallName ==
    AsksSize \cup GivesMemory \cup Ignored \cup CannotFail \cup
    {"vmm_alloc", "VPSS_SET_VI_ATTR", "VPSS_ENABLE", "VPSS_SET_CHN_ATTR", "VPSS_OPEN_CHN",
     "VPSS_SET_VO_MODE", "0x80086929", "0x80786905", "0x40046908", "0x40046909", "isp_start",
     "0x4004690F", "isp_core_alloc_buf_addr", "isp_hw_init", "VENC_SET_CHN_CONFIG",
     "VENC_SET_RC_ATTR", "MEDIA_BIND", "VENC_START_RECV_PIC", "rtsp_server_init"}
Entry == [call : CallName, chan : Channels \cup {NoChannel}]

Has(s, x) == \E i \in 1 .. Len(s) : s[i] = x
Avoids(s, names) == \A i \in 1 .. Len(s) : s[i].call \notin names

(* Wherever y stands in s, x stands before it.                             *)
Ordered(s, x, y) == \A j \in 1 .. Len(s) : s[j] = y => \E i \in 1 .. j - 1 : s[i] = x

(* Memory is given to the owner that was asked for its size two calls      *)
(* earlier, and reserved in between.                                       *)
Paired(s) ==
    \A j \in 1 .. Len(s) : s[j].call \in GivesMemory =>
        /\ j >= 3 /\ s[j - 1].call = "vmm_alloc"
        /\ s[j - 2].call \in AsksSize /\ Owner(s[j - 2]) = Owner(s[j])

(* The same of the calls alone, whatever channel they are for.             *)
PairedCalls(calls) ==
    \A k \in 1 .. Len(calls) : calls[k] \in GivesMemory =>
        /\ k >= 3 /\ calls[k - 1] = "vmm_alloc" /\ calls[k - 2] \in AsksSize
        /\ \A c : Owner([call |-> calls[k - 2], chan |-> c]) = Owner([call |-> calls[k], chan |-> c])

-----------------------------------------------------------------------------
(* One sequence of calls after another.                                    *)

(* The calls of both, those of t after those of s.                         *)
LEMMA Joined ==
    ASSUME NEW s \in Seq(Entry), NEW t \in Seq(Entry)
    PROVE  /\ s \o t \in Seq(Entry) /\ Len(s \o t) = Len(s) + Len(t)
           /\ Len(s) \in Nat /\ Len(t) \in Nat
           /\ \A i \in 1 .. Len(s) : (s \o t)[i] = s[i]
           /\ \A i \in 1 .. Len(t) : (s \o t)[Len(s) + i] = t[i]
BY ConcatProperties, LenProperties

(* An index of the joined sequence is one of s or one of t.                *)
LEMMA JoinedAt ==
    ASSUME NEW s \in Seq(Entry), NEW t \in Seq(Entry), NEW j \in 1 .. Len(s \o t)
    PROVE  \/ j \in 1 .. Len(s) /\ (s \o t)[j] = s[j]
           \/ j > Len(s) /\ j - Len(s) \in 1 .. Len(t) /\ (s \o t)[j] = t[j - Len(s)]
<1>1. Len(s) \in Nat /\ Len(t) \in Nat /\ j \in 1 .. Len(s) + Len(t)
  BY Joined
<1>2. CASE j <= Len(s)
  BY <1>1, <1>2, Joined
<1>3. CASE j > Len(s)
  <2>1. j - Len(s) \in 1 .. Len(t) /\ j = Len(s) + (j - Len(s))
    BY <1>1, <1>3
  <2> QED
    BY <1>3, <2>1, Joined
<1> QED
  BY <1>1, <1>2, <1>3

(* A call of either part is a call of the whole.                           *)
LEMMA JoinedHas ==
    ASSUME NEW s \in Seq(Entry), NEW t \in Seq(Entry), NEW x, Has(s, x) \/ Has(t, x)
    PROVE  Has(s \o t, x)
<1>1. CASE Has(s, x)
  BY <1>1, Joined DEF Has
<1>2. CASE Has(t, x)
  <2>1. PICK i \in 1 .. Len(t) : t[i] = x
    BY <1>2 DEF Has
  <2>2. Len(s) + i \in 1 .. Len(s \o t) /\ (s \o t)[Len(s) + i] = x
    BY <2>1, Joined
  <2> QED
    BY <2>2 DEF Has
<1> QED
  BY <1>1, <1>2

(* What both parts avoid, the whole avoids.                                *)
LEMMA JoinedAvoids ==
    ASSUME NEW s \in Seq(Entry), NEW t \in Seq(Entry), NEW names, Avoids(s, names), Avoids(t, names)
    PROVE  Avoids(s \o t, names)
<1> SUFFICES ASSUME NEW j \in 1 .. Len(s \o t)
             PROVE  (s \o t)[j].call \notin names
  BY DEF Avoids
<1> QED
  BY JoinedAt DEF Avoids

(* y stands in s only, after x.                                            *)
LEMMA OrderedFirst ==
    ASSUME NEW s \in Seq(Entry), NEW t \in Seq(Entry), NEW x, NEW y \in Entry,
           NEW names, y.call \in names, Ordered(s, x, y), Avoids(t, names)
    PROVE  Ordered(s \o t, x, y)
<1> SUFFICES ASSUME NEW j \in 1 .. Len(s \o t), (s \o t)[j] = y
             PROVE  \E i \in 1 .. j - 1 : (s \o t)[i] = x
  BY DEF Ordered
<1>1. j \in 1 .. Len(s) /\ s[j] = y
  BY JoinedAt DEF Avoids
<1>2. PICK i \in 1 .. j - 1 : s[i] = x
  BY <1>1 DEF Ordered
<1>3. i \in 1 .. Len(s)
  BY <1>1, Joined
<1> QED
  BY <1>2, <1>3, Joined

(* y stands in t only, after x or with x in s.                             *)
LEMMA OrderedSecond ==
    ASSUME NEW s \in Seq(Entry), NEW t \in Seq(Entry), NEW x, NEW y \in Entry,
           NEW names, y.call \in names, Avoids(s, names), Ordered(t, x, y) \/ Has(s, x)
    PROVE  Ordered(s \o t, x, y)
<1> SUFFICES ASSUME NEW j \in 1 .. Len(s \o t), (s \o t)[j] = y
             PROVE  \E i \in 1 .. j - 1 : (s \o t)[i] = x
  BY DEF Ordered
<1>0. Len(s) \in Nat /\ Len(t) \in Nat
  BY Joined
<1>1. j > Len(s) /\ j - Len(s) \in 1 .. Len(t) /\ t[j - Len(s)] = y
  BY JoinedAt DEF Avoids
<1>2. CASE Has(s, x)
  <2>1. PICK i \in 1 .. Len(s) : s[i] = x
    BY <1>2 DEF Has
  <2>2. i \in 1 .. j - 1
    BY <1>0, <1>1
  <2> QED
    BY <2>1, <2>2, Joined
<1>3. CASE Ordered(t, x, y)
  <2>1. PICK i \in 1 .. (j - Len(s)) - 1 : t[i] = x
    BY <1>1, <1>3 DEF Ordered
  <2>2. i \in 1 .. Len(t) /\ Len(s) + i \in 1 .. j - 1
    BY <1>0, <1>1
  <2>3. (s \o t)[Len(s) + i] = x
    BY <2>1, <2>2, Joined
  <2> QED
    BY <2>2, <2>3
<1> QED
  BY <1>2, <1>3

(* Memory asked for and given within a part is so within the whole.        *)
LEMMA JoinedPaired ==
    ASSUME NEW s \in Seq(Entry), NEW t \in Seq(Entry), Paired(s), Paired(t)
    PROVE  Paired(s \o t)
<1> SUFFICES ASSUME NEW j \in 1 .. Len(s \o t), (s \o t)[j].call \in GivesMemory
             PROVE  /\ j >= 3 /\ (s \o t)[j - 1].call = "vmm_alloc"
                    /\ (s \o t)[j - 2].call \in AsksSize
                    /\ Owner((s \o t)[j - 2]) = Owner((s \o t)[j])
  BY DEF Paired
<1>0. Len(s) \in Nat /\ Len(t) \in Nat
  BY Joined
<1>1. CASE j \in 1 .. Len(s) /\ (s \o t)[j] = s[j]
  <2>1. j >= 3 /\ s[j - 1].call = "vmm_alloc" /\ s[j - 2].call \in AsksSize
        /\ Owner(s[j - 2]) = Owner(s[j])
    BY <1>1 DEF Paired
  <2>2. j - 1 \in 1 .. Len(s) /\ j - 2 \in 1 .. Len(s)
    BY <1>0, <1>1, <2>1
  <2>3. (s \o t)[j - 1] = s[j - 1] /\ (s \o t)[j - 2] = s[j - 2]
    BY <2>2, Joined
  <2> QED
    BY <1>1, <2>1, <2>3
<1>2. CASE j > Len(s) /\ j - Len(s) \in 1 .. Len(t) /\ (s \o t)[j] = t[j - Len(s)]
  <2> DEFINE k == j - Len(s)
  <2>1. k >= 3 /\ t[k - 1].call = "vmm_alloc" /\ t[k - 2].call \in AsksSize
        /\ Owner(t[k - 2]) = Owner(t[k])
    BY <1>2 DEF Paired
  <2>2. /\ k - 1 \in 1 .. Len(t) /\ k - 2 \in 1 .. Len(t)
        /\ j - 1 = Len(s) + (k - 1) /\ j - 2 = Len(s) + (k - 2) /\ j >= 3
    BY <1>0, <1>2, <2>1
  <2>3. (s \o t)[Len(s) + (k - 1)] = t[k - 1] /\ (s \o t)[Len(s) + (k - 2)] = t[k - 2]
    BY <2>2, Joined
  <2> QED
    BY <1>2, <2>1, <2>2, <2>3
<1> QED
  BY <1>1, <1>2, JoinedAt

-----------------------------------------------------------------------------
(* The parts the script is put together from.                              *)

(* Calls made once: they are in the order written.                         *)
LEMMA OnceIs ==
    ASSUME NEW calls \in Seq(CallName)
    PROVE  /\ Once(calls) \in Seq(Entry) /\ Len(Once(calls)) = Len(calls)
           /\ Len(calls) \in Nat
           /\ \A i \in 1 .. Len(calls) :
                 Once(calls)[i] = [call |-> calls[i], chan |-> NoChannel]
<1>1. Len(calls) \in Nat /\ \A i \in 1 .. Len(calls) : calls[i] \in CallName
  BY LenProperties
<1>2. \A i \in 1 .. Len(calls) : [call |-> calls[i], chan |-> NoChannel] \in Entry
  BY <1>1 DEF Entry, NoChannel
<1>3. Once(calls) \in [1 .. Len(calls) -> Entry]
  BY <1>2 DEF Once
<1>4. Once(calls) \in Seq(Entry)
  BY <1>1, <1>3, SeqDef
<1>5. Len(Once(calls)) = Len(calls)
  BY <1>1, <1>3, <1>4, LenProperties
<1> QED
  BY <1>1, <1>4, <1>5 DEF Once

(* The calls made once are those of the list: what it lacks is not called. *)
LEMMA OnceAvoids ==
    ASSUME NEW calls \in Seq(CallName), NEW names,
           \A k \in 1 .. Len(calls) : calls[k] \notin names
    PROVE  Avoids(Once(calls), names)
<1> SUFFICES ASSUME NEW i \in 1 .. Len(Once(calls))
             PROVE  Once(calls)[i].call \notin names
  BY DEF Avoids
<1>1. i \in 1 .. Len(calls) /\ Once(calls)[i] = [call |-> calls[i], chan |-> NoChannel]
  BY OnceIs
<1> QED
  BY <1>1

(* Each call of the list is made.                                          *)
LEMMA OnceHas ==
    ASSUME NEW calls \in Seq(CallName), NEW k \in 1 .. Len(calls)
    PROVE  Has(Once(calls), [call |-> calls[k], chan |-> NoChannel])
BY OnceIs DEF Has

(* Memory is asked for and given as in the list.                           *)
LEMMA OncePaired ==
    ASSUME NEW calls \in Seq(CallName),
           PairedCalls(calls)
    PROVE  Paired(Once(calls))
<1> DEFINE s == Once(calls)
<1> SUFFICES ASSUME NEW j \in 1 .. Len(s), s[j].call \in GivesMemory
             PROVE  /\ j >= 3 /\ s[j - 1].call = "vmm_alloc"
                    /\ s[j - 2].call \in AsksSize /\ Owner(s[j - 2]) = Owner(s[j])
  BY DEF Paired
<1>1. /\ Len(s) = Len(calls) /\ Len(calls) \in Nat
      /\ \A i \in 1 .. Len(calls) : s[i] = [call |-> calls[i], chan |-> NoChannel]
  BY OnceIs
<1>2. s[j] = [call |-> calls[j], chan |-> NoChannel] /\ j \in 1 .. Len(calls)
  BY <1>1
<1>3. /\ j >= 3 /\ calls[j - 1] = "vmm_alloc" /\ calls[j - 2] \in AsksSize
      /\ Owner([call |-> calls[j - 2], chan |-> NoChannel]) = Owner(s[j])
  BY <1>2 DEF PairedCalls
<1>4. j - 1 \in 1 .. Len(calls) /\ j - 2 \in 1 .. Len(calls)
  BY <1>1, <1>2, <1>3
<1>5. /\ s[j - 1] = [call |-> calls[j - 1], chan |-> NoChannel]
      /\ s[j - 2] = [call |-> calls[j - 2], chan |-> NoChannel]
  BY <1>1, <1>4
<1> QED
  BY <1>3, <1>5

(* And in the list's order.                                                *)
LEMMA OnceOrdered ==
    ASSUME NEW calls \in Seq(CallName),
           NEW a \in 1 .. Len(calls), NEW b \in 1 .. Len(calls), a < b,
           \A k \in 1 .. Len(calls) : calls[k] = calls[b] => k = b
    PROVE  Ordered(Once(calls), [call |-> calls[a], chan |-> NoChannel],
                                [call |-> calls[b], chan |-> NoChannel])
<1> DEFINE s == Once(calls)
<1> SUFFICES ASSUME NEW j \in 1 .. Len(s), s[j] = [call |-> calls[b], chan |-> NoChannel]
             PROVE  \E i \in 1 .. j - 1 : s[i] = [call |-> calls[a], chan |-> NoChannel]
  BY DEF Ordered
<1>1. /\ Len(s) = Len(calls) /\ Len(calls) \in Nat
      /\ \A i \in 1 .. Len(calls) : s[i] = [call |-> calls[i], chan |-> NoChannel]
  BY OnceIs
<1>2. j = b
  <2>1. j \in 1 .. Len(calls) /\ s[j] = [call |-> calls[j], chan |-> NoChannel]
    BY <1>1
  <2>2. calls[j] = calls[b]
    BY <2>1
  <2> QED
    BY <2>1, <2>2
<1> QED
  BY <1>1, <1>2

(* Of n calls for each channel, the i-th entry is the CallAt-th call for   *)
(* channel ChanAt; the k-th for channel c stands at IndexOf.               *)
CallAt(n, i) == ((i - 1) % n) + 1
ChanAt(n, i) == (i - 1) \div n
IndexOf(n, c, k) == c * n + k
Entries(n) == Channel * n

(* The call and the channel at a place of a list repeated per channel.     *)
LEMMA EachIndex ==
    ASSUME NEW n \in {1, 3, 7}, NEW i \in 1 .. Entries(n)
    PROVE  /\ CallAt(n, i) \in 1 .. n /\ ChanAt(n, i) \in Channels
           /\ i = IndexOf(n, ChanAt(n, i), CallAt(n, i))
<1> USE ChannelAssumption DEF Channels, CallAt, ChanAt, IndexOf, Entries
<1>1. CASE n = 1
  BY <1>1
<1>2. CASE n = 3
  BY <1>2
<1>3. CASE n = 7
  BY <1>3
<1> QED
  BY <1>1, <1>2, <1>3

(* The place of the k-th call for channel c, and back.                     *)
LEMMA EachIndexOf ==
    ASSUME NEW n \in {1, 3, 7}, NEW k \in 1 .. n, NEW c \in Channels
    PROVE  /\ IndexOf(n, c, k) \in 1 .. Entries(n)
           /\ CallAt(n, IndexOf(n, c, k)) = k /\ ChanAt(n, IndexOf(n, c, k)) = c
<1> USE ChannelAssumption DEF Channels, CallAt, ChanAt, IndexOf, Entries
<1>1. CASE n = 1
  BY <1>1
<1>2. CASE n = 3
  BY <1>2
<1>3. CASE n = 7
  BY <1>3
<1> QED
  BY <1>1, <1>2, <1>3

(* Calls made for each channel in turn.                                    *)
LEMMA EachIs ==
    ASSUME NEW calls \in Seq(CallName), NEW n \in {1, 3, 7}, n = Len(calls)
    PROVE  /\ EachChannel(calls) \in Seq(Entry) /\ Len(EachChannel(calls)) = Entries(n)
           /\ \A i \in 1 .. Entries(n) :
                 EachChannel(calls)[i] = [call |-> calls[CallAt(n, i)], chan |-> ChanAt(n, i)]
<1> DEFINE s == EachChannel(calls)
           x(i) == [call |-> calls[CallAt(n, i)], chan |-> ChanAt(n, i)]
<1>1. \A i \in 1 .. n : calls[i] \in CallName
  BY LenProperties
<1>2. \A i \in 1 .. Entries(n) : x(i) \in Entry
  <2> TAKE i \in 1 .. Entries(n)
  <2>1. CallAt(n, i) \in 1 .. n /\ ChanAt(n, i) \in Channels
    BY EachIndex
  <2> QED
    BY <1>1, <2>1 DEF Entry
<1>3. s = [i \in 1 .. Entries(n) |-> x(i)]
  BY DEF EachChannel, CallAt, ChanAt, Entries
<1>4. s \in [1 .. Entries(n) -> Entry]
  BY <1>2, <1>3
<1>5. Entries(n) \in Nat
  BY ChannelAssumption DEF Entries
<1>6. s \in Seq(Entry)
  BY <1>4, <1>5, SeqDef
<1>7. Len(s) = Entries(n)
  BY <1>4, <1>5, <1>6, LenProperties
<1>8. \A i \in 1 .. Entries(n) : s[i] = x(i)
  BY <1>3, Zenon
<1> QED
  BY <1>6, <1>7, <1>8, Zenon

(* The calls of each channel, all of them and nothing else.                *)
LEMMA EachHas ==
    ASSUME NEW calls \in Seq(CallName), NEW n \in {1, 3, 7}, n = Len(calls),
           NEW c \in Channels, NEW k \in 1 .. n
    PROVE  /\ IndexOf(n, c, k) \in 1 .. Len(EachChannel(calls))
           /\ EachChannel(calls)[IndexOf(n, c, k)] = [call |-> calls[k], chan |-> c]
<1>1. /\ Len(EachChannel(calls)) = Entries(n)
      /\ \A i \in 1 .. Entries(n) :
            EachChannel(calls)[i] = [call |-> calls[CallAt(n, i)], chan |-> ChanAt(n, i)]
  BY EachIs
<1>2. /\ IndexOf(n, c, k) \in 1 .. Entries(n)
      /\ CallAt(n, IndexOf(n, c, k)) = k /\ ChanAt(n, IndexOf(n, c, k)) = c
  BY EachIndexOf
<1> QED
  BY <1>1, <1>2

(* What the list lacks is called for no channel.                           *)
LEMMA EachAvoids ==
    ASSUME NEW calls \in Seq(CallName), NEW n \in {1, 3, 7}, n = Len(calls),
           NEW names, \A k \in 1 .. n : calls[k] \notin names
    PROVE  Avoids(EachChannel(calls), names)
<1> SUFFICES ASSUME NEW i \in 1 .. Len(EachChannel(calls))
             PROVE  EachChannel(calls)[i].call \notin names
  BY DEF Avoids
<1>1. /\ Len(EachChannel(calls)) = Entries(n)
      /\ i \in 1 .. Entries(n) =>
            EachChannel(calls)[i] = [call |-> calls[CallAt(n, i)], chan |-> ChanAt(n, i)]
  BY EachIs
<1>2. CallAt(n, i) \in 1 .. n
  BY <1>1, EachIndex
<1> QED
  BY <1>1, <1>2

(* Within a channel's calls the order is the one written.                  *)
LEMMA EachOrdered ==
    ASSUME NEW calls \in Seq(CallName), NEW n \in {1, 3, 7}, n = Len(calls),
           NEW c \in Channels, NEW a \in 1 .. n, NEW b \in 1 .. n, a < b,
           \A k \in 1 .. n : calls[k] = calls[b] => k = b
    PROVE  Ordered(EachChannel(calls), [call |-> calls[a], chan |-> c],
                                       [call |-> calls[b], chan |-> c])
<1> DEFINE s == EachChannel(calls)
<1> SUFFICES ASSUME NEW j \in 1 .. Len(s), s[j] = [call |-> calls[b], chan |-> c]
             PROVE  \E i \in 1 .. j - 1 : s[i] = [call |-> calls[a], chan |-> c]
  BY DEF Ordered
<1>1. Len(s) = Entries(n) /\ s[j] = [call |-> calls[CallAt(n, j)], chan |-> ChanAt(n, j)]
  BY EachIs
<1>2. CallAt(n, j) \in 1 .. n /\ j = IndexOf(n, ChanAt(n, j), CallAt(n, j))
  BY <1>1, EachIndex
<1>3. j = IndexOf(n, c, b)
  BY <1>1, <1>2
<1>4. IndexOf(n, c, a) \in 1 .. Len(s) /\ s[IndexOf(n, c, a)] = [call |-> calls[a], chan |-> c]
  BY EachHas
<1>5. IndexOf(n, c, a) < j
  <2>1. c \in Int /\ n \in Int /\ c * n \in Int
    BY DEF Channels
  <2> QED
    BY <1>3, <2>1 DEF IndexOf
<1>6. IndexOf(n, c, a) \in 1 .. j - 1
  BY <1>4, <1>5
<1> QED
  BY <1>4, <1>6

(* A channel's calls that give it memory are paired when the ones written  *)
(* are: entry by entry they are those of one channel.                      *)
LEMMA EachPaired ==
    ASSUME NEW calls \in Seq(CallName), NEW n \in {1, 3, 7}, n = Len(calls),
           PairedCalls(calls)
    PROVE  Paired(EachChannel(calls))
<1> DEFINE s == EachChannel(calls)
<1> SUFFICES ASSUME NEW j \in 1 .. Len(s), s[j].call \in GivesMemory
             PROVE  /\ j >= 3 /\ s[j - 1].call = "vmm_alloc"
                    /\ s[j - 2].call \in AsksSize /\ Owner(s[j - 2]) = Owner(s[j])
  BY DEF Paired
<1> DEFINE k == CallAt(n, j)
           c == ChanAt(n, j)
<1>1. Len(s) = Entries(n) /\ s[j] = [call |-> calls[k], chan |-> c]
  BY EachIs
<1>2. k \in 1 .. n /\ c \in Channels /\ j = IndexOf(n, c, k)
  BY <1>1, EachIndex
<1> HIDE DEF s, k, c
<1>3. /\ k >= 3 /\ calls[k - 1] = "vmm_alloc" /\ calls[k - 2] \in AsksSize
      /\ Owner([call |-> calls[k - 2], chan |-> c]) = Owner(s[j])
  BY <1>1, <1>2 DEF PairedCalls
<1>4. k - 1 \in 1 .. n /\ k - 2 \in 1 .. n
  BY <1>2, <1>3
<1>5. j - 1 = IndexOf(n, c, k - 1) /\ j - 2 = IndexOf(n, c, k - 2) /\ j >= 3
  <2>1. c \in Nat /\ n \in Nat /\ k \in Nat /\ c * n \in Nat
    BY <1>2 DEF Channels
  <2>2. j = c * n + k
    BY <1>2 DEF IndexOf
  <2>3. IndexOf(n, c, k - 1) = c * n + (k - 1) /\ IndexOf(n, c, k - 2) = c * n + (k - 2)
    BY DEF IndexOf
  <2> QED
    BY <1>3, <2>1, <2>2, <2>3
<1>6. /\ s[IndexOf(n, c, k - 1)] = [call |-> calls[k - 1], chan |-> c]
      /\ s[IndexOf(n, c, k - 2)] = [call |-> calls[k - 2], chan |-> c]
  <2>1. s[IndexOf(n, c, k - 1)] = [call |-> calls[k - 1], chan |-> c]
    BY <1>2, <1>4, EachHas DEF s
  <2>2. s[IndexOf(n, c, k - 2)] = [call |-> calls[k - 2], chan |-> c]
    BY <1>2, <1>4, EachHas DEF s
  <2> QED
    BY <2>1, <2>2
<1> QED
  BY <1>3, <1>5, <1>6

-----------------------------------------------------------------------------
(* The parts themselves.                                                   *)

Vpss1 == <<"VPSS_GET_SYS_SIZE", "vmm_alloc", "VPSS_SET_SYS_ADDR">>
Vpss2 == <<"VPSS_GET_CHN_SIZE", "vmm_alloc", "VPSS_SET_CHN_ADDR">>
Vpss3 == <<"VPSS_SET_VI_ATTR", "VPSS_ENABLE">>
Vpss4 == <<"VPSS_SET_CHN_ATTR">>
Vpss5 == <<"VPSS_OPEN_CHN">>
Vpss6 == <<"VPSS_SET_VO_MODE">>
Isp == <<"0x80086929", "0x80306926", "0x80786905", "0x40046908", "0x40046909",
         "isp_start", "0x4004690F",
         "isp_core_alloc_buf_addr", "isp_hw_init", "isp_start_processing", "0x6910">>
Venc == <<"VENC_SYS_GET_SIZE", "vmm_alloc", "VENC_SYS_SET_ADDR">>
Init == <<"rtsp_server_init">>
Enable == <<"rtsp_server_enable_stream">>
OnIdr == <<"rtsp_server_on_idr_request">>

IspLate == {"isp_hw_init", "isp_start_processing"}
ChannelLate == {"VENC_CREATE_CHN", "MEDIA_BIND", "VENC_START_RECV_PIC"}
ServerCalls == {"rtsp_server_init"}
OfferCalls == {"rtsp_server_enable_stream"}

Part(s) == s \in Seq(Entry) /\ Paired(s)

(* A list whose memory is paired makes a part of the script.               *)
LEMMA OncePart ==
    ASSUME NEW calls \in Seq(CallName), PairedCalls(calls)
    PROVE  Part(Once(calls))
BY OnceIs, OncePaired DEF Part

(* The same of a list repeated for each channel.                           *)
LEMMA EachChannelPart ==
    ASSUME NEW calls \in Seq(CallName), Len(calls) \in {1, 3, 7}, PairedCalls(calls)
    PROVE  Part(EachChannel(calls))
BY EachIs, EachPaired DEF Part

(* Two parts make one.                                                     *)
LEMMA JoinedPart ==
    ASSUME NEW s, NEW t, Part(s), Part(t)
    PROVE  Part(s \o t)
BY Joined, JoinedPaired DEF Part

(* The parts of vpss_setup.                                                *)
LEMMA VpssParts ==
    /\ Part(Once(Vpss1)) /\ Part(EachChannel(Vpss2)) /\ Part(Once(Vpss3))
    /\ Part(EachChannel(Vpss4)) /\ Part(Once(Vpss5)) /\ Part(EachChannel(Vpss6))
<1>1. Part(Once(Vpss1))
  <2>1. Vpss1 \in Seq(CallName) /\ Len(Vpss1) = 3
    BY DEF Vpss1, CallName, AsksSize, GivesMemory
  <2>2. PairedCalls(Vpss1)
    BY <2>1 DEF PairedCalls, Vpss1, AsksSize, GivesMemory, Owner
  <2> QED
    BY <2>1, <2>2, OncePart
<1>2. Part(EachChannel(Vpss2))
  <2>1. Vpss2 \in Seq(CallName) /\ Len(Vpss2) = 3
    BY DEF Vpss2, CallName, AsksSize, GivesMemory
  <2>2. PairedCalls(Vpss2)
    BY <2>1 DEF PairedCalls, Vpss2, AsksSize, GivesMemory, Owner
  <2> QED
    BY <2>1, <2>2, EachChannelPart
<1>3. Part(Once(Vpss3))
  <2>1. Vpss3 \in Seq(CallName) /\ Len(Vpss3) = 2
    BY DEF Vpss3, CallName, AsksSize, GivesMemory
  <2>2. PairedCalls(Vpss3)
    BY <2>1 DEF PairedCalls, Vpss3, AsksSize, GivesMemory, Owner
  <2> QED
    BY <2>1, <2>2, OncePart
<1>4. Part(EachChannel(Vpss4))
  <2>1. Vpss4 \in Seq(CallName) /\ Len(Vpss4) = 1
    BY DEF Vpss4, CallName, AsksSize, GivesMemory
  <2>2. PairedCalls(Vpss4)
    BY <2>1 DEF PairedCalls, Vpss4, AsksSize, GivesMemory, Owner
  <2> QED
    BY <2>1, <2>2, EachChannelPart
<1>5. Part(Once(Vpss5))
  <2>1. Vpss5 \in Seq(CallName) /\ Len(Vpss5) = 1
    BY DEF Vpss5, CallName, AsksSize, GivesMemory
  <2>2. PairedCalls(Vpss5)
    BY <2>1 DEF PairedCalls, Vpss5, AsksSize, GivesMemory, Owner
  <2> QED
    BY <2>1, <2>2, OncePart
<1>6. Part(EachChannel(Vpss6))
  <2>1. Vpss6 \in Seq(CallName) /\ Len(Vpss6) = 1
    BY DEF Vpss6, CallName, AsksSize, GivesMemory
  <2>2. PairedCalls(Vpss6)
    BY <2>1 DEF PairedCalls, Vpss6, AsksSize, GivesMemory, Owner
  <2> QED
    BY <2>1, <2>2, EachChannelPart
<1> QED
  BY <1>1, <1>2, <1>3, <1>4, <1>5, <1>6

(* The rest of the script, and which calls are where.                      *)
Late == IspLate \cup ChannelLate \cup ServerCalls \cup OfferCalls

(* The parts after vpss_setup.                                             *)
LEMMA OtherParts ==
    /\ Part(isp_setup) /\ Part(venc_sys_init) /\ Part(EachChannel(venc_channel))
    /\ Part(Once(Init)) /\ Part(EachChannel(Enable)) /\ Part(Once(OnIdr))
<1>1. Part(isp_setup)
  <2>1. Isp \in Seq(CallName) /\ Len(Isp) = 11
    BY DEF Isp, CallName, AsksSize, GivesMemory, Ignored, CannotFail
  <2>2. PairedCalls(Isp)
    BY <2>1 DEF PairedCalls, Isp, AsksSize, GivesMemory, Owner
  <2> QED
    BY <2>1, <2>2, OncePart DEF Isp, isp_setup
<1>2. Part(venc_sys_init)
  <2>1. Venc \in Seq(CallName) /\ Len(Venc) = 3
    BY DEF Venc, CallName, AsksSize, GivesMemory, Ignored, CannotFail
  <2>2. PairedCalls(Venc)
    BY <2>1 DEF PairedCalls, Venc, AsksSize, GivesMemory, Owner
  <2> QED
    BY <2>1, <2>2, OncePart DEF Venc, venc_sys_init
<1>3. Part(EachChannel(venc_channel))
  <2>1. venc_channel \in Seq(CallName) /\ Len(venc_channel) = 7
    BY DEF venc_channel, CallName, AsksSize, GivesMemory, Ignored, CannotFail
  <2>2. PairedCalls(venc_channel)
    BY <2>1 DEF PairedCalls, venc_channel, AsksSize, GivesMemory, Owner
  <2> QED
    BY <2>1, <2>2, EachChannelPart
<1>4. Part(Once(Init))
  <2>1. Init \in Seq(CallName) /\ Len(Init) = 1
    BY DEF Init, CallName, AsksSize, GivesMemory, Ignored, CannotFail
  <2>2. PairedCalls(Init)
    BY <2>1 DEF PairedCalls, Init, AsksSize, GivesMemory, Owner
  <2> QED
    BY <2>1, <2>2, OncePart
<1>5. Part(EachChannel(Enable))
  <2>1. Enable \in Seq(CallName) /\ Len(Enable) = 1
    BY DEF Enable, CallName, AsksSize, GivesMemory, Ignored, CannotFail
  <2>2. PairedCalls(Enable)
    BY <2>1 DEF PairedCalls, Enable, AsksSize, GivesMemory, Owner
  <2> QED
    BY <2>1, <2>2, EachChannelPart
<1>6. Part(Once(OnIdr))
  <2>1. OnIdr \in Seq(CallName) /\ Len(OnIdr) = 1
    BY DEF OnIdr, CallName, AsksSize, GivesMemory, Ignored, CannotFail
  <2>2. PairedCalls(OnIdr)
    BY <2>1 DEF PairedCalls, OnIdr, AsksSize, GivesMemory, Owner
  <2> QED
    BY <2>1, <2>2, OncePart
<1> QED
  BY <1>1, <1>2, <1>3, <1>4, <1>5, <1>6

(* Who avoids more avoids less.                                            *)
LEMMA AvoidsLess ==
    ASSUME NEW s, NEW names, Avoids(s, names), NEW fewer, fewer \subseteq names
    PROVE  Avoids(s, fewer)
BY DEF Avoids

(* Each late call stands in one part: the others avoid it.                 *)
LEMMA PartsAvoid ==
    /\ Avoids(vpss_setup, Late) /\ Avoids(isp_setup, Late \ IspLate)
    /\ Avoids(venc_sys_init, Late) /\ Avoids(EachChannel(venc_channel), Late \ ChannelLate)
    /\ Avoids(Once(Init), Late \ ServerCalls) /\ Avoids(EachChannel(Enable), Late \ OfferCalls)
    /\ Avoids(Once(OnIdr), Late)
<1> USE DEF CallName, AsksSize, GivesMemory, Ignored, CannotFail,
            Late, IspLate, ChannelLate, ServerCalls, OfferCalls
<1>1. Avoids(Once(Vpss1), Late)
  <2>1. Vpss1 \in Seq(CallName) /\ Len(Vpss1) = 3 /\ \A k \in 1 .. 3 : Vpss1[k] \notin Late
    BY DEF Vpss1
  <2> HIDE DEF Late
  <2> QED
    BY <2>1, OnceAvoids
<1>2. Avoids(EachChannel(Vpss2), Late)
  <2>1. Vpss2 \in Seq(CallName) /\ Len(Vpss2) = 3 /\ \A k \in 1 .. 3 : Vpss2[k] \notin Late
    BY DEF Vpss2
  <2> HIDE DEF Late
  <2> QED
    BY <2>1, EachAvoids
<1>3. Avoids(Once(Vpss3), Late)
  <2>1. Vpss3 \in Seq(CallName) /\ Len(Vpss3) = 2 /\ \A k \in 1 .. 2 : Vpss3[k] \notin Late
    BY DEF Vpss3
  <2> HIDE DEF Late
  <2> QED
    BY <2>1, OnceAvoids
<1>4. Avoids(EachChannel(Vpss4), Late)
  <2>1. Vpss4 \in Seq(CallName) /\ Len(Vpss4) = 1 /\ \A k \in 1 .. 1 : Vpss4[k] \notin Late
    BY DEF Vpss4
  <2> HIDE DEF Late
  <2> QED
    BY <2>1, EachAvoids
<1>5. Avoids(Once(Vpss5), Late)
  <2>1. Vpss5 \in Seq(CallName) /\ Len(Vpss5) = 1 /\ \A k \in 1 .. 1 : Vpss5[k] \notin Late
    BY DEF Vpss5
  <2> HIDE DEF Late
  <2> QED
    BY <2>1, OnceAvoids
<1>6. Avoids(EachChannel(Vpss6), Late)
  <2>1. Vpss6 \in Seq(CallName) /\ Len(Vpss6) = 1 /\ \A k \in 1 .. 1 : Vpss6[k] \notin Late
    BY DEF Vpss6
  <2> HIDE DEF Late
  <2> QED
    BY <2>1, EachAvoids
<1>7. Avoids(isp_setup, Late \ IspLate)
  <2> DEFINE names == Late \ IspLate
  <2>1. Isp \in Seq(CallName) /\ Len(Isp) = 11 /\ \A k \in 1 .. 11 : Isp[k] \notin names
    BY DEF Isp
  <2> HIDE DEF names
  <2>2. Avoids(isp_setup, names)
    BY <2>1, OnceAvoids DEF Isp, isp_setup
  <2> QED
    BY <2>2 DEF names
<1>8. Avoids(venc_sys_init, Late)
  <2> DEFINE names == Late
  <2>1. Venc \in Seq(CallName) /\ Len(Venc) = 3 /\ \A k \in 1 .. 3 : Venc[k] \notin names
    BY DEF Venc
  <2> HIDE DEF names
  <2>2. Avoids(venc_sys_init, names)
    BY <2>1, OnceAvoids DEF Venc, venc_sys_init
  <2> QED
    BY <2>2 DEF names
<1>9. Avoids(EachChannel(venc_channel), Late \ ChannelLate)
  <2> DEFINE names == Late \ ChannelLate
  <2>1. venc_channel \in Seq(CallName) /\ Len(venc_channel) = 7 /\ \A k \in 1 .. 7 : venc_channel[k] \notin names
    BY DEF venc_channel
  <2> HIDE DEF names
  <2>2. Avoids(EachChannel(venc_channel), names)
    BY <2>1, EachAvoids
  <2> QED
    BY <2>2 DEF names
<1>10. Avoids(Once(Init), Late \ ServerCalls)
  <2> DEFINE names == Late \ ServerCalls
  <2>1. Init \in Seq(CallName) /\ Len(Init) = 1 /\ \A k \in 1 .. 1 : Init[k] \notin names
    BY DEF Init
  <2> HIDE DEF names
  <2>2. Avoids(Once(Init), names)
    BY <2>1, OnceAvoids
  <2> QED
    BY <2>2 DEF names
<1>11. Avoids(EachChannel(Enable), Late \ OfferCalls)
  <2> DEFINE names == Late \ OfferCalls
  <2>1. Enable \in Seq(CallName) /\ Len(Enable) = 1 /\ \A k \in 1 .. 1 : Enable[k] \notin names
    BY DEF Enable
  <2> HIDE DEF names
  <2>2. Avoids(EachChannel(Enable), names)
    BY <2>1, EachAvoids
  <2> QED
    BY <2>2 DEF names
<1>12. Avoids(Once(OnIdr), Late)
  <2> DEFINE names == Late
  <2>1. OnIdr \in Seq(CallName) /\ Len(OnIdr) = 1 /\ \A k \in 1 .. 1 : OnIdr[k] \notin names
    BY DEF OnIdr
  <2> HIDE DEF names
  <2>2. Avoids(Once(OnIdr), names)
    BY <2>1, OnceAvoids
  <2> QED
    BY <2>2 DEF names
<1>13. Avoids(vpss_setup, Late)
  <2> HIDE DEF Late
  <2> QED
    BY <1>1, <1>2, <1>3, <1>4, <1>5, <1>6, VpssParts, JoinedPart, JoinedAvoids
    DEF Part, vpss_setup, Vpss1, Vpss2, Vpss3, Vpss4, Vpss5, Vpss6
<1> QED
  BY <1>7, <1>8, <1>9, <1>10, <1>11, <1>12, <1>13

-----------------------------------------------------------------------------
(* The whole script.                                                       *)

Single(name) == [call |-> name, chan |-> NoChannel]
Of(name, c) == [call |-> name, chan |-> c]

Setup1 == vpss_setup \o isp_setup
Setup2 == Setup1 \o venc_sys_init
Setup3 == Setup2 \o EachChannel(venc_channel)
Setup4 == Setup3 \o Once(Init)
Setup5 == Setup4 \o EachChannel(Enable)

(* The script is made of its parts, and so are its beginnings.             *)
LEMMA ScriptIs ==
    /\ Script = Setup5 \o Once(OnIdr)
    /\ Part(vpss_setup) /\ Part(Setup1) /\ Part(Setup2) /\ Part(Setup3) /\ Part(Setup4)
    /\ Part(Setup5) /\ Part(Script)
<1>1. Script = Setup5 \o Once(OnIdr)
  BY DEF Script, Setup1, Setup2, Setup3, Setup4, Setup5, Init, Enable, OnIdr
<1>2. Part(vpss_setup)
  BY VpssParts, JoinedPart DEF vpss_setup, Vpss1, Vpss2, Vpss3, Vpss4, Vpss5, Vpss6
<1>3. Part(Setup1)
  BY <1>2, OtherParts, JoinedPart DEF Setup1
<1>4. Part(Setup2)
  BY <1>3, OtherParts, JoinedPart DEF Setup2
<1>5. Part(Setup3)
  BY <1>4, OtherParts, JoinedPart DEF Setup3
<1>6. Part(Setup4)
  BY <1>5, OtherParts, JoinedPart DEF Setup4
<1>7. Part(Setup5)
  BY <1>6, OtherParts, JoinedPart DEF Setup5
<1>8. Part(Script)
  BY <1>1, <1>7, OtherParts, JoinedPart
<1> QED
  BY <1>1, <1>2, <1>3, <1>4, <1>5, <1>6, <1>7, <1>8

(* What the setup has before the server: everything a stream needs.        *)
NeededOnce ==
    {"VPSS_SET_SYS_ADDR", "VPSS_SET_VI_ATTR", "VPSS_ENABLE", "VPSS_OPEN_CHN",
     "isp_start", "isp_core_alloc_buf_addr", "isp_hw_init", "isp_start_processing",
     "VENC_SYS_SET_ADDR"}
NeededForEach ==
    {"VPSS_SET_CHN_ADDR", "VPSS_SET_CHN_ATTR", "VPSS_SET_VO_MODE",
     "VENC_CREATE_CHN", "VENC_SET_CHN_CONFIG", "VENC_SET_RC_ATTR", "MEDIA_BIND",
     "VENC_START_RECV_PIC"}

(* A call of a list made once, by its name.                                *)
LEMMA OnceCallHas ==
    ASSUME NEW calls, calls \in Seq(CallName), NEW name, \E k \in 1 .. Len(calls) : calls[k] = name
    PROVE  Has(Once(calls), Single(name))
BY OnceHas DEF Single

(* A call of a list made for each channel, by its name.                    *)
LEMMA EachCallHas ==
    ASSUME NEW calls, calls \in Seq(CallName), Len(calls) \in {1, 3, 7}, NEW c \in Channels,
           NEW name, \E k \in 1 .. Len(calls) : calls[k] = name
    PROVE  Has(EachChannel(calls), Of(name, c))
<1>1. PICK k \in 1 .. Len(calls) : calls[k] = name
  OBVIOUS
<1>2. /\ IndexOf(Len(calls), c, k) \in 1 .. Len(EachChannel(calls))
      /\ EachChannel(calls)[IndexOf(Len(calls), c, k)] = [call |-> calls[k], chan |-> c]
  BY EachHas
<1> QED
  BY <1>1, <1>2 DEF Has, Of

(* y is called once in the list, and x before it.                          *)
CalledBefore(calls, x, y) ==
    \E a \in 1 .. Len(calls), b \in 1 .. Len(calls) :
        /\ a < b /\ calls[a] = x /\ calls[b] = y
        /\ \A k \in 1 .. Len(calls) : calls[k] = y => k = b

(* The order of two calls of a list made once.                             *)
LEMMA OnceCallOrdered ==
    ASSUME NEW calls, calls \in Seq(CallName), NEW x, NEW y, CalledBefore(calls, x, y)
    PROVE  Ordered(Once(calls), Single(x), Single(y))
<1>1. PICK a \in 1 .. Len(calls), b \in 1 .. Len(calls) :
        /\ a < b /\ calls[a] = x /\ calls[b] = y
        /\ \A k \in 1 .. Len(calls) : calls[k] = y => k = b
  BY DEF CalledBefore
<1>2. \A k \in 1 .. Len(calls) : calls[k] = calls[b] => k = b
  BY <1>1
<1>3. Ordered(Once(calls), [call |-> calls[a], chan |-> NoChannel],
                           [call |-> calls[b], chan |-> NoChannel])
  BY <1>1, <1>2, OnceOrdered
<1> QED
  BY <1>1, <1>3 DEF Single

(* The order of two calls of a list for the same channel.                  *)
LEMMA EachCallOrdered ==
    ASSUME NEW calls, calls \in Seq(CallName), Len(calls) \in {1, 3, 7}, NEW c \in Channels,
           NEW x, NEW y, CalledBefore(calls, x, y)
    PROVE  Ordered(EachChannel(calls), Of(x, c), Of(y, c))
<1>1. PICK a \in 1 .. Len(calls), b \in 1 .. Len(calls) :
        /\ a < b /\ calls[a] = x /\ calls[b] = y
        /\ \A k \in 1 .. Len(calls) : calls[k] = y => k = b
  BY DEF CalledBefore
<1>2. \A k \in 1 .. Len(calls) : calls[k] = calls[b] => k = b
  BY <1>1
<1>3. Ordered(EachChannel(calls), [call |-> calls[a], chan |-> c], [call |-> calls[b], chan |-> c])
  BY <1>1, <1>2, EachOrdered
<1> QED
  BY <1>1, <1>3 DEF Of

(* The calls of vpss_setup that a stream needs.                            *)
LEMMA VpssHas ==
    /\ \A name \in {"VPSS_SET_SYS_ADDR", "VPSS_SET_VI_ATTR", "VPSS_ENABLE", "VPSS_OPEN_CHN"} :
          Has(vpss_setup, Single(name))
    /\ \A c \in Channels :
          \A name \in {"VPSS_SET_CHN_ADDR", "VPSS_SET_CHN_ATTR", "VPSS_SET_VO_MODE"} :
             Has(vpss_setup, Of(name, c))
<1> DEFINE p1 == Once(Vpss1)
           p2 == p1 \o EachChannel(Vpss2)
           p3 == p2 \o Once(Vpss3)
           p4 == p3 \o EachChannel(Vpss4)
           p5 == p4 \o Once(Vpss5)
           p6 == p5 \o EachChannel(Vpss6)
<1>1. Part(p1) /\ Part(p2) /\ Part(p3) /\ Part(p4) /\ Part(p5) /\ p6 = vpss_setup
  BY VpssParts, JoinedPart DEF vpss_setup, Vpss1, Vpss2, Vpss3, Vpss4, Vpss5, Vpss6
<1>2. \A x : \/ Has(p1, x) \/ Has(EachChannel(Vpss2), x) \/ Has(Once(Vpss3), x)
             \/ Has(EachChannel(Vpss4), x) \/ Has(Once(Vpss5), x) \/ Has(EachChannel(Vpss6), x)
             => Has(vpss_setup, x)
  <2> TAKE x
  <2>1. Has(p1, x) \/ Has(EachChannel(Vpss2), x) => Has(p2, x)
    BY <1>1, VpssParts, JoinedHas DEF Part
  <2>2. Has(p2, x) \/ Has(Once(Vpss3), x) => Has(p3, x)
    BY <1>1, VpssParts, JoinedHas DEF Part
  <2>3. Has(p3, x) \/ Has(EachChannel(Vpss4), x) => Has(p4, x)
    BY <1>1, VpssParts, JoinedHas DEF Part
  <2>4. Has(p4, x) \/ Has(Once(Vpss5), x) => Has(p5, x)
    BY <1>1, VpssParts, JoinedHas DEF Part
  <2>5. Has(p5, x) \/ Has(EachChannel(Vpss6), x) => Has(p6, x)
    BY <1>1, VpssParts, JoinedHas DEF Part
  <2> HIDE DEF p1, p2, p3, p4, p5, p6
  <2> QED
    BY <1>1, <2>1, <2>2, <2>3, <2>4, <2>5
<1> HIDE DEF p1, p2, p3, p4, p5, p6
<1> USE DEF CallName, AsksSize, GivesMemory
<1>3. Has(p1, Single("VPSS_SET_SYS_ADDR"))
  <2>1. Vpss1 \in Seq(CallName) /\ Len(Vpss1) = 3 /\ Vpss1[3] = "VPSS_SET_SYS_ADDR"
    BY DEF Vpss1
  <2> QED
    BY <2>1, OnceCallHas DEF p1
<1>4. Has(Once(Vpss3), Single("VPSS_SET_VI_ATTR")) /\ Has(Once(Vpss3), Single("VPSS_ENABLE"))
  <2>1. Vpss3 \in Seq(CallName) /\ Len(Vpss3) = 2 /\ Vpss3[1] = "VPSS_SET_VI_ATTR"
        /\ Vpss3[2] = "VPSS_ENABLE"
    BY DEF Vpss3
  <2> QED
    BY <2>1, OnceCallHas
<1>5. Has(Once(Vpss5), Single("VPSS_OPEN_CHN"))
  <2>1. Vpss5 \in Seq(CallName) /\ Len(Vpss5) = 1 /\ Vpss5[1] = "VPSS_OPEN_CHN"
    BY DEF Vpss5
  <2> QED
    BY <2>1, OnceCallHas
<1>6. \A c \in Channels : Has(EachChannel(Vpss2), Of("VPSS_SET_CHN_ADDR", c))
  <2>1. Vpss2 \in Seq(CallName) /\ Len(Vpss2) = 3 /\ Vpss2[3] = "VPSS_SET_CHN_ADDR"
    BY DEF Vpss2
  <2> QED
    BY <2>1, EachCallHas
<1>7. \A c \in Channels : Has(EachChannel(Vpss4), Of("VPSS_SET_CHN_ATTR", c))
  <2>1. Vpss4 \in Seq(CallName) /\ Len(Vpss4) = 1 /\ Vpss4[1] = "VPSS_SET_CHN_ATTR"
    BY DEF Vpss4
  <2> QED
    BY <2>1, EachCallHas
<1>8. \A c \in Channels : Has(EachChannel(Vpss6), Of("VPSS_SET_VO_MODE", c))
  <2>1. Vpss6 \in Seq(CallName) /\ Len(Vpss6) = 1 /\ Vpss6[1] = "VPSS_SET_VO_MODE"
    BY DEF Vpss6
  <2> QED
    BY <2>1, EachCallHas
<1> QED
  BY <1>2, <1>3, <1>4, <1>5, <1>6, <1>7, <1>8

(* isp_setup: the ISP started and given its buffers, then its registers.   *)
LEMMA IspHas ==
    /\ \A name \in {"isp_start", "isp_core_alloc_buf_addr", "isp_hw_init", "isp_start_processing"} :
          Has(isp_setup, Single(name))
    /\ Ordered(isp_setup, Single("isp_core_alloc_buf_addr"), Single("isp_hw_init"))
    /\ Ordered(isp_setup, Single("isp_hw_init"), Single("isp_start_processing"))
    /\ Ordered(isp_setup, Single("isp_start"), Single("isp_start_processing"))
<1>1. Isp \in Seq(CallName) /\ Len(Isp) = 11 /\ isp_setup = Once(Isp)
  BY DEF Isp, isp_setup, CallName, AsksSize, GivesMemory, Ignored, CannotFail
<1>2. /\ Isp[6] = "isp_start" /\ Isp[8] = "isp_core_alloc_buf_addr"
      /\ Isp[9] = "isp_hw_init" /\ Isp[10] = "isp_start_processing"
  BY DEF Isp
<1>3. \A k \in 1 .. 11 : (Isp[k] = "isp_hw_init" => k = 9) /\ (Isp[k] = "isp_start_processing" => k = 10)
  BY DEF Isp
<1>4. \A name \in {"isp_start", "isp_core_alloc_buf_addr", "isp_hw_init", "isp_start_processing"} :
         Has(isp_setup, Single(name))
  BY <1>1, <1>2, OnceCallHas
<1>5. Ordered(isp_setup, Single("isp_core_alloc_buf_addr"), Single("isp_hw_init"))
  <2>1. CalledBefore(Isp, "isp_core_alloc_buf_addr", "isp_hw_init")
    BY <1>1, <1>2, <1>3 DEF CalledBefore
  <2> QED
    BY <1>1, <2>1, OnceCallOrdered
<1>6. Ordered(isp_setup, Single("isp_hw_init"), Single("isp_start_processing"))
  <2>1. CalledBefore(Isp, "isp_hw_init", "isp_start_processing")
    BY <1>1, <1>2, <1>3 DEF CalledBefore
  <2> QED
    BY <1>1, <2>1, OnceCallOrdered
<1>7. Ordered(isp_setup, Single("isp_start"), Single("isp_start_processing"))
  <2>1. CalledBefore(Isp, "isp_start", "isp_start_processing")
    BY <1>1, <1>2, <1>3 DEF CalledBefore
  <2> QED
    BY <1>1, <2>1, OnceCallOrdered
<1> QED
  BY <1>4, <1>5, <1>6, <1>7

(* venc_sys_init gives the encoder its memory.                             *)
LEMMA VencHas ==
    Has(venc_sys_init, Single("VENC_SYS_SET_ADDR"))
<1>1. Venc \in Seq(CallName) /\ Len(Venc) = 3 /\ venc_sys_init = Once(Venc)
      /\ Venc[3] = "VENC_SYS_SET_ADDR"
  BY DEF Venc, venc_sys_init, CallName, AsksSize, GivesMemory
<1> QED
  BY <1>1, OnceCallHas

(* venc_chn_setup and venc_bind_and_start, for each channel.               *)
LEMMA ChannelHas ==
    ASSUME NEW c \in Channels
    PROVE  LET d == EachChannel(venc_channel) IN
           /\ \A name \in {"VENC_CREATE_CHN", "VENC_SET_CHN_CONFIG", "VENC_SET_RC_ATTR",
                            "MEDIA_BIND", "VENC_START_RECV_PIC"} : Has(d, Of(name, c))
           /\ Ordered(d, Of("VENC_SET_CHN_CONFIG", c), Of("MEDIA_BIND", c))
           /\ Ordered(d, Of("MEDIA_BIND", c), Of("VENC_START_RECV_PIC", c))
           /\ Ordered(d, Of("VENC_SET_RC_ATTR", c), Of("VENC_START_RECV_PIC", c))
<1> DEFINE t == venc_channel
           d == EachChannel(t)
<1>1. t \in Seq(CallName) /\ Len(t) = 7
  BY DEF venc_channel, CallName, AsksSize, GivesMemory
<1>2. /\ t[3] = "VENC_CREATE_CHN" /\ t[4] = "VENC_SET_CHN_CONFIG" /\ t[5] = "VENC_SET_RC_ATTR"
      /\ t[6] = "MEDIA_BIND" /\ t[7] = "VENC_START_RECV_PIC"
  BY DEF venc_channel
<1>3. \A k \in 1 .. 7 : (t[k] = "MEDIA_BIND" => k = 6) /\ (t[k] = "VENC_START_RECV_PIC" => k = 7)
  BY DEF venc_channel
<1> HIDE DEF t
<1>4. \A name \in {"VENC_CREATE_CHN", "VENC_SET_CHN_CONFIG", "VENC_SET_RC_ATTR",
                   "MEDIA_BIND", "VENC_START_RECV_PIC"} : Has(d, Of(name, c))
  BY <1>1, <1>2, EachCallHas
<1>5. Ordered(d, Of("VENC_SET_CHN_CONFIG", c), Of("MEDIA_BIND", c))
  <2>1. CalledBefore(t, "VENC_SET_CHN_CONFIG", "MEDIA_BIND")
    BY <1>1, <1>2, <1>3 DEF CalledBefore
  <2> QED
    BY <1>1, <2>1, EachCallOrdered
<1>6. Ordered(d, Of("MEDIA_BIND", c), Of("VENC_START_RECV_PIC", c))
  <2>1. CalledBefore(t, "MEDIA_BIND", "VENC_START_RECV_PIC")
    BY <1>1, <1>2, <1>3 DEF CalledBefore
  <2> QED
    BY <1>1, <2>1, EachCallOrdered
<1>7. Ordered(d, Of("VENC_SET_RC_ATTR", c), Of("VENC_START_RECV_PIC", c))
  <2>1. CalledBefore(t, "VENC_SET_RC_ATTR", "VENC_START_RECV_PIC")
    BY <1>1, <1>2, <1>3 DEF CalledBefore
  <2> QED
    BY <1>1, <2>1, EachCallOrdered
<1> QED
  BY <1>4, <1>5, <1>6, <1>7 DEF t

(* Everything a stream needs is called before the server is made.          *)
LEMMA SetupHas ==
    /\ \A name \in NeededOnce : Has(Setup3, Single(name))
    /\ \A c \in Channels : \A name \in NeededForEach : Has(Setup3, Of(name, c))
<1>1. \A x : \/ Has(vpss_setup, x) \/ Has(isp_setup, x) \/ Has(venc_sys_init, x)
             \/ Has(EachChannel(venc_channel), x)
             => Has(Setup3, x)
  <2> TAKE x
  <2>1. Has(vpss_setup, x) \/ Has(isp_setup, x) => Has(Setup1, x)
    BY ScriptIs, OtherParts, JoinedHas DEF Part, Setup1
  <2>2. Has(Setup1, x) \/ Has(venc_sys_init, x) => Has(Setup2, x)
    BY ScriptIs, OtherParts, JoinedHas DEF Part, Setup2
  <2>3. Has(Setup2, x) \/ Has(EachChannel(venc_channel), x) => Has(Setup3, x)
    BY ScriptIs, OtherParts, JoinedHas DEF Part, Setup3
  <2> QED
    BY <2>1, <2>2, <2>3
<1>2. \A name \in NeededOnce : Has(Setup3, Single(name))
  BY <1>1, VpssHas, IspHas, VencHas DEF NeededOnce
<1>3. \A c \in Channels : \A name \in NeededForEach : Has(Setup3, Of(name, c))
  BY <1>1, VpssHas, ChannelHas DEF NeededForEach
<1> QED
  BY <1>2, <1>3

(* What the parts avoid, for each kind of late call.                       *)
LEMMA SetupAvoids ==
    /\ Avoids(vpss_setup, IspLate)
    /\ \A s \in {venc_sys_init, EachChannel(venc_channel), Once(Init), EachChannel(Enable), Once(OnIdr)} :
          Avoids(s, IspLate)
    /\ Avoids(Setup2, ChannelLate)
    /\ \A s \in {Once(Init), EachChannel(Enable), Once(OnIdr)} : Avoids(s, ChannelLate)
    /\ Avoids(Setup3, ServerCalls) /\ Avoids(EachChannel(Enable), ServerCalls)
    /\ Avoids(Once(OnIdr), ServerCalls)
    /\ Avoids(Setup4, OfferCalls) /\ Avoids(Once(OnIdr), OfferCalls)
<1>1. /\ IspLate \subseteq Late /\ IspLate \subseteq Late \ ChannelLate
      /\ IspLate \subseteq Late \ ServerCalls /\ IspLate \subseteq Late \ OfferCalls
      /\ ChannelLate \subseteq Late /\ ChannelLate \subseteq Late \ IspLate
      /\ ChannelLate \subseteq Late \ ServerCalls /\ ChannelLate \subseteq Late \ OfferCalls
      /\ ServerCalls \subseteq Late /\ ServerCalls \subseteq Late \ IspLate
      /\ ServerCalls \subseteq Late \ ChannelLate /\ ServerCalls \subseteq Late \ OfferCalls
      /\ OfferCalls \subseteq Late /\ OfferCalls \subseteq Late \ IspLate
      /\ OfferCalls \subseteq Late \ ChannelLate /\ OfferCalls \subseteq Late \ ServerCalls
  BY DEF Late, IspLate, ChannelLate, ServerCalls, OfferCalls
<1>2. /\ Avoids(vpss_setup, IspLate) /\ Avoids(venc_sys_init, IspLate)
      /\ Avoids(EachChannel(venc_channel), IspLate) /\ Avoids(Once(Init), IspLate)
      /\ Avoids(EachChannel(Enable), IspLate) /\ Avoids(Once(OnIdr), IspLate)
  BY <1>1, PartsAvoid, AvoidsLess
<1>3. /\ Avoids(vpss_setup, ChannelLate) /\ Avoids(isp_setup, ChannelLate)
      /\ Avoids(venc_sys_init, ChannelLate) /\ Avoids(Once(Init), ChannelLate)
      /\ Avoids(EachChannel(Enable), ChannelLate) /\ Avoids(Once(OnIdr), ChannelLate)
  BY <1>1, PartsAvoid, AvoidsLess
<1>4. /\ Avoids(vpss_setup, ServerCalls) /\ Avoids(isp_setup, ServerCalls)
      /\ Avoids(venc_sys_init, ServerCalls) /\ Avoids(EachChannel(venc_channel), ServerCalls)
      /\ Avoids(EachChannel(Enable), ServerCalls) /\ Avoids(Once(OnIdr), ServerCalls)
  BY <1>1, PartsAvoid, AvoidsLess
<1>5. /\ Avoids(vpss_setup, OfferCalls) /\ Avoids(isp_setup, OfferCalls)
      /\ Avoids(venc_sys_init, OfferCalls) /\ Avoids(EachChannel(venc_channel), OfferCalls)
      /\ Avoids(Once(Init), OfferCalls) /\ Avoids(Once(OnIdr), OfferCalls)
  BY <1>1, PartsAvoid, AvoidsLess
<1>6. Avoids(Setup2, ChannelLate)
  BY <1>3, ScriptIs, OtherParts, JoinedAvoids DEF Part, Setup1, Setup2
<1>7. Avoids(Setup3, ServerCalls)
  BY <1>4, ScriptIs, OtherParts, JoinedAvoids DEF Part, Setup1, Setup2, Setup3
<1>8. Avoids(Setup4, OfferCalls)
  BY <1>5, ScriptIs, OtherParts, JoinedAvoids DEF Part, Setup1, Setup2, Setup3, Setup4
<1> QED
  BY <1>2, <1>3, <1>4, <1>5, <1>6, <1>7, <1>8

(* The ISP's calls stand only in its setup, the channels' only in theirs.  *)
LEMMA IspOrder ==
    ASSUME NEW x, NEW y \in Entry, y.call \in IspLate, Ordered(isp_setup, x, y)
    PROVE  Ordered(Script, x, y)
<1> USE ScriptIs, OtherParts, SetupAvoids DEF Part
<1>1. Ordered(Setup1, x, y)
  BY OrderedSecond DEF Setup1
<1>2. Ordered(Setup2, x, y)
  BY <1>1, OrderedFirst DEF Setup2
<1>3. Ordered(Setup3, x, y)
  BY <1>2, OrderedFirst DEF Setup3
<1>4. Ordered(Setup4, x, y)
  BY <1>3, OrderedFirst DEF Setup4
<1>5. Ordered(Setup5, x, y)
  BY <1>4, OrderedFirst DEF Setup5
<1> QED
  BY <1>5, OrderedFirst

(* The calls of vpss_setup and venc_sys_init come before the channels' own.*)
LEMMA ChannelOrder ==
    ASSUME NEW x, NEW y \in Entry, y.call \in ChannelLate,
           Ordered(EachChannel(venc_channel), x, y) \/ Has(Setup2, x)
    PROVE  Ordered(Script, x, y)
<1> USE ScriptIs, OtherParts, SetupAvoids DEF Part
<1>1. Ordered(Setup3, x, y)
  BY OrderedSecond DEF Setup3
<1>2. Ordered(Setup4, x, y)
  BY <1>1, OrderedFirst DEF Setup4
<1>3. Ordered(Setup5, x, y)
  BY <1>2, OrderedFirst DEF Setup5
<1> QED
  BY <1>3, OrderedFirst

(* The server comes after the setup, the streams it offers after both.     *)
LEMMA ServerOrder ==
    ASSUME NEW x, Has(Setup3, x), NEW y \in Entry, y.call \in ServerCalls \cup OfferCalls
    PROVE  Ordered(Script, x, y)
<1> USE ScriptIs, OtherParts, SetupAvoids DEF Part
<1>1. CASE y.call \in ServerCalls
  <2>1. Ordered(Setup4, x, y)
    BY <1>1, OrderedSecond DEF Setup4
  <2>2. Ordered(Setup5, x, y)
    BY <1>1, <2>1, OrderedFirst DEF Setup5
  <2> QED
    BY <1>1, <2>2, OrderedFirst
<1>2. CASE y.call \in OfferCalls
  <2>1. Has(Setup4, x)
    BY JoinedHas DEF Setup4
  <2>2. Ordered(Setup5, x, y)
    BY <1>2, <2>1, OrderedSecond DEF Setup5
  <2> QED
    BY <1>2, <2>2, OrderedFirst
<1> QED
  BY <1>1, <1>2

-----------------------------------------------------------------------------
(* The program: what is done is a beginning of the script.                 *)

Prefix(n) == {Script[i] : i \in {k \in 1 .. n : Script[k].call \notin Ignored}}

(* One call more.                                                          *)
LEMMA PrefixGrows ==
    ASSUME NEW n \in 1 .. Len(Script)
    PROVE  Prefix(n) = IF Script[n].call \in Ignored THEN Prefix(n - 1)
                       ELSE Prefix(n - 1) \cup {Script[n]}
<1>1. \A k : k \in 1 .. n <=> k \in 1 .. n - 1 \/ k = n
  OBVIOUS
<1> QED
  BY <1>1 DEF Prefix

(* What is in a beginning of the script has what comes before it there.    *)
LEMMA PrefixOrdered ==
    ASSUME NEW n \in 0 .. Len(Script), NEW x, NEW y \in Prefix(n),
           Ordered(Script, x, y), x.call \notin Ignored
    PROVE  x \in Prefix(n)
<1>1. PICK j \in 1 .. n : y = Script[j]
  BY DEF Prefix
<1>2. j \in 1 .. Len(Script) /\ Len(Script) \in Nat
  BY <1>1, ScriptIs, Joined DEF Part
<1>3. PICK i \in 1 .. j - 1 : Script[i] = x
  BY <1>1, <1>2 DEF Ordered
<1> QED
  BY <1>1, <1>3 DEF Prefix

Places == {"opening", "sensor", "setup", "loop", "turn", "closing", "stopped", "failed"}

Progress ==
    /\ main \in Places
    /\ main \in {"opening", "sensor"} => at = 1 /\ done = {}
    /\ main = "setup" => at \in 1 .. Len(Script) /\ done = Prefix(at - 1)
    /\ main \in {"loop", "turn"} => at = 1
    /\ main = "closing" => at \in 1 .. 7
    /\ \E n \in 0 .. Len(Script) : done = Prefix(n)

(* The script is finite, and of entries.                                   *)
LEMMA ScriptLen ==
    /\ Len(Script) \in Nat /\ Script \in Seq(Entry)
    /\ \A i \in 1 .. Len(Script) : Script[i] \in Entry
BY ScriptIs, LenProperties DEF Part

(* A call that succeeds is done, and main() goes on.                       *)
LEMMA SucceedsProgress ==
    ASSUME Progress, NEW calls, Succeeds(calls)
    PROVE  /\ Progress' /\ main = "setup" /\ main' \in {"setup", "loop"}
           /\ at \in 1 .. Len(Script) /\ Current = Script[at] /\ Current \in Entry
           /\ Current.call \in calls
           /\ main' = "setup" => at' = at + 1
           /\ done' \subseteq done \cup {Current} /\ done \subseteq done'
<1>1. /\ main = "setup" /\ at \in 1 .. Len(Script) /\ done = Prefix(at - 1)
      /\ Current = Script[at] /\ Current \in Entry /\ Current.call \in calls
  BY ScriptLen DEF Progress, Succeeds, Current
<1>2. done' = Prefix(at)
  BY <1>1, PrefixGrows DEF Succeeds
<1>3. CASE at = Len(Script)
  <2>1. main' = "loop" /\ at' = 1 /\ at \in 0 .. Len(Script)
    BY <1>1, <1>3 DEF Succeeds
  <2>2. Progress'
    BY <1>2, <2>1 DEF Progress, Places
  <2> QED
    BY <1>1, <2>1, <2>2 DEF Succeeds
<1>4. CASE at # Len(Script)
  <2>1. /\ main' = "setup" /\ at' = at + 1 /\ at' \in 1 .. Len(Script) /\ at' - 1 = at
        /\ at \in 0 .. Len(Script)
    BY <1>1, <1>4, ScriptLen DEF Succeeds
  <2>2. Progress'
    BY <1>2, <2>1 DEF Progress, Places
  <2> QED
    BY <1>1, <2>1, <2>2 DEF Succeeds
<1> QED
  BY <1>3, <1>4

(* main() begins with nothing done.                                        *)
LEMMA ProgressInit ==
    UpInit => Progress
<1>1. Prefix(0) = {}
  BY DEF Prefix
<1>2. 0 \in 0 .. Len(Script)
  BY ScriptLen
<1> QED
  BY <1>1, <1>2 DEF UpInit, Progress, Places

(* Every step keeps what is done a beginning of the script.                *)
LEMMA ProgressStep ==
    ASSUME Progress, [UpNext]_upVars
    PROVE  Progress'
<1>1. CASE OpenDevices
  BY <1>1 DEF OpenDevices, Progress, Places
<1>2. CASE SetUpSensor
  <2>1. main' \in {"failed", "setup", "sensor"} /\ UNCHANGED <<at, done>> /\ main = "sensor"
    BY <1>2 DEF SetUpSensor
  <2>2. done = {} /\ at = 1 /\ at \in 1 .. Len(Script) /\ Prefix(at - 1) = {}
    <3>1. 1 <= Len(Script)
      <4>1. Has(Setup3, Single("isp_start"))
        BY SetupHas DEF NeededOnce
      <4>2. Len(Setup3) >= 1
        BY <4>1, ScriptIs, LenProperties DEF Has, Part
      <4>3. Len(Setup3) <= Len(Setup4) /\ Len(Setup4) <= Len(Setup5) /\ Len(Setup5) <= Len(Script)
        BY ScriptIs, OtherParts, Joined DEF Part, Setup4, Setup5
      <4>4. /\ Len(Setup3) \in Nat /\ Len(Setup4) \in Nat /\ Len(Setup5) \in Nat
            /\ Len(Script) \in Nat
        BY ScriptIs, LenProperties DEF Part
      <4> QED
        BY <4>2, <4>3, <4>4
    <3>2. Prefix(0) = {}
      BY DEF Prefix
    <3>3. done = {} /\ at = 1
      BY <2>1 DEF Progress
    <3> QED
      BY <3>1, <3>2, <3>3, ScriptLen
  <2>3. (\E n \in 0 .. Len(Script) : done = Prefix(n)) /\ (\E n \in 0 .. Len(Script) : done = Prefix(n))'
    BY <2>1 DEF Progress
  <2> QED
    BY <2>1, <2>2, <2>3 DEF Progress, Places
<1>3. CASE AskSize \/ vmm_alloc \/ GiveMemory \/ OpensDescriptor \/ PlainCall
  BY <1>3, SucceedsProgress DEF AskSize, vmm_alloc, GiveMemory, OpensDescriptor, PlainCall
<1>4. CASE CallFails
  BY <1>4 DEF CallFails, Progress, Places
<1>5. CASE LoopTop
  BY <1>5 DEF LoopTop, Progress, Places
<1>6. CASE Turn
  BY <1>6 DEF Turn, Progress, Places
<1>7. CASE CloseNext
  <2>1. /\ main = "closing" /\ at \in 1 .. 7 /\ at' = at + 1 /\ done' = done
        /\ main' = IF at = 7 THEN "stopped" ELSE "closing"
    BY <1>7 DEF CloseNext, Closing, Progress
  <2> QED
    BY <2>1 DEF Progress, Places
<1>8. CASE Signal
  BY <1>8 DEF Signal, Progress, Places
<1>9. CASE UNCHANGED upVars
  BY <1>9 DEF upVars, mainVars, Progress, Places
<1> QED
  BY <1>1, <1>2, <1>3, <1>4, <1>5, <1>6, <1>7, <1>8, <1>9 DEF UpNext, MainNext

(* What is done is always a beginning of the script.                       *)
LEMMA ProgressInductive == UpSpec => []Progress
BY ProgressInit, ProgressStep, PTL DEF UpSpec

-----------------------------------------------------------------------------
(* The memory: the zone reserved last is for the owner asked last, and no  *)
(* owner has it before it is given.                                        *)

Sized == Owners \cup {NoOwner}

ZonesFor ==
    /\ size \in Sized /\ ph \in Nat /\ zones \in Seq(Sized)
    /\ mem \in [Owners -> [zone : Nat, size : Sized]]

MemoryApart ==
    /\ \A o \in Owners : mem[o] # NoMemory =>
          mem[o].zone \in 1 .. Len(zones) /\ zones[mem[o].zone] = o /\ mem[o].size = o
    /\ \A x \in done : x.call \in GivesMemory => Owner(x) \in Owners /\ mem[Owner(x)] # NoMemory

Asked == at >= 2 /\ Script[at - 1].call \in AsksSize
Reserved == at >= 3 /\ Script[at - 1].call = "vmm_alloc" /\ Script[at - 2].call \in AsksSize

InHand ==
    main = "setup" =>
        /\ Asked => size = Owner(Script[at - 1])
        /\ Reserved => size = Owner(Script[at - 2]) /\ ph = Len(zones) /\ ph >= 1 /\ zones[ph] = size

MemoryInv == ZonesFor /\ MemoryApart /\ InHand

(* Every entry has an owner.                                               *)
LEMMA OwnerIs ==
    ASSUME NEW x \in Entry
    PROVE  Owner(x) \in Owners
BY DEF Entry, Owner, Owners

(* No memory is given at first.                                            *)
LEMMA MemoryInit ==
    UpInit => MemoryInv
BY EmptySeq DEF UpInit, MemoryInv, ZonesFor, MemoryApart, InHand, Sized, NoMemory

(* Nothing but the calls of the setup touches the memory.                  *)
LEMMA MemoryUntouched ==
    ASSUME MemoryInv, UNCHANGED <<done, size, ph, zones, mem>>,
           main' # "setup" \/ UNCHANGED <<main, at>> \/ at' = 1
    PROVE  MemoryInv'
<1>1. ZonesFor' /\ MemoryApart'
  BY DEF MemoryInv, ZonesFor, MemoryApart
<1>2. InHand'
  BY DEF MemoryInv, InHand, Asked, Reserved
<1> QED
  BY <1>1, <1>2 DEF MemoryInv

(* A size asked for is in hand.                                            *)
LEMMA AskMemory ==
    ASSUME Progress, MemoryInv, AskSize
    PROVE  MemoryInv'
<1>1. /\ main = "setup" /\ at \in 1 .. Len(Script) /\ Current = Script[at] /\ Current \in Entry
      /\ Current.call \in AsksSize /\ (main' = "setup" => at' = at + 1)
      /\ done' \subseteq done \cup {Current}
      /\ size' = Owner(Current) /\ UNCHANGED <<ph, zones, mem>>
  BY SucceedsProgress DEF AskSize
<1>2. size' \in Owners
  BY <1>1, OwnerIs
<1>3. ZonesFor'
  BY <1>1, <1>2 DEF MemoryInv, ZonesFor, Sized
<1>4. Current.call \notin GivesMemory /\ Current.call # "vmm_alloc"
  BY <1>1 DEF AsksSize, GivesMemory
<1>5. MemoryApart'
  BY <1>1, <1>4 DEF MemoryInv, MemoryApart
<1>6. InHand'
  <2>1. main' = "setup" => at' - 1 = at
    BY <1>1
  <2> QED
    BY <1>1, <1>4, <2>1 DEF InHand, Asked, Reserved
<1> QED
  BY <1>3, <1>5, <1>6 DEF MemoryInv

(* The zone reserved is the newest, of the size in hand.                   *)
LEMMA AllocMemory ==
    ASSUME Progress, MemoryInv, vmm_alloc
    PROVE  MemoryInv'
<1>1. /\ main = "setup" /\ at \in 1 .. Len(Script) /\ Current = Script[at] /\ Current \in Entry
      /\ Current.call = "vmm_alloc" /\ (main' = "setup" => at' = at + 1)
      /\ done' \subseteq done \cup {Current}
      /\ zones' = Append(zones, size) /\ ph' = Len(zones') /\ UNCHANGED <<size, mem>>
  BY SucceedsProgress DEF vmm_alloc, ReturnedZone
<1>2. /\ Len(zones) \in Nat /\ zones' \in Seq(Sized) /\ Len(zones') = Len(zones) + 1
      /\ zones'[Len(zones')] = size /\ \A i \in 1 .. Len(zones) : zones'[i] = zones[i]
  BY <1>1, AppendProperties, LenProperties DEF MemoryInv, ZonesFor
<1>3. ZonesFor'
  BY <1>1, <1>2 DEF MemoryInv, ZonesFor
<1>4. Current.call \notin GivesMemory /\ Current.call \notin AsksSize
  BY <1>1 DEF AsksSize, GivesMemory
<1>5. MemoryApart'
  <2>1. \A o \in Owners : mem[o] # NoMemory =>
           mem[o].zone \in 1 .. Len(zones') /\ zones'[mem[o].zone] = o /\ mem[o].size = o
    BY <1>2 DEF MemoryInv, MemoryApart
  <2>2. \A x \in done' : x.call \in GivesMemory => Owner(x) \in Owners /\ mem[Owner(x)] # NoMemory
    BY <1>1, <1>4 DEF MemoryInv, MemoryApart
  <2> QED
    BY <1>1, <2>1, <2>2 DEF MemoryApart
<1>6. InHand'
  <2>1. main' = "setup" => at' - 1 = at /\ at' - 2 = at - 1
    BY <1>1
  <2>2. at >= 2 /\ Script[at - 1].call \in AsksSize => size = Owner(Script[at - 1])
    BY <1>1 DEF MemoryInv, InHand, Asked
  <2>3. ph' >= 1 /\ zones'[ph'] = size'
    BY <1>1, <1>2
  <2> QED
    BY <1>1, <1>4, <2>1, <2>2, <2>3 DEF InHand, Asked, Reserved
<1> QED
  BY <1>3, <1>5, <1>6 DEF MemoryInv

(* Memory given is the zone in hand, which no other owner has.             *)
LEMMA GiveKeepsMemory ==
    ASSUME Progress, MemoryInv, GiveMemory
    PROVE  MemoryInv'
<1> DEFINE o == Owner(Current)
           m == [zone |-> ph, size |-> size]
<1>1. /\ main = "setup" /\ at \in 1 .. Len(Script) /\ Current = Script[at] /\ Current \in Entry
      /\ Current.call \in GivesMemory /\ (main' = "setup" => at' = at + 1)
      /\ done' \subseteq done \cup {Current}
      /\ mem' = [mem EXCEPT ![o] = m] /\ UNCHANGED <<size, ph, zones>>
  BY SucceedsProgress DEF GiveMemory
<1>2. at >= 3 /\ Script[at - 1].call = "vmm_alloc" /\ Script[at - 2].call \in AsksSize
      /\ Owner(Script[at - 2]) = o
  BY <1>1, ScriptIs DEF Part, Paired
<1>3. size = o /\ ph = Len(zones) /\ ph >= 1 /\ zones[ph] = o /\ o \in Owners
  BY <1>1, <1>2, OwnerIs DEF MemoryInv, InHand, Reserved
<1>4. Len(zones) \in Nat /\ ph \in 1 .. Len(zones) /\ ph \in Nat
  BY <1>3, LenProperties DEF MemoryInv, ZonesFor
<1> HIDE DEF o
<1>5. ZonesFor'
  BY <1>1, <1>3, <1>4 DEF MemoryInv, ZonesFor, Sized
<1>6. mem'[o] = m /\ \A p \in Owners \ {o} : mem'[p] = mem[p]
  BY <1>1, <1>3 DEF MemoryInv, ZonesFor
<1>7. m # NoMemory /\ m.zone = ph /\ m.size = o
  BY <1>3 DEF NoMemory
<1>8. \A p \in Owners : mem'[p] # NoMemory =>
         mem'[p].zone \in 1 .. Len(zones) /\ zones[mem'[p].zone] = p /\ mem'[p].size = p
  <2> TAKE p \in Owners
  <2>1. CASE p = o
    BY <1>3, <1>4, <1>6, <1>7, <2>1
  <2>2. CASE p # o
    BY <1>6, <2>2 DEF MemoryInv, MemoryApart
  <2> QED
    BY <2>1, <2>2
<1>9. \A x \in done' : x.call \in GivesMemory => Owner(x) \in Owners /\ mem'[Owner(x)] # NoMemory
  <2> SUFFICES ASSUME NEW x \in done', x.call \in GivesMemory
               PROVE  Owner(x) \in Owners /\ mem'[Owner(x)] # NoMemory
    OBVIOUS
  <2>1. CASE x = Current
    BY <1>3, <1>6, <1>7, <2>1 DEF o
  <2>2. CASE x \in done
    <3>1. Owner(x) \in Owners /\ mem[Owner(x)] # NoMemory
      BY <2>2 DEF MemoryInv, MemoryApart
    <3> QED
      BY <1>6, <1>7, <3>1
  <2> QED
    BY <1>1, <2>1, <2>2
<1>10. MemoryApart'
  BY <1>1, <1>8, <1>9 DEF MemoryApart
<1>11. InHand'
  <2>1. main' = "setup" => at' - 1 = at
    BY <1>1
  <2>2. Current.call \notin AsksSize /\ Current.call # "vmm_alloc"
    BY <1>1 DEF AsksSize, GivesMemory
  <2> QED
    BY <1>1, <2>1, <2>2 DEF InHand, Asked, Reserved
<1> QED
  BY <1>5, <1>10, <1>11 DEF MemoryInv

(* The other calls have nothing to do with memory.                         *)
LEMMA OtherMemory ==
    ASSUME Progress, MemoryInv, NEW calls, Succeeds(calls),
           calls \cap (AsksSize \cup GivesMemory \cup {"vmm_alloc"}) = {},
           UNCHANGED <<size, ph, zones, mem>>
    PROVE  MemoryInv'
<1>1. /\ main = "setup" /\ at \in 1 .. Len(Script) /\ Current = Script[at]
      /\ Current.call \in calls /\ (main' = "setup" => at' = at + 1)
      /\ done' \subseteq done \cup {Current}
  BY SucceedsProgress
<1>2. /\ Current.call \notin AsksSize /\ Current.call \notin GivesMemory
      /\ Current.call # "vmm_alloc"
  BY <1>1
<1>3. ZonesFor'
  BY DEF MemoryInv, ZonesFor
<1>4. MemoryApart'
  BY <1>1, <1>2 DEF MemoryInv, MemoryApart
<1>5. InHand'
  <2>1. main' = "setup" => at' - 1 = at
    BY <1>1
  <2> QED
    BY <1>1, <1>2, <2>1 DEF InHand, Asked, Reserved
<1> QED
  BY <1>3, <1>4, <1>5 DEF MemoryInv

(* Every step keeps the memory apart.                                      *)
LEMMA MemoryStep ==
    ASSUME Progress, MemoryInv, [UpNext]_upVars
    PROVE  MemoryInv'
<1>1. CASE OpenDevices
  BY <1>1, MemoryUntouched DEF OpenDevices
<1>2. CASE SetUpSensor
  <2>1. at' = 1 /\ UNCHANGED <<done, size, ph, zones, mem>>
    BY <1>2 DEF SetUpSensor, Progress
  <2> QED
    BY <2>1, MemoryUntouched
<1>3. CASE AskSize
  BY <1>3, AskMemory
<1>4. CASE vmm_alloc
  BY <1>4, AllocMemory
<1>5. CASE GiveMemory
  BY <1>5, GiveKeepsMemory
<1>6. CASE OpensDescriptor
  <2>1. {"isp_hw_init", "rtsp_server_init"} \cap (AsksSize \cup GivesMemory \cup {"vmm_alloc"}) = {}
    BY DEF AsksSize, GivesMemory
  <2> QED
    BY <1>6, <2>1, OtherMemory DEF OpensDescriptor
<1>7. CASE PlainCall
  <2> DEFINE calls == {x.call : x \in {Script[i] : i \in DOMAIN Script}}
                      \ (AsksSize \cup GivesMemory
                         \cup {"vmm_alloc", "isp_hw_init", "rtsp_server_init"})
  <2>1. Succeeds(calls) /\ UNCHANGED <<size, ph, zones, mem>>
    BY <1>7 DEF PlainCall
  <2>2. calls \cap (AsksSize \cup GivesMemory \cup {"vmm_alloc"}) = {}
    OBVIOUS
  <2> HIDE DEF calls
  <2> QED
    BY <2>1, <2>2, OtherMemory
<1>8. CASE CallFails
  BY <1>8, MemoryUntouched DEF CallFails
<1>9. CASE LoopTop
  BY <1>9, MemoryUntouched DEF LoopTop
<1>10. CASE Turn
  BY <1>10, MemoryUntouched DEF Turn
<1>11. CASE CloseNext
  BY <1>11, MemoryUntouched DEF CloseNext
<1>12. CASE Signal
  BY <1>12, MemoryUntouched DEF Signal
<1>13. CASE UNCHANGED upVars
  BY <1>13, MemoryUntouched DEF upVars, mainVars
<1> QED
  BY <1>1, <1>2, <1>3, <1>4, <1>5, <1>6, <1>7, <1>8, <1>9, <1>10, <1>11, <1>12, <1>13
  DEF UpNext, MainNext

(* Memory is always apart.                                                 *)
LEMMA MemoryInductive == UpSpec => []MemoryInv
BY MemoryInit, MemoryStep, ProgressInductive, PTL DEF UpSpec

-----------------------------------------------------------------------------
(* The descriptors: the server's is opened last and closed first.          *)

Descriptors ==
    /\ main \in {"sensor", "setup", "loop", "turn"} => Devices \subseteq fds
    /\ main \in {"setup", "loop", "turn"} => phase = "formatted"
    /\ main = "setup" /\ Single("isp_hw_init") \in done => "mem" \in fds
    /\ "rtsp" \in fds =>
          /\ Devices \cup {"mem"} \subseteq fds /\ phase = "formatted"
          /\ main \notin {"opening", "sensor"} /\ (main = "closing" => at = 1)

(* A call of the setup that opens nothing.                                 *)
LEMMA CallDescriptors ==
    ASSUME Progress, Descriptors, NEW calls, Succeeds(calls), "isp_hw_init" \notin calls, fds' = fds
    PROVE  Descriptors'
<1>1. /\ main = "setup" /\ main' \in {"setup", "loop"} /\ Current.call \in calls
      /\ done' \subseteq done \cup {Current}
  BY SucceedsProgress
<1>2. Single("isp_hw_init").call = "isp_hw_init"
  BY DEF Single
<1>3. Single("isp_hw_init") \in done' => Single("isp_hw_init") \in done
  BY <1>1, <1>2
<1>4. phase' = phase
  BY DEF Succeeds, driverVars
<1> QED
  BY <1>1, <1>3, <1>4 DEF Descriptors

(* isp_hw_init and rtsp_server_init, which open a descriptor.              *)
LEMMA OpenDescriptors ==
    ASSUME Progress, Descriptors, OpensDescriptor
    PROVE  Descriptors'
<1>1. /\ main = "setup" /\ main' \in {"setup", "loop"} /\ at \in 1 .. Len(Script)
      /\ Current = Script[at] /\ Current \in Entry
      /\ Current.call \in {"isp_hw_init", "rtsp_server_init"}
      /\ done' \subseteq done \cup {Current} /\ done = Prefix(at - 1)
      /\ phase' = phase
  BY SucceedsProgress DEF OpensDescriptor, Progress, Succeeds, driverVars
<1>2. Devices \subseteq fds /\ phase = "formatted"
  BY <1>1 DEF Descriptors
<1>3. Devices \subseteq fds' /\ (Current.call = "rtsp_server_init" => fds' = fds \cup {"rtsp"})
      /\ (Current.call = "isp_hw_init" => fds' = fds \cup {"mem"})
  BY <1>1, <1>2 DEF OpensDescriptor
<1>4. CASE Current.call = "isp_hw_init"
  <2>1. "rtsp" \in fds' => "rtsp" \in fds
    BY <1>3, <1>4
  <2> QED
    BY <1>1, <1>2, <1>3, <1>4, <2>1 DEF Descriptors
<1>5. CASE Current.call = "rtsp_server_init"
  <2>1. Ordered(Script, Single("isp_hw_init"), Current)
    BY <1>1, <1>5, SetupHas, ServerOrder DEF NeededOnce, ServerCalls
  <2>2. PICK i \in 1 .. at - 1 : Script[i] = Single("isp_hw_init")
    BY <1>1, <2>1 DEF Ordered
  <2>3. Single("isp_hw_init").call \notin Ignored
    BY DEF Single, Ignored
  <2>4. Single("isp_hw_init") \in Prefix(at - 1)
    BY <2>2, <2>3 DEF Prefix
  <2>5. "mem" \in fds
    BY <1>1, <2>4 DEF Descriptors
  <2> QED
    BY <1>1, <1>2, <1>3, <1>5, <2>5 DEF Descriptors
<1> QED
  BY <1>1, <1>4, <1>5

(* Every step keeps the server within the devices.                         *)
LEMMA DescriptorStep ==
    ASSUME Progress, Descriptors, [UpNext]_upVars
    PROVE  Descriptors'
<1>1. CASE OpenDevices
  <2>1. "rtsp" \notin fds'
    BY <1>1 DEF OpenDevices, Devices
  <2> QED
    BY <1>1, <2>1 DEF OpenDevices, Descriptors
<1>2. CASE SetUpSensor
  <2>1. main = "sensor" /\ fds' = fds /\ done' = done /\ done = {} /\ "rtsp" \notin fds
    BY <1>2 DEF SetUpSensor, Progress, Descriptors
  <2>2. main' \in {"failed", "setup", "sensor"} /\ (main' = "setup" => phase' = "formatted")
    BY <1>2 DEF SetUpSensor
  <2>3. Devices \subseteq fds
    BY <2>1 DEF Descriptors
  <2> QED
    BY <2>1, <2>2, <2>3 DEF Descriptors
<1>3. CASE AskSize
  <2>1. Succeeds(AsksSize) /\ fds' = fds /\ "isp_hw_init" \notin AsksSize
    BY <1>3 DEF AskSize, AsksSize
  <2> QED
    BY <2>1, CallDescriptors
<1>4. CASE vmm_alloc
  <2>1. Succeeds({"vmm_alloc"}) /\ fds' = fds /\ "isp_hw_init" \notin {"vmm_alloc"}
    BY <1>4 DEF vmm_alloc
  <2> QED
    BY <2>1, CallDescriptors
<1>5. CASE GiveMemory
  <2>1. Succeeds(GivesMemory) /\ fds' = fds /\ "isp_hw_init" \notin GivesMemory
    BY <1>5 DEF GiveMemory, GivesMemory
  <2> QED
    BY <2>1, CallDescriptors
<1>6. CASE OpensDescriptor
  BY <1>6, OpenDescriptors
<1>7. CASE PlainCall
  <2> DEFINE calls == {x.call : x \in {Script[i] : i \in DOMAIN Script}}
                      \ (AsksSize \cup GivesMemory
                         \cup {"vmm_alloc", "isp_hw_init", "rtsp_server_init"})
  <2>1. Succeeds(calls) /\ fds' = fds
    BY <1>7 DEF PlainCall
  <2>2. "isp_hw_init" \notin calls
    OBVIOUS
  <2> HIDE DEF calls
  <2> QED
    BY <2>1, <2>2, CallDescriptors
<1>8. CASE CallFails
  BY <1>8 DEF CallFails, Descriptors, driverVars
<1>9. CASE LoopTop
  BY <1>9 DEF LoopTop, Descriptors, Progress, driverVars
<1>10. CASE Turn
  BY <1>10 DEF Turn, Descriptors, driverVars
<1>11. CASE CloseNext
  <2>1. main = "closing" /\ main' \in {"closing", "stopped"} /\ at \in 1 .. 7 /\ fds' = fds \ {Closing[at]}
    BY <1>11 DEF CloseNext, Progress
  <2>2. "rtsp" \notin fds'
    BY <2>1 DEF Descriptors, Closing
  <2> QED
    BY <2>1, <2>2 DEF Descriptors
<1>12. CASE Signal
  BY <1>12 DEF Signal, Descriptors, driverVars
<1>13. CASE UNCHANGED upVars
  BY <1>13 DEF upVars, mainVars, driverVars, Descriptors
<1> QED
  BY <1>1, <1>2, <1>3, <1>4, <1>5, <1>6, <1>7, <1>8, <1>9, <1>10, <1>11, <1>12, <1>13
  DEF UpNext, MainNext

(* Nothing is open at first.                                               *)
LEMMA DescriptorInit ==
    UpInit => Descriptors
BY DEF UpInit, Descriptors

(* The server's descriptor is always within the devices'.                  *)
LEMMA DescriptorInductive == UpSpec => []Descriptors
BY DescriptorInit, DescriptorStep, ProgressInductive, PTL DEF UpSpec

-----------------------------------------------------------------------------
(* What is done has everything before it done.                             *)
LEMMA DoneOrdered ==
    ASSUME Progress, NEW x, NEW y \in done, Ordered(Script, x, y), x.call \notin Ignored
    PROVE  x \in done
<1>1. PICK n \in 0 .. Len(Script) : done = Prefix(n)
  BY DEF Progress
<1> QED
  BY <1>1, PrefixOrdered

(* What is done are entries of the script.                                 *)
LEMMA DoneEntry ==
    ASSUME Progress
    PROVE  done \subseteq Entry
<1>1. PICK n \in 0 .. Len(Script) : done = Prefix(n)
  BY DEF Progress
<1> QED
  BY <1>1, ScriptLen DEF Prefix

(* A stream that is offered has had all its calls.                         *)
LEMMA OfferedIsDone ==
    ASSUME Progress, NEW c \in Channels, Of("rtsp_server_enable_stream", c) \in done
    PROVE  /\ \A name \in NeededOnce : Single(name) \in done
           /\ \A name \in NeededForEach : Of(name, c) \in done
<1> DEFINE y == Of("rtsp_server_enable_stream", c)
<1>1. y \in Entry /\ y.call \in ServerCalls \cup OfferCalls
  BY DoneEntry DEF Of, OfferCalls
<1> HIDE DEF y
<1>2. \A x : Has(Setup3, x) /\ x.call \notin Ignored => x \in done
  BY <1>1, ServerOrder, DoneOrdered DEF y
<1>3. ASSUME NEW name \in NeededOnce
      PROVE  Single(name) \in done
  <2>1. Single(name).call \notin Ignored
    BY DEF Single, NeededOnce, Ignored
  <2> QED
    BY <1>2, <2>1, SetupHas
<1>4. ASSUME NEW name \in NeededForEach
      PROVE  Of(name, c) \in done
  <2>1. Of(name, c).call \notin Ignored
    BY DEF Of, NeededForEach, Ignored
  <2> QED
    BY <1>2, <2>1, SetupHas
<1> QED
  BY <1>3, <1>4

(* Memory given is the owner's, and no other's.                            *)
LEMMA GivenIsSound ==
    ASSUME MemoryInv, NEW x \in done, x.call \in GivesMemory
    PROVE  MemorySound(Owner(x))
<1> DEFINE o == Owner(x)
<1>1. o \in Owners /\ mem[o] # NoMemory
  BY DEF MemoryInv, MemoryApart
<1> HIDE DEF o
<1>2. mem[o].zone \in 1 .. Len(zones) /\ zones[mem[o].zone] = o /\ mem[o].size = o
  BY <1>1 DEF MemoryInv, MemoryApart
<1>3. ASSUME NEW p \in Owners \ {o}
      PROVE  mem[p].zone # mem[o].zone
  <2>1. CASE mem[p] = NoMemory
    BY <1>2, <2>1 DEF NoMemory
  <2>2. CASE mem[p] # NoMemory
    BY <1>2, <2>2 DEF MemoryInv, MemoryApart
  <2> QED
    BY <2>1, <2>2
<1>4. MemorySound(o)
  BY <1>1, <1>2, <1>3 DEF MemorySound
<1> QED
  BY <1>4 DEF o

-----------------------------------------------------------------------------
(* The memory a stream's drivers were given, once the stream is offered.   *)
LEMMA OfferedHasMemory ==
    ASSUME Progress, MemoryInv, NEW c \in Channels, Of("rtsp_server_enable_stream", c) \in done
    PROVE  /\ MemorySound(<<"vpu", NoChannel>>) /\ MemorySound(<<"vpu", c>>)
           /\ MemorySound(<<"venc", NoChannel>>) /\ MemorySound(<<"venc", c>>)
<1>1. /\ Single("VPSS_SET_SYS_ADDR") \in done /\ Of("VPSS_SET_CHN_ADDR", c) \in done
      /\ Single("VENC_SYS_SET_ADDR") \in done /\ Of("VENC_CREATE_CHN", c) \in done
  BY OfferedIsDone DEF NeededOnce, NeededForEach
<1>2. /\ Single("VPSS_SET_SYS_ADDR").call \in GivesMemory
      /\ Of("VPSS_SET_CHN_ADDR", c).call \in GivesMemory
      /\ Single("VENC_SYS_SET_ADDR").call \in GivesMemory
      /\ Of("VENC_CREATE_CHN", c).call \in GivesMemory
  BY DEF Single, Of, GivesMemory
<1>3. /\ Owner(Single("VPSS_SET_SYS_ADDR")) = <<"vpu", NoChannel>>
      /\ Owner(Of("VPSS_SET_CHN_ADDR", c)) = <<"vpu", c>>
      /\ Owner(Single("VENC_SYS_SET_ADDR")) = <<"venc", NoChannel>>
      /\ Owner(Of("VENC_CREATE_CHN", c)) = <<"venc", c>>
  BY DEF Single, Of, Owner
<1>4. MemorySound(Owner(Single("VPSS_SET_SYS_ADDR")))
  BY <1>1, <1>2, GivenIsSound
<1>5. MemorySound(Owner(Of("VPSS_SET_CHN_ADDR", c)))
  BY <1>1, <1>2, GivenIsSound
<1>6. MemorySound(Owner(Single("VENC_SYS_SET_ADDR")))
  BY <1>1, <1>2, GivenIsSound
<1>7. MemorySound(Owner(Of("VENC_CREATE_CHN", c)))
  BY <1>1, <1>2, GivenIsSound
<1> QED
  BY <1>3, <1>4, <1>5, <1>6, <1>7

(* The whole way of a stream that is offered.                              *)
LEMMA OfferedFlows ==
    ASSUME Progress, MemoryInv, NEW c \in Channels, Was("rtsp_server_enable_stream", c)
    PROVE  Flows(c)
<1>1. Of("rtsp_server_enable_stream", c) \in done
  BY DEF Was, Of
<1>2. /\ MemorySound(<<"vpu", NoChannel>>) /\ MemorySound(<<"vpu", c>>)
      /\ MemorySound(<<"venc", NoChannel>>) /\ MemorySound(<<"venc", c>>)
  BY <1>1, OfferedHasMemory
<1>3. \A name \in NeededOnce : Was(name, NoChannel)
  BY <1>1, OfferedIsDone DEF Was, Single
<1>4. \A name \in NeededForEach : Was(name, c)
  BY <1>1, OfferedIsDone DEF Was, Of
<1> QED
  BY <1>2, <1>3, <1>4 DEF Flows, NeededOnce, NeededForEach

(***************************************************************************)
(* Whatever call is refused, for any number of channels: a stream that the *)
(* server offers has its whole way from the sensor, with memory of its     *)
(* own, and the devices are open as long as the server is.                 *)
(***************************************************************************)
THEOREM StreamsAlwaysFlow == UpSpec => []OfferedStreamsFlow
<1>1. Progress /\ MemoryInv /\ Descriptors /\ DriverInv => OfferedStreamsFlow
  <2> SUFFICES ASSUME Progress, MemoryInv, Descriptors, DriverInv, "rtsp" \in fds
               PROVE  /\ Devices \cup {"mem"} \subseteq fds
                      /\ phase = "formatted" /\ (sound => Streams(chip))
                      /\ \A c \in Channels : Was("rtsp_server_enable_stream", c) => Flows(c)
    BY DEF OfferedStreamsFlow
  <2>1. Devices \cup {"mem"} \subseteq fds /\ phase = "formatted"
    BY DEF Descriptors
  <2>2. sound => Streams(chip)
    BY <2>1 DEF DriverInv
  <2>3. \A c \in Channels : Was("rtsp_server_enable_stream", c) => Flows(c)
    BY OfferedFlows
  <2> QED
    BY <2>1, <2>2, <2>3
<1> QED
  BY <1>1, ProgressInductive, MemoryInductive, DescriptorInductive, DriverInductive, PTL

-----------------------------------------------------------------------------
(* What stands in the setup before the channels' calls.                    *)
LEMMA Setup2Has ==
    /\ Has(Setup2, Single("VENC_SYS_SET_ADDR"))
    /\ \A c \in Channels : Has(Setup2, Of("VPSS_SET_VO_MODE", c))
<1>1. \A x : Has(vpss_setup, x) \/ Has(venc_sys_init, x) => Has(Setup2, x)
  <2> TAKE x
  <2>1. Has(vpss_setup, x) => Has(Setup1, x)
    BY ScriptIs, OtherParts, JoinedHas DEF Part, Setup1
  <2>2. Has(Setup1, x) \/ Has(venc_sys_init, x) => Has(Setup2, x)
    BY ScriptIs, OtherParts, JoinedHas DEF Part, Setup2
  <2> QED
    BY <2>1, <2>2
<1> QED
  BY <1>1, VpssHas, VencHas

(* A channel's call that is done has those before it done.                 *)
LEMMA ChannelDone ==
    ASSUME Progress, NEW x, x.call \notin Ignored, NEW y \in done, y.call \in ChannelLate,
           Ordered(EachChannel(venc_channel), x, y) \/ Has(Setup2, x)
    PROVE  x \in done
<1>1. y \in Entry
  BY DoneEntry
<1>2. Ordered(Script, x, y)
  BY <1>1, ChannelOrder
<1> QED
  BY <1>2, DoneOrdered

(* The same of the ISP's.                                                  *)
LEMMA IspDone ==
    ASSUME Progress, NEW x, x.call \notin Ignored, NEW y \in done, y.call \in IspLate,
           Ordered(isp_setup, x, y)
    PROVE  x \in done
<1>1. y \in Entry
  BY DoneEntry
<1>2. Ordered(Script, x, y)
  BY <1>1, IspOrder
<1> QED
  BY <1>2, DoneOrdered

(* The channels' part of the drivers' order.                               *)
LEMMA ChannelsInOrder ==
    ASSUME Progress, MemoryInv, NEW c \in Channels
    PROVE  /\ Was("VENC_CREATE_CHN", c) => mem[<<"venc", NoChannel>>] # NoMemory
           /\ Was("MEDIA_BIND", c) => Was("VENC_SET_CHN_CONFIG", c) /\ Was("VPSS_SET_VO_MODE", c)
           /\ Was("VENC_START_RECV_PIC", c) => Was("MEDIA_BIND", c) /\ Was("VENC_SET_RC_ATTR", c)
<1>1. ASSUME Was("VENC_CREATE_CHN", c)
      PROVE  mem[<<"venc", NoChannel>>] # NoMemory
  <2> DEFINE x == Single("VENC_SYS_SET_ADDR")
             y == Of("VENC_CREATE_CHN", c)
  <2>1. y \in done /\ y.call \in ChannelLate
    BY <1>1 DEF Was, Of, ChannelLate
  <2>2. x.call \notin Ignored /\ x.call \in GivesMemory /\ Owner(x) = <<"venc", NoChannel>>
    BY DEF Single, Ignored, GivesMemory, Owner
  <2>3. Has(Setup2, x)
    BY Setup2Has
  <2> HIDE DEF x, y
  <2>4. x \in done
    BY <2>1, <2>2, <2>3, ChannelDone
  <2> QED
    BY <2>2, <2>4 DEF MemoryInv, MemoryApart
<1>2. ASSUME Was("MEDIA_BIND", c)
      PROVE  Was("VENC_SET_CHN_CONFIG", c) /\ Was("VPSS_SET_VO_MODE", c)
  <2>1. Of("MEDIA_BIND", c) \in done /\ Of("MEDIA_BIND", c).call \in ChannelLate
    BY <1>2 DEF Was, Of, ChannelLate
  <2>2. /\ Of("VENC_SET_CHN_CONFIG", c).call \notin Ignored
        /\ Of("VPSS_SET_VO_MODE", c).call \notin Ignored
    BY DEF Of, Ignored
  <2>3. Of("VENC_SET_CHN_CONFIG", c) \in done
    BY <2>1, <2>2, ChannelHas, ChannelDone
  <2>4. Of("VPSS_SET_VO_MODE", c) \in done
    BY <2>1, <2>2, Setup2Has, ChannelDone
  <2> QED
    BY <2>3, <2>4 DEF Was, Of
<1>3. ASSUME Was("VENC_START_RECV_PIC", c)
      PROVE  Was("MEDIA_BIND", c) /\ Was("VENC_SET_RC_ATTR", c)
  <2>1. Of("VENC_START_RECV_PIC", c) \in done /\ Of("VENC_START_RECV_PIC", c).call \in ChannelLate
    BY <1>3 DEF Was, Of, ChannelLate
  <2>2. /\ Of("MEDIA_BIND", c).call \notin Ignored
        /\ Of("VENC_SET_RC_ATTR", c).call \notin Ignored
    BY DEF Of, Ignored
  <2>3. Of("MEDIA_BIND", c) \in done
    BY <2>1, <2>2, ChannelHas, ChannelDone
  <2>4. Of("VENC_SET_RC_ATTR", c) \in done
    BY <2>1, <2>2, ChannelHas, ChannelDone
  <2> QED
    BY <2>3, <2>4 DEF Was, Of
<1> QED
  BY <1>1, <1>2, <1>3

(* The ISP's part of it.                                                   *)
LEMMA IspInOrder ==
    ASSUME Progress
    PROVE  /\ Was("isp_hw_init", NoChannel) => Was("isp_core_alloc_buf_addr", NoChannel)
           /\ Was("isp_start_processing", NoChannel) =>
                 Was("isp_hw_init", NoChannel) /\ Was("isp_start", NoChannel)
<1>1. /\ Single("isp_hw_init").call \in IspLate
      /\ Single("isp_start_processing").call \in IspLate
      /\ Single("isp_core_alloc_buf_addr").call \notin Ignored
      /\ Single("isp_hw_init").call \notin Ignored /\ Single("isp_start").call \notin Ignored
  BY DEF Single, IspLate, Ignored
<1>2. Single("isp_hw_init") \in done => Single("isp_core_alloc_buf_addr") \in done
  BY <1>1, IspHas, IspDone
<1>3. Single("isp_start_processing") \in done => Single("isp_hw_init") \in done
  BY <1>1, IspHas, IspDone
<1>4. Single("isp_start_processing") \in done => Single("isp_start") \in done
  BY <1>1, IspHas, IspDone
<1> QED
  BY <1>2, <1>3, <1>4 DEF Was, Single

(***************************************************************************)
(* Whatever call is refused, for any number of channels: the encoder has   *)
(* its memory before it makes a channel, a channel is bound when it is a   *)
(* media object, receives when it is bound, and the ISP has its buffers    *)
(* before its tables.                                                      *)
(***************************************************************************)
THEOREM DriversAlwaysInOrder == UpSpec => []DriversInOrder
<1>1. Progress /\ MemoryInv => DriversInOrder
  BY ChannelsInOrder, IspInOrder DEF DriversInOrder
<1> QED
  BY <1>1, ProgressInductive, MemoryInductive, PTL
=============================================================================
