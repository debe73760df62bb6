----------------------------- MODULE VoteProofs -----------------------------
(***************************************************************************)
(* What the proof of agreement needs to know of the steps of Paxos, in two  *)
(* parts.  AskInv is about questions and answers: a leader that stops       *)
(* recovering has been answered by everyone it asked, and no answer is      *)
(* counted twice, whatever elections, timeouts and restarts come in         *)
(* between.  Core is about votes: a set H of votes (p stored x as version v *)
(* under number b) and a set K of committed versions account for what the   *)
(* stores, the messages on their way and the leaders have.  A vote is safe: *)
(* under each smaller number a majority has voted for the same value or     *)
(* never will vote.                                                         *)
(*                                                                          *)
(* The lemmas say that one small step of a monitor, described by what it    *)
(* does to the state and sends (CollectsA, AnswersB, Begins, Accepts, ...), *)
(* keeps both parts.  AgreementProofs puts the calls of Paxos together from *)
(* such steps.                                                              *)
(***************************************************************************)
EXTENDS PaxosProofs

(***************************************************************************)
(* Channels.                                                                *)
(***************************************************************************)

\* The channels: what is on its way from one monitor to another
Nets == [Rank -> [Rank -> Seq(Messages)]]

\* Monitor m has sent out[d] to each monitor d.
Plus(n, m, out) ==
  [x \in Rank |-> [d \in Rank |-> n[x][d] \o (IF x = m THEN out[d] ELSE <<>>)]]

\* The oldest message of each of F is taken by m.
Pop(n, F, m) ==
  [x \in Rank |-> [d \in Rank |-> IF x \in F /\ d = m THEN Tail(n[x][d]) ELSE n[x][d]]]

\* u is a stretch of w, of which nothing is missing at the end if it is a suffix.
Stretch(u, w, k) ==
  k \in Nat /\ Len(u) + k <= Len(w) /\ \A i \in 1 .. Len(u) : u[i] = w[i + k]

\* Nothing is missing of w in u but what came first.
Suffix(u, w) == \E k \in Nat : Stretch(u, w, k) /\ Len(u) + k = Len(w)

\* Some of the oldest messages are gone.
Shorter(n, o) == \A x, d \in Rank : Suffix(n[x][d], o[x][d])

\* A step in terms of what is taken and what is sent
LEMMA StepShape ==
  ASSUME NEW m, NEW From, NEW r, Step(m, From, r)
  PROVE  /\ mon' = [mon EXCEPT ![m] = r.s] /\ committed' = committed \cup CommittedBy(r.s)
         /\ net' = Delivered(Plus(Pop(net, From, m), m, r.out), mon')
<1>. DEFINE nn == [x \in Rank |-> [d \in Rank |->
                     (IF x \in From /\ d = m THEN Tail(net[x][d]) ELSE net[x][d])
                       \o (IF x = m THEN r.out[d] ELSE <<>>)]]
<1>1. /\ mon' = [mon EXCEPT ![m] = r.s] /\ committed' = committed \cup CommittedBy(r.s)
      /\ net' = Delivered(nn, [mon EXCEPT ![m] = r.s])
  BY DEF Step
<1>2. Plus(Pop(net, From, m), m, r.out) = nn
  BY DEF Plus, Pop
<1>. QED
  BY <1>1, <1>2

\* Nothing is taken.
LEMMA SuffixSame ==
  ASSUME NEW w \in Seq(Messages)
  PROVE  Suffix(w, w)
<1>1. Stretch(w, w, 0) /\ Len(w) + 0 = Len(w)
  BY DEF Stretch
<1>. QED
  BY <1>1 DEF Suffix

\* One message is taken.
LEMMA SuffixTail ==
  ASSUME NEW w \in Seq(Messages), w # <<>>
  PROVE  Suffix(Tail(w), w) /\ Tail(w) \in Seq(Messages)
<1>1. /\ Tail(w) \in Seq(Messages) /\ Len(Tail(w)) = Len(w) - 1 /\ Len(w) \in Nat
      /\ Len(w) > 0 /\ \A i \in 1 .. Len(Tail(w)) : Tail(w)[i] = w[i + 1]
  BY EmptySeq, HeadTailProperties
<1>2. Stretch(Tail(w), w, 1) /\ Len(Tail(w)) + 1 = Len(w)
  BY <1>1 DEF Stretch
<1>. QED
  BY <1>1, <1>2 DEF Suffix

\* Taking messages shortens channels.
LEMMA PopShorter ==
  ASSUME NEW n \in Nets, NEW F, NEW m \in Rank, \A x \in F \cap Rank : n[x][m] # <<>>
  PROVE  Pop(n, F, m) \in Nets /\ Shorter(Pop(n, F, m), n)
<1>1. \A x, d \in Rank : n[x][d] \in Seq(Messages)
  BY DEF Nets
<1>2. ASSUME NEW x \in Rank, NEW d \in Rank
      PROVE  Pop(n, F, m)[x][d] \in Seq(Messages) /\ Suffix(Pop(n, F, m)[x][d], n[x][d])
  <2>1. CASE x \in F /\ d = m
    <3>1. Pop(n, F, m)[x][d] = Tail(n[x][d])
      BY <2>1 DEF Pop
    <3>. QED
      BY <1>1, <2>1, <3>1, SuffixTail
  <2>2. CASE ~(x \in F /\ d = m)
    <3>1. Pop(n, F, m)[x][d] = n[x][d]
      BY <2>2 DEF Pop
    <3>. QED
      BY <1>1, <3>1, SuffixSame
  <2>. QED
    BY <2>1, <2>2
<1>3. Pop(n, F, m) = [x \in Rank |-> [d \in Rank |-> Pop(n, F, m)[x][d]]]
  BY DEF Pop
<1>. QED
  BY <1>2, <1>3 DEF Nets, Shorter

\* What the rank check of the Messenger drops shortens channels.
LEMMA DeliveredShorter ==
  ASSUME NEW n \in Nets, NEW ms
  PROVE  Delivered(n, ms) \in Nets /\ Shorter(Delivered(n, ms), n)
<1>1. \A x, d \in Rank : n[x][d] \in Seq(Messages)
  BY DEF Nets
<1>2. ASSUME NEW x \in Rank, NEW d \in Rank
      PROVE  /\ Delivered(n, ms)[x][d] \in Seq(Messages)
             /\ Suffix(Delivered(n, ms)[x][d], n[x][d])
  <2>. DEFINE ch == n[x][d]
              heard == {i \in 1 .. Len(ch) : Heard(ms[d], ch[i])}
              k == Min(heard)
  <2>1. Delivered(n, ms)[x][d] = IF heard = {} THEN <<>> ELSE SubSeq(ch, k, Len(ch))
    BY DEF Delivered
  <2>2. ch \in Seq(Messages) /\ Len(ch) \in Nat
    BY <1>1
  <2>3. CASE heard = {}
    <3>1. Len(<<>>) = 0 /\ <<>> \in Seq(Messages)
      OBVIOUS
    <3>2. Stretch(<<>>, ch, Len(ch)) /\ Len(<<>>) + Len(ch) = Len(ch)
      BY <2>2, <3>1 DEF Stretch
    <3>. QED
      BY <2>1, <2>2, <2>3, <3>1, <3>2 DEF Suffix
  <2>4. CASE heard # {}
    <3>1. heard \subseteq Nat
      BY <2>2
    <3>2. k \in heard
      BY <2>4, <3>1, SetMin
    <3>3. k \in Nat /\ 1 <= k /\ k <= Len(ch)
      BY <2>2, <3>2
    <3>. HIDE DEF k, heard, ch
    <3>4. /\ SubSeq(ch, k, Len(ch)) \in Seq(Messages)
          /\ Len(SubSeq(ch, k, Len(ch))) = Len(ch) - k + 1
          /\ \A i \in 1 .. Len(ch) - k + 1 : SubSeq(ch, k, Len(ch))[i] = ch[k + i - 1]
      BY <2>2, <3>3, SubSeqProperties
    <3>5. \A i \in 1 .. Len(ch) - k + 1 : SubSeq(ch, k, Len(ch))[i] = ch[i + (k - 1)]
      <4>1. \A i \in 1 .. Len(ch) - k + 1 : k + i - 1 = i + (k - 1)
        BY <2>2, <3>3
      <4>. QED
        BY <3>4, <4>1
    <3>6. Stretch(SubSeq(ch, k, Len(ch)), ch, k - 1)
      BY <2>2, <3>3, <3>4, <3>5 DEF Stretch
    <3>7. Len(SubSeq(ch, k, Len(ch))) + (k - 1) = Len(ch) /\ k - 1 \in Nat
      BY <2>2, <3>3, <3>4
    <3>8. Suffix(SubSeq(ch, k, Len(ch)), ch)
      BY <3>6, <3>7 DEF Suffix
    <3>. QED
      BY <2>1, <2>4, <3>4, <3>8 DEF ch
  <2>. QED
    BY <2>3, <2>4
<1>3. Delivered(n, ms) = [x \in Rank |-> [d \in Rank |-> Delivered(n, ms)[x][d]]]
  BY DEF Delivered
<1>. QED
  BY <1>2, <1>3 DEF Nets, Shorter

\* What comes after what.
LEMMA Appended ==
  ASSUME NEW u \in Seq(Messages), NEW w \in Seq(Messages)
  PROVE  /\ u \o w \in Seq(Messages) /\ Len(u \o w) = Len(u) + Len(w)
         /\ Len(u) \in Nat /\ Len(w) \in Nat
         /\ \A i \in 1 .. Len(u) : (u \o w)[i] = u[i]
         /\ \A i \in 1 .. Len(w) : (u \o w)[Len(u) + i] = w[i]
<1>1. /\ u \o w \in Seq(Messages) /\ Len(u \o w) = Len(u) + Len(w)
      /\ Len(u) \in Nat /\ Len(w) \in Nat
  OBVIOUS
<1>2. \A i \in 1 .. Len(u) + Len(w) :
         (u \o w)[i] = IF i <= Len(u) THEN u[i] ELSE w[i - Len(u)]
  OBVIOUS
<1>3. \A i \in 1 .. Len(u) : (u \o w)[i] = u[i]
  BY <1>1, <1>2
<1>4. ASSUME NEW i \in 1 .. Len(w) PROVE (u \o w)[Len(u) + i] = w[i]
  <2>. DEFINE j == Len(u) + i
  <2>1. j \in 1 .. Len(u) + Len(w) /\ ~(j <= Len(u)) /\ j - Len(u) = i
    BY <1>1
  <2>. HIDE DEF j
  <2>2. (u \o w)[j] = w[j - Len(u)]
    BY <1>2, <2>1
  <2>. QED
    BY <2>1, <2>2 DEF j
<1>. QED
  BY <1>1, <1>3, <1>4

\* The channels with what m sends
LEMMA PlusTyped ==
  ASSUME NEW n \in Nets, NEW m, NEW out \in [Rank -> Seq(Messages)]
  PROVE  /\ Plus(n, m, out) \in Nets
         /\ \A x, d \in Rank : Plus(n, m, out)[x][d] = n[x][d] \o (IF x = m THEN out[d] ELSE <<>>)
         /\ \A x, d \in Rank : x # m => Plus(n, m, out)[x][d] = n[x][d]
         /\ \A d \in Rank : m \in Rank => Plus(n, m, out)[m][d] = n[m][d] \o out[d]
<1>1. \A x, d \in Rank : Plus(n, m, out)[x][d] = n[x][d] \o (IF x = m THEN out[d] ELSE <<>>)
  BY DEF Plus
<1>2. \A x, d \in Rank : n[x][d] \in Seq(Messages) /\ out[d] \in Seq(Messages)
  BY DEF Nets
<1>3. <<>> \in Seq(Messages)
  OBVIOUS
<1>4. ASSUME NEW x \in Rank, NEW d \in Rank
      PROVE  Plus(n, m, out)[x][d] \in Seq(Messages)
  <2>. DEFINE w == IF x = m THEN out[d] ELSE <<>>
  <2>1. w \in Seq(Messages)
    BY <1>2, <1>3
  <2>. HIDE DEF w
  <2>2. n[x][d] \o w \in Seq(Messages)
    BY <1>2, <2>1, Appended
  <2>. QED
    BY <1>1, <2>2 DEF w
<1>5. Plus(n, m, out) = [x \in Rank |-> [d \in Rank |-> Plus(n, m, out)[x][d]]]
  BY DEF Plus
<1>6. ASSUME NEW x \in Rank, NEW d \in Rank, x # m PROVE Plus(n, m, out)[x][d] = n[x][d]
  <2>1. n[x][d] \o <<>> = n[x][d]
    BY <1>2
  <2>. QED
    BY <1>1, <1>6, <2>1
<1>. QED
  BY <1>1, <1>4, <1>5, <1>6 DEF Nets

\* The same for one channel
LEMMA PlusAt ==
  ASSUME NEW n \in Nets, NEW m \in Rank, NEW out \in [Rank -> Seq(Messages)],
         NEW x \in Rank, NEW d \in Rank
  PROVE  /\ n[x][d] \in Seq(Messages) /\ out[d] \in Seq(Messages)
         /\ Plus(n, m, out)[x][d] \in Seq(Messages)
         /\ x # m => Plus(n, m, out)[x][d] = n[x][d]
         /\ x = m => Plus(n, m, out)[x][d] = n[x][d] \o out[d]
<1>1. n[x][d] \in Seq(Messages) /\ out[d] \in Seq(Messages)
  BY DEF Nets
<1>2. Plus(n, m, out)[x][d] = n[x][d] \o (IF x = m THEN out[d] ELSE <<>>)
  BY DEF Plus
<1>3. CASE x = m
  BY <1>1, <1>2, <1>3, Appended
<1>4. CASE x # m
  <2>1. n[x][d] \o <<>> = n[x][d]
    BY <1>1
  <2>. QED
    BY <1>1, <1>2, <1>4, <2>1
<1>. QED
  BY <1>3, <1>4

\* The channels of m
LEMMA PlusMine ==
  ASSUME NEW n \in Nets, NEW m \in Rank, NEW out \in [Rank -> Seq(Messages)], NEW d \in Rank
  PROVE  /\ Plus(n, m, out)[m][d] = n[m][d] \o out[d]
         /\ n[m][d] \in Seq(Messages) /\ out[d] \in Seq(Messages)
  BY DEF Plus, Nets

\* The channels of the others
LEMMA PlusOther ==
  ASSUME NEW n \in Nets, NEW m \in Rank, NEW out \in [Rank -> Seq(Messages)],
         NEW x \in Rank, x # m, NEW d \in Rank
  PROVE  Plus(n, m, out)[x][d] = n[x][d] /\ n[x][d] \in Seq(Messages)
  BY PlusAt, ZenonT(60)

\* A message of what m has sent is an old one or a new one.
LEMMA PlusMessage ==
  ASSUME NEW n \in Nets, NEW m \in Rank, NEW out \in [Rank -> Seq(Messages)],
         NEW x \in Rank, NEW d \in Rank, NEW i \in 1 .. Len(Plus(n, m, out)[x][d])
  PROVE  \/ i \in 1 .. Len(n[x][d]) /\ Plus(n, m, out)[x][d][i] = n[x][d][i]
         \/ /\ x = m /\ i > Len(n[x][d]) /\ i - Len(n[x][d]) \in 1 .. Len(out[d])
            /\ Plus(n, m, out)[x][d][i] = out[d][i - Len(n[x][d])]
<1>. DEFINE u == n[x][d]  v == out[d]  c == Plus(n, m, out)[x][d]
<1>1. u \in Seq(Messages) /\ v \in Seq(Messages)
  BY PlusAt
<1>2. CASE x = m
  <2>1. c = u \o v
    BY <1>2 DEF Plus
  <2>. HIDE DEF c, u, v
  <2>2. /\ Len(c) = Len(u) + Len(v) /\ Len(u) \in Nat /\ Len(v) \in Nat
        /\ \A k \in 1 .. Len(u) : c[k] = u[k]
        /\ \A k \in 1 .. Len(v) : c[Len(u) + k] = v[k]
    BY <1>1, <2>1, Appended
  <2>3. i \in 1 .. Len(c)
    BY DEF c
  <2>4. CASE i > Len(u)
    <3>1. i - Len(u) \in 1 .. Len(v) /\ Len(u) + (i - Len(u)) = i
      BY <2>2, <2>3, <2>4
    <3>2. c[i] = v[i - Len(u)]
      BY <2>2, <3>1
    <3>. QED
      BY <1>2, <2>4, <3>1, <3>2 DEF c, u, v
  <2>5. CASE ~(i > Len(u))
    <3>1. i \in 1 .. Len(u)
      BY <2>2, <2>3, <2>5
    <3>. QED
      BY <2>2, <3>1 DEF c, u
  <2>. QED
    BY <2>4, <2>5
<1>3. CASE x # m
  <2>1. c = u /\ i \in 1 .. Len(c)
    BY <1>3, PlusAt, ZenonT(60)
  <2>. QED
    BY <2>1
<1>. QED
  BY <1>2, <1>3

\* Message i of c is one of u, or, where own, one of v.
Among(c, u, v, own, i) ==
  \/ i \in 1 .. Len(u) /\ c[i] = u[i]
  \/ own /\ i - Len(u) \in 1 .. Len(v) /\ c[i] = v[i - Len(u)]

\* The same for a channel c that has got what m sends
LEMMA PlusAmong ==
  ASSUME NEW n \in Nets, NEW m \in Rank, NEW out \in [Rank -> Seq(Messages)],
         NEW x \in Rank, NEW d \in Rank, NEW c, c = Plus(n, m, out)[x][d], NEW i \in 1 .. Len(c)
  PROVE  Among(c, n[x][d], out[d], x = m, i)
<1>. DEFINE p == Plus(n, m, out)[x][d]
<1>1. i \in 1 .. Len(p)
  OBVIOUS
<1>2. \/ i \in 1 .. Len(n[x][d]) /\ p[i] = n[x][d][i]
      \/ /\ x = m /\ i > Len(n[x][d]) /\ i - Len(n[x][d]) \in 1 .. Len(out[d])
         /\ p[i] = out[d][i - Len(n[x][d])]
  BY <1>1, PlusMessage, SMTT(60)
<1>. HIDE DEF p
<1>3. c = p
  BY DEF p
<1>. QED
  BY <1>2, <1>3 DEF Among

\* A message of a stretch of w
LEMMA StretchAt ==
  ASSUME NEW u \in Seq(Messages), NEW w \in Seq(Messages), NEW k, Stretch(u, w, k),
         NEW i \in 1 .. Len(u)
  PROVE  i + k \in 1 .. Len(w) /\ u[i] = w[i + k] /\ u[i] \in Messages
<1>1. Len(u) \in Nat /\ Len(w) \in Nat /\ k \in Nat /\ i \in Nat
  BY DEF Stretch
<1>2. i + k \in 1 .. Len(w)
  BY <1>1 DEF Stretch
<1>3. u[i] = w[i + k] /\ u[i] \in Messages
  BY DEF Stretch
<1>. QED
  BY <1>2, <1>3

\* Appending is associative.
LEMMA ConcatThree ==
  ASSUME NEW u \in Seq(Messages), NEW v \in Seq(Messages), NEW w \in Seq(Messages)
  PROVE  u \o (v \o w) = (u \o v) \o w
<1>. DEFINE a == u \o (v \o w)  b == (u \o v) \o w
<1>1. v \o w \in Seq(Messages) /\ u \o v \in Seq(Messages)
  BY Appended
<1>2. a \in Seq(Messages) /\ b \in Seq(Messages)
  BY <1>1, Appended
<1>3. Len(a) = Len(u) + Len(v) + Len(w) /\ Len(b) = Len(u) + Len(v) + Len(w)
  BY <1>1
<1>4. ASSUME NEW i \in 1 .. Len(a) PROVE a[i] = b[i]
  BY <1>1, <1>3
<1>. HIDE DEF a, b
<1>5. a = b
  BY <1>2, <1>3, <1>4, SeqEqual
<1>. QED
  BY <1>5 DEF a, b

\* Two calls in a row
\* c is what is sent when r is sent and then q.
Joined(c, r, q) ==
  /\ r \in [Rank -> Seq(Messages)] /\ q \in [Rank -> Seq(Messages)]
  /\ \A d \in Rank : c[d] = r[d] \o q[d]

\* What two calls send, one after the other, is what both send together.
LEMMA PlusThen ==
  ASSUME NEW n \in Nets, NEW m \in Rank, NEW r, NEW q, NEW c, Joined(c, r, q)
  PROVE  Plus(n, m, c) = Plus(Plus(n, m, r), m, q)
<1>2. ASSUME NEW x \in Rank, NEW d \in Rank
      PROVE  n[x][d] \o (IF x = m THEN c[d] ELSE <<>>)
               = Plus(n, m, r)[x][d] \o (IF x = m THEN q[d] ELSE <<>>)
  <2>1. n[x][d] \in Seq(Messages) /\ r[d] \in Seq(Messages) /\ q[d] \in Seq(Messages)
    BY DEF Nets, Joined
  <2>. DEFINE u == n[x][d]  v == r[d]  w == q[d]
  <2>2. CASE x = m
    <3>1. u \o (v \o w) = (u \o v) \o w
      <4>1. u \in Seq(Messages) /\ v \in Seq(Messages) /\ w \in Seq(Messages)
        BY <2>1
      <4>. HIDE DEF u, v, w
      <4>. QED
        BY <4>1, ConcatThree
    <3>2. Plus(n, m, r)[x][d] = u \o v
      BY <2>2 DEF Plus
    <3>3. c[d] = r[d] \o q[d]
      BY DEF Joined
    <3>. QED
      BY <2>2, <3>1, <3>2, <3>3
  <2>3. CASE x # m
    <3>1. Plus(n, m, r)[x][d] = n[x][d] \o <<>>
      BY <2>3 DEF Plus
    <3>2. n[x][d] \o <<>> = n[x][d]
      BY <2>1
    <3>. QED
      BY <2>3, <3>1, <3>2
  <2>. QED
    BY <2>2, <2>3
<1>. QED
  BY <1>2 DEF Plus

\* A call that sends nothing
LEMMA PlusNothing ==
  ASSUME NEW n \in Nets, NEW m
  PROVE  Plus(n, m, Nothing) = n
<1>1. \A x, d \in Rank : n[x][d] \in Seq(Messages)
  BY DEF Nets
<1>2. \A x, d \in Rank : n[x][d] \o (IF x = m THEN Nothing[d] ELSE <<>>) = n[x][d]
  BY <1>1 DEF Nothing
<1>3. n = [x \in Rank |-> [d \in Rank |-> n[x][d]]]
  BY DEF Nets
<1>. QED
  BY <1>2, <1>3 DEF Plus

(***************************************************************************)
(* Questions and answers: what is true of COLLECT and LAST in every order   *)
(* of elections, timeouts and restarts.                                     *)
(***************************************************************************)

\* A message of epoch e
Is(msg, op, e) == msg.op = op /\ msg.epoch = e

\* ch asks, or answers, in epoch e
Asks(ch, e) == \E i \in 1 .. Len(ch) : Is(ch[i], "COLLECT", e)
\* ch answers in epoch e.
Answers(ch, e) == \E i \in 1 .. Len(ch) : Is(ch[i], "LAST", e)
\* ch answers number a in epoch e.
AnswersPn(ch, e, a) == \E i \in 1 .. Len(ch) : Is(ch[i], "LAST", e) /\ ch[i].pn = a

\* Of the COLLECTs of an epoch, the last one and no other has number a.
AskedOnce(ch, e, a) ==
  \A i \in 1 .. Len(ch) : Is(ch[i], "COLLECT", e) =>
     (ch[i].pn = a <=> \A j \in 1 .. Len(ch) : j > i => ~Is(ch[j], "COLLECT", e))

\* No LAST of the epoch comes after the one with number a.
AnsweredOnce(ch, e, a) ==
  \A i \in 1 .. Len(ch) : Is(ch[i], "LAST", e) /\ ch[i].pn = a =>
     \A j \in 1 .. Len(ch) : j > i => ~Is(ch[j], "LAST", e)

\* Number a was asked for in epoch e only.
AskedThen(ch, e, a) ==
  \A i \in 1 .. Len(ch) : ch[i].op = "COLLECT" /\ ch[i].pn = a => ch[i].epoch = e

\* No question and no answer is on its way between m and p.
Silent(n, m, p, e) == ~Asks(n[m][p], e) /\ ~Answers(n[p][m], e)

\* The owner of a number has written it down.
OwnPn(ms, pn) == \A m \in Rank : pn % 100 = m => pn <= ms[m].last_pn

\* A number has an owner that wrote it down; no one asks or answers itself.
MsgA(ms, x, d, msg) ==
  /\ x # d \/ msg.op = "COMMIT"
  /\ msg.op \in {"COLLECT", "LAST"} => OwnPn(ms, msg.pn)
  /\ msg.op = "COLLECT" => msg.epoch <= ms[x].epoch /\ msg.pn % 100 = x
  /\ msg.op = "LAST" => msg.epoch <= ms[d].epoch

\* Leader m with state s, and p with state t
PairA(n, m, p, t, s) ==
  /\ Asks(n[m][p], s.epoch) \/ Answers(n[p][m], s.epoch) => p \in s.quorum
  /\ AskedOnce(n[m][p], s.epoch, s.accepted_pn)
  /\ AnsweredOnce(n[p][m], s.epoch, s.accepted_pn)
  /\ Asks(n[m][p], s.epoch) =>
       /\ t.accepted_pn # s.accepted_pn /\ t.stored_pn # s.accepted_pn
       /\ ~AnswersPn(n[p][m], s.epoch, s.accepted_pn)
       /\ AskedThen(n[m][p], s.epoch, s.accepted_pn)

\* Those of the quorum with which leader s has nothing on its way
SilentOnes(n, m, s) == {p \in s.quorum \ {m} : Silent(n, m, p, s.epoch)}

\* There is nothing on its way between leader s and its quorum.
AllSilent(n, m, s) == \A p \in s.quorum \ {m} : Silent(n, m, p, s.epoch)

\* num_last counts monitors that have answered and were not asked again, so
\* that a leader that stops recovering has heard everyone and hears no one twice.
LeadA(ms, n, m) ==
  ms[m].role = "leader" =>
    /\ m \in ms[m].quorum
    /\ \A p \in Rank \ {m} : PairA(n, m, p, ms[p], ms[m])
    /\ ms[m].state = "recovering" => ms[m].num_last - 1 <= Cardinality(SilentOnes(n, m, ms[m]))
    /\ ms[m].state # "recovering" => AllSilent(n, m, ms[m])

\* What p has promised was written down by the owner of the number, and what p
\* has promised on disk it has promised; a number it promised in memory only is
\* one of those it gave itself.
PnsA(ms, p) ==
  /\ OwnPn(ms, ms[p].accepted_pn) /\ OwnPn(ms, ms[p].stored_pn)
  /\ ms[p].stored_pn <= ms[p].accepted_pn
  /\ ms[p].accepted_pn <= Larger(ms[p].stored_pn, ms[p].last_pn)

\* The timers of a monitor are those of its role and state.
TimersOK(s) ==
  /\ "lease" \in s.events => s.role = "peon"
  /\ s.events \cap {"collect", "accept", "lease_ack", "lease_renew"} # {} => s.role = "leader"
  /\ "accept" \in s.events => s.state \in {"updating", "updating-previous"}
  /\ s.events \cap {"lease_ack", "lease_renew"} # {} => s.state = "active"
  /\ "collect" \in s.events => s.state = "recovering"
  /\ s.role = "peon" => "lease" \in s.events

\* s is a state the proofs of PaxosProofs allow m to be in.
Fit(m, s) == \E C : Consistent(C) /\ Good(m, C, s)

\* The first part of the invariant; it holds with every restart.
AskInv(ms, n) ==
  /\ ms \in [Rank -> Monitors] /\ n \in Nets
  /\ \A x, d \in Rank : \A i \in 1 .. Len(n[x][d]) : MsgA(ms, x, d, n[x][d][i])
  /\ \A m \in Rank : Fit(m, ms[m]) /\ TimersOK(ms[m]) /\ PnsA(ms, m) /\ LeadA(ms, n, m)

-----------------------------------------------------------------------------
\* A part of a channel asks and answers no more than the channel.
LEMMA StretchAsk ==
  ASSUME NEW u \in Seq(Messages), NEW w \in Seq(Messages), NEW k, Stretch(u, w, k), NEW e, NEW a
  PROVE  /\ Asks(u, e) => Asks(w, e)
         /\ Answers(u, e) => Answers(w, e)
         /\ AnswersPn(u, e, a) => AnswersPn(w, e, a)
         /\ AnsweredOnce(w, e, a) => AnsweredOnce(u, e, a)
         /\ AskedThen(w, e, a) => AskedThen(u, e, a)
<1>1. /\ Len(u) \in Nat /\ Len(w) \in Nat /\ k \in Nat
      /\ \A i \in 1 .. Len(u) : i + k \in 1 .. Len(w) /\ u[i] = w[i + k]
  BY DEF Stretch
<1>2. Asks(u, e) => Asks(w, e)
  BY <1>1 DEF Asks
<1>3. Answers(u, e) => Answers(w, e)
  BY <1>1 DEF Answers
<1>4. AnswersPn(u, e, a) => AnswersPn(w, e, a)
  BY <1>1 DEF AnswersPn
<1>5. AnsweredOnce(w, e, a) => AnsweredOnce(u, e, a)
  <2>. SUFFICES ASSUME AnsweredOnce(w, e, a), NEW i \in 1 .. Len(u), Is(u[i], "LAST", e),
                       u[i].pn = a, NEW j \in 1 .. Len(u), j > i, Is(u[j], "LAST", e)
                PROVE  FALSE
    BY DEF AnsweredOnce
  <2>1. i + k \in 1 .. Len(w) /\ j + k \in 1 .. Len(w) /\ j + k > i + k
    BY <1>1
  <2>2. u[i] = w[i + k] /\ u[j] = w[j + k]
    BY <1>1
  <2>. QED
    BY <2>1, <2>2 DEF AnsweredOnce
<1>6. AskedThen(w, e, a) => AskedThen(u, e, a)
  BY <1>1 DEF AskedThen
<1>. QED
  BY <1>2, <1>3, <1>4, <1>5, <1>6

\* The newest part of a channel has its last question.
LEMMA SuffixAsk ==
  ASSUME NEW u \in Seq(Messages), NEW w \in Seq(Messages), Suffix(u, w), NEW e, NEW a
  PROVE  /\ Asks(u, e) => Asks(w, e)
         /\ Answers(u, e) => Answers(w, e)
         /\ AnswersPn(u, e, a) => AnswersPn(w, e, a)
         /\ AnsweredOnce(w, e, a) => AnsweredOnce(u, e, a)
         /\ AskedOnce(w, e, a) => AskedOnce(u, e, a)
         /\ AskedThen(w, e, a) => AskedThen(u, e, a)
<1>1. PICK k \in Nat : Stretch(u, w, k) /\ Len(u) + k = Len(w)
  BY DEF Suffix
<1>2. /\ Len(u) \in Nat /\ Len(w) \in Nat
      /\ \A i \in 1 .. Len(u) : i + k \in 1 .. Len(w) /\ u[i] = w[i + k]
  BY <1>1 DEF Stretch
<1>3. AskedOnce(w, e, a) => AskedOnce(u, e, a)
  <2>. SUFFICES ASSUME AskedOnce(w, e, a), NEW i \in 1 .. Len(u), Is(u[i], "COLLECT", e)
                PROVE  u[i].pn = a <=> \A j \in 1 .. Len(u) : j > i => ~Is(u[j], "COLLECT", e)
    BY DEF AskedOnce
  <2>1. /\ i + k \in 1 .. Len(w) /\ Is(w[i + k], "COLLECT", e) /\ u[i].pn = w[i + k].pn
        /\ w[i + k].pn = a <=> \A j \in 1 .. Len(w) : j > i + k => ~Is(w[j], "COLLECT", e)
    BY <1>2 DEF AskedOnce
  <2>2. ASSUME \A j \in 1 .. Len(w) : j > i + k => ~Is(w[j], "COLLECT", e),
               NEW j \in 1 .. Len(u), j > i
        PROVE  ~Is(u[j], "COLLECT", e)
    <3>1. j + k \in 1 .. Len(w) /\ j + k > i + k /\ u[j] = w[j + k]
      BY <1>2, <2>2
    <3>. QED
      BY <2>2, <3>1
  <2>3. ASSUME \A j \in 1 .. Len(u) : j > i => ~Is(u[j], "COLLECT", e),
               NEW j \in 1 .. Len(w), j > i + k
        PROVE  ~Is(w[j], "COLLECT", e)
    <3>1. j - k \in 1 .. Len(u) /\ j - k > i /\ (j - k) + k = j
      BY <1>1, <1>2, <2>3
    <3>2. u[j - k] = w[j]
      BY <1>2, <3>1
    <3>. QED
      BY <2>3, <3>1, <3>2
  <2>. QED
    BY <2>1, <2>2, <2>3
<1>. QED
  BY <1>1, <1>3, StretchAsk

\* No message of w is an op; nothing in w asks or answers.
Without(w, op) == \A i \in 1 .. Len(w) : w[i].op # op
\* Nothing in w asks or answers.
Calm(w) == Without(w, "COLLECT") /\ Without(w, "LAST")

\* Messages that do not ask, appended
LEMMA CalmAsk ==
  ASSUME NEW u \in Seq(Messages), NEW w \in Seq(Messages), Without(w, "COLLECT"), NEW e, NEW a
  PROVE  /\ Asks(u \o w, e) <=> Asks(u, e)
         /\ AskedOnce(u, e, a) => AskedOnce(u \o w, e, a)
         /\ AskedThen(u, e, a) => AskedThen(u \o w, e, a)
<1>. DEFINE c == u \o w
<1>1. /\ Len(c) = Len(u) + Len(w) /\ Len(u) \in Nat /\ Len(w) \in Nat
      /\ \A i \in 1 .. Len(u) : c[i] = u[i]
      /\ \A i \in 1 .. Len(w) : c[Len(u) + i] = w[i]
  BY Appended
<1>. HIDE DEF c
<1>2. ASSUME NEW i \in 1 .. Len(c), c[i].op = "COLLECT"
      PROVE  i \in 1 .. Len(u) /\ c[i] = u[i]
  <2>1. CASE i > Len(u)
    <3>1. i - Len(u) \in 1 .. Len(w) /\ Len(u) + (i - Len(u)) = i
      BY <1>1, <2>1
    <3>2. c[i] = w[i - Len(u)]
      BY <1>1, <3>1
    <3>. QED
      BY <1>2, <3>1, <3>2 DEF Without
  <2>. QED
    BY <1>1, <2>1
<1>3. \A i \in 1 .. Len(u) : i \in 1 .. Len(c) /\ c[i] = u[i]
  BY <1>1
<1>4. Asks(c, e) <=> Asks(u, e)
  BY <1>2, <1>3 DEF Asks, Is
<1>5. AskedOnce(u, e, a) => AskedOnce(c, e, a)
  BY <1>2, <1>3 DEF AskedOnce, Is
<1>6. AskedThen(u, e, a) => AskedThen(c, e, a)
  BY <1>2, <1>3 DEF AskedThen
<1>. QED
  BY <1>4, <1>5, <1>6 DEF c

\* Messages that do not answer, appended
LEMMA CalmAnswer ==
  ASSUME NEW u \in Seq(Messages), NEW w \in Seq(Messages), Without(w, "LAST"), NEW e, NEW a
  PROVE  /\ Answers(u \o w, e) <=> Answers(u, e)
         /\ AnswersPn(u \o w, e, a) <=> AnswersPn(u, e, a)
         /\ AnsweredOnce(u, e, a) => AnsweredOnce(u \o w, e, a)
<1>. DEFINE c == u \o w
<1>1. /\ Len(c) = Len(u) + Len(w) /\ Len(u) \in Nat /\ Len(w) \in Nat
      /\ \A i \in 1 .. Len(u) : c[i] = u[i]
      /\ \A i \in 1 .. Len(w) : c[Len(u) + i] = w[i]
  BY Appended
<1>. HIDE DEF c
<1>2. ASSUME NEW i \in 1 .. Len(c), c[i].op = "LAST"
      PROVE  i \in 1 .. Len(u) /\ c[i] = u[i]
  <2>1. CASE i > Len(u)
    <3>1. i - Len(u) \in 1 .. Len(w) /\ Len(u) + (i - Len(u)) = i
      BY <1>1, <2>1
    <3>2. c[i] = w[i - Len(u)]
      BY <1>1, <3>1
    <3>. QED
      BY <1>2, <3>1, <3>2 DEF Without
  <2>. QED
    BY <1>1, <2>1
<1>3. \A i \in 1 .. Len(u) : i \in 1 .. Len(c) /\ c[i] = u[i]
  BY <1>1
<1>4. Answers(c, e) <=> Answers(u, e)
  BY <1>2, <1>3 DEF Answers, Is
<1>5. AnswersPn(c, e, a) <=> AnswersPn(u, e, a)
  BY <1>2, <1>3 DEF AnswersPn, Is
<1>6. AnsweredOnce(u, e, a) => AnsweredOnce(c, e, a)
  BY <1>2, <1>3 DEF AnsweredOnce, Is
<1>. QED
  BY <1>4, <1>5, <1>6 DEF c

\* The same for the channels of m
LEMMA CalmPlus ==
  ASSUME NEW n \in Nets, NEW m \in Rank, NEW out \in [Rank -> Seq(Messages)], NEW d \in Rank,
         Without(out[d], "COLLECT"), NEW e, NEW a
  PROVE  /\ Asks(Plus(n, m, out)[m][d], e) <=> Asks(n[m][d], e)
         /\ AskedOnce(n[m][d], e, a) => AskedOnce(Plus(n, m, out)[m][d], e, a)
         /\ AskedThen(n[m][d], e, a) => AskedThen(Plus(n, m, out)[m][d], e, a)
<1>. DEFINE u == n[m][d]  v == out[d]  c == Plus(n, m, out)[m][d]
<1>1. c = u \o v /\ u \in Seq(Messages) /\ v \in Seq(Messages)
  BY PlusMine
<1>2. Without(v, "COLLECT")
  OBVIOUS
<1>. HIDE DEF u, v, c
<1>3. /\ Asks(c, e) <=> Asks(u, e)
      /\ AskedOnce(u, e, a) => AskedOnce(c, e, a)
      /\ AskedThen(u, e, a) => AskedThen(c, e, a)
  BY <1>1, <1>2, CalmAsk
<1>. QED
  BY <1>3 DEF u, v, c

\* The same for the channels of m
LEMMA MutePlus ==
  ASSUME NEW n \in Nets, NEW m \in Rank, NEW out \in [Rank -> Seq(Messages)], NEW d \in Rank,
         Without(out[d], "LAST"), NEW e, NEW a
  PROVE  /\ Answers(Plus(n, m, out)[m][d], e) <=> Answers(n[m][d], e)
         /\ AnswersPn(Plus(n, m, out)[m][d], e, a) <=> AnswersPn(n[m][d], e, a)
         /\ AnsweredOnce(n[m][d], e, a) => AnsweredOnce(Plus(n, m, out)[m][d], e, a)
<1>. DEFINE u == n[m][d]  v == out[d]  c == Plus(n, m, out)[m][d]
<1>1. c = u \o v /\ u \in Seq(Messages) /\ v \in Seq(Messages)
  BY PlusMine
<1>2. Without(v, "LAST")
  OBVIOUS
<1>. HIDE DEF u, v, c
<1>3. /\ Answers(c, e) <=> Answers(u, e)
      /\ AnswersPn(c, e, a) <=> AnswersPn(u, e, a)
      /\ AnsweredOnce(u, e, a) => AnsweredOnce(c, e, a)
  BY <1>1, <1>2, CalmAnswer
<1>. QED
  BY <1>3 DEF u, v, c

\* c is u and one message more.
Appends(u, k, c) ==
  /\ u \in Seq(Messages) /\ c \in Seq(Messages) /\ k \in Messages
  /\ Len(u) \in Nat /\ Len(c) = Len(u) + 1 /\ c[Len(u) + 1] = k
  /\ \A i \in 1 .. Len(u) : c[i] = u[i] /\ i \in 1 .. Len(c)
  /\ \A i \in 1 .. Len(c) : i \in 1 .. Len(u) \/ i = Len(u) + 1

\* One message is appended.
LEMMA OneMore ==
  ASSUME NEW u \in Seq(Messages), NEW k \in Messages, NEW c, c = u \o <<k>>
  PROVE  Appends(u, k, c)
<1>1. /\ c \in Seq(Messages) /\ Len(u) \in Nat /\ Len(c) = Len(u) + 1 /\ c[Len(u) + 1] = k
      /\ \A i \in 1 .. Len(u) : c[i] = u[i]
  OBVIOUS
<1>2. /\ \A i \in 1 .. Len(u) : i \in 1 .. Len(c)
      /\ \A i \in 1 .. Len(c) : i \in 1 .. Len(u) \/ i = Len(u) + 1
      /\ Len(u) + 1 \in 1 .. Len(c)
  BY <1>1
<1>. QED
  BY <1>1, <1>2 DEF Appends

\* What a channel asks and answers with one message more
LEMMA OneMoreAsks ==
  ASSUME NEW u, NEW k, NEW c, Appends(u, k, c), NEW e, NEW a
  PROVE  /\ Asks(c, e) <=> Asks(u, e) \/ Is(k, "COLLECT", e)
         /\ Answers(c, e) <=> Answers(u, e) \/ Is(k, "LAST", e)
         /\ AnswersPn(c, e, a) <=> AnswersPn(u, e, a) \/ (Is(k, "LAST", e) /\ k.pn = a)
         /\ AnsweredOnce(u, e, a) /\ (Is(k, "LAST", e) => ~AnswersPn(u, e, a)) =>
              AnsweredOnce(c, e, a)
<1>1. /\ Len(u) \in Nat /\ Len(c) = Len(u) + 1 /\ c[Len(u) + 1] = k
      /\ \A i \in 1 .. Len(u) : c[i] = u[i] /\ i \in 1 .. Len(c)
      /\ \A i \in 1 .. Len(c) : i \in 1 .. Len(u) \/ i = Len(u) + 1
  BY DEF Appends
<1>2. Len(u) + 1 \in 1 .. Len(c)
  BY <1>1
<1>3. Asks(c, e) <=> Asks(u, e) \/ Is(k, "COLLECT", e)
  BY <1>1, <1>2 DEF Asks
<1>4. Answers(c, e) <=> Answers(u, e) \/ Is(k, "LAST", e)
  BY <1>1, <1>2 DEF Answers
<1>5. AnswersPn(c, e, a) <=> AnswersPn(u, e, a) \/ (Is(k, "LAST", e) /\ k.pn = a)
  BY <1>1, <1>2 DEF AnswersPn
<1>6. ASSUME AnsweredOnce(u, e, a), Is(k, "LAST", e) => ~AnswersPn(u, e, a)
      PROVE  AnsweredOnce(c, e, a)
  <2>. SUFFICES ASSUME NEW i \in 1 .. Len(c), Is(c[i], "LAST", e), c[i].pn = a,
                       NEW j \in 1 .. Len(c), j > i, Is(c[j], "LAST", e)
                PROVE  FALSE
    BY DEF AnsweredOnce
  <2>1. i \in 1 .. Len(u)
    BY <1>1, <1>2
  <2>2. CASE j \in 1 .. Len(u)
    BY <1>1, <1>6, <2>1, <2>2 DEF AnsweredOnce
  <2>3. CASE j = Len(u) + 1
    BY <1>1, <1>6, <2>1, <2>3 DEF AnswersPn
  <2>. QED
    BY <1>1, <2>2, <2>3
<1>. QED
  BY <1>3, <1>4, <1>5, <1>6

\* Channels that lose messages at the front stay as they should be.
LEMMA ShorterA ==
  ASSUME NEW ms, NEW n, AskInv(ms, n), NEW o \in Nets, Shorter(o, n)
  PROVE  AskInv(ms, o)
<1>1. ms \in [Rank -> Monitors] /\ n \in Nets
  BY DEF AskInv
<1>2. ASSUME NEW x \in Rank, NEW d \in Rank
      PROVE  n[x][d] \in Seq(Messages) /\ o[x][d] \in Seq(Messages) /\ Suffix(o[x][d], n[x][d])
  BY <1>1 DEF Nets, Shorter
<1>3. ASSUME NEW x \in Rank, NEW d \in Rank, NEW i \in 1 .. Len(o[x][d])
      PROVE  MsgA(ms, x, d, o[x][d][i])
  <2>1. PICK k \in Nat : Stretch(o[x][d], n[x][d], k)
    BY <1>2 DEF Suffix
  <2>2. i + k \in 1 .. Len(n[x][d]) /\ o[x][d][i] = n[x][d][i + k]
    <3>. DEFINE u == o[x][d]
                w == n[x][d]
    <3>1. u \in Seq(Messages) /\ w \in Seq(Messages) /\ Stretch(u, w, k) /\ i \in 1 .. Len(u)
      BY <1>2, <2>1
    <3>. HIDE DEF u, w
    <3>2. i + k \in 1 .. Len(w) /\ u[i] = w[i + k]
      BY <3>1, StretchAt
    <3>. QED
      BY <3>2 DEF u, w
  <2>. QED
    BY <2>2 DEF AskInv
<1>4. ASSUME NEW m \in Rank, NEW p \in Rank, NEW e
      PROVE  Silent(n, m, p, e) => Silent(o, m, p, e)
  BY <1>2, SuffixAsk DEF Silent
<1>5. ASSUME NEW m \in Rank PROVE LeadA(ms, o, m)
  <2>. DEFINE s == ms[m]
  <2>. SUFFICES ASSUME s.role = "leader" PROVE LeadA(ms, o, m)
    BY DEF LeadA
  <2>1. /\ LeadA(ms, n, m) /\ s \in Monitors /\ s.quorum \subseteq Rank
        /\ s.num_last \in Nat
    BY <1>1 DEF AskInv, Monitors
  <2>2. ASSUME NEW p \in Rank \ {m} PROVE PairA(o, m, p, ms[p], s)
    <3>1. PairA(n, m, p, ms[p], s)
      BY <2>1 DEF LeadA
    <3>2. /\ Asks(o[m][p], s.epoch) => Asks(n[m][p], s.epoch)
          /\ AskedOnce(n[m][p], s.epoch, s.accepted_pn)
               => AskedOnce(o[m][p], s.epoch, s.accepted_pn)
          /\ AskedThen(n[m][p], s.epoch, s.accepted_pn)
               => AskedThen(o[m][p], s.epoch, s.accepted_pn)
      BY <1>2, SuffixAsk
    <3>3. /\ Answers(o[p][m], s.epoch) => Answers(n[p][m], s.epoch)
          /\ AnswersPn(o[p][m], s.epoch, s.accepted_pn)
               => AnswersPn(n[p][m], s.epoch, s.accepted_pn)
          /\ AnsweredOnce(n[p][m], s.epoch, s.accepted_pn)
               => AnsweredOnce(o[p][m], s.epoch, s.accepted_pn)
      BY <1>2, SuffixAsk
    <3>. QED
      BY <3>1, <3>2, <3>3 DEF PairA
  <2>3. SilentOnes(n, m, s) \subseteq SilentOnes(o, m, s)
    BY <1>4, <2>1 DEF SilentOnes
  <2>4. AllSilent(n, m, s) => AllSilent(o, m, s)
    BY <1>4, <2>1 DEF AllSilent
  <2>5. /\ Cardinality(SilentOnes(n, m, s)) <= Cardinality(SilentOnes(o, m, s))
        /\ Cardinality(SilentOnes(n, m, s)) \in Nat /\ Cardinality(SilentOnes(o, m, s)) \in Nat
    <3>1. SilentOnes(o, m, s) \subseteq Rank /\ SilentOnes(n, m, s) \subseteq Rank
      BY <2>1 DEF SilentOnes
    <3>2. IsFiniteSet(SilentOnes(o, m, s)) /\ IsFiniteSet(SilentOnes(n, m, s))
      BY <3>1, QuorumSize
    <3>. QED
      BY <2>3, <3>2, FS_Subset, FS_CardinalityType
  <2>. HIDE DEF s
  <2>6. s.state = "recovering" => s.num_last - 1 <= Cardinality(SilentOnes(o, m, s))
    <3>1. s.state = "recovering" => s.num_last - 1 <= Cardinality(SilentOnes(n, m, s))
      BY <2>1 DEF LeadA, s
    <3>. QED
      BY <2>1, <2>5, <3>1
  <2>. QED
    BY <2>1, <2>2, <2>4, <2>6 DEF LeadA, s
<1>. QED
  BY <1>1, <1>3, <1>5 DEF AskInv

(***************************************************************************)
(* One monitor moves.  The invariant of questions and answers is kept by    *)
(* calls that do not ask or answer, and by those of a later epoch.          *)
(***************************************************************************)

\* What the invariant of PaxosProofs says of one monitor
LEMMA FitFacts ==
  ASSUME NEW m, NEW s, Fit(m, s)
  PROVE  /\ s \in Monitors /\ MemoryOK(s) /\ s.first_committed <= s.last_committed
         /\ s.pending_v <= s.last_committed + 1
         /\ s.pending_v > s.last_committed => s.pending_v \in DOMAIN s.log
         /\ s.role = "leader" /\ N > 1 =>
              /\ s.quorum # {m} /\ s.accepted_pn % 100 = m /\ s.accepted_pn <= s.last_pn
              /\ s.state # "recovering" => s.num_last >= Cardinality(s.quorum)
  BY DEF Fit, Good, StoreOK, LeaderOK

\* m moves from ms[m] to t.
Moved(ms, m, t) == [ms EXCEPT ![m] = t]

\* The states after a step of m
LEMMA MovedAt ==
  ASSUME NEW ms \in [Rank -> Monitors], NEW m \in Rank, NEW t \in Monitors
  PROVE  /\ Moved(ms, m, t) \in [Rank -> Monitors] /\ Moved(ms, m, t)[m] = t
         /\ \A p \in Rank \ {m} : Moved(ms, m, t)[p] = ms[p]
  BY DEF Moved

\* Of two steps of m the later one counts.
LEMMA MovedTwice ==
  ASSUME NEW ms \in [Rank -> Monitors], NEW m \in Rank, NEW s, NEW t
  PROVE  Moved(Moved(ms, m, s), m, t) = Moved(ms, m, t)
  BY DEF Moved

\* A step of m that changes nothing
LEMMA MovedSame ==
  ASSUME NEW ms \in [Rank -> Monitors], NEW m \in Rank
  PROVE  Moved(ms, m, ms[m]) = ms
  BY DEF Moved

\* last_pn only grows.
LEMMA OwnGrows ==
  ASSUME NEW ms \in [Rank -> Monitors], NEW m \in Rank, NEW t \in Monitors,
         t.last_pn >= ms[m].last_pn, NEW pn \in Nat, OwnPn(ms, pn)
  PROVE  OwnPn(Moved(ms, m, t), pn)
<1>1. ASSUME NEW p \in Rank, pn % 100 = p
      PROVE  pn <= Moved(ms, m, t)[p].last_pn
  <2>1. pn <= ms[p].last_pn
    BY <1>1 DEF OwnPn
  <2>2. ms[m].last_pn \in Nat /\ t.last_pn \in Nat
    BY DEF Monitors
  <2>3. CASE p = m
    BY <2>1, <2>2, <2>3, MovedAt
  <2>4. CASE p # m
    BY <2>1, <2>4, MovedAt
  <2>. QED
    BY <2>3, <2>4
<1>. QED
  BY <1>1 DEF OwnPn

\* What is known of a message stays true.
LEMMA MsgAKept ==
  ASSUME NEW ms \in [Rank -> Monitors], NEW m \in Rank, NEW t \in Monitors,
         t.last_pn >= ms[m].last_pn, t.epoch >= ms[m].epoch,
         NEW x \in Rank, NEW d \in Rank, NEW msg \in Messages, MsgA(ms, x, d, msg)
  PROVE  MsgA(Moved(ms, m, t), x, d, msg)
<1>1. msg.pn \in Nat /\ msg.epoch \in Nat
  BY DEF Messages
<1>2. ASSUME NEW p \in Rank, msg.epoch <= ms[p].epoch
      PROVE  msg.epoch <= Moved(ms, m, t)[p].epoch
  <2>1. ms[m].epoch \in Nat /\ t.epoch \in Nat
    BY DEF Monitors
  <2>2. CASE p = m
    BY <1>1, <1>2, <2>1, <2>2 DEF Moved
  <2>3. CASE p # m
    BY <1>2, <2>3 DEF Moved
  <2>. QED
    BY <2>2, <2>3
<1>3. OwnPn(ms, msg.pn) => OwnPn(Moved(ms, m, t), msg.pn)
  BY <1>1, OwnGrows
<1>. QED
  BY <1>2, <1>3 DEF MsgA

\* What another leader q knows is not disturbed.
LEMMA FrameLead ==
  ASSUME NEW ms, NEW n, AskInv(ms, n), NEW o \in Nets, Shorter(o, n),
         NEW m \in Rank, NEW t \in Monitors, NEW out \in [Rank -> Seq(Messages)],
         NEW q \in Rank, q # m,
         ms[q].role = "leader" =>
           /\ PairA(Plus(o, m, out), q, m, t, ms[q])
           /\ Silent(n, q, m, ms[q].epoch) => Silent(Plus(o, m, out), q, m, ms[q].epoch)
  PROVE  LeadA(Moved(ms, m, t), Plus(o, m, out), q)
<1>. DEFINE w == Moved(ms, m, t)
            n2 == Plus(o, m, out)
            s == ms[q]
<1>1. AskInv(ms, o) /\ ms \in [Rank -> Monitors] /\ n \in Nets
  BY ShorterA DEF AskInv
<1>2. w[q] = s /\ w[m] = t /\ \A p \in Rank \ {m} : w[p] = ms[p]
  BY <1>1, MovedAt
<1>3. \A p \in Rank : n2[q][p] = o[q][p] /\ (p # m => n2[p][q] = o[p][q])
  BY PlusAt, ZenonT(60)
<1>. SUFFICES ASSUME s.role = "leader" PROVE LeadA(w, n2, q)
  BY <1>2 DEF LeadA
<1>. HIDE DEF n2, w
<1>4. ASSUME NEW p \in Rank PROVE Silent(n, q, p, s.epoch) => Silent(n2, q, p, s.epoch)
  <2>1. CASE p = m
    BY <2>1 DEF n2
  <2>2. CASE p # m
    <3>1. /\ o[q][p] \in Seq(Messages) /\ o[p][q] \in Seq(Messages)
          /\ n[q][p] \in Seq(Messages) /\ n[p][q] \in Seq(Messages)
          /\ Suffix(o[q][p], n[q][p]) /\ Suffix(o[p][q], n[p][q])
      BY <1>1 DEF Shorter, Nets
    <3>2. Silent(n, q, p, s.epoch) => Silent(o, q, p, s.epoch)
      BY <3>1, SuffixAsk DEF Silent
    <3>. QED
      BY <1>3, <2>2, <3>2 DEF Silent
  <2>. QED
    BY <2>1, <2>2
<1>5. LeadA(ms, n, q) /\ LeadA(ms, o, q) /\ s \in Monitors /\ s.quorum \subseteq Rank
      /\ s.num_last \in Nat
  BY <1>1 DEF AskInv, Monitors
<1>6. ASSUME NEW p \in Rank \ {q} PROVE PairA(n2, q, p, w[p], s)
  <2>1. PairA(o, q, p, ms[p], s)
    BY <1>5 DEF LeadA
  <2>2. CASE p = m
    BY <1>2, <2>2 DEF n2
  <2>3. CASE p # m
    BY <1>2, <1>3, <2>1, <2>3 DEF PairA
  <2>. QED
    BY <2>2, <2>3
<1>7. SilentOnes(n, q, s) \subseteq SilentOnes(n2, q, s) /\ (AllSilent(n, q, s) => AllSilent(n2, q, s))
  BY <1>4, <1>5 DEF SilentOnes, AllSilent
<1>8. /\ Cardinality(SilentOnes(n, q, s)) <= Cardinality(SilentOnes(n2, q, s))
      /\ Cardinality(SilentOnes(n, q, s)) \in Nat /\ Cardinality(SilentOnes(n2, q, s)) \in Nat
  <2>1. SilentOnes(n, q, s) \subseteq Rank /\ SilentOnes(n2, q, s) \subseteq Rank
    BY <1>5 DEF SilentOnes
  <2>2. IsFiniteSet(SilentOnes(n, q, s)) /\ IsFiniteSet(SilentOnes(n2, q, s))
    BY <2>1, QuorumSize
  <2>. QED
    BY <1>7, <2>2, FS_Subset, FS_CardinalityType
<1>9. s.state = "recovering" => s.num_last - 1 <= Cardinality(SilentOnes(n2, q, s))
  <2>1. s.state = "recovering" => s.num_last - 1 <= Cardinality(SilentOnes(n, q, s))
    BY <1>5 DEF LeadA
  <2>. HIDE DEF s
  <2>. QED
    BY <1>5, <1>8, <2>1
<1>. QED
  BY <1>2, <1>5, <1>6, <1>7, <1>9 DEF LeadA

\* Another leader q sees nothing of a step of m that does not answer it.
LEMMA FrameA ==
  ASSUME NEW ms, NEW n, AskInv(ms, n), NEW o \in Nets, Shorter(o, n),
         NEW m \in Rank, NEW t \in Monitors, NEW out \in [Rank -> Seq(Messages)],
         NEW q \in Rank, q # m, Without(out[q], "LAST"),
         t.accepted_pn \in {ms[m].accepted_pn, ms[m].stored_pn} \/ t.accepted_pn % 100 # q,
         t.stored_pn = ms[m].stored_pn \/ t.stored_pn % 100 # q
  PROVE  LeadA(Moved(ms, m, t), Plus(o, m, out), q)
<1>. DEFINE n2 == Plus(o, m, out)
            s == ms[q]
<1>1. AskInv(ms, o) /\ ms \in [Rank -> Monitors] /\ n \in Nets
  BY ShorterA DEF AskInv
<1>2. n2[q][m] = o[q][m]
  BY PlusOther
<1>3. /\ Answers(n2[m][q], s.epoch) <=> Answers(o[m][q], s.epoch)
      /\ AnswersPn(n2[m][q], s.epoch, s.accepted_pn)
           <=> AnswersPn(o[m][q], s.epoch, s.accepted_pn)
      /\ AnsweredOnce(o[m][q], s.epoch, s.accepted_pn)
           => AnsweredOnce(n2[m][q], s.epoch, s.accepted_pn)
  BY MutePlus
<1>. HIDE DEF n2
<1>4. Silent(n, q, m, s.epoch) => Silent(n2, q, m, s.epoch)
  <2>1. /\ o[q][m] \in Seq(Messages) /\ o[m][q] \in Seq(Messages)
        /\ n[q][m] \in Seq(Messages) /\ n[m][q] \in Seq(Messages)
        /\ Suffix(o[q][m], n[q][m]) /\ Suffix(o[m][q], n[m][q])
    BY <1>1 DEF Shorter, Nets
  <2>2. Silent(n, q, m, s.epoch) => Silent(o, q, m, s.epoch)
    BY <2>1, SuffixAsk DEF Silent
  <2>. QED
    BY <1>2, <1>3, <2>2 DEF Silent
<1>5. ASSUME s.role = "leader" PROVE PairA(n2, q, m, t, s)
  <2>1. PairA(o, q, m, ms[m], s)
    BY <1>1, <1>5 DEF LeadA, AskInv
  <2>2. N > 1
    BY NAssumption DEF Rank
  <2>3. s.accepted_pn % 100 = q
    BY <1>1, <1>5, <2>2, FitFacts DEF AskInv
  <2>4. Asks(o[q][m], s.epoch) =>
           ms[m].accepted_pn # s.accepted_pn /\ ms[m].stored_pn # s.accepted_pn
    BY <2>1 DEF PairA
  <2>5. Asks(o[q][m], s.epoch) => t.accepted_pn # s.accepted_pn /\ t.stored_pn # s.accepted_pn
    BY <2>3, <2>4
  <2>. QED
    BY <1>2, <1>3, <2>1, <2>5 DEF PairA
<1>. QED
  BY <1>4, <1>5, FrameLead DEF n2

\* A step of m, in which channels may have lost messages at the front
LEMMA MicroA ==
  ASSUME NEW ms, NEW n, AskInv(ms, n), NEW o \in Nets, Shorter(o, n),
         NEW m \in Rank, NEW t, Fit(m, t), TimersOK(t), NEW out \in [Rank -> Seq(Messages)],
         t.last_pn >= ms[m].last_pn, t.epoch >= ms[m].epoch,
         PnsA(Moved(ms, m, t), m),
         \A d \in Rank : \A i \in 1 .. Len(out[d]) : MsgA(Moved(ms, m, t), m, d, out[d][i]),
         \A q \in Rank : LeadA(Moved(ms, m, t), Plus(o, m, out), q)
  PROVE  AskInv(Moved(ms, m, t), Plus(o, m, out))
<1>. DEFINE w == Moved(ms, m, t)
            n2 == Plus(o, m, out)
<1>1. AskInv(ms, o) /\ ms \in [Rank -> Monitors]
  BY ShorterA DEF AskInv
<1>2. t \in Monitors
  BY FitFacts
<1>3. w \in [Rank -> Monitors] /\ w[m] = t /\ \A p \in Rank \ {m} : w[p] = ms[p]
  BY <1>1, <1>2, MovedAt
<1>4. n2 \in Nets
  BY PlusTyped
<1>5. ASSUME NEW x \in Rank, NEW d \in Rank, NEW i \in 1 .. Len(n2[x][d])
      PROVE  MsgA(w, x, d, n2[x][d][i])
  <2>0. o[x][d] \in Seq(Messages) /\ out[d] \in Seq(Messages)
    BY DEF Nets
  <2>1. ASSUME NEW k \in 1 .. Len(o[x][d]) PROVE MsgA(w, x, d, o[x][d][k])
    <3>1. o[x][d][k] \in Messages /\ MsgA(ms, x, d, o[x][d][k])
      BY <1>1, <2>0 DEF AskInv
    <3>. QED
      BY <1>1, <1>2, <3>1, MsgAKept
  <2>2. Among(n2[x][d], o[x][d], out[d], x = m, i)
    BY PlusAmong
  <2>. HIDE DEF n2
  <2>. QED
    BY <2>1, <2>2 DEF Among
<1>6. ASSUME NEW p \in Rank PROVE Fit(p, w[p]) /\ TimersOK(w[p]) /\ PnsA(w, p)
  <2>1. CASE p = m
    BY <1>3, <2>1
  <2>2. CASE p # m
    <3>1. w[p] = ms[p]
      BY <1>3, <2>2
    <3>2. Fit(p, ms[p]) /\ TimersOK(ms[p]) /\ PnsA(ms, p) /\ ms[p] \in Monitors
      BY <1>1 DEF AskInv
    <3>3. ms[p].accepted_pn \in Nat /\ ms[p].stored_pn \in Nat
      BY <3>2 DEF Monitors
    <3>4. OwnPn(w, ms[p].accepted_pn) /\ OwnPn(w, ms[p].stored_pn)
      BY <1>1, <1>2, <3>2, <3>3, OwnGrows DEF PnsA
    <3>. QED
      BY <3>1, <3>2, <3>4 DEF PnsA
  <2>. QED
    BY <2>1, <2>2
<1>. QED
  BY <1>3, <1>4, <1>5, <1>6 DEF AskInv

\* t leads on where s led.
LeadsOnA(n, m, s, t) ==
  /\ s.role = "leader" /\ t.epoch = s.epoch /\ t.quorum = s.quorum
  /\ t.accepted_pn = s.accepted_pn
  /\ t.state = "recovering" => s.state = "recovering" /\ t.num_last = s.num_last
  /\ t.state # "recovering" => AllSilent(n, m, s)

\* Nothing in out asks or answers, or is sent to m itself.
CalmOut(m, out) ==
  \A d \in Rank : /\ Calm(out[d])
                  /\ \A i \in 1 .. Len(out[d]) : d # m \/ out[d][i].op = "COMMIT"

\* What a calm call sends
LEMMA NotToSelf ==
  ASSUME NEW m \in Rank, NEW out \in [Rank -> Seq(Messages)], CalmOut(m, out),
         NEW d \in Rank, NEW i \in 1 .. Len(out[d])
  PROVE  /\ d # m \/ out[d][i].op = "COMMIT"
         /\ out[d][i].op \notin {"COLLECT", "LAST"} /\ out[d][i] \in Messages
<1>1. out[d] \in Seq(Messages)
  OBVIOUS
<1>. QED
  BY <1>1 DEF CalmOut, Calm, Without

\* A call of m that neither asks nor answers
LEMMA PlainA ==
  ASSUME NEW ms, NEW n, AskInv(ms, n), NEW m \in Rank, NEW t, Fit(m, t), TimersOK(t),
         NEW out \in [Rank -> Seq(Messages)], CalmOut(m, out),
         t.last_pn = ms[m].last_pn, t.epoch >= ms[m].epoch, t.stored_pn = ms[m].stored_pn,
         t.accepted_pn \in {ms[m].accepted_pn, ms[m].stored_pn},
         t.role = "leader" => LeadsOnA(n, m, ms[m], t)
  PROVE  AskInv(Moved(ms, m, t), Plus(n, m, out))
<1>. DEFINE w == Moved(ms, m, t)
            n2 == Plus(n, m, out)
            s == ms[m]
<1>1. ms \in [Rank -> Monitors] /\ n \in Nets /\ t \in Monitors /\ s \in Monitors
  BY FitFacts DEF AskInv
<1>2. w[m] = t /\ \A p \in Rank \ {m} : w[p] = ms[p]
  BY <1>1, MovedAt
<1>3. Shorter(n, n)
  BY <1>1, SuffixSame DEF Shorter, Nets
<1>4. /\ s.accepted_pn \in Nat /\ s.stored_pn \in Nat /\ s.last_pn \in Nat /\ s.epoch \in Nat
      /\ s.quorum \subseteq Rank /\ s.num_last \in Nat
  BY <1>1 DEF Monitors
<1>5. PnsA(w, m)
  <2>1. PnsA(ms, m)
    BY DEF AskInv
  <2>2. t.last_pn >= ms[m].last_pn
    BY <1>4
  <2>3. OwnPn(ms, s.accepted_pn) /\ OwnPn(ms, s.stored_pn)
    BY <2>1 DEF PnsA
  <2>4. OwnPn(w, s.accepted_pn)
    BY <1>1, <1>4, <2>2, <2>3, OwnGrows
  <2>5. OwnPn(w, s.stored_pn)
    BY <1>1, <1>4, <2>2, <2>3, OwnGrows
  <2>. QED
    BY <1>2, <1>4, <2>1, <2>4, <2>5 DEF PnsA, Larger
<1>6. ASSUME NEW d \in Rank, NEW i \in 1 .. Len(out[d])
      PROVE  MsgA(w, m, d, out[d][i])
  BY NotToSelf DEF MsgA
<1>7. ASSUME NEW q \in Rank, q # m PROVE LeadA(w, n2, q)
  BY <1>1, <1>3, <1>7, FrameA DEF CalmOut, Calm
<1>8. LeadA(w, n2, m)
  <2>. SUFFICES ASSUME t.role = "leader" PROVE LeadA(w, n2, m)
    BY <1>2 DEF LeadA
  <2>1. LeadsOnA(n, m, s, t) /\ LeadA(ms, n, m)
    BY DEF AskInv
  <2>2. \A p \in Rank \ {m} : n2[p][m] = n[p][m] /\ Without(out[p], "COLLECT")
    <3>1. \A p \in Rank \ {m} : n2[p][m] = n[p][m]
      BY <1>1, PlusOther
    <3>2. \A p \in Rank \ {m} : Without(out[p], "COLLECT")
      BY DEF CalmOut, Calm
    <3>. QED
      BY <3>1, <3>2
  <2>. HIDE DEF n2, w
  <2>3. ASSUME NEW p \in Rank \ {m}, NEW e
        PROVE  Silent(n2, m, p, e) <=> Silent(n, m, p, e)
    <3>1. Asks(n2[m][p], e) <=> Asks(n[m][p], e)
      BY <1>1, <2>2, CalmPlus DEF n2
    <3>. QED
      BY <2>2, <3>1 DEF Silent
  <2>4. ASSUME NEW p \in Rank \ {m} PROVE PairA(n2, m, p, w[p], t)
    <3>1. PairA(n, m, p, ms[p], s)
      BY <2>1 DEF LeadA, LeadsOnA
    <3>2. /\ Asks(n2[m][p], s.epoch) <=> Asks(n[m][p], s.epoch)
          /\ AskedOnce(n[m][p], s.epoch, s.accepted_pn)
               => AskedOnce(n2[m][p], s.epoch, s.accepted_pn)
          /\ AskedThen(n[m][p], s.epoch, s.accepted_pn)
               => AskedThen(n2[m][p], s.epoch, s.accepted_pn)
      BY <1>1, <2>2, CalmPlus DEF n2
    <3>. QED
      BY <1>2, <2>1, <2>2, <3>1, <3>2 DEF PairA, LeadsOnA
  <2>5. SilentOnes(n2, m, t) = SilentOnes(n, m, s) /\ (AllSilent(n, m, s) => AllSilent(n2, m, t))
    BY <1>4, <2>1, <2>3 DEF SilentOnes, AllSilent, LeadsOnA
  <2>. QED
    BY <1>2, <2>1, <2>4, <2>5 DEF LeadA, LeadsOnA
<1>. QED
  BY <1>1, <1>3, <1>4, <1>5, <1>6, <1>7, <1>8, MicroA

\* A monitor that has not been in an epoch has asked for nothing in it.
LEMMA UnheardA ==
  ASSUME NEW ms, NEW n, AskInv(ms, n), NEW m \in Rank, NEW e \in Nat, e > ms[m].epoch,
         NEW p \in Rank
  PROVE  ~Asks(n[m][p], e) /\ ~Answers(n[p][m], e)
<1>1. ms[m].epoch \in Nat
  BY DEF AskInv, Monitors
<1>2. ASSUME NEW i \in 1 .. Len(n[m][p]) PROVE ~Is(n[m][p][i], "COLLECT", e)
  <2>1. MsgA(ms, m, p, n[m][p][i])
    BY DEF AskInv
  <2>. QED
    BY <1>1, <2>1 DEF MsgA, Is
<1>3. ASSUME NEW i \in 1 .. Len(n[p][m]) PROVE ~Is(n[p][m][i], "LAST", e)
  <2>1. MsgA(ms, p, m, n[p][m][i])
    BY DEF AskInv
  <2>. QED
    BY <1>1, <2>1 DEF MsgA, Is
<1>. QED
  BY <1>2, <1>3 DEF Asks, Answers

\* Nothing on its way between m and p
LEMMA NoPairA ==
  ASSUME NEW n, NEW m, NEW p, NEW t, NEW s,
         ~Asks(n[m][p], s.epoch), ~Answers(n[p][m], s.epoch)
  PROVE  PairA(n, m, p, t, s)
  BY DEF PairA, Asks, Answers, AskedOnce, AnsweredOnce

\* The epoch of a leader is bumped while it still leads.
LEMMA EpochA ==
  ASSUME NEW ms, NEW n, AskInv(ms, n), NEW m \in Rank, NEW t, Fit(m, t), TimersOK(t),
         t.last_pn = ms[m].last_pn, t.epoch > ms[m].epoch, t.stored_pn = ms[m].stored_pn,
         t.accepted_pn = ms[m].accepted_pn, t.role = ms[m].role, t.quorum = ms[m].quorum,
         t.state = ms[m].state, t.num_last = ms[m].num_last
  PROVE  AskInv(Moved(ms, m, t), n)
<1>. DEFINE w == Moved(ms, m, t)
            s == ms[m]
<1>1. ms \in [Rank -> Monitors] /\ n \in Nets /\ t \in Monitors /\ s \in Monitors
  BY FitFacts DEF AskInv
<1>2. w[m] = t /\ \A p \in Rank \ {m} : w[p] = ms[p]
  BY <1>1, MovedAt
<1>3. Shorter(n, n)
  BY <1>1, SuffixSame DEF Shorter, Nets
<1>4. /\ s.accepted_pn \in Nat /\ s.stored_pn \in Nat /\ s.last_pn \in Nat /\ s.epoch \in Nat
      /\ s.quorum \subseteq Rank /\ s.num_last \in Nat /\ t.epoch \in Nat
  BY <1>1 DEF Monitors
<1>5. PnsA(w, m)
  <2>1. PnsA(ms, m)
    BY DEF AskInv
  <2>2. OwnPn(w, s.accepted_pn) /\ OwnPn(w, s.stored_pn)
    BY <1>1, <1>4, <2>1, OwnGrows DEF PnsA
  <2>. QED
    BY <1>2, <1>4, <2>1, <2>2 DEF PnsA, Larger
<1>6. Plus(n, m, Nothing) = n /\ Nothing \in [Rank -> Seq(Messages)]
  BY <1>1, PlusNothing DEF Nothing
<1>7. \A d \in Rank : Without(Nothing[d], "LAST") /\ Len(Nothing[d]) = 0
  BY DEF Nothing, Without
<1>8. ASSUME NEW q \in Rank, q # m PROVE LeadA(w, n, q)
  <2>1. LeadA(w, Plus(n, m, Nothing), q)
    BY <1>1, <1>3, <1>6, <1>7, <1>8, FrameA
  <2>. QED
    BY <1>6, <2>1
<1>9. LeadA(w, n, m)
  <2>. SUFFICES ASSUME t.role = "leader" PROVE LeadA(w, n, m)
    BY <1>2 DEF LeadA
  <2>1. LeadA(ms, n, m)
    BY DEF AskInv
  <2>2. ASSUME NEW p \in Rank PROVE ~Asks(n[m][p], t.epoch) /\ ~Answers(n[p][m], t.epoch)
    BY <1>4, UnheardA
  <2>3. \A p \in Rank \ {m} : PairA(n, m, p, w[p], t)
    BY <2>2, NoPairA
  <2>4. AllSilent(n, m, t) /\ SilentOnes(n, m, s) \subseteq SilentOnes(n, m, t)
    BY <1>4, <2>2 DEF AllSilent, SilentOnes, Silent
  <2>5. /\ Cardinality(SilentOnes(n, m, s)) <= Cardinality(SilentOnes(n, m, t))
        /\ Cardinality(SilentOnes(n, m, s)) \in Nat /\ Cardinality(SilentOnes(n, m, t)) \in Nat
    <3>1. SilentOnes(n, m, s) \subseteq Rank /\ SilentOnes(n, m, t) \subseteq Rank
      BY <1>4 DEF SilentOnes
    <3>2. IsFiniteSet(SilentOnes(n, m, s)) /\ IsFiniteSet(SilentOnes(n, m, t))
      BY <3>1, QuorumSize
    <3>. QED
      BY <2>4, <3>2, FS_Subset, FS_CardinalityType
  <2>6. t.state = "recovering" => t.num_last - 1 <= Cardinality(SilentOnes(n, m, t))
    <3>1. s.state = "recovering" => s.num_last - 1 <= Cardinality(SilentOnes(n, m, s))
      BY <2>1 DEF LeadA
    <3>. HIDE DEF s
    <3>. QED
      BY <1>4, <2>5, <3>1 DEF s
  <2>7. m \in t.quorum
    BY <2>1 DEF LeadA
  <2>. QED
    BY <1>2, <2>3, <2>4, <2>6, <2>7 DEF LeadA
<1>10. ASSUME NEW q \in Rank PROVE LeadA(w, Plus(n, m, Nothing), q)
  BY <1>6, <1>8, <1>9
<1>11. \A d \in Rank : \A i \in 1 .. Len(Nothing[d]) : MsgA(w, m, d, Nothing[d][i])
  BY <1>7
<1>12. AskInv(w, Plus(n, m, Nothing))
  BY <1>1, <1>3, <1>4, <1>5, <1>6, <1>10, <1>11, MicroA, SMTT(60)
<1>. QED
  BY <1>6, <1>12

(***************************************************************************)
(* A leader asks, a peon answers, the leader counts, a monitor dies.        *)
(***************************************************************************)

\* The numbers that are about are smaller than one its owner has not written yet.
LEMMA NewPnA ==
  ASSUME NEW ms, NEW n, AskInv(ms, n), NEW m \in Rank, NEW a \in Nat, a % 100 = m,
         a > ms[m].last_pn, NEW p \in Rank
  PROVE  /\ ms[p].accepted_pn # a /\ ms[p].stored_pn # a
         /\ \A d \in Rank : \A i \in 1 .. Len(n[p][d]) :
              n[p][d][i].op \in {"COLLECT", "LAST"} => n[p][d][i].pn # a
<1>1. ms[m].last_pn \in Nat
  BY DEF AskInv, Monitors
<1>2. ~OwnPn(ms, a)
  BY <1>1 DEF OwnPn
<1>3. PnsA(ms, p)
  BY DEF AskInv
<1>4. ASSUME NEW d \in Rank, NEW i \in 1 .. Len(n[p][d]),
             n[p][d][i].op \in {"COLLECT", "LAST"}
      PROVE  n[p][d][i].pn # a
  <2>1. MsgA(ms, p, d, n[p][d][i])
    BY DEF AskInv
  <2>. QED
    BY <1>2, <1>4, <2>1 DEF MsgA
<1>. QED
  BY <1>2, <1>3, <1>4 DEF PnsA

\* collect
CollectsA(m, s, t, msg) ==
  /\ t.role = "leader" /\ m \in t.quorum /\ t.state = "recovering" /\ t.num_last = 1
  /\ t.accepted_pn = t.last_pn /\ t.last_pn > s.last_pn /\ t.accepted_pn > s.accepted_pn
  /\ t.stored_pn = s.stored_pn
  /\ \/ t.epoch > s.epoch
     \/ s.role = "leader" /\ t.epoch = s.epoch /\ t.quorum = s.quorum
  /\ msg \in Messages /\ msg.op = "COLLECT" /\ msg.epoch = t.epoch /\ msg.pn = t.accepted_pn

\* What SendTo sends
LEMMA SendToAt ==
  ASSUME NEW X, NEW msg \in Messages
  PROVE  /\ SendTo(X, msg) \in [Rank -> Seq(Messages)]
         /\ \A d \in Rank : SendTo(X, msg)[d] = IF d \in X THEN <<msg>> ELSE <<>>
  BY DEF SendTo

\* A message SendTo sends
LEMMA SendToOne ==
  ASSUME NEW X, NEW msg \in Messages, NEW d \in Rank, NEW i \in 1 .. Len(SendTo(X, msg)[d])
  PROVE  d \in X /\ SendTo(X, msg)[d][i] = msg
<1>1. CASE d \in X
  <2>1. SendTo(X, msg)[d] = <<msg>>
    BY <1>1, SendToAt
  <2>. QED
    BY <1>1, <2>1
<1>2. CASE d \notin X
  <2>1. SendTo(X, msg)[d] = <<>>
    BY <1>2, SendToAt
  <2>. QED
    BY <2>1
<1>. QED
  BY <1>1, <1>2

\* Leader m asks its quorum under a new number (collect).
LEMMA CollectA ==
  ASSUME NEW ms, NEW n, AskInv(ms, n), NEW m \in Rank, NEW t, Fit(m, t), TimersOK(t), N > 1,
         NEW msg, CollectsA(m, ms[m], t, msg)
  PROVE  AskInv(Moved(ms, m, t), Plus(n, m, SendTo(t.quorum \ {m}, msg)))
<1>. DEFINE w == Moved(ms, m, t)
            out == SendTo(t.quorum \ {m}, msg)
            n2 == Plus(n, m, out)
            s == ms[m]
            a == t.accepted_pn
            e == t.epoch
<1>1. ms \in [Rank -> Monitors] /\ n \in Nets /\ t \in Monitors /\ s \in Monitors
  BY FitFacts DEF AskInv
<1>2. w[m] = t /\ \A p \in Rank \ {m} : w[p] = ms[p]
  BY <1>1, MovedAt
<1>3. Shorter(n, n)
  BY <1>1, SuffixSame DEF Shorter, Nets
<1>4. /\ s.accepted_pn \in Nat /\ s.stored_pn \in Nat /\ s.last_pn \in Nat /\ s.epoch \in Nat
      /\ t.quorum \subseteq Rank /\ a \in Nat /\ e \in Nat /\ t.last_pn \in Nat
  BY <1>1 DEF Monitors
<1>5. a % 100 = m
  BY FitFacts DEF CollectsA
<1>6. out \in [Rank -> Seq(Messages)]
  BY SendToAt DEF CollectsA
<1>7. PnsA(w, m)
  <2>1. OwnPn(ms, s.stored_pn) /\ s.stored_pn <= s.accepted_pn
    BY DEF AskInv, PnsA
  <2>2. OwnPn(w, s.stored_pn)
    BY <1>1, <1>4, <2>1, OwnGrows DEF CollectsA
  <2>3. OwnPn(w, a)
    BY <1>2, <1>4, <1>5 DEF OwnPn, CollectsA
  <2>. QED
    BY <1>2, <1>4, <2>1, <2>2, <2>3 DEF PnsA, CollectsA, Larger
<1>8. ASSUME NEW d \in Rank, NEW i \in 1 .. Len(out[d])
      PROVE  MsgA(w, m, d, out[d][i])
  <2>1. d \in t.quorum \ {m} /\ out[d][i] = msg
    BY SendToOne DEF CollectsA
  <2>2. OwnPn(w, a)
    BY <1>2, <1>7 DEF PnsA
  <2>. QED
    BY <1>2, <1>4, <1>5, <2>1, <2>2 DEF MsgA, CollectsA
<1>9. ASSUME NEW q \in Rank, q # m PROVE LeadA(w, n2, q)
  <2>1. Without(out[q], "LAST")
    BY SendToOne DEF Without, CollectsA
  <2>2. a % 100 # q /\ t.stored_pn = s.stored_pn
    BY <1>5, <1>9 DEF CollectsA
  <2>. QED
    BY <1>1, <1>3, <1>6, <1>9, <2>1, <2>2, FrameA
<1>10. LeadA(w, n2, m)
  <2>1. ASSUME NEW p \in Rank \ {m} PROVE PairA(n2, m, p, w[p], t)
    <3>1. /\ ms[p].accepted_pn # a /\ ms[p].stored_pn # a
          /\ \A i \in 1 .. Len(n[p][m]) :
               n[p][m][i].op \in {"COLLECT", "LAST"} => n[p][m][i].pn # a
      BY <1>4, <1>5, NewPnA, SMTT(60) DEF CollectsA
    <3>2. \A i \in 1 .. Len(n[m][p]) :
               n[m][p][i].op \in {"COLLECT", "LAST"} => n[m][p][i].pn # a
      BY <1>4, <1>5, NewPnA, SMTT(60) DEF CollectsA
    <3>3. n2[p][m] = n[p][m]
      <4>1. p \in Rank /\ p # m
        OBVIOUS
      <4>. HIDE DEF out
      <4>. QED
        BY <1>1, <1>6, <4>1, PlusOther, SMTT(60)
    <3>4. ~AnswersPn(n[p][m], e, a) /\ AnsweredOnce(n[p][m], e, a)
      BY <3>1 DEF AnswersPn, AnsweredOnce, Is
    <3>5. Asks(n[m][p], e) \/ Answers(n[p][m], e) => p \in t.quorum
      <4>1. CASE t.epoch > s.epoch
        BY <1>4, <4>1, UnheardA
      <4>2. CASE s.role = "leader" /\ t.epoch = s.epoch /\ t.quorum = s.quorum
        <5>1. PairA(n, m, p, ms[p], s)
          BY <4>2 DEF AskInv, LeadA
        <5>. QED
          BY <4>2, <5>1 DEF PairA
      <4>. QED
        BY <4>1, <4>2 DEF CollectsA
    <3>6. CASE p \in t.quorum
      <4>. DEFINE u == n[m][p]  c == n2[m][p]
      <4>1. msg \in Messages /\ p \in Rank /\ p \in t.quorum \ {m}
        BY <3>6 DEF CollectsA
      <4>1a. out[p] = <<msg>>
        BY <4>1, SendToAt, ZenonT(60)
      <4>2. c = u \o <<msg>> /\ u \in Seq(Messages) /\ msg \in Messages
        <5>. HIDE DEF out
        <5>1. c = u \o out[p] /\ u \in Seq(Messages)
          BY <1>1, <1>6, <4>1 DEF Plus, Nets
        <5>. QED
          BY <4>1, <4>1a, <5>1
      <4>. HIDE DEF c, n2
      <4>3. /\ Len(u) \in Nat /\ Len(c) = Len(u) + 1 /\ c[Len(u) + 1] = msg
            /\ \A i \in 1 .. Len(u) : c[i] = u[i] /\ i \in 1 .. Len(c)
            /\ \A i \in 1 .. Len(c) : i \in 1 .. Len(u) \/ i = Len(u) + 1
        <5>. HIDE DEF u
        <5>1. Appends(u, msg, c)
          BY <4>2, OneMore
        <5>. QED
          BY <5>1 DEF Appends
      <4>. HIDE DEF u
      <4>4. Is(msg, "COLLECT", e) /\ msg.pn = a
        BY DEF CollectsA, Is
      <4>5. AskedOnce(c, e, a)
        <5>1. ASSUME NEW i \in 1 .. Len(u), Is(c[i], "COLLECT", e)
              PROVE  /\ c[i].pn # a
                     /\ ~\A j \in 1 .. Len(c) : j > i => ~Is(c[j], "COLLECT", e)
          <6>1. c[i].pn # a
            BY <3>2, <4>3, <5>1 DEF Is, u
          <6>2. Len(u) + 1 \in 1 .. Len(c) /\ Len(u) + 1 > i
            BY <4>3
          <6>. QED
            BY <4>3, <4>4, <6>1, <6>2
        <5>2. \A j \in 1 .. Len(c) : ~(j > Len(u) + 1)
          BY <4>3
        <5>. QED
          BY <4>3, <4>4, <5>1, <5>2 DEF AskedOnce
      <4>6. AskedThen(c, e, a)
        BY <3>2, <4>3, <4>4 DEF AskedThen, Is, u
      <4>. QED
        BY <1>2, <3>1, <3>3, <3>4, <3>6, <4>5, <4>6 DEF PairA, c
    <3>7. CASE p \notin t.quorum
      <4>1. ~Asks(n[m][p], e) /\ ~Answers(n[p][m], e)
        BY <3>5, <3>7
      <4>2. Without(out[p], "COLLECT")
        BY <3>7, SendToOne DEF Without, CollectsA
      <4>3. Asks(n2[m][p], e) <=> Asks(n[m][p], e)
        BY <1>1, <1>6, <4>2, CalmPlus
      <4>. QED
        BY <3>3, <4>1, <4>3, NoPairA
    <3>. QED
      BY <3>6, <3>7
  <2>2. SilentOnes(n2, m, t) \subseteq Rank
    BY <1>4 DEF SilentOnes
  <2>3. Cardinality(SilentOnes(n2, m, t)) \in Nat
    BY <2>2, QuorumSize
  <2>4. t.num_last - 1 <= Cardinality(SilentOnes(n2, m, t))
    BY <2>3 DEF CollectsA
  <2>. QED
    BY <1>2, <2>1, <2>4 DEF LeadA, CollectsA
<1>11. t.last_pn >= s.last_pn /\ t.epoch >= s.epoch
  BY <1>4 DEF CollectsA
<1>12. \A q \in Rank : LeadA(w, n2, q)
  BY <1>9, <1>10
<1>. HIDE DEF out
<1>13. AskInv(w, n2)
  BY <1>1, <1>3, <1>6, <1>7, <1>8, <1>11, <1>12, MicroA
<1>. QED
  BY <1>13 DEF out

\* The oldest message, and the others
LEMMA PopHead ==
  ASSUME NEW n \in Nets, NEW x \in Rank, NEW m \in Rank, n[x][m] # <<>>
  PROVE  /\ Pop(n, {x}, m) \in Nets /\ Shorter(Pop(n, {x}, m), n)
         /\ Pop(n, {x}, m)[x][m] = Tail(n[x][m]) /\ Tail(n[x][m]) \in Seq(Messages)
         /\ \A p, d \in Rank : p # x \/ d # m => Pop(n, {x}, m)[p][d] = n[p][d]
         /\ n[x][m] \in Seq(Messages) /\ Len(n[x][m]) \in Nat /\ 1 \in 1 .. Len(n[x][m])
         /\ Head(n[x][m]) = n[x][m][1] /\ n[x][m][1] \in Messages
         /\ Len(Tail(n[x][m])) = Len(n[x][m]) - 1
         /\ \A i \in 1 .. Len(Tail(n[x][m])) :
              i + 1 \in 1 .. Len(n[x][m]) /\ Tail(n[x][m])[i] = n[x][m][i + 1]
<1>1. n[x][m] \in Seq(Messages)
  BY DEF Nets
<1>. DEFINE ch == n[x][m]
<1>2. /\ Tail(ch) \in Seq(Messages) /\ Len(Tail(ch)) = Len(ch) - 1 /\ Len(ch) \in Nat
      /\ Len(ch) > 0 /\ \A i \in 1 .. Len(Tail(ch)) : Tail(ch)[i] = ch[i + 1]
      /\ Head(ch) = ch[1]
  BY <1>1, EmptySeq, HeadTailProperties
<1>3. 1 \in 1 .. Len(ch) /\ \A i \in 1 .. Len(Tail(ch)) : i + 1 \in 1 .. Len(ch)
  BY <1>2
<1>4. ch[1] \in Messages
  BY <1>1, <1>3
<1>5. Pop(n, {x}, m) \in Nets /\ Shorter(Pop(n, {x}, m), n)
  BY PopShorter
<1>6. /\ Pop(n, {x}, m)[x][m] = Tail(n[x][m])
      /\ \A p, d \in Rank : p # x \/ d # m => Pop(n, {x}, m)[p][d] = n[p][d]
  BY DEF Pop
<1>. QED
  BY <1>1, <1>2, <1>3, <1>4, <1>5, <1>6

\* handle_collect
AnswersA(s, t, msg, last) ==
  /\ s.role # "leader" /\ t.role # "leader" /\ t.epoch = s.epoch /\ t.last_pn = s.last_pn
  /\ msg.op = "COLLECT" /\ msg.epoch = s.epoch
  /\ \/ msg.pn > s.accepted_pn /\ t.accepted_pn = msg.pn /\ t.stored_pn = msg.pn
     \/ t.accepted_pn = s.accepted_pn /\ t.stored_pn = s.stored_pn
  /\ last \in Messages /\ last.op = "LAST" /\ last.epoch = s.epoch /\ last.pn = t.accepted_pn

\* Peon m answers a COLLECT (handle_collect).
LEMMA AnswerA ==
  ASSUME NEW ms, NEW n, AskInv(ms, n), NEW m \in Rank, NEW t, Fit(m, t), TimersOK(t),
         NEW x \in Rank, n[x][m] # <<>>, NEW last, AnswersA(ms[m], t, Head(n[x][m]), last)
  PROVE  AskInv(Moved(ms, m, t), Plus(Pop(n, {x}, m), m, SendTo({x}, last)))
<1>. DEFINE w == Moved(ms, m, t)
            out == SendTo({x}, last)
            o == Pop(n, {x}, m)
            n2 == Plus(o, m, out)
            s == ms[m]
            msg == Head(n[x][m])
<1>1. ms \in [Rank -> Monitors] /\ n \in Nets /\ t \in Monitors /\ s \in Monitors
  BY FitFacts DEF AskInv
<1>2. w[m] = t /\ \A p \in Rank \ {m} : w[p] = ms[p]
  BY <1>1, MovedAt
<1>3. /\ o \in Nets /\ Shorter(o, n) /\ o[x][m] = Tail(n[x][m])
      /\ \A p, d \in Rank : p # x \/ d # m => o[p][d] = n[p][d]
      /\ n[x][m] \in Seq(Messages) /\ 1 \in 1 .. Len(n[x][m]) /\ msg = n[x][m][1]
      /\ msg \in Messages
  <2>1. /\ Pop(n, {x}, m) \in Nets /\ Shorter(Pop(n, {x}, m), n)
        /\ Pop(n, {x}, m)[x][m] = Tail(n[x][m])
        /\ \A p, d \in Rank : p # x \/ d # m => Pop(n, {x}, m)[p][d] = n[p][d]
    BY <1>1, PopHead, ZenonT(60)
  <2>2. /\ n[x][m] \in Seq(Messages) /\ 1 \in 1 .. Len(n[x][m])
        /\ Head(n[x][m]) = n[x][m][1] /\ n[x][m][1] \in Messages
    BY <1>1, PopHead, ZenonT(60)
  <2>. QED
    BY <2>1, <2>2
<1>4. /\ s.accepted_pn \in Nat /\ s.stored_pn \in Nat /\ s.last_pn \in Nat /\ s.epoch \in Nat
      /\ t.accepted_pn \in Nat /\ t.stored_pn \in Nat /\ msg.pn \in Nat
  BY <1>1, <1>3 DEF Monitors, Messages
<1>5. x # m /\ msg.pn % 100 = x /\ OwnPn(ms, msg.pn) /\ msg.epoch <= ms[x].epoch
  <2>1. MsgA(ms, x, m, msg)
    BY <1>3 DEF AskInv
  <2>. QED
    BY <2>1 DEF MsgA, AnswersA
<1>6. out \in [Rank -> Seq(Messages)]
  BY SendToAt DEF AnswersA
<1>7. PnsA(w, m)
  <2>1. /\ OwnPn(ms, s.stored_pn) /\ s.stored_pn <= s.accepted_pn /\ OwnPn(ms, s.accepted_pn)
        /\ s.accepted_pn <= Larger(s.stored_pn, s.last_pn)
    BY DEF AskInv, PnsA
  <2>2. t.last_pn >= s.last_pn
    BY <1>4 DEF AnswersA
  <2>3. OwnPn(w, s.stored_pn)
    BY <1>1, <1>4, <2>1, <2>2, OwnGrows
  <2>4. OwnPn(w, s.accepted_pn)
    BY <1>1, <1>4, <2>1, <2>2, OwnGrows
  <2>5. OwnPn(w, msg.pn)
    BY <1>1, <1>4, <1>5, <2>2, OwnGrows
  <2>. QED
    BY <1>2, <1>4, <2>1, <2>3, <2>4, <2>5 DEF PnsA, AnswersA, Larger
<1>8. ASSUME NEW d \in Rank, NEW i \in 1 .. Len(out[d])
      PROVE  MsgA(w, m, d, out[d][i])
  <2>1. d = x /\ out[d][i] = last
    BY SendToOne DEF AnswersA
  <2>2. OwnPn(w, t.accepted_pn)
    BY <1>2, <1>7 DEF PnsA
  <2>3. w[x] = ms[x]
    BY <1>2, <1>5
  <2>. QED
    BY <1>5, <2>1, <2>2, <2>3 DEF MsgA, AnswersA
<1>9. ASSUME NEW q \in Rank, q # m, q # x PROVE LeadA(w, n2, q)
  <2>1. Without(out[q], "LAST")
    BY <1>9, SendToOne DEF Without, AnswersA
  <2>2. /\ t.accepted_pn \in {s.accepted_pn, s.stored_pn} \/ t.accepted_pn % 100 # q
        /\ t.stored_pn = s.stored_pn \/ t.stored_pn % 100 # q
    BY <1>5, <1>9 DEF AnswersA
  <2>. HIDE DEF o, out, w
  <2>. QED
    BY <1>1, <1>3, <1>6, <1>9, <2>1, <2>2, FrameA DEF w
<1>10. LeadA(w, n2, x)
  <2>. DEFINE l == ms[x]
              e == l.epoch
              a == l.accepted_pn
              u == n[m][x]
              c == n2[m][x]
  <2>1. n2[x][m] = Tail(n[x][m])
    <3>. HIDE DEF o, out
    <3>. QED
      BY <1>3, <1>5, <1>6, PlusOther
  <2>2. c = u \o <<last>> /\ u \in Seq(Messages) /\ last \in Messages
    <3>1. last \in Messages /\ out[x] = <<last>>
      BY SendToAt DEF AnswersA
    <3>2. o[m][x] = n[m][x] /\ o[m][x] \in Seq(Messages)
      BY <1>3, <1>5 DEF Nets
    <3>. HIDE DEF o, out
    <3>3. n2[m][x] = o[m][x] \o out[x]
      BY <1>3, <1>6 DEF Plus, Nets
    <3>. QED
      BY <3>1, <3>2, <3>3
  <2>. HIDE DEF c, n2
  <2>3. /\ Answers(c, e) <=> Answers(u, e) \/ Is(last, "LAST", e)
        /\ AnswersPn(c, e, a) <=> AnswersPn(u, e, a) \/ (Is(last, "LAST", e) /\ last.pn = a)
        /\ AnsweredOnce(u, e, a) /\ (Is(last, "LAST", e) => ~AnswersPn(u, e, a)) =>
             AnsweredOnce(c, e, a)
    <3>. HIDE DEF u, e, a, l
    <3>1. Appends(u, last, c)
      BY <2>2, OneMore
    <3>. QED
      BY <3>1, OneMoreAsks
  <2>4. Suffix(Tail(n[x][m]), n[x][m]) /\ Tail(n[x][m]) \in Seq(Messages)
    BY <1>3, SuffixTail, EmptySeq
  <2>5. /\ Asks(Tail(n[x][m]), e) => Asks(n[x][m], e)
        /\ AskedOnce(n[x][m], e, a) => AskedOnce(Tail(n[x][m]), e, a)
        /\ AskedThen(n[x][m], e, a) => AskedThen(Tail(n[x][m]), e, a)
    BY <1>3, <2>4, SuffixAsk, ZenonT(60)
  <2>6. Is(last, "LAST", e) <=> s.epoch = e
    BY DEF Is, AnswersA
  <2>7. Is(msg, "COLLECT", e) <=> s.epoch = e
    BY DEF Is, AnswersA
  <2>8. s.epoch = e => Asks(n[x][m], e)
    BY <1>3, <2>7 DEF Asks
  <2>9. ASSUME l.role = "leader"
        PROVE  /\ PairA(n2, x, m, t, l)
               /\ Silent(n, x, m, e) => Silent(n2, x, m, e)
    <3>1. PairA(n, x, m, s, l)
      BY <1>5, <2>9 DEF AskInv, LeadA
    <3>2. Silent(n, x, m, e) => Silent(n2, x, m, e)
      BY <2>1, <2>3, <2>5, <2>6, <2>8 DEF Silent, c
    <3>3. Asks(n2[x][m], e) \/ Answers(n2[m][x], e) => m \in l.quorum
      BY <2>1, <2>3, <2>5, <2>6, <2>8, <3>1 DEF PairA, c
    <3>4. AskedOnce(n2[x][m], e, a)
      BY <2>1, <2>5, <3>1 DEF PairA
    <3>5. AnsweredOnce(n2[m][x], e, a)
      BY <2>3, <2>6, <2>8, <3>1 DEF PairA, c
    <3>6. ASSUME Asks(n2[x][m], e)
          PROVE  /\ t.accepted_pn # a /\ t.stored_pn # a
                 /\ ~AnswersPn(n2[m][x], e, a) /\ AskedThen(n2[x][m], e, a)
      <4>1. /\ Asks(n[x][m], e) /\ s.accepted_pn # a /\ s.stored_pn # a
            /\ ~AnswersPn(n[m][x], e, a) /\ AskedThen(n[x][m], e, a)
        BY <2>1, <2>5, <3>1, <3>6 DEF PairA
      <4>2. msg.pn # a
        <5>1. CASE s.epoch = e
          <6>1. PICK i \in 1 .. Len(Tail(n[x][m])) : Is(Tail(n[x][m])[i], "COLLECT", e)
            BY <2>1, <3>6 DEF Asks
          <6>2. i + 1 \in 1 .. Len(n[x][m]) /\ i + 1 > 1 /\ Is(n[x][m][i + 1], "COLLECT", e)
            BY <1>1, <6>1, PopHead
          <6>3. AskedOnce(n[x][m], e, a) /\ Is(n[x][m][1], "COLLECT", e)
            BY <1>3, <2>7, <3>1, <5>1 DEF PairA
          <6>. QED
            BY <1>3, <6>2, <6>3 DEF AskedOnce
        <5>2. CASE s.epoch # e
          BY <1>3, <4>1, <5>2 DEF AskedThen, AnswersA
        <5>. QED
          BY <5>1, <5>2
      <4>3. t.accepted_pn # a /\ t.stored_pn # a
        BY <4>1, <4>2 DEF AnswersA
      <4>4. ~AnswersPn(n2[m][x], e, a)
        BY <2>3, <4>1, <4>3 DEF c, AnswersA
      <4>. QED
        BY <2>1, <2>5, <4>1, <4>3, <4>4
    <3>. QED
      BY <3>2, <3>3, <3>4, <3>5, <3>6 DEF PairA
  <2>. HIDE DEF o, out, w
  <2>. QED
    BY <1>1, <1>3, <1>5, <1>6, <2>9, FrameLead DEF n2, w
<1>11. LeadA(w, n2, m)
  BY <1>2 DEF LeadA, AnswersA
<1>12. \A q \in Rank : LeadA(w, n2, q)
  BY <1>9, <1>10, <1>11
<1>13. t.last_pn >= s.last_pn /\ t.epoch >= s.epoch
  BY <1>4 DEF AnswersA
<1>. HIDE DEF out, o
<1>14. AskInv(w, n2)
  BY <1>1, <1>3, <1>6, <1>7, <1>8, <1>12, <1>13, MicroA
<1>. QED
  BY <1>14 DEF out, o

\* A leader that hears a LAST of its epoch is recovering.
LEMMA LastHeardA ==
  ASSUME NEW ms, NEW n, AskInv(ms, n), NEW m \in Rank, ms[m].role = "leader",
         NEW x \in Rank, Answers(n[x][m], ms[m].epoch)
  PROVE  /\ ms[m].state = "recovering" /\ x \in ms[m].quorum /\ x # m
         /\ PairA(n, m, x, ms[x], ms[m])
<1>1. LeadA(ms, n, m)
  BY DEF AskInv
<1>2. PICK i \in 1 .. Len(n[x][m]) : Is(n[x][m][i], "LAST", ms[m].epoch)
  BY DEF Answers
<1>3. MsgA(ms, x, m, n[x][m][i])
  BY DEF AskInv
<1>4. x # m
  BY <1>2, <1>3 DEF MsgA, Is
<1>5. PairA(n, m, x, ms[x], ms[m])
  BY <1>1, <1>4 DEF LeadA
<1>6. x \in ms[m].quorum
  BY <1>5 DEF PairA
<1>7. ~AllSilent(n, m, ms[m])
  BY <1>4, <1>6 DEF AllSilent, Silent
<1>. QED
  BY <1>1, <1>4, <1>5, <1>6, <1>7 DEF LeadA

\* The answer of x to the COLLECT under way is the last word of x.
CountsA(s, t, msg) ==
  /\ s.role = "leader" /\ t.role = "leader" /\ t.epoch = s.epoch /\ t.quorum = s.quorum
  /\ t.state = s.state /\ t.accepted_pn = s.accepted_pn /\ t.stored_pn = s.stored_pn
  /\ t.last_pn = s.last_pn /\ t.num_last = s.num_last + 1
  /\ msg.op = "LAST" /\ msg.epoch = s.epoch /\ msg.pn = s.accepted_pn

\* Once the answer to the last question is taken, nothing is on its way.
LEMMA LastWord ==
  ASSUME NEW ms, NEW n, AskInv(ms, n), NEW m \in Rank, ms[m].role = "leader",
         NEW x \in Rank, n[x][m] # <<>>, NEW msg, msg = Head(n[x][m]),
         msg.op = "LAST", msg.epoch = ms[m].epoch, msg.pn = ms[m].accepted_pn,
         NEW o, o = Pop(n, {x}, m)
  PROVE  /\ ~Silent(n, m, x, ms[m].epoch) /\ Silent(o, m, x, ms[m].epoch)
         /\ x # m /\ x \in ms[m].quorum /\ ms[m].state = "recovering"
<1>. DEFINE e == ms[m].epoch
            a == ms[m].accepted_pn
<1>0. n \in Nets
  BY DEF AskInv
<1>1. /\ o[x][m] = Tail(n[x][m])
      /\ \A p, d \in Rank : p # x \/ d # m => o[p][d] = n[p][d]
      /\ 1 \in 1 .. Len(n[x][m]) /\ msg = n[x][m][1] /\ Len(n[x][m]) \in Nat
  <2>1. /\ Pop(n, {x}, m)[x][m] = Tail(n[x][m])
        /\ \A p, d \in Rank : p # x \/ d # m => Pop(n, {x}, m)[p][d] = n[p][d]
    BY <1>0, PopHead, ZenonT(60)
  <2>2. 1 \in 1 .. Len(n[x][m]) /\ Head(n[x][m]) = n[x][m][1] /\ Len(n[x][m]) \in Nat
    BY <1>0, PopHead
  <2>. QED
    BY <2>1, <2>2
<1>2. Is(n[x][m][1], "LAST", e) /\ n[x][m][1].pn = a
  BY <1>1 DEF Is
<1>3. Answers(n[x][m], e) /\ AnswersPn(n[x][m], e, a)
  BY <1>1, <1>2 DEF Answers, AnswersPn
<1>4. ms[m].state = "recovering" /\ x \in ms[m].quorum /\ x # m /\ PairA(n, m, x, ms[x], ms[m])
  BY <1>3, LastHeardA
<1>5. ~Asks(n[m][x], e) /\ AnsweredOnce(n[x][m], e, a)
  BY <1>3, <1>4 DEF PairA
<1>6. o[m][x] = n[m][x]
  BY <1>1, <1>4
<1>7. ~Answers(o[x][m], e)
  <2>. SUFFICES ASSUME NEW i \in 1 .. Len(Tail(n[x][m])), Is(Tail(n[x][m])[i], "LAST", e)
                PROVE  FALSE
    BY <1>1 DEF Answers
  <2>1. i + 1 \in 1 .. Len(n[x][m]) /\ Tail(n[x][m])[i] = n[x][m][i + 1]
    BY <1>0, PopHead
  <2>2. i + 1 > 1
    BY <2>1
  <2>. QED
    BY <1>1, <1>2, <1>5, <2>1, <2>2 DEF AnsweredOnce
<1>. QED
  BY <1>3, <1>4, <1>5, <1>6, <1>7 DEF Silent

\* Leader m counts an answer (handle_last).
LEMMA CountA ==
  ASSUME NEW ms, NEW n, AskInv(ms, n), NEW m \in Rank, NEW t, Fit(m, t), TimersOK(t),
         NEW x \in Rank, n[x][m] # <<>>, CountsA(ms[m], t, Head(n[x][m]))
  PROVE  AskInv(Moved(ms, m, t), Pop(n, {x}, m))
<1>. DEFINE w == Moved(ms, m, t)
            o == Pop(n, {x}, m)
            s == ms[m]
            e == s.epoch
            a == s.accepted_pn
<1>1. ms \in [Rank -> Monitors] /\ n \in Nets /\ t \in Monitors /\ s \in Monitors
  BY FitFacts DEF AskInv
<1>2. w[m] = t /\ \A p \in Rank \ {m} : w[p] = ms[p]
  BY <1>1, MovedAt
<1>3. o \in Nets /\ Shorter(o, n)
  BY <1>1, PopHead
<1>4. /\ s.accepted_pn \in Nat /\ s.stored_pn \in Nat /\ s.last_pn \in Nat /\ s.epoch \in Nat
      /\ s.quorum \subseteq Rank /\ s.num_last \in Nat
  BY <1>1 DEF Monitors
<1>5. PnsA(w, m)
  <2>1. PnsA(ms, m)
    BY DEF AskInv
  <2>2. t.last_pn >= ms[m].last_pn
    BY <1>4 DEF CountsA
  <2>3. OwnPn(ms, s.accepted_pn) /\ OwnPn(ms, s.stored_pn)
    BY <2>1 DEF PnsA
  <2>4. OwnPn(w, s.accepted_pn)
    BY <1>1, <1>4, <2>2, <2>3, OwnGrows
  <2>5. OwnPn(w, s.stored_pn)
    BY <1>1, <1>4, <2>2, <2>3, OwnGrows
  <2>6. /\ w[m].accepted_pn = s.accepted_pn /\ w[m].stored_pn = s.stored_pn
        /\ w[m].last_pn = s.last_pn
    BY <1>2 DEF CountsA
  <2>. HIDE DEF w
  <2>. QED
    BY <2>1, <2>4, <2>5, <2>6 DEF PnsA
<1>6. ~Silent(n, m, x, e) /\ Silent(o, m, x, e) /\ x # m /\ x \in s.quorum
  <2>. DEFINE msg == Head(n[x][m])
  <2>1. /\ ms[m].role = "leader" /\ msg = Head(n[x][m])
        /\ msg.op = "LAST" /\ msg.epoch = ms[m].epoch /\ msg.pn = ms[m].accepted_pn
    BY DEF CountsA
  <2>1a. o = Pop(n, {x}, m)
    OBVIOUS
  <2>. HIDE DEF msg, o
  <2>2. ~Silent(n, m, x, ms[m].epoch) /\ Silent(o, m, x, ms[m].epoch)
    BY <2>1, <2>1a, LastWord
  <2>3. x # m /\ x \in ms[m].quorum
    BY <2>1, <2>1a, LastWord
  <2>. QED
    BY <2>2, <2>3
<1>7. Plus(o, m, Nothing) = o /\ Nothing \in [Rank -> Seq(Messages)]
  BY <1>3, PlusNothing DEF Nothing
<1>8. \A d \in Rank : Without(Nothing[d], "LAST") /\ Len(Nothing[d]) = 0
  BY DEF Nothing, Without
<1>. HIDE DEF o
<1>9. ASSUME NEW q \in Rank, q # m PROVE LeadA(w, o, q)
  <2>1. LeadA(w, Plus(o, m, Nothing), q)
    BY <1>1, <1>3, <1>7, <1>8, <1>9, FrameA DEF CountsA
  <2>. QED
    BY <1>7, <2>1
<1>10. LeadA(w, o, m)
  <2>1. LeadA(ms, n, m) /\ LeadA(ms, o, m) /\ s.role = "leader"
    BY <1>3, ShorterA DEF AskInv, CountsA
  <2>2. ASSUME NEW p \in Rank \ {m} PROVE PairA(o, m, p, w[p], t)
    <3>1. PairA(o, m, p, ms[p], s)
      BY <2>1 DEF LeadA
    <3>. QED
      BY <1>2, <3>1 DEF PairA, CountsA
  <2>3. ASSUME NEW p \in Rank PROVE Silent(n, m, p, e) => Silent(o, m, p, e)
    <3>1. /\ o[m][p] \in Seq(Messages) /\ o[p][m] \in Seq(Messages)
          /\ n[m][p] \in Seq(Messages) /\ n[p][m] \in Seq(Messages)
          /\ Suffix(o[m][p], n[m][p]) /\ Suffix(o[p][m], n[p][m])
      BY <1>1, <1>3 DEF Shorter, Nets
    <3>. QED
      BY <3>1, SuffixAsk DEF Silent
  <2>. DEFINE S == SilentOnes(n, m, s)
              T == SilentOnes(o, m, t)
  <2>4. S \cup {x} \subseteq T /\ x \notin S /\ S \subseteq Rank /\ T \subseteq Rank
    BY <1>4, <1>6, <2>3 DEF SilentOnes, CountsA
  <2>5. AllSilent(n, m, s) => AllSilent(o, m, t)
    BY <1>4, <2>3 DEF AllSilent, CountsA
  <2>6. s.state = "recovering" => s.num_last - 1 <= Cardinality(S)
    BY <2>1 DEF LeadA
  <2>7. s.state # "recovering" => AllSilent(n, m, s)
    BY <2>1 DEF LeadA
  <2>. HIDE DEF S, T
  <2>8. IsFiniteSet(S) /\ IsFiniteSet(T) /\ Cardinality(S) \in Nat /\ Cardinality(T) \in Nat
    BY <2>4, QuorumSize
  <2>9. Cardinality(S \cup {x}) = Cardinality(S) + 1 /\ IsFiniteSet(S \cup {x})
    BY <2>4, <2>8, FS_AddElement
  <2>10. Cardinality(S \cup {x}) <= Cardinality(T)
    BY <2>4, <2>8, FS_Subset
  <2>11. t.state = "recovering" => t.num_last - 1 <= Cardinality(T)
    BY <1>4, <2>6, <2>8, <2>9, <2>10 DEF CountsA
  <2>12. m \in t.quorum
    BY <2>1 DEF LeadA, CountsA
  <2>. QED
    BY <1>2, <2>2, <2>5, <2>7, <2>11, <2>12 DEF LeadA, CountsA, T
<1>11. ASSUME NEW q \in Rank PROVE LeadA(w, Plus(o, m, Nothing), q)
  BY <1>7, <1>9, <1>10
<1>12. \A d \in Rank : \A i \in 1 .. Len(Nothing[d]) : MsgA(w, m, d, Nothing[d][i])
  BY <1>8
<1>13. t.last_pn >= s.last_pn /\ t.epoch >= s.epoch
  BY <1>4 DEF CountsA
<1>14. AskInv(w, Plus(o, m, Nothing))
  BY <1>1, <1>3, <1>5, <1>7, <1>11, <1>12, <1>13, MicroA
<1>. QED
  BY <1>7, <1>14 DEF o

\* All of a finite set are in one of its parts that is as large.
LEMMA FullPart ==
  ASSUME NEW Q, Q \subseteq Rank, NEW m \in Q, NEW S, S \subseteq Q \ {m}, NEW k \in Nat,
         k - 1 <= Cardinality(S), k >= Cardinality(Q)
  PROVE  S = Q \ {m}
<1>1. Q \ {m} \subseteq Rank
  OBVIOUS
<1>2. /\ IsFiniteSet(Q) /\ Cardinality(Q) \in Nat
      /\ IsFiniteSet(Q \ {m}) /\ Cardinality(Q \ {m}) \in Nat
      /\ IsFiniteSet(S) /\ Cardinality(S) \in Nat
  BY <1>1, QuorumSize, FS_Subset
<1>3. Cardinality(Q \ {m}) = Cardinality(Q) - 1
  BY <1>2, FS_RemoveElement
<1>4. Cardinality(S) <= Cardinality(Q \ {m})
  BY <1>2, FS_Subset
<1>5. Cardinality(S) = Cardinality(Q \ {m})
  BY <1>2, <1>3, <1>4
<1>. QED
  BY <1>2, <1>5, FS_Subset

\* Once all of the quorum are counted, nothing more is asked or answered.
LEMMA CountedA ==
  ASSUME NEW ms, NEW n, AskInv(ms, n), NEW m \in Rank, ms[m].role = "leader",
         ms[m].state = "recovering" => ms[m].num_last >= Cardinality(ms[m].quorum)
  PROVE  AllSilent(n, m, ms[m])
<1>1. LeadA(ms, n, m) /\ ms[m] \in Monitors
  BY DEF AskInv
<1>2. CASE ms[m].state = "recovering"
  <2>. DEFINE s == ms[m]
              S == SilentOnes(n, m, s)
  <2>1. /\ s.quorum \subseteq Rank /\ m \in s.quorum /\ S \subseteq s.quorum \ {m}
        /\ s.num_last \in Nat /\ s.num_last - 1 <= Cardinality(S)
        /\ s.num_last >= Cardinality(s.quorum)
    BY <1>1, <1>2 DEF LeadA, Monitors, SilentOnes
  <2>. HIDE DEF S, s
  <2>2. S = s.quorum \ {m}
    BY <2>1, FullPart
  <2>. QED
    BY <2>2 DEF S, s, SilentOnes, AllSilent
<1>. QED
  BY <1>1, <1>2 DEF LeadA

\* The connections of m are gone: of what it sent a part may still arrive.
Cut(o, n, m) ==
  /\ o \in Nets
  /\ \A d \in Rank : Stretch(o[m][d], n[m][d], 0)
  /\ \A x \in Rank \ {m} :
       o[x][m] = <<>> /\ \A d \in Rank \ {m} : o[x][d] = n[x][d]

\* What a death leaves of a channel
LEMMA CutStretch ==
  ASSUME NEW n \in Nets, NEW m \in Rank, NEW o, Cut(o, n, m), NEW x \in Rank, NEW d \in Rank
  PROVE  /\ o[x][d] \in Seq(Messages) /\ n[x][d] \in Seq(Messages)
         /\ Stretch(o[x][d], n[x][d], 0)
<1>1. o[x][d] \in Seq(Messages) /\ n[x][d] \in Seq(Messages)
  BY DEF Cut, Nets
<1>2. CASE x = m
  BY <1>1, <1>2 DEF Cut
<1>3. CASE x # m /\ d = m
  <2>1. o[x][d] = <<>> /\ Len(n[x][d]) \in Nat
    BY <1>1, <1>3 DEF Cut
  <2>. QED
    BY <1>1, <2>1 DEF Stretch
<1>4. CASE x # m /\ d # m
  BY <1>1, <1>4 DEF Cut, Stretch
<1>. QED
  BY <1>1, <1>2, <1>3, <1>4

\* A message that a death leaves
LEMMA CutMessage ==
  ASSUME NEW n \in Nets, NEW m \in Rank, NEW o, Cut(o, n, m), NEW x \in Rank, NEW d \in Rank,
         NEW i \in 1 .. Len(o[x][d])
  PROVE  i \in 1 .. Len(n[x][d]) /\ o[x][d][i] = n[x][d][i] /\ n[x][d][i] \in Messages
<1>1. /\ o[x][d] \in Seq(Messages) /\ n[x][d] \in Seq(Messages)
      /\ Stretch(o[x][d], n[x][d], 0)
  BY CutStretch
<1>. QED
  BY <1>1 DEF Stretch

\* A monitor dies and is started again.
DiesA(s, t) ==
  /\ t.role = "out" /\ t.epoch = s.epoch /\ t.last_pn = s.last_pn
  /\ t.stored_pn = s.stored_pn /\ t.accepted_pn = s.stored_pn

\* Monitor m dies and is started again.
LEMMA DieA ==
  ASSUME NEW ms, NEW n, AskInv(ms, n), NEW m \in Rank, NEW o, Cut(o, n, m),
         NEW t, Fit(m, t), TimersOK(t), DiesA(ms[m], t)
  PROVE  AskInv(Moved(ms, m, t), o)
<1>. DEFINE w == Moved(ms, m, t)
            s == ms[m]
<1>1. /\ ms \in [Rank -> Monitors] /\ n \in Nets /\ t \in Monitors /\ s \in Monitors
      /\ o \in Nets
  BY FitFacts DEF AskInv, Cut
<1>2. w \in [Rank -> Monitors] /\ w[m] = t /\ \A p \in Rank \ {m} : w[p] = ms[p]
  BY <1>1, MovedAt
<1>3. /\ s.accepted_pn \in Nat /\ s.stored_pn \in Nat /\ s.last_pn \in Nat /\ s.epoch \in Nat
      /\ t.last_pn >= s.last_pn /\ t.epoch >= s.epoch
  BY <1>1 DEF Monitors, DiesA
<1>4. ASSUME NEW x \in Rank, NEW d \in Rank, NEW i \in 1 .. Len(o[x][d])
      PROVE  MsgA(w, x, d, o[x][d][i])
  <2>1. i \in 1 .. Len(n[x][d]) /\ o[x][d][i] = n[x][d][i] /\ n[x][d][i] \in Messages
    BY <1>1, CutMessage
  <2>2. MsgA(ms, x, d, n[x][d][i])
    BY <2>1 DEF AskInv
  <2>. QED
    BY <1>1, <1>3, <2>1, <2>2, MsgAKept
<1>5. ASSUME NEW p \in Rank PROVE Fit(p, w[p]) /\ TimersOK(w[p]) /\ PnsA(w, p)
  <2>0. PnsA(ms, p) /\ ms[p].accepted_pn \in Nat /\ ms[p].stored_pn \in Nat
    BY <1>1 DEF AskInv, Monitors
  <2>1. OwnPn(w, ms[p].accepted_pn) /\ OwnPn(w, ms[p].stored_pn)
    <3>1. OwnPn(ms, ms[p].accepted_pn) /\ OwnPn(ms, ms[p].stored_pn)
      BY <2>0 DEF PnsA
    <3>. QED
      BY <1>1, <1>3, <2>0, <3>1, OwnGrows
  <2>2. CASE p = m
    <3>1. /\ w[p].accepted_pn = s.stored_pn /\ w[p].stored_pn = s.stored_pn
          /\ w[p].last_pn \in Nat
      BY <1>1, <1>2, <2>2 DEF DiesA, Monitors
    <3>2. OwnPn(w, s.stored_pn)
      BY <2>1, <2>2
    <3>. HIDE DEF w
    <3>3. PnsA(w, p)
      BY <1>3, <3>1, <3>2 DEF PnsA, Larger
    <3>. QED
      BY <1>2, <2>2, <3>3
  <2>3. CASE p # m
    <3>1. w[p] = ms[p]
      BY <1>2, <2>3
    <3>2. Fit(p, ms[p]) /\ TimersOK(ms[p])
      BY DEF AskInv
    <3>. HIDE DEF w
    <3>. QED
      BY <2>0, <2>1, <3>1, <3>2 DEF PnsA
  <2>. QED
    BY <2>2, <2>3
<1>6. ASSUME NEW q \in Rank PROVE LeadA(w, o, q)
  <2>1. CASE q = m
    BY <1>2, <2>1 DEF LeadA, DiesA
  <2>2. CASE q # m
    <3>. DEFINE l == ms[q]
                e == l.epoch
    <3>1. w[q] = l /\ LeadA(ms, n, q) /\ l \in Monitors
      BY <1>1, <1>2, <2>2 DEF AskInv
    <3>. SUFFICES ASSUME l.role = "leader" PROVE LeadA(w, o, q)
      BY <3>1 DEF LeadA
    <3>2. ASSUME NEW p \in Rank PROVE Silent(n, q, p, e) => Silent(o, q, p, e)
      <4>1. /\ o[q][p] \in Seq(Messages) /\ n[q][p] \in Seq(Messages)
            /\ Stretch(o[q][p], n[q][p], 0)
        BY <1>1, CutStretch
      <4>2. /\ o[p][q] \in Seq(Messages) /\ n[p][q] \in Seq(Messages)
            /\ Stretch(o[p][q], n[p][q], 0)
        BY <1>1, CutStretch
      <4>. HIDE DEF e, l
      <4>3. Asks(o[q][p], e) => Asks(n[q][p], e)
        BY <4>1, StretchAsk
      <4>4. Answers(o[p][q], e) => Answers(n[p][q], e)
        BY <4>2, StretchAsk
      <4>. QED
        BY <4>3, <4>4 DEF Silent
    <3>3. ASSUME NEW p \in Rank \ {q} PROVE PairA(o, q, p, w[p], l)
      <4>1. PairA(n, q, p, ms[p], l)
        BY <3>1 DEF LeadA
      <4>2. CASE p = m
        <5>1. o[q][m] = <<>>
          BY <2>2 DEF Cut
        <5>2. ~Asks(o[q][m], e) /\ AskedOnce(o[q][m], e, l.accepted_pn)
          BY <5>1 DEF Asks, AskedOnce
        <5>3. /\ o[m][q] \in Seq(Messages) /\ n[m][q] \in Seq(Messages)
              /\ Stretch(o[m][q], n[m][q], 0)
          BY <1>1, CutStretch
        <5>4. /\ Answers(o[m][q], e) => Answers(n[m][q], e)
              /\ AnsweredOnce(n[m][q], e, l.accepted_pn) => AnsweredOnce(o[m][q], e, l.accepted_pn)
          BY <5>3, StretchAsk
        <5>. QED
          BY <4>1, <4>2, <5>2, <5>4 DEF PairA
      <4>3. CASE p # m
        <5>1. o[q][p] = n[q][p] /\ o[p][q] = n[p][q] /\ w[p] = ms[p]
          BY <1>2, <2>2, <4>3 DEF Cut
        <5>. QED
          BY <4>1, <5>1 DEF PairA
      <4>. QED
        BY <4>2, <4>3
    <3>. DEFINE S == SilentOnes(n, q, l)
                T == SilentOnes(o, q, l)
    <3>4. /\ S \subseteq T /\ T \subseteq Rank /\ l.num_last \in Nat
          /\ AllSilent(n, q, l) => AllSilent(o, q, l)
      BY <3>1, <3>2 DEF SilentOnes, AllSilent, Monitors
    <3>5. l.state = "recovering" => l.num_last - 1 <= Cardinality(S)
      BY <3>1 DEF LeadA
    <3>. HIDE DEF S, T, l
    <3>6. Cardinality(S) <= Cardinality(T) /\ Cardinality(S) \in Nat /\ Cardinality(T) \in Nat
      <4>1. IsFiniteSet(T)
        BY <3>4, QuorumSize
      <4>. QED
        BY <3>4, <4>1, FS_Subset, FS_CardinalityType
    <3>7. l.state = "recovering" => l.num_last - 1 <= Cardinality(T)
      BY <3>4, <3>5, <3>6
    <3>. QED
      BY <3>1, <3>3, <3>4, <3>7 DEF LeadA, l, T
  <2>. QED
    BY <2>1, <2>2
<1>. QED
  BY <1>1, <1>2, <1>4, <1>5, <1>6 DEF AskInv

\* A monitor that is alone leads.
LEMMA AloneA ==
  ASSUME NEW ms, NEW n, AskInv(ms, n), NEW m \in Rank, N = 1, NEW t, Fit(m, t), TimersOK(t),
         t.epoch >= ms[m].epoch, t.last_pn = ms[m].last_pn, t.stored_pn = ms[m].stored_pn,
         t.accepted_pn = ms[m].accepted_pn, m \in t.quorum, t.state # "recovering"
  PROVE  AskInv(Moved(ms, m, t), n)
<1>. DEFINE w == Moved(ms, m, t)
            s == ms[m]
<1>1. ms \in [Rank -> Monitors] /\ n \in Nets /\ t \in Monitors /\ s \in Monitors
  BY FitFacts DEF AskInv
<1>2. w[m] = t /\ Rank = {m}
  BY <1>1, MovedAt DEF Rank
<1>3. Shorter(n, n)
  BY <1>1, SuffixSame DEF Shorter, Nets
<1>4. /\ s.accepted_pn \in Nat /\ s.stored_pn \in Nat /\ s.last_pn \in Nat
      /\ t.last_pn >= s.last_pn /\ t.quorum \subseteq Rank
  BY <1>1 DEF Monitors
<1>5. PnsA(w, m)
  <2>1. PnsA(ms, m)
    BY DEF AskInv
  <2>2. OwnPn(ms, s.accepted_pn) /\ OwnPn(ms, s.stored_pn)
    BY <2>1 DEF PnsA
  <2>3. OwnPn(w, s.accepted_pn) /\ OwnPn(w, s.stored_pn)
    BY <1>1, <1>4, <2>2, OwnGrows
  <2>4. /\ w[m].accepted_pn = s.accepted_pn /\ w[m].stored_pn = s.stored_pn
        /\ w[m].last_pn = s.last_pn
    BY <1>2
  <2>. HIDE DEF w
  <2>. QED
    BY <2>1, <2>3, <2>4 DEF PnsA
<1>6. Plus(n, m, Nothing) = n /\ Nothing \in [Rank -> Seq(Messages)]
  BY <1>1, PlusNothing DEF Nothing
<1>7. \A d \in Rank : \A i \in 1 .. Len(Nothing[d]) : MsgA(w, m, d, Nothing[d][i])
  BY DEF Nothing
<1>8. ASSUME NEW q \in Rank PROVE LeadA(w, n, q)
  <2>1. AllSilent(n, m, t) /\ Rank \ {m} = {} /\ q = m
    BY <1>2, <1>4 DEF AllSilent
  <2>. HIDE DEF w
  <2>. QED
    BY <1>2, <2>1 DEF LeadA
<1>9. \A q \in Rank : LeadA(w, Plus(n, m, Nothing), q)
  BY <1>6, <1>8
<1>10. AskInv(w, Plus(n, m, Nothing))
  BY <1>1, <1>3, <1>4, <1>5, <1>6, <1>7, <1>9, MicroA
<1>. QED
  BY <1>6, <1>10

(***************************************************************************)
(* Votes: what a store that remembers its promises has voted for.           *)
(***************************************************************************)

\* p has stored x as version v under number b.
Vote(p, v, b, x) == [p |-> p, v |-> v, pn |-> b, x |-> x]

\* The highest number m is bound to: by a promise, or by a value it stored
Bound(s) == Larger(s.stored_pn, s.pending_pn)

\* p has not voted for version v under b.
NoVote(H, p, v, b) == \A h \in H : ~(h.p = p /\ h.v = v /\ h.pn = b)

\* Those that have voted for x
Voters(H, v, b, x) == {p \in Rank : Vote(p, v, b, x) \in H}

\* Those that voted for x, or never will for anything else
Backers(H, ms, v, b, x) ==
  {p \in Rank : \/ Vote(p, v, b, x) \in H
                \/ Bound(ms[p]) > b /\ NoVote(H, p, v, b)}

\* Nothing but x can have been chosen under a smaller number.
Safe(H, ms, v, b, x) == \A c \in 0 .. b - 1 : Majority(Backers(H, ms, v, c, x))

\* The trim of x leaves nothing that the versions before v have trimmed.
Later(K, v, x) == x.trim > 0 => \A c \in K : c.v < v => c.value.trim <= x.trim

\* A vote: its voter remembers it until the version is committed, its number was
\* written down, and nothing else can be chosen under a smaller one.
VoteOK(H, K, ms, h) ==
  /\ h.v > 0 /\ h.pn > 0
  /\ h.pn <= ms[h.p].pending_pn
  /\ h.v <= ms[h.p].last_committed + 1
  /\ h.v = ms[h.p].last_committed + 1 => ms[h.p].pending_v = h.v
  /\ OwnPn(ms, h.pn)
  /\ Safe(H, ms, h.v, h.pn, h.x)
  /\ Later(K, h.v, h.x)

\* The votes
VoteType == [p: Rank, v: Nat, pn: Nat, x: Value]

\* Under one number there is one value for a version.
OneValue(H) == \A h, k \in H : h.v = k.v /\ h.pn = k.pn => h.x = k.x

\* The store has every version from first_committed to last_committed, and at
\* most one more, which is the pending one.
Whole(s) ==
  /\ \A v \in s.first_committed .. s.last_committed : v = 0 \/ v \in DOMAIN s.log
  /\ \A v \in DOMAIN s.log : s.first_committed <= v /\ v <= s.last_committed + 1
  /\ s.last_committed + 1 \in DOMAIN s.log => s.pending_v = s.last_committed + 1

\* What the store of s has is committed, and it has been trimmed as it says.
Stored(K, s) ==
  /\ \A v \in DOMAIN s.log : v <= s.last_committed => [v |-> v, value |-> s.log[v]] \in K
  /\ \A v \in 1 .. s.last_committed : \E c \in K : c.v = v
  /\ \A c \in K : c.v <= s.last_committed => c.value.trim <= s.first_committed
  /\ \/ s.first_committed <= 1
     \/ \E c \in K : c.v <= s.last_committed /\ c.value.trim = s.first_committed

\* A restart may leave a monitor with a value stored under a number above the one
\* it has promised.  What is left is that it was a number of its own, which it does
\* not use again: when it leads, its promise covers what it has stored.
PromiseOK(s) ==
  N > 1 => /\ s.pending_pn <= Larger(s.stored_pn, s.last_pn)
           /\ s.role = "leader" => s.pending_pn <= s.accepted_pn

\* A store, and the vote it remembers
MonB(H, K, m, s) ==
  /\ Whole(s) /\ Stored(K, s)
  /\ PromiseOK(s)
  /\ N > 1 /\ s.pending_v > s.last_committed =>
       Vote(m, s.pending_v, s.pending_pn, s.log[s.pending_v]) \in H

\* What is committed: one value for a version, and trims that only go up
Chosen(H, K, ms) ==
  /\ K \subseteq [v: Nat \ {0}, value: Value]
  /\ \A c, d \in K : c.v = d.v => c = d
  /\ \A c \in K : Later(K, c.v, c.value)
  /\ \A c \in K : IF N = 1 THEN \A m \in Rank : c.v <= ms[m].last_committed
                  ELSE \E b \in Nat : Majority(Voters(H, c.v, b, c.value))

\* The versions of a message that carries some, top the last
Carries(K, msg, top) ==
  \A v \in DOMAIN msg.values :
    /\ v <= top
    /\ \A w \in v .. msg.lc : w \in DOMAIN msg.values
    /\ v <= msg.lc => [v |-> v, value |-> msg.values[v]] \in K

\* What a message carries is committed, or was voted for.
MsgB(H, K, ms, x, d, msg) ==
  /\ msg.op = "COMMIT" => Carries(K, msg, msg.lc)
  /\ msg.op = "LAST" =>
       /\ Carries(K, msg, msg.lc + 1)
       /\ msg.upn > 0 =>
            /\ msg.lc + 1 \in DOMAIN msg.values
            /\ \E h \in H : h.v = msg.lc + 1 /\ h.pn = msg.upn /\ h.x = msg.values[msg.lc + 1]
  /\ msg.op = "BEGIN" =>
       /\ msg.epoch <= ms[x].epoch /\ msg.lc + 1 \in DOMAIN msg.values
       /\ Vote(x, msg.lc + 1, msg.pn, msg.values[msg.lc + 1]) \in H
  /\ msg.op = "ACCEPT" => msg.epoch <= ms[d].epoch

\* What the answer of p, with state t, tells leader s
LastB(H, s, p, t, msg) ==
  /\ t.stored_pn >= s.accepted_pn
  /\ \A v \in s.last_committed + 1 .. msg.lc : v >= msg.fc => v \in DOMAIN msg.values
  /\ \A h \in H : h.p = p /\ h.pn < s.accepted_pn =>
       /\ h.v <= msg.lc + 1
       /\ h.v = msg.lc + 1 /\ msg.lc >= s.last_committed => h.pn <= msg.upn

\* Leader s has heard of all that p voted for under smaller numbers.
Reported(H, s, p) ==
  \A h \in H : h.p = p /\ h.pn < s.accepted_pn /\ h.v > s.last_committed =>
     /\ h.v = s.last_committed + 1 /\ s.uncommitted.v = h.v
     /\ h.pn <= s.uncommitted.pn

\* Those of the quorum that answered leader m, are bound by it and have told it
\* what they have voted for
Heeded(H, ms, n, m) ==
  {p \in SilentOnes(n, m, ms[m]) :
     Bound(ms[p]) >= ms[m].accepted_pn /\ Reported(H, ms[m], p)}

\* A round is under way.
Updating(s) == s.state \in {"updating", "updating-previous"}

\* What a BEGIN or ACCEPT under way between leader s and p says
Works(s, p, msg) ==
  /\ Updating(s) /\ msg.pn = s.accepted_pn /\ msg.lc = s.last_committed
  /\ p \in s.quorum \ s.accepted

\* What is on its way between leader m, with state s, and p, with state t
PairB(H, n, m, p, t, s) ==
  /\ \A i \in 1 .. Len(n[m][p]) :
       Is(n[m][p][i], "COLLECT", s.epoch) /\ n[m][p][i].pn = s.accepted_pn =>
         n[m][p][i].lc <= s.last_committed
  /\ \A i \in 1 .. Len(n[p][m]) :
       Is(n[p][m][i], "LAST", s.epoch) /\ n[p][m][i].pn = s.accepted_pn =>
         LastB(H, s, p, t, n[p][m][i])
  /\ \A i \in 1 .. Len(n[m][p]) : Is(n[m][p][i], "BEGIN", s.epoch) =>
       /\ Works(s, p, n[m][p][i])
       /\ \A j \in 1 .. Len(n[p][m]) : ~Is(n[p][m][j], "ACCEPT", s.epoch)
       /\ \A j \in 1 .. Len(n[m][p]) : Is(n[m][p][j], "BEGIN", s.epoch) => j = i
  /\ \A i \in 1 .. Len(n[p][m]) : Is(n[p][m][i], "ACCEPT", s.epoch) =>
       /\ Works(s, p, n[p][m][i])
       /\ Vote(p, s.last_committed + 1, s.accepted_pn, s.new_value) \in H
       /\ \A j \in 1 .. Len(n[p][m]) : Is(n[p][m][j], "ACCEPT", s.epoch) => j = i

\* The leader has a value it has not committed.
InRound(s) == s.state \notin {"recovering", "active"}

\* The last version a leader has a value for
Reach(s) == s.last_committed + (IF InRound(s) THEN 1 ELSE 0)

\* A leader: while it recovers it knows what those that answered have voted for;
\* then its quorum is bound by its number; in a round, those that accepted voted.
LeadB(H, K, ms, n, m) ==
  ms[m].role = "leader" =>
    /\ Majority(ms[m].quorum)
    /\ N = 1 /\ InRound(ms[m]) => Later(K, ms[m].last_committed + 1, ms[m].new_value)
    /\ N > 1 =>
         /\ ms[m].accepted_pn > 0
         /\ \A p \in Rank \ {m} : PairB(H, n, m, p, ms[p], ms[m])
         /\ \A h \in H : h.pn = ms[m].accepted_pn => h.v <= Reach(ms[m])
         /\ ms[m].state = "recovering" =>
              /\ ms[m].num_last - 1 <= Cardinality(Heeded(H, ms, n, m))
              /\ Reported(H, ms[m], m)
              /\ ms[m].uncommitted.v \in {0, ms[m].last_committed + 1}
              /\ ms[m].uncommitted.v = 0 => ms[m].uncommitted.pn = 0
              /\ ms[m].uncommitted.v > 0 =>
                   \E h \in H : /\ h.v = ms[m].uncommitted.v /\ h.pn = ms[m].uncommitted.pn
                                /\ h.x = ms[m].uncommitted.value
         /\ ms[m].state # "recovering" =>
              \A p \in ms[m].quorum :
                /\ p # m => Bound(ms[p]) >= ms[m].accepted_pn
                /\ \A h \in H : h.p = p /\ h.pn < ms[m].accepted_pn => h.v <= Reach(ms[m])
         /\ InRound(ms[m]) =>
              /\ m \in ms[m].accepted
              /\ \A p \in ms[m].accepted :
                   Vote(p, ms[m].last_committed + 1, ms[m].accepted_pn, ms[m].new_value) \in H
              /\ IsWriting(ms[m]) => ms[m].accepted = ms[m].quorum

\* H: the votes, K: what is committed, ms: the monitors, n: the channels
Core(H, K, ms, n) ==
  /\ N > 1 => H \subseteq VoteType /\ OneValue(H) /\ \A h \in H : VoteOK(H, K, ms, h)
  /\ \A m \in Rank : MonB(H, K, m, ms[m])
  /\ Chosen(H, K, ms)
  /\ \A x, d \in Rank : \A i \in 1 .. Len(n[x][d]) : MsgB(H, K, ms, x, d, n[x][d][i])
  /\ \A m \in Rank : LeadB(H, K, ms, n, m)

-----------------------------------------------------------------------------
\* What a step of m from s to t may do to the store
Advances(s, t) ==
  /\ t.stored_pn >= s.stored_pn /\ (N > 1 => t.pending_pn >= s.pending_pn)
  /\ t.last_pn >= s.last_pn /\ t.epoch >= s.epoch
  /\ \/ t.last_committed > s.last_committed
     \/ /\ t.last_committed = s.last_committed
        /\ t.pending_v \in {s.pending_v, s.last_committed + 1}

\* The votes m adds are under numbers it is not bound against, its own ones or those
\* of a vote for the same value.
Casts(H, G, m, s) ==
  /\ H \subseteq G
  /\ \A h \in G \ H : /\ h.p = m /\ h.pn >= Bound(s)
                      /\ h.pn % 100 = m \/ \E k \in H : k.v = h.v /\ k.pn = h.pn

\* What is new in L is beyond what anyone has committed.
Commits(G, K, L, ms, w) ==
  /\ K \subseteq L /\ L \subseteq [v: Nat \ {0}, value: Value]
  /\ \A c \in L \ K :
       /\ \A p \in Rank : ms[p].last_committed < c.v
       /\ \A d \in L : d.v = c.v => d = c
       /\ Later(L, c.v, c.value)
       /\ IF N = 1 THEN \A p \in Rank : c.v <= w[p].last_committed
          ELSE \E b \in Nat : Majority(Voters(G, c.v, b, c.value))

\* The fields of a vote
LEMMA VoteFields ==
  ASSUME NEW p, NEW v, NEW b, NEW x
  PROVE  /\ Vote(p, v, b, x).p = p /\ Vote(p, v, b, x).v = v
         /\ Vote(p, v, b, x).pn = b /\ Vote(p, v, b, x).x = x
  BY DEF Vote

\* A vote is its fields.
LEMMA VoteIs ==
  ASSUME NEW h \in VoteType
  PROVE  /\ h = Vote(h.p, h.v, h.pn, h.x) /\ h.p \in Rank /\ h.v \in Nat /\ h.pn \in Nat
         /\ h.x \in Value
  BY DEF Vote, VoteType

\* The number a store is bound to
LEMMA BoundIs ==
  ASSUME NEW s \in Monitors
  PROVE  /\ Bound(s) \in Nat /\ Bound(s) >= s.stored_pn /\ Bound(s) >= s.pending_pn
         /\ Bound(s) \in {s.stored_pn, s.pending_pn}
         /\ s.stored_pn \in Nat /\ s.pending_pn \in Nat
  BY DEF Bound, Larger, Monitors

\* A store is never bound less than before.
LEMMA BoundGrows ==
  ASSUME NEW s \in Monitors, NEW t \in Monitors, Advances(s, t), N > 1
  PROVE  Bound(t) >= Bound(s)
  BY DEF Bound, Larger, Monitors, Advances

\* Two majorities have a monitor in common.
LEMMA Intersect ==
  ASSUME NEW P, NEW Q, P \subseteq Rank, Q \subseteq Rank, Majority(P), Majority(Q)
  PROVE  \E p \in Rank : p \in P /\ p \in Q
<1>1. IsFiniteSet(Rank) /\ Cardinality(Rank) = N
  BY NAssumption, FS_Interval DEF Rank
<1>2. /\ IsFiniteSet(P) /\ Cardinality(P) \in Nat /\ IsFiniteSet(Q) /\ Cardinality(Q) \in Nat
  BY QuorumSize
<1>3. Cardinality(P) + Cardinality(Q) > Cardinality(Rank)
  BY <1>1, <1>2, NAssumption DEF Majority
<1>4. P \cap Q # {}
  BY <1>1, <1>3, FS_MajoritiesIntersect
<1>. QED
  BY <1>4

\* More than a majority is a majority.
LEMMA MajorityGrows ==
  ASSUME NEW P, NEW Q, P \subseteq Q, Q \subseteq Rank, Majority(P)
  PROVE  Majority(Q)
<1>1. /\ IsFiniteSet(P) /\ Cardinality(P) \in Nat /\ IsFiniteSet(Q) /\ Cardinality(Q) \in Nat
  BY QuorumSize
<1>2. Cardinality(P) <= Cardinality(Q)
  BY <1>1, FS_Subset
<1>. QED
  BY <1>1, <1>2, NAssumption DEF Majority

\* A majority is not empty.
LEMMA SomeOne ==
  ASSUME NEW P, P \subseteq Rank, Majority(P)
  PROVE  \E p \in Rank : p \in P
  BY Intersect

\* Who backs x, by a vote or by being bound, does so for ever.
LEMMA BackersGrow ==
  ASSUME NEW ms \in [Rank -> Monitors], NEW m \in Rank, NEW t \in Monitors, Advances(ms[m], t),
         NEW H, NEW G, Casts(H, G, m, ms[m]), G \subseteq VoteType,
         NEW v \in Nat, NEW b \in Nat, NEW x, N > 1
  PROVE  Backers(H, ms, v, b, x) \subseteq Backers(G, Moved(ms, m, t), v, b, x)
<1>. SUFFICES ASSUME NEW p \in Rank, p \in Backers(H, ms, v, b, x)
              PROVE  p \in Backers(G, Moved(ms, m, t), v, b, x)
  BY DEF Backers
<1>1. H \subseteq G
  BY DEF Casts
<1>2. CASE Vote(p, v, b, x) \in H
  BY <1>1, <1>2 DEF Backers
<1>3. CASE Bound(ms[p]) > b /\ NoVote(H, p, v, b)
  <2>1. Bound(Moved(ms, m, t)[p]) > b
    <3>1. CASE p = m
      <4>1. Moved(ms, m, t)[p] = t
        BY <3>1, MovedAt
      <4>2. Bound(t) >= Bound(ms[m]) /\ Bound(t) \in Nat /\ Bound(ms[m]) \in Nat
        BY BoundGrows, BoundIs
      <4>. QED
        BY <1>3, <3>1, <4>1, <4>2
    <3>2. CASE p # m
      BY <1>3, <3>2, MovedAt
    <3>. QED
      BY <3>1, <3>2
  <2>2. NoVote(G, p, v, b)
    <3>. SUFFICES ASSUME NEW h \in G, h.p = p, h.v = v, h.pn = b PROVE FALSE
      BY DEF NoVote
    <3>1. h \notin H
      BY <1>3 DEF NoVote
    <3>2. p = m /\ b >= Bound(ms[m])
      BY <3>1 DEF Casts
    <3>3. Bound(ms[m]) \in Nat
      BY BoundIs
    <3>. QED
      BY <1>3, <3>2, <3>3
  <2>. QED
    BY <2>1, <2>2 DEF Backers
<1>. QED
  BY <1>2, <1>3 DEF Backers

\* What is safe stays safe.
LEMMA SafeGrows ==
  ASSUME NEW ms \in [Rank -> Monitors], NEW m \in Rank, NEW t \in Monitors, Advances(ms[m], t),
         NEW H, NEW G, Casts(H, G, m, ms[m]), G \subseteq VoteType,
         NEW v \in Nat, NEW b \in Nat, NEW x, Safe(H, ms, v, b, x), N > 1
  PROVE  Safe(G, Moved(ms, m, t), v, b, x)
<1>. SUFFICES ASSUME NEW c \in 0 .. b - 1 PROVE Majority(Backers(G, Moved(ms, m, t), v, c, x))
  BY DEF Safe
<1>1. c \in Nat /\ Majority(Backers(H, ms, v, c, x))
  BY DEF Safe
<1>2. Backers(H, ms, v, c, x) \subseteq Backers(G, Moved(ms, m, t), v, c, x)
  BY <1>1, BackersGrow
<1>3. Backers(G, Moved(ms, m, t), v, c, x) \subseteq Rank
  BY DEF Backers
<1>. QED
  BY <1>1, <1>2, <1>3, MajorityGrows

\* What is committed later does not trim less.
LEMMA LaterKept ==
  ASSUME NEW ms \in [Rank -> Monitors], NEW G, NEW K, NEW L, NEW w, Commits(G, K, L, ms, w),
         NEW p \in Rank, NEW v \in Nat, v <= ms[p].last_committed + 1, NEW x, Later(K, v, x)
  PROVE  Later(L, v, x)
<1>. SUFFICES ASSUME x.trim > 0, NEW c \in L, c.v < v PROVE c.value.trim <= x.trim
  BY DEF Later
<1>1. ms[p].last_committed \in Nat /\ c.v \in Nat
  BY DEF Monitors, Commits
<1>2. c \in K
  BY <1>1 DEF Commits
<1>. QED
  BY <1>2 DEF Later

\* A vote stays a good one.
LEMMA VoteKept ==
  ASSUME NEW ms \in [Rank -> Monitors], NEW m \in Rank, NEW t \in Monitors, Advances(ms[m], t),
         NEW H, NEW G, Casts(H, G, m, ms[m]), G \subseteq VoteType, NEW K, NEW L,
         Commits(G, K, L, ms, Moved(ms, m, t)), NEW h \in H, VoteOK(H, K, ms, h), N > 1
  PROVE  VoteOK(G, L, Moved(ms, m, t), h)
<1>. DEFINE w == Moved(ms, m, t)
<1>1. h \in VoteType /\ h.p \in Rank /\ h.v \in Nat /\ h.pn \in Nat
  BY VoteIs DEF Casts
<1>2. /\ ms[h.p].pending_pn \in Nat /\ ms[h.p].last_committed \in Nat /\ t.pending_pn \in Nat
      /\ t.last_committed \in Nat /\ ms[m].last_pn \in Nat
  BY <1>1 DEF Monitors
<1>3. Safe(G, w, h.v, h.pn, h.x)
  BY <1>1, SafeGrows DEF VoteOK
<1>4. Later(L, h.v, h.x)
  BY <1>1, LaterKept DEF VoteOK
<1>5. OwnPn(w, h.pn)
  BY <1>1, OwnGrows DEF VoteOK, Advances
<1>6. /\ h.pn <= w[h.p].pending_pn /\ h.v <= w[h.p].last_committed + 1
      /\ h.v = w[h.p].last_committed + 1 => w[h.p].pending_v = h.v
  <2>1. CASE h.p = m
    <3>1. w[h.p] = t
      BY <2>1, MovedAt
    <3>. HIDE DEF w
    <3>. QED
      BY <1>1, <1>2, <2>1, <3>1 DEF VoteOK, Advances
  <2>2. CASE h.p # m
    <3>1. w[h.p] = ms[h.p]
      BY <1>1, <2>2, MovedAt
    <3>. HIDE DEF w
    <3>. QED
      BY <3>1 DEF VoteOK
  <2>. QED
    BY <2>1, <2>2
<1>. QED
  BY <1>3, <1>4, <1>5, <1>6 DEF VoteOK

(***************************************************************************)
(* What one monitor does leaves what the others have said and stored as it  *)
(* was.                                                                     *)
(***************************************************************************)

\* Those that do not move have what they had.
LEMMA MonKept ==
  ASSUME NEW ms \in [Rank -> Monitors], NEW H, NEW G, H \subseteq G, NEW K, NEW L, NEW w,
         Commits(G, K, L, ms, w), NEW p \in Rank, MonB(H, K, p, ms[p])
  PROVE  MonB(G, L, p, ms[p])
<1>. DEFINE s == ms[p]
<1>1. s.last_committed \in Nat
  BY DEF Monitors
<1>2. K \subseteq L /\ \A c \in L : c.v <= s.last_committed => c \in K
  <2>1. K \subseteq L
    BY DEF Commits
  <2>2. ASSUME NEW c \in L, c.v <= s.last_committed, c \notin K PROVE FALSE
    <3>1. s.last_committed < c.v /\ c.v \in Nat
      BY <2>2 DEF Commits
    <3>. QED
      BY <1>1, <2>2, <3>1
  <2>. QED
    BY <2>1, <2>2
<1>3. Stored(L, s)
  BY <1>2 DEF Stored, MonB
<1>. QED
  BY <1>3 DEF MonB

\* What is committed stays committed.
LEMMA ChosenKept ==
  ASSUME NEW ms \in [Rank -> Monitors], NEW m \in Rank, NEW t \in Monitors, Advances(ms[m], t),
         NEW H, NEW G, H \subseteq G, NEW K, NEW L, Commits(G, K, L, ms, Moved(ms, m, t)),
         Chosen(H, K, ms), N > 1 => H \subseteq VoteType /\ \A h \in H : VoteOK(H, K, ms, h)
  PROVE  Chosen(G, L, Moved(ms, m, t))
<1>. DEFINE w == Moved(ms, m, t)
<1>1. K \subseteq L /\ L \subseteq [v: Nat \ {0}, value: Value]
  BY DEF Commits
<1>2. ASSUME NEW c \in L, NEW d \in L, c.v = d.v PROVE c = d
  <2>1. CASE c \in K /\ d \in K
    BY <1>2, <2>1 DEF Chosen
  <2>2. CASE c \notin K
    BY <1>2, <2>2 DEF Commits
  <2>3. CASE d \notin K
    BY <1>2, <2>3 DEF Commits
  <2>. QED
    BY <2>1, <2>2, <2>3
<1>3. ASSUME NEW c \in K PROVE \E p \in Rank : c.v <= ms[p].last_committed + 1
  <2>0. c.v \in Nat /\ \A p \in Rank : ms[p].last_committed \in Nat
    BY <1>1 DEF Monitors
  <2>1. CASE N = 1
    <3>1. c.v <= ms[m].last_committed
      BY <2>1 DEF Chosen
    <3>. QED
      BY <2>0, <3>1
  <2>2. CASE N # 1
    <3>1. PICK b \in Nat : Majority(Voters(H, c.v, b, c.value))
      BY <2>2 DEF Chosen
    <3>2. Voters(H, c.v, b, c.value) \subseteq Rank
      BY DEF Voters
    <3>3. PICK p \in Rank : p \in Voters(H, c.v, b, c.value)
      BY <3>1, <3>2, SomeOne
    <3>4. Vote(p, c.v, b, c.value) \in H
      BY <3>3 DEF Voters
    <3>5. VoteOK(H, K, ms, Vote(p, c.v, b, c.value))
      BY <2>2, <3>4, NAssumption
    <3>. QED
      BY <3>5, VoteFields DEF VoteOK
  <2>. QED
    BY <2>1, <2>2
<1>4. ASSUME NEW c \in L PROVE Later(L, c.v, c.value)
  <2>1. CASE c \in K
    <3>1. Later(K, c.v, c.value) /\ c.v \in Nat
      BY <1>1, <2>1 DEF Chosen
    <3>2. PICK p \in Rank : c.v <= ms[p].last_committed + 1
      BY <1>3, <2>1
    <3>. QED
      BY <3>1, <3>2, LaterKept
  <2>2. CASE c \notin K
    BY <2>2 DEF Commits
  <2>. QED
    BY <2>1, <2>2
<1>5. ASSUME NEW c \in L
      PROVE  IF N = 1 THEN \A p \in Rank : c.v <= w[p].last_committed
             ELSE \E b \in Nat : Majority(Voters(G, c.v, b, c.value))
  <2>1. CASE c \notin K
    BY <2>1 DEF Commits
  <2>2. CASE c \in K /\ N = 1
    <3>1. ASSUME NEW p \in Rank PROVE c.v <= w[p].last_committed
      <4>1. c.v \in Nat /\ ms[p].last_committed \in Nat /\ t.last_committed \in Nat
        BY <1>1 DEF Monitors
      <4>2. c.v <= ms[p].last_committed
        BY <2>2 DEF Chosen
      <4>3. CASE p = m
        <5>1. t.last_committed >= ms[p].last_committed
          BY <4>1, <4>3 DEF Advances
        <5>2. w[p] = t
          BY <4>3, MovedAt
        <5>. QED
          BY <4>1, <4>2, <5>1, <5>2
      <4>4. CASE p # m
        BY <4>2, <4>4, MovedAt
      <4>. QED
        BY <4>3, <4>4
    <3>. QED
      BY <2>2, <3>1
  <2>3. CASE c \in K /\ N # 1
    <3>1. PICK b \in Nat : Majority(Voters(H, c.v, b, c.value))
      BY <2>3 DEF Chosen
    <3>2. /\ Voters(H, c.v, b, c.value) \subseteq Voters(G, c.v, b, c.value)
          /\ Voters(G, c.v, b, c.value) \subseteq Rank
      BY DEF Voters
    <3>3. Majority(Voters(G, c.v, b, c.value))
      BY <3>1, <3>2, MajorityGrows
    <3>. QED
      BY <2>3, <3>3
  <2>. QED
    BY <2>1, <2>2, <2>3
<1>. QED
  BY <1>1, <1>2, <1>4, <1>5 DEF Chosen

\* What a message says stays true.
LEMMA MsgKept ==
  ASSUME NEW ms \in [Rank -> Monitors], NEW m \in Rank, NEW t \in Monitors, Advances(ms[m], t),
         NEW H, NEW G, H \subseteq G, NEW K, NEW L, K \subseteq L,
         NEW x \in Rank, NEW d \in Rank, NEW msg \in Messages, MsgB(H, K, ms, x, d, msg)
  PROVE  MsgB(G, L, Moved(ms, m, t), x, d, msg)
<1>1. msg.epoch \in Nat
  BY DEF Messages
<1>2. ASSUME NEW p \in Rank, msg.epoch <= ms[p].epoch
      PROVE  msg.epoch <= Moved(ms, m, t)[p].epoch
  <2>1. ms[m].epoch \in Nat /\ t.epoch \in Nat
    BY DEF Monitors
  <2>2. CASE p = m
    BY <1>1, <1>2, <2>1, <2>2 DEF Moved, Advances
  <2>3. CASE p # m
    BY <1>2, <2>3 DEF Moved
  <2>. QED
    BY <2>2, <2>3
<1>3. ASSUME NEW top, Carries(K, msg, top) PROVE Carries(L, msg, top)
  BY <1>3 DEF Carries
<1>4. msg.op = "COMMIT" => Carries(L, msg, msg.lc)
  BY <1>3 DEF MsgB
<1>5. msg.op = "LAST" =>
       /\ Carries(L, msg, msg.lc + 1)
       /\ msg.upn > 0 =>
            /\ msg.lc + 1 \in DOMAIN msg.values
            /\ \E h \in G : h.v = msg.lc + 1 /\ h.pn = msg.upn /\ h.x = msg.values[msg.lc + 1]
  BY <1>3 DEF MsgB
<1>6. msg.op = "BEGIN" =>
       /\ msg.epoch <= Moved(ms, m, t)[x].epoch /\ msg.lc + 1 \in DOMAIN msg.values
       /\ Vote(x, msg.lc + 1, msg.pn, msg.values[msg.lc + 1]) \in G
  BY <1>2 DEF MsgB
<1>7. msg.op = "ACCEPT" => msg.epoch <= Moved(ms, m, t)[d].epoch
  BY <1>2 DEF MsgB
<1>. QED
  BY <1>4, <1>5, <1>6, <1>7 DEF MsgB

\* The messages of u that have an op of S are messages of w.
From(u, w, S) ==
  \E k \in Nat : \A i \in 1 .. Len(u) :
     u[i].op \in S => i + k \in 1 .. Len(w) /\ u[i] = w[i + k]

\* What a leader sends and waits for an answer to
Questions == {"COLLECT", "BEGIN"}
\* The answers
Replies == {"LAST", "ACCEPT"}

\* What is on its way and was there before says what it said.
LEMMA PairKept ==
  ASSUME NEW n, NEW o, NEW q, NEW p,
         From(o[q][p], n[q][p], Questions), From(o[p][q], n[p][q], Replies),
         NEW H, NEW G, H \subseteq G, NEW s \in Monitors, NEW t \in Monitors, NEW r \in Monitors,
         r.stored_pn >= t.stored_pn, G \subseteq VoteType,
         \A h \in G \ H : h.p = p => h.pn >= t.stored_pn,
         PairB(H, n, q, p, t, s)
  PROVE  PairB(G, o, q, p, r, s)
<1>. DEFINE u == o[q][p]  w == n[q][p]  b == o[p][q]  c == n[p][q]
<1>0. From(u, w, Questions) /\ From(b, c, Replies)
  OBVIOUS
<1>. HIDE DEF u, w, b, c
<1>1. PICK k \in Nat : \A i \in 1 .. Len(u) :
        u[i].op \in {"COLLECT", "BEGIN"} => i + k \in 1 .. Len(w) /\ u[i] = w[i + k]
  BY <1>0 DEF From, Questions
<1>2. PICK l \in Nat : \A i \in 1 .. Len(b) :
        b[i].op \in {"LAST", "ACCEPT"} => i + l \in 1 .. Len(c) /\ b[i] = c[i + l]
  BY <1>0 DEF From, Replies
<1>3. \A i \in 1 .. Len(u) : Is(u[i], "COLLECT", s.epoch) /\ u[i].pn = s.accepted_pn =>
         u[i].lc <= s.last_committed
  BY <1>1 DEF PairB, w, Is
<1>4. ASSUME NEW msg, LastB(H, s, p, t, msg) PROVE LastB(G, s, p, r, msg)
  <2>1. s.accepted_pn \in Nat /\ t.stored_pn \in Nat /\ r.stored_pn \in Nat
    BY DEF Monitors
  <2>2. r.stored_pn >= s.accepted_pn
    BY <1>4, <2>1 DEF LastB
  <2>3. \A h \in G : h.p = p /\ h.pn < s.accepted_pn => h \in H
    <3>. SUFFICES ASSUME NEW h \in G, h.p = p, h.pn < s.accepted_pn, h \notin H PROVE FALSE
      OBVIOUS
    <3>1. h.pn >= t.stored_pn /\ h.pn \in Nat
      BY VoteIs
    <3>2. t.stored_pn >= s.accepted_pn
      BY <1>4 DEF LastB
    <3>. QED
      BY <2>1, <3>1, <3>2
  <2>. QED
    BY <1>4, <2>2, <2>3 DEF LastB
<1>5. ASSUME NEW i \in 1 .. Len(b), Is(b[i], "LAST", s.epoch), b[i].pn = s.accepted_pn
      PROVE  LastB(G, s, p, r, b[i])
  <2>1. i + l \in 1 .. Len(c) /\ b[i] = c[i + l]
    BY <1>2, <1>5 DEF Is
  <2>2. LastB(H, s, p, t, c[i + l])
    BY <1>5, <2>1 DEF PairB, c
  <2>. QED
    BY <1>4, <2>1, <2>2
<1>6. ASSUME NEW i \in 1 .. Len(u), Is(u[i], "BEGIN", s.epoch)
      PROVE  /\ Works(s, p, u[i])
             /\ \A j \in 1 .. Len(b) : ~Is(b[j], "ACCEPT", s.epoch)
             /\ \A j \in 1 .. Len(u) : Is(u[j], "BEGIN", s.epoch) => j = i
  <2>1. i + k \in 1 .. Len(w) /\ u[i] = w[i + k]
    BY <1>1, <1>6 DEF Is
  <2>2. /\ Works(s, p, w[i + k])
        /\ \A j \in 1 .. Len(c) : ~Is(c[j], "ACCEPT", s.epoch)
        /\ \A j \in 1 .. Len(w) : Is(w[j], "BEGIN", s.epoch) => j = i + k
    BY <1>6, <2>1 DEF PairB, w, c
  <2>3. \A j \in 1 .. Len(b) : ~Is(b[j], "ACCEPT", s.epoch)
    BY <1>2, <2>2 DEF Is
  <2>4. ASSUME NEW j \in 1 .. Len(u), Is(u[j], "BEGIN", s.epoch) PROVE j = i
    <3>1. j + k \in 1 .. Len(w) /\ u[j] = w[j + k]
      BY <1>1, <2>4 DEF Is
    <3>2. j + k = i + k
      BY <2>2, <2>4, <3>1
    <3>. QED
      BY <3>2
  <2>. QED
    BY <2>1, <2>2, <2>3, <2>4
<1>7. ASSUME NEW i \in 1 .. Len(b), Is(b[i], "ACCEPT", s.epoch)
      PROVE  /\ Works(s, p, b[i])
             /\ Vote(p, s.last_committed + 1, s.accepted_pn, s.new_value) \in G
             /\ \A j \in 1 .. Len(b) : Is(b[j], "ACCEPT", s.epoch) => j = i
  <2>1. i + l \in 1 .. Len(c) /\ b[i] = c[i + l]
    BY <1>2, <1>7 DEF Is
  <2>2. /\ Works(s, p, c[i + l])
        /\ Vote(p, s.last_committed + 1, s.accepted_pn, s.new_value) \in H
        /\ \A j \in 1 .. Len(c) : Is(c[j], "ACCEPT", s.epoch) => j = i + l
    BY <1>7, <2>1 DEF PairB, c
  <2>3. ASSUME NEW j \in 1 .. Len(b), Is(b[j], "ACCEPT", s.epoch) PROVE j = i
    <3>1. j + l \in 1 .. Len(c) /\ b[j] = c[j + l]
      BY <1>2, <2>3 DEF Is
    <3>2. j + l = i + l
      BY <2>2, <2>3, <3>1
    <3>. QED
      BY <3>2
  <2>. QED
    BY <2>1, <2>2, <2>3
<1>. QED
  BY <1>3, <1>5, <1>6, <1>7 DEF PairB, u, b

\* Nothing changes that a leader's round is about.
SameTask(s, t) ==
  /\ t.role = s.role /\ t.quorum = s.quorum
  /\ t.accepted_pn = s.accepted_pn /\ t.state = s.state /\ t.last_committed = s.last_committed
  /\ t.new_value = s.new_value /\ t.uncommitted = s.uncommitted /\ t.num_last = s.num_last
  /\ t.accepted = s.accepted

\* The leader goes on in its epoch.
SameLead(s, t) == SameTask(s, t) /\ t.epoch = s.epoch

\* s leads, and what it knows of p in channels n it knows in o.
StillPair(G, n, o, q, p, r, s) ==
  s.role = "leader" =>
    PairB(G, o, q, p, r, s) /\ (Silent(n, q, p, s.epoch) => Silent(o, q, p, s.epoch))

\* A leader that goes on, with other channels and other votes
LEMMA TaskKept ==
  ASSUME NEW ms, NEW n, AskInv(ms, n), NEW m \in Rank, NEW t \in Monitors, Advances(ms[m], t),
         NEW H, NEW G, NEW K, NEW L, Casts(H, G, m, ms[m]), N > 1 => G \subseteq VoteType,
         N = 1 => L = K, NEW q \in Rank, NEW w, w = Moved(ms, m, t),
         SameTask(ms[q], w[q]), q # m \/ G = H, LeadB(H, K, ms, n, q), NEW o,
         N > 1 /\ ms[q].role = "leader" => \A p \in Rank \ {q} :
           /\ PairB(G, o, q, p, w[p], w[q])
           /\ Silent(n, q, p, ms[q].epoch) => Silent(o, q, p, w[q].epoch)
  PROVE  LeadB(G, L, w, o, q)
<1>. DEFINE s == ms[q]
            r == w[q]
            a == s.accepted_pn
<1>1. ms \in [Rank -> Monitors] /\ s \in Monitors
  BY DEF AskInv
<1>2. w[m] = t /\ \A p \in Rank \ {m} : w[p] = ms[p]
  BY <1>1, MovedAt
<1>. SUFFICES ASSUME s.role = "leader" PROVE LeadB(G, L, w, o, q)
  BY DEF LeadB, SameTask
<1>3. CASE N = 1
  <2>1. L = K /\ ~(N > 1)
    BY <1>3
  <2>. QED
    BY <1>3, <2>1 DEF LeadB, SameTask, InRound
<1>4. CASE N > 1
  <2>1. /\ a \in Nat /\ s.quorum \subseteq Rank /\ s.num_last \in Nat
        /\ a % 100 = q /\ s.last_committed \in Nat
    BY <1>1, <1>4, FitFacts DEF AskInv, Monitors
  <2>2. ASSUME NEW p \in Rank PROVE Bound(w[p]) >= Bound(ms[p]) /\ Bound(w[p]) \in Nat
                                    /\ Bound(ms[p]) \in Nat
    <3>1. CASE p = m
      BY <1>1, <1>2, <1>4, <3>1, BoundGrows, BoundIs
    <3>2. CASE p # m
      BY <1>1, <1>2, <3>2, BoundIs
    <3>. QED
      BY <3>1, <3>2
  <2>3. ASSUME NEW p \in Rank, Bound(ms[p]) >= a, NEW h \in G, h.p = p, h.pn < a
        PROVE  h \in H
    <3>. SUFFICES ASSUME h \notin H PROVE FALSE
      OBVIOUS
    <3>1. h.p = m /\ h.pn >= Bound(ms[m]) /\ h.pn \in Nat
      BY <1>4, VoteIs DEF Casts
    <3>2. Bound(ms[m]) \in Nat
      BY <2>2
    <3>. QED
      BY <2>1, <2>3, <3>1, <3>2
  <2>4. ASSUME NEW h \in G, h.p = q PROVE h \in H
    BY <2>4 DEF Casts
  <2>5. ASSUME NEW h \in G, h.pn = a PROVE \E k \in H : k.v = h.v /\ k.pn = h.pn
    <3>1. CASE h \in H
      BY <3>1
    <3>2. CASE h \notin H
      <4>1. q # m
        BY <3>2
      <4>2. h.pn % 100 # m
        BY <2>1, <2>5, <4>1
      <4>. QED
        BY <3>2, <4>2 DEF Casts
    <3>. QED
      BY <3>1, <3>2
  <2>6. H \subseteq G
    BY DEF Casts
  <2>7. ASSUME NEW p \in Rank, p # q PROVE Silent(n, q, p, s.epoch) => Silent(o, q, p, r.epoch)
    BY <1>4, <2>7
  <2>8. /\ Reach(r) = Reach(s) /\ InRound(r) = InRound(s) /\ IsWriting(r) = IsWriting(s)
        /\ r.role = "leader" /\ r.quorum = s.quorum /\ r.accepted_pn = a
        /\ r.state = s.state /\ r.last_committed = s.last_committed /\ r.new_value = s.new_value
        /\ r.uncommitted = s.uncommitted /\ r.num_last = s.num_last /\ r.accepted = s.accepted
    BY DEF SameTask, Reach, InRound, IsWriting
  <2>9. \A p \in Rank \ {q} : PairB(G, o, q, p, w[p], r)
    BY <1>4
  <2>. HIDE DEF r, s, a
  <2>10. ASSUME NEW p \in Rank, Bound(ms[p]) >= a \/ p = q, Reported(H, s, p)
         PROVE  Reported(G, r, p)
    <3>1. ASSUME NEW h \in G, h.p = p, h.pn < r.accepted_pn, h.v > r.last_committed
          PROVE  h \in H /\ h.pn < s.accepted_pn /\ h.v > s.last_committed
      BY <2>3, <2>4, <2>8, <2>10, <3>1 DEF a
    <3>. QED
      BY <2>8, <2>10, <3>1 DEF Reported
  <2>11. Heeded(H, ms, n, q) \subseteq Heeded(G, w, o, q)
    <3>. SUFFICES ASSUME NEW p \in Heeded(H, ms, n, q) PROVE p \in Heeded(G, w, o, q)
      OBVIOUS
    <3>1. p \in SilentOnes(n, q, s) /\ Bound(ms[p]) >= a /\ Reported(H, s, p)
      BY DEF Heeded, s, a
    <3>2. p \in s.quorum /\ p # q /\ Silent(n, q, p, s.epoch) /\ p \in Rank
      BY <2>1, <3>1 DEF SilentOnes
    <3>3. p \in SilentOnes(o, q, r)
      BY <2>7, <2>8, <3>2 DEF SilentOnes
    <3>4. Bound(w[p]) >= r.accepted_pn
      BY <2>1, <2>2, <2>8, <3>1, <3>2
    <3>5. Reported(G, r, p)
      BY <2>10, <3>1, <3>2
    <3>. QED
      BY <3>3, <3>4, <3>5 DEF Heeded, r
  <2>12. /\ Cardinality(Heeded(H, ms, n, q)) <= Cardinality(Heeded(G, w, o, q))
         /\ Cardinality(Heeded(H, ms, n, q)) \in Nat /\ Cardinality(Heeded(G, w, o, q)) \in Nat
    <3>1. Heeded(G, w, o, q) \subseteq Rank
      BY <2>1, <2>8 DEF Heeded, SilentOnes, r
    <3>2. IsFiniteSet(Heeded(G, w, o, q)) /\ Heeded(H, ms, n, q) \subseteq Rank
      BY <2>11, <3>1, QuorumSize
    <3>. QED
      BY <2>11, <3>1, <3>2, FS_Subset, QuorumSize
  <2>13. LeadB(H, K, ms, n, q) /\ s.role = "leader"
    BY DEF s
  <2>14. r.state = "recovering" =>
              /\ r.num_last - 1 <= Cardinality(Heeded(G, w, o, q))
              /\ Reported(G, r, q)
              /\ r.uncommitted.v \in {0, r.last_committed + 1}
              /\ r.uncommitted.v = 0 => r.uncommitted.pn = 0
              /\ r.uncommitted.v > 0 =>
                   \E h \in G : /\ h.v = r.uncommitted.v /\ h.pn = r.uncommitted.pn
                                /\ h.x = r.uncommitted.value
    <3>. SUFFICES ASSUME s.state = "recovering"
                  PROVE  /\ s.num_last - 1 <= Cardinality(Heeded(G, w, o, q))
                         /\ Reported(G, r, q)
                         /\ s.uncommitted.v \in {0, s.last_committed + 1}
                         /\ s.uncommitted.v = 0 => s.uncommitted.pn = 0
                         /\ s.uncommitted.v > 0 =>
                              \E h \in G : /\ h.v = s.uncommitted.v /\ h.pn = s.uncommitted.pn
                                           /\ h.x = s.uncommitted.value
      BY <2>8
    <3>1. /\ s.num_last - 1 <= Cardinality(Heeded(H, ms, n, q))
          /\ Reported(H, s, q)
          /\ s.uncommitted.v \in {0, s.last_committed + 1}
          /\ s.uncommitted.v = 0 => s.uncommitted.pn = 0
          /\ s.uncommitted.v > 0 =>
               \E h \in H : /\ h.v = s.uncommitted.v /\ h.pn = s.uncommitted.pn
                            /\ h.x = s.uncommitted.value
      BY <1>4, <2>13 DEF LeadB, s
    <3>2. s.num_last - 1 <= Cardinality(Heeded(G, w, o, q))
      BY <2>1, <2>12, <3>1
    <3>3. Reported(G, r, q)
      BY <2>10, <3>1
    <3>. QED
      BY <2>6, <3>1, <3>2, <3>3
  <2>15. r.state # "recovering" =>
              \A p \in r.quorum :
                /\ p # q => Bound(w[p]) >= r.accepted_pn
                /\ \A h \in G : h.p = p /\ h.pn < r.accepted_pn => h.v <= Reach(r)
    <3>. SUFFICES ASSUME s.state # "recovering", NEW p \in s.quorum
                  PROVE  /\ p # q => Bound(w[p]) >= a
                         /\ \A h \in G : h.p = p /\ h.pn < a => h.v <= Reach(s)
      BY <2>8
    <3>1. /\ p # q => Bound(ms[p]) >= a
          /\ \A h \in H : h.p = p /\ h.pn < a => h.v <= Reach(s)
      BY <1>4, <2>13 DEF LeadB, s, a
    <3>2. p # q => Bound(w[p]) >= a
      BY <2>1, <2>2, <3>1
    <3>3. ASSUME NEW h \in G, h.p = p, h.pn < a PROVE h \in H
      BY <2>1, <2>3, <2>4, <3>1, <3>3
    <3>. QED
      BY <3>1, <3>2, <3>3
  <2>16. InRound(r) =>
              /\ q \in r.accepted
              /\ \A p \in r.accepted :
                   Vote(p, r.last_committed + 1, r.accepted_pn, r.new_value) \in G
              /\ IsWriting(r) => r.accepted = r.quorum
    <3>1. InRound(s) =>
              /\ q \in s.accepted
              /\ \A p \in s.accepted :
                   Vote(p, s.last_committed + 1, a, s.new_value) \in H
              /\ IsWriting(s) => s.accepted = s.quorum
      BY <1>4, <2>13 DEF LeadB, s, a
    <3>. QED
      BY <2>6, <2>8, <3>1
  <2>17. \A h \in G : h.pn = r.accepted_pn => h.v <= Reach(r)
    <3>1. \A h \in H : h.pn = a => h.v <= Reach(s)
      BY <1>4, <2>13 DEF LeadB, s, a
    <3>2. ASSUME NEW h \in G, h.pn = a PROVE h.v <= Reach(s)
      BY <2>5, <3>1, <3>2
    <3>. QED
      BY <2>8, <3>2
  <2>18. Majority(r.quorum) /\ r.accepted_pn > 0
    BY <1>4, <2>8, <2>13 DEF LeadB, s, a
  <2>. QED
    BY <1>4, <2>9, <2>14, <2>15, <2>16, <2>17, <2>18 DEF LeadB, r
<1>. QED
  BY <1>3, <1>4, NAssumption

\* The same within an epoch
LEMMA LeadKept ==
  ASSUME NEW ms, NEW n, AskInv(ms, n), NEW m \in Rank, NEW t \in Monitors, Advances(ms[m], t),
         NEW H, NEW G, NEW K, NEW L, Casts(H, G, m, ms[m]), N > 1 => G \subseteq VoteType,
         N = 1 => L = K, NEW q \in Rank, NEW w, w = Moved(ms, m, t),
         SameLead(ms[q], w[q]), q # m \/ G = H, LeadB(H, K, ms, n, q), NEW o,
         N > 1 => \A p \in Rank \ {q} : StillPair(G, n, o, q, p, w[p], w[q])
  PROVE  LeadB(G, L, w, o, q)
<1>1. SameTask(ms[q], w[q]) /\ w[q].epoch = ms[q].epoch /\ w[q].role = ms[q].role
  BY DEF SameLead, SameTask
<1>2. N > 1 /\ ms[q].role = "leader" => \A p \in Rank \ {q} :
        /\ PairB(G, o, q, p, w[p], w[q])
        /\ Silent(n, q, p, ms[q].epoch) => Silent(o, q, p, w[q].epoch)
  BY <1>1 DEF StillPair
<1>. QED
  BY <1>1, <1>2, TaskKept

\* Nothing is on its way where nothing was.
LEMMA FromSilent ==
  ASSUME NEW n, NEW o, NEW q, NEW p, NEW e,
         From(o[q][p], n[q][p], Questions), From(o[p][q], n[p][q], Replies)
  PROVE  Silent(n, q, p, e) => Silent(o, q, p, e)
<1>1. Asks(o[q][p], e) => Asks(n[q][p], e)
  <2>. SUFFICES ASSUME NEW i \in 1 .. Len(o[q][p]), Is(o[q][p][i], "COLLECT", e)
                PROVE  \E j \in 1 .. Len(n[q][p]) : Is(n[q][p][j], "COLLECT", e)
    BY DEF Asks
  <2>1. o[q][p][i].op \in Questions
    BY DEF Is, Questions
  <2>. QED
    BY <2>1 DEF From
<1>2. Answers(o[p][q], e) => Answers(n[p][q], e)
  <2>. SUFFICES ASSUME NEW i \in 1 .. Len(o[p][q]), Is(o[p][q][i], "LAST", e)
                PROVE  \E j \in 1 .. Len(n[p][q]) : Is(n[p][q][j], "LAST", e)
    BY DEF Answers
  <2>1. o[p][q][i].op \in Replies
    BY DEF Is, Replies
  <2>. QED
    BY <2>1 DEF From
<1>. QED
  BY <1>1, <1>2 DEF Silent

\* A part of a channel
LEMMA StretchFrom ==
  ASSUME NEW u \in Seq(Messages), NEW w \in Seq(Messages), NEW k, Stretch(u, w, k), NEW S
  PROVE  From(u, w, S)
<1>1. k \in Nat /\ \A i \in 1 .. Len(u) : i + k \in 1 .. Len(w) /\ u[i] = w[i + k]
  BY DEF Stretch
<1>. QED
  BY <1>1 DEF From

\* The newest part of a channel
LEMMA SuffixFrom ==
  ASSUME NEW u \in Seq(Messages), NEW w \in Seq(Messages), Suffix(u, w), NEW S
  PROVE  From(u, w, S)
  BY StretchFrom DEF Suffix

\* The whole channel
LEMMA SameFrom ==
  ASSUME NEW u \in Seq(Messages), NEW S
  PROVE  From(u, u, S)
  BY SuffixSame, SuffixFrom

\* The channel of m, with messages of another kind
LEMMA PlusFrom ==
  ASSUME NEW o \in Nets, NEW n \in Nets, Shorter(o, n), NEW m \in Rank,
         NEW out \in [Rank -> Seq(Messages)], NEW d \in Rank, NEW S,
         \A i \in 1 .. Len(out[d]) : out[d][i].op \notin S
  PROVE  From(Plus(o, m, out)[m][d], n[m][d], S)
<1>. DEFINE u == Plus(o, m, out)[m][d]
            w == n[m][d]
            b == o[m][d]
<1>1. PICK k \in Nat : Stretch(b, w, k)
  BY DEF Shorter, Suffix
<1>2. b \in Seq(Messages) /\ w \in Seq(Messages) /\ out[d] \in Seq(Messages)
  BY DEF Nets
<1>3. \A i \in 1 .. Len(b) : i + k \in 1 .. Len(w) /\ b[i] = w[i + k]
  <2>. HIDE DEF b, w
  <2>. QED
    BY <1>1, <1>2 DEF Stretch
<1>4. ASSUME NEW i \in 1 .. Len(u), u[i].op \in S
      PROVE  i + k \in 1 .. Len(w) /\ u[i] = w[i + k]
  <2>1. Among(u, b, out[d], m = m, i)
    BY PlusAmong
  <2>. HIDE DEF u, b, w
  <2>. QED
    BY <1>3, <1>4, <2>1 DEF Among
<1>. QED
  BY <1>4 DEF From

\* The channel of another monitor
LEMMA OtherFrom ==
  ASSUME NEW o \in Nets, NEW n \in Nets, Shorter(o, n), NEW m \in Rank,
         NEW out \in [Rank -> Seq(Messages)], NEW x \in Rank, x # m, NEW d \in Rank, NEW S
  PROVE  From(Plus(o, m, out)[x][d], n[x][d], S)
<1>1. Plus(o, m, out)[x][d] = o[x][d]
  BY PlusOther, SMTT(60)
<1>2. o[x][d] \in Seq(Messages) /\ n[x][d] \in Seq(Messages) /\ Suffix(o[x][d], n[x][d])
  BY DEF Nets, Shorter
<1>. QED
  BY <1>1, <1>2, SuffixFrom

\* The pair of leader q and p, when it is about what it was about
LEMMA StillFrom ==
  ASSUME NEW n, NEW o, NEW q \in Rank, NEW p \in Rank,
         From(o[q][p], n[q][p], Questions), From(o[p][q], n[p][q], Replies),
         NEW H, NEW G, H \subseteq G, NEW s \in Monitors, NEW t \in Monitors, NEW r \in Monitors,
         r.stored_pn >= t.stored_pn, G \subseteq VoteType,
         \A h \in G \ H : h.p = p => h.pn >= t.stored_pn,
         s.role = "leader" => PairB(H, n, q, p, t, s)
  PROVE  StillPair(G, n, o, q, p, r, s)
<1>1. Silent(n, q, p, s.epoch) => Silent(o, q, p, s.epoch)
  BY FromSilent
<1>2. s.role = "leader" => PairB(G, o, q, p, r, s)
  BY PairKept
<1>. QED
  BY <1>1, <1>2 DEF StillPair

\* The new votes of m are under numbers it has not promised against.
LEMMA CastsHigh ==
  ASSUME NEW H, NEW G, NEW m, NEW s \in Monitors, Casts(H, G, m, s), G \subseteq VoteType
  PROVE  H \subseteq G /\ \A h \in G \ H : h.p = m /\ h.pn >= s.stored_pn
<1>1. Bound(s) \in Nat /\ Bound(s) >= s.stored_pn /\ s.stored_pn \in Nat
  BY BoundIs
<1>2. ASSUME NEW h \in G \ H PROVE h.p = m /\ h.pn >= s.stored_pn
  <2>1. h.pn \in Nat /\ h.pn >= Bound(s) /\ h.p = m
    BY VoteIs DEF Casts
  <2>. QED
    BY <1>1, <2>1
<1>. QED
  BY <1>2 DEF Casts

\* Nothing m sends to q tells q of its votes.
Mute(out, q) == Without(out[q], "LAST") /\ Without(out[q], "ACCEPT")

\* A leader that m does not answer knows what it knew of m.
LEMMA StillMute ==
  ASSUME NEW ms, NEW n, AskInv(ms, n), NEW H, NEW K, Core(H, K, ms, n), N > 1,
         NEW o \in Nets, Shorter(o, n), NEW m \in Rank, NEW t \in Monitors, Advances(ms[m], t),
         NEW out \in [Rank -> Seq(Messages)], NEW G, Casts(H, G, m, ms[m]), G \subseteq VoteType,
         NEW q \in Rank, q # m, Mute(out, q)
  PROVE  StillPair(G, n, Plus(o, m, out), q, m, t, ms[q])
<1>. DEFINE n2 == Plus(o, m, out)
<1>1. n \in Nets /\ ms[m] \in Monitors /\ ms[q] \in Monitors
  BY DEF AskInv
<1>2. From(n2[q][m], n[q][m], Questions)
  BY <1>1, OtherFrom
<1>3. \A i \in 1 .. Len(out[q]) : out[q][i].op \notin Replies
  BY DEF Mute, Without, Replies
<1>4. From(n2[m][q], n[m][q], Replies)
  BY <1>1, <1>3, PlusFrom
<1>5. ms[q].role = "leader" => PairB(H, n, q, m, ms[m], ms[q])
  BY DEF Core, LeadB
<1>6. H \subseteq G /\ \A h \in G \ H : h.pn >= ms[m].stored_pn
  BY <1>1, CastsHigh
<1>7. t.stored_pn >= ms[m].stored_pn
  BY DEF Advances
<1>. HIDE DEF n2
<1>8. StillPair(G, n, n2, q, m, t, ms[q])
  BY <1>1, <1>2, <1>4, <1>5, <1>6, <1>7, StillFrom
<1>. QED
  BY <1>8 DEF n2

\* A leader knows what it knew of those that do nothing.
LEMMA StillOther ==
  ASSUME NEW ms, NEW n, AskInv(ms, n), NEW H, NEW K, Core(H, K, ms, n), N > 1,
         NEW o \in Nets, Shorter(o, n), NEW m \in Rank,
         NEW out \in [Rank -> Seq(Messages)], NEW G, Casts(H, G, m, ms[m]), G \subseteq VoteType,
         NEW q \in Rank, q # m, NEW p \in Rank, p # m, p # q
  PROVE  StillPair(G, n, Plus(o, m, out), q, p, ms[p], ms[q])
<1>. DEFINE n2 == Plus(o, m, out)
<1>1. n \in Nets /\ ms[p] \in Monitors /\ ms[q] \in Monitors /\ ms[m] \in Monitors
  BY DEF AskInv
<1>2. From(n2[q][p], n[q][p], Questions)
  BY <1>1, OtherFrom
<1>3. From(n2[p][q], n[p][q], Replies)
  BY <1>1, OtherFrom
<1>4. ms[q].role = "leader" => PairB(H, n, q, p, ms[p], ms[q])
  BY DEF Core, LeadB
<1>5. H \subseteq G /\ \A h \in G \ H : h.p = m
  BY <1>1, CastsHigh
<1>6. ms[p].stored_pn >= ms[p].stored_pn
  <2>1. ms[p].stored_pn \in Nat
    BY <1>1 DEF Monitors
  <2>. QED
    BY <2>1
<1>. HIDE DEF n2
<1>7. StillPair(G, n, n2, q, p, ms[p], ms[q])
  BY <1>1, <1>2, <1>3, <1>4, <1>5, <1>6, StillFrom
<1>. QED
  BY <1>7 DEF n2

\* A step of m: it votes and commits, and the channels lose messages at the front.
LEMMA MicroB ==
  ASSUME NEW ms, NEW n, AskInv(ms, n), NEW H, NEW K, Core(H, K, ms, n),
         NEW o \in Nets, Shorter(o, n), NEW m \in Rank, NEW t \in Monitors, Advances(ms[m], t),
         NEW out \in [Rank -> Seq(Messages)], NEW w, w = Moved(ms, m, t),
         NEW G, NEW L, Casts(H, G, m, ms[m]), Commits(G, K, L, ms, w),
         N > 1 => /\ G \subseteq VoteType /\ OneValue(G)
                  /\ \A h \in G \ H : VoteOK(G, L, w, h),
         MonB(G, L, m, t),
         \A d \in Rank : \A i \in 1 .. Len(out[d]) : MsgB(G, L, w, m, d, out[d][i]),
         \A q \in Rank \ {m} : Mute(out, q) \/ StillPair(G, n, Plus(o, m, out), q, m, t, ms[q]),
         LeadB(G, L, w, Plus(o, m, out), m)
  PROVE  Core(G, L, w, Plus(o, m, out))
<1>. DEFINE n2 == Plus(o, m, out)
<1>1. ms \in [Rank -> Monitors] /\ n \in Nets
  BY DEF AskInv
<1>2. w[m] = t /\ \A p \in Rank \ {m} : w[p] = ms[p]
  BY <1>1, MovedAt
<1>3. H \subseteq G /\ K \subseteq L
  BY DEF Casts, Commits
<1>4. N > 1 => \A h \in G : VoteOK(G, L, w, h)
  <2>1. ASSUME N > 1, NEW h \in H PROVE VoteOK(G, L, w, h)
    <3>1. VoteOK(H, K, ms, h)
      BY <2>1 DEF Core
    <3>. QED
      BY <1>1, <2>1, <3>1, VoteKept
  <2>. QED
    BY <2>1
<1>5. ASSUME NEW p \in Rank PROVE MonB(G, L, p, w[p])
  <2>1. CASE p = m
    BY <1>2, <2>1
  <2>2. CASE p # m
    <3>1. MonB(H, K, p, ms[p]) /\ w[p] = ms[p]
      BY <1>2, <2>2 DEF Core
    <3>2. MonB(G, L, p, ms[p])
      BY <1>1, <1>3, <3>1, MonKept
    <3>. QED
      BY <3>1, <3>2
  <2>. QED
    BY <2>1, <2>2
<1>6. Chosen(G, L, w)
  BY <1>1, <1>3, ChosenKept DEF Core
<1>7. ASSUME NEW x \in Rank, NEW d \in Rank, NEW i \in 1 .. Len(n2[x][d])
      PROVE  MsgB(G, L, w, x, d, n2[x][d][i])
  <2>0. o[x][d] \in Seq(Messages) /\ out[d] \in Seq(Messages) /\ n[x][d] \in Seq(Messages)
    BY <1>1 DEF Nets
  <2>1. ASSUME NEW k \in 1 .. Len(o[x][d]) PROVE MsgB(G, L, w, x, d, o[x][d][k])
    <3>1. PICK j \in Nat : Stretch(o[x][d], n[x][d], j)
      BY DEF Shorter, Suffix
    <3>2. k + j \in 1 .. Len(n[x][d]) /\ o[x][d][k] = n[x][d][k + j]
      <4>. DEFINE u == o[x][d]
                  v == n[x][d]
      <4>1. u \in Seq(Messages) /\ v \in Seq(Messages) /\ Stretch(u, v, j) /\ k \in 1 .. Len(u)
        BY <2>0, <3>1
      <4>. HIDE DEF u, v
      <4>2. k + j \in 1 .. Len(v) /\ u[k] = v[k + j]
        BY <4>1, StretchAt
      <4>. QED
        BY <4>2 DEF u, v
    <3>3. MsgB(H, K, ms, x, d, o[x][d][k]) /\ o[x][d][k] \in Messages
      BY <2>0, <3>2 DEF Core
    <3>. QED
      BY <1>1, <1>3, <3>3, MsgKept
  <2>2. Among(n2[x][d], o[x][d], out[d], x = m, i)
    BY PlusAmong
  <2>. HIDE DEF n2
  <2>. QED
    BY <2>1, <2>2 DEF Among
<1>8. ASSUME NEW q \in Rank, q # m PROVE LeadB(G, L, w, n2, q)
  <2>1. N > 1
    BY <1>8, NAssumption DEF Rank
  <2>2. w[q] = ms[q] /\ SameLead(ms[q], w[q]) /\ LeadB(H, K, ms, n, q)
    BY <1>2, <1>8 DEF SameLead, SameTask, Core
  <2>3. ASSUME NEW p \in Rank \ {q} PROVE StillPair(G, n, n2, q, p, w[p], w[q])
    <3>1. CASE p = m
      <4>1. Mute(out, q) => StillPair(G, n, n2, q, m, t, ms[q])
        BY <1>8, <2>1, StillMute
      <4>. QED
        BY <1>2, <1>8, <2>2, <3>1, <4>1
    <3>2. CASE p # m
      <4>1. StillPair(G, n, n2, q, p, ms[p], ms[q])
        BY <1>8, <2>1, <3>2, StillOther
      <4>. QED
        BY <1>2, <2>2, <3>2, <4>1
    <3>. QED
      BY <3>1, <3>2
  <2>. HIDE DEF n2
  <2>. QED
    BY <1>8, <2>1, <2>2, <2>3, LeadKept
<1>. QED
  BY <1>4, <1>5, <1>6, <1>7, <1>8 DEF Core

(***************************************************************************)
(* Calls that do not touch the store or the round.                          *)
(***************************************************************************)

\* The step of m in which nobody votes and nothing is committed
LEMMA MicroKeep ==
  ASSUME NEW ms, NEW n, AskInv(ms, n), NEW H, NEW K, Core(H, K, ms, n),
         NEW o \in Nets, Shorter(o, n), NEW m \in Rank, NEW t \in Monitors, Advances(ms[m], t),
         NEW out \in [Rank -> Seq(Messages)], NEW w, w = Moved(ms, m, t), MonB(H, K, m, t),
         \A d \in Rank : \A i \in 1 .. Len(out[d]) : MsgB(H, K, w, m, d, out[d][i]),
         \A q \in Rank \ {m} : Mute(out, q) \/ StillPair(H, n, Plus(o, m, out), q, m, t, ms[q]),
         LeadB(H, K, w, Plus(o, m, out), m)
  PROVE  Core(H, K, w, Plus(o, m, out))
<1>1. Casts(H, H, m, ms[m])
  BY DEF Casts
<1>2. Commits(H, K, K, ms, w)
  BY DEF Commits, Core, Chosen
<1>3. N > 1 => H \subseteq VoteType /\ OneValue(H) /\ \A h \in H \ H : VoteOK(H, K, w, h)
  BY DEF Core
<1>. QED
  BY <1>1, <1>2, <1>3, MicroB

\* The store of m stays, and so does what it is bound to.
SameDisk(s, t) == SameStore(s, t) /\ t.stored_pn = s.stored_pn /\ t.epoch >= s.epoch

\* The store is as it was.
LEMMA StaysB ==
  ASSUME NEW H, NEW K, NEW m, NEW s \in Monitors, NEW t \in Monitors, SameDisk(s, t),
         t.accepted_pn >= s.accepted_pn, N > 1 /\ t.role = "leader" => s.role = "leader", MonB(H, K, m, s)
  PROVE  MonB(H, K, m, t) /\ Advances(s, t)
<1>1. /\ s.pending_pn \in Nat /\ s.accepted_pn \in Nat /\ t.accepted_pn \in Nat
      /\ s.stored_pn \in Nat /\ s.last_pn \in Nat /\ s.last_committed \in Nat
  BY DEF Monitors
<1>2. /\ t.log = s.log /\ t.last_committed = s.last_committed
      /\ t.first_committed = s.first_committed /\ t.last_pn = s.last_pn
      /\ t.pending_v = s.pending_v /\ t.pending_pn = s.pending_pn /\ t.stored_pn = s.stored_pn
      /\ t.epoch >= s.epoch
  BY DEF SameDisk, SameStore
<1>3. Advances(s, t)
  BY <1>1, <1>2 DEF Advances
<1>4. Whole(t) /\ Stored(K, t)
  BY <1>2 DEF MonB, Whole, Stored
<1>5. PromiseOK(t)
  BY <1>1, <1>2 DEF MonB, PromiseOK, Larger
<1>6. N > 1 /\ t.pending_v > t.last_committed =>
        Vote(m, t.pending_v, t.pending_pn, t.log[t.pending_v]) \in H
  BY <1>2 DEF MonB
<1>. QED
  BY <1>3, <1>4, <1>5, <1>6 DEF MonB

\* A COMMIT has versions of the log up to the last one.
Cites(s, msg) ==
  msg.lc = s.last_committed /\ \E j \in Nat : msg.values = Restricted(s.log, j + 1 .. msg.lc)

\* A message that cites a store carries what is committed.
LEMMA CitesCarries ==
  ASSUME NEW s \in Monitors, NEW K, Whole(s), Stored(K, s), NEW msg, Cites(s, msg)
  PROVE  Carries(K, msg, msg.lc)
<1>1. PICK j \in Nat : msg.values = Restricted(s.log, j + 1 .. msg.lc)
  BY DEF Cites
<1>2. DOMAIN s.log \subseteq Nat /\ s.last_committed \in Nat /\ msg.lc = s.last_committed
      /\ s.first_committed \in Nat
  BY VMapsDef DEF Monitors, Cites
<1>3. /\ DOMAIN msg.values = DOMAIN s.log \cap (j + 1 .. msg.lc)
      /\ \A v \in DOMAIN msg.values : msg.values[v] = s.log[v]
  BY <1>1 DEF Restricted
<1>. SUFFICES ASSUME NEW v \in DOMAIN msg.values
              PROVE  /\ v <= msg.lc /\ \A u \in v .. msg.lc : u \in DOMAIN msg.values
                     /\ [v |-> v, value |-> msg.values[v]] \in K
  BY DEF Carries
<1>4. v \in DOMAIN s.log /\ v \in j + 1 .. msg.lc /\ v \in Nat /\ msg.values[v] = s.log[v]
  BY <1>2, <1>3
<1>5. s.first_committed <= v
  BY <1>4 DEF Whole
<1>6. ASSUME NEW u \in v .. msg.lc PROVE u \in DOMAIN msg.values
  <2>1. u \in s.first_committed .. s.last_committed /\ u # 0 /\ u \in j + 1 .. msg.lc
    BY <1>2, <1>4, <1>5
  <2>2. u \in DOMAIN s.log
    BY <2>1 DEF Whole
  <2>. QED
    BY <1>3, <2>1, <2>2
<1>7. [v |-> v, value |-> s.log[v]] \in K
  BY <1>2, <1>4 DEF Stored
<1>. QED
  BY <1>2, <1>4, <1>6, <1>7

\* What m sends asks for nothing, answers nothing, and cites its log.
PlainMsg(m, s, d, msg) ==
  /\ d # m \/ msg.op = "COMMIT"
  /\ msg.op \notin {"COLLECT", "LAST", "BEGIN", "ACCEPT"}
  /\ msg.op = "COMMIT" => Cites(s, msg)

\* All that m sends is plain.
PlainSent(m, s, out) ==
  \A d \in Rank : \A i \in 1 .. Len(out[d]) : PlainMsg(m, s, d, out[d][i])

\* A plain message
LEMMA PlainSentB ==
  ASSUME NEW s \in Monitors, NEW H, NEW K, Whole(s), Stored(K, s), NEW m \in Rank, NEW out, NEW w,
         PlainSent(m, s, out), NEW d \in Rank, NEW i \in 1 .. Len(out[d])
  PROVE  MsgB(H, K, w, m, d, out[d][i])
<1>1. PlainMsg(m, s, d, out[d][i])
  BY DEF PlainSent
<1>2. out[d][i].op = "COMMIT" => Carries(K, out[d][i], out[d][i].lc)
  BY <1>1, CitesCarries DEF PlainMsg
<1>. QED
  BY <1>1, <1>2 DEF MsgB, PlainMsg

\* A step of m that is about nobody's votes
Plain(m, s, t, out) ==
  /\ SameDisk(s, t) /\ t.accepted_pn = s.accepted_pn
  /\ t.role = "leader" => SameLead(s, t)
  /\ PlainSent(m, s, out)

\* A call of m that leaves the store and the round alone
LEMMA PlainB ==
  ASSUME NEW ms, NEW n, AskInv(ms, n), NEW H, NEW K, Core(H, K, ms, n), NEW m \in Rank,
         NEW t \in Monitors, NEW out \in [Rank -> Seq(Messages)], Plain(m, ms[m], t, out)
  PROVE  Core(H, K, Moved(ms, m, t), Plus(n, m, out))
<1>. DEFINE s == ms[m]
            w == Moved(ms, m, t)
            n2 == Plus(n, m, out)
<1>1. ms \in [Rank -> Monitors] /\ n \in Nets /\ s \in Monitors /\ s.accepted_pn \in Nat
  BY DEF AskInv, Monitors
<1>2. w[m] = t /\ \A p \in Rank \ {m} : w[p] = ms[p]
  BY <1>1, MovedAt
<1>3. Shorter(n, n)
  BY <1>1, SuffixSame DEF Shorter, Nets
<1>4. MonB(H, K, m, s)
  BY DEF Core
<1>5. MonB(H, K, m, t) /\ Advances(s, t)
  <2>1. /\ t.accepted_pn >= s.accepted_pn /\ SameDisk(s, t)
        /\ t.role = "leader" => s.role = "leader"
    BY <1>1 DEF Plain, SameLead, SameTask
  <2>. QED
    BY <1>1, <1>4, <2>1, StaysB
<1>6. ASSUME NEW d \in Rank, NEW i \in 1 .. Len(out[d]) PROVE MsgB(H, K, w, m, d, out[d][i])
  BY <1>1, <1>4, PlainSentB DEF MonB, Plain
<1>7. \A q \in Rank \ {m} : Mute(out, q)
  BY DEF Mute, Without, Plain, PlainSent, PlainMsg
<1>8. LeadB(H, K, w, n2, m)
  <2>. SUFFICES ASSUME t.role = "leader" PROVE LeadB(H, K, w, n2, m)
    BY <1>2 DEF LeadB
  <2>1. SameLead(s, w[m]) /\ LeadB(H, K, ms, n, m) /\ s.role = "leader"
    BY <1>2 DEF Plain, Core, SameLead, SameTask
  <2>2. ASSUME N > 1, NEW p \in Rank \ {m} PROVE StillPair(H, n, n2, m, p, w[p], w[m])
    <3>1. p \in Rank /\ p # m /\ ms[p] \in Monitors /\ w[p] = ms[p]
      BY <1>1, <1>2
    <3>2. From(n2[p][m], n[p][m], Replies)
      BY <1>1, <1>3, <3>1, OtherFrom
    <3>3. \A i \in 1 .. Len(out[p]) : out[p][i].op \notin Questions
      BY <3>1 DEF Questions, Plain, PlainSent, PlainMsg
    <3>4. From(n2[m][p], n[m][p], Questions)
      BY <1>1, <1>3, <3>1, <3>3, PlusFrom
    <3>5. PairB(H, n, m, p, ms[p], s)
      BY <2>1, <2>2 DEF LeadB
    <3>6. ms[p].stored_pn >= ms[p].stored_pn
      <4>1. ms[p].stored_pn \in Nat
        BY <3>1 DEF Monitors
      <4>. QED
        BY <4>1
    <3>7. H \subseteq VoteType
      BY <2>2 DEF Core
    <3>. HIDE DEF n2, w
    <3>8. StillPair(H, n, n2, m, p, ms[p], s)
      BY <1>1, <3>1, <3>2, <3>4, <3>5, <3>6, <3>7, StillFrom
    <3>9. t.role = s.role /\ t.quorum = s.quorum /\ t.epoch = s.epoch /\ t.state = s.state
          /\ t.accepted_pn = s.accepted_pn /\ t.last_committed = s.last_committed
          /\ t.new_value = s.new_value /\ t.accepted = s.accepted
      BY <2>1, <1>2 DEF SameLead, SameTask
    <3>10. PairB(H, n2, m, p, ms[p], t)
      BY <2>1, <3>8, <3>9 DEF StillPair, PairB, LastB, Works, Updating
    <3>. QED
      BY <1>2, <3>1, <3>8, <3>9, <3>10, <2>1 DEF StillPair
  <2>3. Casts(H, H, m, s) /\ (N > 1 => H \subseteq VoteType)
    BY DEF Casts, Core
  <2>. HIDE DEF n2
  <2>. QED
    BY <1>5, <2>1, <2>2, <2>3, LeadKept
<1>9. Core(H, K, w, n2)
  BY <1>1, <1>3, <1>5, <1>6, <1>7, <1>8, MicroKeep
<1>. QED
  BY <1>9

\* A call that sends nothing
LEMMA NothingSent ==
  ASSUME NEW n \in Nets, NEW m \in Rank
  PROVE  /\ Plus(n, m, Nothing) = n /\ Nothing \in [Rank -> Seq(Messages)]
         /\ \A d \in Rank : Len(Nothing[d]) = 0
         /\ \A q \in Rank : Mute(Nothing, q)
<1>1. Plus(n, m, Nothing) = n
  BY PlusNothing
<1>2. Nothing \in [Rank -> Seq(Messages)] /\ \A d \in Rank : Len(Nothing[d]) = 0
  BY DEF Nothing
<1>. QED
  BY <1>1, <1>2 DEF Mute, Without

\* The step of m in which it sends nothing, nobody votes and nothing is committed
LEMMA MicroSilent ==
  ASSUME NEW ms, NEW n, AskInv(ms, n), NEW H, NEW K, Core(H, K, ms, n),
         NEW o \in Nets, Shorter(o, n), NEW m \in Rank, NEW t \in Monitors, Advances(ms[m], t),
         NEW w, w = Moved(ms, m, t), MonB(H, K, m, t), LeadB(H, K, w, o, m)
  PROVE  Core(H, K, w, o)
<1>1. /\ Plus(o, m, Nothing) = o /\ Nothing \in [Rank -> Seq(Messages)]
      /\ \A d \in Rank : Len(Nothing[d]) = 0 /\ Mute(Nothing, d)
  BY NothingSent
<1>. DEFINE out == Nothing
<1>2. \A d \in Rank : \A i \in 1 .. Len(out[d]) : MsgB(H, K, w, m, d, out[d][i])
  BY <1>1
<1>3. out \in [Rank -> Seq(Messages)] /\ (\A d \in Rank \ {m} : Mute(out, d))
      /\ LeadB(H, K, w, Plus(o, m, out), m)
  BY <1>1
<1>. HIDE DEF out
<1>4. Core(H, K, w, Plus(o, m, out))
  BY <1>2, <1>3, MicroKeep
<1>. QED
  BY <1>1, <1>4 DEF out

\* Channels from which messages were taken
LEMMA ShorterFrom ==
  ASSUME NEW o \in Nets, NEW n \in Nets, Shorter(o, n), NEW x \in Rank, NEW d \in Rank, NEW S
  PROVE  From(o[x][d], n[x][d], S)
<1>1. o[x][d] \in Seq(Messages) /\ n[x][d] \in Seq(Messages) /\ Suffix(o[x][d], n[x][d])
  BY DEF Nets, Shorter
<1>. QED
  BY <1>1, SuffixFrom

\* A monitor that does nothing
LEMMA AdvancesSame ==
  ASSUME NEW s \in Monitors
  PROVE  Advances(s, s) /\ SameLead(s, s) /\ s.stored_pn >= s.stored_pn
  BY DEF Advances, SameLead, SameTask, Monitors

\* Leader q has heard of p what it had heard, whatever is lost.
LEMMA StillShorter ==
  ASSUME NEW ms, NEW n, AskInv(ms, n), NEW H, NEW K, Core(H, K, ms, n), N > 1,
         NEW o \in Nets, Shorter(o, n), NEW q \in Rank, NEW p \in Rank, p # q
  PROVE  StillPair(H, n, o, q, p, ms[p], ms[q])
<1>1. n \in Nets /\ ms[p] \in Monitors /\ ms[q] \in Monitors /\ H \subseteq VoteType
  BY DEF AskInv, Core
<1>2. From(o[q][p], n[q][p], Questions)
  BY <1>1, ShorterFrom
<1>3. From(o[p][q], n[p][q], Replies)
  BY <1>1, ShorterFrom
<1>4. ms[q].role = "leader" => PairB(H, n, q, p, ms[p], ms[q])
  BY DEF Core, LeadB
<1>5. ms[p].stored_pn >= ms[p].stored_pn
  BY <1>1, AdvancesSame
<1>. QED
  BY <1>1, <1>2, <1>3, <1>4, <1>5, StillFrom

\* Messages are taken or dropped.
LEMMA ShorterB ==
  ASSUME NEW ms, NEW n, AskInv(ms, n), NEW H, NEW K, Core(H, K, ms, n),
         NEW o \in Nets, Shorter(o, n)
  PROVE  Core(H, K, ms, o)
<1>1. ms \in [Rank -> Monitors] /\ n \in Nets
  BY DEF AskInv
<1>2. PICK m \in Rank : TRUE
  BY NAssumption DEF Rank
<1>3. Moved(ms, m, ms[m]) = ms /\ ms[m] \in Monitors
  BY <1>1, MovedSame
<1>4. Advances(ms[m], ms[m]) /\ SameLead(ms[m], ms[m])
  BY <1>3, AdvancesSame
<1>5. MonB(H, K, m, ms[m]) /\ LeadB(H, K, ms, n, m) /\ (N > 1 => H \subseteq VoteType)
  BY DEF Core
<1>6. Casts(H, H, m, ms[m])
  BY DEF Casts
<1>7. N > 1 => \A p \in Rank \ {m} : StillPair(H, n, o, m, p, ms[p], ms[m])
  BY StillShorter
<1>8. LeadB(H, K, ms, o, m)
  BY <1>3, <1>4, <1>5, <1>6, <1>7, LeadKept
<1>. QED
  BY <1>3, <1>4, <1>5, <1>8, MicroSilent

\* Nothing on its way between m and p
LEMMA NoPairB ==
  ASSUME NEW n, NEW m, NEW p, NEW t, NEW s, NEW H,
         ~Asks(n[m][p], s.epoch), ~Answers(n[p][m], s.epoch),
         \A i \in 1 .. Len(n[m][p]) : ~Is(n[m][p][i], "BEGIN", s.epoch),
         \A i \in 1 .. Len(n[p][m]) : ~Is(n[p][m][i], "ACCEPT", s.epoch)
  PROVE  PairB(H, n, m, p, t, s)
  BY DEF PairB, Asks, Answers

\* No round has been begun or accepted in an epoch to come.
LEMMA UnheardB ==
  ASSUME NEW ms, NEW n, AskInv(ms, n), NEW H, NEW K, Core(H, K, ms, n), NEW m \in Rank,
         NEW e \in Nat, e > ms[m].epoch, NEW p \in Rank
  PROVE  /\ \A i \in 1 .. Len(n[m][p]) : ~Is(n[m][p][i], "BEGIN", e)
         /\ \A i \in 1 .. Len(n[p][m]) : ~Is(n[p][m][i], "ACCEPT", e)
<1>1. ms[m].epoch \in Nat
  BY DEF AskInv, Monitors
<1>2. ASSUME NEW i \in 1 .. Len(n[m][p]) PROVE ~Is(n[m][p][i], "BEGIN", e)
  <2>1. MsgB(H, K, ms, m, p, n[m][p][i])
    BY DEF Core
  <2>. QED
    BY <1>1, <2>1 DEF MsgB, Is
<1>3. ASSUME NEW i \in 1 .. Len(n[p][m]) PROVE ~Is(n[p][m][i], "ACCEPT", e)
  <2>1. MsgB(H, K, ms, p, m, n[p][m][i])
    BY DEF Core
  <2>. QED
    BY <1>1, <2>1 DEF MsgB, Is
<1>. QED
  BY <1>2, <1>3

\* The epoch is bumped; nothing else changes.
Bumped(s, t) ==
  /\ SameTask(s, t) /\ SameDisk(s, t) /\ t.epoch > s.epoch

\* Monitor m enters a later epoch.
LEMMA EpochB ==
  ASSUME NEW ms, NEW n, AskInv(ms, n), NEW H, NEW K, Core(H, K, ms, n), NEW m \in Rank,
         NEW t \in Monitors, Bumped(ms[m], t)
  PROVE  Core(H, K, Moved(ms, m, t), n)
<1>. DEFINE s == ms[m]
            w == Moved(ms, m, t)
<1>1. /\ ms \in [Rank -> Monitors] /\ n \in Nets /\ s \in Monitors /\ s.accepted_pn \in Nat
      /\ t.epoch \in Nat
  BY DEF AskInv, Monitors
<1>2. w[m] = t /\ \A p \in Rank \ {m} : w[p] = ms[p]
  BY <1>1, MovedAt
<1>3. Shorter(n, n)
  BY <1>1, SuffixSame DEF Shorter, Nets
<1>4. MonB(H, K, m, s) /\ LeadB(H, K, ms, n, m) /\ (N > 1 => H \subseteq VoteType)
  BY DEF Core
<1>5. MonB(H, K, m, t) /\ Advances(s, t)
  <2>1. /\ t.accepted_pn >= s.accepted_pn /\ SameDisk(s, t)
        /\ t.role = "leader" => s.role = "leader"
    BY <1>1 DEF Bumped, SameTask
  <2>. QED
    BY <1>1, <1>4, <2>1, StaysB
<1>6. ASSUME NEW p \in Rank \ {m}
      PROVE  PairB(H, n, m, p, w[p], t) /\ Silent(n, m, p, t.epoch)
  <2>1. p \in Rank /\ t.epoch > ms[m].epoch
    BY DEF Bumped
  <2>2. ~Asks(n[m][p], t.epoch) /\ ~Answers(n[p][m], t.epoch)
    BY <1>1, <2>1, UnheardA
  <2>3. /\ \A i \in 1 .. Len(n[m][p]) : ~Is(n[m][p][i], "BEGIN", t.epoch)
        /\ \A i \in 1 .. Len(n[p][m]) : ~Is(n[p][m][i], "ACCEPT", t.epoch)
    BY <1>1, <2>1, UnheardB
  <2>. QED
    BY <2>2, <2>3, NoPairB DEF Silent
<1>7. LeadB(H, K, w, n, m)
  <2>1. Casts(H, H, m, s) /\ SameTask(s, w[m])
    BY <1>2 DEF Casts, Bumped
  <2>2. N > 1 /\ ms[m].role = "leader" => \A p \in Rank \ {m} :
           /\ PairB(H, n, m, p, w[p], w[m])
           /\ Silent(n, m, p, ms[m].epoch) => Silent(n, m, p, w[m].epoch)
    BY <1>2, <1>6
  <2>. QED
    BY <1>4, <1>5, <2>1, <2>2, TaskKept
<1>. QED
  BY <1>1, <1>3, <1>5, <1>7, MicroSilent

(***************************************************************************)
(* A leader that has recovered.  What it may propose.                       *)
(***************************************************************************)

\* What is known of a leader
LEMMA LeadsB ==
  ASSUME NEW ms, NEW n, AskInv(ms, n), NEW H, NEW K, Core(H, K, ms, n), NEW m \in Rank,
         ms[m].role = "leader", N > 1
  PROVE  /\ ms[m] \in Monitors /\ ms[m].accepted_pn \in Nat /\ ms[m].last_committed \in Nat
         /\ ms[m].quorum \subseteq Rank /\ m \in ms[m].quorum /\ ms[m].num_last \in Nat
         /\ ms[m].accepted_pn > 0 /\ Majority(ms[m].quorum) /\ H \subseteq VoteType
         /\ ms[m].accepted_pn % 100 = m /\ ms[m].accepted_pn <= ms[m].last_pn
         /\ \A h \in H : h.pn = ms[m].accepted_pn => h.v <= Reach(ms[m])
         /\ \A p \in Rank \ {m} : PairB(H, n, m, p, ms[p], ms[m]) /\ PairA(n, m, p, ms[p], ms[m])
<1>1. ms \in [Rank -> Monitors] /\ Fit(m, ms[m]) /\ LeadA(ms, n, m)
  BY DEF AskInv
<1>2. /\ ms[m] \in Monitors /\ ms[m].accepted_pn \in Nat /\ ms[m].last_committed \in Nat
      /\ ms[m].quorum \subseteq Rank /\ ms[m].num_last \in Nat
  BY <1>1 DEF Monitors
<1>3. ms[m].accepted_pn % 100 = m /\ ms[m].accepted_pn <= ms[m].last_pn
  BY <1>1, FitFacts
<1>4. m \in ms[m].quorum /\ \A p \in Rank \ {m} : PairA(n, m, p, ms[p], ms[m])
  BY <1>1 DEF LeadA
<1>5. LeadB(H, K, ms, n, m) /\ H \subseteq VoteType
  BY DEF Core
<1>6. /\ ms[m].accepted_pn > 0 /\ Majority(ms[m].quorum)
      /\ \A h \in H : h.pn = ms[m].accepted_pn => h.v <= Reach(ms[m])
      /\ \A p \in Rank \ {m} : PairB(H, n, m, p, ms[p], ms[m])
  BY <1>5 DEF LeadB
<1>. QED
  BY <1>2, <1>3, <1>4, <1>5, <1>6

\* Everyone in the quorum has answered.
LEMMA AllHeeded ==
  ASSUME NEW ms, NEW n, AskInv(ms, n), NEW H, NEW K, Core(H, K, ms, n), NEW m \in Rank,
         ms[m].role = "leader", N > 1, ms[m].state = "recovering",
         ms[m].num_last >= Cardinality(ms[m].quorum), NEW p \in ms[m].quorum
  PROVE  (p # m => Bound(ms[p]) >= ms[m].accepted_pn) /\ Reported(H, ms[m], p)
<1>. DEFINE s == ms[m]
            S == Heeded(H, ms, n, m)
<1>1. s.quorum \subseteq Rank /\ m \in s.quorum /\ s.num_last \in Nat
  BY LeadsB
<1>2. LeadB(H, K, ms, n, m)
  BY DEF Core
<1>3. s.num_last - 1 <= Cardinality(S) /\ Reported(H, s, m)
  BY <1>2 DEF LeadB
<1>4. S \subseteq s.quorum \ {m}
  BY DEF Heeded, SilentOnes
<1>. HIDE DEF S
<1>5. S = s.quorum \ {m}
  BY <1>1, <1>3, <1>4, FullPart
<1>6. CASE p = m
  BY <1>3, <1>6
<1>7. CASE p # m
  <2>1. p \in S
    BY <1>5, <1>7
  <2>. QED
    BY <2>1 DEF S, Heeded
<1>. QED
  BY <1>6, <1>7

\* There are no questions or answers of epoch e between m and p.
Idle(n, m, p, e) ==
  /\ ~Asks(n[m][p], e) /\ ~Answers(n[p][m], e)
  /\ \A i \in 1 .. Len(n[m][p]) : ~Is(n[m][p][i], "BEGIN", e)
  /\ \A i \in 1 .. Len(n[p][m]) : ~Is(n[p][m][i], "ACCEPT", e)

\* Nothing on its way between m and p
LEMMA IdlePair ==
  ASSUME NEW n, NEW m, NEW p, NEW s, Idle(n, m, p, s.epoch), NEW t, NEW H
  PROVE  PairB(H, n, m, p, t, s)
  BY NoPairB DEF Idle

\* A leader that is not in a round has nothing on its way.
LEMMA IdleQuorum ==
  ASSUME NEW ms, NEW n, AskInv(ms, n), NEW H, NEW K, Core(H, K, ms, n), NEW m \in Rank,
         ms[m].role = "leader", N > 1, ~Updating(ms[m]), AllSilent(n, m, ms[m]),
         NEW p \in Rank, p # m
  PROVE  Idle(n, m, p, ms[m].epoch)
<1>1. PairB(H, n, m, p, ms[p], ms[m]) /\ PairA(n, m, p, ms[p], ms[m])
  BY LeadsB
<1>2. ~Asks(n[m][p], ms[m].epoch) /\ ~Answers(n[p][m], ms[m].epoch)
  <2>1. CASE p \in ms[m].quorum
    BY <2>1 DEF AllSilent, Silent
  <2>2. CASE p \notin ms[m].quorum
    BY <1>1, <2>2 DEF PairA
  <2>. QED
    BY <2>1, <2>2
<1>. QED
  BY <1>1, <1>2 DEF Idle, PairB, Works

\* The leader has heard of everyone, and nothing is left to be done again.
Activates(s, t) ==
  /\ SameDisk(s, t) /\ t.role = "leader" /\ t.quorum = s.quorum /\ t.epoch = s.epoch
  /\ t.accepted_pn = s.accepted_pn /\ t.state = "active"
  /\ s.state = "recovering" /\ s.role = "leader"
  /\ s.num_last >= Cardinality(s.quorum) /\ s.uncommitted.v # s.last_committed + 1

\* Leader m has recovered, with nothing to commit.
LEMMA ActivateB ==
  ASSUME NEW ms, NEW n, AskInv(ms, n), NEW H, NEW K, Core(H, K, ms, n), NEW m \in Rank,
         NEW t \in Monitors, N > 1, Activates(ms[m], t)
  PROVE  Core(H, K, Moved(ms, m, t), n)
<1>. DEFINE s == ms[m]
            w == Moved(ms, m, t)
            a == s.accepted_pn
<1>0. ms[m].role = "leader" /\ ms[m].state = "recovering"
  BY DEF Activates
<1>1. /\ ms \in [Rank -> Monitors] /\ n \in Nets /\ s \in Monitors /\ a \in Nat
      /\ s.last_committed \in Nat /\ s.quorum \subseteq Rank
  BY <1>0, LeadsB DEF AskInv
<1>2. w[m] = t /\ \A p \in Rank \ {m} : w[p] = ms[p]
  BY <1>1, MovedAt
<1>3. Shorter(n, n)
  BY <1>1, SuffixSame DEF Shorter, Nets
<1>4. MonB(H, K, m, t) /\ Advances(s, t)
  <2>1. t.accepted_pn >= s.accepted_pn /\ SameDisk(s, t) /\ MonB(H, K, m, s)
    BY <1>1 DEF Activates, Core
  <2>. QED
    BY <1>0, <1>1, <2>1, StaysB
<1>5. /\ t.role = "leader" /\ t.quorum = s.quorum /\ t.epoch = s.epoch
      /\ t.accepted_pn = a /\ t.state = "active" /\ t.last_committed = s.last_committed
      /\ s.num_last >= Cardinality(s.quorum) /\ s.uncommitted.v # s.last_committed + 1
  BY DEF Activates, SameDisk, SameStore
<1>6. Reach(t) = s.last_committed /\ Reach(s) = s.last_committed /\ ~InRound(t)
  BY <1>0, <1>1, <1>5 DEF Reach, InRound
<1>7. AllSilent(n, m, s) /\ ~Updating(s)
  BY <1>0, <1>5, CountedA DEF Updating
<1>8. ASSUME NEW p \in Rank \ {m} PROVE PairB(H, n, m, p, w[p], t)
  BY <1>0, <1>5, <1>7, IdleQuorum, IdlePair
<1>9. ASSUME NEW p \in s.quorum
      PROVE  /\ p # m => Bound(w[p]) >= a
             /\ \A h \in H : h.p = p /\ h.pn < a => h.v <= s.last_committed
  <2>1. (p # m => Bound(ms[p]) >= a) /\ Reported(H, s, p)
    BY <1>0, <1>5, AllHeeded
  <2>2. p # m => w[p] = ms[p]
    BY <1>1, <1>2
  <2>3. ASSUME NEW h \in H, h.p = p, h.pn < a PROVE h.v <= s.last_committed
    <3>1. h.v \in Nat
      BY <1>0, LeadsB, VoteIs
    <3>. QED
      BY <1>1, <1>5, <2>1, <2>3, <3>1 DEF Reported
  <2>. QED
    BY <2>1, <2>2, <2>3
<1>10. /\ a > 0 /\ Majority(s.quorum) /\ \A h \in H : h.pn = a => h.v <= s.last_committed
  BY <1>0, <1>6, LeadsB
<1>11. LeadB(H, K, w, n, m)
  BY <1>2, <1>5, <1>6, <1>8, <1>9, <1>10 DEF LeadB
<1>. QED
  BY <1>1, <1>3, <1>4, <1>11, MicroSilent

\* The store gets a value x for the version after the last, under number b.
Stores(s, t, b, x) ==
  /\ t.log = Over(One(s.last_committed + 1, x), s.log)
  /\ t.pending_v = s.last_committed + 1 /\ t.pending_pn = b
  /\ t.last_committed = s.last_committed /\ t.first_committed = s.first_committed
  /\ t.last_pn = s.last_pn /\ t.stored_pn = s.stored_pn /\ t.epoch = s.epoch

\* The store takes a value (begin, handle_begin).
LEMMA StoresB ==
  ASSUME NEW H, NEW G, NEW K, NEW m, NEW s \in Monitors, NEW t \in Monitors, NEW b \in Nat,
         NEW x \in Value, x.trim <= s.last_committed, Stores(s, t, b, x), MonB(H, K, m, s),
         N > 1 => b >= s.pending_pn /\ b <= t.accepted_pn /\ b <= Larger(s.stored_pn, s.last_pn),
         s.first_committed <= s.last_committed,
         N > 1 => Vote(m, s.last_committed + 1, b, x) \in G
  PROVE  MonB(G, K, m, t) /\ Advances(s, t)
<1>. DEFINE k == s.last_committed + 1
<1>1. /\ s.last_committed \in Nat /\ s.first_committed \in Nat /\ s.log \in VMaps
      /\ k \in Nat /\ x.trim \in Nat /\ s.pending_pn \in Nat /\ s.stored_pn \in Nat
      /\ s.last_pn \in Nat /\ s.epoch \in Nat /\ x.trim < k
  BY DEF Monitors, Value
<1>2. /\ t.log = Over(One(k, x), s.log)
      /\ t.pending_v = k /\ t.pending_pn = b
      /\ t.last_committed = s.last_committed /\ t.first_committed = s.first_committed
      /\ t.last_pn = s.last_pn /\ t.stored_pn = s.stored_pn /\ t.epoch = s.epoch
  BY DEF Stores
<1>3. One(k, x) \in VMaps /\ DOMAIN One(k, x) = {k} /\ One(k, x)[k] = x
  BY <1>1, OneMap
<1>4. /\ DOMAIN t.log = {k} \cup DOMAIN s.log /\ t.log[k] = x
      /\ \A v \in DOMAIN s.log : v # k => t.log[v] = s.log[v]
  <2>. DEFINE f == One(k, x)
  <2>1. f \in VMaps /\ DOMAIN f = {k} /\ f[k] = x /\ t.log = Over(f, s.log)
    BY <1>2, <1>3
  <2>. HIDE DEF f, k
  <2>2. /\ DOMAIN Over(f, s.log) = DOMAIN f \cup DOMAIN s.log
        /\ \A v \in DOMAIN f : Over(f, s.log)[v] = f[v]
        /\ \A v \in DOMAIN s.log \ DOMAIN f : Over(f, s.log)[v] = s.log[v]
    BY <1>1, <2>1, OverMap
  <2>. QED
    BY <2>1, <2>2
<1>5. DOMAIN s.log \subseteq Nat
  BY <1>1, VMapsDef
<1>6. Whole(s) /\ Stored(K, s)
  BY DEF MonB
<1>7. Whole(t)
  <2>1. \A v \in t.first_committed .. t.last_committed : v = 0 \/ v \in DOMAIN t.log
    BY <1>2, <1>4, <1>6 DEF Whole
  <2>2. \A v \in DOMAIN t.log : t.first_committed <= v /\ v <= t.last_committed + 1
    BY <1>1, <1>2, <1>4, <1>6 DEF Whole
  <2>. QED
    BY <1>2, <2>1, <2>2 DEF Whole
<1>8. Stored(K, t)
  <2>1. ASSUME NEW v \in DOMAIN t.log, v <= t.last_committed
        PROVE  [v |-> v, value |-> t.log[v]] \in K
    <3>1. v \in DOMAIN s.log /\ v # k /\ v <= s.last_committed
      BY <1>1, <1>2, <1>4, <1>5, <2>1
    <3>2. t.log[v] = s.log[v] /\ [v |-> v, value |-> s.log[v]] \in K
      BY <1>4, <1>6, <3>1 DEF Stored
    <3>. QED
      BY <3>2
  <2>. QED
    BY <1>2, <1>6, <2>1 DEF Stored
<1>9. Advances(s, t)
  BY <1>1, <1>2 DEF Advances
<1>10. PromiseOK(t)
  BY <1>2 DEF PromiseOK
<1>. QED
  BY <1>2, <1>4, <1>7, <1>8, <1>9, <1>10 DEF MonB

\* Only under number a are votes added.
LEMMA BackedBy ==
  ASSUME NEW H, NEW G, H \subseteq G, NEW w, NEW v \in Nat, NEW x, NEW c \in Nat,
         \A h \in G \ H : h.pn # c, NEW Q, Q \subseteq Rank, Majority(Q),
         \A p \in Q : Vote(p, v, c, x) \in H \/ (Bound(w[p]) > c /\ NoVote(H, p, v, c))
  PROVE  Majority(Backers(G, w, v, c, x))
<1>1. ASSUME NEW p \in Q PROVE p \in Backers(G, w, v, c, x)
  <2>1. CASE Vote(p, v, c, x) \in H
    BY <2>1 DEF Backers
  <2>2. CASE Bound(w[p]) > c /\ NoVote(H, p, v, c)
    <3>1. NoVote(G, p, v, c)
      BY <2>2 DEF NoVote
    <3>. QED
      BY <2>2, <3>1 DEF Backers
  <2>. QED
    BY <2>1, <2>2
<1>2. Q \subseteq Backers(G, w, v, c, x) /\ Backers(G, w, v, c, x) \subseteq Rank
  BY <1>1 DEF Backers
<1>. QED
  BY <1>2, MajorityGrows

\* Leader m knows what it may propose for the next version.
Ready(H, K, ms, n, m, x) ==
  LET s == ms[m]
      k == s.last_committed + 1
  IN  /\ s.role = "leader" /\ s.state \in {"recovering", "active"} /\ AllSilent(n, m, s)
      /\ x \in Value /\ x.trim <= s.last_committed /\ Later(K, k, x)
      /\ \A p \in s.quorum : p # m => Bound(ms[p]) >= s.accepted_pn
      /\ \A p \in s.quorum : \A h \in H : h.p = p /\ h.pn < s.accepted_pn => h.v <= k
      /\ \/ \A p \in s.quorum : \A h \in H : h.p = p /\ h.pn < s.accepted_pn => h.v < k
         \/ \E g \in H : /\ g.v = k /\ g.x = x
                         /\ \A p \in s.quorum : \A h \in H :
                              h.p = p /\ h.pn < s.accepted_pn /\ h.v = k => h.pn <= g.pn

\* The heart of the argument: a leader that has heard a majority that is now bound
\* by its number, and proposes what was voted for under the highest number it was
\* told of, proposes what is safe.
LEMMA ReadySafe ==
  ASSUME NEW ms, NEW n, AskInv(ms, n), NEW H, NEW K, Core(H, K, ms, n), NEW m \in Rank, N > 1,
         NEW x, Ready(H, K, ms, n, m, x), NEW t \in Monitors, Advances(ms[m], t),
         t.pending_pn = ms[m].accepted_pn, NEW G, Casts(H, G, m, ms[m]), G \subseteq VoteType,
         \A h \in G \ H : h.pn = ms[m].accepted_pn, NEW w, w = Moved(ms, m, t),
         NEW k, k = ms[m].last_committed + 1
  PROVE  Safe(G, w, k, ms[m].accepted_pn, x)
<1>. DEFINE s == ms[m]
            a == s.accepted_pn
            Q == s.quorum
<1>1. s.role = "leader"
  BY DEF Ready
<1>2. /\ ms \in [Rank -> Monitors] /\ a \in Nat /\ s.last_committed \in Nat /\ k \in Nat
      /\ Q \subseteq Rank /\ Majority(Q) /\ H \subseteq VoteType
  BY <1>1, LeadsB DEF AskInv
<1>3. w[m] = t /\ \A p \in Rank \ {m} : w[p] = ms[p]
  BY <1>2, MovedAt
<1>4. H \subseteq G
  BY DEF Casts
<1>5. ASSUME NEW p \in Q PROVE Bound(w[p]) >= a /\ Bound(w[p]) \in Nat
  <2>1. CASE p = m
    BY <1>3, <2>1, BoundIs
  <2>2. CASE p # m
    <3>1. w[p] = ms[p] /\ ms[p] \in Monitors
      BY <1>2, <1>3, <2>2
    <3>. QED
      BY <2>2, <3>1, BoundIs DEF Ready
  <2>. QED
    BY <2>1, <2>2
<1>. SUFFICES ASSUME NEW c \in 0 .. a - 1 PROVE Majority(Backers(G, w, k, c, x))
  BY DEF Safe
<1>6. c \in Nat /\ c < a /\ \A h \in G \ H : h.pn # c
  BY <1>2
<1>7. CASE \A p \in Q : \A h \in H : h.p = p /\ h.pn < a => h.v < k
  <2>1. ASSUME NEW p \in Q PROVE Bound(w[p]) > c /\ NoVote(H, p, k, c)
    BY <1>2, <1>5, <1>6, <1>7 DEF NoVote
  <2>. HIDE DEF Q
  <2>. QED
    BY <1>2, <1>4, <1>6, <2>1, BackedBy
<1>8. ASSUME NEW g \in H, g.v = k, g.x = x,
             \A p \in Q : \A h \in H : h.p = p /\ h.pn < a /\ h.v = k => h.pn <= g.pn
      PROVE  Majority(Backers(G, w, k, c, x))
  <2>1. g.pn \in Nat /\ VoteOK(H, K, ms, g)
    BY <1>2, VoteIs DEF Core
  <2>2. CASE c < g.pn
    <3>1. Safe(H, ms, k, g.pn, x)
      BY <1>8, <2>1 DEF VoteOK
    <3>2. Safe(G, w, k, g.pn, x)
      BY <1>2, <2>1, <3>1, SafeGrows
    <3>. QED
      BY <1>6, <2>1, <2>2, <3>2 DEF Safe
  <2>3. CASE c >= g.pn
    <3>1. ASSUME NEW p \in Q
          PROVE  Vote(p, k, c, x) \in H \/ (Bound(w[p]) > c /\ NoVote(H, p, k, c))
      <4>. SUFFICES ASSUME NEW h \in H, h.p = p, h.v = k, h.pn = c
                    PROVE  Vote(p, k, c, x) \in H
        BY <1>2, <1>5, <1>6 DEF NoVote
      <4>1. c = g.pn
        BY <1>6, <1>8, <2>1, <2>3
      <4>2. h.x = x
        BY <1>8, <4>1 DEF Core, OneValue
      <4>. QED
        BY <1>2, <4>2, VoteIs
    <3>. HIDE DEF Q
    <3>. QED
      BY <1>2, <1>4, <1>6, <3>1, BackedBy
  <2>. QED
    BY <1>6, <2>1, <2>2, <2>3
<1>. QED
  BY <1>7, <1>8 DEF Ready

\* What p finds in its channel when m sends msg to those of X
LEMMA SentOne ==
  ASSUME NEW n \in Nets, NEW m \in Rank, NEW X, NEW msg \in Messages, NEW p \in Rank,
         NEW c, c = Plus(n, m, SendTo(X, msg))[m][p]
  PROVE  IF p \in X THEN Appends(n[m][p], msg, c) ELSE c = n[m][p]
<1>. DEFINE out == SendTo(X, msg)
            u == n[m][p]
<1>1. out \in [Rank -> Seq(Messages)] /\ out[p] = IF p \in X THEN <<msg>> ELSE <<>>
  BY SendToAt
<1>. HIDE DEF out
<1>2. c = u \o out[p] /\ u \in Seq(Messages)
  BY <1>1, PlusMine, ZenonT(60) DEF out
<1>3. CASE p \in X
  <2>1. c = u \o <<msg>>
    BY <1>1, <1>2, <1>3
  <2>. HIDE DEF u
  <2>2. Appends(u, msg, c)
    BY <1>2, <2>1, OneMore
  <2>. QED
    BY <1>3, <2>2 DEF u
<1>4. CASE p \notin X
  BY <1>1, <1>2, <1>4
<1>. QED
  BY <1>3, <1>4

\* A BEGIN is on its way to p.
LEMMA BeginPair ==
  ASSUME NEW n \in Nets, NEW m \in Rank, NEW X, NEW msg \in Messages, NEW p \in Rank, p # m,
         NEW s, Idle(n, m, p, s.epoch), msg.op = "BEGIN", p \in X => Works(s, p, msg),
         NEW G, NEW t, NEW n2, n2 = Plus(n, m, SendTo(X, msg))
  PROVE  PairB(G, n2, m, p, t, s)
<1>. DEFINE u == n[m][p]  c == n2[m][p]  e == s.epoch
<1>1. n2[p][m] = n[p][m]
  <2>. DEFINE out == SendTo(X, msg)
  <2>1. out \in [Rank -> Seq(Messages)] /\ n2 = Plus(n, m, out)
    BY SendToAt
  <2>. HIDE DEF out
  <2>. QED
    BY <2>1, PlusOther
<1>2. IF p \in X THEN Appends(u, msg, c) ELSE c = u
  BY SentOne
<1>3. /\ \A i \in 1 .. Len(u) : ~Is(u[i], "COLLECT", e) /\ ~Is(u[i], "BEGIN", e)
      /\ \A i \in 1 .. Len(n2[p][m]) :
           ~Is(n2[p][m][i], "LAST", e) /\ ~Is(n2[p][m][i], "ACCEPT", e)
  BY <1>1 DEF Idle, Asks, Answers
<1>. HIDE DEF u, c
<1>4. CASE p \in X
  <2>1. /\ Len(u) \in Nat /\ Len(c) = Len(u) + 1 /\ c[Len(u) + 1] = msg
        /\ \A i \in 1 .. Len(u) : c[i] = u[i]
        /\ \A i \in 1 .. Len(c) : i \in 1 .. Len(u) \/ i = Len(u) + 1
    BY <1>2, <1>4 DEF Appends
  <2>2. \A i \in 1 .. Len(c) : ~Is(c[i], "COLLECT", e)
    BY <1>3, <2>1 DEF Is
  <2>3. \A i \in 1 .. Len(c) : Is(c[i], "BEGIN", e) => i = Len(u) + 1 /\ c[i] = msg
    BY <1>3, <2>1
  <2>. QED
    BY <1>3, <1>4, <2>2, <2>3 DEF PairB, c
<1>5. CASE p \notin X
  <2>1. c = u
    BY <1>2, <1>5
  <2>. QED
    BY <1>3, <2>1 DEF PairB, c
<1>. QED
  BY <1>4, <1>5

\* The leader votes for x and asks the others to.
Begins(m, s, t, x, msg) ==
  /\ Stores(s, t, s.accepted_pn, x)
  /\ t.role = "leader" /\ t.quorum = s.quorum /\ t.accepted_pn = s.accepted_pn
  /\ t.accepted = {m} /\ t.new_value = x /\ Updating(t)
  /\ msg \in Messages /\ msg.op = "BEGIN" /\ msg.epoch = s.epoch /\ msg.pn = s.accepted_pn
  /\ msg.lc = s.last_committed /\ msg.values = One(s.last_committed + 1, x)

\* Leader m begins a round and votes for its own value (begin).
LEMMA BeginB ==
  ASSUME NEW ms, NEW n, AskInv(ms, n), NEW H, NEW K, Core(H, K, ms, n), NEW m \in Rank,
         NEW t \in Monitors, N > 1, NEW x, NEW msg, Begins(m, ms[m], t, x, msg),
         Ready(H, K, ms, n, m, x)
  PROVE  \E G : Core(G, K, Moved(ms, m, t), Plus(n, m, SendTo(t.quorum \ {m}, msg)))
<1>. DEFINE s == ms[m]
            w == Moved(ms, m, t)
            a == s.accepted_pn
            k == s.last_committed + 1
            X == t.quorum \ {m}
            out == SendTo(X, msg)
            n2 == Plus(n, m, out)
            g == Vote(m, k, a, x)
            G == H \cup {g}
<1>0. ms[m].role = "leader" /\ x \in Value /\ x.trim <= s.last_committed
  BY DEF Ready
<1>1. /\ ms \in [Rank -> Monitors] /\ n \in Nets /\ s \in Monitors /\ a \in Nat
      /\ s.last_committed \in Nat /\ s.quorum \subseteq Rank /\ H \subseteq VoteType
      /\ a > 0 /\ Majority(s.quorum) /\ a % 100 = m /\ a <= s.last_pn /\ k \in Nat
      /\ m \in s.quorum
  <2>1. ms \in [Rank -> Monitors] /\ n \in Nets
    BY DEF AskInv
  <2>2. /\ s \in Monitors /\ a \in Nat
        /\ s.last_committed \in Nat /\ s.quorum \subseteq Rank /\ H \subseteq VoteType
        /\ a > 0 /\ Majority(s.quorum) /\ a % 100 = m /\ a <= s.last_pn /\ m \in s.quorum
    BY <1>0, LeadsB
  <2>. QED
    BY <2>1, <2>2
<1>2. w[m] = t /\ \A p \in Rank \ {m} : w[p] = ms[p]
  BY <1>1, MovedAt
<1>3. Shorter(n, n)
  BY <1>1, SuffixSame DEF Shorter, Nets
<1>4. /\ g.p = m /\ g.v = k /\ g.pn = a /\ g.x = x /\ g \in VoteType
  BY <1>0, <1>1, VoteFields DEF VoteType, Vote
<1>5. MonB(H, K, m, s) /\ Fit(m, s) /\ PnsA(ms, m)
  BY DEF Core, AskInv
<1>6. /\ s.first_committed <= s.last_committed /\ s.pending_pn <= a /\ s.stored_pn <= a
      /\ s.pending_pn \in Nat /\ s.stored_pn \in Nat /\ s.last_pn \in Nat
      /\ a <= Larger(s.stored_pn, s.last_pn)
  BY <1>0, <1>1, <1>5, FitFacts DEF MonB, PromiseOK, PnsA, Monitors
<1>7. /\ Stores(s, t, a, x) /\ t.role = "leader" /\ t.quorum = s.quorum /\ t.accepted_pn = a
      /\ t.accepted = {m} /\ t.new_value = x /\ Updating(t) /\ msg \in Messages
      /\ msg.op = "BEGIN" /\ msg.epoch = s.epoch /\ msg.pn = a /\ msg.lc = s.last_committed
      /\ msg.values = One(k, x)
  BY DEF Begins
<1>8. /\ t.pending_v = k /\ t.pending_pn = a /\ t.last_committed = s.last_committed
      /\ t.last_pn = s.last_pn /\ t.epoch = s.epoch
  BY <1>7 DEF Stores
<1>. HIDE DEF g
<1>9. MonB(G, K, m, t) /\ Advances(s, t)
  <2>1. Vote(m, s.last_committed + 1, a, x) \in G
    BY DEF g
  <2>. QED
    BY <1>0, <1>1, <1>5, <1>6, <1>7, <2>1, StoresB
<1>10. Casts(H, G, m, s)
  <2>1. a >= Bound(s)
    BY <1>1, <1>6, BoundIs
  <2>. QED
    BY <1>1, <1>4, <2>1 DEF Casts
<1>11. Commits(G, K, K, ms, w)
  BY DEF Commits, Core, Chosen
<1>12. G \subseteq VoteType /\ \A h \in G \ H : h.pn = a
  BY <1>1, <1>4
<1>13. \A h \in H : h.pn = a => h.v <= s.last_committed
  <2>1. Reach(s) = s.last_committed
    BY <1>1 DEF Ready, Reach, InRound
  <2>. QED
    BY <1>0, <2>1, LeadsB
<1>14. OneValue(G)
  <2>1. ASSUME NEW h \in H PROVE ~(h.v = k /\ h.pn = a)
    BY <1>1, <1>13
  <2>2. OneValue(H)
    BY DEF Core
  <2>. QED
    BY <1>4, <2>1, <2>2 DEF OneValue
<1>. HIDE DEF w
<1>15. VoteOK(G, K, w, g)
  <2>1. Safe(G, w, k, a, x)
    BY <1>8, <1>9, <1>10, <1>12, ReadySafe DEF w
  <2>2. Later(K, k, x)
    BY DEF Ready
  <2>3. OwnPn(w, a)
    BY <1>1, <1>2, <1>8 DEF OwnPn
  <2>4. w[g.p] = t
    BY <1>2, <1>4
  <2>. QED
    BY <1>1, <1>4, <1>8, <2>1, <2>2, <2>3, <2>4 DEF VoteOK
<1>16. out \in [Rank -> Seq(Messages)]
  BY <1>7, SendToAt
<1>17. ASSUME NEW d \in Rank, NEW i \in 1 .. Len(out[d])
       PROVE  out[d][i] = msg /\ MsgB(G, K, w, m, d, out[d][i])
  <2>1. out[d][i] = msg
    BY <1>7, SendToOne
  <2>2. One(k, x)[k] = x /\ DOMAIN One(k, x) = {k}
    BY DEF One
  <2>3. k \in DOMAIN msg.values /\ msg.values[k] = x /\ msg.lc + 1 = k
    BY <1>7, <2>2
  <2>4. Vote(m, k, a, x) \in G
    BY DEF g
  <2>5. msg.epoch <= w[m].epoch
    BY <1>1, <1>2, <1>7, <1>8 DEF Monitors
  <2>6. MsgB(G, K, w, m, d, msg)
    BY <1>7, <2>3, <2>4, <2>5 DEF MsgB
  <2>. QED
    BY <2>1, <2>6
<1>18. \A q \in Rank \ {m} : Mute(out, q)
  <2>. SUFFICES ASSUME NEW q \in Rank \ {m}, NEW i \in 1 .. Len(out[q])
                PROVE  out[q][i].op \notin {"LAST", "ACCEPT"}
    BY DEF Mute, Without
  <2>. QED
    BY <1>7, <1>17
<1>19. LeadB(G, K, w, n2, m)
  <2>1. InRound(t) /\ t.state # "recovering" /\ ~IsWriting(t) /\ Reach(t) = k
    BY <1>1, <1>7, <1>8 DEF InRound, Reach, IsWriting, Updating
  <2>2. ASSUME NEW p \in Rank \ {m} PROVE PairB(G, n2, m, p, w[p], t)
    <3>1. p \in Rank /\ p # m /\ ~Updating(s) /\ AllSilent(n, m, s)
      BY DEF Ready, Updating
    <3>2. Idle(n, m, p, t.epoch)
      BY <1>0, <1>8, <3>1, IdleQuorum
    <3>3. p \in X => Works(t, p, msg)
      BY <1>7, <1>8 DEF Works
    <3>. HIDE DEF X
    <3>. QED
      BY <1>1, <1>7, <3>1, <3>2, <3>3, BeginPair
  <2>3. ASSUME NEW h \in G, h.pn = a PROVE h.v <= k
    BY <1>1, <1>4, <1>12, <1>13, <2>3, VoteIs
  <2>4. ASSUME NEW p \in s.quorum
        PROVE  /\ p # m => Bound(w[p]) >= a
               /\ \A h \in G : h.p = p /\ h.pn < a => h.v <= k
    <3>1. /\ p # m => Bound(ms[p]) >= a
          /\ \A h \in H : h.p = p /\ h.pn < a => h.v <= k
      BY DEF Ready
    <3>2. p # m => w[p] = ms[p]
      BY <1>1, <1>2
    <3>. QED
      BY <1>1, <1>4, <3>1, <3>2
  <2>5. \A p \in t.accepted : Vote(p, t.last_committed + 1, t.accepted_pn, t.new_value) \in G
    BY <1>7, <1>8 DEF g
  <2>. HIDE DEF n2, G
  <2>. QED
    BY <1>1, <1>2, <1>7, <2>1, <2>2, <2>3, <2>4, <2>5 DEF LeadB
<1>. HIDE DEF G, out
<1>20. \A h \in G \ H : VoteOK(G, K, w, h)
  BY <1>15 DEF G
<1>21. w = Moved(ms, m, t)
  BY DEF w
<1>22. LeadB(G, K, w, Plus(n, m, out), m)
  BY <1>19
<1>23. /\ \A d \in Rank : \A i \in 1 .. Len(out[d]) : MsgB(G, K, w, m, d, out[d][i])
       /\ \A q \in Rank \ {m} :
            Mute(out, q) \/ StillPair(G, n, Plus(n, m, out), q, m, t, ms[q])
       /\ N > 1 => /\ G \subseteq VoteType /\ OneValue(G)
                   /\ \A h \in G \ H : VoteOK(G, K, w, h)
  BY <1>12, <1>14, <1>17, <1>18, <1>20
<1>24. /\ n \in Nets /\ Advances(ms[m], t) /\ Casts(H, G, m, ms[m]) /\ MonB(G, K, m, t)
  BY <1>1, <1>9, <1>10
<1>. HIDE DEF s, n2, a, X, k
<1>25. Core(G, K, w, Plus(n, m, out))
  BY <1>3, <1>11, <1>16, <1>21, <1>22, <1>23, <1>24, MicroB
<1>. QED
  BY <1>25 DEF w, out, X

(***************************************************************************)
(* Versions are committed and learnt.                                       *)
(***************************************************************************)

\* The versions up to k that trim
Trims(s, k, values) == {v \in s.last_committed + 1 .. k : values[v].trim > 0}

\* t has the versions of values up to k.
Learns(s, t, k, values) ==
  /\ k \in Nat /\ k > s.last_committed /\ t.last_committed = k
  /\ t.first_committed = IF Trims(s, k, values) # {} THEN values[Max(Trims(s, k, values))].trim
                         ELSE IF 1 \in s.last_committed + 1 .. k THEN 1 ELSE s.first_committed
  /\ DOMAIN t.log = {v \in (s.last_committed + 1 .. k) \cup DOMAIN s.log : v >= t.first_committed}
  /\ \A v \in DOMAIN t.log :
        t.log[v] = IF v \in s.last_committed + 1 .. k THEN values[v] ELSE s.log[v]
  /\ t.pending_v = s.pending_v /\ t.pending_pn = s.pending_pn /\ t.last_pn = s.last_pn
  /\ t.stored_pn = s.stored_pn /\ t.epoch = s.epoch /\ t.accepted_pn = s.accepted_pn

\* Versions are read into the store (store_state, commit_finish).
LEMMA LearnIs ==
  ASSUME NEW s \in Monitors, NEW k \in Nat, k > s.last_committed, NEW values, NEW W,
         W = s.last_committed + 1 .. k
  PROVE  Learns(s, Learn(s, W, values), k, values)
<1>. DEFINE part  == [v \in W |-> values[v]]
            log   == Over(part, s.log)
            trims == {v \in W : values[v].trim > 0}
            fc    == IF trims # {} THEN values[Max(trims)].trim
                     ELSE IF 1 \in W THEN 1 ELSE s.first_committed
            V     == {w \in DOMAIN log : w >= fc}
            lg    == [v \in V |-> log[v]]
            t     == Learn(s, W, values)
<1>1. t = [s EXCEPT !.log = lg, !.first_committed = fc, !.last_committed = Max(W)]
  BY DEF Learn
<1>2. trims = Trims(s, k, values)
  BY DEF Trims
<1>3. DOMAIN log = W \cup DOMAIN s.log /\ \A v \in DOMAIN log :
        log[v] = IF v \in W THEN values[v] ELSE s.log[v]
  BY DEF Over
<1>4. Max(W) = k
  <2>1. s.last_committed \in Nat /\ s.last_committed + 1 \in Nat /\ k \in W
    BY DEF Monitors
  <2>2. Max(W) \in W /\ \A x \in W : x <= Max(W)
    BY <2>1, SetMax
  <2>. QED
    BY <2>1, <2>2
<1>5. DOMAIN lg = {v \in W \cup DOMAIN s.log : v >= fc} /\ \A v \in DOMAIN lg :
        lg[v] = IF v \in W THEN values[v] ELSE s.log[v]
  <2>. HIDE DEF log, fc
  <2>. QED
    BY <1>3
<1>6. fc = IF Trims(s, k, values) # {} THEN values[Max(Trims(s, k, values))].trim
           ELSE IF 1 \in W THEN 1 ELSE s.first_committed
  BY <1>2
<1>. HIDE DEF lg, fc
<1>7. /\ t.log = lg /\ t.first_committed = fc /\ t.last_committed = k
      /\ t.pending_v = s.pending_v /\ t.pending_pn = s.pending_pn /\ t.last_pn = s.last_pn
      /\ t.stored_pn = s.stored_pn /\ t.epoch = s.epoch /\ t.accepted_pn = s.accepted_pn
  BY <1>1, <1>4, ZenonT(60) DEF Monitors
<1>. HIDE DEF t
<1>. QED
  BY <1>5, <1>6, <1>7 DEF Learns, t

\* The versions of L, of which K are known, are told in order.
LEMMA LearnB ==
  ASSUME NEW s \in Monitors, NEW t \in Monitors, NEW K, NEW L, Whole(s), Stored(K, s),
         s.first_committed <= s.last_committed, NEW k, NEW values, Learns(s, t, k, values),
         K \subseteq L, L \subseteq [v: Nat \ {0}, value: Value],
         \A c \in L : c.v <= s.last_committed => c \in K,
         \A c, d \in L : c.v = d.v => c = d, \A c \in L : Later(L, c.v, c.value),
         \A v \in s.last_committed + 1 .. k : [v |-> v, value |-> values[v]] \in L
  PROVE  Whole(t) /\ Stored(L, t)
<1>. DEFINE l == s.last_committed
            W == l + 1 .. k
            T == Trims(s, k, values)
            fc == t.first_committed
<1>1. /\ k \in Nat /\ l \in Nat /\ k > l /\ t.last_committed = k /\ s.first_committed \in Nat
      /\ fc \in Nat /\ DOMAIN s.log \subseteq Nat /\ k \in W /\ l + 1 \in W /\ W \subseteq Nat
  BY VMapsDef DEF Learns, Monitors
<1>2. /\ DOMAIN t.log = {v \in W \cup DOMAIN s.log : v >= fc}
      /\ \A v \in DOMAIN t.log : t.log[v] = IF v \in W THEN values[v] ELSE s.log[v]
      /\ fc = IF T # {} THEN values[Max(T)].trim
              ELSE IF 1 \in W THEN 1 ELSE s.first_committed
      /\ t.pending_v = s.pending_v
  BY DEF Learns
<1>3. ASSUME NEW v \in W
      PROVE  /\ [v |-> v, value |-> values[v]] \in L /\ values[v].trim \in Nat
             /\ v \in Nat
  <2>1. [v |-> v, value |-> values[v]] \in [v: Nat \ {0}, value: Value]
    OBVIOUS
  <2>. QED
    BY <2>1 DEF Value
<1>4. ASSUME NEW c \in L PROVE c.v \in Nat /\ c.value.trim \in Nat /\ c = [v |-> c.v, value |-> c.value]
  BY DEF Value
<1>5. T # {} => Max(T) \in W /\ values[Max(T)].trim > 0 /\ \A v \in T : v <= Max(T)
  <2>1. T \subseteq l + 1 .. k /\ l + 1 \in Nat /\ k \in Nat
    BY <1>1 DEF Trims
  <2>. HIDE DEF T
  <2>2. T # {} => Max(T) \in T /\ \A v \in T : v <= Max(T)
    BY <2>1, SetMax
  <2>3. T # {} => Max(T) \in W /\ values[Max(T)].trim > 0
    BY <2>2 DEF T, Trims
  <2>. QED
    BY <2>2, <2>3
<1>. HIDE DEF T, fc, W
<1>6. T # {} => \A c \in L : c.v <= Max(T) => c.value.trim <= fc
  <2>. SUFFICES ASSUME T # {}, NEW c \in L, c.v <= Max(T) PROVE c.value.trim <= fc
    OBVIOUS
  <2>. DEFINE M == Max(T)
  <2>1. M \in W /\ fc = values[M].trim /\ values[M].trim > 0
    BY <1>2, <1>5
  <2>. HIDE DEF M
  <2>2. [v |-> M, value |-> values[M]] \in L /\ M \in Nat
    BY <1>3, <2>1
  <2>3. Later(L, M, values[M])
    BY <2>2
  <2>4. CASE c.v < M
    BY <2>1, <2>3, <2>4 DEF Later
  <2>5. CASE c.v = M
    <3>1. c = [v |-> M, value |-> values[M]]
      BY <2>2, <2>5
    <3>. QED
      BY <1>1, <2>1, <3>1
  <2>. QED
    BY <1>4, <2>2, <2>4, <2>5 DEF M
<1>7. s.first_committed <= fc
  <2>1. CASE T # {}
    <3>1. CASE s.first_committed <= 1
      BY <1>1, <1>2, <1>5, <2>1, <3>1
    <3>2. CASE \E c \in K : c.v <= l /\ c.value.trim = s.first_committed
      <4>1. PICK c \in K : c.v <= l /\ c.value.trim = s.first_committed
        BY <3>2
      <4>2. c \in L /\ c.v \in Nat /\ Max(T) > l /\ Max(T) \in Nat
        BY <1>1, <1>4, <1>5, <2>1 DEF W
      <4>3. c.v <= Max(T)
        BY <1>1, <4>1, <4>2
      <4>. QED
        BY <1>6, <2>1, <4>1, <4>2, <4>3
    <3>. QED
      BY <3>1, <3>2 DEF Stored
  <2>2. CASE T = {} /\ 1 \in W
    <3>1. fc = 1 /\ l = 0
      BY <1>1, <1>2, <2>2 DEF W
    <3>. QED
      BY <1>1, <3>1
  <2>3. CASE T = {} /\ 1 \notin W
    BY <1>1, <1>2, <2>3
  <2>. QED
    BY <2>1, <2>2, <2>3
<1>8. Whole(t)
  <2>1. ASSUME NEW v \in fc .. k PROVE v = 0 \/ v \in DOMAIN t.log
    <3>1. v \in Nat /\ v >= fc /\ v <= k /\ v >= s.first_committed
      BY <1>1, <1>7
    <3>2. CASE v <= l
      <4>1. v = 0 \/ v \in DOMAIN s.log
        BY <1>1, <3>1, <3>2 DEF Whole
      <4>. QED
        BY <1>2, <3>1, <4>1
    <3>3. CASE v > l
      <4>1. v \in W
        BY <1>1, <3>1, <3>3 DEF W
      <4>. QED
        BY <1>2, <3>1, <4>1
    <3>. QED
      BY <1>1, <3>1, <3>2, <3>3
  <2>2. ASSUME NEW v \in DOMAIN t.log PROVE fc <= v /\ v <= k /\ v \in Nat
    <3>1. v >= fc /\ (v \in W \/ v \in DOMAIN s.log) /\ v \in Nat
      BY <1>1, <1>2
    <3>2. v \in DOMAIN s.log => v <= l + 1
      BY DEF Whole
    <3>. QED
      BY <1>1, <3>1, <3>2 DEF W
  <2>. QED
    BY <1>1, <2>1, <2>2 DEF Whole, fc
<1>9. ASSUME NEW v \in DOMAIN t.log PROVE [v |-> v, value |-> t.log[v]] \in L
  <2>1. CASE v \in W
    BY <1>2, <1>3, <2>1
  <2>2. CASE v \notin W
    <3>1. v \in DOMAIN s.log /\ t.log[v] = s.log[v] /\ v \in Nat
      BY <1>1, <1>2, <2>2
    <3>2. v <= l + 1
      BY <3>1 DEF Whole
    <3>3. v <= l
      BY <1>1, <2>2, <3>1, <3>2
    <3>4. [v |-> v, value |-> s.log[v]] \in K
      BY <3>1, <3>3 DEF Stored
    <3>. QED
      BY <3>1, <3>4
  <2>. QED
    BY <2>1, <2>2
<1>10. ASSUME NEW v \in 1 .. k PROVE \E c \in L : c.v = v
  <2>1. CASE v \in W
    <3>1. [v |-> v, value |-> values[v]] \in L
      BY <1>3, <2>1
    <3>. QED
      BY <3>1
  <2>2. CASE v \notin W
    <3>1. v \in 1 .. l
      BY <1>1, <2>2 DEF W
    <3>. QED
      BY <3>1 DEF Stored
  <2>. QED
    BY <2>1, <2>2
<1>11. ASSUME NEW c \in L, c.v <= k PROVE c.value.trim <= fc
  <2>1. CASE c.v <= l
    <3>1. c.value.trim <= s.first_committed
      BY <2>1 DEF Stored
    <3>. QED
      BY <1>1, <1>4, <1>7, <3>1
  <2>2. CASE c.v > l
    <3>1. c.v \in W
      BY <1>1, <1>4, <1>11, <2>2 DEF W
    <3>2. [v |-> c.v, value |-> values[c.v]] \in L
      BY <1>3, <3>1
    <3>3. c.value = values[c.v]
      BY <1>4, <3>2
    <3>4. CASE c.value.trim > 0
      <4>1. c.v \in T
        BY <3>1, <3>3, <3>4 DEF T, Trims, W
      <4>. QED
        BY <1>5, <1>6, <4>1
    <3>. QED
      BY <1>1, <1>4, <3>4
  <2>. QED
    BY <1>1, <1>4, <2>1, <2>2
<1>12. fc <= 1 \/ \E c \in L : c.v <= k /\ c.value.trim = fc
  <2>1. CASE T # {}
    <3>1. Max(T) \in W /\ fc = values[Max(T)].trim
      BY <1>2, <1>5, <2>1
    <3>2. [v |-> Max(T), value |-> values[Max(T)]] \in L /\ Max(T) <= k
      BY <1>1, <1>3, <3>1 DEF W
    <3>. QED
      BY <3>1, <3>2
  <2>2. CASE T = {} /\ 1 \in W
    BY <1>2, <2>2
  <2>3. CASE T = {} /\ 1 \notin W
    <3>1. fc = s.first_committed
      BY <1>2, <2>3
    <3>2. CASE s.first_committed <= 1
      BY <3>1, <3>2
    <3>3. ASSUME NEW c \in K, c.v <= l, c.value.trim = s.first_committed
          PROVE  c \in L /\ c.v <= k /\ c.value.trim = fc
      BY <1>1, <1>4, <3>1, <3>3
    <3>. QED
      BY <3>2, <3>3 DEF Stored
  <2>. QED
    BY <2>1, <2>2, <2>3
<1>13. Stored(L, t)
  BY <1>1, <1>9, <1>10, <1>11, <1>12 DEF Stored, fc
<1>. QED
  BY <1>8, <1>13

\* All the votes are good ones.
VotesOK(H, K, ms) == \A h \in H : VoteOK(H, K, ms, h)

\* What is voted for under a later number is what a majority has voted for.
LEMMA VotedLater ==
  ASSUME NEW H, NEW K, NEW ms, H \subseteq VoteType, OneValue(H),
         VotesOK(H, K, ms), NEW v, NEW a \in Nat, NEW x,
         Majority(Voters(H, v, a, x)), NEW h \in H, h.v = v, h.pn >= a
  PROVE  h.x = x
<1>1. Voters(H, v, a, x) \subseteq Rank /\ h.pn \in Nat
  BY VoteIs DEF Voters
<1>2. CASE h.pn = a
  <2>1. PICK p \in Rank : p \in Voters(H, v, a, x)
    BY <1>1, SomeOne
  <2>. DEFINE g == Vote(p, v, a, x)
  <2>2. g \in H /\ g.v = v /\ g.pn = a /\ g.x = x
    BY <2>1, VoteFields DEF Voters
  <2>. HIDE DEF g
  <2>. QED
    BY <1>2, <2>2 DEF OneValue
<1>3. CASE h.pn > a
  <2>1. Safe(H, ms, v, h.pn, h.x) /\ a \in 0 .. h.pn - 1
    BY <1>1, <1>3 DEF VoteOK, VotesOK
  <2>2. Majority(Backers(H, ms, v, a, h.x)) /\ Backers(H, ms, v, a, h.x) \subseteq Rank
    BY <2>1 DEF Safe, Backers
  <2>3. PICK p \in Rank : p \in Voters(H, v, a, x) /\ p \in Backers(H, ms, v, a, h.x)
    BY <1>1, <2>2, Intersect
  <2>. DEFINE g == Vote(p, v, a, x)
              f == Vote(p, v, a, h.x)
  <2>4. g \in H /\ g.p = p /\ g.v = v /\ g.pn = a /\ g.x = x
    BY <2>3, VoteFields DEF Voters
  <2>5. f \in H \/ NoVote(H, p, v, a)
    BY <2>3 DEF Backers
  <2>6. f.v = v /\ f.pn = a /\ f.x = h.x
    BY VoteFields
  <2>. HIDE DEF g, f
  <2>. QED
    BY <2>4, <2>5, <2>6 DEF OneValue, NoVote
<1>. QED
  BY <1>1, <1>2, <1>3

\* Two values that majorities voted for are the same.
LEMMA SameChosen ==
  ASSUME NEW H, NEW K, NEW ms, H \subseteq VoteType, OneValue(H),
         VotesOK(H, K, ms), NEW v, NEW a \in Nat, NEW b \in Nat, NEW x, NEW y,
         Majority(Voters(H, v, a, x)), Majority(Voters(H, v, b, y))
  PROVE  x = y
<1>1. PICK p \in Rank : Vote(p, v, a, x) \in H
  <2>1. Voters(H, v, a, x) \subseteq Rank
    BY DEF Voters
  <2>. QED
    BY <2>1, SomeOne DEF Voters
<1>2. PICK q \in Rank : Vote(q, v, b, y) \in H
  <2>1. Voters(H, v, b, y) \subseteq Rank
    BY DEF Voters
  <2>. QED
    BY <2>1, SomeOne DEF Voters
<1>. DEFINE g == Vote(p, v, a, x)
            f == Vote(q, v, b, y)
<1>3. g \in H /\ f \in H /\ g.v = v /\ f.v = v /\ g.pn = a /\ f.pn = b /\ g.x = x /\ f.x = y
  BY <1>1, <1>2, VoteFields
<1>. HIDE DEF g, f
<1>4. a >= b \/ b >= a
  OBVIOUS
<1>5. CASE b >= a
  <2>1. f \in H /\ f.v = v /\ f.pn >= a
    BY <1>3, <1>5
  <2>2. f.x = x
    BY <2>1, VotedLater
  <2>. QED
    BY <1>3, <2>2
<1>6. CASE a >= b
  <2>1. g \in H /\ g.v = v /\ g.pn >= b
    BY <1>3, <1>6
  <2>2. g.x = y
    BY <2>1, VotedLater
  <2>. QED
    BY <1>3, <2>2
<1>. QED
  BY <1>4, <1>5, <1>6

\* The value of the round is in the log, for version k.
Finishes(s, t, k, values) ==
  /\ IsWriting(s) /\ s.role = "leader" /\ k = s.last_committed + 1
  /\ Learns(s, t, k, values) /\ values[k] = s.new_value
  /\ t.role = "leader" /\ t.quorum = s.quorum /\ t.state = "active"

\* The value of the round that is being written may be committed.
LEMMA MayCommit ==
  ASSUME NEW ms, NEW n, AskInv(ms, n), NEW H, NEW K, Core(H, K, ms, n), NEW m \in Rank,
         ms[m].role = "leader", IsWriting(ms[m]), NEW k, k = ms[m].last_committed + 1,
         NEW c, c = [v |-> k, value |-> ms[m].new_value], c \notin K,
         NEW w, N = 1 => \A p \in Rank : k <= w[p].last_committed
  PROVE  Commits(H, K, K \cup {c}, ms, w)
<1>. DEFINE s == ms[m]
            L == K \cup {c}
<1>1. /\ ms \in [Rank -> Monitors] /\ s \in Monitors /\ s.last_committed \in Nat
      /\ s.new_value \in Value /\ s.quorum \subseteq Rank /\ k \in Nat \ {0}
  <2>1. ms \in [Rank -> Monitors] /\ s \in Monitors
    BY DEF AskInv
  <2>2. s.last_committed \in Nat /\ s.new_value \in Value /\ s.quorum \subseteq Rank
    BY <2>1 DEF Monitors
  <2>. QED
    BY <2>1, <2>2
<1>2. Chosen(H, K, ms) /\ K \subseteq [v: Nat \ {0}, value: Value]
  BY DEF Core, Chosen
<1>3. /\ L \subseteq [v: Nat \ {0}, value: Value] /\ K \subseteq L /\ L \ K = {c}
      /\ c.v = k /\ c.value = s.new_value
  BY <1>1, <1>2
<1>4. InRound(s)
  BY DEF InRound, IsWriting
<1>5. LeadB(H, K, ms, n, m)
  BY DEF Core
<1>6. N > 1 => Majority(Voters(H, k, s.accepted_pn, s.new_value)) /\ s.accepted_pn \in Nat
               /\ Vote(m, k, s.accepted_pn, s.new_value) \in H
  <2>. SUFFICES ASSUME N > 1
                PROVE  Majority(Voters(H, k, s.accepted_pn, s.new_value)) /\ s.accepted_pn \in Nat
                       /\ Vote(m, k, s.accepted_pn, s.new_value) \in H
    OBVIOUS
  <2>1. Majority(s.quorum) /\ s.accepted_pn \in Nat
    BY LeadsB
  <2>2. /\ s.accepted = s.quorum /\ m \in s.accepted
        /\ \A p \in s.accepted : Vote(p, k, s.accepted_pn, s.new_value) \in H
    BY <1>4, <1>5 DEF LeadB
  <2>3. s.quorum \subseteq Voters(H, k, s.accepted_pn, s.new_value)
    BY <1>1, <2>2 DEF Voters
  <2>4. Voters(H, k, s.accepted_pn, s.new_value) \subseteq Rank
    BY DEF Voters
  <2>. QED
    BY <2>1, <2>2, <2>3, <2>4, MajorityGrows
<1>7. \A d \in K : d.v # k
  <2>. SUFFICES ASSUME NEW d \in K, d.v = k PROVE FALSE
    OBVIOUS
  <2>1. CASE N = 1
    <3>1. k <= s.last_committed
      BY <1>2, <2>1 DEF Chosen
    <3>. QED
      BY <1>1, <3>1
  <2>2. CASE N > 1
    <3>1. PICK b \in Nat : Majority(Voters(H, k, b, d.value))
      BY <1>2, <2>2 DEF Chosen
    <3>2. H \subseteq VoteType /\ OneValue(H) /\ VotesOK(H, K, ms)
      BY <2>2 DEF Core, VotesOK
    <3>3. d.value = s.new_value
      BY <1>6, <2>2, <3>1, <3>2, SameChosen
    <3>4. d = c
      BY <1>2, <3>3
    <3>. QED
      BY <3>4
  <2>. QED
    BY <2>1, <2>2, NAssumption
<1>8. ASSUME NEW p \in Rank PROVE ms[p].last_committed < k
  <2>1. ms[p].last_committed \in Nat /\ Stored(K, ms[p])
    BY <1>1 DEF Core, MonB, Monitors
  <2>2. CASE k <= ms[p].last_committed
    <3>1. k \in 1 .. ms[p].last_committed
      BY <1>1, <2>1, <2>2
    <3>. QED
      BY <1>7, <2>1, <3>1 DEF Stored
  <2>. QED
    BY <1>1, <2>1, <2>2
<1>9. Later(K, k, s.new_value)
  <2>1. CASE N = 1
    BY <1>4, <1>5, <2>1 DEF LeadB
  <2>2. CASE N > 1
    <3>. DEFINE g == Vote(m, k, s.accepted_pn, s.new_value)
    <3>1. g \in H /\ g.v = k /\ g.x = s.new_value
      BY <1>6, <2>2, VoteFields
    <3>. HIDE DEF g
    <3>2. VoteOK(H, K, ms, g)
      BY <2>2, <3>1 DEF Core
    <3>. QED
      BY <3>1, <3>2 DEF VoteOK
  <2>. QED
    BY <2>1, <2>2, NAssumption
<1>10. Later(L, k, s.new_value)
  BY <1>1, <1>3, <1>9 DEF Later
<1>11. \A d \in L : d.v = k => d = c
  BY <1>7
<1>12. IF N = 1 THEN \A p \in Rank : k <= w[p].last_committed
       ELSE \E b \in Nat : Majority(Voters(H, k, b, s.new_value))
  BY <1>6, NAssumption
<1>. HIDE DEF L, s
<1>. QED
  BY <1>3, <1>8, <1>10, <1>11, <1>12 DEF Commits, L

\* Versions that are read advance the store.
LEMMA LearnsAdvance ==
  ASSUME NEW s \in Monitors, NEW t \in Monitors, NEW k, NEW values, Learns(s, t, k, values)
  PROVE  Advances(s, t) /\ s.last_committed \in Nat /\ k \in Nat /\ k > s.last_committed
<1>1. /\ s.stored_pn \in Nat /\ s.pending_pn \in Nat /\ s.last_pn \in Nat /\ s.epoch \in Nat
      /\ s.last_committed \in Nat
  BY DEF Monitors
<1>. QED
  BY <1>1 DEF Learns, Advances

\* The store after committed versions have been read
LEMMA LearnMon ==
  ASSUME NEW ms, NEW n, AskInv(ms, n), NEW H, NEW K, Core(H, K, ms, n), NEW m \in Rank,
         NEW t \in Monitors, NEW k, NEW values, Learns(ms[m], t, k, values), t.role = ms[m].role,
         NEW L, NEW w, Commits(H, K, L, ms, w),
         \A v \in ms[m].last_committed + 1 .. k : [v |-> v, value |-> values[v]] \in L
  PROVE  MonB(H, L, m, t)
<1>. DEFINE s == ms[m]
<1>1. s \in Monitors /\ Fit(m, s)
  BY DEF AskInv
<1>2. MonB(H, K, m, s) /\ Chosen(H, K, ms)
  BY DEF Core
<1>3. /\ s.first_committed <= s.last_committed /\ s.pending_v <= s.last_committed + 1
      /\ s.last_committed \in Nat /\ s.pending_v \in Nat
  BY <1>1, FitFacts DEF Monitors
<1>4. K \subseteq L /\ L \subseteq [v: Nat \ {0}, value: Value]
  BY DEF Commits
<1>5. ASSUME NEW c \in L, c.v <= s.last_committed PROVE c \in K
  <2>. SUFFICES ASSUME c \notin K PROVE FALSE
    OBVIOUS
  <2>1. s.last_committed < c.v /\ c.v \in Nat
    BY <1>4 DEF Commits
  <2>. QED
    BY <1>3, <1>5, <2>1
<1>6. ASSUME NEW c \in L, NEW d \in L, c.v = d.v PROVE c = d
  <2>1. CASE c \in K /\ d \in K
    BY <1>2, <1>6, <2>1 DEF Chosen
  <2>2. CASE c \notin K
    BY <1>6, <2>2 DEF Commits
  <2>3. CASE d \notin K
    BY <1>6, <2>3 DEF Commits
  <2>. QED
    BY <2>1, <2>2, <2>3
<1>7. ASSUME NEW c \in L PROVE Later(L, c.v, c.value)
  <2>1. CASE c \in K
    <3>. SUFFICES ASSUME c.value.trim > 0, NEW d \in L, d.v < c.v
                  PROVE  d.value.trim <= c.value.trim
      BY DEF Later
    <3>1. Later(K, c.v, c.value)
      BY <1>2, <2>1 DEF Chosen
    <3>2. CASE d \in K
      BY <3>1, <3>2 DEF Later
    <3>3. CASE d \notin K
      <4>1. \A p \in Rank : ms[p].last_committed < d.v /\ ms[p].last_committed \in Nat
        BY <3>3 DEF Commits, AskInv, Monitors
      <4>2. c.v \in Nat /\ d.v \in Nat
        BY <1>4
      <4>3. \E p \in Rank : c.v <= ms[p].last_committed + 1
        <5>1. CASE N = 1
          BY <1>2, <2>1, <4>1, <4>2, <5>1 DEF Chosen
        <5>2. CASE N > 1
          <6>1. PICK b \in Nat : Majority(Voters(H, c.v, b, c.value))
            BY <1>2, <2>1, <5>2 DEF Chosen
          <6>2. Voters(H, c.v, b, c.value) \subseteq Rank
            BY DEF Voters
          <6>3. PICK p \in Rank : p \in Voters(H, c.v, b, c.value)
            BY <6>1, <6>2, SomeOne
          <6>. DEFINE g == Vote(p, c.v, b, c.value)
          <6>4. g \in H /\ g.p = p /\ g.v = c.v
            BY <6>3, VoteFields DEF Voters
          <6>. HIDE DEF g
          <6>5. VoteOK(H, K, ms, g)
            BY <5>2, <6>4 DEF Core
          <6>. QED
            BY <6>4, <6>5 DEF VoteOK
        <5>. QED
          BY <5>1, <5>2, NAssumption
      <4>. QED
        BY <4>1, <4>2, <4>3
    <3>. QED
      BY <3>2, <3>3
  <2>2. CASE c \notin K
    BY <2>2 DEF Commits
  <2>. QED
    BY <2>1, <2>2
<1>8. Whole(t) /\ Stored(L, t)
  <2>1. Whole(s) /\ Stored(K, s)
    BY <1>2 DEF MonB
  <2>. QED
    BY <1>1, <1>3, <1>4, <1>5, <1>6, <1>7, <2>1, LearnB
<1>9. t.pending_pn = s.pending_pn /\ t.accepted_pn = s.accepted_pn /\ t.pending_v = s.pending_v
      /\ t.last_committed = k /\ k > s.last_committed /\ k \in Nat
  BY DEF Learns
<1>10. ~(t.pending_v > t.last_committed)
  BY <1>3, <1>9
<1>11. PromiseOK(t)
  <2>1. PromiseOK(s) /\ t.stored_pn = s.stored_pn /\ t.last_pn = s.last_pn
    BY <1>2 DEF MonB, Learns
  <2>. QED
    BY <1>9, <2>1 DEF PromiseOK
<1>. QED
  BY <1>8, <1>10, <1>11 DEF MonB

\* A round ends: its value is committed.
LEMMA CommitB ==
  ASSUME NEW ms, NEW n, AskInv(ms, n), NEW H, NEW K, Core(H, K, ms, n), NEW m \in Rank,
         NEW t \in Monitors, NEW k, NEW values, Finishes(ms[m], t, k, values)
  PROVE  \E L : K \subseteq L /\ Core(H, L, Moved(ms, m, t), n)
<1>. DEFINE s == ms[m]
            w == Moved(ms, m, t)
            c == [v |-> k, value |-> s.new_value]
            L == K \cup {c}
            a == s.accepted_pn
<1>1. ms \in [Rank -> Monitors] /\ n \in Nets /\ s \in Monitors
  BY DEF AskInv
<1>2. w[m] = t /\ \A p \in Rank \ {m} : w[p] = ms[p]
  BY <1>1, MovedAt
<1>3. Shorter(n, n)
  BY <1>1, SuffixSame DEF Shorter, Nets
<1>4. /\ s.role = "leader" /\ IsWriting(s) /\ k = s.last_committed + 1 /\ Learns(s, t, k, values)
      /\ values[k] = s.new_value /\ t.role = "leader" /\ t.quorum = s.quorum /\ t.state = "active"
  BY DEF Finishes
<1>5. /\ t.epoch = s.epoch /\ t.accepted_pn = a /\ t.last_committed = k
      /\ s.last_committed \in Nat /\ k \in Nat /\ Advances(s, t)
  <2>1. s.last_committed \in Nat /\ k \in Nat /\ Advances(s, t)
    BY <1>1, <1>4, LearnsAdvance
  <2>2. t.epoch = s.epoch /\ t.accepted_pn = a /\ t.last_committed = k
    BY <1>4 DEF Learns
  <2>. QED
    BY <2>1, <2>2
<1>6. Commits(H, K, L, ms, w)
  <2>1. CASE c \in K
    <3>1. L = K
      BY <2>1
    <3>2. Commits(H, K, K, ms, w)
      BY DEF Commits, Core, Chosen
    <3>. QED
      BY <3>1, <3>2
  <2>2. CASE c \notin K
    <3>1. N = 1 => \A p \in Rank : k <= w[p].last_committed
      <4>1. N = 1 => Rank = {m}
        BY DEF Rank
      <4>. QED
        BY <1>2, <1>5, <4>1
    <3>. HIDE DEF w
    <3>. QED
      BY <1>4, <2>2, <3>1, MayCommit
  <2>. QED
    BY <2>1, <2>2
<1>7. ASSUME NEW v \in s.last_committed + 1 .. k PROVE [v |-> v, value |-> values[v]] \in L
  <2>1. v = k
    BY <1>4, <1>5
  <2>. QED
    BY <1>4, <2>1
<1>. HIDE DEF L
<1>8. MonB(H, L, m, t)
  <2>1. t.role = ms[m].role
    BY <1>4
  <2>. QED
    BY <1>4, <1>6, <1>7, <2>1, LearnMon
<1>9. InRound(s) /\ s.state # "recovering" /\ ~Updating(s) /\ Reach(s) = k
  BY <1>4, <1>5 DEF InRound, IsWriting, Updating, Reach
<1>10. ~InRound(t) /\ Reach(t) = k /\ t.state # "recovering"
  BY <1>4, <1>5 DEF InRound, Reach
<1>11. LeadB(H, K, ms, n, m)
  BY DEF Core
<1>12. LeadB(H, L, w, n, m)
  <2>1. Majority(s.quorum)
    BY <1>4, <1>11 DEF LeadB
  <2>2. ASSUME N > 1
        PROVE  /\ a > 0 /\ \A p \in Rank \ {m} : PairB(H, n, m, p, w[p], t)
               /\ \A h \in H : h.pn = a => h.v <= k
               /\ \A p \in s.quorum : /\ p # m => Bound(w[p]) >= a
                                      /\ \A h \in H : h.p = p /\ h.pn < a => h.v <= k
    <3>1. a > 0 /\ (\A h \in H : h.pn = a => h.v <= k) /\ s.quorum \subseteq Rank
      BY <1>4, <1>9, <2>2, LeadsB
    <3>2. AllSilent(n, m, s)
      BY <1>4, <1>9 DEF AskInv, LeadA
    <3>3. ASSUME NEW p \in Rank \ {m} PROVE PairB(H, n, m, p, w[p], t)
      BY <1>4, <1>5, <1>9, <2>2, <3>2, IdleQuorum, IdlePair
    <3>4. ASSUME NEW p \in s.quorum
          PROVE  /\ p # m => Bound(w[p]) >= a
                 /\ \A h \in H : h.p = p /\ h.pn < a => h.v <= k
      <4>1. /\ p # m => Bound(ms[p]) >= a
            /\ \A h \in H : h.p = p /\ h.pn < a => h.v <= k
        BY <1>4, <1>9, <1>11, <2>2 DEF LeadB
      <4>2. p # m => w[p] = ms[p]
        BY <1>2, <3>1
      <4>. QED
        BY <4>1, <4>2
    <3>. QED
      BY <3>1, <3>3, <3>4
  <2>. HIDE DEF w
  <2>. QED
    BY <1>2, <1>4, <1>5, <1>10, <2>1, <2>2 DEF LeadB
<1>13. Casts(H, H, m, ms[m])
  BY DEF Casts
<1>14. N > 1 => H \subseteq VoteType /\ OneValue(H) /\ \A h \in H \ H : VoteOK(H, L, w, h)
  BY DEF Core
<1>. DEFINE out == Nothing
<1>15. /\ Plus(n, m, out) = n /\ out \in [Rank -> Seq(Messages)]
       /\ \A d \in Rank : Len(out[d]) = 0 /\ Mute(out, d)
  BY <1>1, NothingSent
<1>. HIDE DEF out
<1>16. /\ \A d \in Rank : \A i \in 1 .. Len(out[d]) : MsgB(H, L, w, m, d, out[d][i])
       /\ \A q \in Rank \ {m} :
            Mute(out, q) \/ StillPair(H, n, Plus(n, m, out), q, m, t, ms[q])
  BY <1>15
<1>17. LeadB(H, L, w, Plus(n, m, out), m)
  BY <1>12, <1>15
<1>18. w = Moved(ms, m, t) /\ Advances(ms[m], t)
  BY <1>5
<1>. HIDE DEF w, s
<1>19. Core(H, L, w, Plus(n, m, out))
  BY <1>1, <1>3, <1>6, <1>8, <1>13, <1>14, <1>15, <1>16, <1>17, <1>18, MicroB
<1>. QED
  BY <1>15, <1>19 DEF w, L

\* The versions of a message that are news follow the last one.
LEMMA NewsIs ==
  ASSUME NEW s \in Monitors, NEW msg \in Messages, NEW K, NEW top, Carries(K, msg, top),
         News(s, msg) # {}
  PROVE  /\ msg.lc \in Nat /\ s.last_committed \in Nat /\ msg.lc > s.last_committed
         /\ News(s, msg) = s.last_committed + 1 .. msg.lc
         /\ \A v \in News(s, msg) : v \in DOMAIN msg.values /\ [v |-> v, value |-> msg.values[v]] \in K
<1>. DEFINE D == DOMAIN msg.values
            l == s.last_committed
<1>1. msg.lc \in Nat /\ l \in Nat /\ D \subseteq Nat
  BY VMapsDef DEF Monitors, Messages
<1>2. D # {} /\ ~(Min(D) > l + 1) /\ News(s, msg) = {v \in D : l < v /\ v <= msg.lc}
  BY DEF News
<1>3. Min(D) \in D /\ Min(D) \in Nat /\ Min(D) <= l + 1
  <2>. HIDE DEF D
  <2>1. Min(D) \in D
    BY <1>1, <1>2, SetMin
  <2>2. Min(D) \in Nat
    BY <1>1, <2>1
  <2>. DEFINE x == Min(D)
  <2>3. x \in Nat /\ l \in Nat /\ ~(x > l + 1)
    BY <1>1, <1>2, <2>2
  <2>. HIDE DEF x
  <2>4. x <= l + 1
    BY <2>3
  <2>. QED
    BY <2>1, <2>2, <2>4 DEF x
<1>4. \A u \in Min(D) .. msg.lc : u \in D
  BY <1>3 DEF Carries
<1>5. News(s, msg) \subseteq l + 1 .. msg.lc
  BY <1>1, <1>2
<1>6. l + 1 .. msg.lc \subseteq News(s, msg)
  BY <1>1, <1>2, <1>3, <1>4
<1>7. msg.lc > l
  BY <1>1, <1>5
<1>8. ASSUME NEW v \in News(s, msg) PROVE v \in D /\ [v |-> v, value |-> msg.values[v]] \in K
  BY <1>2 DEF Carries
<1>. QED
  BY <1>1, <1>5, <1>6, <1>7, <1>8

\* What store_state does with a message that has news
LEMMA StoreStateIs ==
  ASSUME NEW m \in Rank, NEW s, Fit(m, s), NEW msg \in Messages, NEW K, NEW top,
         Carries(K, msg, top), News(s, msg) # {}, NEW t, t = StoreState(s, msg)
  PROVE  /\ t \in Monitors /\ Learns(s, t, msg.lc, msg.values) /\ SameTerm(s, t)
         /\ t.uncommitted = IF s.uncommitted.v <= msg.lc THEN NoneUncommitted ELSE s.uncommitted
<1>1. PICK C : Consistent(C) /\ Good(m, C, s)
  BY DEF Fit
<1>2. Good(m, C, t) /\ SameTerm(s, t) /\ t \in Monitors /\ s \in Monitors
  BY <1>1, StoreStateGood DEF Good
<1>. DEFINE W == News(s, msg)
            u == Learn(s, W, msg.values)
            k == msg.lc
<1>3. k \in Nat /\ k > s.last_committed /\ W = s.last_committed + 1 .. k
  BY <1>2, NewsIs
<1>4. Learns(s, u, k, msg.values)
  BY <1>2, <1>3, LearnIs
<1>5. u.last_committed = k
  BY <1>4 DEF Learns
<1>6. t = [u EXCEPT !.uncommitted = IF @.v <= u.last_committed THEN NoneUncommitted ELSE @]
  BY DEF StoreState
<1>7. u = [s EXCEPT !.log = u.log, !.first_committed = u.first_committed,
                    !.last_committed = u.last_committed]
  BY <1>2 DEF Learn, Monitors
<1>. HIDE DEF u, W, k
<1>8. u.uncommitted = s.uncommitted
  BY <1>2, <1>7 DEF Monitors
<1>9. /\ t.log = u.log /\ t.first_committed = u.first_committed /\ t.last_committed = u.last_committed
      /\ t.pending_v = u.pending_v /\ t.pending_pn = u.pending_pn /\ t.last_pn = u.last_pn
      /\ t.stored_pn = u.stored_pn /\ t.epoch = u.epoch /\ t.accepted_pn = u.accepted_pn
      /\ t.uncommitted = IF s.uncommitted.v <= k THEN NoneUncommitted ELSE s.uncommitted
  BY <1>2, <1>5, <1>6, <1>7, <1>8 DEF Monitors
<1>10. Learns(s, t, k, msg.values)
  BY <1>4, <1>9 DEF Learns
<1>. QED
  BY <1>2, <1>9, <1>10 DEF k

\* What leader s and p have told each other is true when s has committed more.
LEMMA PairLater ==
  ASSUME NEW H, NEW n, NEW m, NEW p, NEW r, NEW s \in Monitors, NEW t \in Monitors,
         PairB(H, n, m, p, r, s), ~Updating(s), t.epoch = s.epoch,
         t.accepted_pn = s.accepted_pn, t.last_committed >= s.last_committed, n \in Nets,
         m \in Rank, p \in Rank
  PROVE  PairB(H, n, m, p, r, t)
<1>1. s.last_committed \in Nat /\ t.last_committed \in Nat
  BY DEF Monitors
<1>2. /\ \A i \in 1 .. Len(n[m][p]) : n[m][p][i].lc \in Nat
      /\ \A i \in 1 .. Len(n[p][m]) : n[p][m][i].lc \in Nat
  <2>1. n[m][p] \in Seq(Messages) /\ n[p][m] \in Seq(Messages)
    BY DEF Nets
  <2>2. /\ \A i \in 1 .. Len(n[m][p]) : n[m][p][i] \in Messages
        /\ \A i \in 1 .. Len(n[p][m]) : n[p][m][i] \in Messages
    BY <2>1
  <2>3. \A k \in Messages : k.lc \in Nat
    BY DEF Messages
  <2>. QED
    BY <2>2, <2>3
<1>3. ASSUME NEW i \in 1 .. Len(n[p][m]), LastB(H, s, p, r, n[p][m][i])
      PROVE  LastB(H, t, p, r, n[p][m][i])
  <2>. DEFINE msg == n[p][m][i]
  <2>1. msg.lc \in Nat
    BY <1>2
  <2>. HIDE DEF msg
  <2>2. \A v \in t.last_committed + 1 .. msg.lc : v \in s.last_committed + 1 .. msg.lc
    BY <1>1, <2>1
  <2>3. msg.lc >= t.last_committed => msg.lc >= s.last_committed
    BY <1>1, <2>1
  <2>4. LastB(H, s, p, r, msg)
    BY <1>3 DEF msg
  <2>5. LastB(H, t, p, r, msg)
    BY <2>2, <2>3, <2>4 DEF LastB
  <2>. QED
    BY <2>5 DEF msg
<1>4. \A i \in 1 .. Len(n[m][p]) : ~Is(n[m][p][i], "BEGIN", t.epoch)
  BY DEF PairB, Works
<1>5. \A i \in 1 .. Len(n[p][m]) : ~Is(n[p][m][i], "ACCEPT", t.epoch)
  BY DEF PairB, Works
<1>6. \A i \in 1 .. Len(n[m][p]) :
        Is(n[m][p][i], "COLLECT", t.epoch) /\ n[m][p][i].pn = t.accepted_pn =>
          n[m][p][i].lc <= t.last_committed
  <2>1. \A i \in 1 .. Len(n[m][p]) :
          Is(n[m][p][i], "COLLECT", t.epoch) /\ n[m][p][i].pn = t.accepted_pn =>
            n[m][p][i].lc <= s.last_committed
    BY DEF PairB
  <2>. QED
    BY <1>1, <1>2, <2>1
<1>7. \A i \in 1 .. Len(n[p][m]) :
        Is(n[p][m][i], "LAST", t.epoch) /\ n[p][m][i].pn = t.accepted_pn =>
          LastB(H, t, p, r, n[p][m][i])
  BY <1>3 DEF PairB
<1>. QED
  BY <1>4, <1>5, <1>6, <1>7 DEF PairB

\* m stores the versions of a message that are news.
LEMMA StoreB ==
  ASSUME NEW ms, NEW n, AskInv(ms, n), NEW H, NEW K, Core(H, K, ms, n), NEW m \in Rank,
         NEW msg \in Messages, NEW top, Carries(K, msg, top),
         NEW t, t = StoreState(ms[m], msg),
         ms[m].role = "leader" => N > 1 /\ ms[m].state = "recovering"
  PROVE  Core(H, K, Moved(ms, m, t), n)
<1>. DEFINE s == ms[m]
            w == Moved(ms, m, t)
            k == msg.lc
            a == s.accepted_pn
<1>1. ms \in [Rank -> Monitors] /\ n \in Nets /\ s \in Monitors /\ Fit(m, s)
  BY DEF AskInv
<1>2. CASE News(s, msg) = {}
  <2>1. t = s
    BY <1>2 DEF StoreState
  <2>. QED
    BY <1>1, <2>1, MovedSame
<1>3. CASE News(s, msg) # {}
  <2>1. /\ t \in Monitors /\ Learns(s, t, k, msg.values) /\ SameTerm(s, t)
        /\ t.uncommitted = IF s.uncommitted.v <= k THEN NoneUncommitted ELSE s.uncommitted
    BY <1>1, <1>3, StoreStateIs
  <2>2. Advances(s, t) /\ s.last_committed \in Nat /\ k \in Nat /\ k > s.last_committed
    BY <1>1, <2>1, LearnsAdvance
  <2>3. News(s, msg) = s.last_committed + 1 .. k
    BY <1>1, <1>3, NewsIs
  <2>4. ASSUME NEW v \in s.last_committed + 1 .. k
        PROVE  [v |-> v, value |-> msg.values[v]] \in K
    BY <1>1, <1>3, <2>3, NewsIs
  <2>5. Commits(H, K, K, ms, w)
    BY DEF Commits, Core, Chosen
  <2>6. MonB(H, K, m, t)
    <3>1. t.role = ms[m].role
      BY <2>1 DEF SameTerm
    <3>. QED
      BY <2>1, <2>4, <2>5, <3>1, LearnMon
  <2>7. w[m] = t /\ \A p \in Rank \ {m} : w[p] = ms[p]
    BY <1>1, <2>1, MovedAt
  <2>8. Shorter(n, n)
    BY <1>1, SuffixSame DEF Shorter, Nets
  <2>9. t.last_committed = k
    BY <2>1 DEF Learns
  <2>10. LeadB(H, K, w, n, m)
    <3>. SUFFICES ASSUME t.role = "leader" PROVE LeadB(H, K, w, n, m)
      BY <2>7 DEF LeadB
    <3>1. /\ s.role = "leader" /\ N > 1 /\ s.state = "recovering" /\ t.state = "recovering"
          /\ t.quorum = s.quorum /\ t.epoch = s.epoch /\ t.accepted_pn = a
          /\ t.num_last = s.num_last
      BY <2>1 DEF SameTerm
    <3>2. LeadB(H, K, ms, n, m)
      BY DEF Core
    <3>3. /\ s.num_last - 1 <= Cardinality(Heeded(H, ms, n, m))
          /\ s.uncommitted.v \in {0, s.last_committed + 1}
      BY <3>1, <3>2 DEF LeadB
    <3>4. /\ a > 0 /\ Majority(s.quorum) /\ a \in Nat /\ s.quorum \subseteq Rank
          /\ H \subseteq VoteType /\ s.num_last \in Nat
          /\ \A h \in H : h.pn = a => h.v <= Reach(s)
      BY <3>1, LeadsB
    <3>5. Reach(s) = s.last_committed /\ Reach(t) = k /\ ~InRound(t) /\ ~Updating(s)
      BY <2>2, <2>9, <3>1 DEF Reach, InRound, Updating
    <3>6. t.uncommitted.v = 0 /\ t.uncommitted.pn = 0
      BY <2>1, <2>2, <3>3 DEF NoneUncommitted
    <3>7. ASSUME NEW p, Reported(H, s, p) PROVE Reported(H, t, p)
      <4>. SUFFICES ASSUME NEW h \in H, h.p = p, h.pn < a, h.v > k PROVE FALSE
        BY <2>9, <3>1 DEF Reported
      <4>1. h.v \in Nat
        BY <3>4, VoteIs
      <4>2. h.v > s.last_committed
        BY <2>2, <4>1
      <4>3. h.v = s.last_committed + 1
        BY <3>7, <4>2 DEF Reported
      <4>. QED
        BY <2>2, <4>1, <4>3
    <3>8. Reported(H, t, m)
      BY <3>1, <3>2, <3>7 DEF LeadB
    <3>9. Heeded(H, ms, n, m) \subseteq Heeded(H, w, n, m)
      <4>. SUFFICES ASSUME NEW p \in Heeded(H, ms, n, m) PROVE p \in Heeded(H, w, n, m)
        OBVIOUS
      <4>1. /\ p \in s.quorum \ {m} /\ Silent(n, m, p, s.epoch) /\ Bound(ms[p]) >= a
            /\ Reported(H, s, p)
        BY DEF Heeded, SilentOnes
      <4>2. w[p] = ms[p] /\ Reported(H, t, p)
        BY <2>7, <3>4, <3>7, <4>1
      <4>3. p \in SilentOnes(n, m, t)
        BY <3>1, <4>1 DEF SilentOnes
      <4>. HIDE DEF w
      <4>. QED
        BY <2>7, <3>1, <4>1, <4>2, <4>3 DEF Heeded
    <3>10. t.num_last - 1 <= Cardinality(Heeded(H, w, n, m))
      <4>1. Heeded(H, w, n, m) \subseteq Rank
        <5>. HIDE DEF w
        <5>. QED
          BY <2>7, <3>1, <3>4 DEF Heeded, SilentOnes
      <4>. DEFINE A == Heeded(H, ms, n, m)
                  B == Heeded(H, w, n, m)
      <4>2. A \subseteq B /\ B \subseteq Rank /\ A \subseteq Rank
        BY <3>9, <4>1
      <4>. HIDE DEF A, B
      <4>3. Cardinality(A) <= Cardinality(B) /\ Cardinality(A) \in Nat /\ Cardinality(B) \in Nat
        BY <4>2, QuorumSize, FS_Subset
      <4>. QED
        BY <3>1, <3>3, <3>4, <4>3 DEF A, B
    <3>11. ASSUME NEW p \in Rank \ {m} PROVE PairB(H, n, m, p, w[p], t)
      <4>1. PairB(H, n, m, p, w[p], s) /\ p \in Rank
        BY <2>7, <3>1, LeadsB
      <4>2. t.last_committed >= s.last_committed
        BY <2>2, <2>9
      <4>. HIDE DEF w
      <4>. QED
        BY <1>1, <2>1, <3>1, <3>5, <4>1, <4>2, PairLater
    <3>12. \A h \in H : h.pn = a => h.v <= k
      <4>1. ASSUME NEW h \in H, h.pn = a PROVE h.v <= s.last_committed /\ h.v \in Nat
        BY <3>4, <3>5, <4>1, VoteIs
      <4>. QED
        BY <2>2, <4>1
    <3>. HIDE DEF w
    <3>. QED
      BY <2>7, <2>9, <3>1, <3>4, <3>5, <3>6, <3>8, <3>10, <3>11, <3>12 DEF LeadB
  <2>. QED
    BY <1>1, <2>1, <2>2, <2>6, <2>8, <2>10, MicroSilent
<1>. QED
  BY <1>2, <1>3

(***************************************************************************)
(* A leader asks, a monitor alone.                                          *)
(***************************************************************************)

\* A COLLECT under a new number is on its way to p.
LEMMA CollectPair ==
  ASSUME NEW n \in Nets, NEW m \in Rank, NEW X, NEW msg \in Messages, NEW p \in Rank, p # m,
         NEW s, msg.op = "COLLECT", msg.lc <= s.last_committed,
         \A i \in 1 .. Len(n[m][p]) : /\ n[m][p][i].op = "COLLECT" => n[m][p][i].pn # s.accepted_pn
                                      /\ ~Is(n[m][p][i], "BEGIN", s.epoch),
         \A i \in 1 .. Len(n[p][m]) : /\ n[p][m][i].op = "LAST" => n[p][m][i].pn # s.accepted_pn
                                      /\ ~Is(n[p][m][i], "ACCEPT", s.epoch),
         NEW G, NEW t, NEW n2, n2 = Plus(n, m, SendTo(X, msg))
  PROVE  PairB(G, n2, m, p, t, s)
<1>. DEFINE u == n[m][p]  c == n2[m][p]  e == s.epoch
<1>1. n2[p][m] = n[p][m]
  <2>. DEFINE out == SendTo(X, msg)
  <2>1. out \in [Rank -> Seq(Messages)] /\ n2 = Plus(n, m, out)
    BY SendToAt
  <2>. HIDE DEF out
  <2>. QED
    BY <2>1, PlusOther
<1>2. IF p \in X THEN Appends(u, msg, c) ELSE c = u
  BY SentOne
<1>3. \A i \in 1 .. Len(u) : /\ u[i].op = "COLLECT" => u[i].pn # s.accepted_pn
                             /\ ~Is(u[i], "BEGIN", e)
  OBVIOUS
<1>. HIDE DEF u, c
<1>4. /\ \A i \in 1 .. Len(c) : ~Is(c[i], "BEGIN", e)
      /\ \A i \in 1 .. Len(c) : Is(c[i], "COLLECT", e) /\ c[i].pn = s.accepted_pn =>
           c[i].lc <= s.last_committed
  <2>1. CASE p \in X
    <3>1. /\ Len(u) \in Nat /\ Len(c) = Len(u) + 1 /\ c[Len(u) + 1] = msg
          /\ \A i \in 1 .. Len(u) : c[i] = u[i]
          /\ \A i \in 1 .. Len(c) : i \in 1 .. Len(u) \/ i = Len(u) + 1
      BY <1>2, <2>1 DEF Appends
    <3>. QED
      BY <1>3, <3>1 DEF Is
  <2>2. CASE p \notin X
    <3>1. c = u
      BY <1>2, <2>2
    <3>. QED
      BY <1>3, <3>1 DEF Is
  <2>. QED
    BY <2>1, <2>2
<1>. QED
  BY <1>1, <1>4 DEF PairB, c, Is

\* The version that m has stored and does not know to be committed
Pending(s) ==
  IF Exists(s, s.last_committed + 1)
  THEN [v |-> s.last_committed + 1, pn |-> PendingPn(s, s.accepted_pn),
        value |-> s.log[s.last_committed + 1]]
  ELSE NoneUncommitted

\* What collect does to the store and to what the leader has heard of
CollectsB(s, t, msg) ==
  /\ t.log = s.log /\ t.last_committed = s.last_committed
  /\ t.first_committed = s.first_committed /\ t.pending_v = s.pending_v
  /\ t.pending_pn = s.pending_pn /\ t.uncommitted = Pending(s)
  /\ Majority(t.quorum) /\ msg.lc = s.last_committed
  /\ t.epoch = s.epoch => s.state = "recovering"

\* What m has voted for after its last version is what it has stored.
LEMMA PendingB ==
  ASSUME NEW H, NEW K, NEW ms, NEW m \in Rank, NEW s, s = ms[m], Fit(m, s), MonB(H, K, m, s),
         N > 1, H \subseteq VoteType, VotesOK(H, K, ms)
  PROVE  /\ \A h \in H : h.p = m /\ h.v > s.last_committed =>
              /\ h.v = s.last_committed + 1 /\ Exists(s, h.v) /\ s.pending_v = h.v
              /\ h.pn <= s.pending_pn
         /\ Exists(s, s.last_committed + 1) =>
              /\ PendingPn(s, s.accepted_pn) = s.pending_pn /\ s.pending_pn > 0
              /\ Vote(m, s.last_committed + 1, s.pending_pn, s.log[s.last_committed + 1]) \in H
<1>0. s \in Monitors /\ s.last_committed \in Nat /\ s.pending_pn \in Nat /\ s.pending_v \in Nat
  BY FitFacts DEF Monitors
<1>1. ASSUME NEW h \in H, h.p = m, h.v > s.last_committed
      PROVE  /\ h.v = s.last_committed + 1 /\ Exists(s, h.v) /\ s.pending_v = h.v
             /\ h.pn <= s.pending_pn
  <2>1. VoteOK(H, K, ms, h) /\ h.v \in Nat
    BY VoteIs DEF VotesOK
  <2>2. h.v <= s.last_committed + 1 /\ h.pn <= s.pending_pn
    BY <1>1, <2>1 DEF VoteOK
  <2>3. h.v = s.last_committed + 1
    BY <1>0, <1>1, <2>1, <2>2
  <2>4. s.pending_v = h.v
    BY <1>1, <2>1, <2>3 DEF VoteOK
  <2>5. h.v \in DOMAIN s.log
    BY <1>0, <1>1, <2>4, FitFacts
  <2>. QED
    BY <2>2, <2>3, <2>4, <2>5 DEF Exists
<1>2. ASSUME Exists(s, s.last_committed + 1)
      PROVE  /\ PendingPn(s, s.accepted_pn) = s.pending_pn /\ s.pending_pn > 0
             /\ Vote(m, s.last_committed + 1, s.pending_pn, s.log[s.last_committed + 1]) \in H
  <2>1. s.pending_v = s.last_committed + 1
    BY <1>2 DEF MonB, Whole, Exists
  <2>. DEFINE g == Vote(m, s.last_committed + 1, s.pending_pn, s.log[s.last_committed + 1])
  <2>2. g \in H /\ g.pn = s.pending_pn
    BY <1>0, <2>1, VoteFields DEF MonB
  <2>. HIDE DEF g
  <2>3. s.pending_pn > 0
    BY <2>2 DEF VotesOK, VoteOK
  <2>. QED
    BY <2>1, <2>2, <2>3 DEF PendingPn, g
<1>. QED
  BY <1>1, <1>2

\* Leader m asks, with what it has voted for itself as the first it has heard of.
LEMMA CollectB ==
  ASSUME NEW ms, NEW n, AskInv(ms, n), NEW H, NEW K, Core(H, K, ms, n), NEW m \in Rank,
         NEW t, Fit(m, t), N > 1, NEW msg, CollectsA(m, ms[m], t, msg), CollectsB(ms[m], t, msg)
  PROVE  Core(H, K, Moved(ms, m, t), Plus(n, m, SendTo(t.quorum \ {m}, msg)))
<1>. DEFINE s == ms[m]
            w == Moved(ms, m, t)
            a == t.accepted_pn
            X == t.quorum \ {m}
            out == SendTo(X, msg)
            n2 == Plus(n, m, out)
<1>1. ms \in [Rank -> Monitors] /\ n \in Nets /\ s \in Monitors /\ t \in Monitors /\ Fit(m, s)
  BY FitFacts DEF AskInv
<1>2. w[m] = t /\ \A p \in Rank \ {m} : w[p] = ms[p]
  BY <1>1, MovedAt
<1>3. Shorter(n, n)
  BY <1>1, SuffixSame DEF Shorter, Nets
<1>4. /\ s.accepted_pn \in Nat /\ s.stored_pn \in Nat /\ s.last_pn \in Nat /\ s.epoch \in Nat
      /\ t.quorum \subseteq Rank /\ a \in Nat /\ t.epoch \in Nat /\ t.last_pn \in Nat
      /\ s.last_committed \in Nat /\ s.pending_pn \in Nat
  BY <1>1 DEF Monitors
<1>5. /\ t.role = "leader" /\ t.state = "recovering" /\ t.num_last = 1 /\ a = t.last_pn
      /\ t.last_pn > s.last_pn /\ a > s.accepted_pn /\ t.stored_pn = s.stored_pn
      /\ msg \in Messages /\ msg.op = "COLLECT" /\ msg.epoch = t.epoch /\ msg.pn = a
  BY DEF CollectsA
<1>5b. t.epoch > s.epoch \/ (s.role = "leader" /\ t.epoch = s.epoch)
  BY DEF CollectsA
<1>6. /\ t.log = s.log /\ t.last_committed = s.last_committed
      /\ t.first_committed = s.first_committed /\ t.pending_v = s.pending_v
      /\ t.pending_pn = s.pending_pn /\ t.uncommitted = Pending(s)
      /\ Majority(t.quorum) /\ msg.lc = s.last_committed
      /\ t.epoch = s.epoch => s.state = "recovering"
  BY DEF CollectsB
<1>7. a % 100 = m
  BY <1>5, FitFacts
<1>8. MonB(H, K, m, s) /\ H \subseteq VoteType /\ VotesOK(H, K, ms)
  BY DEF Core, VotesOK
<1>9. Advances(s, t)
  BY <1>4, <1>5, <1>5b, <1>6 DEF Advances
<1>10. MonB(H, K, m, t)
  <2>1. Whole(t) /\ Stored(K, t)
    BY <1>6, <1>8 DEF MonB, Whole, Stored
  <2>2. PromiseOK(t)
    <3>1. PromiseOK(s) /\ s.stored_pn <= s.accepted_pn
      BY <1>8 DEF MonB, AskInv, PnsA
    <3>. QED
      BY <1>4, <1>5, <1>6, <3>1 DEF PromiseOK, Larger
  <2>3. N > 1 /\ t.pending_v > t.last_committed =>
          Vote(m, t.pending_v, t.pending_pn, t.log[t.pending_v]) \in H
    BY <1>6, <1>8 DEF MonB
  <2>. QED
    BY <2>1, <2>2, <2>3 DEF MonB
<1>11. out \in [Rank -> Seq(Messages)]
  BY <1>5, SendToAt
<1>12. ASSUME NEW d \in Rank, NEW i \in 1 .. Len(out[d]) PROVE out[d][i] = msg
  BY <1>5, SendToOne
<1>13. \A d \in Rank : \A i \in 1 .. Len(out[d]) : MsgB(H, K, w, m, d, out[d][i])
  <2>1. \A d : MsgB(H, K, w, m, d, msg)
    BY <1>5 DEF MsgB
  <2>. QED
    BY <1>12, <2>1
<1>14. \A q \in Rank \ {m} : Mute(out, q)
  BY <1>5, <1>12 DEF Mute, Without
<1>15. \A h \in H : h.pn # a
  <2>. SUFFICES ASSUME NEW h \in H, h.pn = a PROVE FALSE
    OBVIOUS
  <2>1. OwnPn(ms, h.pn)
    BY <1>8 DEF VotesOK, VoteOK
  <2>2. a <= s.last_pn
    BY <1>7, <2>1 DEF OwnPn
  <2>. QED
    BY <1>4, <1>5, <2>2
<1>16. ASSUME NEW p \in Rank \ {m} PROVE PairB(H, n2, m, p, w[p], t)
  <2>1. p \in Rank /\ p # m
    OBVIOUS
  <2>2. /\ \A i \in 1 .. Len(n[m][p]) : n[m][p][i].op = "COLLECT" => n[m][p][i].pn # a
        /\ \A i \in 1 .. Len(n[p][m]) : n[p][m][i].op = "LAST" => n[p][m][i].pn # a
    <3>1. a > ms[m].last_pn /\ a \in Nat /\ a % 100 = m
      BY <1>4, <1>5, <1>7
    <3>. HIDE DEF a
    <3>2. \A d \in Rank : \A i \in 1 .. Len(n[m][d]) :
            n[m][d][i].op \in {"COLLECT", "LAST"} => n[m][d][i].pn # a
      BY <3>1, NewPnA
    <3>3. \A d \in Rank : \A i \in 1 .. Len(n[p][d]) :
            n[p][d][i].op \in {"COLLECT", "LAST"} => n[p][d][i].pn # a
      BY <3>1, NewPnA
    <3>. QED
      BY <3>2, <3>3
  <2>3. /\ \A i \in 1 .. Len(n[m][p]) : ~Is(n[m][p][i], "BEGIN", t.epoch)
        /\ \A i \in 1 .. Len(n[p][m]) : ~Is(n[p][m][i], "ACCEPT", t.epoch)
    <3>1. CASE t.epoch > s.epoch
      BY <1>4, <2>1, <3>1, UnheardB
    <3>2. CASE s.role = "leader" /\ t.epoch = s.epoch
      <4>1. PairB(H, n, m, p, ms[p], s) /\ ~Updating(s)
        BY <1>6, <2>1, <3>2, LeadsB DEF Updating
      <4>. QED
        BY <3>2, <4>1 DEF PairB, Works
    <3>. QED
      BY <1>5b, <3>1, <3>2
  <2>4. msg.lc <= t.last_committed
    BY <1>4, <1>6
  <2>. HIDE DEF X
  <2>. QED
    BY <1>1, <1>5, <2>1, <2>2, <2>3, <2>4, CollectPair
<1>17. LeadB(H, K, w, n2, m)
  <2>1. ~InRound(t) /\ a > 0
    BY <1>4, <1>5 DEF InRound
  <2>. DEFINE S == Heeded(H, w, n2, m)
  <2>2. Cardinality(S) \in Nat
    <3>1. S \subseteq Rank
      <4>. HIDE DEF w, n2
      <4>. QED
        BY <1>2, <1>4 DEF Heeded, SilentOnes
    <3>. HIDE DEF S
    <3>. QED
      BY <3>1, QuorumSize
  <2>3. t.num_last - 1 <= Cardinality(S)
    BY <1>5, <2>2
  <2>4. Reported(H, t, m) /\ t.uncommitted.v \in {0, t.last_committed + 1}
        /\ (t.uncommitted.v = 0 => t.uncommitted.pn = 0)
        /\ (t.uncommitted.v > 0 =>
              \E h \in H : /\ h.v = t.uncommitted.v /\ h.pn = t.uncommitted.pn
                           /\ h.x = t.uncommitted.value)
    <3>1. /\ \A h \in H : h.p = m /\ h.v > s.last_committed =>
               /\ h.v = s.last_committed + 1 /\ Exists(s, h.v) /\ s.pending_v = h.v
               /\ h.pn <= s.pending_pn
          /\ Exists(s, s.last_committed + 1) =>
               /\ PendingPn(s, s.accepted_pn) = s.pending_pn /\ s.pending_pn > 0
               /\ Vote(m, s.last_committed + 1, s.pending_pn, s.log[s.last_committed + 1]) \in H
      BY <1>1, <1>8, PendingB
    <3>2. CASE Exists(s, s.last_committed + 1)
      <4>. DEFINE g == Vote(m, s.last_committed + 1, s.pending_pn, s.log[s.last_committed + 1])
      <4>1. t.uncommitted.v = s.last_committed + 1 /\ t.uncommitted.pn = s.pending_pn
            /\ t.uncommitted.value = s.log[s.last_committed + 1]
        BY <1>6, <3>1, <3>2 DEF Pending
      <4>2. g \in H /\ g.v = s.last_committed + 1 /\ g.pn = s.pending_pn
            /\ g.x = s.log[s.last_committed + 1]
        BY <3>1, <3>2, VoteFields
      <4>. HIDE DEF g
      <4>3. Reported(H, t, m)
        BY <1>6, <3>1, <4>1 DEF Reported
      <4>. QED
        BY <1>4, <1>6, <4>1, <4>2, <4>3
    <3>3. CASE ~Exists(s, s.last_committed + 1)
      <4>1. t.uncommitted.v = 0 /\ t.uncommitted.pn = 0
        BY <1>6, <3>3 DEF Pending, NoneUncommitted
      <4>2. Reported(H, t, m)
        BY <1>6, <3>1, <3>3 DEF Reported
      <4>. QED
        BY <4>1, <4>2
    <3>. QED
      BY <3>2, <3>3
  <2>. HIDE DEF w, n2
  <2>. QED
    BY <1>2, <1>5, <1>6, <1>15, <1>16, <2>1, <2>3, <2>4 DEF LeadB, S
<1>18. w = Moved(ms, m, t) /\ LeadB(H, K, w, Plus(n, m, out), m)
       /\ \A q \in Rank \ {m} : Mute(out, q) \/ StillPair(H, n, Plus(n, m, out), q, m, t, ms[q])
  BY <1>14, <1>17
<1>. HIDE DEF out, w
<1>19. Core(H, K, w, Plus(n, m, out))
  BY <1>1, <1>3, <1>9, <1>10, <1>11, <1>13, <1>18, MicroKeep
<1>. QED
  BY <1>19 DEF out, w

\* A monitor that is alone has nobody to ask.
LEMMA AloneB ==
  ASSUME NEW ms, NEW n, AskInv(ms, n), NEW H, NEW K, Core(H, K, ms, n), NEW m \in Rank, N = 1,
         NEW t \in Monitors, SameDisk(ms[m], t), t.accepted_pn = ms[m].accepted_pn,
         t.role = "leader" =>
           /\ Majority(t.quorum)
           /\ InRound(t) => Later(K, t.last_committed + 1, t.new_value)
  PROVE  Core(H, K, Moved(ms, m, t), n)
<1>. DEFINE w == Moved(ms, m, t)
<1>1. ms \in [Rank -> Monitors] /\ n \in Nets /\ ms[m] \in Monitors /\ MonB(H, K, m, ms[m])
  BY DEF AskInv, Core
<1>2. MonB(H, K, m, t) /\ Advances(ms[m], t)
  <2>1. t.accepted_pn >= ms[m].accepted_pn
    BY <1>1 DEF Monitors
  <2>. QED
    BY <1>1, <2>1, StaysB
<1>3. Shorter(n, n)
  BY <1>1, SuffixSame DEF Shorter, Nets
<1>4. w[m] = t /\ w = Moved(ms, m, t)
  BY <1>1, MovedAt
<1>5. LeadB(H, K, w, n, m)
  <2>. HIDE DEF w
  <2>. QED
    BY <1>4 DEF LeadB
<1>. HIDE DEF w
<1>6. Core(H, K, w, n)
  BY <1>1, <1>2, <1>3, <1>4, <1>5, MicroSilent
<1>. QED
  BY <1>6 DEF w

\* A monitor that is alone begins a round.
LEMMA BeginAlone ==
  ASSUME NEW ms, NEW n, AskInv(ms, n), NEW H, NEW K, Core(H, K, ms, n), NEW m \in Rank, N = 1,
         NEW t \in Monitors, NEW x \in Value, x.trim <= ms[m].last_committed,
         Stores(ms[m], t, ms[m].accepted_pn, x), t.accepted_pn = ms[m].accepted_pn,
         t.new_value = x, t.quorum = ms[m].quorum, ms[m].role = "leader",
         Later(K, ms[m].last_committed + 1, x)
  PROVE  Core(H, K, Moved(ms, m, t), n)
<1>. DEFINE w == Moved(ms, m, t)
            b == ms[m].accepted_pn
<1>1. /\ ms \in [Rank -> Monitors] /\ n \in Nets /\ ms[m] \in Monitors /\ MonB(H, K, m, ms[m])
      /\ Fit(m, ms[m]) /\ LeadB(H, K, ms, n, m)
  BY DEF AskInv, Core
<1>2. b \in Nat
  BY <1>1 DEF Monitors
<1>3. ms[m].first_committed <= ms[m].last_committed
  BY <1>1, FitFacts
<1>4. Stores(ms[m], t, b, x)
  OBVIOUS
<1>. HIDE DEF b
<1>5. MonB(H, K, m, t) /\ Advances(ms[m], t)
  BY <1>1, <1>2, <1>3, <1>4, StoresB
<1>6. Shorter(n, n)
  BY <1>1, SuffixSame DEF Shorter, Nets
<1>7. w[m] = t /\ w = Moved(ms, m, t)
  BY <1>1, MovedAt
<1>8. LeadB(H, K, w, n, m)
  <2>1. Majority(t.quorum) /\ t.last_committed = ms[m].last_committed
    BY <1>1 DEF LeadB, Stores
  <2>. HIDE DEF w
  <2>. QED
    BY <1>7, <2>1 DEF LeadB
<1>. HIDE DEF w
<1>9. Core(H, K, w, n)
  BY <1>1, <1>5, <1>6, <1>7, <1>8, MicroSilent
<1>. QED
  BY <1>9 DEF w

\* A trim that goes beyond the first version, or none, is a later one.
LEMMA LaterNew ==
  ASSUME NEW s \in Monitors, NEW K, K \subseteq [v: Nat \ {0}, value: Value], Stored(K, s),
         NEW x \in Value, x.trim = 0 \/ x.trim >= s.first_committed
  PROVE  Later(K, s.last_committed + 1, x)
<1>. SUFFICES ASSUME x.trim > 0, NEW c \in K, c.v < s.last_committed + 1
              PROVE  c.value.trim <= x.trim
  BY DEF Later
<1>1. /\ s.last_committed \in Nat /\ s.first_committed \in Nat /\ c.v \in Nat
      /\ c.value.trim \in Nat /\ x.trim \in Nat
  BY DEF Monitors, Value
<1>2. c.value.trim <= s.first_committed
  BY <1>1 DEF Stored
<1>. QED
  BY <1>1, <1>2

\* An active leader may begin with any value that trims no less.
LEMMA ReadyActive ==
  ASSUME NEW ms, NEW n, AskInv(ms, n), NEW H, NEW K, Core(H, K, ms, n), NEW m \in Rank, N > 1,
         ms[m].role = "leader", ms[m].state = "active", NEW x \in Value,
         x.trim <= ms[m].last_committed, Later(K, ms[m].last_committed + 1, x)
  PROVE  Ready(H, K, ms, n, m, x)
<1>1. AllSilent(n, m, ms[m]) /\ ms[m].last_committed \in Nat /\ H \subseteq VoteType
      /\ ms[m].quorum \subseteq Rank
  BY DEF AskInv, LeadA, Core, Monitors
<1>2. Reach(ms[m]) = ms[m].last_committed
  BY <1>1 DEF Reach, InRound
<1>3. \A p \in ms[m].quorum :
         /\ p # m => Bound(ms[p]) >= ms[m].accepted_pn
         /\ \A h \in H : h.p = p /\ h.pn < ms[m].accepted_pn => h.v <= ms[m].last_committed
  BY <1>2 DEF Core, LeadB
<1>4. \A h \in H : h.v \in Nat
  BY <1>1, VoteIs
<1>. QED
  BY <1>1, <1>3, <1>4 DEF Ready

\* A leader that has heard everyone may begin with the value it has heard of.
LEMMA ReadyAgain ==
  ASSUME NEW ms, NEW n, AskInv(ms, n), NEW H, NEW K, Core(H, K, ms, n), NEW m \in Rank, N > 1,
         ms[m].role = "leader", ms[m].state = "recovering",
         ms[m].num_last >= Cardinality(ms[m].quorum),
         ms[m].uncommitted.v = ms[m].last_committed + 1
  PROVE  Ready(H, K, ms, n, m, ms[m].uncommitted.value)
<1>. DEFINE s == ms[m]
            x == s.uncommitted.value
            k == s.last_committed + 1
<1>1. s \in Monitors /\ s.last_committed \in Nat /\ s.quorum \subseteq Rank /\ x \in Value
      /\ s.uncommitted.pn \in Nat /\ x.trim \in Nat
  BY DEF AskInv, Monitors, Value
<1>2. AllSilent(n, m, s)
  BY CountedA
<1>3. x.trim <= s.last_committed
  <2>1. MemoryOK(s)
    BY FitFacts DEF AskInv
  <2>. QED
    BY <1>1, <2>1 DEF MemoryOK
<1>4. H \subseteq VoteType /\ VotesOK(H, K, ms)
  BY DEF Core, VotesOK
<1>5. PICK g \in H : g.v = k /\ g.pn = s.uncommitted.pn /\ g.x = x
  BY <1>1 DEF Core, LeadB
<1>6. Later(K, k, x)
  BY <1>4, <1>5 DEF VotesOK, VoteOK
<1>7. \A p \in s.quorum : (p # m => Bound(ms[p]) >= s.accepted_pn) /\ Reported(H, s, p)
  BY AllHeeded
<1>8. \A p \in s.quorum : \A h \in H : h.p = p /\ h.pn < s.accepted_pn =>
         h.v <= k /\ (h.v = k => h.pn <= g.pn)
  <2>1. \A h \in H : h.v \in Nat
    BY <1>4, VoteIs
  <2>. QED
    BY <1>1, <1>5, <1>7, <2>1 DEF Reported
<1>. QED
  BY <1>1, <1>2, <1>3, <1>5, <1>6, <1>7, <1>8 DEF Ready

(***************************************************************************)
(* A peon answers and votes.                                                *)
(***************************************************************************)

\* An answer that says what leader s is to know
LEMMA AddLast ==
  ASSUME NEW H, NEW o, NEW n2, NEW q, NEW p, NEW t, NEW s, PairB(H, o, q, p, t, s),
         n2[q][p] = o[q][p], NEW last, Appends(o[p][q], last, n2[p][q]), last.op = "LAST",
         last.epoch = s.epoch /\ last.pn = s.accepted_pn => LastB(H, s, p, t, last)
  PROVE  PairB(H, n2, q, p, t, s)
<1>. DEFINE u == o[p][q]  c == n2[p][q]  e == s.epoch
<1>1. /\ Len(u) \in Nat /\ Len(c) = Len(u) + 1 /\ c[Len(u) + 1] = last
      /\ \A i \in 1 .. Len(u) : c[i] = u[i]
      /\ \A i \in 1 .. Len(c) : i \in 1 .. Len(u) \/ i = Len(u) + 1
  BY DEF Appends
<1>2. ~Is(last, "ACCEPT", e)
  BY DEF Is
<1>3. \A i \in 1 .. Len(u) :
         /\ Is(u[i], "LAST", e) /\ u[i].pn = s.accepted_pn => LastB(H, s, p, t, u[i])
         /\ Is(u[i], "ACCEPT", e) =>
              /\ Works(s, p, u[i])
              /\ Vote(p, s.last_committed + 1, s.accepted_pn, s.new_value) \in H
              /\ \A j \in 1 .. Len(u) : Is(u[j], "ACCEPT", e) => j = i
  BY DEF PairB
<1>4. \A i \in 1 .. Len(o[q][p]) :
         /\ Is(o[q][p][i], "COLLECT", e) /\ o[q][p][i].pn = s.accepted_pn =>
              o[q][p][i].lc <= s.last_committed
         /\ Is(o[q][p][i], "BEGIN", e) =>
              /\ Works(s, p, o[q][p][i])
              /\ \A j \in 1 .. Len(u) : ~Is(u[j], "ACCEPT", e)
              /\ \A j \in 1 .. Len(o[q][p]) : Is(o[q][p][j], "BEGIN", e) => j = i
  BY DEF PairB
<1>5. n2[q][p] = o[q][p]
  OBVIOUS
<1>6. Is(last, "LAST", e) /\ last.pn = s.accepted_pn => LastB(H, s, p, t, last)
  BY DEF Is
<1>. HIDE DEF u, c, e
<1>7. \A i \in 1 .. Len(c) :
         /\ Is(c[i], "LAST", e) /\ c[i].pn = s.accepted_pn => LastB(H, s, p, t, c[i])
         /\ Is(c[i], "ACCEPT", e) =>
              /\ Works(s, p, c[i])
              /\ Vote(p, s.last_committed + 1, s.accepted_pn, s.new_value) \in H
              /\ \A j \in 1 .. Len(c) : Is(c[j], "ACCEPT", e) => j = i
  BY <1>1, <1>2, <1>3, <1>6
<1>8. \A j \in 1 .. Len(c) : Is(c[j], "ACCEPT", e) => j \in 1 .. Len(u) /\ c[j] = u[j]
  BY <1>1, <1>2
<1>. QED
  BY <1>4, <1>5, <1>7, <1>8 DEF PairB, c, e

\* What handle_collect answers
AnswersB(s, t, msg, last) ==
  /\ SameStore(s, t) /\ last.lc = s.last_committed /\ last.fc = s.first_committed
  /\ msg.lc > s.last_committed => DOMAIN last.values = {} /\ last.upn = 0
  /\ ~(msg.lc > s.last_committed) =>
       /\ last.values = Restricted(s.log, msg.lc + 1 .. s.last_committed + 1)
       /\ last.upn = IF Exists(s, s.last_committed + 1) THEN PendingPn(s, s.accepted_pn) ELSE 0

\* What m tells is what it has stored.
LEMMA AnswerTells ==
  ASSUME NEW H, NEW K, NEW ms, NEW m \in Rank, NEW s, s = ms[m], Fit(m, s), MonB(H, K, m, s),
         N > 1, H \subseteq VoteType, VotesOK(H, K, ms), NEW msg \in Messages, NEW t,
         NEW last, AnswersB(s, t, msg, last)
  PROVE  /\ Carries(K, last, last.lc + 1)
         /\ last.upn > 0 =>
              /\ last.lc + 1 \in DOMAIN last.values
              /\ \E h \in H : h.v = last.lc + 1 /\ h.pn = last.upn
                              /\ h.x = last.values[last.lc + 1]
         /\ \A h \in H : h.p = m =>
              /\ h.v <= last.lc + 1
              /\ h.v = last.lc + 1 /\ msg.lc <= s.last_committed => h.pn <= last.upn
         /\ \A v \in msg.lc + 1 .. last.lc : v >= last.fc => v \in DOMAIN last.values
<1>. DEFINE k == s.last_committed + 1
<1>1. /\ s \in Monitors /\ s.last_committed \in Nat /\ s.first_committed \in Nat /\ msg.lc \in Nat
      /\ s.log \in VMaps /\ s.pending_pn \in Nat
  BY FitFacts DEF Monitors, Messages
<1>2. DOMAIN s.log \subseteq Nat
  BY <1>1, VMapsDef
<1>3. /\ \A h \in H : h.p = m /\ h.v > s.last_committed =>
           /\ h.v = k /\ Exists(s, h.v) /\ s.pending_v = h.v
           /\ h.pn <= s.pending_pn
      /\ Exists(s, k) =>
           /\ PendingPn(s, s.accepted_pn) = s.pending_pn /\ s.pending_pn > 0
           /\ Vote(m, k, s.pending_pn, s.log[k]) \in H
  BY PendingB
<1>4. \A h \in H : h.p = m => h.v <= k
  <2>1. \A h \in H : h.v \in Nat
    BY VoteIs
  <2>. QED
    BY <1>1, <1>3, <2>1
<1>5. CASE msg.lc > s.last_committed
  <2>1. DOMAIN last.values = {} /\ last.upn = 0 /\ last.lc = s.last_committed
    BY <1>5 DEF AnswersB
  <2>. QED
    BY <1>1, <1>4, <1>5, <2>1 DEF Carries
<1>6. CASE ~(msg.lc > s.last_committed)
  <2>1. /\ DOMAIN last.values = DOMAIN s.log \cap (msg.lc + 1 .. k)
        /\ \A v \in DOMAIN last.values : last.values[v] = s.log[v]
    BY <1>6 DEF AnswersB, Restricted
  <2>2. last.lc = s.last_committed /\ last.fc = s.first_committed
        /\ last.upn = IF Exists(s, k) THEN PendingPn(s, s.accepted_pn) ELSE 0
    BY <1>6 DEF AnswersB
  <2>3. /\ \A v \in s.first_committed .. s.last_committed : v = 0 \/ v \in DOMAIN s.log
        /\ \A v \in DOMAIN s.log : s.first_committed <= v /\ v <= s.last_committed + 1
        /\ \A v \in DOMAIN s.log : v <= s.last_committed => [v |-> v, value |-> s.log[v]] \in K
    BY DEF MonB, Whole, Stored
  <2>4. Carries(K, last, last.lc + 1)
    <3>. SUFFICES ASSUME NEW v \in DOMAIN last.values
                  PROVE  /\ v <= last.lc + 1
                         /\ \A i \in v .. last.lc : i \in DOMAIN last.values
                         /\ v <= last.lc => [v |-> v, value |-> last.values[v]] \in K
      BY DEF Carries
    <3>1. v \in Nat /\ v \in DOMAIN s.log /\ last.values[v] = s.log[v] /\ v >= msg.lc + 1 /\ v <= k
      BY <1>1, <1>2, <2>1
    <3>2. \A i \in v .. s.last_committed : i \in DOMAIN s.log /\ i \in msg.lc + 1 .. k
      BY <1>1, <2>3, <3>1
    <3>. QED
      BY <1>1, <2>1, <2>2, <2>3, <3>1, <3>2
  <2>5. last.upn > 0 =>
              /\ last.lc + 1 \in DOMAIN last.values
              /\ \E h \in H : h.v = last.lc + 1 /\ h.pn = last.upn
                              /\ h.x = last.values[last.lc + 1]
    <3>. SUFFICES ASSUME last.upn > 0
                  PROVE  /\ k \in DOMAIN last.values
                         /\ \E h \in H : h.v = k /\ h.pn = last.upn /\ h.x = last.values[k]
      BY <2>2
    <3>1. Exists(s, k)
      BY <2>2
    <3>2. k \in DOMAIN last.values /\ last.values[k] = s.log[k]
      BY <1>1, <1>6, <2>1, <3>1 DEF Exists
    <3>. DEFINE g == Vote(m, k, s.pending_pn, s.log[k])
    <3>3. g \in H /\ g.v = k /\ g.pn = last.upn /\ g.x = last.values[k]
      BY <1>3, <2>2, <3>1, <3>2, VoteFields
    <3>. HIDE DEF g
    <3>. QED
      BY <3>2, <3>3
  <2>6. \A h \in H : h.p = m /\ h.v = k => h.pn <= last.upn
    BY <1>1, <1>3, <2>2
  <2>7. \A v \in msg.lc + 1 .. last.lc : v >= last.fc => v \in DOMAIN last.values
    BY <1>1, <2>1, <2>2, <2>3
  <2>. QED
    BY <1>4, <2>2, <2>4, <2>5, <2>6, <2>7
<1>. QED
  BY <1>5, <1>6

\* Peon m promises and tells what it has voted for.
LEMMA AnswerB ==
  ASSUME NEW ms, NEW n, AskInv(ms, n), NEW H, NEW K, Core(H, K, ms, n), NEW m \in Rank,
         NEW t \in Monitors, NEW x \in Rank, n[x][m] # <<>>, NEW last, NEW msg,
         msg = Head(n[x][m]), AnswersA(ms[m], t, msg, last), AnswersB(ms[m], t, msg, last)
  PROVE  Core(H, K, Moved(ms, m, t), Plus(Pop(n, {x}, m), m, SendTo({x}, last)))
<1>. DEFINE s == ms[m]
            l == ms[x]
            w == Moved(ms, m, t)
            o == Pop(n, {x}, m)
            out == SendTo({x}, last)
            n2 == Plus(o, m, out)
<1>1. ms \in [Rank -> Monitors] /\ n \in Nets /\ s \in Monitors /\ l \in Monitors /\ Fit(m, s)
  BY FitFacts DEF AskInv
<1>2. w[m] = t /\ w = Moved(ms, m, t)
  BY <1>1, MovedAt
<1>3. /\ o \in Nets /\ Shorter(o, n) /\ msg \in Messages /\ 1 \in 1 .. Len(n[x][m])
      /\ msg = n[x][m][1]
  <2>1. Pop(n, {x}, m) \in Nets /\ Shorter(Pop(n, {x}, m), n)
    BY <1>1, PopHead
  <2>2. /\ 1 \in 1 .. Len(n[x][m])
        /\ Head(n[x][m]) = n[x][m][1] /\ n[x][m][1] \in Messages
    BY <1>1, PopHead, ZenonT(60)
  <2>. QED
    BY <2>1, <2>2
<1>4. /\ s.role # "leader" /\ t.role # "leader" /\ t.epoch = s.epoch /\ t.last_pn = s.last_pn
      /\ msg.op = "COLLECT" /\ msg.epoch = s.epoch
      /\ last \in Messages /\ last.op = "LAST" /\ last.epoch = s.epoch
      /\ last.pn = t.accepted_pn
  BY DEF AnswersA
<1>5. \/ msg.pn > s.accepted_pn /\ t.accepted_pn = msg.pn /\ t.stored_pn = msg.pn
      \/ t.accepted_pn = s.accepted_pn /\ t.stored_pn = s.stored_pn
  BY DEF AnswersA
<1>6. /\ s.accepted_pn \in Nat /\ s.stored_pn \in Nat /\ msg.pn \in Nat /\ s.epoch \in Nat
      /\ s.stored_pn <= s.accepted_pn /\ s.last_committed \in Nat /\ s.pending_pn \in Nat
      /\ l.last_committed \in Nat /\ msg.lc \in Nat /\ s.last_pn \in Nat
  BY <1>1, <1>3 DEF Monitors, Messages, AskInv, PnsA
<1>7. x # m
  BY <1>3, <1>4 DEF AskInv, MsgA
<1>8. N > 1
  BY <1>7, NAssumption DEF Rank
<1>9. MonB(H, K, m, s) /\ H \subseteq VoteType /\ VotesOK(H, K, ms)
  BY <1>8 DEF Core, VotesOK
<1>10. SameStore(s, t) /\ last.lc = s.last_committed
  BY DEF AnswersB
<1>11. Advances(s, t)
  BY <1>4, <1>5, <1>6, <1>10, SMTT(60) DEF Advances, SameStore
<1>12. MonB(H, K, m, t)
  <2>1. Whole(t) /\ Stored(K, t)
    BY <1>9, <1>10 DEF MonB, Whole, Stored, SameStore
  <2>2. PromiseOK(t)
    <3>1. PromiseOK(s) /\ t.pending_pn = s.pending_pn
      BY <1>9, <1>10 DEF MonB, SameStore
    <3>. QED
      BY <1>4, <1>5, <1>6, <3>1 DEF PromiseOK, Larger
  <2>3. N > 1 /\ t.pending_v > t.last_committed =>
          Vote(m, t.pending_v, t.pending_pn, t.log[t.pending_v]) \in H
    BY <1>9, <1>10 DEF MonB, SameStore
  <2>. QED
    BY <2>1, <2>2, <2>3 DEF MonB
<1>13. /\ Carries(K, last, last.lc + 1)
       /\ last.upn > 0 =>
            /\ last.lc + 1 \in DOMAIN last.values
            /\ \E h \in H : h.v = last.lc + 1 /\ h.pn = last.upn
                            /\ h.x = last.values[last.lc + 1]
       /\ \A h \in H : h.p = m =>
            /\ h.v <= last.lc + 1
            /\ h.v = last.lc + 1 /\ msg.lc <= s.last_committed => h.pn <= last.upn
       /\ \A v \in msg.lc + 1 .. last.lc : v >= last.fc => v \in DOMAIN last.values
  BY <1>1, <1>3, <1>8, <1>9, AnswerTells
<1>14. out \in [Rank -> Seq(Messages)]
  BY <1>4, SendToAt
<1>15. ASSUME NEW d \in Rank, NEW i \in 1 .. Len(out[d]) PROVE out[d][i] = last
  BY <1>4, SendToOne
<1>16. \A d \in Rank : \A i \in 1 .. Len(out[d]) : MsgB(H, K, w, m, d, out[d][i])
  <2>1. \A d : MsgB(H, K, w, m, d, last)
    BY <1>4, <1>13 DEF MsgB
  <2>. QED
    BY <1>15, <2>1
<1>17. \A q \in Rank : q # x => Mute(out, q)
  <2>1. \A d \in Rank : \A i \in 1 .. Len(out[d]) : d \in {x}
    BY <1>4, SendToOne
  <2>. HIDE DEF out
  <2>. QED
    BY <2>1 DEF Mute, Without
<1>18. /\ n2[x][m] = o[x][m] /\ Appends(o[m][x], last, n2[m][x])
       /\ o[m][x] = n[m][x]
  <2>1. n2[x][m] = o[x][m]
    <3>. HIDE DEF out, o
    <3>. QED
      BY <1>3, <1>7, <1>14, PlusOther
  <2>2. o[m][x] = n[m][x]
    BY <1>1, <1>7, PopHead, ZenonT(60)
  <2>3. Appends(o[m][x], last, n2[m][x])
    <3>. HIDE DEF o
    <3>. QED
      BY <1>3, <1>4, SentOne
  <2>. QED
    BY <2>1, <2>2, <2>3
<1>19. StillPair(H, n, n2, x, m, t, l)
  <2>. SUFFICES ASSUME l.role = "leader"
                PROVE  /\ PairB(H, n2, x, m, t, l)
                       /\ Silent(n, x, m, l.epoch) => Silent(n2, x, m, l.epoch)
    BY DEF StillPair
  <2>1. PairB(H, n, x, m, s, l) /\ PairA(n, x, m, s, l)
    BY <1>7, <1>8, LeadsB
  <2>2. PairB(H, o, x, m, t, l)
    <3>1. From(o[x][m], n[x][m], Questions) /\ From(o[m][x], n[m][x], Replies)
      BY <1>1, <1>3, ShorterFrom
    <3>2. t.stored_pn >= s.stored_pn
      BY <1>11 DEF Advances
    <3>. HIDE DEF o
    <3>. QED
      BY <1>1, <1>9, <2>1, <3>1, <3>2, PairKept
  <2>3. ASSUME last.epoch = l.epoch, last.pn = l.accepted_pn PROVE LastB(H, l, m, t, last)
    <3>1. Is(msg, "COLLECT", l.epoch)
      BY <1>4, <2>3 DEF Is
    <3>2. Asks(n[x][m], l.epoch)
      BY <1>3, <3>1 DEF Asks
    <3>3. s.accepted_pn # l.accepted_pn
      BY <2>1, <3>2 DEF PairA
    <3>4. msg.pn = l.accepted_pn /\ t.stored_pn = l.accepted_pn
      BY <1>4, <1>5, <2>3, <3>3
    <3>5. msg.lc <= l.last_committed
      BY <1>3, <2>1, <3>1, <3>4 DEF PairB
    <3>6. t.stored_pn >= l.accepted_pn
      BY <1>6, <3>4
    <3>7. \A v \in l.last_committed + 1 .. last.lc : v >= last.fc => v \in DOMAIN last.values
      BY <1>6, <1>10, <1>13, <3>5, SMTT(60)
    <3>8. \A h \in H : h.p = m =>
            /\ h.v <= last.lc + 1
            /\ h.v = last.lc + 1 /\ last.lc >= l.last_committed => h.pn <= last.upn
      BY <1>6, <1>10, <1>13, <3>5, SMTT(60)
    <3>. QED
      BY <3>6, <3>7, <3>8 DEF LastB
  <2>4. PairB(H, n2, x, m, t, l)
    <3>. HIDE DEF n2, o
    <3>. QED
      BY <1>4, <1>18, <2>2, <2>3, AddLast
  <2>5. ASSUME Silent(n, x, m, l.epoch) PROVE Silent(n2, x, m, l.epoch)
    <3>1. ~Asks(n[x][m], l.epoch) /\ ~Answers(n[m][x], l.epoch)
      BY <2>5 DEF Silent
    <3>2. s.epoch # l.epoch
      BY <1>3, <1>4, <3>1 DEF Asks, Is
    <3>3. ~Asks(o[x][m], l.epoch)
      <4>1. o[x][m] \in Seq(Messages) /\ n[x][m] \in Seq(Messages) /\ Suffix(o[x][m], n[x][m])
        BY <1>1, <1>3 DEF Shorter, Nets
      <4>. HIDE DEF o
      <4>. QED
        BY <3>1, <4>1, SuffixAsk, ZenonT(60)
    <3>4. ~Answers(n2[m][x], l.epoch)
      <4>1. ~Is(last, "LAST", l.epoch)
        BY <1>4, <3>2 DEF Is
      <4>. HIDE DEF n2, o
      <4>. QED
        BY <1>18, <3>1, <4>1, OneMoreAsks
    <3>. HIDE DEF n2, o
    <3>. QED
      BY <1>18, <3>3, <3>4 DEF Silent
  <2>. QED
    BY <2>4, <2>5
<1>20. LeadB(H, K, w, n2, m)
  <2>. HIDE DEF w, n2
  <2>. QED
    BY <1>2, <1>4 DEF LeadB
<1>21. /\ \A q \in Rank \ {m} : Mute(out, q) \/ StillPair(H, n, Plus(o, m, out), q, m, t, ms[q])
       /\ LeadB(H, K, w, Plus(o, m, out), m)
  BY <1>17, <1>19, <1>20
<1>. HIDE DEF out, w, o
<1>22. Core(H, K, w, Plus(o, m, out))
  BY <1>1, <1>2, <1>3, <1>11, <1>12, <1>14, <1>16, <1>21, MicroKeep
<1>. QED
  BY <1>22 DEF out, w, o

\* An ACCEPT that tells of a vote for what leader s proposes
LEMMA AddAccept ==
  ASSUME NEW H, NEW o, NEW n2, NEW q, NEW p, NEW t, NEW s, PairB(H, o, q, p, t, s),
         n2[q][p] = o[q][p], NEW acc, Appends(o[p][q], acc, n2[p][q]), acc.op = "ACCEPT",
         acc.epoch = s.epoch =>
           /\ Works(s, p, acc)
           /\ Vote(p, s.last_committed + 1, s.accepted_pn, s.new_value) \in H
           /\ \A i \in 1 .. Len(o[q][p]) : ~Is(o[q][p][i], "BEGIN", s.epoch)
           /\ \A i \in 1 .. Len(o[p][q]) : ~Is(o[p][q][i], "ACCEPT", s.epoch)
  PROVE  PairB(H, n2, q, p, t, s)
<1>. DEFINE u == o[p][q]  c == n2[p][q]  e == s.epoch
<1>1. /\ Len(u) \in Nat /\ Len(c) = Len(u) + 1 /\ c[Len(u) + 1] = acc
      /\ \A i \in 1 .. Len(u) : c[i] = u[i]
      /\ \A i \in 1 .. Len(c) : i \in 1 .. Len(u) \/ i = Len(u) + 1
  BY DEF Appends
<1>2. ~Is(acc, "LAST", e)
  BY DEF Is
<1>3. \A i \in 1 .. Len(u) :
         /\ Is(u[i], "LAST", e) /\ u[i].pn = s.accepted_pn => LastB(H, s, p, t, u[i])
         /\ Is(u[i], "ACCEPT", e) =>
              /\ Works(s, p, u[i])
              /\ Vote(p, s.last_committed + 1, s.accepted_pn, s.new_value) \in H
              /\ \A j \in 1 .. Len(u) : Is(u[j], "ACCEPT", e) => j = i
  BY DEF PairB
<1>4. \A i \in 1 .. Len(o[q][p]) :
         /\ Is(o[q][p][i], "COLLECT", e) /\ o[q][p][i].pn = s.accepted_pn =>
              o[q][p][i].lc <= s.last_committed
         /\ Is(o[q][p][i], "BEGIN", e) =>
              /\ Works(s, p, o[q][p][i])
              /\ \A j \in 1 .. Len(u) : ~Is(u[j], "ACCEPT", e)
              /\ \A j \in 1 .. Len(o[q][p]) : Is(o[q][p][j], "BEGIN", e) => j = i
  BY DEF PairB
<1>5. n2[q][p] = o[q][p]
  OBVIOUS
<1>6. Is(acc, "ACCEPT", e) =>
           /\ Works(s, p, acc)
           /\ Vote(p, s.last_committed + 1, s.accepted_pn, s.new_value) \in H
           /\ \A i \in 1 .. Len(o[q][p]) : ~Is(o[q][p][i], "BEGIN", e)
           /\ \A i \in 1 .. Len(u) : ~Is(u[i], "ACCEPT", e)
  BY DEF Is
<1>. HIDE DEF u, c, e
<1>7. \A i \in 1 .. Len(c) :
         /\ Is(c[i], "LAST", e) /\ c[i].pn = s.accepted_pn => LastB(H, s, p, t, c[i])
         /\ Is(c[i], "ACCEPT", e) =>
              /\ Works(s, p, c[i])
              /\ Vote(p, s.last_committed + 1, s.accepted_pn, s.new_value) \in H
              /\ \A j \in 1 .. Len(c) : Is(c[j], "ACCEPT", e) => j = i
  BY <1>1, <1>2, <1>3, <1>6
<1>8. \A j \in 1 .. Len(c) : Is(c[j], "ACCEPT", e) =>
        \/ j \in 1 .. Len(u) /\ c[j] = u[j]
        \/ \A i \in 1 .. Len(o[q][p]) : ~Is(o[q][p][i], "BEGIN", e)
  BY <1>1, <1>6
<1>. QED
  BY <1>4, <1>5, <1>7, <1>8 DEF PairB, c, e

\* What handle_begin does: it stores the value and accepts
Accepts(s, t, msg, y, acc) ==
  /\ s.role # "leader" /\ t.role # "leader" /\ Stores(s, t, s.accepted_pn, y)
  /\ t.accepted_pn = s.accepted_pn
  /\ msg.op = "BEGIN" /\ msg.epoch = s.epoch /\ msg.pn = s.accepted_pn
  /\ msg.lc = s.last_committed /\ y = msg.values[s.last_committed + 1]
  /\ acc \in Messages /\ acc.op = "ACCEPT" /\ acc.epoch = s.epoch
  /\ acc.pn = s.accepted_pn /\ acc.lc = s.last_committed

\* What m adds to H is what the leader has voted for.
LEMMA VoteJoins ==
  ASSUME NEW ms, NEW n, AskInv(ms, n), NEW H, NEW K, Core(H, K, ms, n), NEW m \in Rank, N > 1,
         NEW t \in Monitors, NEW x \in Rank, NEW k, k = ms[m].last_committed + 1,
         NEW y, NEW a, a = ms[m].accepted_pn, Vote(x, k, a, y) \in H, y.trim <= ms[m].last_committed,
         Stores(ms[m], t, a, y), t.accepted_pn = a, ms[m].pending_pn <= a,
         NEW G, G = H \cup {Vote(m, k, a, y)}, NEW w, w = Moved(ms, m, t)
  PROVE  /\ Casts(H, G, m, ms[m]) /\ Commits(G, K, K, ms, w) /\ G \subseteq VoteType
         /\ OneValue(G) /\ \A h \in G \ H : VoteOK(G, K, w, h)
         /\ MonB(G, K, m, t) /\ Advances(ms[m], t)
<1>. DEFINE s == ms[m]
            g == Vote(m, k, a, y)
            gl == Vote(x, k, a, y)
<1>1. /\ ms \in [Rank -> Monitors] /\ s \in Monitors /\ Fit(m, s) /\ s.accepted_pn \in Nat
      /\ s.last_committed \in Nat /\ s.stored_pn \in Nat /\ s.pending_pn \in Nat
      /\ s.stored_pn <= s.accepted_pn /\ k \in Nat /\ a \in Nat /\ s.last_pn \in Nat
      /\ s.accepted_pn <= Larger(s.stored_pn, s.last_pn)
  <2>1. ms \in [Rank -> Monitors] /\ Fit(m, s) /\ PnsA(ms, m)
    BY DEF AskInv
  <2>2. /\ s \in Monitors /\ s.stored_pn <= s.accepted_pn
        /\ s.accepted_pn <= Larger(s.stored_pn, s.last_pn)
    BY <2>1 DEF PnsA
  <2>. QED
    BY <2>1, <2>2 DEF Monitors
<1>2. /\ H \subseteq VoteType /\ OneValue(H) /\ VotesOK(H, K, ms) /\ MonB(H, K, m, s)
      /\ K \subseteq [v: Nat \ {0}, value: Value]
  BY DEF Core, VotesOK, Chosen
<1>3. gl \in H /\ gl.v = k /\ gl.pn = a /\ gl.x = y /\ gl.p = x
  BY VoteFields
<1>4. g.p = m /\ g.v = k /\ g.pn = a /\ g.x = y
  BY VoteFields
<1>5. y \in Value
  <2>. HIDE DEF gl
  <2>. QED
    BY <1>2, <1>3, VoteIs
<1>6. g \in VoteType
  BY <1>1, <1>5 DEF VoteType, Vote
<1>7. VoteOK(H, K, ms, gl)
  <2>. HIDE DEF gl
  <2>. QED
    BY <1>2, <1>3 DEF VotesOK
<1>8. k > 0 /\ a > 0 /\ OwnPn(ms, a) /\ Safe(H, ms, k, a, y) /\ Later(K, k, y)
  <2>. HIDE DEF gl
  <2>. QED
    BY <1>3, <1>7 DEF VoteOK
<1>9. H \subseteq G /\ G \subseteq VoteType /\ \A h \in G \ H : h = g
  BY <1>2, <1>6
<1>10. Bound(s) <= a
  BY <1>1, BoundIs
<1>11. g \in G
  OBVIOUS
<1>. HIDE DEF g, gl
<1>12. Casts(H, G, m, s)
  BY <1>1, <1>3, <1>4, <1>9, <1>10, BoundIs DEF Casts
<1>13. OneValue(G)
  <2>1. \A h \in G : h \in H \/ h = g
    BY <1>9
  <2>2. \A h \in H : h.v = k /\ h.pn = a => h.x = y
    BY <1>2, <1>3 DEF OneValue
  <2>. QED
    BY <1>2, <1>4, <2>1, <2>2 DEF OneValue
<1>14. Commits(G, K, K, ms, w)
  BY <1>2 DEF Commits
<1>15. s.first_committed <= s.last_committed
  BY <1>1, FitFacts
<1>16. MonB(G, K, m, t) /\ Advances(s, t)
  <2>1. a >= s.pending_pn /\ a <= t.accepted_pn /\ a <= Larger(s.stored_pn, s.last_pn)
    BY <1>1
  <2>2. Vote(m, s.last_committed + 1, a, y) \in G
    BY <1>11 DEF g
  <2>. QED
    BY <1>1, <1>2, <1>5, <1>15, <2>1, <2>2, StoresB
<1>17. w[m] = t
  BY <1>1, MovedAt
<1>18. VoteOK(G, K, w, g)
  <2>1. Safe(G, w, k, a, y)
    BY <1>1, <1>8, <1>9, <1>12, <1>16, SafeGrows
  <2>2. OwnPn(w, a)
    BY <1>1, <1>8, <1>16, OwnGrows DEF Advances
  <2>3. t.pending_pn = a /\ t.pending_v = k /\ t.last_committed = s.last_committed
    BY DEF Stores
  <2>. QED
    BY <1>1, <1>4, <1>8, <1>17, <2>1, <2>2, <2>3 DEF VoteOK
<1>. QED
  BY <1>9, <1>12, <1>13, <1>14, <1>16, <1>18

\* Peon m votes for what the leader proposes, over no vote of a higher number.
LEMMA VoteB ==
  ASSUME NEW ms, NEW n, AskInv(ms, n), NEW H, NEW K, Core(H, K, ms, n), NEW m \in Rank,
         NEW t \in Monitors, NEW x \in Rank, n[x][m] # <<>>, NEW msg, msg = Head(n[x][m]),
         NEW y, NEW acc, Accepts(ms[m], t, msg, y, acc),
         ms[m].pending_pn <= ms[m].accepted_pn
  PROVE  \E G : Core(G, K, Moved(ms, m, t), Plus(Pop(n, {x}, m), m, SendTo({x}, acc)))
<1>. DEFINE s == ms[m]
            l == ms[x]
            w == Moved(ms, m, t)
            o == Pop(n, {x}, m)
            out == SendTo({x}, acc)
            n2 == Plus(o, m, out)
            k == s.last_committed + 1
            a == s.accepted_pn
            G == H \cup {Vote(m, k, a, y)}
<1>1. ms \in [Rank -> Monitors] /\ n \in Nets /\ s \in Monitors /\ l \in Monitors
  BY DEF AskInv
<1>2. w[m] = t /\ w = Moved(ms, m, t) /\ (x # m => w[x] = l)
  BY <1>1, MovedAt
<1>3. /\ o \in Nets /\ Shorter(o, n) /\ msg \in Messages /\ 1 \in 1 .. Len(n[x][m])
      /\ msg = n[x][m][1]
  <2>1. Pop(n, {x}, m) \in Nets /\ Shorter(Pop(n, {x}, m), n)
    BY <1>1, PopHead
  <2>2. /\ 1 \in 1 .. Len(n[x][m])
        /\ Head(n[x][m]) = n[x][m][1] /\ n[x][m][1] \in Messages
    BY <1>1, PopHead
  <2>. QED
    BY <2>1, <2>2
<1>4. /\ s.role # "leader" /\ t.role # "leader" /\ t.accepted_pn = a /\ Stores(s, t, a, y)
      /\ msg.op = "BEGIN" /\ msg.epoch = s.epoch /\ msg.pn = a /\ msg.lc = s.last_committed
      /\ y = msg.values[k] /\ acc \in Messages /\ acc.op = "ACCEPT" /\ acc.epoch = s.epoch
      /\ acc.pn = a /\ acc.lc = s.last_committed
  BY DEF Accepts
<1>5. x # m
  BY <1>3, <1>4 DEF AskInv, MsgA
<1>6. N > 1
  BY <1>5, NAssumption DEF Rank
<1>7. s.last_committed \in Nat /\ a \in Nat /\ k \in Nat /\ s.epoch \in Nat
  <2>1. s.last_committed \in Nat /\ s.accepted_pn \in Nat /\ s.epoch \in Nat
    BY <1>1, SMTT(60) DEF Monitors
  <2>. QED
    BY <2>1
<1>8. k \in DOMAIN msg.values /\ Vote(x, k, a, y) \in H /\ s.epoch <= l.epoch
  <2>1. MsgB(H, K, ms, x, m, msg)
    BY <1>3 DEF Core
  <2>. QED
    BY <1>4, <2>1 DEF MsgB
<1>9. y.trim <= s.last_committed
  <2>1. msg.values \in VMaps
    BY <1>3, SMTT(60) DEF Messages
  <2>2. y.trim < k /\ y \in Value
    BY <1>4, <1>8, <2>1, VMapsDef
  <2>3. y.trim \in Nat
    BY <2>2 DEF Value
  <2>. QED
    BY <1>7, <2>2, <2>3
<1>10. /\ Casts(H, G, m, s) /\ Commits(G, K, K, ms, w) /\ G \subseteq VoteType
       /\ OneValue(G) /\ \A h \in G \ H : VoteOK(G, K, w, h)
       /\ MonB(G, K, m, t) /\ Advances(s, t)
  <2>1. k = ms[m].last_committed + 1 /\ a = ms[m].accepted_pn /\ G = H \cup {Vote(m, k, a, y)}
        /\ Stores(ms[m], t, a, y) /\ y.trim <= ms[m].last_committed /\ w = Moved(ms, m, t)
    BY <1>2, <1>4, <1>9
  <2>. HIDE DEF k, a, G, w
  <2>. QED
    <3>1. Vote(x, k, a, y) \in H /\ t.accepted_pn = a /\ ms[m].pending_pn <= a
      BY <1>4, <1>8, <2>1
    <3>2. Casts(H, G, m, ms[m]) /\ Commits(G, K, K, ms, w) /\ G \subseteq VoteType
      BY <1>6, <2>1, <3>1, VoteJoins, ZenonT(60)
    <3>3. OneValue(G) /\ MonB(G, K, m, t) /\ Advances(ms[m], t)
      BY <1>6, <2>1, <3>1, VoteJoins
    <3>4. \A h \in G \ H : VoteOK(G, K, w, h)
      BY <1>6, <2>1, <3>1, VoteJoins, ZenonT(60)
    <3>. QED
      BY <3>2, <3>3, <3>4
<1>11. Vote(m, k, a, y) \in G /\ H \subseteq G
  OBVIOUS
<1>. HIDE DEF G
<1>12. out \in [Rank -> Seq(Messages)]
  BY <1>4, SendToAt
<1>13. ASSUME NEW d \in Rank, NEW i \in 1 .. Len(out[d]) PROVE out[d][i] = acc /\ d = x
  BY <1>4, SendToOne
<1>14. \A d \in Rank : \A i \in 1 .. Len(out[d]) : MsgB(G, K, w, m, d, out[d][i])
  <2>1. MsgB(G, K, w, m, x, acc)
    <3>. HIDE DEF w
    <3>. QED
      BY <1>2, <1>4, <1>5, <1>8 DEF MsgB
  <2>. QED
    BY <1>13, <2>1
<1>15. \A q \in Rank : q # x => Mute(out, q)
  <2>. HIDE DEF out
  <2>. QED
    BY <1>13 DEF Mute, Without
<1>16. /\ n2[x][m] = o[x][m] /\ Appends(o[m][x], acc, n2[m][x])
       /\ o[m][x] = n[m][x]
  <2>1. n2[x][m] = o[x][m]
    <3>. HIDE DEF out, o
    <3>. QED
      BY <1>3, <1>5, <1>12, PlusOther
  <2>2. o[m][x] = n[m][x]
    BY <1>1, <1>5, PopHead, ZenonT(60)
  <2>3. Appends(o[m][x], acc, n2[m][x])
    <3>. HIDE DEF o
    <3>. QED
      BY <1>3, <1>4, SentOne
  <2>. QED
    BY <2>1, <2>2, <2>3
<1>17. /\ Len(n[x][m]) \in Nat
       /\ \A i \in 1 .. Len(o[x][m]) : i + 1 \in 1 .. Len(n[x][m]) /\ o[x][m][i] = n[x][m][i + 1]
                                        /\ i + 1 # 1
  <2>1. Pop(n, {x}, m)[x][m] = Tail(n[x][m])
    BY <1>1, PopHead
  <2>2. /\ Len(n[x][m]) \in Nat /\ Len(Tail(n[x][m])) = Len(n[x][m]) - 1
        /\ \A i \in 1 .. Len(Tail(n[x][m])) :
              i + 1 \in 1 .. Len(n[x][m]) /\ Tail(n[x][m])[i] = n[x][m][i + 1]
    BY <1>1, PopHead
  <2>3. o[x][m] = Tail(n[x][m])
    BY <2>1
  <2>. HIDE DEF o
  <2>. QED
    BY <2>2, <2>3
<1>18. StillPair(G, n, n2, x, m, t, l)
  <2>. SUFFICES ASSUME l.role = "leader"
                PROVE  /\ PairB(G, n2, x, m, t, l)
                       /\ Silent(n, x, m, l.epoch) => Silent(n2, x, m, l.epoch)
    BY DEF StillPair
  <2>. HIDE DEF n2, o, w, out
  <2>1. PairB(H, n, x, m, s, l) /\ H \subseteq VoteType
    BY <1>5, <1>6, LeadsB
  <2>2. PairB(G, o, x, m, t, l)
    <3>1. From(o[x][m], n[x][m], Questions) /\ From(o[m][x], n[m][x], Replies)
      BY <1>1, <1>3, ShorterFrom
    <3>2. t.stored_pn >= s.stored_pn
      BY <1>10 DEF Advances
    <3>3. \A h \in G \ H : h.p = m => h.pn >= s.stored_pn
      <4>1. Casts(H, G, m, s) /\ G \subseteq VoteType /\ s \in Monitors
        BY <1>1, <1>10
      <4>. HIDE DEF s
      <4>. QED
        BY <4>1, CastsHigh
    <3>. QED
      <4>1. G \subseteq VoteType
        BY <1>10
      <4>. QED
        BY <1>1, <1>11, <2>1, <3>1, <3>2, <3>3, <4>1, PairKept
  <2>3. ASSUME acc.epoch = l.epoch
        PROVE  /\ Works(l, m, acc)
               /\ Vote(m, l.last_committed + 1, l.accepted_pn, l.new_value) \in G
               /\ \A i \in 1 .. Len(o[x][m]) : ~Is(o[x][m][i], "BEGIN", l.epoch)
               /\ \A i \in 1 .. Len(o[m][x]) : ~Is(o[m][x][i], "ACCEPT", l.epoch)
    <3>1. Is(n[x][m][1], "BEGIN", l.epoch)
      BY <1>3, <1>4, <2>3 DEF Is
    <3>2. /\ Works(l, m, n[x][m][1])
          /\ \A j \in 1 .. Len(n[m][x]) : ~Is(n[m][x][j], "ACCEPT", l.epoch)
          /\ \A j \in 1 .. Len(n[x][m]) : Is(n[x][m][j], "BEGIN", l.epoch) => j = 1
      BY <1>3, <2>1, <3>1, SMTT(60) DEF PairB
    <3>3. Works(l, m, acc) /\ l.accepted_pn = a /\ l.last_committed = s.last_committed
          /\ Updating(l)
      BY <1>3, <1>4, <3>2 DEF Works
    <3>4. \A i \in 1 .. Len(o[x][m]) : ~Is(o[x][m][i], "BEGIN", l.epoch)
      BY <1>17, <3>2
    <3>5. Vote(x, k, a, l.new_value) \in H
      <4>1. InRound(l) /\ LeadB(H, K, ms, n, x)
        BY <3>3 DEF InRound, Updating, Core
      <4>2. /\ x \in l.accepted
            /\ \A p \in l.accepted : Vote(p, l.last_committed + 1, l.accepted_pn, l.new_value) \in H
        BY <1>6, <4>1 DEF LeadB
      <4>. QED
        BY <3>3, <4>2
    <3>6. l.new_value = y
      <4>1. OneValue(H)
        BY <1>6, SMTT(60) DEF Core
      <4>. HIDE DEF k, a
      <4>. QED
        BY <1>8, <3>5, <4>1, VoteFields DEF OneValue
    <3>. QED
      BY <1>11, <1>16, <3>2, <3>3, <3>4, <3>6, SMTT(60)
  <2>4. PairB(G, n2, x, m, t, l)
    BY <1>4, <1>16, <2>2, <2>3, AddAccept
  <2>5. ASSUME Silent(n, x, m, l.epoch) PROVE Silent(n2, x, m, l.epoch)
    <3>1. ~Asks(n[x][m], l.epoch) /\ ~Answers(n[m][x], l.epoch)
      BY <2>5 DEF Silent
    <3>2. ~Asks(o[x][m], l.epoch)
      BY <1>17, <3>1, SMTT(60) DEF Asks
    <3>3. ~Is(acc, "LAST", l.epoch)
      BY <1>4 DEF Is
    <3>4. ~Answers(n2[m][x], l.epoch)
      BY <1>16, <3>1, <3>3, OneMoreAsks, SMTT(60)
    <3>. QED
      BY <1>16, <3>2, <3>4 DEF Silent
  <2>. QED
    BY <2>4, <2>5
<1>19. LeadB(G, K, w, n2, m)
  <2>. HIDE DEF w, n2
  <2>. QED
    BY <1>2, <1>4 DEF LeadB
<1>20. /\ \A q \in Rank \ {m} : Mute(out, q) \/ StillPair(G, n, Plus(o, m, out), q, m, t, ms[q])
       /\ LeadB(G, K, w, Plus(o, m, out), m)
  BY <1>15, <1>18, <1>19
<1>. HIDE DEF out, w, o
<1>21. Core(G, K, w, Plus(o, m, out))
  BY <1>1, <1>2, <1>3, <1>10, <1>12, <1>14, <1>20, MicroB
<1>. QED
  BY <1>21 DEF out, w, o

(***************************************************************************)
(* A leader hears answers and acceptances; a monitor dies.                  *)
(***************************************************************************)

\* A value under a later number than any heard of before is the one to propose.
Hears(s, msg) ==
  /\ msg.upn > 0 /\ msg.upn >= s.uncommitted.pn
  /\ msg.lc >= s.last_committed /\ msg.lc + 1 >= s.uncommitted.v

\* What handle_last keeps of an answer
CountsB(s, t, msg) ==
  /\ SameStore(s, t) /\ msg.lc <= s.last_committed
  /\ t.uncommitted = IF Hears(s, msg)
                     THEN [v |-> msg.lc + 1, pn |-> msg.upn, value |-> msg.values[msg.lc + 1]]
                     ELSE s.uncommitted

\* What the leader has heard of before it keeps in mind, and it adds what p says.
LEMMA HearsB ==
  ASSUME NEW H, NEW ms, NEW K, H \subseteq VoteType, VotesOK(H, K, ms),
         NEW s \in Monitors, NEW t \in Monitors, NEW msg \in Messages, CountsB(s, t, msg),
         t.accepted_pn = s.accepted_pn, s.uncommitted.v \in {0, s.last_committed + 1},
         s.uncommitted.v = 0 => s.uncommitted.pn = 0,
         s.uncommitted.v > 0 =>
           \E h \in H : /\ h.v = s.uncommitted.v /\ h.pn = s.uncommitted.pn
                        /\ h.x = s.uncommitted.value,
         msg.upn > 0 => \E h \in H : /\ h.v = msg.lc + 1 /\ h.pn = msg.upn
                                     /\ h.x = msg.values[msg.lc + 1]
  PROVE  /\ \A p : Reported(H, s, p) => Reported(H, t, p)
         /\ \A p, r : LastB(H, s, p, r, msg) => Reported(H, t, p)
         /\ t.uncommitted.v \in {0, t.last_committed + 1}
         /\ t.uncommitted.v = 0 => t.uncommitted.pn = 0
         /\ t.uncommitted.v > 0 =>
              \E h \in H : /\ h.v = t.uncommitted.v /\ h.pn = t.uncommitted.pn
                           /\ h.x = t.uncommitted.value
<1>1. /\ s.last_committed \in Nat /\ msg.lc \in Nat /\ msg.upn \in Nat
      /\ s.uncommitted.v \in Nat /\ s.uncommitted.pn \in Nat /\ s.accepted_pn \in Nat
  BY DEF Monitors, Messages
<1>2. t.last_committed = s.last_committed /\ msg.lc <= s.last_committed
  BY DEF CountsB, SameStore
<1>3. \A h \in H : h.v \in Nat /\ h.pn \in Nat /\ h.pn > 0
  BY VoteIs DEF VotesOK, VoteOK
<1>4. CASE Hears(s, msg)
  <2>1. t.uncommitted.v = msg.lc + 1 /\ t.uncommitted.pn = msg.upn
        /\ t.uncommitted.value = msg.values[msg.lc + 1]
    BY <1>4 DEF CountsB
  <2>2. msg.lc = s.last_committed /\ msg.upn >= s.uncommitted.pn /\ msg.upn > 0
    BY <1>1, <1>2, <1>4 DEF Hears
  <2>3. \A p : Reported(H, s, p) => Reported(H, t, p)
    BY <1>1, <1>2, <1>3, <2>1, <2>2 DEF Reported
  <2>4. \A p, r : LastB(H, s, p, r, msg) => Reported(H, t, p)
    BY <1>1, <1>2, <1>3, <2>1, <2>2 DEF Reported, LastB
  <2>. QED
    BY <1>1, <1>2, <2>1, <2>2, <2>3, <2>4
<1>5. CASE ~Hears(s, msg)
  <2>1. t.uncommitted = s.uncommitted
    BY <1>5 DEF CountsB
  <2>2. \A p : Reported(H, s, p) => Reported(H, t, p)
    BY <1>2, <2>1 DEF Reported
  <2>3. ASSUME NEW p, NEW r, LastB(H, s, p, r, msg) PROVE Reported(H, t, p)
    <3>. SUFFICES ASSUME NEW h \in H, h.p = p, h.pn < s.accepted_pn, h.v > s.last_committed
                  PROVE  h.v = s.last_committed + 1 /\ s.uncommitted.v = h.v
                         /\ h.pn <= s.uncommitted.pn
      BY <1>2, <2>1 DEF Reported
    <3>1. h.v <= msg.lc + 1
          /\ (h.v = msg.lc + 1 /\ msg.lc >= s.last_committed => h.pn <= msg.upn)
      BY <2>3 DEF LastB
    <3>2. h.v = s.last_committed + 1 /\ msg.lc = s.last_committed /\ h.pn <= msg.upn
      BY <1>1, <1>2, <1>3, <3>1
    <3>3. msg.upn < s.uncommitted.pn
      BY <1>1, <1>3, <1>5, <3>2 DEF Hears
    <3>. QED
      BY <1>1, <1>3, <3>2, <3>3
  <2>. QED
    BY <1>2, <2>1, <2>2, <2>3
<1>. QED
  BY <1>4, <1>5

\* Leader m counts an answer and keeps the value with the highest number.
LEMMA CountB ==
  ASSUME NEW ms, NEW n, AskInv(ms, n), NEW H, NEW K, Core(H, K, ms, n), NEW m \in Rank,
         NEW t \in Monitors, NEW x \in Rank, n[x][m] # <<>>, NEW msg, msg = Head(n[x][m]),
         CountsA(ms[m], t, msg), CountsB(ms[m], t, msg)
  PROVE  Core(H, K, Moved(ms, m, t), Pop(n, {x}, m))
<1>. DEFINE s == ms[m]
            w == Moved(ms, m, t)
            o == Pop(n, {x}, m)
            e == s.epoch
<1>1. ms \in [Rank -> Monitors] /\ n \in Nets /\ s \in Monitors
  BY DEF AskInv
<1>2. w[m] = t /\ w = Moved(ms, m, t) /\ \A p \in Rank \ {m} : w[p] = ms[p]
  BY <1>1, MovedAt
<1>3. /\ o \in Nets /\ Shorter(o, n) /\ msg \in Messages /\ 1 \in 1 .. Len(n[x][m])
      /\ msg = n[x][m][1] /\ o = Pop(n, {x}, m)
  <2>1. Pop(n, {x}, m) \in Nets /\ Shorter(Pop(n, {x}, m), n)
    BY <1>1, PopHead
  <2>2. /\ 1 \in 1 .. Len(n[x][m])
        /\ Head(n[x][m]) = n[x][m][1] /\ n[x][m][1] \in Messages
    BY <1>1, PopHead
  <2>. QED
    BY <2>1, <2>2
<1>4. /\ s.role = "leader" /\ t.role = "leader" /\ t.epoch = s.epoch /\ t.quorum = s.quorum
      /\ t.state = s.state /\ t.accepted_pn = s.accepted_pn /\ t.stored_pn = s.stored_pn
      /\ t.last_pn = s.last_pn /\ t.num_last = s.num_last + 1
      /\ msg.op = "LAST" /\ msg.epoch = s.epoch /\ msg.pn = s.accepted_pn
  BY DEF CountsA
<1>5. /\ ~Silent(n, m, x, e) /\ Silent(o, m, x, e)
      /\ x # m /\ x \in s.quorum /\ s.state = "recovering"
  <2>. HIDE DEF o
  <2>. QED
    BY <1>3, <1>4, LastWord
<1>6. N > 1
  BY <1>5, NAssumption DEF Rank
<1>7. /\ s.accepted_pn \in Nat /\ s.last_committed \in Nat /\ s.quorum \subseteq Rank
      /\ s.num_last \in Nat /\ s.epoch \in Nat /\ s.accepted_pn > 0
      /\ Majority(s.quorum) /\ H \subseteq VoteType
      /\ \A h \in H : h.pn = s.accepted_pn => h.v <= Reach(s)
      /\ \A p \in Rank \ {m} : PairB(H, n, m, p, ms[p], s)
  <2>1. s.epoch \in Nat
    BY <1>1 DEF Monitors
  <2>. QED
    BY <1>4, <1>6, <2>1, LeadsB
<1>8. /\ s.num_last - 1 <= Cardinality(Heeded(H, ms, n, m))
      /\ Reported(H, s, m)
      /\ s.uncommitted.v \in {0, s.last_committed + 1}
      /\ s.uncommitted.v = 0 => s.uncommitted.pn = 0
      /\ s.uncommitted.v > 0 =>
           \E h \in H : /\ h.v = s.uncommitted.v /\ h.pn = s.uncommitted.pn
                        /\ h.x = s.uncommitted.value
  BY <1>4, <1>5, <1>6 DEF Core, LeadB
<1>9. MonB(H, K, m, s) /\ VotesOK(H, K, ms) /\ MsgB(H, K, ms, x, m, msg)
  BY <1>3, <1>6 DEF Core, VotesOK
<1>10. msg.upn > 0 => \E h \in H : /\ h.v = msg.lc + 1 /\ h.pn = msg.upn
                                   /\ h.x = msg.values[msg.lc + 1]
  BY <1>4, <1>9, SMTT(60) DEF MsgB
<1>11. LastB(H, s, x, ms[x], msg)
  BY <1>3, <1>4, <1>5, <1>7 DEF PairB, Is
<1>12. /\ \A p : Reported(H, s, p) => Reported(H, t, p)
       /\ \A p, r : LastB(H, s, p, r, msg) => Reported(H, t, p)
       /\ t.uncommitted.v \in {0, t.last_committed + 1}
       /\ t.uncommitted.v = 0 => t.uncommitted.pn = 0
       /\ t.uncommitted.v > 0 =>
            \E h \in H : /\ h.v = t.uncommitted.v /\ h.pn = t.uncommitted.pn
                         /\ h.x = t.uncommitted.value
  <2>. HIDE DEF s
  <2>1. CountsB(s, t, msg)
    BY DEF s
  <2>. QED
    BY <1>1, <1>3, <1>4, <1>7, <1>8, <1>9, <1>10, <2>1, HearsB
<1>13. SameStore(s, t) /\ t.last_committed = s.last_committed
  BY DEF CountsB, SameStore
<1>14. MonB(H, K, m, t) /\ Advances(s, t)
  <2>1. SameDisk(s, t) /\ t.accepted_pn >= s.accepted_pn /\ s.role = "leader"
    BY <1>4, <1>7, <1>13 DEF SameDisk
  <2>. QED
    BY <1>1, <1>9, <2>1, StaysB
<1>15. ASSUME NEW p \in Rank, p # m
       PROVE  PairB(H, o, m, p, w[p], t) /\ (Silent(n, m, p, e) => Silent(o, m, p, e))
  <2>. HIDE DEF o, w
  <2>1. From(o[m][p], n[m][p], Questions) /\ From(o[p][m], n[p][m], Replies)
    BY <1>1, <1>3, ShorterFrom
  <2>2. PairB(H, n, m, p, ms[p], s) /\ ms[p] \in Monitors /\ ms[p].stored_pn >= ms[p].stored_pn
    <3>1. p \in Rank \ {m} /\ ms[p] \in Monitors
      BY <1>1, <1>15
    <3>2. ms[p].stored_pn \in Nat
      BY <3>1 DEF Monitors
    <3>. QED
      BY <1>7, <3>1, <3>2
  <2>3. PairB(H, o, m, p, ms[p], s)
    BY <1>1, <1>7, <2>1, <2>2, PairKept
  <2>4. ~Updating(s) /\ t.last_committed >= s.last_committed
    BY <1>5, <1>7, <1>13 DEF Updating
  <2>5. PairB(H, o, m, p, ms[p], t)
    BY <1>1, <1>3, <1>4, <2>3, <2>4, PairLater
  <2>6. Silent(n, m, p, e) => Silent(o, m, p, e)
    BY <2>1, FromSilent
  <2>. QED
    BY <1>2, <1>15, <2>5, <2>6
<1>16. t.num_last - 1 <= Cardinality(Heeded(H, w, o, m))
  <2>. DEFINE S == Heeded(H, ms, n, m)
              T == Heeded(H, w, o, m)
  <2>. HIDE DEF o, w
  <2>1. S \subseteq Rank /\ T \subseteq Rank /\ x \notin S
    BY <1>2, <1>4, <1>5, <1>7 DEF Heeded, SilentOnes
  <2>2. S \subseteq T
    <3>. SUFFICES ASSUME NEW p \in S PROVE p \in T
      OBVIOUS
    <3>1. p \in Rank /\ p # m /\ p \in s.quorum /\ Silent(n, m, p, e)
          /\ Bound(ms[p]) >= s.accepted_pn /\ Reported(H, s, p)
      BY <1>7 DEF Heeded, SilentOnes
    <3>2. Silent(o, m, p, t.epoch) /\ Reported(H, t, p) /\ w[p] = ms[p]
      BY <1>2, <1>4, <1>12, <1>15, <3>1
    <3>. QED
      BY <1>2, <1>4, <3>1, <3>2 DEF Heeded, SilentOnes
  <2>3. x \in T
    <3>1. Bound(ms[x]) >= s.accepted_pn
      <4>1. ms[x].stored_pn >= s.accepted_pn /\ ms[x] \in Monitors
        BY <1>1, <1>11 DEF LastB
      <4>2. Bound(ms[x]) >= ms[x].stored_pn /\ Bound(ms[x]) \in Nat /\ ms[x].stored_pn \in Nat
        BY <4>1, BoundIs
      <4>. QED
        BY <1>7, <4>1, <4>2
    <3>2. Silent(o, m, x, t.epoch) /\ Reported(H, t, x) /\ w[x] = ms[x]
      BY <1>2, <1>4, <1>5, <1>11, <1>12
    <3>. QED
      BY <1>2, <1>4, <1>5, <3>1, <3>2 DEF Heeded, SilentOnes
  <2>. HIDE DEF S, T
  <2>4. /\ IsFiniteSet(S) /\ Cardinality(S) \in Nat /\ IsFiniteSet(T) /\ Cardinality(T) \in Nat
    BY <2>1, QuorumSize
  <2>5. Cardinality(S \cup {x}) = Cardinality(S) + 1 /\ IsFiniteSet(S \cup {x})
    BY <2>1, <2>4, FS_AddElement
  <2>6. Cardinality(S \cup {x}) <= Cardinality(T)
    <3>1. S \cup {x} \subseteq T
      BY <2>2, <2>3
    <3>. QED
      BY <2>4, <3>1, FS_Subset
  <2>7. s.num_last - 1 <= Cardinality(S)
    BY <1>8 DEF S
  <2>8. t.num_last - 1 <= Cardinality(T)
    BY <1>4, <1>7, <2>4, <2>5, <2>6, <2>7
  <2>. QED
    BY <2>8 DEF T
<1>17. LeadB(H, K, w, o, m)
  <2>1. Reach(t) = Reach(s) /\ ~InRound(t) /\ t.state = "recovering" /\ Reported(H, t, m)
    BY <1>4, <1>5, <1>8, <1>12, <1>13 DEF Reach, InRound
  <2>. HIDE DEF w, o
  <2>. QED
    BY <1>2, <1>4, <1>7, <1>12, <1>15, <1>16, <2>1 DEF LeadB
<1>. HIDE DEF w, o
<1>18. Core(H, K, w, o)
  BY <1>1, <1>2, <1>3, <1>14, <1>17, MicroSilent
<1>. QED
  BY <1>18 DEF w, o

\* A leader that has stored what an answer brings is not behind the one who sent it.
LEMMA LastLearned ==
  ASSUME NEW m \in Rank, NEW s, Fit(m, s), NEW msg \in Messages, NEW K, NEW top,
         Carries(K, msg, top), NEW H, NEW p, NEW r, LastB(H, s, p, r, msg),
         msg.fc <= s.last_committed + 1, NEW t, t = StoreState(s, msg)
  PROVE  msg.lc <= t.last_committed
<1>1. s \in Monitors /\ s.last_committed \in Nat /\ msg.lc \in Nat /\ msg.fc \in Nat
      /\ msg.values \in VMaps
  BY FitFacts DEF Monitors, Messages
<1>2. CASE News(s, msg) = {}
  <2>1. t = s
    BY <1>2 DEF StoreState
  <2>. SUFFICES ASSUME msg.lc > s.last_committed PROVE FALSE
    BY <1>1, <2>1
  <2>. DEFINE v == s.last_committed + 1
  <2>2. v \in DOMAIN msg.values
    BY <1>1 DEF LastB
  <2>3. DOMAIN msg.values \subseteq Nat
    BY <1>1, VMapsDef
  <2>4. Min(DOMAIN msg.values) <= v
    BY <2>2, <2>3, SetMin
  <2>5. ~(Min(DOMAIN msg.values) > v)
    <3>1. Min(DOMAIN msg.values) \in Nat
      BY <2>2, <2>3, SetMin
    <3>. QED
      BY <1>1, <2>4, <3>1
  <2>6. v \in News(s, msg)
    BY <1>1, <2>2, <2>5 DEF News
  <2>. QED
    BY <1>2, <2>6
<1>3. CASE News(s, msg) # {}
  <2>1. Learns(s, t, msg.lc, msg.values)
    BY <1>3, StoreStateIs
  <2>. QED
    BY <1>1, <2>1 DEF Learns
<1>. QED
  BY <1>2, <1>3

\* What handle_accept does
AcceptsB(s, t, x, msg) ==
  /\ SameDisk(s, t) /\ t.epoch = s.epoch /\ s.role = "leader" /\ t.role = "leader"
  /\ t.quorum = s.quorum /\ t.accepted_pn = s.accepted_pn /\ t.new_value = s.new_value
  /\ t.accepted = s.accepted \cup {x}
  /\ Updating(t) \/ (IsWriting(t) /\ t.accepted = t.quorum)
  /\ msg.op = "ACCEPT" /\ msg.epoch = s.epoch

\* Leader m counts an acceptance; when all have accepted, it commits.
LEMMA AcceptB ==
  ASSUME NEW ms, NEW n, AskInv(ms, n), NEW H, NEW K, Core(H, K, ms, n), NEW m \in Rank,
         NEW t \in Monitors, NEW x \in Rank, n[x][m] # <<>>, NEW msg, msg = Head(n[x][m]),
         AcceptsB(ms[m], t, x, msg)
  PROVE  Core(H, K, Moved(ms, m, t), Pop(n, {x}, m))
<1>. DEFINE s == ms[m]
            w == Moved(ms, m, t)
            o == Pop(n, {x}, m)
            e == s.epoch
<1>1. ms \in [Rank -> Monitors] /\ n \in Nets /\ s \in Monitors
  BY DEF AskInv
<1>2. w[m] = t /\ w = Moved(ms, m, t) /\ \A p \in Rank \ {m} : w[p] = ms[p]
  BY <1>1, MovedAt
<1>3. /\ o \in Nets /\ Shorter(o, n) /\ msg \in Messages /\ 1 \in 1 .. Len(n[x][m])
      /\ msg = n[x][m][1] /\ o = Pop(n, {x}, m)
  <2>1. Pop(n, {x}, m) \in Nets /\ Shorter(Pop(n, {x}, m), n)
    BY <1>1, PopHead
  <2>2. /\ 1 \in 1 .. Len(n[x][m])
        /\ Head(n[x][m]) = n[x][m][1] /\ n[x][m][1] \in Messages
    BY <1>1, PopHead
  <2>. QED
    BY <2>1, <2>2
<1>4. /\ SameDisk(s, t) /\ t.epoch = s.epoch /\ s.role = "leader" /\ t.role = "leader"
      /\ t.quorum = s.quorum /\ t.accepted_pn = s.accepted_pn /\ t.new_value = s.new_value
      /\ t.accepted = s.accepted \cup {x}
      /\ msg.op = "ACCEPT" /\ msg.epoch = s.epoch
  BY DEF AcceptsB
<1>5. Updating(t) \/ (IsWriting(t) /\ t.accepted = t.quorum)
  BY DEF AcceptsB
<1>6. x # m /\ N > 1
  <2>1. x # m
    BY <1>3, <1>4 DEF AskInv, MsgA
  <2>. QED
    BY <2>1, NAssumption DEF Rank
<1>7. /\ s.accepted_pn \in Nat /\ s.last_committed \in Nat /\ s.quorum \subseteq Rank
      /\ s.accepted_pn > 0 /\ Majority(s.quorum) /\ H \subseteq VoteType
      /\ \A h \in H : h.pn = s.accepted_pn => h.v <= Reach(s)
      /\ \A p \in Rank \ {m} : PairB(H, n, m, p, ms[p], s)
  BY <1>4, <1>6, LeadsB
<1>8. Is(n[x][m][1], "ACCEPT", e)
  BY <1>3, <1>4 DEF Is
<1>9. /\ Works(s, x, n[x][m][1])
      /\ Vote(x, s.last_committed + 1, s.accepted_pn, s.new_value) \in H
      /\ \A j \in 1 .. Len(n[x][m]) : Is(n[x][m][j], "ACCEPT", e) => j = 1
      /\ \A i \in 1 .. Len(n[m][x]) : ~Is(n[m][x][i], "BEGIN", e)
  <2>1. PairB(H, n, m, x, ms[x], s)
    BY <1>6, <1>7
  <2>. QED
    BY <1>3, <1>8, <2>1 DEF PairB
<1>10. Updating(s) /\ x \in s.quorum \ s.accepted
  BY <1>9 DEF Works
<1>11. /\ \A p \in s.quorum :
             /\ p # m => Bound(ms[p]) >= s.accepted_pn
             /\ \A h \in H : h.p = p /\ h.pn < s.accepted_pn => h.v <= Reach(s)
       /\ m \in s.accepted
       /\ \A p \in s.accepted :
             Vote(p, s.last_committed + 1, s.accepted_pn, s.new_value) \in H
  <2>1. InRound(s) /\ s.state # "recovering"
    BY <1>10 DEF Updating, InRound
  <2>2. LeadB(H, K, ms, n, m)
    BY DEF Core
  <2>. QED
    BY <1>4, <1>6, <2>1, <2>2 DEF LeadB
<1>12. MonB(H, K, m, t) /\ Advances(s, t)
  <2>1. MonB(H, K, m, s) /\ t.accepted_pn >= s.accepted_pn
    BY <1>4, <1>7 DEF Core
  <2>. QED
    BY <1>1, <1>4, <2>1, StaysB
<1>13. t.last_committed = s.last_committed
  BY <1>4 DEF SameDisk, SameStore
<1>14. o[m][x] = n[m][x] /\ \A i \in 1 .. Len(o[x][m]) : ~Is(o[x][m][i], "ACCEPT", e)
  <2>1. Pop(n, {x}, m)[x][m] = Tail(n[x][m])
    BY <1>1, PopHead
  <2>2. /\ Len(n[x][m]) \in Nat /\ Len(Tail(n[x][m])) = Len(n[x][m]) - 1
        /\ \A i \in 1 .. Len(Tail(n[x][m])) :
              i + 1 \in 1 .. Len(n[x][m]) /\ Tail(n[x][m])[i] = n[x][m][i + 1]
    BY <1>1, PopHead
  <2>3. o[x][m] = Tail(n[x][m])
    BY <2>1
  <2>4. o[m][x] = n[m][x]
    BY <1>1, <1>6, PopHead, ZenonT(60)
  <2>. HIDE DEF o
  <2>5. \A i \in 1 .. Len(o[x][m]) : i + 1 \in 1 .. Len(n[x][m]) /\ i + 1 # 1
                                      /\ o[x][m][i] = n[x][m][i + 1]
    BY <2>2, <2>3
  <2>. QED
    BY <1>9, <2>4, <2>5
<1>15. ASSUME NEW p \in Rank, p # m PROVE PairB(H, o, m, p, w[p], t)
  <2>. HIDE DEF o, w
  <2>1. From(o[m][p], n[m][p], Questions) /\ From(o[p][m], n[p][m], Replies)
    BY <1>1, <1>3, ShorterFrom
  <2>2. PairB(H, n, m, p, ms[p], s) /\ ms[p] \in Monitors /\ ms[p].stored_pn >= ms[p].stored_pn
    <3>1. p \in Rank \ {m} /\ ms[p] \in Monitors
      BY <1>1, <1>15
    <3>2. ms[p].stored_pn \in Nat
      BY <3>1 DEF Monitors
    <3>. QED
      BY <1>7, <3>1, <3>2
  <2>3. PairB(H, o, m, p, ms[p], s)
    BY <1>1, <1>7, <2>1, <2>2, PairKept
  <2>4. p # x => \A k : Works(s, p, k) => Works(t, p, k)
    BY <1>4, <1>5, <1>13 DEF Works
  <2>5. p = x => /\ \A i \in 1 .. Len(o[m][p]) : ~Is(o[m][p][i], "BEGIN", e)
                 /\ \A i \in 1 .. Len(o[p][m]) : ~Is(o[p][m][i], "ACCEPT", e)
    BY <1>9, <1>14
  <2>6. \A k : LastB(H, s, p, ms[p], k) => LastB(H, t, p, ms[p], k)
    BY <1>4, <1>13 DEF LastB
  <2>7. PairB(H, o, m, p, ms[p], t)
    BY <1>4, <1>13, <2>3, <2>4, <2>5, <2>6 DEF PairB
  <2>. QED
    BY <1>2, <1>15, <2>7
<1>16. LeadB(H, K, w, o, m)
  <2>1. Reach(t) = Reach(s) /\ InRound(t) /\ t.state # "recovering"
    BY <1>5, <1>10, <1>13 DEF Reach, InRound, Updating, IsWriting
  <2>2. IsWriting(t) => t.accepted = t.quorum
    BY <1>5 DEF Updating, IsWriting
  <2>3. m \in t.accepted /\ \A p \in t.accepted :
             Vote(p, t.last_committed + 1, t.accepted_pn, t.new_value) \in H
    BY <1>4, <1>9, <1>11, <1>13
  <2>4. \A p \in t.quorum :
             /\ p # m => Bound(w[p]) >= t.accepted_pn
             /\ \A h \in H : h.p = p /\ h.pn < t.accepted_pn => h.v <= Reach(t)
    BY <1>2, <1>4, <1>7, <1>11, <2>1
  <2>. HIDE DEF w, o
  <2>. QED
    BY <1>2, <1>4, <1>6, <1>7, <1>15, <2>1, <2>2, <2>3, <2>4 DEF LeadB
<1>. HIDE DEF w, o
<1>17. Core(H, K, w, o)
  BY <1>1, <1>2, <1>3, <1>12, <1>16, MicroSilent
<1>. QED
  BY <1>17 DEF w, o

\* What m sent last is lost, and what was on its way to m.
LEMMA CutB ==
  ASSUME NEW ms, NEW n, AskInv(ms, n), NEW H, NEW K, Core(H, K, ms, n), NEW m \in Rank,
         NEW o, Cut(o, n, m)
  PROVE  Core(H, K, ms, o)
<1>1. ms \in [Rank -> Monitors] /\ n \in Nets /\ o \in Nets
  BY DEF AskInv, Cut
<1>2. \A x, d \in Rank : \A i \in 1 .. Len(o[x][d]) : MsgB(H, K, ms, x, d, o[x][d][i])
  <2>. SUFFICES ASSUME NEW x \in Rank, NEW d \in Rank, NEW i \in 1 .. Len(o[x][d])
                PROVE  MsgB(H, K, ms, x, d, o[x][d][i])
    OBVIOUS
  <2>1. i \in 1 .. Len(n[x][d]) /\ o[x][d][i] = n[x][d][i]
    BY <1>1, CutMessage
  <2>. QED
    BY <2>1 DEF Core
<1>3. ASSUME NEW q \in Rank PROVE LeadB(H, K, ms, o, q)
  <2>1. Moved(ms, q, ms[q]) = ms /\ ms[q] \in Monitors
    BY <1>1, MovedSame
  <2>2. Advances(ms[q], ms[q]) /\ SameLead(ms[q], ms[q])
    BY <2>1, AdvancesSame
  <2>3. LeadB(H, K, ms, n, q) /\ (N > 1 => H \subseteq VoteType)
    BY DEF Core
  <2>4. Casts(H, H, q, ms[q])
    BY DEF Casts
  <2>5. ASSUME N > 1, NEW p \in Rank \ {q} PROVE StillPair(H, n, o, q, p, ms[p], ms[q])
    <3>1. ms[p] \in Monitors /\ p \in Rank
      BY <1>1
    <3>2. From(o[q][p], n[q][p], Questions) /\ From(o[p][q], n[p][q], Replies)
      BY <1>1, <3>1, CutStretch, StretchFrom
    <3>3. ms[q].role = "leader" => PairB(H, n, q, p, ms[p], ms[q])
      BY <2>3, <2>5 DEF LeadB
    <3>4. ms[p].stored_pn >= ms[p].stored_pn
      BY <3>1, AdvancesSame
    <3>. QED
      BY <2>1, <2>3, <2>5, <3>1, <3>2, <3>3, <3>4, StillFrom
  <2>. QED
    BY <2>1, <2>2, <2>3, <2>4, <2>5, LeadKept
<1>. QED
  BY <1>2, <1>3 DEF Core

\* A death: what is left is what is on disk.
DiesB(s, t) ==
  /\ SameStore(s, t) /\ t.stored_pn = s.stored_pn /\ t.epoch = s.epoch /\ t.role = "out"
  /\ t.accepted_pn = s.stored_pn

\* Monitor m dies and is started again; it may have forgotten a promise.
LEMMA DieB ==
  ASSUME NEW ms, NEW n, AskInv(ms, n), NEW H, NEW K, Core(H, K, ms, n), NEW m \in Rank,
         NEW t, Fit(m, t), TimersOK(t), DiesB(ms[m], t), NEW o, Cut(o, n, m)
  PROVE  Core(H, K, Moved(ms, m, t), o)
<1>. DEFINE s == ms[m]
            w == Moved(ms, m, t)
<1>1. ms \in [Rank -> Monitors] /\ n \in Nets /\ s \in Monitors /\ t \in Monitors
  BY FitFacts DEF AskInv
<1>2. w[m] = t /\ w = Moved(ms, m, t)
  BY <1>1, MovedAt
<1>3. /\ SameStore(s, t) /\ t.stored_pn = s.stored_pn /\ t.epoch = s.epoch /\ t.role = "out"
      /\ t.accepted_pn = s.stored_pn
  BY DEF DiesB
<1>4. s.stored_pn \in Nat /\ s.pending_pn \in Nat /\ s.last_pn \in Nat /\ s.epoch \in Nat
  BY <1>1 DEF Monitors
<1>5. Advances(s, t)
  BY <1>3, <1>4 DEF Advances, SameStore
<1>6. MonB(H, K, m, t)
  <2>1. MonB(H, K, m, s)
    BY DEF Core
  <2>2. Whole(t) /\ Stored(K, t)
    BY <1>3, <2>1 DEF MonB, Whole, Stored, SameStore
  <2>3. N > 1 /\ t.pending_v > t.last_committed =>
          Vote(m, t.pending_v, t.pending_pn, t.log[t.pending_v]) \in H
    BY <1>3, <2>1 DEF MonB, SameStore
  <2>4. PromiseOK(t)
    BY <1>3, <2>1 DEF MonB, PromiseOK, SameStore
  <2>. QED
    BY <2>2, <2>3, <2>4 DEF MonB
<1>7. LeadB(H, K, w, n, m)
  <2>. HIDE DEF w
  <2>. QED
    BY <1>2, <1>3 DEF LeadB
<1>8. Shorter(n, n)
  BY <1>1, SuffixSame DEF Shorter, Nets
<1>9. AskInv(w, n)
  <2>1. Plus(n, m, Nothing) = n /\ Nothing \in [Rank -> Seq(Messages)]
        /\ \A d \in Rank : Len(Nothing[d]) = 0
    BY <1>1, NothingSent
  <2>2. CalmOut(m, Nothing)
    <3>2. \A d \in Rank : Calm(Nothing[d])
      BY <2>1 DEF Calm, Without
    <3>. QED
      BY <2>1, <3>2 DEF CalmOut
  <2>3. t.last_pn = s.last_pn /\ t.epoch >= s.epoch /\ t.role # "leader"
    BY <1>3, <1>4 DEF SameStore
  <2>4. AskInv(w, Plus(n, m, Nothing))
    BY <1>3, <2>1, <2>2, <2>3, PlainA
  <2>. QED
    BY <2>1, <2>4
<1>. HIDE DEF w
<1>10. Core(H, K, w, n)
  BY <1>1, <1>2, <1>5, <1>6, <1>7, <1>8, MicroSilent
<1>11. Core(H, K, w, o)
  BY <1>9, <1>10, CutB
<1>. QED
  BY <1>11 DEF w

=============================================================================
