-------------------------- MODULE AgreementProofs --------------------------
(***************************************************************************)
(* Agreement, whole stores, durable commits and timers of Paxos, and that   *)
(* it implements ReplicatedLog.                                             *)
(*                                                                          *)
(* A call of the code is a chain of small steps of one monitor; Ends says   *)
(* that it ends in a state where the invariant holds, with what it has sent *)
(* in the channels.  There is one lemma for each call, in the order in      *)
(* which they call each other, then one for each handler and one for each   *)
(* action.                                                                  *)
(***************************************************************************)
EXTENDS VoteProofs

(***************************************************************************)
(* The two parts together, through the steps of one call.                   *)
(***************************************************************************)

\* C: what the history has; b: no vote has been lost.
Sound(b, C, ms, n) == AskInv(ms, n) /\ (b => \E H, K : C \subseteq K /\ Core(H, K, ms, n))

\* Monitor m ends call r, which it began in ms with channels n.
Ends(b, C, ms, m, n, r) ==
  r.out \in [Rank -> Seq(Messages)] /\ Sound(b, C, Moved(ms, m, r.s), Plus(n, m, r.out))

\* A call that PaxosProofs allows
LEMMA FineFit ==
  ASSUME NEW m, NEW C, NEW e, NEW r, Fine(m, C, e, r)
  PROVE  Fit(m, r.s) /\ r.out \in [Rank -> Seq(Messages)]
  BY DEF Fine, Fit, Outs, Extends

\* What the invariant says of m
LEMMA SoundFacts ==
  ASSUME NEW b, NEW C, NEW ms, NEW n, Sound(b, C, ms, n), NEW m \in Rank
  PROVE  /\ ms \in [Rank -> Monitors] /\ n \in Nets /\ ms[m] \in Monitors
         /\ Fit(m, ms[m]) /\ TimersOK(ms[m]) /\ PnsA(ms, m) /\ LeadA(ms, n, m)
  BY DEF Sound, AskInv

\* What is known when a call has ended
LEMMA EndsFacts ==
  ASSUME NEW b, NEW C, NEW ms, NEW n, Sound(b, C, ms, n), NEW m \in Rank,
         NEW r, Ends(b, C, ms, m, n, r)
  PROVE  /\ r.out \in [Rank -> Seq(Messages)] /\ Sound(b, C, Moved(ms, m, r.s), Plus(n, m, r.out))
         /\ Moved(ms, m, r.s)[m] = r.s /\ r.s \in Monitors /\ Fit(m, r.s) /\ TimersOK(r.s)
<1>1. ms \in [Rank -> Monitors] /\ Sound(b, C, Moved(ms, m, r.s), Plus(n, m, r.out))
  BY SoundFacts DEF Ends
<1>2. Moved(ms, m, r.s)[m] = r.s
  BY <1>1 DEF Moved
<1>. DEFINE w == Moved(ms, m, r.s)
            o == Plus(n, m, r.out)
<1>3. Sound(b, C, w, o) /\ w[m] = r.s
  BY <1>1, <1>2
<1>. HIDE DEF w, o
<1>4. r.s \in Monitors /\ Fit(m, r.s) /\ TimersOK(r.s)
  BY <1>3, SoundFacts
<1>. QED
  BY <1>1, <1>2, <1>4 DEF Ends

\* r, then q in the state r ends with
LEMMA ThenEnds ==
  ASSUME NEW b, NEW C, NEW ms, NEW n, Sound(b, C, ms, n), NEW m \in Rank,
         NEW r, Ends(b, C, ms, m, n, r), NEW q,
         Ends(b, C, Moved(ms, m, r.s), m, Plus(n, m, r.out), q)
  PROVE  Ends(b, C, ms, m, n, Then(r, q))
<1>1. ms \in [Rank -> Monitors] /\ n \in Nets
  BY SoundFacts
<1>2. r.out \in [Rank -> Seq(Messages)] /\ q.out \in [Rank -> Seq(Messages)]
      /\ Sound(b, C, Moved(Moved(ms, m, r.s), m, q.s), Plus(Plus(n, m, r.out), m, q.out))
  BY DEF Ends
<1>3. Moved(Moved(ms, m, r.s), m, q.s) = Moved(ms, m, q.s)
  BY <1>1, MovedTwice
<1>4. Plus(n, m, Then(r, q).out) = Plus(Plus(n, m, r.out), m, q.out)
  <2>1. r.out \in [Rank -> Seq(Messages)]
    BY <1>2
  <2>2. q.out \in [Rank -> Seq(Messages)]
    BY <1>2
  <2>. DEFINE u == r.out  w == q.out  c == Then(r, q).out
  <2>3. Joined(c, u, w)
    BY <2>1, <2>2 DEF Then, Joined
  <2>. HIDE DEF u, w, c
  <2>4. Plus(n, m, c) = Plus(Plus(n, m, u), m, w)
    BY <1>1, <2>3, PlusThen
  <2>. QED
    BY <2>4 DEF u, w, c
<1>5. Then(r, q).s = q.s
  BY DEF Then
<1>6. Then(r, q).out \in [Rank -> Seq(Messages)]
  <2>1. \A d \in Rank : r.out[d] \o q.out[d] \in Seq(Messages)
    BY <1>2, Appended
  <2>. QED
    BY <2>1 DEF Then
<1>. QED
  BY <1>2, <1>3, <1>4, <1>5, <1>6 DEF Ends

\* A change in memory, then r
LEMMA FirstEnds ==
  ASSUME NEW b, NEW C, NEW ms, NEW n, Sound(b, C, ms, n), NEW m \in Rank, NEW t, NEW r,
         Ends(b, C, Moved(ms, m, t), m, n, r)
  PROVE  Ends(b, C, ms, m, n, r)
<1>1. ms \in [Rank -> Monitors]
  BY SoundFacts
<1>2. Moved(Moved(ms, m, t), m, r.s) = Moved(ms, m, r.s)
  BY <1>1, MovedTwice
<1>. QED
  BY <1>2 DEF Ends

\* Only the state and the messages of a call matter.
LEMMA SameEnds ==
  ASSUME NEW b, NEW C, NEW ms, NEW n, NEW m, NEW r, Ends(b, C, ms, m, n, r),
         NEW q, q.s = r.s, q.out = r.out
  PROVE  Ends(b, C, ms, m, n, q)
  BY DEF Ends

\* A call that sends nothing
LEMMA DoneEnds ==
  ASSUME NEW b, NEW C, NEW ms, NEW n, NEW m \in Rank, NEW t, n \in Nets,
         Sound(b, C, Moved(ms, m, t), n)
  PROVE  Ends(b, C, ms, m, n, Done(t))
<1>1. Done(t).s = t /\ Done(t).out = Nothing
  BY DEF Done
<1>2. Plus(n, m, Nothing) = n /\ Nothing \in [Rank -> Seq(Messages)]
  BY NothingSent
<1>. QED
  BY <1>1, <1>2 DEF Ends

-----------------------------------------------------------------------------
\* A call that leaves the store and the round alone
LEMMA PlainJ ==
  ASSUME NEW b, NEW C, NEW ms, NEW n, Sound(b, C, ms, n), NEW m \in Rank,
         NEW t, Fit(m, t), TimersOK(t), NEW out \in [Rank -> Seq(Messages)],
         Plain(m, ms[m], t, out)
  PROVE  Sound(b, C, Moved(ms, m, t), Plus(n, m, out))
<1>. DEFINE s == ms[m]
<1>1. AskInv(ms, n) /\ s \in Monitors /\ t \in Monitors /\ LeadA(ms, n, m)
  BY SoundFacts, FitFacts DEF Sound
<1>2. SameDisk(s, t) /\ t.accepted_pn = s.accepted_pn /\ (t.role = "leader" => SameLead(s, t))
      /\ PlainSent(m, s, out)
  BY DEF Plain
<1>3. CalmOut(m, out)
  <2>1. \A d \in Rank : \A i \in 1 .. Len(out[d]) :
           (d # m \/ out[d][i].op = "COMMIT") /\ out[d][i].op \notin {"COLLECT", "LAST"}
    BY <1>2 DEF PlainSent, PlainMsg
  <2>2. \A d \in Rank : Calm(out[d])
    BY <2>1 DEF Calm, Without
  <2>. QED
    BY <2>1, <2>2 DEF CalmOut
<1>4. t.role = "leader" => LeadsOnA(n, m, s, t)
  BY <1>1, <1>2 DEF SameLead, SameTask, LeadsOnA, LeadA
<1>5. t.last_pn = s.last_pn /\ t.stored_pn = s.stored_pn /\ t.epoch >= s.epoch
  BY <1>2 DEF SameDisk, SameStore
<1>6. AskInv(Moved(ms, m, t), Plus(n, m, out))
  BY <1>1, <1>2, <1>3, <1>4, <1>5, PlainA
<1>7. ASSUME NEW H, NEW K, Core(H, K, ms, n) PROVE Core(H, K, Moved(ms, m, t), Plus(n, m, out))
  BY <1>1, <1>7, PlainB
<1>. QED
  BY <1>6, <1>7 DEF Sound

\* The same without a message
LEMMA PlainDone ==
  ASSUME NEW b, NEW C, NEW ms, NEW n, Sound(b, C, ms, n), NEW m \in Rank,
         NEW t, Fit(m, t), TimersOK(t), SameDisk(ms[m], t), t.accepted_pn = ms[m].accepted_pn,
         t.role = "leader" => SameLead(ms[m], t)
  PROVE  Sound(b, C, Moved(ms, m, t), n)
<1>1. n \in Nets
  BY SoundFacts
<1>2. Plus(n, m, Nothing) = n /\ Nothing \in [Rank -> Seq(Messages)]
      /\ \A d \in Rank : Len(Nothing[d]) = 0
  BY <1>1, NothingSent
<1>3. Plain(m, ms[m], t, Nothing)
  <2>1. PlainSent(m, ms[m], Nothing)
    BY <1>2 DEF PlainSent
  <2>. QED
    BY <2>1 DEF Plain
<1>4. Sound(b, C, Moved(ms, m, t), Plus(n, m, Nothing))
  BY <1>2, <1>3, PlainJ
<1>. QED
  BY <1>2, <1>4

\* Messages are taken or dropped.
LEMMA ShorterJ ==
  ASSUME NEW b, NEW C, NEW ms, NEW n, Sound(b, C, ms, n), NEW o \in Nets, Shorter(o, n)
  PROVE  Sound(b, C, ms, o)
<1>1. AskInv(ms, n) /\ AskInv(ms, o)
  BY ShorterA DEF Sound
<1>2. ASSUME NEW H, NEW K, Core(H, K, ms, n) PROVE Core(H, K, ms, o)
  BY <1>1, <1>2, ShorterB
<1>. QED
  BY <1>1, <1>2 DEF Sound

\* Monitor m enters a later epoch.
LEMMA EpochJ ==
  ASSUME NEW b, NEW C, NEW ms, NEW n, Sound(b, C, ms, n), NEW m \in Rank,
         NEW t, Fit(m, t), TimersOK(t), Bumped(ms[m], t)
  PROVE  Sound(b, C, Moved(ms, m, t), n)
<1>1. AskInv(ms, n) /\ t \in Monitors
  BY FitFacts DEF Sound
<1>2. AskInv(Moved(ms, m, t), n)
  BY <1>1, EpochA DEF Bumped, SameTask, SameDisk, SameStore
<1>3. ASSUME NEW H, NEW K, Core(H, K, ms, n) PROVE Core(H, K, Moved(ms, m, t), n)
  BY <1>1, <1>3, EpochB
<1>. QED
  BY <1>2, <1>3 DEF Sound

\* What m does without a message under the epoch and the numbers it has
LEMMA QuietA ==
  ASSUME NEW ms, NEW n, AskInv(ms, n), NEW m \in Rank, NEW t, Fit(m, t), TimersOK(t),
         t.last_pn = ms[m].last_pn, t.epoch >= ms[m].epoch, t.stored_pn = ms[m].stored_pn,
         t.accepted_pn = ms[m].accepted_pn, t.role = "leader" => LeadsOnA(n, m, ms[m], t)
  PROVE  AskInv(Moved(ms, m, t), n)
<1>1. n \in Nets
  BY DEF AskInv
<1>2. Plus(n, m, Nothing) = n /\ Nothing \in [Rank -> Seq(Messages)]
      /\ \A d \in Rank : Len(Nothing[d]) = 0
  BY <1>1, NothingSent
<1>3. CalmOut(m, Nothing)
  <2>2. \A d \in Rank : Calm(Nothing[d])
    BY <1>2 DEF Calm, Without
  <2>. QED
    BY <1>2, <2>2 DEF CalmOut
<1>4. AskInv(Moved(ms, m, t), Plus(n, m, Nothing))
  BY <1>2, <1>3, PlainA
<1>. QED
  BY <1>2, <1>4

\* A message that neither asks nor answers
LEMMA SendCalm ==
  ASSUME NEW m \in Rank, NEW X, m \notin X, NEW msg \in Messages, msg.op \notin {"COLLECT", "LAST"}
  PROVE  CalmOut(m, SendTo(X, msg)) /\ SendTo(X, msg) \in [Rank -> Seq(Messages)]
<1>. DEFINE out == SendTo(X, msg)
<1>1. \A d \in Rank : \A i \in 1 .. Len(out[d]) : d \in X /\ out[d][i] = msg
  BY SendToOne
<1>2. out \in [Rank -> Seq(Messages)]
  BY SendToAt
<1>. HIDE DEF out
<1>3. \A d \in Rank : Calm(out[d])
  BY <1>1 DEF Calm, Without
<1>5. CalmOut(m, out)
  BY <1>1, <1>3 DEF CalmOut
<1>. QED
  BY <1>2, <1>5 DEF out

\* Leader m asks its quorum.
LEMMA CollectJ ==
  ASSUME NEW b, NEW C, NEW ms, NEW n, Sound(b, C, ms, n), NEW m \in Rank,
         NEW t, Fit(m, t), TimersOK(t), N > 1, NEW msg, CollectsA(m, ms[m], t, msg),
         b => CollectsB(ms[m], t, msg)
  PROVE  Sound(b, C, Moved(ms, m, t), Plus(n, m, SendTo(t.quorum \ {m}, msg)))
<1>1. AskInv(ms, n)
  BY DEF Sound
<1>2. AskInv(Moved(ms, m, t), Plus(n, m, SendTo(t.quorum \ {m}, msg)))
  BY <1>1, CollectA
<1>3. ASSUME NEW H, NEW K, Core(H, K, ms, n), b
      PROVE  Core(H, K, Moved(ms, m, t), Plus(n, m, SendTo(t.quorum \ {m}, msg)))
  BY <1>1, <1>3, CollectB
<1>. QED
  BY <1>2, <1>3 DEF Sound

\* Leader m has recovered.
LEMMA ActivateJ ==
  ASSUME NEW b, NEW C, NEW ms, NEW n, Sound(b, C, ms, n), NEW m \in Rank,
         NEW t, Fit(m, t), TimersOK(t), N > 1, Activates(ms[m], t)
  PROVE  Sound(b, C, Moved(ms, m, t), n)
<1>1. AskInv(ms, n) /\ t \in Monitors
  BY FitFacts DEF Sound
<1>2. AskInv(Moved(ms, m, t), n)
  <2>1. AllSilent(n, m, ms[m])
    BY <1>1, CountedA DEF Activates
  <2>2. LeadsOnA(n, m, ms[m], t)
    BY <2>1 DEF LeadsOnA, Activates
  <2>. QED
    BY <1>1, <2>2, QuietA DEF Activates, SameDisk, SameStore
<1>3. ASSUME NEW H, NEW K, Core(H, K, ms, n) PROVE Core(H, K, Moved(ms, m, t), n)
  BY <1>1, <1>3, ActivateB
<1>. QED
  BY <1>2, <1>3 DEF Sound

\* Leader m commits its value.
LEMMA CommitJ ==
  ASSUME NEW b, NEW C, NEW ms, NEW n, Sound(b, C, ms, n), NEW m \in Rank,
         NEW t, Fit(m, t), TimersOK(t), NEW k, NEW values, Finishes(ms[m], t, k, values)
  PROVE  Sound(b, C, Moved(ms, m, t), n)
<1>1. AskInv(ms, n) /\ t \in Monitors /\ LeadA(ms, n, m) /\ ms[m] \in Monitors
  BY SoundFacts, FitFacts DEF Sound
<1>2. /\ IsWriting(ms[m]) /\ ms[m].role = "leader" /\ Learns(ms[m], t, k, values)
      /\ t.role = "leader" /\ t.quorum = ms[m].quorum /\ t.state = "active"
  BY DEF Finishes
<1>3. t.last_pn = ms[m].last_pn /\ t.epoch = ms[m].epoch /\ t.stored_pn = ms[m].stored_pn
      /\ t.accepted_pn = ms[m].accepted_pn
  BY <1>2 DEF Learns
<1>4. AskInv(Moved(ms, m, t), n)
  <2>1. AllSilent(n, m, ms[m])
    BY <1>1, <1>2 DEF LeadA, IsWriting
  <2>2. LeadsOnA(n, m, ms[m], t)
    BY <1>2, <1>3, <2>1 DEF LeadsOnA
  <2>3. t.epoch >= ms[m].epoch
    BY <1>1, <1>3 DEF Monitors
  <2>. QED
    BY <1>1, <1>3, <2>2, <2>3, QuietA
<1>5. ASSUME NEW H, NEW K, Core(H, K, ms, n)
      PROVE  \E L : K \subseteq L /\ Core(H, L, Moved(ms, m, t), n)
  BY <1>1, <1>5, CommitB
<1>. QED
  BY <1>4, <1>5 DEF Sound

\* store_state touches no timer and no promise.
LEMMA StoreSame ==
  ASSUME NEW s, NEW msg
  PROVE  /\ StoreState(s, msg).events = s.events /\ StoreState(s, msg).stored_pn = s.stored_pn
         /\ StoreState(s, msg).acked_lease = s.acked_lease
  BY DEF StoreState, Learn

\* Monitor m stores the committed versions of a message.
LEMMA StoreJ ==
  ASSUME NEW b, NEW C, NEW ms, NEW n, Sound(b, C, ms, n), NEW m \in Rank, NEW x \in Rank,
         n[x][m] # <<>>, NEW msg, msg = Head(n[x][m]), msg.op \in {"COMMIT", "LAST"},
         NEW t, t = StoreState(ms[m], msg),
         ms[m].role = "leader" => N > 1 /\ ms[m].state = "recovering"
  PROVE  Sound(b, C, Moved(ms, m, t), n)
<1>. DEFINE s == ms[m]
<1>1. AskInv(ms, n) /\ n \in Nets /\ Fit(m, s) /\ TimersOK(s) /\ s \in Monitors /\ LeadA(ms, n, m)
  BY SoundFacts DEF Sound
<1>2. 1 \in 1 .. Len(n[x][m]) /\ msg = n[x][m][1] /\ msg \in Messages
  <2>1. 1 \in 1 .. Len(n[x][m]) /\ Head(n[x][m]) = n[x][m][1] /\ n[x][m][1] \in Messages
    BY <1>1, PopHead, ZenonT(60)
  <2>. QED
    BY <2>1
<1>3. Fit(m, t) /\ SameTerm(s, t)
  BY <1>1, <1>2, StoreStateGood DEF Fit
<1>4. t.events = s.events /\ t.stored_pn = s.stored_pn
  BY StoreSame
<1>5. /\ t.epoch = s.epoch /\ t.role = s.role /\ t.quorum = s.quorum /\ t.state = s.state
      /\ t.accepted_pn = s.accepted_pn /\ t.num_last = s.num_last /\ t.last_pn = s.last_pn
  BY <1>3 DEF SameTerm
<1>6. TimersOK(t)
  BY <1>1, <1>4, <1>5 DEF TimersOK
<1>7. AskInv(Moved(ms, m, t), n)
  <2>1. t.role = "leader" => LeadsOnA(n, m, s, t)
    BY <1>1, <1>5 DEF LeadsOnA, LeadA
  <2>2. t.epoch >= s.epoch
    BY <1>1, <1>5 DEF Monitors
  <2>. QED
    BY <1>1, <1>3, <1>4, <1>5, <1>6, <2>1, <2>2, QuietA
<1>8. ASSUME NEW H, NEW K, Core(H, K, ms, n) PROVE Core(H, K, Moved(ms, m, t), n)
  <2>1. MsgB(H, K, ms, x, m, msg)
    BY <1>2, <1>8 DEF Core
  <2>2. \E top : Carries(K, msg, top)
    BY <2>1 DEF MsgB
  <2>3. PICK top : Carries(K, msg, top)
    BY <2>2
  <2>. QED
    BY <1>1, <1>2, <1>8, <2>3, StoreB
<1>. QED
  BY <1>7, <1>8 DEF Sound

\* Leader m counts an answer.
LEMMA CountJ ==
  ASSUME NEW b, NEW C, NEW ms, NEW n, Sound(b, C, ms, n), NEW m \in Rank, NEW x \in Rank,
         n[x][m] # <<>>, NEW msg, msg = Head(n[x][m]), NEW t, Fit(m, t), TimersOK(t),
         CountsA(ms[m], t, msg), b => CountsB(ms[m], t, msg)
  PROVE  Sound(b, C, Moved(ms, m, t), Pop(n, {x}, m))
<1>1. AskInv(ms, n) /\ t \in Monitors
  BY FitFacts DEF Sound
<1>2. AskInv(Moved(ms, m, t), Pop(n, {x}, m))
  BY <1>1, CountA
<1>3. ASSUME NEW H, NEW K, Core(H, K, ms, n), b PROVE Core(H, K, Moved(ms, m, t), Pop(n, {x}, m))
  BY <1>1, <1>3, CountB
<1>. QED
  BY <1>2, <1>3 DEF Sound

\* Peon m answers.
LEMMA AnswerJ ==
  ASSUME NEW b, NEW C, NEW ms, NEW n, Sound(b, C, ms, n), NEW m \in Rank, NEW x \in Rank,
         n[x][m] # <<>>, NEW msg, msg = Head(n[x][m]), NEW t, Fit(m, t), TimersOK(t),
         NEW last, AnswersA(ms[m], t, msg, last), AnswersB(ms[m], t, msg, last)
  PROVE  Sound(b, C, Moved(ms, m, t), Plus(Pop(n, {x}, m), m, SendTo({x}, last)))
<1>1. AskInv(ms, n) /\ t \in Monitors
  BY FitFacts DEF Sound
<1>2. AskInv(Moved(ms, m, t), Plus(Pop(n, {x}, m), m, SendTo({x}, last)))
  BY <1>1, AnswerA
<1>3. ASSUME NEW H, NEW K, Core(H, K, ms, n)
      PROVE  Core(H, K, Moved(ms, m, t), Plus(Pop(n, {x}, m), m, SendTo({x}, last)))
  BY <1>1, <1>3, AnswerB
<1>. QED
  BY <1>2, <1>3 DEF Sound

\* The oldest message of a channel
LEMMA HeadIs ==
  ASSUME NEW n \in Nets, NEW x \in Rank, NEW m \in Rank, n[x][m] # <<>>, NEW msg,
         msg = Head(n[x][m])
  PROVE  1 \in 1 .. Len(n[x][m]) /\ msg = n[x][m][1] /\ msg \in Messages
<1>1. 1 \in 1 .. Len(n[x][m]) /\ Head(n[x][m]) = n[x][m][1] /\ n[x][m][1] \in Messages
  BY PopHead
<1>. QED
  BY <1>1

\* Leader m counts an acceptance.
LEMMA AcceptJ ==
  ASSUME NEW b, NEW C, NEW ms, NEW n, Sound(b, C, ms, n), NEW m \in Rank, NEW x \in Rank,
         n[x][m] # <<>>, NEW msg, msg = Head(n[x][m]), NEW t, Fit(m, t), TimersOK(t),
         AcceptsB(ms[m], t, x, msg), ms[m].state # "recovering"
  PROVE  Sound(b, C, Moved(ms, m, t), Pop(n, {x}, m))
<1>1. AskInv(ms, n) /\ t \in Monitors /\ n \in Nets /\ ms[m] \in Monitors
  BY FitFacts, SoundFacts DEF Sound
<1>2. AskInv(Moved(ms, m, t), Pop(n, {x}, m))
  <2>1. Pop(n, {x}, m) \in Nets /\ Shorter(Pop(n, {x}, m), n)
    BY <1>1, PopHead
  <2>. DEFINE o == Pop(n, {x}, m)
  <2>2. o \in Nets /\ Shorter(o, n)
    BY <2>1
  <2>. HIDE DEF o
  <2>3. AskInv(ms, o)
    BY <1>1, <2>2, ShorterA
  <2>4. LeadA(ms, o, m)
    BY <2>3 DEF AskInv
  <2>5. AllSilent(o, m, ms[m])
    BY <2>4 DEF LeadA, AcceptsB
  <2>6. t.state # "recovering"
    BY DEF AcceptsB, Updating, IsWriting
  <2>7. LeadsOnA(o, m, ms[m], t)
    BY <2>5, <2>6 DEF LeadsOnA, AcceptsB
  <2>8. /\ t.last_pn = ms[m].last_pn /\ t.stored_pn = ms[m].stored_pn
        /\ t.accepted_pn = ms[m].accepted_pn /\ t.epoch >= ms[m].epoch
    BY DEF AcceptsB, SameDisk, SameStore
  <2>9. AskInv(Moved(ms, m, t), o)
    BY <2>3, <2>7, <2>8, QuietA
  <2>. QED
    BY <2>9 DEF o
<1>3. ASSUME NEW H, NEW K, Core(H, K, ms, n) PROVE Core(H, K, Moved(ms, m, t), Pop(n, {x}, m))
  BY <1>1, <1>3, AcceptB
<1>. QED
  BY <1>2, <1>3 DEF Sound

\* Peon m votes.
LEMMA VoteJ ==
  ASSUME NEW b, NEW C, NEW ms, NEW n, Sound(b, C, ms, n), NEW m \in Rank, NEW x \in Rank,
         n[x][m] # <<>>, NEW msg, msg = Head(n[x][m]), NEW t, Fit(m, t), TimersOK(t),
         NEW y, NEW acc, Accepts(ms[m], t, msg, y, acc),
         b => ms[m].pending_pn <= ms[m].accepted_pn
  PROVE  Sound(b, C, Moved(ms, m, t), Plus(Pop(n, {x}, m), m, SendTo({x}, acc)))
<1>1. AskInv(ms, n) /\ t \in Monitors /\ n \in Nets /\ ms[m] \in Monitors
  BY FitFacts, SoundFacts DEF Sound
<1>2. AskInv(Moved(ms, m, t), Plus(Pop(n, {x}, m), m, SendTo({x}, acc)))
  <2>1. Pop(n, {x}, m) \in Nets /\ Shorter(Pop(n, {x}, m), n)
    BY <1>1, PopHead
  <2>2. 1 \in 1 .. Len(n[x][m]) /\ msg = n[x][m][1]
    BY <1>1, HeadIs
  <2>3. x # m
    BY <1>1, <2>2 DEF AskInv, MsgA, Accepts
  <2>. DEFINE o == Pop(n, {x}, m)
              out == SendTo({x}, acc)
  <2>4. acc \in Messages /\ acc.op \notin {"COLLECT", "LAST"} /\ m \notin {x}
    BY <2>3 DEF Accepts
  <2>5. CalmOut(m, out) /\ out \in [Rank -> Seq(Messages)]
    BY <2>4, SendCalm
  <2>6. o \in Nets /\ Shorter(o, n)
    BY <2>1
  <2>. HIDE DEF o, out
  <2>7. AskInv(ms, o)
    BY <1>1, <2>6, ShorterA
  <2>8. /\ t.last_pn = ms[m].last_pn /\ t.stored_pn = ms[m].stored_pn /\ t.role # "leader"
        /\ t.accepted_pn = ms[m].accepted_pn /\ t.epoch >= ms[m].epoch
    BY <1>1, SMTT(60) DEF Accepts, Stores, Monitors
  <2>9. AskInv(Moved(ms, m, t), Plus(o, m, out))
    BY <2>5, <2>7, <2>8, PlainA
  <2>. QED
    BY <2>9 DEF o, out
<1>3. ASSUME b, NEW H, NEW K, Core(H, K, ms, n)
      PROVE  \E G : Core(G, K, Moved(ms, m, t), Plus(Pop(n, {x}, m), m, SendTo({x}, acc)))
  BY <1>1, <1>3, VoteB
<1>. QED
  BY <1>2, <1>3 DEF Sound

\* x may be proposed, whatever has been voted for.
AllReady(ms, n, m, x) == \A H, K : Core(H, K, ms, n) => Ready(H, K, ms, n, m, x)
\* x trims no less than what is committed.
AllLater(ms, n, m, x) ==
  \A H, K : Core(H, K, ms, n) => Later(K, ms[m].last_committed + 1, x)

\* Leader m begins a round.
LEMMA BeginJ ==
  ASSUME NEW b, NEW C, NEW ms, NEW n, Sound(b, C, ms, n), NEW m \in Rank,
         NEW t, Fit(m, t), TimersOK(t), N > 1, NEW x, NEW msg, Begins(m, ms[m], t, x, msg),
         ms[m].role = "leader", AllSilent(n, m, ms[m]),
         AllReady(ms, n, m, x)
  PROVE  Sound(b, C, Moved(ms, m, t), Plus(n, m, SendTo(t.quorum \ {m}, msg)))
<1>1. AskInv(ms, n) /\ t \in Monitors /\ n \in Nets /\ ms[m] \in Monitors
  BY FitFacts, SoundFacts DEF Sound
<1>2. AskInv(Moved(ms, m, t), Plus(n, m, SendTo(t.quorum \ {m}, msg)))
  <2>. DEFINE X == t.quorum \ {m}
              out == SendTo(X, msg)
  <2>1. msg \in Messages /\ msg.op \notin {"COLLECT", "LAST"} /\ m \notin X
    BY DEF Begins
  <2>. HIDE DEF X
  <2>2. CalmOut(m, out) /\ out \in [Rank -> Seq(Messages)]
    BY <2>1, SendCalm
  <2>. HIDE DEF out
  <2>3. t.state # "recovering"
    BY DEF Begins, Updating
  <2>4. /\ t.last_pn = ms[m].last_pn /\ t.stored_pn = ms[m].stored_pn /\ t.epoch = ms[m].epoch
        /\ t.accepted_pn = ms[m].accepted_pn /\ t.quorum = ms[m].quorum
    BY DEF Begins, Stores
  <2>5. LeadsOnA(n, m, ms[m], t)
    BY <2>3, <2>4 DEF LeadsOnA
  <2>6. t.epoch >= ms[m].epoch
    BY <1>1, <2>4 DEF Monitors
  <2>7. AskInv(Moved(ms, m, t), Plus(n, m, out))
    BY <1>1, <2>2, <2>4, <2>5, <2>6, PlainA
  <2>. QED
    BY <2>7 DEF out, X
<1>3. ASSUME NEW H, NEW K, Core(H, K, ms, n)
      PROVE  \E G : Core(G, K, Moved(ms, m, t), Plus(n, m, SendTo(t.quorum \ {m}, msg)))
  <2>1. Ready(H, K, ms, n, m, x)
    BY <1>3 DEF AllReady
  <2>. QED
    BY <1>1, <1>3, <2>1, BeginB
<1>. QED
  BY <1>2, <1>3 DEF Sound

\* A monitor that is alone begins a round.
LEMMA BeginAloneJ ==
  ASSUME NEW b, NEW C, NEW ms, NEW n, Sound(b, C, ms, n), NEW m \in Rank, N = 1,
         NEW t, Fit(m, t), TimersOK(t), NEW x \in Value, x.trim <= ms[m].last_committed,
         Stores(ms[m], t, ms[m].accepted_pn, x), t.accepted_pn = ms[m].accepted_pn,
         t.new_value = x, t.quorum = ms[m].quorum, ms[m].role = "leader", t.state # "recovering",
         AllLater(ms, n, m, x)
  PROVE  Sound(b, C, Moved(ms, m, t), n)
<1>1. AskInv(ms, n) /\ t \in Monitors /\ n \in Nets /\ ms[m] \in Monitors /\ LeadA(ms, n, m)
  BY FitFacts, SoundFacts DEF Sound
<1>2. AskInv(Moved(ms, m, t), n)
  <2>1. m \in t.quorum
    BY <1>1 DEF LeadA
  <2>2. /\ t.last_pn = ms[m].last_pn /\ t.stored_pn = ms[m].stored_pn /\ t.epoch >= ms[m].epoch
    BY <1>1 DEF Stores, Monitors
  <2>. QED
    BY <1>1, <2>1, <2>2, AloneA
<1>3. ASSUME NEW H, NEW K, Core(H, K, ms, n)
      PROVE  Core(H, K, Moved(ms, m, t), n)
  <2>1. Later(K, ms[m].last_committed + 1, x)
    BY <1>3 DEF AllLater
  <2>. QED
    BY <1>1, <1>3, <2>1, BeginAlone
<1>. QED
  BY <1>2, <1>3 DEF Sound

\* A monitor that is alone becomes its leader.
LEMMA AloneJ ==
  ASSUME NEW b, NEW C, NEW ms, NEW n, Sound(b, C, ms, n), NEW m \in Rank, N = 1,
         NEW t, Fit(m, t), TimersOK(t), SameDisk(ms[m], t), t.accepted_pn = ms[m].accepted_pn,
         m \in t.quorum, Majority(t.quorum), t.state = "active"
  PROVE  Sound(b, C, Moved(ms, m, t), n)
<1>1. AskInv(ms, n) /\ t \in Monitors /\ n \in Nets /\ ms[m] \in Monitors
  BY FitFacts, SoundFacts DEF Sound
<1>2. AskInv(Moved(ms, m, t), n)
  BY <1>1, AloneA DEF SameDisk, SameStore
<1>3. ASSUME NEW H, NEW K, Core(H, K, ms, n)
      PROVE  Core(H, K, Moved(ms, m, t), n)
  <2>1. ~InRound(t)
    BY DEF InRound
  <2>. QED
    BY <1>1, <1>3, <2>1, AloneB
<1>. QED
  BY <1>2, <1>3 DEF Sound

\* Monitor m dies and is started again.
LEMMA DieJ ==
  ASSUME NEW b, NEW C, NEW ms, NEW n, Sound(b, C, ms, n), NEW m \in Rank, NEW o, Cut(o, n, m),
         NEW t, Fit(m, t), TimersOK(t), DiesA(ms[m], t), b => DiesB(ms[m], t)
  PROVE  Sound(b, C, Moved(ms, m, t), o)
<1>1. AskInv(ms, n)
  BY DEF Sound
<1>2. AskInv(Moved(ms, m, t), o)
  BY <1>1, DieA
<1>3. ASSUME NEW H, NEW K, Core(H, K, ms, n), b PROVE Core(H, K, Moved(ms, m, t), o)
  BY <1>1, <1>3, DieB
<1>. QED
  BY <1>2, <1>3 DEF Sound

\* Taking a message and sending others can be exchanged.
LEMMA PopPlus ==
  ASSUME NEW n \in Nets, NEW x \in Rank, NEW m \in Rank, x # m, n[x][m] # <<>>,
         NEW out \in [Rank -> Seq(Messages)]
  PROVE  Pop(Plus(n, m, out), {x}, m) = Plus(Pop(n, {x}, m), m, out)
<1>. DEFINE l == Pop(Plus(n, m, out), {x}, m)
            r == Plus(Pop(n, {x}, m), m, out)
<1>1. l = [y \in Rank |-> [d \in Rank |-> l[y][d]]] /\ r = [y \in Rank |-> [d \in Rank |-> r[y][d]]]
  BY DEF Pop, Plus
<1>2. ASSUME NEW y \in Rank, NEW d \in Rank PROVE l[y][d] = r[y][d]
  <2>1. CASE y = x /\ d = m
    <3>1. l[y][d] = Tail(Plus(n, m, out)[x][m])
      BY <2>1 DEF Pop
    <3>2. Plus(n, m, out)[x][m] = n[x][m]
      BY PlusOther
    <3>3. Pop(n, {x}, m) \in Nets
      BY PopHead
    <3>4. r[y][d] = Pop(n, {x}, m)[x][m]
      BY <2>1, <3>3, PlusOther
    <3>5. Pop(n, {x}, m)[x][m] = Tail(n[x][m])
      BY PopHead, ZenonT(60)
    <3>. QED
      BY <3>1, <3>2, <3>4, <3>5
  <2>2. CASE y # x \/ d # m
    <3>1. l[y][d] = Plus(n, m, out)[y][d]
      BY <2>2 DEF Pop
    <3>2. Pop(n, {x}, m)[y][d] = n[y][d]
      BY <2>2 DEF Pop
    <3>. QED
      BY <3>1, <3>2 DEF Plus
  <2>. QED
    BY <2>1, <2>2
<1>3. l = r
  BY <1>1, <1>2, ZenonT(60)
<1>. QED
  BY <1>3

(***************************************************************************)
(* The calls of a leader.                                                   *)
(***************************************************************************)

\* What Fit stands for
LEMMA FitGood ==
  ASSUME NEW m, NEW s, Fit(m, s)
  PROVE  \E D : Consistent(D) /\ Good(m, D, s)
  BY DEF Fit

\* The quorum of a leader is itself only when it is the only monitor.
LEMMA QuorumOfOne ==
  ASSUME NEW b, NEW C, NEW ms, NEW n, Sound(b, C, ms, n), NEW m \in Rank, ms[m].role = "leader"
  PROVE  (ms[m].quorum = {m} <=> N = 1) /\ m \in ms[m].quorum /\ (N = 1 \/ N > 1)
<1>1. ms[m] \in Monitors /\ Fit(m, ms[m]) /\ LeadA(ms, n, m)
  BY SoundFacts
<1>2. m \in ms[m].quorum /\ ms[m].quorum \subseteq Rank
  BY <1>1 DEF LeadA, Monitors
<1>3. N > 1 => ms[m].quorum # {m}
  BY <1>1, FitFacts
<1>4. N = 1 \/ N > 1
  BY NAssumption
<1>5. N = 1 => ms[m].quorum = {m}
  BY <1>2 DEF Rank
<1>. QED
  BY <1>2, <1>3, <1>4, <1>5

\* A call given by its state and what it sends
LEMMA MakeEnds ==
  ASSUME NEW b, NEW C, NEW ms, NEW n, NEW m, NEW t, NEW out \in [Rank -> Seq(Messages)],
         Sound(b, C, Moved(ms, m, t), Plus(n, m, out)), NEW r, r.s = t, r.out = out
  PROVE  Ends(b, C, ms, m, n, r)
  BY DEF Ends

\* A call given by its state
LEMMA QuietEnds ==
  ASSUME NEW b, NEW C, NEW ms, NEW n \in Nets, NEW m \in Rank, NEW t,
         Sound(b, C, Moved(ms, m, t), n), NEW r, r.s = t, r.out = Nothing
  PROVE  Ends(b, C, ms, m, n, r)
<1>1. Plus(n, m, Nothing) = n /\ Nothing \in [Rank -> Seq(Messages)]
  BY NothingSent
<1>. QED
  BY <1>1 DEF Ends

\* begin
LEMMA BeginEnds ==
  ASSUME NEW b, NEW C, NEW ms, NEW n, Sound(b, C, ms, n), NEW m \in Rank, NEW s, s = ms[m],
         s.role = "leader", s.events = {}, NEW st \in {"updating", "updating-previous"},
         NEW x \in Value, x.trim <= s.last_committed,
         N > 1 => /\ s.state \in {"recovering", "active"} /\ s.num_last >= Cardinality(s.quorum)
                  /\ AllSilent(n, m, s),
         N > 1 => AllReady(ms, n, m, x),
         N = 1 => AllLater(ms, n, m, x)
  PROVE  Ends(b, C, ms, m, n, Begin(m, s, x, st))
<1>1. s \in Monitors /\ Fit(m, s) /\ n \in Nets
  BY SoundFacts
<1>2. PICK D : Consistent(D) /\ Good(m, D, s)
  BY <1>1, FitGood
<1>. DEFINE r == Begin(m, s, x, st)
            v == s.last_committed + 1
<1>3. Fine(m, D, s.epoch, r)
  BY <1>2, BeginFine
<1>4. Fit(m, r.s) /\ r.out \in [Rank -> Seq(Messages)]
  BY <1>3, FineFit
<1>. DEFINE t == [s EXCEPT !.state = st, !.accepted = {m}, !.new_value = x,
                     !.log = Over(One(v, x), @), !.pending_v = v,
                     !.pending_pn = s.accepted_pn]
            msg == [Msg("BEGIN", s) EXCEPT !.pn = s.accepted_pn, !.values = One(v, x),
                                         !.lc = s.last_committed]
<1>5. v \in Nat /\ x.trim < v /\ s.accepted_pn \in Nat /\ s.last_committed \in Nat
  BY <1>1 DEF Monitors, Value
<1>6. CASE N > 1
  <2>1. s.quorum # {m}
    BY <1>6, QuorumOfOne
  <2>. DEFINE u == [t EXCEPT !.events = @ \cup {"accept"}]
              X == s.quorum \ {m}
  <2>2. r.s = u /\ r.out = SendTo(X, msg)
    BY <2>1 DEF Begin, Sends
  <2>3. /\ u.quorum = s.quorum /\ u.events = {"accept"} /\ u.role = "leader" /\ u.state = st
        /\ u.accepted_pn = s.accepted_pn /\ u.accepted = {m} /\ u.new_value = x
    BY <1>1 DEF Monitors
  <2>4. Stores(s, u, s.accepted_pn, x)
    BY <1>1 DEF Monitors, Stores
  <2>5. TimersOK(u)
    BY <2>3 DEF TimersOK
  <2>6. /\ msg.op = "BEGIN" /\ msg.epoch = s.epoch /\ msg.pn = s.accepted_pn
        /\ msg.lc = s.last_committed /\ msg.values = One(v, x)
    BY DEF Msg
  <2>7. msg \in Messages
    <3>1. One(v, x) \in VMaps
      BY <1>5, OneMap
    <3>. HIDE DEF v
    <3>. QED
      BY <1>1, <1>5, <3>1, ZenonT(60) DEF Msg, Messages, Monitors, Ops
  <2>8. Begins(m, s, u, x, msg)
    <3>1. Updating(u)
      BY <2>3 DEF Updating
    <3>. HIDE DEF u, msg
    <3>. QED
      BY <2>3, <2>4, <2>6, <2>7, <3>1 DEF Begins
  <2>9. Fit(m, u)
    BY <1>4, <2>2
  <2>. HIDE DEF u, msg
  <2>11. /\ Begins(m, ms[m], u, x, msg) /\ ms[m].role = "leader" /\ AllSilent(n, m, ms[m])
         /\ AllReady(ms, n, m, x)
    BY <1>6, <2>8
  <2>10. Sound(b, C, Moved(ms, m, u), Plus(n, m, SendTo(u.quorum \ {m}, msg)))
    BY <1>6, <2>5, <2>9, <2>11, BeginJ
  <2>12. Ends(b, C, ms, m, n, r)
    <3>. HIDE DEF r
    <3>. QED
      BY <1>4, <2>2, <2>3, <2>10 DEF Ends
  <2>. QED
    BY <2>12
<1>7. CASE N = 1
  <2>1. s.quorum = {m}
    BY <1>7, QuorumOfOne
  <2>. DEFINE u == CommitStart(t)
  <2>2. r.s = u /\ r.out = Nothing
    BY <2>1 DEF Begin, Done
  <2>3. /\ u.quorum = s.quorum /\ u.events = {} /\ u.role = "leader" /\ u.state # "recovering"
        /\ u.accepted_pn = s.accepted_pn /\ u.new_value = x
    BY <1>1 DEF Monitors, CommitStart
  <2>4. Stores(s, u, s.accepted_pn, x)
    BY <1>1 DEF Monitors, Stores, CommitStart
  <2>5. TimersOK(u)
    BY <2>3 DEF TimersOK
  <2>9. Fit(m, u)
    BY <1>4, <2>2
  <2>. HIDE DEF u
  <2>12. /\ ms[m].role = "leader" /\ x.trim <= ms[m].last_committed
         /\ Stores(ms[m], u, ms[m].accepted_pn, x) /\ u.accepted_pn = ms[m].accepted_pn
         /\ u.new_value = x /\ u.quorum = ms[m].quorum
         /\ AllLater(ms, n, m, x)
    BY <1>7, <2>3, <2>4
  <2>10. Sound(b, C, Moved(ms, m, u), n)
    BY <1>7, <2>3, <2>5, <2>9, <2>12, BeginAloneJ
  <2>11. Ends(b, C, ms, m, n, r)
    <3>. HIDE DEF r
    <3>. QED
      BY <1>1, <2>2, <2>10, QuietEnds
  <2>. QED
    BY <2>11
<1>. QED
  BY <1>6, <1>7, NAssumption

\* A monitor with the same store and round
LEMMA FitKept ==
  ASSUME NEW m, NEW s, Fit(m, s), NEW t \in Monitors, SameStore(s, t), SameRound(s, t)
  PROVE  Fit(m, t)
<1>1. PICK D : Consistent(D) /\ Good(m, D, s)
  BY FitGood
<1>2. Good(m, D, t)
  BY <1>1, GoodKept
<1>. QED
  BY <1>1, <1>2 DEF Fit

\* A monitor with the same store and no round
LEMMA FitFollower ==
  ASSUME NEW m, NEW s, Fit(m, s), NEW t \in Monitors, SameStore(s, t), t.role # "leader",
         ~IsWriting(t), t.new_value \in {s.new_value, NoValue},
         t.uncommitted \in {s.uncommitted, NoneUncommitted}
  PROVE  Fit(m, t)
<1>1. PICK D : Consistent(D) /\ Good(m, D, s)
  BY FitGood
<1>2. Good(m, D, t)
  BY <1>1, GoodFollower
<1>. QED
  BY <1>1, <1>2 DEF Fit

\* What an active leader may propose
LEMMA NewIsReady ==
  ASSUME NEW b, NEW C, NEW ms, NEW n, Sound(b, C, ms, n), NEW m \in Rank, ms[m].role = "leader",
         NEW x \in Value, x.trim <= ms[m].last_committed,
         x.trim = 0 \/ x.trim >= ms[m].first_committed
  PROVE  (N > 1 /\ ms[m].state = "active" => AllReady(ms, n, m, x)) /\ AllLater(ms, n, m, x)
<1>1. AskInv(ms, n) /\ ms[m] \in Monitors
  BY SoundFacts DEF Sound
<1>2. ASSUME NEW H, NEW K, Core(H, K, ms, n) PROVE Later(K, ms[m].last_committed + 1, x)
  <2>1. K \subseteq [v: Nat \ {0}, value: Value] /\ Stored(K, ms[m])
    BY <1>2 DEF Core, Chosen, MonB
  <2>. QED
    BY <1>1, <2>1, LaterNew
<1>3. ASSUME N > 1, ms[m].state = "active", NEW H, NEW K, Core(H, K, ms, n)
      PROVE  Ready(H, K, ms, n, m, x)
  <2>1. Later(K, ms[m].last_committed + 1, x)
    BY <1>2, <1>3
  <2>. QED
    BY <1>1, <1>3, <2>1, ReadyActive
<1>. QED
  BY <1>2, <1>3 DEF AllReady, AllLater

\* propose_pending
LEMMA ProposePendingEnds ==
  ASSUME NEW b, NEW C, NEW ms, NEW n, Sound(b, C, ms, n), NEW m \in Rank, NEW s, s = ms[m],
         s.role = "leader", s.state = "active", NEW trim \in Nat, trim <= s.last_committed,
         trim = 0 \/ trim >= s.first_committed
  PROVE  Ends(b, C, ms, m, n, ProposePending(m, s, trim))
<1>1. s \in Monitors /\ Fit(m, s) /\ n \in Nets /\ ms \in [Rank -> Monitors]
  BY SoundFacts
<1>. DEFINE u == [s EXCEPT !.events = {}, !.pending = FALSE]
            x == [epoch |-> s.epoch, by |-> m, v |-> s.last_committed + 1, trim |-> trim]
            w == Moved(ms, m, u)
<1>2. u \in Monitors /\ u.events = {}
  BY <1>1, ZenonT(60) DEF Monitors, Events
<1>3. /\ SameStore(s, u) /\ SameRound(s, u) /\ u.stored_pn = s.stored_pn /\ SameLead(s, u)
      /\ u.role = "leader" /\ u.state = "active"
  BY <1>1 DEF SameStore, SameRound, SameLead, SameTask, Monitors
<1>4. SameDisk(s, u)
  BY <1>1, <1>3 DEF SameDisk, SameLead, Monitors
<1>5. x \in Value /\ x.trim = trim
  BY <1>1 DEF Value, Monitors
<1>6. ProposePending(m, s, trim) = Begin(m, u, x, "updating")
  BY DEF ProposePending
<1>. HIDE DEF u, x
<1>7. Fit(m, u)
  BY <1>1, <1>2, <1>3, FitKept
<1>8. TimersOK(u)
  BY <1>2, <1>3 DEF TimersOK
<1>9. Sound(b, C, w, n)
  BY <1>3, <1>4, <1>7, <1>8, PlainDone DEF SameLead, SameTask
<1>10. w[m] = u
  BY <1>1, <1>2, MovedAt
<1>. HIDE DEF w
<1>11. x.trim <= u.last_committed /\ (x.trim = 0 \/ x.trim >= u.first_committed)
  BY <1>3, <1>5 DEF SameStore
<1>12. (N > 1 => AllReady(w, n, m, x)) /\ AllLater(w, n, m, x)
  BY <1>3, <1>5, <1>9, <1>10, <1>11, NewIsReady
<1>13. N > 1 => u.num_last >= Cardinality(u.quorum)
  BY <1>3, <1>7, FitFacts
<1>14. AllSilent(n, m, u)
  <2>1. LeadA(w, n, m)
    BY <1>9, SoundFacts
  <2>. QED
    BY <1>3, <1>10, <2>1 DEF LeadA
<1>15. Ends(b, C, w, m, n, Begin(m, u, x, "updating"))
  BY <1>2, <1>3, <1>5, <1>9, <1>10, <1>11, <1>12, <1>13, <1>14, BeginEnds
<1>16. Ends(b, C, ms, m, n, Begin(m, u, x, "updating"))
  <2>. DEFINE r == Begin(m, u, x, "updating")
  <2>1. Ends(b, C, Moved(ms, m, u), m, n, r)
    BY <1>15 DEF w
  <2>. HIDE DEF r
  <2>2. Ends(b, C, ms, m, n, r)
    BY <2>1, FirstEnds
  <2>. QED
    BY <2>2 DEF r
<1>. QED
  BY <1>6, <1>16

\* finish_round
LEMMA FinishEnds ==
  ASSUME NEW b, NEW C, NEW ms, NEW n, Sound(b, C, ms, n), NEW m \in Rank, NEW s, s = ms[m],
         s.role = "leader", s.state = "active"
  PROVE  Ends(b, C, ms, m, n, FinishRound(m, s))
<1>1. s \in Monitors /\ Fit(m, s) /\ n \in Nets /\ ms \in [Rank -> Monitors]
  BY SoundFacts
<1>2. [s EXCEPT !.state = "active"] = s
  BY <1>1 DEF Monitors
<1>3. TrimTo(s) \in Nat /\ TrimTo(s) <= s.last_committed
  BY <1>1, TrimToSmall
<1>4. TrimTo(s) = 0 \/ TrimTo(s) >= s.first_committed
  BY <1>1, <1>3 DEF TrimTo, Monitors
<1>5. CASE s.pending \/ TrimTo(s) > 0
  <2>1. FinishRound(m, s) = ProposePending(m, s, TrimTo(s))
    BY <1>2, <1>5 DEF FinishRound
  <2>. DEFINE k == TrimTo(s)
  <2>. HIDE DEF k
  <2>2. Ends(b, C, ms, m, n, ProposePending(m, s, k))
    BY <1>3, <1>4, ProposePendingEnds DEF k
  <2>. QED
    BY <2>1, <2>2 DEF k
<1>6. CASE ~(s.pending \/ TrimTo(s) > 0)
  <2>1. FinishRound(m, s) = Done(s)
    BY <1>2, <1>6 DEF FinishRound
  <2>2. Sound(b, C, Moved(ms, m, s), n)
    BY <1>1, MovedSame
  <2>. QED
    BY <1>1, <2>1, <2>2, DoneEnds
<1>. QED
  BY <1>5, <1>6

\* A LEASE is a message.
LEMMA LeaseTyped ==
  ASSUME NEW s \in Monitors, NEW msg,
         msg = [Msg("LEASE", s) EXCEPT !.lc = s.last_committed, !.fc = s.first_committed]
  PROVE  msg \in Messages /\ msg.op = "LEASE"
<1>1. Msg("LEASE", s) \in Messages /\ Msg("LEASE", s).op = "LEASE"
  BY MsgTyped DEF Ops
<1>2. s.last_committed \in Nat /\ s.first_committed \in Nat
  BY DEF Monitors
<1>. QED
  BY <1>1, <1>2 DEF Messages

\* A message that is plain
LEMMA SendPlain ==
  ASSUME NEW m \in Rank, NEW X, m \notin X, NEW s, NEW msg \in Messages,
         msg.op \notin {"COLLECT", "LAST", "BEGIN", "ACCEPT"}, msg.op = "COMMIT" => Cites(s, msg)
  PROVE  PlainSent(m, s, SendTo(X, msg)) /\ SendTo(X, msg) \in [Rank -> Seq(Messages)]
<1>. DEFINE out == SendTo(X, msg)
<1>1. \A d \in Rank : \A i \in 1 .. Len(out[d]) : d \in X /\ out[d][i] = msg
  BY SendToOne
<1>2. out \in [Rank -> Seq(Messages)]
  BY SendToAt
<1>. HIDE DEF out
<1>3. PlainSent(m, s, out)
  BY <1>1 DEF PlainSent, PlainMsg
<1>. QED
  BY <1>2, <1>3 DEF out

\* An active leader's lease
LEMMA LeaseEnds ==
  ASSUME NEW b, NEW C, NEW ms, NEW n, Sound(b, C, ms, n), NEW m \in Rank, NEW s, s = ms[m],
         s.role = "leader", s.state = "active"
  PROVE  /\ Ends(b, C, ms, m, n, ExtendLease(m, s)) /\ ExtendLease(m, s).s.role = "leader"
         /\ ExtendLease(m, s).s.state = "active"
<1>1. s \in Monitors /\ Fit(m, s) /\ n \in Nets /\ ms \in [Rank -> Monitors] /\ TimersOK(s)
  BY SoundFacts
<1>. DEFINE u == [s EXCEPT !.lease = TRUE, !.acked_lease = {m},
                  !.events = @ \cup {"lease_ack", "lease_renew"}]
            msg == [Msg("LEASE", s) EXCEPT !.lc = s.last_committed, !.fc = s.first_committed]
            X == s.quorum \ {m}
            out == SendTo(X, msg)
<1>2. u \in Monitors
  BY <1>1, ZenonT(60) DEF Monitors, Events
<1>3. /\ SameStore(s, u) /\ SameRound(s, u) /\ u.stored_pn = s.stored_pn /\ SameLead(s, u)
      /\ u.role = "leader" /\ u.state = "active"
      /\ u.events = s.events \cup {"lease_ack", "lease_renew"}
  BY <1>1 DEF SameStore, SameRound, SameLead, SameTask, Monitors
<1>4. SameDisk(s, u)
  BY <1>1, <1>3 DEF SameDisk, SameLead, Monitors
<1>5. ExtendLease(m, s).s = u /\ ExtendLease(m, s).out = out
  BY DEF ExtendLease, Sends
<1>6. msg \in Messages /\ msg.op = "LEASE"
  BY <1>1, LeaseTyped
<1>. HIDE DEF u, msg
<1>7. m \notin X
  OBVIOUS
<1>. HIDE DEF X
<1>8. PlainSent(m, s, out) /\ out \in [Rank -> Seq(Messages)]
  BY <1>6, <1>7, SendPlain
<1>. HIDE DEF out
<1>9. Fit(m, u)
  BY <1>1, <1>2, <1>3, FitKept
<1>10. TimersOK(u)
  BY <1>1, <1>3 DEF TimersOK
<1>11. Plain(m, s, u, out)
  BY <1>3, <1>4, <1>8 DEF Plain, SameLead, SameTask
<1>12. Sound(b, C, Moved(ms, m, u), Plus(n, m, out))
  BY <1>8, <1>9, <1>10, <1>11, PlainJ
<1>. QED
  BY <1>3, <1>5, <1>8, <1>12, MakeEnds

(***************************************************************************)
(* Monitor::bootstrap and elections.                                        *)
(***************************************************************************)

\* Monitor::_reset
LEMMA ResetKeeps ==
  ASSUME NEW m, NEW s, Fit(m, s)
  PROVE  /\ Fit(m, Reset(s)) /\ TimersOK(Reset(s)) /\ SameDisk(s, Reset(s))
         /\ Reset(s).accepted_pn = s.accepted_pn /\ Reset(s).role = "out"
         /\ Reset(s).epoch = s.epoch
<1>1. PICK D : Consistent(D) /\ Good(m, D, s)
  BY FitGood
<1>2. Good(m, D, Reset(s)) /\ Reset(s).role = "out" /\ Reset(s).epoch = s.epoch
  BY <1>1, ResetGood
<1>3. s \in Monitors
  BY FitFacts
<1>4. Reset(s).events = {} /\ Reset(s).accepted_pn = s.accepted_pn
  BY <1>3 DEF Reset, Monitors
<1>5. SameDisk(s, Reset(s))
  BY <1>3 DEF Reset, SameDisk, SameStore, Monitors
<1>6. TimersOK(Reset(s))
  BY <1>2, <1>4 DEF TimersOK
<1>. QED
  BY <1>1, <1>2, <1>4, <1>5, <1>6 DEF Fit

\* The state in which a commit leaves the leader, and which finish_round starts with
Settles(s) ==
  [Learn(s, {s.last_committed + 1}, One(s.last_committed + 1, s.new_value)) EXCEPT
     !.lease = FALSE, !.new_value = NoValue, !.state = "active"]

\* A leader whose commit is being written has no timer.
LEMMA WritingQuiet ==
  ASSUME NEW m, NEW s, Fit(m, s), TimersOK(s), IsWriting(s)
  PROVE  s.role = "leader" /\ s.events = {}
<1>1. s \in Monitors /\ s.role = "leader"
  BY FitFacts DEF MemoryOK
<1>2. s.events \subseteq {"collect", "accept", "lease_renew", "lease_ack", "lease"}
  BY <1>1 DEF Monitors, Events
<1>3. "lease" \notin s.events
  BY <1>1 DEF TimersOK
<1>4. "accept" \notin s.events /\ "collect" \notin s.events
  BY DEF TimersOK, IsWriting
<1>5. "lease_ack" \notin s.events /\ "lease_renew" \notin s.events
  BY DEF TimersOK, IsWriting
<1>. QED
  BY <1>1, <1>2, <1>3, <1>4, <1>5

\* The commit is written: the monitor is one that PaxosProofs allows.
LEMMA SettlesFit ==
  ASSUME NEW m \in Rank, NEW s, Fit(m, s), TimersOK(s), IsWriting(s), NEW t, t = Settles(s),
         NEW v, v = s.last_committed + 1
  PROVE  /\ Fit(m, t) /\ TimersOK(t) /\ Finishes(s, t, v, One(v, s.new_value))
         /\ t.role = "leader" /\ t.state = "active" /\ t.epoch = s.epoch /\ t.quorum = s.quorum
         /\ t.last_committed = v /\ t.accepted_pn = s.accepted_pn
<1>1. s.role = "leader" /\ s.events = {} /\ s \in Monitors /\ s.last_committed \in Nat /\ v \in Nat
      /\ s.new_value \in Value
  BY WritingQuiet, FitFacts DEF Monitors
<1>. DEFINE x == One(v, s.new_value)
            a == Learn(s, {v}, x)
<1>2. PICK D : Consistent(D) /\ Good(m, D, s)
  BY FitGood
<1>3. Good(m, D, a) /\ SameTerm(s, a) /\ a.last_committed = v
  BY <1>2, LearnNext
<1>4. a.events = s.events
  BY DEF Learn
<1>5. Learns(s, a, v, x)
  <2>1. {v} = s.last_committed + 1 .. v
    BY <1>1
  <2>. HIDE DEF x
  <2>2. v > s.last_committed
    BY <1>1
  <2>3. Learns(s, Learn(s, s.last_committed + 1 .. v, x), v, x)
    BY <1>1, <2>2, LearnIs
  <2>. QED
    BY <2>1, <2>3
<1>6. x[v] = s.new_value
  BY DEF One
<1>7. t = [a EXCEPT !.lease = FALSE, !.new_value = NoValue, !.state = "active"]
  BY DEF Settles
<1>. HIDE DEF a, x
<1>8. a \in Monitors /\ StoreOK(D, a) /\ MemoryOK(a) /\ LeaderOK(m, D, a) /\ OwnerOK(m, D, a)
  BY <1>3 DEF Good
<1>9. t \in Monitors
  BY <1>7, <1>8, NoneTyped, ZenonT(60) DEF Monitors, States
<1>10. /\ SameStore(a, t) /\ t.role = a.role /\ t.quorum = a.quorum /\ t.state = "active"
       /\ t.accepted_pn = a.accepted_pn /\ t.num_last = a.num_last /\ t.epoch = a.epoch
       /\ t.new_value = NoValue /\ t.uncommitted = a.uncommitted /\ t.events = a.events
       /\ t.stored_pn = a.stored_pn
  BY <1>7, <1>8 DEF Monitors, SameStore
<1>11. /\ t.epoch = s.epoch /\ t.role = "leader" /\ t.last_committed = v
       /\ t.accepted_pn = s.accepted_pn /\ t.num_last = s.num_last /\ t.quorum = s.quorum
       /\ t.last_pn = s.last_pn /\ t.events = {}
  BY <1>1, <1>3, <1>4, <1>10 DEF SameTerm, SameStore
<1>12. Good(m, D, t)
  <2>1. StoreOK(D, t) /\ OwnerOK(m, D, t)
    BY <1>8, <1>10 DEF StoreOK, OwnerOK, SameStore
  <2>2. MemoryOK(t)
    BY <1>1, <1>8, <1>10, <1>11 DEF MemoryOK, NoValue, IsWriting
  <2>3. LeaderOK(m, D, t)
    <3>1. LeaderOK(m, D, s)
      BY <1>2 DEF Good
    <3>2. s.state \notin {"recovering", "active"}
      BY DEF IsWriting
    <3>. QED
      BY <1>1, <1>10, <1>11, <3>1, <3>2 DEF LeaderOK
  <2>. QED
    BY <1>9, <2>1, <2>2, <2>3 DEF Good
<1>13. Learns(s, t, v, x)
  BY <1>5, <1>10 DEF Learns, SameStore
<1>14. Finishes(s, t, v, x)
  BY <1>1, <1>6, <1>10, <1>11, <1>13 DEF Finishes
<1>15. TimersOK(t)
  BY <1>10, <1>11 DEF TimersOK
<1>16. Fit(m, t)
  BY <1>2, <1>12 DEF Fit
<1>. QED
  BY <1>10, <1>11, <1>14, <1>15, <1>16 DEF x

\* The commit is written.
LEMMA SettlesJ ==
  ASSUME NEW b, NEW C, NEW ms, NEW n, Sound(b, C, ms, n), NEW m \in Rank, IsWriting(ms[m]),
         NEW t, t = Settles(ms[m])
  PROVE  /\ Sound(b, C, Moved(ms, m, t), n) /\ Moved(ms, m, t)[m] = t
         /\ Fit(m, t) /\ t.role = "leader" /\ t.state = "active"
<1>1. Fit(m, ms[m]) /\ TimersOK(ms[m]) /\ ms \in [Rank -> Monitors]
  BY SoundFacts
<1>. DEFINE v == ms[m].last_committed + 1
            x == One(v, ms[m].new_value)
<1>2. /\ Fit(m, t) /\ TimersOK(t) /\ Finishes(ms[m], t, v, x)
      /\ t.role = "leader" /\ t.state = "active"
  BY <1>1, SettlesFit
<1>. HIDE DEF v, x
<1>3. Sound(b, C, Moved(ms, m, t), n)
  BY <1>2, CommitJ
<1>4. Moved(ms, m, t)[m] = t
  BY <1>1 DEF Moved
<1>. QED
  BY <1>2, <1>3, <1>4

\* The COMMIT cites the store.
LEMMA SettlesCites ==
  ASSUME NEW m \in Rank, NEW s, Fit(m, s), TimersOK(s), IsWriting(s), NEW t, t = Settles(s),
         NEW v, v = s.last_committed + 1, NEW msg, msg.lc = v, msg.values = One(v, s.new_value)
  PROVE  Cites(t, msg)
<1>1. Fit(m, t) /\ Finishes(s, t, v, One(v, s.new_value)) /\ t.last_committed = v
  BY SettlesFit
<1>2. s.last_committed \in Nat /\ v \in Nat /\ t.first_committed <= v
  BY <1>1, FitFacts DEF Monitors
<1>. DEFINE x == One(v, s.new_value)
<1>3. x[v] = s.new_value /\ x = [i \in {v} |-> s.new_value]
  BY DEF One
<1>4. Learns(s, t, v, x)
  BY <1>1 DEF Finishes
<1>. HIDE DEF x
<1>5. v \in s.last_committed + 1 .. v
  BY <1>2
<1>6. v \in DOMAIN t.log /\ t.log[v] = s.new_value
  BY <1>2, <1>3, <1>4, <1>5 DEF Learns
<1>7. DOMAIN t.log \cap (s.last_committed + 1 .. v) = {v}
  BY <1>2, <1>6
<1>8. Restricted(t.log, s.last_committed + 1 .. v) = x
  BY <1>3, <1>6, <1>7 DEF Restricted
<1>. QED
  BY <1>1, <1>2, <1>8 DEF Cites, x

\* t is s, active.
Activated(s, t) == s \in Monitors /\ t = [s EXCEPT !.state = "active"]

\* What follows does not depend on the state.
SameFinish(m, s, t) ==
  /\ FinishRound(m, s) = FinishRound(m, t) /\ ExtendLease(m, t).out = ExtendLease(m, s).out
  /\ FinishRound(m, ExtendLease(m, s).s) = FinishRound(m, ExtendLease(m, t).s)
  /\ Reset(s) = Reset(t)

\* The state is of no use to what follows.
LEMMA ActiveSame ==
  ASSUME NEW m \in Rank, NEW s, NEW t, Activated(s, t)
  PROVE  SameFinish(m, s, t)
<1>. s \in Monitors /\ t = [s EXCEPT !.state = "active"]
  BY DEF Activated
<1>1. ASSUME NEW u \in Monitors
      PROVE  FinishRound(m, u) = FinishRound(m, [u EXCEPT !.state = "active"])
  <2>. DEFINE w == [u EXCEPT !.state = "active"]
  <2>1. [w EXCEPT !.state = "active"] = w /\ w.pending = u.pending /\ TrimTo(w) = TrimTo(u)
    BY <1>1 DEF Monitors, TrimTo
  <2>. QED
    BY <2>1 DEF FinishRound
<1>2. ExtendLease(m, s).s \in Monitors
  BY ZenonT(60) DEF ExtendLease, Sends, Monitors, Events
<1>3. ExtendLease(m, t).s = [ExtendLease(m, s).s EXCEPT !.state = "active"]
  BY DEF ExtendLease, Sends, Monitors
<1>4. ExtendLease(m, t).out = ExtendLease(m, s).out
  BY DEF ExtendLease, Sends, Monitors, Msg
<1>5. Reset(s) = Reset(t)
  BY DEF Reset, Monitors
<1>. QED
  BY <1>1, <1>2, <1>3, <1>4, <1>5 DEF SameFinish

\* commit_finish
LEMMA CommitFinishEnds ==
  ASSUME NEW b, NEW C, NEW ms, NEW n, Sound(b, C, ms, n), NEW m \in Rank, NEW s, s = ms[m],
         IsWriting(s)
  PROVE  Ends(b, C, ms, m, n, CommitFinish(m, s))
<1>. DEFINE v == s.last_committed + 1
            x == One(v, s.new_value)
            a == Learn(s, {v}, x)
            t == [a EXCEPT !.lease = FALSE, !.new_value = NoValue]
            msg == [Msg("COMMIT", s) EXCEPT !.pn = s.accepted_pn, !.lc = v, !.values = x]
            X == s.quorum \ {m}
            c == Sends(t, X, msg)
            l == IF s.quorum = {m} THEN c ELSE Then(c, ExtendLease(m, t))
            u == Settles(s)
            out == SendTo(X, msg)
            w == Moved(ms, m, u)
<1>1. CommitFinish(m, s) = IF NeedsBootstrap({v}, x) THEN [c EXCEPT !.s = Reset(t)]
                           ELSE Then(l, FinishRound(m, l.s))
  BY DEF CommitFinish
<1>2. s \in Monitors /\ Fit(m, s) /\ n \in Nets /\ ms \in [Rank -> Monitors] /\ TimersOK(s)
  BY SoundFacts
<1>3. /\ s.last_committed \in Nat /\ v \in Nat /\ s.accepted_pn \in Nat
  BY <1>2 DEF Monitors
<1>4. PICK D : Consistent(D) /\ Good(m, D, s)
  BY <1>2, FitGood
<1>5. x \in VMaps /\ Good(m, D, a)
  BY <1>4, LearnNext
<1>6. a \in Monitors
  BY <1>5 DEF Good
<1>7. t \in Monitors /\ u = [t EXCEPT !.state = "active"]
  <2>1. u = [a EXCEPT !.lease = FALSE, !.new_value = NoValue, !.state = "active"]
    BY DEF Settles
  <2>. HIDE DEF a, u
  <2>. QED
    BY <1>6, <2>1, NoneTyped DEF Monitors
<1>8. Sound(b, C, w, n) /\ w[m] = u /\ Fit(m, u) /\ u.role = "leader" /\ u.state = "active"
  BY SettlesJ
<1>9. msg \in Messages /\ msg.op = "COMMIT" /\ msg.lc = v /\ msg.values = x
  <2>1. Msg("COMMIT", s) \in Messages /\ Msg("COMMIT", s).op = "COMMIT"
    BY <1>2, MsgTyped DEF Ops
  <2>. HIDE DEF x, v
  <2>. QED
    BY <1>3, <1>5, <2>1 DEF Messages
<1>10. Cites(u, msg)
  <2>. HIDE DEF msg
  <2>. QED
    BY <1>2, <1>9, SettlesCites
<1>11. c.s = t /\ c.out = out /\ [c EXCEPT !.s = Reset(t)] = [s |-> Reset(t), out |-> out]
  BY DEF Sends
<1>. HIDE DEF t, a, x, v, msg, u
<1>12. m \notin X
  OBVIOUS
<1>13. PlainSent(m, u, out) /\ out \in [Rank -> Seq(Messages)]
  <2>. HIDE DEF X
  <2>. QED
    BY <1>9, <1>10, <1>12, SendPlain
<1>14. /\ FinishRound(m, t) = FinishRound(m, u) /\ ExtendLease(m, u).out = ExtendLease(m, t).out
       /\ FinishRound(m, ExtendLease(m, t).s) = FinishRound(m, ExtendLease(m, u).s)
       /\ Reset(t) = Reset(u)
  <2>1. Activated(t, u)
    BY <1>7 DEF Activated
  <2>2. SameFinish(m, t, u)
    BY <2>1, ActiveSame
  <2>. QED
    BY <2>2 DEF SameFinish
<1>. HIDE DEF c, out, X, w
<1>15. u \in Monitors
  BY <1>8, FitFacts
<1>16. CASE NeedsBootstrap({v}, x)
  <2>. DEFINE q == Reset(u)
              r == CommitFinish(m, s)
  <2>1. /\ Fit(m, q) /\ TimersOK(q) /\ SameDisk(u, q) /\ q.accepted_pn = u.accepted_pn
        /\ q.role = "out"
    BY <1>8, ResetKeeps
  <2>2. r.s = q /\ r.out = out
    BY <1>1, <1>11, <1>14, <1>16
  <2>. HIDE DEF q, r
  <2>3. Plain(m, w[m], q, out)
    BY <1>8, <1>13, <2>1 DEF Plain
  <2>4. Sound(b, C, Moved(w, m, q), Plus(n, m, out))
    BY <1>8, <1>13, <2>1, <2>3, PlainJ
  <2>5. Ends(b, C, w, m, n, r)
    BY <1>13, <2>2, <2>4, MakeEnds
  <2>6. Ends(b, C, ms, m, n, r)
    BY <2>5, FirstEnds DEF w
  <2>. QED
    BY <2>6 DEF r
<1>17. CASE ~NeedsBootstrap({v}, x)
  <2>. DEFINE q == [s |-> u, out |-> out]
              e == ExtendLease(m, u)
              k == IF s.quorum = {m} THEN q ELSE Then(q, e)
              f == FinishRound(m, k.s)
              r == CommitFinish(m, s)
  <2>1. Ends(b, C, w, m, n, q)
    <3>1. Plain(m, w[m], u, out)
      BY <1>8, <1>13, <1>15 DEF Plain, SameDisk, SameStore, SameLead, SameTask, Monitors
    <3>2. TimersOK(u)
      BY <1>8, SoundFacts
    <3>3. Sound(b, C, Moved(w, m, u), Plus(n, m, out))
      BY <1>8, <1>13, <3>1, <3>2, PlainJ
    <3>. QED
      BY <1>13, <3>3, MakeEnds
  <2>2. Ends(b, C, w, m, n, k) /\ k.s.role = "leader" /\ k.s.state = "active"
    <3>1. CASE s.quorum = {m}
      BY <1>8, <2>1, <3>1
    <3>2. CASE s.quorum # {m}
      <4>1. k = Then(q, e) /\ k.s = e.s
        BY <3>2 DEF Then
      <4>2. /\ Sound(b, C, Moved(w, m, q.s), Plus(n, m, q.out)) /\ Moved(w, m, q.s)[m] = q.s
        BY <1>8, <2>1, EndsFacts
      <4>3. q.s = u
        OBVIOUS
      <4>. DEFINE z == Moved(w, m, q.s)
                  o == Plus(n, m, q.out)
      <4>. HIDE DEF e, q, z, o
      <4>4. Sound(b, C, z, o) /\ z[m] = u
        BY <4>2, <4>3 DEF z, o
      <4>5. Ends(b, C, z, m, o, ExtendLease(m, u)) /\ ExtendLease(m, u).s.role = "leader"
            /\ ExtendLease(m, u).s.state = "active"
        BY <1>8, <4>4, LeaseEnds
      <4>6. Ends(b, C, z, m, o, e) /\ e.s.role = "leader" /\ e.s.state = "active"
        BY <4>5 DEF e
      <4>7. Ends(b, C, Moved(w, m, q.s), m, Plus(n, m, q.out), e)
        BY <4>6 DEF z, o
      <4>8. Ends(b, C, w, m, n, Then(q, e))
        BY <1>8, <2>1, <4>7, ThenEnds
      <4>. HIDE DEF k
      <4>. QED
        BY <4>1, <4>6, <4>8
    <3>. QED
      BY <3>1, <3>2
  <2>3. r.s = Then(k, f).s /\ r.out = Then(k, f).out
    <3>1. r = Then(l, FinishRound(m, l.s))
      BY <1>1, <1>17
    <3>2. CASE s.quorum = {m}
      <4>1. l = c /\ k = q
        BY <3>2
      <4>2. l.s = t /\ l.out = out /\ k.s = u /\ k.out = out
        <5>1. q.s = u /\ q.out = out
          OBVIOUS
        <5>. HIDE DEF q, l, k
        <5>. QED
          BY <1>11, <4>1, <5>1
      <4>3. FinishRound(m, l.s) = f
        BY <1>14, <4>2
      <4>. HIDE DEF l, k, f
      <4>. QED
        BY <3>1, <4>2, <4>3 DEF Then
    <3>3. CASE s.quorum # {m}
      <4>1. l = Then(c, ExtendLease(m, t)) /\ k = Then(q, e)
        BY <3>3
      <4>2. l.s = ExtendLease(m, t).s /\ k.s = e.s /\ l.out = k.out
        <5>1. c.out = q.out /\ ExtendLease(m, t).out = e.out
          BY <1>11, <1>14
        <5>. HIDE DEF e, q, l, k
        <5>. QED
          BY <4>1, <5>1, Zenon DEF Then
      <4>3. FinishRound(m, l.s) = f
        BY <1>14, <4>2
      <4>. HIDE DEF l, k, f
      <4>. QED
        BY <3>1, <4>2, <4>3 DEF Then
    <3>. QED
      BY <3>2, <3>3
  <2>. HIDE DEF k, r, q, e
  <2>4. Ends(b, C, Moved(w, m, k.s), m, Plus(n, m, k.out), FinishRound(m, k.s))
    <3>. DEFINE z == Moved(w, m, k.s)
                o == Plus(n, m, k.out)
    <3>1. Sound(b, C, z, o) /\ z[m] = k.s
      BY <1>8, <2>2, EndsFacts
    <3>. HIDE DEF z, o
    <3>2. Ends(b, C, z, m, o, FinishRound(m, k.s))
      BY <2>2, <3>1, FinishEnds
    <3>. QED
      BY <3>2 DEF z, o
  <2>. HIDE DEF f
  <2>5. Ends(b, C, w, m, n, Then(k, f))
    BY <1>8, <2>2, <2>4, ThenEnds DEF f
  <2>6. Ends(b, C, w, m, n, r)
    BY <2>3, <2>5, SameEnds
  <2>7. Ends(b, C, ms, m, n, r)
    BY <2>6, FirstEnds DEF w
  <2>. QED
    BY <2>7 DEF r
<1>. QED
  BY <1>16, <1>17

\* wait_for_paxos_write
LEMMA WaitForPaxosWriteEnds ==
  ASSUME NEW b, NEW C, NEW ms, NEW n, Sound(b, C, ms, n), NEW m \in Rank, NEW s, s = ms[m]
  PROVE  Ends(b, C, ms, m, n, WaitForPaxosWrite(m, s))
<1>1. n \in Nets /\ ms \in [Rank -> Monitors]
  BY SoundFacts
<1>. DEFINE f == IF IsWriting(s) THEN CommitFinish(m, s) ELSE Done(s)
            g == CommitFinish(m, f.s)
<1>2. WaitForPaxosWrite(m, s) = IF IsWriting(f.s) THEN Then(f, g) ELSE f
  BY DEF WaitForPaxosWrite
<1>3. Ends(b, C, ms, m, n, f)
  <2>1. CASE IsWriting(s)
    BY <2>1, CommitFinishEnds
  <2>2. CASE ~IsWriting(s)
    <3>1. Sound(b, C, Moved(ms, m, s), n)
      BY <1>1, MovedSame
    <3>2. Ends(b, C, ms, m, n, Done(s))
      BY <1>1, <3>1, DoneEnds
    <3>. QED
      BY <2>2, <3>2
  <2>. QED
    BY <2>1, <2>2
<1>. HIDE DEF f
<1>4. ASSUME IsWriting(f.s) PROVE Ends(b, C, ms, m, n, Then(f, g))
  <2>. DEFINE z == Moved(ms, m, f.s)
              o == Plus(n, m, f.out)
  <2>1. Sound(b, C, z, o) /\ z[m] = f.s
    BY <1>3, EndsFacts
  <2>. HIDE DEF z, o
  <2>2. Ends(b, C, z, m, o, CommitFinish(m, f.s))
    BY <1>4, <2>1, CommitFinishEnds
  <2>. QED
    BY <1>3, <2>2, ThenEnds DEF z, o
<1>. QED
  BY <1>2, <1>3, <1>4

\* The state that r ends with, reset
LEMMA ResetEnds ==
  ASSUME NEW b, NEW C, NEW ms, NEW n, Sound(b, C, ms, n), NEW m \in Rank, NEW r,
         Ends(b, C, ms, m, n, r), NEW q, q.s = Reset(r.s), q.out = r.out
  PROVE  Ends(b, C, ms, m, n, q)
<1>1. ms \in [Rank -> Monitors] /\ n \in Nets
  BY SoundFacts
<1>. DEFINE z == Moved(ms, m, r.s)
            o == Plus(n, m, r.out)
            t == Reset(r.s)
<1>2. Sound(b, C, z, o) /\ z[m] = r.s /\ Fit(m, r.s) /\ r.out \in [Rank -> Seq(Messages)]
  BY EndsFacts
<1>3. /\ Fit(m, t) /\ TimersOK(t) /\ SameDisk(r.s, t) /\ t.accepted_pn = r.s.accepted_pn
      /\ t.role = "out"
  BY <1>2, ResetKeeps
<1>. HIDE DEF z, o, t
<1>4. Sound(b, C, Moved(z, m, t), o)
  BY <1>2, <1>3, PlainDone
<1>5. Moved(z, m, t) = Moved(ms, m, t)
  BY <1>1, MovedTwice DEF z
<1>. QED
  BY <1>2, <1>4, <1>5 DEF Ends, o, t

\* Monitor::bootstrap
LEMMA BootstrapEnds ==
  ASSUME NEW b, NEW C, NEW ms, NEW n, Sound(b, C, ms, n), NEW m \in Rank, NEW s, s = ms[m]
  PROVE  /\ Ends(b, C, ms, m, n, Bootstrap(m, s)) /\ Bootstrap(m, s).s.role = "out"
         /\ Bootstrap(m, s).s.epoch = s.epoch /\ IsCall(Bootstrap(m, s))
<1>1. PICK D : Consistent(D) /\ Good(m, D, s)
  BY SoundFacts, FitGood
<1>2. /\ Bootstrap(m, s).s.role = "out" /\ Bootstrap(m, s).s.epoch = s.epoch
      /\ IsCall(Bootstrap(m, s))
  BY <1>1, BootstrapFine
<1>. DEFINE w == WaitForPaxosWrite(m, s)
            q == Bootstrap(m, s)
<1>3. Ends(b, C, ms, m, n, w) /\ IsCall(w)
  BY <1>1, WaitForPaxosWriteEnds, WaitForPaxosWriteFine
<1>4. q = [w EXCEPT !.s = Reset(w.s)]
  BY DEF Bootstrap
<1>. HIDE DEF w, q
<1>5. q.s = Reset(w.s) /\ q.out = w.out
  BY <1>3, <1>4, CallMade
<1>6. Ends(b, C, ms, m, n, q)
  BY <1>3, <1>5, ResetEnds
<1>. QED
  BY <1>2, <1>6 DEF q

\* Monitor::join_election
LEMMA JoinElectionEnds ==
  ASSUME NEW b, NEW C, NEW ms, NEW n, Sound(b, C, ms, n), NEW m \in Rank, NEW s, s = ms[m],
         NEW e \in Nat, e >= s.epoch
  PROVE  /\ Ends(b, C, ms, m, n, JoinElection(m, s, e)) /\ JoinElection(m, s, e).s.role = "out"
         /\ JoinElection(m, s, e).s.epoch = e /\ IsCall(JoinElection(m, s, e))
<1>1. s \in Monitors /\ Fit(m, s) /\ TimersOK(s) /\ ms \in [Rank -> Monitors] /\ s.epoch \in Nat
  BY SoundFacts DEF Monitors
<1>. DEFINE u == [s EXCEPT !.epoch = e]
            w == Moved(ms, m, u)
<1>2. u \in Monitors /\ u.epoch = e /\ u.events = s.events
  BY <1>1 DEF Monitors
<1>3. /\ SameStore(s, u) /\ SameRound(s, u) /\ u.stored_pn = s.stored_pn /\ SameTask(s, u)
  BY <1>1 DEF SameStore, SameRound, SameTask, Monitors
<1>4. JoinElection(m, s, e) = Bootstrap(m, u)
  BY DEF JoinElection
<1>5. e = s.epoch => u = s
  BY <1>1 DEF Monitors
<1>. HIDE DEF u
<1>6. Sound(b, C, w, n)
  <2>1. CASE e = s.epoch
    BY <1>1, <1>5, <2>1, MovedSame
  <2>2. CASE e > s.epoch
    <3>1. Fit(m, u)
      BY <1>1, <1>2, <1>3, FitKept
    <3>2. TimersOK(u)
      BY <1>1, <1>2, <1>3 DEF TimersOK, SameTask
    <3>3. Bumped(s, u)
      BY <1>1, <1>2, <1>3, <2>2 DEF Bumped, SameDisk
    <3>. QED
      BY <3>1, <3>2, <3>3, EpochJ
  <2>. QED
    BY <1>1, <2>1, <2>2
<1>7. w[m] = u
  BY <1>1, <1>2, MovedAt
<1>. HIDE DEF w
<1>8. /\ Ends(b, C, w, m, n, Bootstrap(m, u)) /\ Bootstrap(m, u).s.role = "out"
      /\ Bootstrap(m, u).s.epoch = u.epoch /\ IsCall(Bootstrap(m, u))
  BY <1>6, <1>7, BootstrapEnds
<1>9. Ends(b, C, ms, m, n, Bootstrap(m, u))
  <2>. DEFINE r == Bootstrap(m, u)
  <2>1. Ends(b, C, Moved(ms, m, u), m, n, r)
    BY <1>8 DEF w
  <2>. HIDE DEF r
  <2>2. Ends(b, C, ms, m, n, r)
    BY <2>1, FirstEnds
  <2>. QED
    BY <2>2 DEF r
<1>. QED
  BY <1>2, <1>4, <1>8, <1>9

\* m, with state s, starts to collect as u: in a new epoch, or again in its own
Starts(m, s, u) ==
  /\ u \in Monitors /\ SameStore(s, u) /\ u.stored_pn = s.stored_pn
  /\ u.accepted_pn = s.accepted_pn /\ u.role = "leader" /\ m \in u.quorum
  /\ u.events \subseteq {"collect"} /\ MemoryOK(u)
  /\ \/ u.epoch > s.epoch
     \/ s.role = "leader" /\ u.epoch = s.epoch /\ u.quorum = s.quorum /\ s.state = "recovering"

\* collect
LEMMA CollectEnds ==
  ASSUME NEW b, NEW C, NEW ms, NEW n, Sound(b, C, ms, n), NEW m \in Rank, N > 1,
         NEW u, Starts(m, ms[m], u), u.quorum # {m}, b => Majority(u.quorum), NEW oldpn \in Nat
  PROVE  Ends(b, C, ms, m, n, Collect(m, u, oldpn))
<1>. DEFINE s == ms[m]
            v  == u.last_committed + 1
            pn == NewPn(m, u.last_pn, Larger(u.accepted_pn, oldpn))
            un == IF Exists(u, v)
                  THEN [v |-> v, pn |-> PendingPn(u, u.accepted_pn), value |-> u.log[v]]
                  ELSE NoneUncommitted
            t  == [u EXCEPT !.state = "recovering", !.uncommitted = un,
                            !.peer_lc = <<>>, !.last_pn = pn, !.accepted_pn = pn,
                            !.num_last = 1, !.events = @ \cup {"collect"}]
            msg == [Msg("COLLECT", t) EXCEPT !.pn = pn, !.lc = u.last_committed,
                                             !.fc = u.first_committed]
            r == Collect(m, u, oldpn)
            X == u.quorum \ {m}
<1>1. s \in Monitors /\ Fit(m, s) /\ n \in Nets
  BY SoundFacts
<1>2. PICK D : Consistent(D) /\ Good(m, D, s)
  BY <1>1, FitGood
<1>3. /\ u \in Monitors /\ SameStore(s, u) /\ u.stored_pn = s.stored_pn
      /\ u.accepted_pn = s.accepted_pn /\ u.role = "leader" /\ m \in u.quorum
      /\ u.events \subseteq {"collect"} /\ MemoryOK(u)
  BY DEF Starts
<1>4. StoreOK(D, u) /\ OwnerOK(m, D, u)
  BY <1>2, <1>3 DEF Good, StoreOK, OwnerOK, SameStore
<1>5. Fine(m, D, u.epoch, r)
  BY <1>2, <1>3, <1>4, CollectFine
<1>6. r.s = t /\ r.out = SendTo(X, msg)
  BY DEF Collect, Sends
<1>7. Fit(m, t) /\ r.out \in [Rank -> Seq(Messages)]
  <2>. HIDE DEF r, t
  <2>. QED
    BY <1>5, <1>6, FineFit
<1>8. pn \in Nat /\ pn > u.last_pn /\ pn > u.accepted_pn
  <2>1. u.last_pn \in Nat /\ u.accepted_pn \in Nat
    BY <1>3 DEF Monitors
  <2>2. Larger(u.accepted_pn, oldpn) \in Nat /\ Larger(u.accepted_pn, oldpn) >= u.accepted_pn
    BY <2>1 DEF Larger
  <2>3. pn \in Nat /\ pn > u.last_pn /\ pn > Larger(u.accepted_pn, oldpn)
    BY <2>1, <2>2, NewPnIsNew
  <2>. QED
    <3>. HIDE DEF pn
    <3>. QED
      BY <2>1, <2>2, <2>3
<1>9. un = Pending(s)
  BY <1>3 DEF Pending, Exists, PendingPn, SameStore
<1>. HIDE DEF pn, un
<1>10. /\ t.epoch = u.epoch /\ t.role = "leader" /\ t.quorum = u.quorum /\ t.state = "recovering"
       /\ t.uncommitted = un /\ t.last_pn = pn /\ t.accepted_pn = pn /\ t.num_last = 1
       /\ t.log = u.log /\ t.last_committed = u.last_committed /\ t.stored_pn = u.stored_pn
       /\ t.first_committed = u.first_committed /\ t.events = u.events \cup {"collect"}
       /\ t.pending_v = u.pending_v /\ t.pending_pn = u.pending_pn
  BY <1>3 DEF Monitors
<1>11. t \in Monitors
  BY <1>7, FitFacts
<1>. HIDE DEF t
<1>12. msg \in Messages /\ msg.epoch = t.epoch /\ msg.op = "COLLECT" /\ msg.pn = pn
       /\ msg.lc = u.last_committed
  <2>1. Msg("COLLECT", t) \in Messages /\ Msg("COLLECT", t).epoch = t.epoch
        /\ Msg("COLLECT", t).op = "COLLECT"
    BY <1>11, MsgTyped DEF Ops
  <2>2. u.last_committed \in Nat /\ u.first_committed \in Nat
    BY <1>3 DEF Monitors
  <2>. QED
    BY <1>8, <2>1, <2>2 DEF Messages
<1>. HIDE DEF msg
<1>13. TimersOK(t)
  BY <1>3, <1>10 DEF TimersOK
<1>14. CollectsA(m, s, t, msg)
  <2>1. \/ t.epoch > s.epoch
        \/ s.role = "leader" /\ t.epoch = s.epoch /\ t.quorum = s.quorum
    BY <1>10 DEF Starts
  <2>2. t.last_pn > s.last_pn /\ t.accepted_pn > s.accepted_pn
    BY <1>3, <1>8, <1>10 DEF SameStore
  <2>. QED
    BY <1>3, <1>10, <1>12, <2>1, <2>2 DEF CollectsA
<1>15. b => CollectsB(s, t, msg)
  <2>1. t.epoch = s.epoch => s.state = "recovering"
    BY <1>1, <1>3, <1>10 DEF Starts, Monitors
  <2>. QED
    BY <1>3, <1>9, <1>10, <1>12, <2>1 DEF CollectsB, SameStore
<1>. HIDE DEF s
<1>16. Sound(b, C, Moved(ms, m, t), Plus(n, m, SendTo(t.quorum \ {m}, msg)))
  BY <1>7, <1>13, <1>14, <1>15, CollectJ DEF s
<1>17. SendTo(t.quorum \ {m}, msg) = r.out
  BY <1>6, <1>10
<1>18. Ends(b, C, ms, m, n, r)
  <2>. HIDE DEF r
  <2>. QED
    BY <1>6, <1>7, <1>16, <1>17 DEF Ends
<1>. QED
  BY <1>18 DEF r

\* leader_init
LEMMA LeaderInitEnds ==
  ASSUME NEW b, NEW C, NEW ms, NEW n, Sound(b, C, ms, n), NEW m \in Rank, NEW Q, NEW w,
         Won(ms[m], w, Q), w.stored_pn = ms[m].stored_pn, w.accepted_pn = ms[m].accepted_pn,
         Q \subseteq Rank, m \in Q, Majority(Q)
  PROVE  Ends(b, C, ms, m, n, LeaderInit(m, w))
<1>. DEFINE s == ms[m]
            t == [w EXCEPT !.events = {}, !.new_value = NoValue, !.pending = TRUE]
            a == [t EXCEPT !.state = "active"]
            u == [t EXCEPT !.lease = FALSE]
            r == LeaderInit(m, w)
<1>1. r = IF w.quorum = {m} THEN Done(a) ELSE Collect(m, u, 0)
  BY DEF LeaderInit
<1>2. s \in Monitors /\ Fit(m, s) /\ n \in Nets /\ ms \in [Rank -> Monitors]
      /\ s.epoch \in Nat
  BY SoundFacts DEF Monitors
<1>3. /\ w \in Monitors /\ SameStore(s, w) /\ w.role = "leader" /\ w.epoch = s.epoch + 1
      /\ w.quorum = Q /\ w.new_value = s.new_value /\ w.uncommitted = s.uncommitted
  BY Zenon DEF Won
<1>4. PICK D : Consistent(D) /\ Good(m, D, s)
  BY <1>2, FitGood
<1>5. StoreOK(D, s) /\ MemoryOK(s) /\ OwnerOK(m, D, s)
  BY <1>4 DEF Good
<1>6. N \in Nat /\ N >= 1 /\ (Q = {m} => N = 1)
  <2>1. Cardinality({m}) = 1
    BY FS_Singleton
  <2>. QED
    BY <2>1, NAssumption DEF Majority
<1>7. NoValue \in Value /\ NoValue.trim = 0
  BY NoneTyped DEF NoValue
<1>8. /\ t \in Monitors /\ t.epoch = w.epoch /\ t.role = "leader" /\ t.quorum = Q
      /\ t.events = {} /\ t.new_value = NoValue /\ t.uncommitted = w.uncommitted
      /\ SameStore(w, t) /\ t.stored_pn = w.stored_pn /\ t.accepted_pn = w.accepted_pn
  BY <1>3, <1>7 DEF Monitors, SameStore
<1>. HIDE DEF t, s
<1>9. /\ a \in Monitors /\ a.epoch = w.epoch /\ a.role = "leader" /\ a.quorum = Q
      /\ a.events = {} /\ a.new_value = NoValue /\ a.uncommitted = w.uncommitted
      /\ SameStore(s, a) /\ a.stored_pn = w.stored_pn /\ a.accepted_pn = w.accepted_pn
      /\ a.state = "active"
  BY <1>3, <1>8 DEF Monitors, SameStore, States
<1>10. /\ u \in Monitors /\ u.epoch = w.epoch /\ u.role = "leader" /\ u.quorum = Q
      /\ u.events = {} /\ u.new_value = NoValue /\ u.uncommitted = w.uncommitted
      /\ SameStore(s, u) /\ u.stored_pn = w.stored_pn /\ u.accepted_pn = w.accepted_pn
  BY <1>3, <1>8 DEF Monitors, SameStore
<1>. HIDE DEF a, u
<1>11. s.last_committed \in Nat
  BY <1>2 DEF Monitors
<1>12. CASE Q = {m}
  <2>1. StoreOK(D, a) /\ OwnerOK(m, D, a)
    BY <1>5, <1>9 DEF StoreOK, OwnerOK, SameStore
  <2>2. MemoryOK(a)
    BY <1>3, <1>5, <1>7, <1>9, <1>11 DEF MemoryOK, SameStore, IsWriting
  <2>3. LeaderOK(m, D, a)
    BY <1>6, <1>12 DEF LeaderOK
  <2>4. Fit(m, a)
    BY <1>4, <1>9, <2>1, <2>2, <2>3 DEF Good, Fit
  <2>5. TimersOK(a)
    BY <1>9 DEF TimersOK
  <2>6. SameDisk(ms[m], a) /\ a.accepted_pn = ms[m].accepted_pn
    BY <1>2, <1>3, <1>9 DEF SameDisk, s
  <2>7. Sound(b, C, Moved(ms, m, a), n)
    BY <1>6, <1>9, <1>12, <2>4, <2>5, <2>6, AloneJ
  <2>8. Ends(b, C, ms, m, n, Done(a))
    BY <1>2, <2>7, DoneEnds
  <2>. QED
    BY <1>1, <1>3, <1>12, <2>8
<1>13. CASE Q # {m}
  <2>1. N > 1
    <3>1. CASE N = 1
      <4>1. Rank = {m}
        BY <3>1 DEF Rank
      <4>. QED
        BY <1>13, <4>1
    <3>. QED
      BY <1>6, <3>1
  <2>2. MemoryOK(u)
    BY <1>3, <1>5, <1>7, <1>10, <1>11 DEF MemoryOK, SameStore
  <2>3. Starts(m, ms[m], u)
    BY <1>2, <1>3, <1>10, <2>2 DEF Starts, s
  <2>4. Ends(b, C, ms, m, n, Collect(m, u, 0))
    BY <1>10, <1>13, <2>1, <2>3, CollectEnds
  <2>. QED
    BY <1>1, <1>3, <1>13, <2>4
<1>. QED
  BY <1>12, <1>13

\* Monitor::win_election
LEMMA WinEnds ==
  ASSUME NEW b, NEW C, NEW ms, NEW n, Sound(b, C, ms, n), NEW m \in Rank, NEW Q,
         Q \subseteq Rank, m \in Q, Majority(Q),
         NEW w, w = [ms[m] EXCEPT !.epoch = @ + 1, !.role = "leader",
                                  !.leader = m, !.quorum = Q],
         NEW v, v = Sends(w, Q \ {m}, [Msg("VICTORY", w) EXCEPT !.quorum = Q])
  PROVE  Ends(b, C, ms, m, n, Then(v, LeaderInit(m, w)))
<1>. DEFINE s == ms[m]
            msg == [Msg("VICTORY", w) EXCEPT !.quorum = Q]
            X == Q \ {m}
            out == SendTo(X, msg)
            k == [s |-> s, out |-> out]
            q == LeaderInit(m, w)
            o == Plus(n, m, out)
            r == Then(v, q)
<1>1. s \in Monitors /\ Fit(m, s) /\ n \in Nets /\ ms \in [Rank -> Monitors] /\ TimersOK(s)
  BY SoundFacts
<1>2. Won(s, w, Q)
  BY <1>1, WonTyped
<1>3. w.stored_pn = s.stored_pn /\ w.accepted_pn = s.accepted_pn
  BY <1>1 DEF Monitors
<1>4. v.out = out
  BY DEF Sends
<1>5. msg \in Messages /\ msg.op = "VICTORY"
  <2>1. w \in Monitors
    BY <1>2 DEF Won
  <2>2. Msg("VICTORY", w) \in Messages /\ Msg("VICTORY", w).op = "VICTORY"
    BY <2>1, MsgTyped DEF Ops
  <2>. QED
    BY <2>2 DEF Messages
<1>. HIDE DEF msg, s
<1>6. PlainSent(m, s, out) /\ out \in [Rank -> Seq(Messages)]
  <2>1. m \notin X
    OBVIOUS
  <2>. HIDE DEF X
  <2>. QED
    BY <1>5, <2>1, SendPlain
<1>. HIDE DEF out
<1>7. Plain(m, ms[m], s, out)
  BY <1>1, <1>6 DEF Plain, SameDisk, SameStore, SameLead, SameTask, Monitors, s
<1>8. Sound(b, C, Moved(ms, m, s), o)
  BY <1>1, <1>6, <1>7, PlainJ
<1>9. Moved(ms, m, s) = ms
  BY <1>1, MovedSame DEF s
<1>10. Ends(b, C, ms, m, n, k)
  BY <1>6, <1>8, MakeEnds
<1>11. Ends(b, C, ms, m, o, q)
  <2>. HIDE DEF o
  <2>. QED
    BY <1>2, <1>3, <1>8, <1>9, LeaderInitEnds DEF s
<1>12. Ends(b, C, Moved(ms, m, k.s), m, Plus(n, m, k.out), q)
  BY <1>9, <1>11
<1>13. r.s = Then(k, q).s /\ r.out = Then(k, q).out
  <2>1. v.out = k.out
    BY <1>4
  <2>. HIDE DEF k, q
  <2>. QED
    BY <2>1, Zenon DEF Then
<1>. HIDE DEF k, q, r
<1>14. Ends(b, C, ms, m, n, Then(k, q))
  BY <1>10, <1>12, ThenEnds
<1>15. Ends(b, C, ms, m, n, r)
  BY <1>13, <1>14, SameEnds
<1>. QED
  BY <1>15 DEF r, q

(***************************************************************************)
(* The last answer: recovery ends.                                          *)
(***************************************************************************)

\* What handle_last sends to those that are behind
LEMMA ShareCommitsEnds ==
  ASSUME NEW b, NEW C, NEW ms, NEW n, Sound(b, C, ms, n), NEW m \in Rank, NEW s, s = ms[m]
  PROVE  Ends(b, C, ms, m, n, ShareCommits(s)) /\ ShareCommits(s).s = s
<1>. DEFINE out == ShareCommits(s).out
            c == ShareCommits(s)
<1>1. s \in Monitors /\ Fit(m, s) /\ n \in Nets /\ ms \in [Rank -> Monitors] /\ TimersOK(s)
  BY SoundFacts
<1>2. c.s = s /\ out \in [Rank -> Seq(Messages)]
  BY <1>1, ShareCommitsOut DEF Outs
<1>3. ASSUME NEW d \in Rank, NEW i \in 1 .. Len(out[d]) PROVE PlainMsg(m, s, d, out[d][i])
  <2>. DEFINE j == s.peer_lc[d]
              msg == Share(s, Msg("COMMIT", s), j)
  <2>1. (out[d] = <<msg>> /\ d \in DOMAIN s.peer_lc) \/ out[d] = <<>>
    BY DEF ShareCommits
  <2>2. i \in 1 .. Len(<<msg>>) => <<msg>>[i] = msg
    OBVIOUS
  <2>3. Len(<<>>) = 0
    OBVIOUS
  <2>. HIDE DEF out, msg
  <2>4. out[d] # <<>>
    BY <2>3
  <2>5. out[d][i] = msg /\ d \in DOMAIN s.peer_lc
    BY <2>1, <2>2, <2>4
  <2>6. j \in Nat
    <3>1. s.peer_lc \in PeerMaps
      BY <1>1 DEF Monitors
    <3>. QED
      BY <2>5, <3>1, PeerMapsDef
  <2>7. /\ msg.op = "COMMIT" /\ msg.lc = s.last_committed
        /\ msg.values = Restricted(s.log, j + 1 .. s.last_committed)
    BY DEF msg, Share, Msg
  <2>. HIDE DEF j
  <2>8. Cites(s, msg)
    BY <2>6, <2>7 DEF Cites
  <2>. QED
    BY <2>5, <2>7, <2>8 DEF PlainMsg
<1>. HIDE DEF out
<1>4. PlainSent(m, s, out)
  BY <1>3 DEF PlainSent
<1>5. Plain(m, ms[m], s, out)
  BY <1>1, <1>4 DEF Plain, SameDisk, SameStore, SameLead, SameTask, Monitors
<1>6. Sound(b, C, Moved(ms, m, s), Plus(n, m, out))
  BY <1>1, <1>2, <1>5, PlainJ
<1>7. Ends(b, C, ms, m, n, c)
  <2>1. c.out = out
    BY DEF out
  <2>. HIDE DEF c
  <2>. QED
    BY <1>2, <1>6, <2>1, MakeEnds
<1>. QED
  BY <1>2, <1>7

\* A silent change, then a call
LEMMA AfterEnds ==
  ASSUME NEW b, NEW C, NEW ms, NEW n, Sound(b, C, ms, n), NEW m \in Rank,
         NEW c, Ends(b, C, ms, m, n, c), NEW t, NEW r,
         Ends(b, C, Moved(Moved(ms, m, c.s), m, t), m, Plus(n, m, c.out), r)
  PROVE  Ends(b, C, ms, m, n, Then(c, r))
<1>. DEFINE z == Moved(ms, m, c.s)
            o == Plus(n, m, c.out)
<1>1. Sound(b, C, z, o)
  BY EndsFacts
<1>. HIDE DEF z, o
<1>2. Ends(b, C, z, m, o, r)
  BY <1>1, FirstEnds DEF z, o
<1>. QED
  BY <1>2, ThenEnds DEF z, o

\* The timers of a leader that recovers
LEMMA RecoveringTimers ==
  ASSUME NEW s, TimersOK(s), s.role = "leader", s.state = "recovering", s \in Monitors
  PROVE  s.events \ {"collect"} = {}
<1>1. s.events \subseteq Events
  BY DEF Monitors
<1>. QED
  BY <1>1 DEF TimersOK, Events

\* t is leader s once it no longer waits for answers.
Cleared(s, t) == t = [s EXCEPT !.events = @ \ {"collect"}, !.peer_lc = <<>>]

\* The last answer takes away the collect timer.
LEMMA ClearedEnds ==
  ASSUME NEW b, NEW C, NEW ms, NEW n, Sound(b, C, ms, n), NEW m \in Rank, NEW s, s = ms[m],
         s.role = "leader", s.state = "recovering",
         NEW t, Cleared(s, t)
  PROVE  /\ Sound(b, C, Moved(ms, m, t), n) /\ Moved(ms, m, t)[m] = t /\ t \in Monitors
         /\ t.events = {} /\ t.role = "leader" /\ t.state = "recovering"
         /\ t.num_last = s.num_last /\ t.quorum = s.quorum /\ t.accepted_pn = s.accepted_pn
         /\ t.uncommitted = s.uncommitted /\ t.last_committed = s.last_committed /\ Fit(m, t)
<1>1. s \in Monitors /\ Fit(m, s) /\ n \in Nets /\ ms \in [Rank -> Monitors] /\ TimersOK(s)
  BY SoundFacts
<1>2. s.events \ {"collect"} = {}
  BY <1>1, RecoveringTimers
<1>3. /\ t \in Monitors /\ t.events = {} /\ t.role = "leader" /\ t.state = "recovering"
      /\ t.num_last = s.num_last /\ t.quorum = s.quorum /\ t.accepted_pn = s.accepted_pn
      /\ t.uncommitted = s.uncommitted /\ t.last_committed = s.last_committed
      /\ SameStore(s, t) /\ SameRound(s, t) /\ SameDisk(s, t) /\ SameLead(s, t)
  <2>1. <<>> \in PeerMaps /\ {} \in SUBSET Events
    BY EmptyMaps
  <2>2. t = [s EXCEPT !.events = {}, !.peer_lc = <<>>]
    BY <1>2 DEF Cleared
  <2>3. t \in Monitors /\ t.events = {} /\ t.num_last \in Nat
    BY <1>1, <2>1, <2>2, ZenonT(60) DEF Monitors
  <2>. QED
    BY <1>1, <2>2, <2>3 DEF Monitors, SameStore, SameRound, SameDisk, SameLead, SameTask
<1>4. Fit(m, t)
  BY <1>1, <1>3, FitKept
<1>5. TimersOK(t)
  BY <1>3 DEF TimersOK
<1>6. Sound(b, C, Moved(ms, m, t), n)
  BY <1>3, <1>4, <1>5, PlainDone
<1>. QED
  BY <1>1, <1>3, <1>4, <1>6, MovedAt

\* Everyone has answered, and something is left to be committed.
LEMMA AgainEnds ==
  ASSUME NEW b, NEW C, NEW ms, NEW n, Sound(b, C, ms, n), NEW m \in Rank, NEW t, t = ms[m], N > 1,
         t.role = "leader", t.state = "recovering", t.events = {},
         t.num_last >= Cardinality(t.quorum), t.uncommitted.v = t.last_committed + 1
  PROVE  Ends(b, C, ms, m, n, Begin(m, t, t.uncommitted.value, "updating-previous"))
<1>1. t \in Monitors /\ Fit(m, t) /\ n \in Nets /\ ms \in [Rank -> Monitors] /\ AskInv(ms, n)
  BY SoundFacts DEF Sound
<1>2. t.uncommitted.value \in Value /\ t.last_committed \in Nat
  BY <1>1 DEF Monitors
<1>3. t.uncommitted.value.trim <= t.last_committed
  <2>1. MemoryOK(t)
    BY <1>1, FitFacts
  <2>2. t.uncommitted.value.trim \in Nat
    BY <1>2 DEF Value
  <2>. QED
    BY <1>2, <2>1, <2>2 DEF MemoryOK
<1>4. AllSilent(n, m, t)
  BY <1>1, CountedA
<1>5. AllReady(ms, n, m, t.uncommitted.value)
  BY <1>1, ReadyAgain DEF AllReady
<1>6. N # 1
  OBVIOUS
<1>. DEFINE x == t.uncommitted.value
<1>. HIDE DEF x
<1>7. Ends(b, C, ms, m, n, Begin(m, t, x, "updating-previous"))
  <2>1. x \in Value /\ x.trim <= t.last_committed /\ AllReady(ms, n, m, x)
    BY <1>2, <1>3, <1>5 DEF x
  <2>. QED
    BY <1>4, <1>6, <2>1, BeginEnds
<1>. QED
  BY <1>7 DEF x

\* Everyone has answered, and nothing is left to be committed.
LEMMA NowActiveEnds ==
  ASSUME NEW b, NEW C, NEW ms, NEW n, Sound(b, C, ms, n), NEW m \in Rank, NEW t, t = ms[m], N > 1,
         t.role = "leader", t.state = "recovering", t.events = {},
         t.num_last >= Cardinality(t.quorum), t.uncommitted.v # t.last_committed + 1,
         NEW l, l = ExtendLease(m, t)
  PROVE  Ends(b, C, ms, m, n, Then(l, FinishRound(m, l.s)))
<1>1. t \in Monitors /\ Fit(m, t) /\ n \in Nets /\ ms \in [Rank -> Monitors]
  BY SoundFacts
<1>2. PICK D : Consistent(D) /\ Good(m, D, t)
  BY <1>1, FitGood
<1>. DEFINE u == [t EXCEPT !.state = "active"]
            w == Moved(ms, m, u)
<1>3. \A c \in D : c.pn = t.accepted_pn => c.v <= t.last_committed
  <2>1. LeaderOK(m, D, t) /\ t.last_committed \in Nat
    BY <1>1, <1>2 DEF Good, Monitors
  <2>. QED
    BY <2>1 DEF LeaderOK
<1>4. Good(m, D, u)
  BY <1>2, <1>3, ActivateGood
<1>5. Fit(m, u)
  BY <1>2, <1>4 DEF Fit
<1>6. /\ u \in Monitors /\ u.role = "leader" /\ u.state = "active" /\ u.events = {}
      /\ Activates(t, u)
  BY <1>1 DEF Activates, SameDisk, SameStore, Monitors, States
<1>7. Activated(t, u)
  BY <1>1 DEF Activated
<1>. HIDE DEF u
<1>8. TimersOK(u)
  BY <1>6 DEF TimersOK
<1>9. Sound(b, C, w, n) /\ w[m] = u
  <2>1. Sound(b, C, Moved(ms, m, u), n)
    BY <1>5, <1>6, <1>8, ActivateJ
  <2>. QED
    BY <1>1, <1>6, <2>1, MovedAt
<1>10. SameFinish(m, t, u)
  BY <1>7, ActiveSame
<1>. HIDE DEF w
<1>. DEFINE e == ExtendLease(m, u)
            f == FinishRound(m, e.s)
            r == Then(l, FinishRound(m, l.s))
<1>11. Ends(b, C, w, m, n, e) /\ e.s.role = "leader" /\ e.s.state = "active"
  BY <1>6, <1>9, LeaseEnds
<1>12. FinishRound(m, l.s) = f /\ l.out = e.out
  BY <1>10 DEF SameFinish
<1>13. r.s = Then(e, f).s /\ r.out = Then(e, f).out
  <2>. HIDE DEF e, f
  <2>. QED
    BY <1>12, Zenon DEF Then
<1>. HIDE DEF e
<1>14. Ends(b, C, Moved(w, m, e.s), m, Plus(n, m, e.out), f)
  <2>. DEFINE z == Moved(w, m, e.s)
              o == Plus(n, m, e.out)
  <2>1. Sound(b, C, z, o) /\ z[m] = e.s
    BY <1>9, <1>11, EndsFacts
  <2>. HIDE DEF z, o
  <2>2. Ends(b, C, z, m, o, FinishRound(m, e.s))
    BY <1>11, <2>1, FinishEnds
  <2>. QED
    BY <2>2 DEF z, o
<1>. HIDE DEF f, r
<1>15. Ends(b, C, w, m, n, Then(e, f))
  BY <1>9, <1>11, <1>14, ThenEnds
<1>16. Ends(b, C, w, m, n, r)
  BY <1>13, <1>15, SameEnds
<1>17. Ends(b, C, ms, m, n, r)
  BY <1>16, FirstEnds DEF w
<1>. QED
  BY <1>17 DEF r

\* A lease is sent, and then the monitor goes back to bootstrap.
LEMMA LeaseResetEnds ==
  ASSUME NEW b, NEW C, NEW ms, NEW n, Sound(b, C, ms, n), NEW m \in Rank, NEW t, t = ms[m],
         NEW q, q.s = Reset(ExtendLease(m, t).s), q.out = ExtendLease(m, t).out
  PROVE  Ends(b, C, ms, m, n, q)
<1>. DEFINE l == ExtendLease(m, t)
            u == Reset(l.s)
            msg == [Msg("LEASE", t) EXCEPT !.lc = t.last_committed, !.fc = t.first_committed]
            X == t.quorum \ {m}
            out == SendTo(X, msg)
<1>1. t \in Monitors /\ Fit(m, t) /\ n \in Nets /\ ms \in [Rank -> Monitors]
  BY SoundFacts
<1>2. PICK D : Consistent(D) /\ Good(m, D, t)
  BY <1>1, FitGood
<1>3. /\ Good(m, D, l.s) /\ SameStore(t, l.s) /\ SameRound(t, l.s) /\ l.s.epoch = t.epoch
  BY <1>2, ExtendLeaseFine
<1>4. l.out = out /\ l.s.stored_pn = t.stored_pn
  BY <1>1 DEF ExtendLease, Sends, Monitors
<1>5. msg \in Messages /\ msg.op = "LEASE"
  BY <1>1, LeaseTyped
<1>. HIDE DEF msg, l
<1>6. PlainSent(m, t, out) /\ out \in [Rank -> Seq(Messages)]
  <2>1. m \notin X
    OBVIOUS
  <2>. HIDE DEF X
  <2>. QED
    BY <1>5, <2>1, SendPlain
<1>. HIDE DEF out
<1>7. Fit(m, l.s)
  BY <1>2, <1>3 DEF Fit
<1>8. /\ Fit(m, u) /\ TimersOK(u) /\ SameDisk(l.s, u) /\ u.accepted_pn = l.s.accepted_pn
      /\ u.role = "out" /\ u.epoch = l.s.epoch
  BY <1>7, ResetKeeps
<1>. HIDE DEF u
<1>9. Plain(m, ms[m], u, out)
  <2>1. t.epoch \in Nat
    BY <1>1 DEF Monitors
  <2>. QED
    BY <1>3, <1>4, <1>6, <1>8, <2>1 DEF Plain, SameDisk, SameStore, SameRound
<1>10. Sound(b, C, Moved(ms, m, u), Plus(n, m, out))
  BY <1>6, <1>8, <1>9, PlainJ
<1>11. q.s = u /\ q.out = out
  BY <1>4 DEF u, l
<1>. QED
  BY <1>6, <1>10, <1>11, MakeEnds

\* A monitor that is not writing goes back to bootstrap at once.
LEMMA BootstrapNow ==
  ASSUME NEW m, NEW s, ~IsWriting(s)
  PROVE  Bootstrap(m, s) = [s |-> Reset(s), out |-> Nothing]
<1>1. WaitForPaxosWrite(m, s) = Done(s)
  BY DEF WaitForPaxosWrite, Done
<1>. QED
  BY <1>1 DEF Bootstrap, Done

\* handle_last, once everyone has answered: with a new monmap among what was learnt,
\* a bootstrap follows.
LEMMA RecoveredEnds ==
  ASSUME NEW b, NEW C, NEW ms, NEW n, Sound(b, C, ms, n), NEW m \in Rank, NEW s, s = ms[m], N > 1,
         s.role = "leader", s.state = "recovering", s.num_last >= Cardinality(s.quorum)
  PROVE  /\ Ends(b, C, ms, m, n, Recovered(m, s, TRUE))
         /\ LET r == Recovered(m, s, FALSE)
            IN  /\ Ends(b, C, ms, m, n, Then(r, Bootstrap(m, r.s)))
                /\ r.out \in [Rank -> Seq(Messages)]
                /\ Bootstrap(m, r.s).out \in [Rank -> Seq(Messages)]
<1>. DEFINE t == [s EXCEPT !.events = @ \ {"collect"}, !.peer_lc = <<>>]
            l == ExtendLease(m, t)
            w == Moved(ms, m, t)
            x == t.uncommitted.value
            g == Begin(m, t, x, "updating-previous")
            f == Then(l, FinishRound(m, l.s))
<1>1. Recovered(m, s, TRUE) = IF t.uncommitted.v = t.last_committed + 1 THEN g ELSE f
  BY DEF Recovered
<1>2. Recovered(m, s, FALSE) = IF t.uncommitted.v = t.last_committed + 1 THEN g ELSE l
  BY DEF Recovered
<1>3. /\ Sound(b, C, w, n) /\ w[m] = t /\ t \in Monitors
      /\ t.events = {} /\ t.role = "leader" /\ t.state = "recovering"
      /\ t.num_last >= Cardinality(t.quorum)
  <2>2. Cleared(s, t)
    BY DEF Cleared
  <2>. HIDE DEF t
  <2>1. /\ Sound(b, C, Moved(ms, m, t), n) /\ Moved(ms, m, t)[m] = t /\ t \in Monitors
        /\ t.events = {} /\ t.role = "leader" /\ t.state = "recovering"
        /\ t.num_last = s.num_last /\ t.quorum = s.quorum
    BY <2>2, ClearedEnds
  <2>. QED
    BY <2>1
<1>4. n \in Nets
  BY SoundFacts
<1>5. ~IsWriting(l.s) /\ t.state = l.s.state
  BY <1>3 DEF ExtendLease, Sends, IsWriting, Monitors
<1>. HIDE DEF t, w
<1>6. CASE t.uncommitted.v = t.last_committed + 1
  <2>1. Ends(b, C, w, m, n, g)
    BY <1>3, <1>6, AgainEnds
  <2>. HIDE DEF g
  <2>2. Ends(b, C, ms, m, n, g)
    BY <2>1, FirstEnds DEF w
  <2>. DEFINE z == Moved(ms, m, g.s)
              o == Plus(n, m, g.out)
  <2>3. Sound(b, C, z, o) /\ z[m] = g.s
    BY <2>2, EndsFacts
  <2>. HIDE DEF z, o
  <2>4. Ends(b, C, z, m, o, Bootstrap(m, g.s))
    BY <2>3, BootstrapEnds
  <2>5. Ends(b, C, ms, m, n, Then(g, Bootstrap(m, g.s)))
    BY <2>2, <2>4, ThenEnds DEF z, o
  <2>6. g.out \in [Rank -> Seq(Messages)] /\ Bootstrap(m, g.s).out \in [Rank -> Seq(Messages)]
    BY <2>2, <2>4 DEF Ends
  <2>. QED
    BY <1>1, <1>2, <1>6, <2>2, <2>5, <2>6
<1>7. CASE t.uncommitted.v # t.last_committed + 1
  <2>1. Ends(b, C, w, m, n, f)
    BY <1>3, <1>7, NowActiveEnds
  <2>. HIDE DEF f
  <2>2. Ends(b, C, ms, m, n, f)
    BY <2>1, FirstEnds DEF w
  <2>. DEFINE q == [s |-> Reset(l.s), out |-> l.out]
              r == Then(l, Bootstrap(m, l.s))
  <2>3. q.s = Reset(l.s) /\ q.out = l.out
    OBVIOUS
  <2>. HIDE DEF q
  <2>4. Ends(b, C, w, m, n, q)
    BY <1>3, <2>3, LeaseResetEnds
  <2>5. Ends(b, C, ms, m, n, q)
    BY <2>4, FirstEnds DEF w
  <2>6. l.out \in [Rank -> Seq(Messages)]
    BY <2>3, <2>5 DEF Ends
  <2>7. r.s = q.s /\ r.out = [d \in Rank |-> l.out[d] \o <<>>]
    <3>. DEFINE k == Bootstrap(m, l.s)
    <3>1. k = [s |-> Reset(l.s), out |-> Nothing]
      BY <1>5, BootstrapNow
    <3>2. k.s = Reset(l.s) /\ k.out = Nothing
      BY <3>1
    <3>. HIDE DEF k, l
    <3>3. \A d \in Rank : k.out[d] = <<>>
      BY <3>2 DEF Nothing
    <3>4. r.s = k.s /\ r.out = [d \in Rank |-> l.out[d] \o k.out[d]]
      BY DEF Then, k
    <3>. QED
      BY <2>3, <3>2, <3>3, <3>4
  <2>8. r.out = l.out
    <3>. HIDE DEF l, r
    <3>1. \A u \in Seq(Messages) : u \o <<>> = u
      OBVIOUS
    <3>2. \A d \in Rank : l.out[d] \o <<>> = l.out[d]
      BY <2>6, <3>1
    <3>3. [d \in Rank |-> l.out[d] \o <<>>] = [d \in Rank |-> l.out[d]]
      BY <3>2
    <3>4. [d \in Rank |-> l.out[d]] = l.out
      BY <2>6
    <3>. QED
      BY <2>7, <3>3, <3>4
  <2>. HIDE DEF r
  <2>9. Ends(b, C, ms, m, n, r)
    BY <2>3, <2>5, <2>7, <2>8, SameEnds
  <2>10. Bootstrap(m, l.s).out \in [Rank -> Seq(Messages)]
    <3>1. Bootstrap(m, l.s).out = Nothing
      BY <1>5, BootstrapNow
    <3>. QED
      BY <3>1 DEF Nothing
  <2>. QED
    BY <1>1, <1>2, <1>7, <2>2, <2>6, <2>9, <2>10 DEF r
<1>. QED
  BY <1>6, <1>7

(***************************************************************************)
(* The handlers of messages.                                                *)
(***************************************************************************)

\* A call whose last state is changed without a word
LEMMA QuietlyEnds ==
  ASSUME NEW b, NEW C, NEW ms, NEW n, Sound(b, C, ms, n), NEW m \in Rank, NEW r,
         Ends(b, C, ms, m, n, r), NEW t, Fit(m, t), TimersOK(t), SameDisk(r.s, t),
         t.accepted_pn = r.s.accepted_pn, t.role = "leader" => SameLead(r.s, t),
         NEW q, q.s = t, q.out = r.out
  PROVE  Ends(b, C, ms, m, n, q)
<1>1. ms \in [Rank -> Monitors] /\ n \in Nets
  BY SoundFacts
<1>. DEFINE z == Moved(ms, m, r.s)
            o == Plus(n, m, r.out)
<1>2. Sound(b, C, z, o) /\ z[m] = r.s /\ r.out \in [Rank -> Seq(Messages)]
  BY EndsFacts
<1>. HIDE DEF z, o
<1>3. Sound(b, C, Moved(z, m, t), o)
  BY <1>2, PlainDone
<1>4. Moved(z, m, t) = Moved(ms, m, t)
  BY <1>1, MovedTwice DEF z
<1>. QED
  BY <1>2, <1>3, <1>4 DEF Ends, o

\* A message is taken.
LEMMA PopJ ==
  ASSUME NEW b, NEW C, NEW ms, NEW n, Sound(b, C, ms, n), NEW m \in Rank, NEW x \in Rank,
         n[x][m] # <<>>
  PROVE  Sound(b, C, ms, Pop(n, {x}, m)) /\ Pop(n, {x}, m) \in Nets
<1>1. n \in Nets
  BY SoundFacts
<1>. DEFINE o == Pop(n, {x}, m)
<1>2. o \in Nets /\ Shorter(o, n)
  BY <1>1, PopHead
<1>. HIDE DEF o
<1>3. Sound(b, C, ms, o)
  BY <1>2, ShorterJ
<1>. QED
  BY <1>2, <1>3 DEF o

\* The message is dropped.
LEMMA DropEnds ==
  ASSUME NEW b, NEW C, NEW ms, NEW n, Sound(b, C, ms, n), NEW m \in Rank, NEW x \in Rank,
         n[x][m] # <<>>
  PROVE  Ends(b, C, ms, m, Pop(n, {x}, m), Done(ms[m]))
<1>. DEFINE o == Pop(n, {x}, m)
<1>1. Sound(b, C, ms, o) /\ o \in Nets /\ ms \in [Rank -> Monitors]
  BY PopJ, SoundFacts
<1>. HIDE DEF o
<1>2. Sound(b, C, Moved(ms, m, ms[m]), o)
  BY <1>1, MovedSame
<1>3. Ends(b, C, ms, m, o, Done(ms[m]))
  BY <1>1, <1>2, DoneEnds
<1>. QED
  BY <1>3 DEF o

\* What is known of a message that is taken
LEMMA HeadA ==
  ASSUME NEW b, NEW C, NEW ms, NEW n, Sound(b, C, ms, n), NEW m \in Rank, NEW x \in Rank,
         n[x][m] # <<>>, NEW msg, msg = Head(n[x][m])
  PROVE  MsgA(ms, x, m, msg) /\ msg \in Messages
<1>1. AskInv(ms, n) /\ n \in Nets
  BY SoundFacts DEF Sound
<1>2. 1 \in 1 .. Len(n[x][m]) /\ msg = n[x][m][1] /\ msg \in Messages
  BY <1>1, HeadIs
<1>. QED
  BY <1>1, <1>2 DEF AskInv

\* What is sent is a message.
LEMMA SentTyped ==
  ASSUME NEW x \in Rank, NEW a, SendTo({x}, a) \in [Rank -> Seq(Messages)]
  PROVE  a \in Messages
<1>. DEFINE c == SendTo({x}, a)[x]
<1>1. c \in Seq(Messages)
  OBVIOUS
<1>2. c = <<a>>
  BY DEF SendTo
<1>. HIDE DEF c
<1>3. Len(c) = 1 /\ c[1] = a
  BY <1>2
<1>4. 1 \in 1 .. Len(c)
  BY <1>3
<1>5. c[1] \in Messages
  BY <1>1, <1>4
<1>. QED
  BY <1>3, <1>5

\* handle_collect
LEMMA HandleCollectEnds ==
  ASSUME NEW b, NEW C, NEW ms, NEW n, Sound(b, C, ms, n), NEW m \in Rank, NEW x \in Rank,
         n[x][m] # <<>>, NEW msg, msg = Head(n[x][m]), NEW s, s = ms[m],
         msg.op = "COLLECT", msg.epoch = s.epoch, s.role = "peon"
  PROVE  Ends(b, C, ms, m, Pop(n, {x}, m), HandleCollect(m, s, x, msg))
<1>. DEFINE t     == [s EXCEPT !.state = "recovering", !.events = @ \cup {"lease"}]
            newer == msg.pn > s.accepted_pn
            u     == [t EXCEPT !.accepted_pn = IF newer THEN msg.pn ELSE @,
                               !.stored_pn   = IF newer THEN msg.pn ELSE @]
            last  == [Msg("LAST", s) EXCEPT !.pn = u.accepted_pn,
                                            !.lc = s.last_committed,
                                            !.fc = s.first_committed]
            next  == s.last_committed + 1
            upn   == IF Exists(s, next) THEN PendingPn(s, s.accepted_pn) ELSE 0
            ans   == IF msg.lc > s.last_committed THEN last
                     ELSE [last EXCEPT !.values = Restricted(s.log, msg.lc + 1 .. next),
                                       !.upn = upn]
            r     == HandleCollect(m, s, x, msg)
            o     == Pop(n, {x}, m)
<1>1. r = IF msg.fc > next THEN Bootstrap(m, t) ELSE Sends(u, {x}, ans)
  BY DEF HandleCollect
<1>2. s \in Monitors /\ Fit(m, s) /\ n \in Nets /\ ms \in [Rank -> Monitors] /\ TimersOK(s)
  BY SoundFacts
<1>3. msg \in Messages
  BY HeadA
<1>4. Sound(b, C, ms, o) /\ o \in Nets
  BY PopJ
<1>5. PICK D : Consistent(D) /\ Good(m, D, s)
  BY <1>2, FitGood
<1>6. Fit(m, r.s) /\ r.out \in [Rank -> Seq(Messages)]
  <2>1. Fine(m, D, s.epoch, r)
    BY <1>3, <1>5, HandleCollectFine
  <2>. HIDE DEF r
  <2>. QED
    BY <2>1, FineFit
<1>7. /\ t \in Monitors /\ t.role = "peon" /\ t.state = "recovering"
      /\ t.events = s.events \cup {"lease"} /\ SameStore(s, t) /\ t.stored_pn = s.stored_pn
      /\ t.accepted_pn = s.accepted_pn /\ t.epoch = s.epoch /\ t.new_value = s.new_value
      /\ t.uncommitted = s.uncommitted
  BY <1>2, ZenonT(60) DEF Monitors, States, Events, SameStore
<1>8. s.events \cap {"collect", "accept", "lease_ack", "lease_renew"} = {}
  BY <1>2 DEF TimersOK
<1>. HIDE DEF t, r, o
<1>9. CASE msg.fc > next
  <2>1. Fit(m, t)
    BY <1>2, <1>7, FitFollower DEF IsWriting
  <2>2. TimersOK(t)
    BY <1>7, <1>8 DEF TimersOK
  <2>3. SameDisk(ms[m], t) /\ t.accepted_pn = ms[m].accepted_pn /\ t.role # "leader"
    <3>1. s.epoch \in Nat
      BY <1>2 DEF Monitors
    <3>. QED
      BY <1>7, <3>1 DEF SameDisk
  <2>. DEFINE w == Moved(ms, m, t)
  <2>4. Sound(b, C, w, o)
    BY <1>4, <2>1, <2>2, <2>3, PlainDone
  <2>5. w[m] = t
    BY <1>2, <1>7, MovedAt
  <2>. HIDE DEF w
  <2>6. Ends(b, C, w, m, o, Bootstrap(m, t))
    BY <2>4, <2>5, BootstrapEnds
  <2>7. Ends(b, C, w, m, o, r)
    BY <1>1, <1>9, <2>6
  <2>8. Ends(b, C, ms, m, o, r)
    BY <1>4, <2>7, FirstEnds DEF w
  <2>. QED
    BY <2>8 DEF r, o
<1>10. CASE ~(msg.fc > next)
  <2>1. r.s = u /\ r.out = SendTo({x}, ans)
    BY <1>1, <1>10 DEF Sends
  <2>2. /\ u.role = "peon" /\ u.events = t.events /\ SameStore(s, u) /\ u.epoch = s.epoch
        /\ u.accepted_pn = (IF newer THEN msg.pn ELSE s.accepted_pn)
        /\ u.stored_pn = (IF newer THEN msg.pn ELSE s.stored_pn)
        /\ u.state = "recovering"
    BY <1>7 DEF Monitors, SameStore
  <2>3. TimersOK(u)
    BY <1>7, <1>8, <2>2 DEF TimersOK
  <2>4. ans \in Messages
    <3>. HIDE DEF ans
    <3>. QED
      BY <1>6, <2>1, SentTyped
  <2>5. Msg("LAST", s).op = "LAST" /\ Msg("LAST", s).epoch = s.epoch
        /\ Msg("LAST", s).upn = 0 /\ Msg("LAST", s) \in Messages
    BY <1>2, MsgTyped DEF Ops
  <2>6. /\ ans.op = "LAST" /\ ans.epoch = s.epoch /\ ans.pn = u.accepted_pn
        /\ ans.lc = s.last_committed /\ ans.fc = s.first_committed
    <3>. HIDE DEF u, upn
    <3>. QED
      BY <2>5 DEF Messages
  <2>7. msg.lc > s.last_committed => DOMAIN ans.values = {} /\ ans.upn = 0
    <3>1. Msg("LAST", s).values = <<>>
      BY DEF Msg
    <3>2. DOMAIN <<>> = {}
      OBVIOUS
    <3>. HIDE DEF u, upn
    <3>. QED
      BY <2>5, <3>1, <3>2 DEF Messages
  <2>8. ~(msg.lc > s.last_committed) =>
          ans.values = Restricted(s.log, msg.lc + 1 .. s.last_committed + 1) /\ ans.upn = upn
    <3>. HIDE DEF u, upn
    <3>. QED
      BY <2>5 DEF Messages
  <2>. HIDE DEF u, ans
  <2>9. AnswersA(ms[m], u, msg, ans)
    BY <2>2, <2>4, <2>6 DEF AnswersA, SameStore
  <2>10. AnswersB(ms[m], u, msg, ans)
    BY <2>2, <2>6, <2>7, <2>8 DEF AnswersB
  <2>11. Fit(m, u)
    BY <1>6, <2>1
  <2>12. Sound(b, C, Moved(ms, m, u), Plus(Pop(n, {x}, m), m, SendTo({x}, ans)))
    BY <2>3, <2>9, <2>10, <2>11, AnswerJ
  <2>13. Ends(b, C, ms, m, o, r)
    BY <1>6, <2>1, <2>12 DEF Ends, o
  <2>. QED
    BY <2>13 DEF r, o
<1>. QED
  BY <1>9, <1>10

\* handle_begin
LEMMA HandleBeginEnds ==
  ASSUME NEW b, NEW C, NEW ms, NEW n, Sound(b, C, ms, n), NEW m \in Rank, NEW x \in Rank,
         n[x][m] # <<>>, NEW msg, msg = Head(n[x][m]), NEW s, s = ms[m],
         msg.op = "BEGIN", msg.epoch = s.epoch, N > 1 => msg.pn % 100 = x,
         Asserted(s, x, msg), Fit(m, HandleBegin(m, s, x, msg).s),
         b => HandleBegin(m, s, x, msg).s.pending_pn >= s.pending_pn
  PROVE  Ends(b, C, ms, m, Pop(n, {x}, m), HandleBegin(m, s, x, msg))
<1>. DEFINE v == s.last_committed + 1
            y == msg.values[v]
            t == [s EXCEPT !.state = "updating", !.lease = FALSE,
                           !.log = Over(One(v, y), @),
                           !.pending_v = v, !.pending_pn = s.accepted_pn]
            acc == [Msg("ACCEPT", s) EXCEPT !.pn = s.accepted_pn, !.lc = s.last_committed]
            r == HandleBegin(m, s, x, msg)
<1>1. r = IF msg.pn < s.accepted_pn THEN Done(s) ELSE Sends(t, {x}, acc)
  BY DEF HandleBegin
<1>2. s \in Monitors /\ Fit(m, s) /\ n \in Nets /\ ms \in [Rank -> Monitors] /\ TimersOK(s)
  BY SoundFacts
<1>3. msg \in Messages /\ x # m
  BY HeadA DEF MsgA
<1>4. CASE msg.pn < s.accepted_pn
  <2>1. Ends(b, C, ms, m, Pop(n, {x}, m), Done(s))
    BY DropEnds
  <2>. QED
    BY <1>1, <1>4, <2>1
<1>5. CASE ~(msg.pn < s.accepted_pn)
  <2>1. msg.pn = s.accepted_pn /\ msg.lc = s.last_committed
    BY <1>5 DEF Asserted
  <2>2. N > 1
    <3>1. N = 1 => Rank = {0}
      BY DEF Rank
    <3>. QED
      BY <1>3, <3>1, NAssumption
  <2>3. s.role # "leader"
    <3>1. s.role = "leader" => s.accepted_pn % 100 = m
      BY <1>2, <2>2, FitFacts
    <3>. QED
      BY <1>3, <2>1, <2>2, <3>1
  <2>4. r.s = t /\ r.out = SendTo({x}, acc)
    <3>. HIDE DEF t, acc, r
    <3>. QED
      BY <1>1, <1>5 DEF Sends
  <2>5. /\ t.role = s.role /\ t.events = s.events /\ t.accepted_pn = s.accepted_pn
        /\ Stores(s, t, s.accepted_pn, y)
    <3>. HIDE DEF y
    <3>. QED
      BY <1>2, SMTT(60) DEF Monitors, Stores
  <2>6. TimersOK(t)
    BY <1>2, <2>3, <2>5 DEF TimersOK
  <2>7. Msg("ACCEPT", s).op = "ACCEPT" /\ Msg("ACCEPT", s).epoch = s.epoch
        /\ Msg("ACCEPT", s) \in Messages
    BY <1>2, MsgTyped DEF Ops
  <2>8. /\ acc \in Messages /\ acc.op = "ACCEPT" /\ acc.epoch = s.epoch
        /\ acc.pn = s.accepted_pn /\ acc.lc = s.last_committed
    <3>1. s.accepted_pn \in Nat /\ s.last_committed \in Nat
      BY <1>2 DEF Monitors
    <3>. QED
      BY <2>7, <3>1 DEF Messages
  <2>8a. t.pending_pn = s.accepted_pn
    BY <1>2 DEF Monitors
  <2>. HIDE DEF t, acc, r
  <2>9. Accepts(ms[m], t, msg, y, acc)
    BY <2>1, <2>3, <2>5, <2>8 DEF Accepts
  <2>. HIDE DEF y
  <2>10. Fit(m, t)
    BY <2>4 DEF r
  <2>11. Sound(b, C, Moved(ms, m, t), Plus(Pop(n, {x}, m), m, SendTo({x}, acc)))
    <3>1. b => ms[m].pending_pn <= ms[m].accepted_pn
      <4>1. s.pending_pn \in Nat /\ s.accepted_pn \in Nat
        BY <1>2 DEF Monitors
      <4>2. b => r.s.pending_pn >= s.pending_pn
        BY DEF r
      <4>. QED
        BY <2>4, <2>8a, <4>1, <4>2
    <3>. QED
      BY <2>6, <2>9, <2>10, <3>1, VoteJ
  <2>12. r.out \in [Rank -> Seq(Messages)]
    <3>1. SendTo({x}, acc) \in [Rank -> Seq(Messages)]
      BY <2>8, SendToAt
    <3>. QED
      BY <2>4, <3>1
  <2>13. Ends(b, C, ms, m, Pop(n, {x}, m), r)
    BY <2>4, <2>11, <2>12 DEF Ends
  <2>. QED
    BY <2>13 DEF r
<1>. QED
  BY <1>4, <1>5

\* handle_accept
LEMMA HandleAcceptEnds ==
  ASSUME NEW b, NEW C, NEW ms, NEW n, Sound(b, C, ms, n), NEW m \in Rank, NEW x \in Rank,
         n[x][m] # <<>>, NEW msg, msg = Head(n[x][m]), NEW s, s = ms[m],
         msg.op = "ACCEPT", msg.epoch = s.epoch, s.role = "leader", Asserted(s, x, msg)
  PROVE  Ends(b, C, ms, m, Pop(n, {x}, m), HandleAccept(m, s, x, msg))
<1>. DEFINE t == [s EXCEPT !.accepted = @ \cup {x}]
            u == IF t.accepted = s.quorum THEN CommitStart(t) ELSE t
            r == HandleAccept(m, s, x, msg)
<1>1. r = IF msg.pn # s.accepted_pn \/ msg.lc < s.last_committed - 1 THEN Done(s) ELSE Done(u)
  BY DEF HandleAccept
<1>2. s \in Monitors /\ Fit(m, s) /\ n \in Nets /\ ms \in [Rank -> Monitors] /\ TimersOK(s)
  BY SoundFacts
<1>3. msg \in Messages
  BY HeadA
<1>4. CASE msg.pn # s.accepted_pn \/ msg.lc < s.last_committed - 1
  <2>1. Ends(b, C, ms, m, Pop(n, {x}, m), Done(s))
    BY DropEnds
  <2>. QED
    BY <1>1, <1>4, <2>1
<1>5. CASE ~(msg.pn # s.accepted_pn \/ msg.lc < s.last_committed - 1)
  <2>1. s.state \in {"updating", "updating-previous"}
    BY <1>5 DEF Asserted
  <2>2. PICK D : Consistent(D) /\ Good(m, D, s)
    BY <1>2, FitGood
  <2>3. Fine(m, D, s.epoch, r)
    BY <1>3, <2>2, HandleAcceptFine
  <2>4. r = Done(u)
    BY <1>1, <1>5
  <2>5. r.s = u
    <3>. HIDE DEF u, r
    <3>. QED
      BY <2>4 DEF Done
  <2>6. Fit(m, u)
    <3>. HIDE DEF r, u
    <3>. QED
      BY <2>3, <2>5, FineFit
  <2>7. /\ t \in Monitors /\ t.accepted = s.accepted \cup {x} /\ t.state = s.state
        /\ SameDisk(s, t) /\ t.epoch = s.epoch /\ t.role = "leader" /\ t.quorum = s.quorum
        /\ t.accepted_pn = s.accepted_pn /\ t.new_value = s.new_value /\ t.events = s.events
    BY <1>2, SMTT(60) DEF Monitors, SameDisk, SameStore
  <2>. HIDE DEF t
  <2>8. /\ u.accepted = s.accepted \cup {x}
        /\ SameStore(t, u) /\ u.epoch = s.epoch /\ u.role = "leader" /\ u.quorum = s.quorum
        /\ u.accepted_pn = s.accepted_pn /\ u.new_value = s.new_value
        /\ u.stored_pn = t.stored_pn
        /\ u.events \subseteq s.events
    BY <2>7 DEF Monitors, SameStore, CommitStart
  <2>9. \/ u.state = s.state
        \/ IsWriting(u) /\ u.accepted = u.quorum /\ "accept" \notin u.events
    BY <2>7, <2>8 DEF CommitStart, IsWriting, Monitors
  <2>. HIDE DEF u
  <2>10. s.events \cap {"collect", "lease_ack", "lease_renew", "lease"} = {}
    BY <1>2, <2>1 DEF TimersOK
  <2>11. TimersOK(u)
    BY <2>1, <2>8, <2>9, <2>10 DEF TimersOK
  <2>12. AcceptsB(ms[m], u, x, msg)
    <3>1. SameDisk(s, u)
      BY <2>7, <2>8 DEF SameDisk, SameStore
    <3>. QED
      BY <2>1, <2>8, <2>9, <3>1 DEF AcceptsB, Updating
  <2>13. Sound(b, C, Moved(ms, m, u), Pop(n, {x}, m))
    BY <2>1, <2>6, <2>11, <2>12, AcceptJ
  <2>14. Ends(b, C, ms, m, Pop(n, {x}, m), Done(u))
    BY <2>13, DoneEnds, PopJ
  <2>. QED
    BY <2>4, <2>14
<1>. QED
  BY <1>4, <1>5

\* handle_commit
LEMMA HandleCommitEnds ==
  ASSUME NEW b, NEW C, NEW ms, NEW n, Sound(b, C, ms, n), NEW m \in Rank, NEW x \in Rank,
         n[x][m] # <<>>, NEW msg, msg = Head(n[x][m]), NEW s, s = ms[m],
         msg.op = "COMMIT", s.role = "peon"
  PROVE  Ends(b, C, ms, m, Pop(n, {x}, m), HandleCommit(m, s, x, msg))
<1>. DEFINE t == StoreState(s, msg)
            r == HandleCommit(m, s, x, msg)
            w == Moved(ms, m, t)
            o == Pop(n, {x}, m)
            k == NeedsBootstrap(News(s, msg), msg.values)
<1>1. r = IF k THEN Bootstrap(m, t) ELSE Done(t)
  BY DEF HandleCommit
<1>2. n \in Nets /\ ms \in [Rank -> Monitors] /\ Fit(m, s) /\ msg \in Messages
  BY SoundFacts, HeadA
<1>3. t \in Monitors
  <2>1. PICK D : Consistent(D) /\ Good(m, D, s)
    BY <1>2, FitGood
  <2>2. Good(m, D, t)
    BY <1>2, <2>1, StoreStateGood
  <2>. QED
    BY <2>2 DEF Good
<1>4. Sound(b, C, w, n)
  <2>1. t = StoreState(ms[m], msg)
    OBVIOUS
  <2>. HIDE DEF t
  <2>. QED
    BY <2>1, StoreJ
<1>. HIDE DEF t, k
<1>5. w[m] = t
  BY <1>2, <1>3, MovedAt
<1>. HIDE DEF w
<1>6. Sound(b, C, w, o) /\ o \in Nets /\ Sound(b, C, ms, o)
  BY <1>4, PopJ
<1>. HIDE DEF o
<1>7. CASE k
  <2>1. Ends(b, C, w, m, o, Bootstrap(m, t))
    BY <1>5, <1>6, BootstrapEnds
  <2>. HIDE DEF r
  <2>2. Ends(b, C, w, m, o, r)
    BY <1>1, <1>7, <2>1
  <2>3. Ends(b, C, ms, m, o, r)
    BY <1>6, <2>2, FirstEnds DEF w
  <2>. QED
    BY <2>3 DEF r, o
<1>8. CASE ~k
  <2>1. Ends(b, C, ms, m, o, Done(t))
    BY <1>6, DoneEnds DEF w
  <2>. QED
    BY <1>1, <1>8, <2>1 DEF o
<1>. QED
  BY <1>7, <1>8

\* handle_lease
LEMMA HandleLeaseEnds ==
  ASSUME NEW b, NEW C, NEW ms, NEW n, Sound(b, C, ms, n), NEW m \in Rank, NEW x \in Rank,
         n[x][m] # <<>>, NEW msg, msg = Head(n[x][m]), NEW s, s = ms[m], msg.op = "LEASE"
  PROVE  Ends(b, C, ms, m, Pop(n, {x}, m), HandleLease(m, s, x, msg))
<1>. DEFINE t == [s EXCEPT !.lease = TRUE, !.state = "active", !.events = @ \cup {"lease"}]
            ack == [Msg("LEASE_ACK", s) EXCEPT !.lc = s.last_committed, !.fc = s.first_committed]
            r == HandleLease(m, s, x, msg)
            o == Pop(n, {x}, m)
            out == SendTo({x}, ack)
<1>1. r = IF s.role # "peon" \/ s.last_committed # msg.lc THEN Done(s) ELSE Sends(t, {x}, ack)
  BY DEF HandleLease
<1>2. s \in Monitors /\ Fit(m, s) /\ n \in Nets /\ ms \in [Rank -> Monitors] /\ TimersOK(s)
  BY SoundFacts
<1>3. msg \in Messages /\ x # m
  BY HeadA DEF MsgA
<1>4. Sound(b, C, ms, o) /\ o \in Nets
  BY PopJ
<1>5. CASE s.role # "peon" \/ s.last_committed # msg.lc
  <2>1. Ends(b, C, ms, m, Pop(n, {x}, m), Done(s))
    BY DropEnds
  <2>. QED
    BY <1>1, <1>5, <2>1
<1>6. CASE ~(s.role # "peon" \/ s.last_committed # msg.lc)
  <2>1. r.s = t /\ r.out = out
    <3>. HIDE DEF t, ack, r
    <3>. QED
      BY <1>1, <1>6 DEF Sends
  <2>2. /\ t \in Monitors /\ t.role = "peon" /\ t.state = "active" /\ SameDisk(s, t)
        /\ t.events = s.events \cup {"lease"} /\ t.accepted_pn = s.accepted_pn
        /\ t.new_value = s.new_value /\ t.uncommitted = s.uncommitted
    <3>1. s.events \cup {"lease"} \in SUBSET Events /\ "active" \in States /\ s.epoch \in Nat
      BY <1>2 DEF Monitors, States, Events
    <3>2. t \in Monitors
      BY <1>2, <3>1, ZenonT(60) DEF Monitors
    <3>3. /\ t.role = s.role /\ t.state = "active" /\ t.events = s.events \cup {"lease"}
          /\ t.epoch = s.epoch /\ t.stored_pn = s.stored_pn /\ t.accepted_pn = s.accepted_pn
          /\ t.new_value = s.new_value /\ t.uncommitted = s.uncommitted
      BY <1>2 DEF Monitors
    <3>4. SameStore(s, t)
      BY <1>2 DEF Monitors, SameStore
    <3>. HIDE DEF t
    <3>. QED
      BY <1>6, <3>1, <3>2, <3>3, <3>4 DEF SameDisk
  <2>3. s.events \cap {"collect", "accept", "lease_ack", "lease_renew"} = {}
    BY <1>2, <1>6 DEF TimersOK
  <2>4. TimersOK(t)
    BY <2>2, <2>3 DEF TimersOK
  <2>5. Fit(m, t)
    <3>. HIDE DEF t
    <3>. QED
      BY <1>2, <2>2, FitFollower DEF SameDisk, IsWriting
  <2>6. Msg("LEASE_ACK", s).op = "LEASE_ACK" /\ Msg("LEASE_ACK", s) \in Messages
    BY <1>2, MsgTyped DEF Ops
  <2>7. ack \in Messages /\ ack.op = "LEASE_ACK"
    <3>1. s.first_committed \in Nat /\ s.last_committed \in Nat
      BY <1>2 DEF Monitors
    <3>. QED
      BY <2>6, <3>1 DEF Messages
  <2>. HIDE DEF t, ack, r, o
  <2>8. PlainSent(m, s, out) /\ out \in [Rank -> Seq(Messages)]
    <3>1. m \notin {x}
      BY <1>3
    <3>. QED
      BY <2>7, <3>1, SendPlain
  <2>. HIDE DEF out
  <2>9. Plain(m, ms[m], t, out)
    BY <2>2, <2>8 DEF Plain
  <2>10. Sound(b, C, Moved(ms, m, t), Plus(o, m, out))
    BY <1>4, <2>4, <2>5, <2>8, <2>9, PlainJ
  <2>11. Ends(b, C, ms, m, o, r)
    BY <2>1, <2>8, <2>10, MakeEnds
  <2>. QED
    BY <2>11 DEF r, o
<1>. QED
  BY <1>5, <1>6

\* handle_lease_ack
LEMMA HandleLeaseAckEnds ==
  ASSUME NEW b, NEW C, NEW ms, NEW n, Sound(b, C, ms, n), NEW m \in Rank, NEW x \in Rank,
         n[x][m] # <<>>, NEW msg, NEW s, s = ms[m]
  PROVE  Ends(b, C, ms, m, Pop(n, {x}, m), HandleLeaseAck(m, s, x, msg))
<1>. DEFINE t == [s EXCEPT !.acked_lease = @ \cup {x}]
            u == IF t.acked_lease = s.quorum THEN [t EXCEPT !.events = @ \ {"lease_ack"}] ELSE t
            r == HandleLeaseAck(m, s, x, msg)
            o == Pop(n, {x}, m)
<1>1. r = IF "lease_ack" \notin s.events THEN Done(s) ELSE Done(u)
  BY DEF HandleLeaseAck
<1>2. s \in Monitors /\ Fit(m, s) /\ n \in Nets /\ ms \in [Rank -> Monitors] /\ TimersOK(s)
  BY SoundFacts
<1>4. Sound(b, C, ms, o) /\ o \in Nets
  BY PopJ
<1>5. CASE "lease_ack" \notin s.events
  <2>1. Ends(b, C, ms, m, Pop(n, {x}, m), Done(s))
    BY DropEnds
  <2>. QED
    BY <1>1, <1>5, <2>1
<1>6. CASE "lease_ack" \in s.events
  <2>1. /\ t \in Monitors /\ t.events = s.events /\ SameLead(s, t) /\ SameStore(s, t)
        /\ t.stored_pn = s.stored_pn
    BY <1>2, ZenonT(60) DEF Monitors, SameLead, SameTask, SameStore
  <2>2. s.role = "leader"
    BY <1>2, <1>6 DEF TimersOK
  <2>. HIDE DEF t
  <2>3. /\ u \in Monitors /\ u.events \subseteq s.events /\ SameLead(t, u) /\ SameStore(t, u)
        /\ u.stored_pn = t.stored_pn
    BY <2>1 DEF Monitors, SameLead, SameTask, SameStore
  <2>. HIDE DEF u
  <2>4. SameLead(s, u) /\ SameStore(s, u) /\ u.stored_pn = s.stored_pn
    BY <2>1, <2>3 DEF SameLead, SameTask, SameStore
  <2>5. TimersOK(u)
    BY <1>2, <2>2, <2>3, <2>4 DEF TimersOK, SameLead, SameTask
  <2>6. s.epoch \in Nat /\ s.num_last \in Nat
    BY <1>2 DEF Monitors
  <2>7. Fit(m, u)
    <3>1. SameRound(s, u)
      BY <2>4, <2>6 DEF SameRound, SameLead, SameTask
    <3>. QED
      BY <1>2, <2>3, <2>4, <3>1, FitKept
  <2>8. SameDisk(ms[m], u) /\ u.accepted_pn = ms[m].accepted_pn /\ SameLead(ms[m], u)
    BY <2>4, <2>6 DEF SameDisk, SameLead, SameTask
  <2>. HIDE DEF o
  <2>9. Sound(b, C, Moved(ms, m, u), o)
    BY <1>4, <2>5, <2>7, <2>8, PlainDone
  <2>10. Ends(b, C, ms, m, o, Done(u))
    BY <1>4, <2>9, DoneEnds
  <2>. QED
    BY <1>1, <1>6, <2>10 DEF o
<1>. QED
  BY <1>5, <1>6

\* Monitor::lose_election
LEMMA HandleVictoryEnds ==
  ASSUME NEW b, NEW C, NEW ms, NEW n, Sound(b, C, ms, n), NEW m \in Rank, NEW x \in Rank,
         n[x][m] # <<>>, NEW msg, msg = Head(n[x][m]), NEW s, s = ms[m],
         msg.epoch >= s.epoch
  PROVE  Ends(b, C, ms, m, Pop(n, {x}, m), HandleVictory(m, s, x, msg))
<1>. DEFINE j == JoinElection(m, s, msg.epoch)
            t == PeonInit([j.s EXCEPT !.role = "peon", !.leader = x, !.quorum = msg.quorum])
            u == [j.s EXCEPT !.epoch = msg.epoch + 1]
            r == HandleVictory(m, s, x, msg)
            o == Pop(n, {x}, m)
<1>1. r = IF msg.epoch = s.epoch + 1 THEN [j EXCEPT !.s = t] ELSE [j EXCEPT !.s.epoch = msg.epoch + 1]
  BY DEF HandleVictory
<1>2. s \in Monitors /\ n \in Nets /\ ms \in [Rank -> Monitors]
  BY SoundFacts
<1>3. msg \in Messages
  BY HeadA
<1>4. msg.epoch \in Nat /\ msg.quorum \subseteq Rank
  BY <1>3 DEF Messages
<1>5. Sound(b, C, ms, o) /\ o \in Nets
  BY PopJ
<1>. HIDE DEF o
<1>6. Ends(b, C, ms, m, o, j) /\ j.s.role = "out" /\ j.s.epoch = msg.epoch /\ IsCall(j)
  BY <1>4, <1>5, JoinElectionEnds
<1>. HIDE DEF j
<1>7. j.s \in Monitors /\ Fit(m, j.s) /\ TimersOK(j.s)
  BY <1>5, <1>6, EndsFacts
<1>8. PICK D : Consistent(D) /\ Good(m, D, j.s)
  BY <1>7, FitGood
<1>9. ~IsWriting(j.s)
  BY <1>6, <1>7, FitFacts DEF MemoryOK
<1>10. CASE msg.epoch = s.epoch + 1
  <2>. DEFINE p == [j.s EXCEPT !.role = "peon", !.leader = x, !.quorum = msg.quorum]
  <2>1. /\ p \in Monitors /\ p.role = "peon" /\ SameStore(j.s, p) /\ p.stored_pn = j.s.stored_pn
        /\ p.accepted_pn = j.s.accepted_pn /\ p.epoch = j.s.epoch /\ p.state = j.s.state
        /\ p.new_value = j.s.new_value /\ p.uncommitted = j.s.uncommitted
    BY <1>4, <1>7, ZenonT(60) DEF Monitors, Roles, SameStore
  <2>. HIDE DEF p
  <2>2. Good(m, D, p)
    BY <1>8, <1>9, <2>1, GoodFollower DEF IsWriting
  <2>3. Good(m, D, t)
    BY <2>1, <2>2, PeonInitGood DEF p
  <2>4. Fit(m, t)
    BY <1>8, <2>3 DEF Fit
  <2>5. /\ t.role = "peon" /\ t.events = {"lease"} /\ SameStore(p, t)
        /\ t.stored_pn = p.stored_pn /\ t.accepted_pn = p.accepted_pn /\ t.epoch = p.epoch
    <3>1. t = PeonInit(p)
      BY DEF p
    <3>. HIDE DEF t
    <3>. QED
      BY <2>1, <3>1 DEF PeonInit, SameStore, Monitors
  <2>. HIDE DEF t
  <2>6. TimersOK(t)
    BY <2>5 DEF TimersOK
  <2>7. SameDisk(j.s, t) /\ t.accepted_pn = j.s.accepted_pn /\ t.role # "leader"
    BY <1>4, <1>6, <2>1, <2>5 DEF SameDisk, SameStore
  <2>8. r.s = t /\ r.out = j.out
    <3>1. r = [j EXCEPT !.s = t]
      BY <1>1, <1>10
    <3>. HIDE DEF r
    <3>. QED
      BY <1>6, <3>1, CallMade
  <2>. HIDE DEF r
  <2>9. Ends(b, C, ms, m, o, r)
    BY <1>5, <1>6, <2>4, <2>6, <2>7, <2>8, QuietlyEnds
  <2>. QED
    BY <2>9 DEF r, o
<1>11. CASE msg.epoch # s.epoch + 1
  <2>1. /\ u \in Monitors /\ u.role = "out" /\ SameStore(j.s, u) /\ u.stored_pn = j.s.stored_pn
        /\ u.accepted_pn = j.s.accepted_pn /\ u.epoch = msg.epoch + 1 /\ u.state = j.s.state
        /\ u.new_value = j.s.new_value /\ u.uncommitted = j.s.uncommitted
        /\ u.events = j.s.events /\ SameRound(j.s, u)
    <3>. DEFINE g == j.s
                e == msg.epoch + 1
    <3>3. g \in Monitors /\ e \in Nat
      BY <1>4, <1>7
    <3>4. u = [g EXCEPT !.epoch = e]
      OBVIOUS
    <3>1. u \in Monitors /\ SameStore(g, u) /\ g.num_last \in Nat
      <4>. HIDE DEF g, e, u
      <4>. QED
        BY <3>3, <3>4 DEF Monitors, SameStore
    <3>2. /\ u.role = "out" /\ u.stored_pn = j.s.stored_pn /\ u.num_last = j.s.num_last
          /\ u.accepted_pn = j.s.accepted_pn /\ u.epoch = msg.epoch + 1 /\ u.state = j.s.state
          /\ u.new_value = j.s.new_value /\ u.uncommitted = j.s.uncommitted
          /\ u.events = j.s.events /\ u.quorum = j.s.quorum
      BY <1>6, <1>7 DEF Monitors
    <3>. HIDE DEF u
    <3>. QED
      BY <1>6, <3>1, <3>2 DEF SameRound
  <2>2. r.s = u /\ r.out = j.out
    <3>1. j = [s |-> j.s, out |-> j.out]
      BY <1>6 DEF IsCall
    <3>2. [j EXCEPT !.s.epoch = msg.epoch + 1] = [j EXCEPT !.s = u]
      OBVIOUS
    <3>3. r = [j EXCEPT !.s = u]
      BY <1>1, <1>11, <3>2
    <3>. HIDE DEF r, u
    <3>. QED
      BY <1>6, <3>3, CallMade
  <2>. HIDE DEF u
  <2>3. Fit(m, u)
    BY <1>7, <2>1, FitKept
  <2>4. TimersOK(u)
    BY <1>6, <1>7, <2>1 DEF TimersOK
  <2>5. SameDisk(j.s, u) /\ u.accepted_pn = j.s.accepted_pn /\ u.role # "leader"
    BY <1>4, <1>6, <2>1 DEF SameDisk
  <2>. HIDE DEF r
  <2>6. Ends(b, C, ms, m, o, r)
    BY <1>5, <1>6, <2>2, <2>3, <2>4, <2>5, QuietlyEnds
  <2>. QED
    BY <2>6 DEF r, o
<1>. QED
  BY <1>10, <1>11

\* A LAST is heard by a leader that recovers, from another monitor of its quorum.
LEMMA LastComes ==
  ASSUME NEW ms, NEW n, AskInv(ms, n), NEW m \in Rank, NEW x \in Rank,
         n[x][m] # <<>>, NEW msg, msg = Head(n[x][m]), ms[m].role = "leader",
         msg.op = "LAST", msg.epoch = ms[m].epoch
  PROVE  ms[m].state = "recovering" /\ x # m /\ N > 1 /\ msg \in Messages
<1>1. n \in Nets
  BY DEF AskInv
<1>2. 1 \in 1 .. Len(n[x][m]) /\ msg = n[x][m][1] /\ msg \in Messages
  BY <1>1, HeadIs
<1>3. Answers(n[x][m], ms[m].epoch)
  BY <1>2 DEF Answers, Is
<1>4. ms[m].state = "recovering" /\ x # m
  BY <1>3, LastHeardA
<1>5. N = 1 => Rank = {0}
  BY DEF Rank
<1>. QED
  BY <1>2, <1>4, <1>5, NAssumption

\* Once the versions of an answer are stored, the leader is not behind who gave it.
LEMMA LastLearnt ==
  ASSUME NEW b, NEW C, NEW ms, NEW n, Sound(b, C, ms, n), NEW m \in Rank, NEW x \in Rank,
         n[x][m] # <<>>, NEW msg, msg = Head(n[x][m]), NEW s, s = ms[m], s.role = "leader",
         msg.op = "LAST", msg.epoch = s.epoch, msg.pn = s.accepted_pn,
         msg.fc <= s.last_committed + 1, NEW t, t = StoreState(s, msg), b
  PROVE  msg.lc <= t.last_committed
<1>1. AskInv(ms, n) /\ n \in Nets /\ Fit(m, s) /\ s \in Monitors
  BY SoundFacts DEF Sound
<1>2. 1 \in 1 .. Len(n[x][m]) /\ msg = n[x][m][1] /\ msg \in Messages
  BY <1>1, HeadIs
<1>3. x # m /\ N > 1
  <2>1. ms[m].role = "leader" /\ msg.epoch = ms[m].epoch
    OBVIOUS
  <2>. QED
    BY <1>1, <2>1, LastComes
<1>4. PICK H, K : Core(H, K, ms, n)
  BY DEF Sound
<1>5. PairB(H, n, m, x, ms[x], ms[m])
  BY <1>3, <1>4 DEF Core, LeadB
<1>6. LastB(H, s, x, ms[x], msg)
  BY <1>2, <1>5 DEF PairB, Is
<1>7. MsgB(H, K, ms, x, m, msg)
  BY <1>2, <1>4 DEF Core
<1>8. Carries(K, msg, msg.lc + 1)
  BY <1>7 DEF MsgB
<1>. DEFINE top == msg.lc + 1
<1>. HIDE DEF top
<1>9. Carries(K, msg, top)
  BY <1>8 DEF top
<1>. QED
  BY <1>1, <1>2, <1>6, <1>9, LastLearned

\* The leader notes how far x is.
LEMMA HeardJ ==
  ASSUME NEW b, NEW C, NEW ms, NEW n, Sound(b, C, ms, n), NEW m \in Rank, NEW x \in Rank,
         NEW s, s = ms[m], NEW k \in Nat, NEW t, t = [s EXCEPT !.peer_lc = Over(One(x, k), @)]
  PROVE  /\ Sound(b, C, Moved(ms, m, t), n) /\ Moved(ms, m, t)[m] = t /\ Fit(m, t)
         /\ t.epoch = s.epoch /\ t.role = s.role /\ t.last_committed = s.last_committed
         /\ t.accepted_pn = s.accepted_pn /\ t.state = s.state /\ t.quorum = s.quorum
<1>1. s \in Monitors /\ Fit(m, s) /\ n \in Nets /\ ms \in [Rank -> Monitors] /\ TimersOK(s)
  BY SoundFacts
<1>2. Over(One(x, k), s.peer_lc) \in PeerMaps
  <2>1. s.peer_lc \in PeerMaps
    BY <1>1 DEF Monitors
  <2>2. DOMAIN s.peer_lc \subseteq Rank /\ s.peer_lc \in [DOMAIN s.peer_lc -> Nat]
    BY <2>1, PeerMapsDef
  <2>. DEFINE f == Over(One(x, k), s.peer_lc)
  <2>3. DOMAIN f = {x} \cup DOMAIN s.peer_lc
    BY DEF Over, One
  <2>4. f \in [DOMAIN f -> Nat]
    BY <2>2 DEF Over, One
  <2>. HIDE DEF f
  <2>5. DOMAIN f \subseteq Rank
    BY <2>2, <2>3
  <2>6. f \in PeerMaps
    BY <2>4, <2>5, PeerMapsDef
  <2>. QED
    BY <2>6 DEF f
<1>. DEFINE f == Over(One(x, k), s.peer_lc)
<1>3. t = [s EXCEPT !.peer_lc = f]
  OBVIOUS
<1>. HIDE DEF f
<1>4. t \in Monitors /\ s.epoch \in Nat /\ s.num_last \in Nat
  BY <1>1, <1>2, <1>3 DEF Monitors, f
<1>5. SameStore(s, t) /\ SameLead(s, t) /\ t.stored_pn = s.stored_pn /\ t.events = s.events
  BY <1>1, <1>3 DEF Monitors, SameStore, SameLead, SameTask
<1>6. SameRound(s, t)
  BY <1>4, <1>5 DEF SameLead, SameTask, SameRound
<1>7. Fit(m, t)
  BY <1>1, <1>4, <1>5, <1>6, FitKept
<1>8. TimersOK(t)
  BY <1>1, <1>5 DEF TimersOK, SameLead, SameTask
<1>9. SameDisk(ms[m], t) /\ t.accepted_pn = ms[m].accepted_pn /\ SameLead(ms[m], t)
  BY <1>4, <1>5 DEF SameDisk, SameLead, SameTask
<1>10. Sound(b, C, Moved(ms, m, t), n)
  BY <1>7, <1>8, <1>9, PlainDone
<1>. QED
  BY <1>1, <1>4, <1>5, <1>7, <1>10, MovedAt DEF SameLead, SameTask

\* t is leader g once it has counted answer msg.
Counted(g, msg, t) == t = LearnUncommitted([g EXCEPT !.num_last = @ + 1], msg)

\* A value that was accepted comes with its version.
Brings(msg) == msg.upn > 0 => msg.lc + 1 \in DOMAIN msg.values

\* The leader is not behind the one that answered.
Caught(b, g, msg) == b => msg.lc <= g.last_committed

\* The answer counts.
LEMMA LastCounts ==
  ASSUME NEW b, NEW C, NEW ms, NEW n, Sound(b, C, ms, n), NEW m \in Rank, NEW x \in Rank,
         n[x][m] # <<>>, NEW msg, msg = Head(n[x][m]), NEW g, g = ms[m], g.role = "leader",
         msg.op = "LAST", msg.epoch = g.epoch, msg.pn = g.accepted_pn,
         Brings(msg), Caught(b, g, msg),
         NEW t, Counted(g, msg, t)
  PROVE  /\ Sound(b, C, Moved(ms, m, t), Plus(Pop(n, {x}, m), m, ShareCommits(g).out))
         /\ t \in Monitors /\ t.role = "leader" /\ t.state = "recovering"
         /\ t.num_last = g.num_last + 1 /\ t.quorum = g.quorum
<1>. DEFINE u == [g EXCEPT !.num_last = @ + 1]
            c == ShareCommits(g)
            o == Plus(n, m, c.out)
<1>1. /\ g \in Monitors /\ Fit(m, g) /\ n \in Nets /\ ms \in [Rank -> Monitors]
      /\ TimersOK(g) /\ msg \in Messages
  BY SoundFacts, HeadA
<1>2. g.state = "recovering" /\ x # m /\ N > 1
  <2>1. ms[m].role = "leader" /\ msg.epoch = ms[m].epoch /\ AskInv(ms, n)
    BY DEF Sound
  <2>. QED
    BY <2>1, LastComes
<1>3. Ends(b, C, ms, m, n, c) /\ c.s = g
  BY ShareCommitsEnds
<1>. HIDE DEF c
<1>4. Sound(b, C, ms, o) /\ c.out \in [Rank -> Seq(Messages)]
  <2>1. Sound(b, C, Moved(ms, m, c.s), o) /\ c.out \in [Rank -> Seq(Messages)]
    BY <1>3, EndsFacts
  <2>2. Moved(ms, m, c.s) = ms
    BY <1>1, <1>3, MovedSame
  <2>. QED
    BY <2>1, <2>2
<1>5. o[x][m] = n[x][m]
  BY <1>1, <1>2, <1>4, PlusOther
<1>6. /\ u \in Monitors /\ SameStore(g, u) /\ u.stored_pn = g.stored_pn
      /\ u.accepted_pn = g.accepted_pn /\ u.epoch = g.epoch /\ u.role = g.role
      /\ u.quorum = g.quorum /\ u.state = g.state /\ u.num_last = g.num_last + 1
      /\ u.events = g.events /\ u.uncommitted = g.uncommitted /\ u.new_value = g.new_value
      /\ g.num_last \in Nat
  <2>1. g.num_last \in Nat /\ g.num_last + 1 \in Nat
    BY <1>1 DEF Monitors
  <2>. DEFINE k == g.num_last + 1
  <2>2. u = [g EXCEPT !.num_last = k] /\ k \in Nat
    BY <2>1
  <2>. HIDE DEF k, u
  <2>3. /\ u \in Monitors /\ u.num_last = k /\ SameStore(g, u)
    BY <1>1, <2>2, ZenonT(60) DEF Monitors, SameStore
  <2>4. /\ u.stored_pn = g.stored_pn
        /\ u.accepted_pn = g.accepted_pn /\ u.epoch = g.epoch /\ u.role = g.role
        /\ u.quorum = g.quorum /\ u.state = g.state
        /\ u.events = g.events /\ u.uncommitted = g.uncommitted /\ u.new_value = g.new_value
    BY <1>1, <2>2 DEF Monitors
  <2>. QED
    BY <2>1, <2>3, <2>4 DEF k
<1>. HIDE DEF u
<1>7. Fit(m, t)
  <2>1. PICK D : Consistent(D) /\ Good(m, D, g)
    BY <1>1, FitGood
  <2>2. SameRound(g, u)
    BY <1>6 DEF SameRound
  <2>3. Good(m, D, u)
    BY <1>6, <2>1, <2>2, GoodKept
  <2>4. MsgOK(x, m, D, msg)
    BY DEF MsgOK, Brings
  <2>5. Good(m, D, LearnUncommitted(u, msg))
    BY <1>1, <2>3, <2>4, LearnUncommittedGood
  <2>. QED
    BY <2>1, <2>5 DEF Fit, Counted, u
<1>8. t \in Monitors
  BY <1>7, FitFacts
<1>9. Hears(g, msg) <=> /\ msg.upn > 0 /\ msg.upn >= u.uncommitted.pn
                        /\ msg.lc >= u.last_committed /\ msg.lc + 1 >= u.uncommitted.v
  BY <1>6 DEF Hears, SameStore
<1>. DEFINE e == [v |-> msg.lc + 1, pn |-> msg.upn, value |-> msg.values[msg.lc + 1]]
<1>10. t = IF Hears(g, msg) THEN [u EXCEPT !.uncommitted = e] ELSE u
  BY <1>9 DEF LearnUncommitted, Counted, u
<1>. HIDE DEF e
<1>11. /\ SameStore(g, t) /\ t.stored_pn = g.stored_pn
       /\ t.accepted_pn = g.accepted_pn /\ t.epoch = g.epoch /\ t.role = g.role
       /\ t.quorum = g.quorum /\ t.state = g.state /\ t.num_last = g.num_last + 1
       /\ t.events = g.events
       /\ t.uncommitted = IF Hears(g, msg) THEN e ELSE g.uncommitted
  <2>1. CASE Hears(g, msg)
    <3>1. t = [u EXCEPT !.uncommitted = e]
      BY <1>10, <2>1
    <3>. QED
      BY <1>6, <2>1, <3>1 DEF Monitors, SameStore
  <2>2. CASE ~Hears(g, msg)
    <3>1. t = u
      BY <1>10, <2>2
    <3>. QED
      BY <1>6, <2>2, <3>1
  <2>. QED
    BY <2>1, <2>2
<1>12. TimersOK(t)
  BY <1>1, <1>11 DEF TimersOK
<1>13. CountsA(ms[m], t, msg)
  BY <1>11 DEF CountsA, SameStore
<1>14. b => CountsB(ms[m], t, msg)
  BY <1>11 DEF CountsB, Caught, e
<1>15. Sound(b, C, Moved(ms, m, t), Pop(o, {x}, m))
  <2>1. o[x][m] # <<>> /\ msg = Head(o[x][m])
    BY <1>5
  <2>. HIDE DEF o
  <2>. QED
    BY <1>4, <1>7, <1>12, <1>13, <1>14, <2>1, CountJ
<1>16. Pop(o, {x}, m) = Plus(Pop(n, {x}, m), m, c.out)
  BY <1>1, <1>2, <1>4, PopPlus
<1>. QED
  BY <1>2, <1>8, <1>11, <1>15, <1>16 DEF c

\* t is s once x has said how far it is.
HeardOf(s, x, k, t) == t = [s EXCEPT !.peer_lc = Over(One(x, k), @)]

\* What an answer brings is stored.
LEMMA LastStored ==
  ASSUME NEW b, NEW C, NEW ms, NEW n, Sound(b, C, ms, n), NEW m \in Rank, NEW x \in Rank,
         n[x][m] # <<>>, NEW msg, msg = Head(n[x][m]), NEW s, s = ms[m], s.role = "leader",
         msg.op = "LAST", msg.epoch = s.epoch, msg.fc <= s.last_committed + 1,
         NEW h, HeardOf(s, x, msg.lc, h), NEW g, g = StoreState(h, msg)
  PROVE  /\ Sound(b, C, Moved(ms, m, g), n) /\ Moved(ms, m, g)[m] = g
         /\ g.role = "leader" /\ g.state = "recovering" /\ g.epoch = s.epoch
         /\ g.quorum = s.quorum /\ g.accepted_pn = s.accepted_pn
         /\ b /\ msg.pn = s.accepted_pn => msg.lc <= g.last_committed
<1>1. s \in Monitors /\ n \in Nets /\ ms \in [Rank -> Monitors] /\ AskInv(ms, n)
  BY SoundFacts DEF Sound
<1>2. s.state = "recovering" /\ x # m /\ N > 1 /\ msg \in Messages
  <2>1. ms[m].role = "leader" /\ msg.epoch = ms[m].epoch
    OBVIOUS
  <2>. QED
    BY <1>1, <2>1, LastComes
<1>. DEFINE w == Moved(ms, m, h)
<1>3. /\ Sound(b, C, w, n) /\ w[m] = h /\ Fit(m, h)
      /\ h.epoch = s.epoch /\ h.role = s.role /\ h.last_committed = s.last_committed
      /\ h.accepted_pn = s.accepted_pn /\ h.state = s.state /\ h.quorum = s.quorum
  <2>1. msg.lc \in Nat
    BY <1>2 DEF Messages
  <2>. DEFINE k == msg.lc
  <2>2. h = [s EXCEPT !.peer_lc = Over(One(x, k), @)] /\ k \in Nat
    BY <2>1 DEF HeardOf
  <2>. HIDE DEF k
  <2>. QED
    BY <2>2, HeardJ
<1>4. Moved(w, m, g) = Moved(ms, m, g)
  BY <1>1, MovedTwice
<1>. HIDE DEF w
<1>5. Sound(b, C, Moved(w, m, g), n)
  <2>1. w[m].role = "leader" => N > 1 /\ w[m].state = "recovering"
    BY <1>2, <1>3
  <2>2. g = StoreState(w[m], msg) /\ msg.op \in {"COMMIT", "LAST"}
    BY <1>3
  <2>. QED
    BY <1>3, <2>1, <2>2, StoreJ
<1>6. SameTerm(h, g) /\ g \in Monitors
  <2>1. PICK D : Consistent(D) /\ Good(m, D, h)
    BY <1>3, FitGood
  <2>2. Good(m, D, g) /\ SameTerm(h, g)
    BY <1>2, <2>1, StoreStateGood
  <2>. QED
    BY <2>2 DEF Good
<1>7. ASSUME b, msg.pn = s.accepted_pn PROVE msg.lc <= g.last_committed
  <2>1. /\ h.role = "leader" /\ msg.epoch = h.epoch /\ msg.pn = h.accepted_pn
        /\ msg.fc <= h.last_committed + 1 /\ h = w[m]
    BY <1>3, <1>7
  <2>. QED
    BY <1>3, <1>7, <2>1, LastLearnt, ZenonT(60)
<1>8. Moved(ms, m, g)[m] = g
  BY <1>1, <1>6, MovedAt
<1>9. Sound(b, C, Moved(ms, m, g), n)
  BY <1>4, <1>5
<1>10. /\ g.role = "leader" /\ g.state = "recovering" /\ g.epoch = s.epoch
       /\ g.quorum = s.quorum /\ g.accepted_pn = s.accepted_pn
  BY <1>2, <1>3, <1>6 DEF SameTerm
<1>. QED
  BY <1>7, <1>8, <1>9, <1>10

\* The leader asks again.
LEMMA AskAgainEnds ==
  ASSUME NEW b, NEW C, NEW ms, NEW n, Sound(b, C, ms, n), NEW m \in Rank, NEW g, g = ms[m], N > 1,
         g.role = "leader", g.state = "recovering", NEW pn \in Nat
  PROVE  Ends(b, C, ms, m, n, Collect(m, [g EXCEPT !.events = @ \ {"collect"}], pn))
<1>. DEFINE u == [g EXCEPT !.events = @ \ {"collect"}]
<1>1. /\ g \in Monitors /\ Fit(m, g) /\ TimersOK(g) /\ LeadA(ms, n, m)
  BY SoundFacts
<1>2. u \in Monitors /\ SameStore(g, u) /\ u.stored_pn = g.stored_pn
  BY <1>1 DEF Monitors, SameStore
<1>3. /\ u.accepted_pn = g.accepted_pn /\ u.role = g.role /\ u.quorum = g.quorum
      /\ u.events = g.events \ {"collect"} /\ u.epoch = g.epoch /\ u.uncommitted = g.uncommitted
      /\ u.state = g.state /\ u.new_value = g.new_value
  BY <1>1 DEF Monitors
<1>4. MemoryOK(u)
  <2>1. MemoryOK(g)
    BY <1>1, FitFacts
  <2>. HIDE DEF u
  <2>. QED
    BY <1>2, <1>3, <2>1 DEF MemoryOK, SameStore, IsWriting
<1>5. m \in g.quorum /\ g.quorum # {m}
  BY <1>1, FitFacts DEF LeadA
<1>6. g.events \ {"collect"} = {}
  BY <1>1, RecoveringTimers
<1>. HIDE DEF u
<1>7. Starts(m, ms[m], u)
  BY <1>2, <1>3, <1>4, <1>5, <1>6 DEF Starts
<1>8. b => Majority(u.quorum)
  <2>1. ASSUME NEW H, NEW K, Core(H, K, ms, n) PROVE Majority(g.quorum)
    <3>1. LeadB(H, K, ms, n, m)
      BY <2>1 DEF Core
    <3>. QED
      BY <3>1 DEF LeadB
  <2>. QED
    BY <1>3, <2>1 DEF Sound
<1>9. Ends(b, C, ms, m, n, Collect(m, u, pn))
  BY <1>3, <1>5, <1>7, <1>8, CollectEnds
<1>. QED
  BY <1>9 DEF u

\* What two calls send
LEMMA ThenJoined ==
  ASSUME NEW a, NEW r, a.out \in [Rank -> Seq(Messages)], r.out \in [Rank -> Seq(Messages)],
         NEW c, c = Then(a, r)
  PROVE  c.out \in [Rank -> Seq(Messages)] /\ c.s = r.s /\ Joined(c.out, a.out, r.out)
<1>. DEFINE u == a.out
            v == r.out
            f == [d \in Rank |-> u[d] \o v[d]]
<1>1. c.s = r.s /\ c.out = f
  BY DEF Then
<1>. HIDE DEF u, v
<1>2. u \in [Rank -> Seq(Messages)] /\ v \in [Rank -> Seq(Messages)]
  BY DEF u, v
<1>3. ASSUME NEW d \in Rank PROVE u[d] \o v[d] \in Seq(Messages)
  <2>1. u[d] \in Seq(Messages) /\ v[d] \in Seq(Messages)
    BY <1>2
  <2>. QED
    BY <2>1, Appended
<1>4. f \in [Rank -> Seq(Messages)]
  BY <1>3
<1>5. \A d \in Rank : f[d] = u[d] \o v[d]
  OBVIOUS
<1>6. Joined(f, u, v)
  BY <1>2, <1>5 DEF Joined
<1>. HIDE DEF f
<1>. QED
  BY <1>1, <1>4, <1>6 DEF u, v

\* What three calls send
LEMMA JoinedThree ==
  ASSUME NEW u, NEW v, NEW w, NEW f, NEW e, NEW x, NEW y, Joined(f, u, v), Joined(e, v, w),
         Joined(x, f, w), Joined(y, u, e), NEW d \in Rank
  PROVE  x[d] = y[d]
<1>1. u[d] \in Seq(Messages) /\ v[d] \in Seq(Messages) /\ w[d] \in Seq(Messages)
  BY DEF Joined
<1>2. u[d] \o (v[d] \o w[d]) = (u[d] \o v[d]) \o w[d]
  BY <1>1, ConcatThree
<1>3. f[d] = u[d] \o v[d] /\ e[d] = v[d] \o w[d]
  BY DEF Joined
<1>4. x[d] = f[d] \o w[d] /\ y[d] = u[d] \o e[d]
  BY DEF Joined
<1>. QED
  BY <1>2, <1>3, <1>4

\* It makes no difference where three calls are parted.
LEMMA ThreeCalls ==
  ASSUME NEW a, NEW r, NEW q, a.out \in [Rank -> Seq(Messages)],
         r.out \in [Rank -> Seq(Messages)], q.out \in [Rank -> Seq(Messages)],
         NEW f, f = Then(a, r), NEW e, e = Then(r, q)
  PROVE  Then(f, q).s = Then(a, e).s /\ Then(f, q).out = Then(a, e).out
<1>. DEFINE x == Then(f, q)
            y == Then(a, e)
<1>1. f.out \in [Rank -> Seq(Messages)] /\ Joined(f.out, a.out, r.out)
  BY ThenJoined
<1>2. e.out \in [Rank -> Seq(Messages)] /\ e.s = q.s /\ Joined(e.out, r.out, q.out)
  BY ThenJoined
<1>3. x.out \in [Rank -> Seq(Messages)] /\ x.s = q.s /\ Joined(x.out, f.out, q.out)
  BY <1>1, ThenJoined
<1>4. y.out \in [Rank -> Seq(Messages)] /\ y.s = e.s /\ Joined(y.out, a.out, e.out)
  BY <1>2, ThenJoined, ZenonT(60)
<1>. HIDE DEF x, y
<1>5. ASSUME NEW d \in Rank PROVE x.out[d] = y.out[d]
  BY <1>1, <1>2, <1>3, <1>4, JoinedThree
<1>6. x.out = y.out
  BY <1>3, <1>4, <1>5
<1>. QED
  BY <1>2, <1>3, <1>4, <1>6 DEF x, y

\* Three calls, one after the other
LEMMA ThreeEnds ==
  ASSUME NEW b, NEW C, NEW ms, NEW n, NEW m, NEW a, NEW r, NEW q,
         a.out \in [Rank -> Seq(Messages)], r.out \in [Rank -> Seq(Messages)],
         q.out \in [Rank -> Seq(Messages)], NEW f, f = Then(a, r), NEW e, e = Then(r, q),
         Ends(b, C, ms, m, n, Then(a, e))
  PROVE  Ends(b, C, ms, m, n, Then(f, q))
<1>1. Then(f, q).s = Then(a, e).s /\ Then(f, q).out = Then(a, e).out
  BY ThreeCalls
<1>. DEFINE x == Then(f, q)
            y == Then(a, e)
<1>. HIDE DEF x, y
<1>2. Ends(b, C, ms, m, n, y) /\ x.s = y.s /\ x.out = y.out
  BY <1>1 DEF x, y
<1>3. Ends(b, C, ms, m, n, x)
  BY <1>2, SameEnds
<1>. QED
  BY <1>3 DEF x

\* An answer to the question that stands: the last one, or one of several
LEMMA CountedEnds ==
  ASSUME NEW b, NEW C, NEW ms, NEW n, Sound(b, C, ms, n), NEW m \in Rank, NEW x \in Rank,
         n[x][m] # <<>>, NEW msg, msg = Head(n[x][m]), NEW g, g = ms[m], g.role = "leader",
         msg.op = "LAST", msg.epoch = g.epoch, msg.pn = g.accepted_pn,
         Brings(msg), Caught(b, g, msg),
         NEW t, Counted(g, msg, t),
         NEW c, c = ShareCommits(g), NEW o, o = Pop(n, {x}, m)
  PROVE  /\ Ends(b, C, ms, m, o, [c EXCEPT !.s = t])
         /\ t.num_last = Cardinality(g.quorum) =>
              /\ Ends(b, C, ms, m, o, Then(c, Recovered(m, t, TRUE)))
              /\ \A r : r = Then(c, Recovered(m, t, FALSE)) =>
                   Ends(b, C, ms, m, o, Then(r, Bootstrap(m, r.s)))
<1>. DEFINE w == Moved(ms, m, t)
            k == Plus(o, m, c.out)
<1>1. Sound(b, C, ms, o) /\ o \in Nets
  BY PopJ
<1>2. Ends(b, C, ms, m, o, c) /\ c.s = g
  <2>. HIDE DEF w, k
  <2>. QED
    BY <1>1, ShareCommitsEnds
<1>3. /\ Sound(b, C, Moved(ms, m, t), Plus(Pop(n, {x}, m), m, ShareCommits(g).out))
      /\ t \in Monitors /\ t.role = "leader" /\ t.state = "recovering"
      /\ t.num_last = g.num_last + 1 /\ t.quorum = g.quorum
  <2>. HIDE DEF w, k
  <2>. QED
    BY LastCounts
<1>10. Sound(b, C, w, k)
  BY <1>3
<1>4. c.out \in [Rank -> Seq(Messages)] /\ ms \in [Rank -> Monitors]
  BY <1>1, <1>2, EndsFacts, SoundFacts
<1>5. N > 1
  <2>1. ms[m].role = "leader" /\ msg.epoch = ms[m].epoch /\ AskInv(ms, n)
    BY DEF Sound
  <2>. QED
    BY <2>1, LastComes
<1>6. w[m] = t /\ Moved(Moved(ms, m, c.s), m, t) = w
  <2>1. t \in Monitors
    BY <1>3
  <2>2. Moved(ms, m, t)[m] = t
    BY <1>4, <2>1, MovedAt
  <2>3. Moved(Moved(ms, m, c.s), m, t) = Moved(ms, m, t)
    BY <1>4, MovedTwice
  <2>. QED
    BY <2>2, <2>3
<1>7. IsCall(c)
  BY DEF IsCall, ShareCommits
<1>8. Ends(b, C, ms, m, o, [c EXCEPT !.s = t])
  <2>. DEFINE q == [c EXCEPT !.s = t]
  <2>1. q = [s |-> t, out |-> c.out]
    BY <1>7, CallMade
  <2>2. q.s = t /\ q.out = c.out
    BY <2>1
  <2>. HIDE DEF q
  <2>3. Ends(b, C, ms, m, o, q)
    BY <1>4, <1>10, <2>2, MakeEnds
  <2>. QED
    BY <2>3 DEF q
<1>. HIDE DEF w, k
<1>9. ASSUME t.num_last = Cardinality(g.quorum)
      PROVE  /\ Ends(b, C, ms, m, o, Then(c, Recovered(m, t, TRUE)))
             /\ \A r : r = Then(c, Recovered(m, t, FALSE)) =>
                  Ends(b, C, ms, m, o, Then(r, Bootstrap(m, r.s)))
  <2>. DEFINE a == Recovered(m, t, TRUE)
              e == Recovered(m, t, FALSE)
              z == Bootstrap(m, e.s)
              q == Then(e, z)
  <2>1. /\ Ends(b, C, w, m, k, a) /\ Ends(b, C, w, m, k, q)
        /\ e.out \in [Rank -> Seq(Messages)] /\ z.out \in [Rank -> Seq(Messages)]
    <3>1. t.num_last >= Cardinality(t.quorum)
      <4>1. g.num_last \in Nat
        BY <1>1, SoundFacts DEF Monitors
      <4>. QED
        BY <1>3, <1>9, <4>1
    <3>2. t = w[m] /\ t.role = "leader" /\ t.state = "recovering"
      BY <1>3, <1>6
    <3>3. Ends(b, C, w, m, k, Recovered(m, t, TRUE))
      BY <1>5, <1>10, <3>1, <3>2, RecoveredEnds
    <3>4. /\ Ends(b, C, w, m, k, Then(Recovered(m, t, FALSE), Bootstrap(m, Recovered(m, t, FALSE).s)))
          /\ Recovered(m, t, FALSE).out \in [Rank -> Seq(Messages)]
          /\ Bootstrap(m, Recovered(m, t, FALSE).s).out \in [Rank -> Seq(Messages)]
      BY <1>5, <1>10, <3>1, <3>2, RecoveredEnds
    <3>. QED
      BY <3>3, <3>4
  <2>. HIDE DEF a, q
  <2>2. Ends(b, C, ms, m, o, Then(c, a)) /\ Ends(b, C, ms, m, o, Then(c, q))
    <3>1. /\ Ends(b, C, Moved(Moved(ms, m, c.s), m, t), m, Plus(o, m, c.out), a)
          /\ Ends(b, C, Moved(Moved(ms, m, c.s), m, t), m, Plus(o, m, c.out), q)
      BY <1>6, <2>1 DEF k
    <3>. QED
      BY <1>1, <1>2, <3>1, AfterEnds
  <2>3. ASSUME NEW r, r = Then(c, e) PROVE Ends(b, C, ms, m, o, Then(r, Bootstrap(m, r.s)))
    <3>1. r.s = e.s
      BY <2>3 DEF Then
    <3>2. e.out \in [Rank -> Seq(Messages)] /\ z.out \in [Rank -> Seq(Messages)]
      BY <2>1
    <3>3. q = Then(e, z)
      BY DEF q
    <3>4. Ends(b, C, ms, m, o, Then(r, z))
      <4>. HIDE DEF e, z
      <4>. QED
        BY <1>4, <2>2, <2>3, <3>2, <3>3, ThreeEnds
    <3>. QED
      BY <3>1, <3>4 DEF z
  <2>. QED
    BY <2>2, <2>3 DEF a, e
<1>. QED
  BY <1>8, <1>9

\* A call that monitor m, which began in ms, ends with bootstrap
LEMMA LeaveEnds ==
  ASSUME NEW b, NEW C, NEW ms, NEW n, Sound(b, C, ms, n), NEW m \in Rank,
         NEW r, Ends(b, C, ms, m, n, r)
  PROVE  Ends(b, C, ms, m, n, Then(r, Bootstrap(m, r.s)))
<1>. DEFINE z == Moved(ms, m, r.s)
            o == Plus(n, m, r.out)
<1>1. Sound(b, C, z, o) /\ z[m] = r.s
  BY EndsFacts
<1>. HIDE DEF z, o
<1>2. Ends(b, C, z, m, o, Bootstrap(m, r.s))
  BY <1>1, BootstrapEnds
<1>. QED
  BY <1>2, ThenEnds DEF z, o

\* What a leader g that has stored an answer makes of it; left: a remap was learned
LastResult(m, g, msg, left) ==
  LET c     == ShareCommits(g)
      again == Collect(m, [g EXCEPT !.events = @ \ {"collect"}], msg.pn)
      t     == LearnUncommitted([g EXCEPT !.num_last = @ + 1], msg)
      r     == IF msg.pn > g.accepted_pn THEN Then(c, again)
               ELSE IF msg.pn < g.accepted_pn THEN c
               ELSE IF t.num_last = Cardinality(g.quorum)
                    THEN Then(c, Recovered(m, t, ~left))
               ELSE [c EXCEPT !.s = t]
  IN  IF TooLow(g) # {} THEN Then(c, Bootstrap(m, g))
      ELSE IF left THEN Then(r, Bootstrap(m, r.s))
      ELSE r

\* handle_last, once what the answer brings is stored
LEMMA LastResultEnds ==
  ASSUME NEW b, NEW C, NEW ms, NEW n, Sound(b, C, ms, n), NEW m \in Rank, NEW x \in Rank,
         n[x][m] # <<>>, NEW msg, msg = Head(n[x][m]), NEW g, g = ms[m], g.role = "leader",
         msg.op = "LAST", msg.epoch = g.epoch, Brings(msg),
         msg.pn = g.accepted_pn => Caught(b, g, msg), NEW left \in BOOLEAN
  PROVE  Ends(b, C, ms, m, Pop(n, {x}, m), LastResult(m, g, msg, left))
<1>. DEFINE o == Pop(n, {x}, m)
            c == ShareCommits(g)
            again == Collect(m, [g EXCEPT !.events = @ \ {"collect"}], msg.pn)
            t == LearnUncommitted([g EXCEPT !.num_last = @ + 1], msg)
            R(f) == Recovered(m, t, f)
            k == [c EXCEPT !.s = t]
            r == IF msg.pn > g.accepted_pn THEN Then(c, again)
                 ELSE IF msg.pn < g.accepted_pn THEN c
                 ELSE IF t.num_last = Cardinality(g.quorum) THEN Then(c, R(~left)) ELSE k
            l == LastResult(m, g, msg, left)
<1>1. l = IF TooLow(g) # {} THEN Then(c, Bootstrap(m, g))
          ELSE IF left THEN Then(r, Bootstrap(m, r.s)) ELSE r
  BY DEF LastResult
<1>2. Sound(b, C, ms, o) /\ o \in Nets
  BY PopJ
<1>3. Ends(b, C, ms, m, o, c) /\ c.s = g
  <2>. HIDE DEF o
  <2>. QED
    BY <1>2, ShareCommitsEnds
<1>4. msg \in Messages /\ g.state = "recovering" /\ N > 1 /\ msg.pn \in Nat /\ g.accepted_pn \in Nat
  <2>1. ms[m].role = "leader" /\ msg.epoch = ms[m].epoch /\ AskInv(ms, n)
    BY DEF Sound
  <2>2. msg \in Messages /\ g.state = "recovering" /\ N > 1
    BY <2>1, LastComes
  <2>3. g \in Monitors
    BY SoundFacts
  <2>. QED
    BY <2>2, <2>3 DEF Messages, Monitors
<1>5. Ends(b, C, ms, m, o, Then(c, again))
  <2>1. Ends(b, C, ms, m, o, Then(c, again))
    <3>. DEFINE z == Moved(ms, m, c.s)
                e == Plus(o, m, c.out)
    <3>. HIDE DEF c, o, again
    <3>1. Sound(b, C, z, e) /\ z[m] = c.s
      BY <1>2, <1>3, EndsFacts
    <3>. HIDE DEF z, e
    <3>2. Ends(b, C, z, m, e, again)
      BY <1>3, <1>4, <3>1, AskAgainEnds DEF again
    <3>. QED
      BY <1>2, <1>3, <3>2, ThenEnds DEF z, e
  <2>. QED
    BY <2>1
<1>6. ASSUME msg.pn = g.accepted_pn
      PROVE  /\ Ends(b, C, ms, m, o, k)
             /\ t.num_last = Cardinality(g.quorum) =>
                  /\ Ends(b, C, ms, m, o, Then(c, R(TRUE)))
                  /\ \A q : q = Then(c, R(FALSE)) =>
                       Ends(b, C, ms, m, o, Then(q, Bootstrap(m, q.s)))
  <2>1. Counted(g, msg, t)
    BY DEF Counted
  <2>2. Caught(b, g, msg)
    BY <1>6
  <2>. HIDE DEF t
  <2>. QED
    BY <1>6, <2>1, <2>2, CountedEnds, ZenonT(60)
<1>. HIDE DEF o, c, again, t, R, k, l
<1>7. ASSUME TooLow(g) # {} PROVE Ends(b, C, ms, m, o, l)
  <2>1. Ends(b, C, ms, m, o, Then(c, Bootstrap(m, c.s)))
    BY <1>2, <1>3, LeaveEnds
  <2>. QED
    BY <1>1, <1>3, <1>7, <2>1
<1>8. ASSUME TooLow(g) = {}, Ends(b, C, ms, m, o, r) PROVE Ends(b, C, ms, m, o, l)
  <2>. HIDE DEF r
  <2>1. Ends(b, C, ms, m, o, Then(r, Bootstrap(m, r.s)))
    BY <1>2, <1>8, LeaveEnds
  <2>. QED
    BY <1>1, <1>8, <2>1
<1>9. ASSUME TooLow(g) = {}, msg.pn # g.accepted_pn PROVE Ends(b, C, ms, m, o, l)
  <2>1. r = Then(c, again) \/ r = c
    BY <1>4, <1>9
  <2>2. Ends(b, C, ms, m, o, r)
    <3>. HIDE DEF r
    <3>. QED
      BY <1>3, <1>5, <2>1
  <2>. HIDE DEF r
  <2>. QED
    BY <1>8, <1>9, <2>2
<1>10. ASSUME TooLow(g) = {}, msg.pn = g.accepted_pn PROVE Ends(b, C, ms, m, o, l)
  <2>1. r = IF t.num_last = Cardinality(g.quorum) THEN Then(c, R(~left)) ELSE k
    BY <1>4, <1>10
  <2>. HIDE DEF r
  <2>2. CASE t.num_last # Cardinality(g.quorum)
    <3>1. Ends(b, C, ms, m, o, r)
      BY <1>6, <1>10, <2>1, <2>2
    <3>. QED
      BY <1>8, <1>10, <3>1
  <2>3. CASE t.num_last = Cardinality(g.quorum) /\ left
    <3>1. r = Then(c, R(FALSE))
      <4>1. (~left) = FALSE
        BY <2>3
      <4>. QED
        BY <2>1, <2>3, <4>1
    <3>2. Ends(b, C, ms, m, o, Then(r, Bootstrap(m, r.s)))
      BY <1>6, <1>10, <2>3, <3>1
    <3>. QED
      BY <1>1, <1>10, <2>3, <3>2
  <2>4. CASE t.num_last = Cardinality(g.quorum) /\ ~left
    <3>1. r = Then(c, R(TRUE))
      <4>1. (~left) = TRUE
        BY <2>4
      <4>. QED
        BY <2>1, <2>4, <4>1
    <3>2. Ends(b, C, ms, m, o, r)
      BY <1>6, <1>10, <2>4, <3>1
    <3>. QED
      BY <1>8, <1>10, <3>2
  <2>. QED
    BY <2>2, <2>3, <2>4
<1>. QED
  <2>1. Ends(b, C, ms, m, o, l)
    BY <1>7, <1>9, <1>10
  <2>. QED
    BY <2>1 DEF o, l

\* handle_last
LEMMA HandleLastEnds ==
  ASSUME NEW b, NEW C, NEW ms, NEW n, Sound(b, C, ms, n), NEW m \in Rank, NEW x \in Rank,
         n[x][m] # <<>>, NEW msg, msg = Head(n[x][m]), NEW s, s = ms[m],
         msg.op = "LAST", msg.epoch = s.epoch, Brings(msg)
  PROVE  Ends(b, C, ms, m, Pop(n, {x}, m), HandleLast(m, s, x, msg))
<1>. DEFINE h == [s EXCEPT !.peer_lc = Over(One(x, msg.lc), @)]
            g == StoreState(h, msg)
            left == NeedsBootstrap(News(s, msg), msg.values)
            l == LastResult(m, g, msg, left)
            o == Pop(n, {x}, m)
            w == Moved(ms, m, g)
            r == HandleLast(m, s, x, msg)
<1>1. Sound(b, C, ms, o) /\ o \in Nets /\ ms \in [Rank -> Monitors] /\ msg \in Messages /\ s \in Monitors
  BY PopJ, SoundFacts, HeadA
<1>2. left \in BOOLEAN
  BY DEF NeedsBootstrap
<1>3. CASE s.role # "leader"
  <2>1. r = Done(s)
    BY <1>3 DEF HandleLast
  <2>2. Ends(b, C, ms, m, Pop(n, {x}, m), Done(s))
    BY DropEnds
  <2>. QED
    BY <2>1, <2>2
<1>4. HeardOf(s, x, msg.lc, h)
  BY DEF HeardOf
<1>5. CASE s.role = "leader" /\ msg.fc > s.last_committed + 1
  <2>1. r = Bootstrap(m, h)
    BY <1>5 DEF HandleLast
  <2>. DEFINE z == Moved(ms, m, h)
  <2>2. Sound(b, C, z, o) /\ z[m] = h
    <3>1. msg.lc \in Nat
      BY <1>1 DEF Messages
    <3>. DEFINE k == msg.lc
    <3>2. h = [s EXCEPT !.peer_lc = Over(One(x, k), @)] /\ k \in Nat
      BY <3>1
    <3>. HIDE DEF k, h, o
    <3>. QED
      BY <1>1, <3>2, HeardJ
  <2>. HIDE DEF h, o, z
  <2>3. Ends(b, C, z, m, o, Bootstrap(m, h))
    BY <2>2, BootstrapEnds
  <2>4. Ends(b, C, ms, m, o, Bootstrap(m, h))
    BY <1>1, <2>3, FirstEnds DEF z
  <2>. QED
    BY <2>1, <2>4 DEF o
<1>6. CASE s.role = "leader" /\ ~(msg.fc > s.last_committed + 1)
  <2>1. msg.fc <= s.last_committed + 1
    <3>1. msg.fc \in Nat /\ s.last_committed \in Nat
      BY <1>1 DEF Messages, Monitors
    <3>. QED
      BY <1>6, <3>1
  <2>2. /\ Sound(b, C, w, n) /\ w[m] = g
        /\ g.role = "leader" /\ g.state = "recovering" /\ g.epoch = s.epoch
        /\ g.quorum = s.quorum /\ g.accepted_pn = s.accepted_pn
        /\ b /\ msg.pn = s.accepted_pn => msg.lc <= g.last_committed
    <3>. HIDE DEF h
    <3>. QED
      BY <1>4, <1>6, <2>1, LastStored
  <2>3. r = l
    <3>. DEFINE c == ShareCommits(g)
    <3>1. c.s = g
      BY SMTT(60) DEF ShareCommits
    <3>. DEFINE again(u) == Collect(m, [u EXCEPT !.events = @ \ {"collect"}], msg.pn)
                t(u) == LearnUncommitted([u EXCEPT !.num_last = @ + 1], msg)
                q(u, a, Q) == IF msg.pn > a THEN Then(c, again(u))
                     ELSE IF msg.pn < a THEN c
                     ELSE IF t(u).num_last = Cardinality(Q)
                          THEN Then(c, Recovered(m, t(u), ~left))
                     ELSE [c EXCEPT !.s = t(u)]
                f(u, a, Q) == IF TooLow(u) # {} THEN Then(c, Bootstrap(m, u))
                        ELSE IF left THEN Then(q(u, a, Q), Bootstrap(m, q(u, a, Q).s))
                        ELSE q(u, a, Q)
    <3>2. r = f(c.s, s.accepted_pn, s.quorum)
      BY <1>6 DEF HandleLast
    <3>3. l = f(g, g.accepted_pn, g.quorum)
      BY DEF LastResult
    <3>. HIDE DEF f, g, c, r, l
    <3>. QED
      BY <2>2, <3>1, <3>2, <3>3
  <2>4. msg.pn = g.accepted_pn => Caught(b, g, msg)
    BY <2>2 DEF Caught
  <2>5. msg.epoch = g.epoch
    BY <2>2
  <2>. HIDE DEF g, w, left
  <2>6. Ends(b, C, w, m, Pop(n, {x}, m), LastResult(m, g, msg, left))
    BY <1>2, <2>2, <2>4, <2>5, LastResultEnds
  <2>. HIDE DEF l, o, r
  <2>7. Ends(b, C, w, m, o, l)
    BY <2>6 DEF l, o
  <2>8. Ends(b, C, ms, m, o, l)
    BY <1>1, <2>7, FirstEnds DEF w
  <2>. QED
    BY <2>3, <2>8 DEF o, r
<1>. QED
  BY <1>3, <1>5, <1>6

\* What a monitor does with the message it takes
LEMMA HandlerEnds ==
  ASSUME NEW b, NEW C, NEW ms, NEW n, Sound(b, C, ms, n), NEW m \in Rank, NEW x \in Rank,
         n[x][m] # <<>>, NEW msg, msg = Head(n[x][m]),
         NEW D, Consistent(D), Good(m, D, ms[m]), LeadsEven(ms[m]),
         MsgOK(x, m, D, msg), Direct(ms, x, m, msg), msg.epoch >= ms[m].epoch,
         msg.op = "VICTORY" \/ msg.epoch = ms[m].epoch,
         ForPaxos(ms[m], msg) => FromQuorum(ms[m], x) /\ Asserted(ms[m], x, msg),
         b /\ msg.op = "BEGIN" => Handler(m, ms[m], x, msg).s.pending_pn >= ms[m].pending_pn
  PROVE  Ends(b, C, ms, m, Pop(n, {x}, m), Handler(m, ms[m], x, msg))
<1>. DEFINE s == ms[m]
            o == Pop(n, {x}, m)
<1>1. msg \in Messages /\ ms \in [Rank -> Monitors] /\ s \in Monitors
  BY HeadA, SoundFacts
<1>2. msg.op \in Ops
  BY <1>1 DEF Messages
<1>3. ASSUME msg.op # "VICTORY"
      PROVE  FromQuorum(s, x) /\ Asserted(s, x, msg) /\ msg.epoch = s.epoch
  BY <1>3 DEF ForPaxos
<1>. HIDE DEF o
<1>4. CASE msg.op = "VICTORY"
  <2>1. Handler(m, s, x, msg) = HandleVictory(m, s, x, msg)
    BY <1>4 DEF Handler
  <2>2. Ends(b, C, ms, m, Pop(n, {x}, m), HandleVictory(m, s, x, msg))
    BY HandleVictoryEnds
  <2>. QED
    BY <2>1, <2>2
<1>5. CASE msg.op = "COLLECT"
  <2>1. Handler(m, s, x, msg) = HandleCollect(m, s, x, msg)
    BY <1>5 DEF Handler
  <2>2. s.role = "peon" /\ msg.epoch = s.epoch
    BY <1>3, <1>5 DEF Asserted
  <2>3. Ends(b, C, ms, m, Pop(n, {x}, m), HandleCollect(m, s, x, msg))
    BY <1>5, <2>2, HandleCollectEnds
  <2>. QED
    BY <2>1, <2>3
<1>6. CASE msg.op = "LAST"
  <2>1. Handler(m, s, x, msg) = HandleLast(m, s, x, msg)
    BY <1>6 DEF Handler
  <2>2. msg.epoch = s.epoch /\ Brings(msg)
    BY <1>3, <1>6 DEF MsgOK, Brings
  <2>3. Ends(b, C, ms, m, Pop(n, {x}, m), HandleLast(m, s, x, msg))
    BY <1>6, <2>2, HandleLastEnds
  <2>. QED
    BY <2>1, <2>3
<1>7. CASE msg.op = "BEGIN"
  <2>1. Handler(m, s, x, msg) = HandleBegin(m, s, x, msg)
    BY <1>7 DEF Handler
  <2>2. msg.epoch = s.epoch /\ Asserted(s, x, msg) /\ (N > 1 => msg.pn % 100 = x)
    BY <1>3, <1>7 DEF MsgOK
  <2>3. Moves(m, D, ms, HandleBegin(m, s, x, msg))
    BY <1>1, <1>7, <2>2, HandleBeginMoves, SMTT(60)
  <2>4. Fit(m, HandleBegin(m, s, x, msg).s)
    BY <2>3 DEF Moves, Fit, Extends
  <2>5. Ends(b, C, ms, m, Pop(n, {x}, m), HandleBegin(m, s, x, msg))
    <3>1. b => HandleBegin(m, s, x, msg).s.pending_pn >= s.pending_pn
      BY <1>7, <2>1
    <3>. QED
      BY <1>7, <2>2, <2>4, <3>1, HandleBeginEnds
  <2>. QED
    BY <2>1, <2>5
<1>8. CASE msg.op = "ACCEPT"
  <2>1. Handler(m, s, x, msg) = HandleAccept(m, s, x, msg)
    BY <1>8 DEF Handler
  <2>2. Past(s, s.epoch) /\ s.epoch \in Nat
    BY <1>1, <1>3, <1>8 DEF Direct, Monitors
  <2>3. s.role # "peon"
    BY <2>2 DEF Past
  <2>4. s.role = "leader" /\ msg.epoch = s.epoch /\ Asserted(s, x, msg)
    BY <1>3, <1>8, <2>3 DEF FromQuorum
  <2>5. Ends(b, C, ms, m, Pop(n, {x}, m), HandleAccept(m, s, x, msg))
    BY <1>8, <2>4, HandleAcceptEnds
  <2>. QED
    BY <2>1, <2>5
<1>9. CASE msg.op = "COMMIT"
  <2>1. Handler(m, s, x, msg) = HandleCommit(m, s, x, msg)
    BY <1>9 DEF Handler
  <2>2. s.role = "peon"
    BY <1>3, <1>9 DEF Asserted
  <2>3. Ends(b, C, ms, m, Pop(n, {x}, m), HandleCommit(m, s, x, msg))
    BY <1>9, <2>2, HandleCommitEnds
  <2>. QED
    BY <2>1, <2>3
<1>10. CASE msg.op = "LEASE"
  <2>1. Handler(m, s, x, msg) = HandleLease(m, s, x, msg)
    BY <1>10 DEF Handler
  <2>2. Ends(b, C, ms, m, Pop(n, {x}, m), HandleLease(m, s, x, msg))
    BY <1>10, HandleLeaseEnds
  <2>. QED
    BY <2>1, <2>2
<1>11. CASE msg.op = "LEASE_ACK"
  <2>1. Handler(m, s, x, msg) = HandleLeaseAck(m, s, x, msg)
    BY <1>11 DEF Handler
  <2>2. Ends(b, C, ms, m, Pop(n, {x}, m), HandleLeaseAck(m, s, x, msg))
    BY HandleLeaseAckEnds
  <2>. QED
    BY <2>1, <2>2
<1>. QED
  BY <1>2, <1>4, <1>5, <1>6, <1>7, <1>8, <1>9, <1>10, <1>11 DEF Ops

\* A call of m becomes a step of the system: what m hears of is dropped in the
\* channels that its new epoch makes stale.
LEMMA StepEnds ==
  ASSUME NEW b, NEW m \in Rank, NEW F, NEW r, Step(m, F, r), mon \in [Rank -> Monitors],
         net \in Nets, Sound(b, committed, mon, Pop(net, F, m)),
         Ends(b, committed, mon, m, Pop(net, F, m), r)
  PROVE  Sound(b, committed, mon', net') /\ committed' = committed \cup CommittedBy(mon'[m])
<1>. DEFINE o == Pop(net, F, m)
            k == Plus(o, m, r.out)
<1>1. /\ mon' = [mon EXCEPT ![m] = r.s] /\ committed' = committed \cup CommittedBy(r.s)
      /\ net' = Delivered(k, mon')
  BY StepShape
<1>2. mon' = Moved(mon, m, r.s) /\ mon'[m] = r.s
  BY <1>1 DEF Moved
<1>. HIDE DEF o
<1>3. Sound(b, committed, mon, o) /\ Ends(b, committed, mon, m, o, r)
  BY DEF o
<1>4. Sound(b, committed, Moved(mon, m, r.s), k)
  BY <1>3, EndsFacts
<1>5. k \in Nets
  BY <1>4, SoundFacts
<1>. HIDE DEF k
<1>6. Delivered(k, mon') \in Nets /\ Shorter(Delivered(k, mon'), k)
  BY <1>5, DeliveredShorter
<1>. DEFINE w == Delivered(k, mon')
            ms == Moved(mon, m, r.s)
<1>. HIDE DEF w, ms
<1>7. Sound(b, committed, ms, w)
  <2>1. Sound(b, committed, ms, k) /\ w \in Nets /\ Shorter(w, k)
    BY <1>4, <1>6 DEF w, ms
  <2>. QED
    BY <2>1, ShorterJ
<1>. QED
  BY <1>1, <1>2, <1>7 DEF w, ms

\* Nothing is popped when nothing is heard.
LEMMA PopNone ==
  ASSUME NEW n \in Nets, NEW m
  PROVE  Pop(n, {}, m) = n
  BY DEF Pop, Nets

\* A step that takes no message
LEMMA LocalEnds ==
  ASSUME NEW b, NEW m \in Rank, NEW r, Step(m, {}, r), Sound(b, committed, mon, net),
         Ends(b, committed, mon, m, net, r)
  PROVE  Sound(b, committed, mon', net') /\ committed' = committed \cup CommittedBy(mon'[m])
<1>1. mon \in [Rank -> Monitors] /\ net \in Nets
  BY SoundFacts
<1>2. Pop(net, {}, m) = net
  BY <1>1, PopNone
<1>. QED
  BY <1>1, <1>2, StepEnds

(***************************************************************************)
(* The actions.                                                             *)
(***************************************************************************)

\* A step of m keeps the invariant, with what was committed before it.
Goes(b, m) ==
  Sound(b, committed, mon', net') /\ committed' = committed \cup CommittedBy(mon'[m])

\* Receive
LEMMA ReceiveGoes ==
  ASSUME NEW b, Sound(b, committed, mon, net), PaxosInv, NEW m \in Rank, NEW x \in Rank,
         Receive(m, x),
         b /\ Head(net[x][m]).op = "BEGIN" => mon'[m].pending_pn >= mon[m].pending_pn
  PROVE  Goes(b, m)
<1>. DEFINE ch == net[x][m]
            msg == Head(ch)
            o == Pop(net, {x}, m)
            r == IF msg.op # "VICTORY" /\ msg.epoch > mon[m].epoch THEN Bootstrap(m, mon[m])
                 ELSE Handler(m, mon[m], x, msg)
<1>1. /\ ch # <<>> /\ Step(m, {x}, r)
      /\ ForPaxos(mon[m], msg) => FromQuorum(mon[m], x) /\ Asserted(mon[m], x, msg)
  BY DEF Receive
<1>2. PICK D : Consistent(D) /\ MonsOK(D, mon) /\ NetOK(D, mon, net)
  BY DEF PaxosInv
<1>3. Good(m, D, mon[m]) /\ LeadsEven(mon[m])
  BY <1>2 DEF MonsOK
<1>4. ChanOK(mon, D, x, m, ch) /\ HeadOK(mon[m], ch)
  BY <1>2 DEF NetOK
<1>5. /\ mon \in [Rank -> Monitors] /\ net \in Nets /\ mon[m].epoch \in Nat
      /\ Sound(b, committed, mon, o) /\ o \in Nets
  <2>1. mon \in [Rank -> Monitors] /\ net \in Nets
    BY SoundFacts
  <2>2. Sound(b, committed, mon, o) /\ o \in Nets
    BY <1>1, PopJ
  <2>. QED
    BY <2>1, <2>2 DEF Monitors
<1>6. 1 \in 1 .. Len(ch) /\ msg = ch[1] /\ msg \in Messages
  BY <1>1, <1>5, HeadIs
<1>7. /\ MsgOK(x, m, D, msg) /\ Direct(mon, x, m, msg) /\ msg.epoch >= mon[m].epoch
      /\ msg.epoch \in Nat
  <2>. HIDE DEF ch, msg
  <2>1. Len(ch) > 0
    BY <1>6
  <2>. QED
    BY <1>4, <1>6, <2>1 DEF ChanOK, HeadOK, Messages
<1>8. Ends(b, committed, mon, m, o, r)
  <2>1. CASE msg.op # "VICTORY" /\ msg.epoch > mon[m].epoch
    <3>1. r = Bootstrap(m, mon[m])
      BY <2>1
    <3>. HIDE DEF o, r
    <3>2. Ends(b, committed, mon, m, o, Bootstrap(m, mon[m]))
      BY <1>5, BootstrapEnds
    <3>. QED
      BY <3>1, <3>2
  <2>2. CASE ~(msg.op # "VICTORY" /\ msg.epoch > mon[m].epoch)
    <3>1. r = Handler(m, mon[m], x, msg)
      BY <2>2
    <3>. HIDE DEF r
    <3>2. msg.op = "VICTORY" \/ msg.epoch = mon[m].epoch
      <4>. HIDE DEF msg
      <4>. QED
        BY <1>5, <1>7, <2>2
    <3>4. mon'[m] = Handler(m, mon[m], x, msg).s
      BY <1>1, <1>5, <3>1 DEF Step
    <3>5. b /\ msg.op = "BEGIN" => Handler(m, mon[m], x, msg).s.pending_pn >= mon[m].pending_pn
      BY <3>4
    <3>3. Ends(b, committed, mon, m, Pop(net, {x}, m), Handler(m, mon[m], x, msg))
      BY <1>1, <1>2, <1>3, <1>7, <3>2, <3>5, HandlerEnds
    <3>. QED
      BY <3>1, <3>3
  <2>. QED
    BY <2>1, <2>2
<1>. HIDE DEF r
<1>. QED
  BY <1>1, <1>5, <1>8, StepEnds DEF Goes

\* IgnoreVictory
LEMMA IgnoreVictoryGoes ==
  ASSUME NEW b, Sound(b, committed, mon, net), NEW m \in Rank, NEW x \in Rank,
         IgnoreVictory(m, x)
  PROVE  Goes(b, m)
<1>1. net[x][m] # <<>> /\ Step(m, {x}, Done(mon[m]))
  BY DEF IgnoreVictory
<1>2. mon \in [Rank -> Monitors] /\ net \in Nets
  BY SoundFacts
<1>3. Sound(b, committed, mon, Pop(net, {x}, m))
  BY <1>1, PopJ
<1>4. Ends(b, committed, mon, m, Pop(net, {x}, m), Done(mon[m]))
  BY <1>1, DropEnds
<1>. QED
  BY <1>1, <1>2, <1>3, <1>4, StepEnds DEF Goes

\* Win
LEMMA WinGoes ==
  ASSUME NEW b, Sound(b, committed, mon, net), NEW m \in Rank, Win(m)
  PROVE  Goes(b, m)
<1>1. PICK Q \in SUBSET Rank :
        /\ m \in Q /\ Majority(Q)
        /\ LET w == [mon[m] EXCEPT !.epoch = @ + 1, !.role = "leader",
                                   !.leader = m, !.quorum = Q]
               v == Sends(w, Q \ {m}, [Msg("VICTORY", w) EXCEPT !.quorum = Q])
           IN  Step(m, {}, Then(v, LeaderInit(m, w)))
  BY DEF Win
<1>. DEFINE w == [mon[m] EXCEPT !.epoch = @ + 1, !.role = "leader", !.leader = m, !.quorum = Q]
            v == Sends(w, Q \ {m}, [Msg("VICTORY", w) EXCEPT !.quorum = Q])
            r == Then(v, LeaderInit(m, w))
<1>2. Step(m, {}, r)
  BY <1>1
<1>3. Ends(b, committed, mon, m, net, r)
  <2>1. Q \subseteq Rank /\ m \in Q /\ Majority(Q)
    BY <1>1
  <2>. QED
    BY <2>1, WinEnds
<1>. HIDE DEF r
<1>. QED
  BY <1>2, <1>3, LocalEnds DEF Goes

\* FinishCommit
LEMMA FinishCommitGoes ==
  ASSUME NEW b, Sound(b, committed, mon, net), NEW m \in Rank, FinishCommit(m)
  PROVE  Goes(b, m)
<1>1. IsWriting(mon[m]) /\ Step(m, {}, CommitFinish(m, mon[m]))
  BY DEF FinishCommit
<1>2. Ends(b, committed, mon, m, net, CommitFinish(m, mon[m]))
  BY <1>1, CommitFinishEnds
<1>. QED
  BY <1>1, <1>2, LocalEnds DEF Goes

\* Timeout
LEMMA TimeoutGoes ==
  ASSUME NEW b, Sound(b, committed, mon, net), NEW m \in Rank, Timeout(m)
  PROVE  Goes(b, m)
<1>1. Step(m, {}, Bootstrap(m, mon[m]))
  BY DEF Timeout
<1>2. Ends(b, committed, mon, m, net, Bootstrap(m, mon[m]))
  BY BootstrapEnds
<1>. QED
  BY <1>1, <1>2, LocalEnds DEF Goes

\* Elect
LEMMA ElectGoes ==
  ASSUME NEW b, Sound(b, committed, mon, net), NEW m \in Rank, Elect(m)
  PROVE  Goes(b, m)
<1>1. PICK e \in mon[m].epoch + 1 .. EpochBound : Step(m, {}, JoinElection(m, mon[m], e))
  BY DEF Elect
<1>2. mon[m].epoch \in Nat
  BY SoundFacts DEF Monitors
<1>3. e \in Nat /\ e >= mon[m].epoch
  BY <1>1, <1>2
<1>4. Ends(b, committed, mon, m, net, JoinElection(m, mon[m], e))
  BY <1>3, JoinElectionEnds
<1>. QED
  BY <1>1, <1>4, LocalEnds DEF Goes

\* Propose
LEMMA ProposeGoes ==
  ASSUME NEW b, Sound(b, committed, mon, net), NEW m \in Rank, Propose(m)
  PROVE  Goes(b, m)
<1>. DEFINE s == mon[m]
            t == [s EXCEPT !.pending = TRUE]
            r == IF s.state = "active" THEN ProposePending(m, s, 0) ELSE Done(t)
<1>1. s.role = "leader" /\ Step(m, {}, r)
  BY DEF Propose
<1>2. s \in Monitors /\ Fit(m, s) /\ net \in Nets /\ TimersOK(s)
  BY SoundFacts
<1>3. Ends(b, committed, mon, m, net, r)
  <2>1. CASE s.state = "active"
    <3>1. r = ProposePending(m, s, 0)
      BY <2>1
    <3>2. 0 <= s.last_committed
      BY <1>2 DEF Monitors
    <3>. HIDE DEF r
    <3>3. Ends(b, committed, mon, m, net, ProposePending(m, s, 0))
      BY <1>1, <2>1, <3>2, ProposePendingEnds
    <3>. QED
      BY <3>1, <3>3
  <2>2. CASE s.state # "active"
    <3>1. r = Done(t)
      BY <2>2
    <3>2. t \in Monitors /\ t.events = s.events /\ s.epoch \in Nat /\ s.num_last \in Nat
      BY <1>2 DEF Monitors
    <3>3. SameLead(s, t) /\ SameStore(s, t) /\ t.stored_pn = s.stored_pn
      BY <1>2 DEF Monitors, SameLead, SameTask, SameStore
    <3>. HIDE DEF t, r
    <3>4. SameRound(s, t)
      BY <3>2, <3>3 DEF SameLead, SameTask, SameRound
    <3>5. Fit(m, t)
      BY <1>2, <3>2, <3>3, <3>4, FitKept
    <3>6. TimersOK(t)
      BY <1>2, <3>2, <3>3 DEF TimersOK, SameLead, SameTask
    <3>7. SameDisk(s, t) /\ t.accepted_pn = s.accepted_pn /\ SameLead(s, t)
      BY <3>2, <3>3 DEF SameDisk, SameLead, SameTask
    <3>8. Sound(b, committed, Moved(mon, m, t), net)
      BY <3>5, <3>6, <3>7, PlainDone
    <3>9. Ends(b, committed, mon, m, net, Done(t))
      BY <1>2, <3>8, DoneEnds
    <3>. QED
      BY <3>1, <3>9
  <2>. QED
    BY <2>1, <2>2
<1>. HIDE DEF r
<1>. QED
  BY <1>1, <1>3, LocalEnds DEF Goes

\* RenewLease
LEMMA RenewLeaseGoes ==
  ASSUME NEW b, Sound(b, committed, mon, net), NEW m \in Rank, RenewLease(m)
  PROVE  Goes(b, m)
<1>. DEFINE s == mon[m]
            t == [s EXCEPT !.events = @ \ {"lease_renew"}]
            w == Moved(mon, m, t)
            r == ExtendLease(m, t)
<1>1. "lease_renew" \in s.events /\ Step(m, {}, r)
  BY DEF RenewLease
<1>2. /\ s \in Monitors /\ Fit(m, s) /\ net \in Nets /\ TimersOK(s)
      /\ mon \in [Rank -> Monitors]
  BY SoundFacts
<1>3. s.state = "active" /\ s.role = "leader"
  BY <1>1, <1>2 DEF TimersOK
<1>4. t \in Monitors /\ t.events \subseteq s.events /\ s.epoch \in Nat /\ s.num_last \in Nat
  BY <1>2 DEF Monitors
<1>5. SameLead(s, t) /\ SameStore(s, t) /\ t.stored_pn = s.stored_pn
  BY <1>2 DEF Monitors, SameLead, SameTask, SameStore
<1>. HIDE DEF t
<1>6. t.role = "leader" /\ t.state = "active" /\ t.accepted_pn = s.accepted_pn
  BY <1>3, <1>5 DEF SameLead, SameTask
<1>7. SameRound(s, t) /\ SameDisk(s, t)
  BY <1>4, <1>5 DEF SameLead, SameTask, SameRound, SameDisk
<1>8. Fit(m, t)
  BY <1>2, <1>4, <1>5, <1>7, FitKept
<1>9. TimersOK(t)
  BY <1>2, <1>3, <1>4, <1>6 DEF TimersOK
<1>10. Sound(b, committed, Moved(mon, m, t), net)
  BY <1>5, <1>6, <1>7, <1>8, <1>9, PlainDone
<1>11. w[m] = t
  BY <1>2, <1>4, MovedAt
<1>. HIDE DEF w
<1>12. Ends(b, committed, w, m, net, r)
  <2>1. Sound(b, committed, w, net)
    BY <1>10 DEF w
  <2>. QED
    BY <1>6, <1>11, <2>1, LeaseEnds
<1>. HIDE DEF r
<1>13. Ends(b, committed, mon, m, net, r)
  BY <1>12, FirstEnds DEF w
<1>. QED
  BY <1>1, <1>13, LocalEnds DEF Goes

\* A commit that has reached the disk is what the restarted monitor finds there.
LEMMA ReloadSettled ==
  ASSUME NEW s \in Monitors
  PROVE  Reloaded(Learn(s, {s.last_committed + 1}, One(s.last_committed + 1, s.new_value)))
           = Reloaded(Settles(s))
<1>. DEFINE l == Learn(s, {s.last_committed + 1}, One(s.last_committed + 1, s.new_value))
            g == [l EXCEPT !.lease = FALSE, !.new_value = NoValue, !.state = "active"]
<1>1. Settles(s) = g
  BY DEF Settles
<1>2. /\ g.epoch = l.epoch /\ g.log = l.log /\ g.last_committed = l.last_committed
      /\ g.first_committed = l.first_committed /\ g.last_pn = l.last_pn
      /\ g.stored_pn = l.stored_pn /\ g.pending_v = l.pending_v /\ g.pending_pn = l.pending_pn
  <2>. HIDE DEF l
  <2>. QED
    OBVIOUS
<1>. HIDE DEF l, g
<1>3. Reloaded(l) = Reloaded(g)
  BY <1>2 DEF Reloaded
<1>. QED
  BY <1>1, <1>3 DEF l

\* What init reads back
LEMMA ReloadKeeps ==
  ASSUME NEW m, NEW s, Fit(m, s), NEW t, t = Reloaded(s)
  PROVE  /\ Fit(m, t) /\ TimersOK(t) /\ DiesA(s, t) /\ DiesB(s, t)
<1>1. PICK D : Consistent(D) /\ Good(m, D, s)
  BY FitGood
<1>2. Good(m, D, t) /\ t.role = "out" /\ t.epoch = s.epoch
  BY <1>1, ReloadedGood
<1>3. Fit(m, t)
  BY <1>1, <1>2 DEF Fit
<1>4. /\ t.last_pn = s.last_pn /\ t.stored_pn = s.stored_pn /\ t.accepted_pn = s.stored_pn
      /\ t.events = {} /\ SameStore(s, t)
  BY DEF Reloaded, Fresh, SameStore
<1>5. TimersOK(t)
  BY <1>2, <1>4 DEF TimersOK
<1>. QED
  BY <1>2, <1>3, <1>4, <1>5 DEF DiesA, DiesB

\* A part of a channel is left.
LEMMA CutPart ==
  ASSUME NEW ch \in Seq(Messages), NEW k \in Nat, k <= Len(ch)
  PROVE  SubSeq(ch, 1, k) \in Seq(Messages) /\ Stretch(SubSeq(ch, 1, k), ch, 0)
<1>. DEFINE u == SubSeq(ch, 1, k)
<1>1. u \in Seq(Messages) /\ Len(u) = k /\ \A i \in 1 .. k : u[i] = ch[i]
  BY SMT
<1>. HIDE DEF u
<1>2. Len(ch) \in Nat
  OBVIOUS
<1>3. Stretch(u, ch, 0)
  BY <1>1, <1>2 DEF Stretch
<1>. QED
  BY <1>1, <1>3 DEF u

\* What a death leaves of the channels
LEMMA DieCuts ==
  ASSUME net \in Nets, NEW m \in Rank, Die(m)
  PROVE  Cut(net', net, m)
<1>. DEFINE top == Max({Len(net[m][d]) : d \in Rank})
<1>1. PICK keep \in [Rank -> 0 .. top] :
             /\ \A d \in Rank : keep[d] <= Len(net[m][d])
             /\ net' = [x \in Rank |-> [d \in Rank |->
                          IF x = m THEN SubSeq(net[x][d], 1, keep[d])
                          ELSE IF d = m THEN <<>> ELSE net[x][d]]]
  BY DEF Die
<1>. HIDE DEF top
<1>2. \A x, d \in Rank : net[x][d] \in Seq(Messages)
  BY DEF Nets
<1>3. ASSUME NEW d \in Rank
      PROVE  /\ SubSeq(net[m][d], 1, keep[d]) \in Seq(Messages)
             /\ Stretch(SubSeq(net[m][d], 1, keep[d]), net[m][d], 0)
  <2>1. keep[d] \in Nat /\ keep[d] <= Len(net[m][d]) /\ net[m][d] \in Seq(Messages)
    BY <1>1, <1>2
  <2>. QED
    BY <2>1, CutPart
<1>4. \A x, d \in Rank : net'[x][d] = IF x = m THEN SubSeq(net[x][d], 1, keep[d])
                                      ELSE IF d = m THEN <<>> ELSE net[x][d]
  BY <1>1
<1>5. <<>> \in Seq(Messages)
  OBVIOUS
<1>6. net' \in Nets
  <2>1. ASSUME NEW x \in Rank, NEW d \in Rank PROVE net'[x][d] \in Seq(Messages)
    <3>1. CASE x = m
      <4>1. net'[x][d] = SubSeq(net[m][d], 1, keep[d])
        BY <1>4, <3>1
      <4>2. SubSeq(net[m][d], 1, keep[d]) \in Seq(Messages)
        BY <1>3
      <4>. QED
        BY <4>1, <4>2
    <3>2. CASE x # m
      <4>1. net'[x][d] = IF d = m THEN <<>> ELSE net[x][d]
        BY <1>4, <3>2
      <4>2. net[x][d] \in Seq(Messages)
        BY <1>2
      <4>. QED
        BY <1>5, <4>1, <4>2
    <3>. QED
      BY <3>1, <3>2
  <2>2. net' = [x \in Rank |-> [d \in Rank |-> net'[x][d]]]
    BY <1>1
  <2>. QED
    BY <2>1, <2>2 DEF Nets
<1>. QED
  BY <1>3, <1>4, <1>6 DEF Cut

\* A restart may make a monitor forget what it has promised, whatever it was doing:
\* nothing a death erases is needed, since what is stored is also reported.
LEMMA DieGoes ==
  ASSUME NEW b, Sound(b, committed, mon, net), NEW m \in Rank, Die(m)
  PROVE  Goes(b, m)
<1>. DEFINE s == mon[m]
            v == s.last_committed + 1
            l == Learn(s, {v}, One(v, s.new_value))
<1>1. PICK t : /\ (IsWriting(s) /\ t = Reloaded(l)) \/ t = Reloaded(s)
               /\ mon' = [mon EXCEPT ![m] = t]
               /\ committed' = committed \cup CommittedBy(t)
  BY DEF Die
<1>2. s \in Monitors /\ Fit(m, s) /\ net \in Nets /\ mon \in [Rank -> Monitors]
  BY SoundFacts
<1>3. PICK g : Sound(b, committed, Moved(mon, m, g), net) /\ Moved(mon, m, g)[m] = g
               /\ t = Reloaded(g)
  <2>1. CASE t = Reloaded(s)
    <3>1. Moved(mon, m, s) = mon
      BY <1>2, MovedSame
    <3>. QED
      BY <2>1, <3>1
  <2>2. CASE IsWriting(s) /\ t = Reloaded(l)
    <3>1. t = Reloaded(Settles(s))
      BY <1>2, <2>2, ReloadSettled
    <3>. DEFINE g == Settles(s)
    <3>. HIDE DEF g
    <3>2. Sound(b, committed, Moved(mon, m, g), net) /\ Moved(mon, m, g)[m] = g
      BY <2>2, SettlesJ DEF g
    <3>. QED
      BY <3>1, <3>2 DEF g
  <2>. QED
    BY <1>1, <2>1, <2>2
<1>. HIDE DEF s, v, l
<1>. DEFINE w == Moved(mon, m, g)
<1>4. Moved(w, m, t) = Moved(mon, m, t)
  BY <1>2, MovedTwice
<1>. HIDE DEF w
<1>5. Sound(b, committed, w, net) /\ w[m] = g
  BY <1>3 DEF w
<1>6. Fit(m, g)
  BY <1>5, SoundFacts
<1>7. /\ Fit(m, t) /\ TimersOK(t) /\ DiesA(g, t) /\ DiesB(g, t)
  BY <1>3, <1>6, ReloadKeeps
<1>8. mon' = Moved(mon, m, t) /\ mon'[m] = t
  BY <1>1, <1>2 DEF Moved
<1>10. Cut(net', net, m)
  BY <1>2, DieCuts
<1>. DEFINE o == net'
<1>. HIDE DEF o
<1>11. Sound(b, committed, Moved(w, m, t), o)
  <2>1. DiesA(w[m], t) /\ (b => DiesB(w[m], t)) /\ Cut(o, net, m)
    BY <1>5, <1>7, <1>10 DEF o
  <2>. QED
    BY <1>5, <1>7, <2>1, DieJ
<1>. QED
  BY <1>1, <1>4, <1>8, <1>11 DEF Goes, o

\* What the step committed is part of what is committed.
LEMMA GoesOn ==
  ASSUME NEW b, NEW m \in Rank, Goes(b, m)
  PROVE  Sound(b, committed', mon', net')
<1>. DEFINE C == committed'
            ms == mon'
            n == net'
<1>1. Sound(b, committed, ms, n) /\ C = committed \cup CommittedBy(ms[m])
  BY DEF Goes
<1>. HIDE DEF C, ms, n
<1>2. ASSUME NEW H, NEW K, committed \subseteq K, Core(H, K, ms, n)
      PROVE  C \subseteq K
  <2>1. MonB(H, K, m, ms[m])
    BY <1>2 DEF Core
  <2>2. \A v \in DOMAIN ms[m].log : v <= ms[m].last_committed =>
           [v |-> v, value |-> ms[m].log[v]] \in K
    BY <2>1 DEF MonB, Stored
  <2>3. CommittedBy(ms[m]) \subseteq K
    BY <2>2 DEF CommittedBy
  <2>. QED
    BY <1>1, <1>2, <2>3
<1>3. Sound(b, C, ms, n)
  BY <1>1, <1>2 DEF Sound
<1>. QED
  BY <1>3 DEF C, ms, n

\* No vote is lost.  handle_begin stores the value of a BEGIN over what is pending
\* in the store.  handle_collect writes accepted_pn to disk, collect does not: a
\* leader that stores its own value under its number (begin), dies and is started
\* again reads an older accepted_pn (init), and may then take a BEGIN under a number
\* below the one of the value it has stored.  The condition excludes that one
\* step, and no restart: monitors may die and forget their promises at any moment,
\* leaders too, as long as none of them is then made to overwrite a value that it
\* has stored under a higher number.
VotesKept ==
  \A m, x \in Rank : Receive(m, x) /\ Head(net[x][m]).op = "BEGIN" =>
                       mon'[m].pending_pn >= mon[m].pending_pn

\* However the system moves, the invariant is kept, and with it, as long as no
\* vote is lost, what is committed.
LEMMA NextKeeps ==
  ASSUME NEW b, Sound(b, committed, mon, net), PaxosInv, [Next]_vars,
         b => [VotesKept]_vars
  PROVE  Sound(b, committed', mon', net')
<1>1. CASE UNCHANGED vars
  BY <1>1 DEF vars
<1>. SUFFICES ASSUME ~(UNCHANGED vars) PROVE Sound(b, committed', mon', net')
  BY <1>1
<1>0. ASSUME NEW m \in Rank, Die(m) PROVE Goes(b, m)
  BY <1>0, DieGoes
<1>2. ASSUME NEW m \in Rank, NEW x \in Rank,
             Receive(m, x) \/ IgnoreVictory(m, x) \/ Abort(m, x)
      PROVE  Goes(b, m)
  <2>1. Receive(m, x) => Goes(b, m)
    <3>1. Receive(m, x) /\ b /\ Head(net[x][m]).op = "BEGIN" =>
             mon'[m].pending_pn >= mon[m].pending_pn
      BY DEF VotesKept
    <3>. QED
      BY <3>1, ReceiveGoes
  <2>2. IgnoreVictory(m, x) => Goes(b, m)
    BY IgnoreVictoryGoes
  <2>3. Abort(m, x) => Die(m)
    BY DEF Abort
  <2>4. Die(m) => Goes(b, m)
    BY <1>0
  <2>. QED
    BY <1>2, <2>1, <2>2, <2>3, <2>4
<1>3. ASSUME NEW m \in Rank,
             FinishCommit(m) \/ Propose(m) \/ Timeout(m) \/ RenewLease(m) \/ Elect(m)
      PROVE  Goes(b, m)
  BY <1>3, FinishCommitGoes, ProposeGoes, TimeoutGoes, RenewLeaseGoes, ElectGoes
<1>4. ASSUME NEW m \in Rank, Win(m) PROVE Goes(b, m)
  BY <1>4, WinGoes
<1>5. ASSUME NEW m \in Rank, Restart(m) PROVE Goes(b, m)
  <2>1. Die(m)
    BY <1>5 DEF Restart
  <2>. QED
    BY <1>0, <2>1
<1>6. CASE \E m \in Rank : Goes(b, m)
  BY <1>6, GoesOn
<1>. QED
  BY <1>1, <1>2, <1>3, <1>4, <1>5, <1>6 DEF Next

\* A new monitor
LEMMA FreshFits ==
  ASSUME NEW m \in Rank
  PROVE  Fit(m, Fresh) /\ TimersOK(Fresh)
<1>1. Consistent({})
  BY DEF Consistent
<1>2. /\ Fresh.first_committed = 0 /\ Fresh.last_committed = 0 /\ Fresh.pending_v = 0
      /\ Fresh.events = {} /\ NoValue.trim = 0 /\ NoneUncommitted.v = 0
  BY DEF Fresh, NoValue, NoneUncommitted
<1>3. StoreOK({}, Fresh)
  BY <1>2 DEF StoreOK
<1>4. MemoryOK(Fresh)
  BY <1>2, FreshTyped DEF MemoryOK, IsWriting
<1>5. LeaderOK(m, {}, Fresh) /\ OwnerOK(m, {}, Fresh)
  BY FreshTyped DEF LeaderOK, OwnerOK
<1>6. Good(m, {}, Fresh)
  BY <1>3, <1>4, <1>5, FreshTyped DEF Good
<1>7. TimersOK(Fresh)
  BY <1>2, FreshTyped DEF TimersOK
<1>. QED
  BY <1>1, <1>6, <1>7 DEF Fit

\* The invariant holds at first.
LEMMA InitStarts ==
  ASSUME NEW b, Init
  PROVE  Sound(b, committed, mon, net)
<1>1. /\ mon = [m \in Rank |-> Fresh] /\ net = [m \in Rank |-> [d \in Rank |-> <<>>]]
      /\ committed = {}
  BY DEF Init
<1>2. mon \in [Rank -> Monitors] /\ \A m \in Rank : mon[m] = Fresh
  BY <1>1, FreshTyped
<1>3. net \in Nets /\ \A x, d \in Rank : 1 .. Len(net[x][d]) = {}
  BY <1>1 DEF Nets
<1>4. /\ Fresh.accepted_pn = 0 /\ Fresh.stored_pn = 0 /\ Fresh.last_pn = 0
      /\ Fresh.first_committed = 0 /\ Fresh.last_committed = 0 /\ Fresh.pending_v = 0
      /\ Fresh.pending_pn = 0 /\ Fresh.role = "out" /\ Fresh.log = <<>>
  BY DEF Fresh
<1>5. AskInv(mon, net)
  <2>1. ASSUME NEW m \in Rank
        PROVE  Fit(m, mon[m]) /\ TimersOK(mon[m]) /\ PnsA(mon, m) /\ LeadA(mon, net, m)
    <3>1. Fit(m, mon[m]) /\ TimersOK(mon[m])
      BY <1>2, FreshFits
    <3>2. PnsA(mon, m)
      BY <1>2, <1>4 DEF PnsA, OwnPn, Larger
    <3>3. LeadA(mon, net, m)
      BY <1>2, <1>4 DEF LeadA
    <3>. QED
      BY <3>1, <3>2, <3>3
  <2>. QED
    BY <1>2, <1>3, <2>1 DEF AskInv
<1>6. Core({}, {}, mon, net)
  <2>1. ASSUME NEW m \in Rank PROVE MonB({}, {}, m, mon[m])
    <3>1. DOMAIN Fresh.log = {}
      BY <1>4
    <3>2. Whole(Fresh)
      BY <1>4, <3>1 DEF Whole
    <3>3. Stored({}, Fresh)
      BY <1>4, <3>1 DEF Stored
    <3>. QED
      BY <1>2, <1>4, <3>2, <3>3 DEF MonB, PromiseOK, Larger
  <2>2. Chosen({}, {}, mon)
    BY DEF Chosen
  <2>3. \A m \in Rank : LeadB({}, {}, mon, net, m)
    BY <1>2, <1>4 DEF LeadB
  <2>4. OneValue({})
    BY DEF OneValue
  <2>. QED
    BY <1>3, <2>1, <2>2, <2>3, <2>4 DEF Core
<1>. QED
  BY <1>1, <1>5, <1>6 DEF Sound

(***************************************************************************)
(* The theorems.                                                            *)
(***************************************************************************)

\* The inductive invariant of TimersMatchState
TimersInv == PaxosInv /\ Sound(FALSE, committed, mon, net)

\* The inductive invariant of Agreement, StoreIsWhole and CommittedIsDurable:
\* some set of votes H and some set K of committed versions explain the stores,
\* the messages and what the leaders know.
AgreeInv == PaxosInv /\ Sound(TRUE, committed, mon, net)

\* It holds at first.
LEMMA TimersStart == Init => TimersInv
  BY InvInit, InitStarts DEF TimersInv

\* Every step keeps it, restarts included.
LEMMA TimersKept == TimersInv /\ [Next]_vars => TimersInv'
<1>. SUFFICES ASSUME TimersInv, [Next]_vars PROVE TimersInv'
  OBVIOUS
<1>1. PaxosInv /\ Sound(FALSE, committed, mon, net)
  BY DEF TimersInv
<1>2. PaxosInv'
  BY <1>1, InvNext
<1>3. Sound(FALSE, committed', mon', net')
  BY <1>1, NextKeeps
<1>. QED
  BY <1>2, <1>3 DEF TimersInv

\* It says what the property says.
LEMMA TimersGive == TimersInv => TimersMatchState
<1>. SUFFICES ASSUME TimersInv, NEW m \in Rank PROVE TimersOK(mon[m])
  BY DEF TimersMatchState, TimersOK
<1>. QED
  BY SoundFacts DEF TimersInv

\* It holds at first.
LEMMA AgreeStart == Init => AgreeInv
  BY InvInit, InitStarts DEF AgreeInv

\* Every step keeps it that loses no vote.
LEMMA AgreeKept == AgreeInv /\ [Next]_vars /\ [VotesKept]_vars => AgreeInv'
<1>. SUFFICES ASSUME AgreeInv, [Next]_vars, [VotesKept]_vars PROVE AgreeInv'
  OBVIOUS
<1>1. PaxosInv /\ Sound(TRUE, committed, mon, net)
  BY DEF AgreeInv
<1>2. PaxosInv'
  BY <1>1, InvNext
<1>3. Sound(TRUE, committed', mon', net')
  BY <1>1, NextKeeps, ZenonT(60)
<1>. QED
  BY <1>2, <1>3 DEF AgreeInv

\* What it gives
LEMMA AgreeFacts ==
  ASSUME AgreeInv
  PROVE  /\ \A m \in Rank : Fit(m, mon[m]) /\ mon[m] \in Monitors
         /\ \E H, K : committed \subseteq K /\ Core(H, K, mon, net)
<1>1. Sound(TRUE, committed, mon, net)
  BY DEF AgreeInv
<1>2. \A m \in Rank : Fit(m, mon[m]) /\ mon[m] \in Monitors
  BY <1>1, SoundFacts
<1>. QED
  BY <1>1, <1>2 DEF Sound

\* What has been committed is in K, which has one value for a version.
LEMMA AgreeGives == AgreeInv => Agreement
<1>. SUFFICES ASSUME AgreeInv, NEW a \in committed, NEW c \in committed, a.v = c.v PROVE a = c
  BY DEF Agreement
<1>1. PICK H, K : committed \subseteq K /\ Core(H, K, mon, net)
  BY AgreeFacts
<1>. QED
  BY <1>1 DEF Core, Chosen

\* The stores are whole.
LEMMA WholeGives == AgreeInv => StoreIsWhole
<1>. SUFFICES ASSUME AgreeInv, NEW m \in Rank
              PROVE  mon[m].first_committed <= mon[m].last_committed /\ Whole(mon[m])
  BY DEF StoreIsWhole, Whole, Exists
<1>1. PICK H, K : committed \subseteq K /\ Core(H, K, mon, net)
  BY AgreeFacts
<1>2. Whole(mon[m])
  BY <1>1 DEF Core, MonB
<1>3. Fit(m, mon[m])
  BY AgreeFacts
<1>. QED
  BY <1>2, <1>3, FitFacts

\* What is committed, a monitor that has come so far still has, or has trimmed.
LEMMA HasIt ==
  ASSUME NEW H, NEW K, NEW ms, NEW n, Core(H, K, ms, n), NEW m \in Rank, ms[m] \in Monitors,
         NEW c \in K, c.v <= ms[m].last_committed
  PROVE  ms[m].first_committed > c.v \/ (Exists(ms[m], c.v) /\ ms[m].log[c.v] = c.value)
<1>. DEFINE s == ms[m]
            k == [v |-> c.v, value |-> s.log[c.v]]
<1>1. Whole(s) /\ Stored(K, s)
  BY DEF Core, MonB
<1>2. c.v \in Nat \ {0} /\ s.first_committed \in Nat /\ s.last_committed \in Nat
  BY DEF Core, Chosen, Monitors
<1>3. CASE s.first_committed <= c.v
  <2>1. c.v \in DOMAIN s.log
    BY <1>1, <1>2, <1>3 DEF Whole
  <2>2. k \in K
    BY <1>1, <2>1 DEF Stored
  <2>3. k.v = c.v /\ k.value = s.log[c.v]
    OBVIOUS
  <2>. HIDE DEF k
  <2>4. k = c
    BY <2>2, <2>3 DEF Core, Chosen
  <2>. QED
    BY <2>1, <2>3, <2>4 DEF Exists
<1>4. CASE ~(s.first_committed <= c.v)
  BY <1>2, <1>4
<1>. QED
  BY <1>3, <1>4

\* So does who has voted for it.
LEMMA VoterHasIt ==
  ASSUME NEW H, NEW K, NEW ms, NEW n, Core(H, K, ms, n), N > 1, NEW m \in Rank,
         ms[m] \in Monitors, Fit(m, ms[m]), NEW c \in K, NEW a \in Nat,
         Majority(Voters(H, c.v, a, c.value)), m \in Voters(H, c.v, a, c.value)
  PROVE  ms[m].first_committed > c.v \/ (Exists(ms[m], c.v) /\ ms[m].log[c.v] = c.value)
<1>. DEFINE s == ms[m]
            h == Vote(m, c.v, a, c.value)
            k == Vote(m, s.pending_v, s.pending_pn, s.log[s.pending_v])
<1>1. H \subseteq VoteType /\ OneValue(H) /\ VotesOK(H, K, ms)
  BY DEF Core, VotesOK
<1>2. h \in H /\ h.p = m /\ h.v = c.v /\ h.pn = a
  BY VoteFields DEF Voters
<1>3. /\ c.v \in Nat /\ s.first_committed \in Nat /\ s.last_committed \in Nat
      /\ s.pending_v \in Nat /\ s.pending_pn \in Nat
  BY DEF Core, Chosen, Monitors
<1>4. VoteOK(H, K, ms, h)
  BY <1>1, <1>2 DEF VotesOK
<1>5. /\ a <= s.pending_pn /\ c.v <= s.last_committed + 1
      /\ c.v = s.last_committed + 1 => s.pending_v = c.v
  <2>. HIDE DEF h
  <2>. QED
    BY <1>2, <1>4 DEF VoteOK
<1>6. CASE c.v <= s.last_committed
  BY <1>6, HasIt
<1>7. CASE ~(c.v <= s.last_committed)
  <2>1. c.v = s.last_committed + 1 /\ s.pending_v = c.v /\ s.pending_v > s.last_committed
    BY <1>3, <1>5, <1>7
  <2>2. k \in H
    BY <2>1 DEF Core, MonB
  <2>3. k.v = c.v /\ k.pn >= a /\ k.x = s.log[c.v]
    BY <1>3, <1>5, <2>1, VoteFields
  <2>. HIDE DEF k
  <2>4. k.x = c.value
    BY <1>1, <2>2, <2>3, VotedLater
  <2>5. c.v \in DOMAIN s.log
    BY <2>1, FitFacts
  <2>. QED
    BY <2>3, <2>4, <2>5 DEF Exists
<1>. QED
  BY <1>6, <1>7

\* Those that voted for a committed version have it, or have trimmed it.
LEMMA DurableGives == AgreeInv => CommittedIsDurable
<1>. DEFINE Has(c) == {m \in Rank : \/ mon[m].first_committed > c.v
                                    \/ Exists(mon[m], c.v) /\ mon[m].log[c.v] = c.value}
<1>. SUFFICES ASSUME AgreeInv, NEW c \in committed PROVE Majority(Has(c))
  BY DEF CommittedIsDurable
<1>1. \A m \in Rank : Fit(m, mon[m]) /\ mon[m] \in Monitors
  BY AgreeFacts
<1>2. PICK H, K : committed \subseteq K /\ Core(H, K, mon, net)
  BY AgreeFacts
<1>3. c \in K
  BY <1>2
<1>4. CASE N = 1
  <2>1. Rank = {0}
    BY <1>4 DEF Rank
  <2>2. c.v <= mon[0].last_committed
    BY <1>2, <1>3, <1>4, <2>1 DEF Core, Chosen
  <2>3. 0 \in Has(c)
    BY <1>1, <1>2, <1>3, <2>1, <2>2, HasIt
  <2>4. Has(c) = {0}
    BY <2>1, <2>3
  <2>5. Cardinality({0}) = 1
    BY FS_Singleton
  <2>. QED
    BY <1>4, <2>4, <2>5 DEF Majority
<1>5. CASE N # 1
  <2>1. N > 1
    BY <1>5, NAssumption
  <2>2. PICK a \in Nat : Majority(Voters(H, c.v, a, c.value))
    BY <1>2, <1>3, <1>5 DEF Core, Chosen
  <2>3. ASSUME NEW m \in Voters(H, c.v, a, c.value) PROVE m \in Has(c)
    <3>1. m \in Rank
      BY DEF Voters
    <3>. QED
      BY <1>1, <1>2, <1>3, <2>1, <2>2, <3>1, VoterHasIt
  <2>. DEFINE P == Voters(H, c.v, a, c.value)
  <2>4. P \subseteq Has(c) /\ Has(c) \subseteq Rank /\ Majority(P)
    BY <2>2, <2>3
  <2>. HIDE DEF P, Has
  <2>. QED
    BY <2>4, MajorityGrows
<1>. QED
  BY <1>4, <1>5

\* The timers of a monitor always match its role and its state: a peon has the lease
\* timeout and a leader the timers of what it is doing, through every reset
\* (cancel_events), election, timeout and restart.
THEOREM PaxosTimers == Spec => []TimersMatchState
<1>. QED
  BY TimersStart, TimersKept, TimersGive, PTL DEF Spec

\* As long as no vote is lost, the invariant holds.
LEMMA AgreeAlways == Spec /\ [][VotesKept]_vars => []AgreeInv
<1>. QED
  BY AgreeStart, AgreeKept, PTL DEF Spec

\* No version is ever committed with two values, with up to 100 monitors and any number
\* of elections, timeouts, lost messages and restarts, at any moment and of any monitor,
\* as long as handle_begin never stores a value over one stored under a higher number.
\* So a run in which the monitors disagree has such a step before it; the code does
\* not exclude it, since collect keeps the number of a leader in memory only.
THEOREM PaxosAgreement == Spec /\ [][VotesKept]_vars => []Agreement
  BY AgreeAlways, AgreeGives, PTL

\* Under the same condition a store has every version from first_committed to
\* last_committed and no other, except for a pending one: store_state, trim and a
\* restart, of a leader in the middle of its asynchronous commit too, leave no gap.
THEOREM PaxosStores == Spec /\ [][VotesKept]_vars => []StoreIsWhole
  BY AgreeAlways, WholeGives, PTL

\* Under the same condition a committed version is in the stores of a majority, or has
\* been trimmed there: a commit survives the loss of any minority.
THEOREM PaxosDurable == Spec /\ [][VotesKept]_vars => []CommittedIsDurable
  BY AgreeAlways, DurableGives, PTL

(***************************************************************************)
(* The refinement of ReplicatedLog.  A call ends at a version: the last     *)
(* one its monitor has, which no message it has sent is beyond.  A call     *)
(* learns what a message knew of, or commits one version; for N > 1 never   *)
(* two.                                                                     *)
(***************************************************************************)

\* What the state of a monitor consists of
Fields ==
  {"epoch", "role", "leader", "quorum", "log", "last_committed", "first_committed", "last_pn",
   "stored_pn", "pending_v", "pending_pn", "state", "accepted_pn", "uncommitted", "num_last",
   "peer_lc", "accepted", "new_value", "pending", "lease", "acked_lease", "events"}

\* s is a record of these.
Rec(s) == DOMAIN s = Fields /\ s.last_committed \in Nat

\* There are others in its quorum.
Others(m, s) == s.quorum # {m}

\* No message of a channel is beyond version l.
LowSeq(ch, l) == \E S : ch \in Seq(S) /\ \A x \in S : x.lc \in Nat /\ x.lc <= l

\* No message of out is.
Low(out, l) == \A d \in Rank : LowSeq(out[d], l)

\* Call r ends at version l.
At(r, l) == Rec(r.s) /\ r.s.last_committed = l /\ Low(r.out, l)

\* What is no further than one version is no further than a later one.
LEMMA LowGrows ==
  ASSUME NEW out, NEW k \in Nat, NEW l \in Nat, k <= l, Low(out, k)
  PROVE  Low(out, l)
<1>. SUFFICES ASSUME NEW d \in Rank
              PROVE  \E S : out[d] \in Seq(S) /\ \A x \in S : x.lc \in Nat /\ x.lc <= l
  BY DEF Low, LowSeq
<1>1. PICK S : out[d] \in Seq(S) /\ \A x \in S : x.lc \in Nat /\ x.lc <= k
  BY DEF Low, LowSeq
<1>2. \A x \in S : x.lc \in Nat /\ x.lc <= l
  BY <1>1
<1>. QED
  BY <1>1, <1>2

\* A call that sends nothing.
LEMMA LowNothing == \A l : Low(Nothing, l)
<1>1. \A d \in Rank : Nothing[d] = <<>>
  BY DEF Nothing
<1>. DEFINE E == {}
<1>2. <<>> \in Seq(E) /\ \A l : \A x \in E : x.lc \in Nat /\ x.lc <= l
  OBVIOUS
<1>. HIDE DEF E
<1>3. ASSUME NEW l, NEW d \in Rank
      PROVE  \E S : Nothing[d] \in Seq(S) /\ \A x \in S : x.lc \in Nat /\ x.lc <= l
  BY <1>1, <1>2
<1>. QED
  BY <1>3 DEF Low, LowSeq

\* A call that sends one message to some, as send_message does.
LEMMA LowSend ==
  ASSUME NEW X, NEW msg, NEW l, msg.lc \in Nat, msg.lc <= l
  PROVE  Low(SendTo(X, msg), l)
<1>. SUFFICES ASSUME NEW d \in Rank
              PROVE  \E S : SendTo(X, msg)[d] \in Seq(S) /\ \A x \in S : x.lc \in Nat /\ x.lc <= l
  BY DEF Low, LowSeq
<1>1. SendTo(X, msg)[d] = <<msg>> \/ SendTo(X, msg)[d] = <<>>
  BY DEF SendTo
<1>2. <<>> \in Seq({msg}) /\ <<msg>> \in Seq({msg})
  OBVIOUS
<1>3. SendTo(X, msg)[d] \in Seq({msg})
  BY <1>1, <1>2
<1>. QED
  BY <1>3

\* Two calls one after the other send what both of them send.
LEMMA LowThen ==
  ASSUME NEW r, NEW q, NEW l, Low(r.out, l), Low(q.out, l)
  PROVE  Low(Then(r, q).out, l)
<1>. SUFFICES ASSUME NEW d \in Rank
              PROVE  \E S : Then(r, q).out[d] \in Seq(S) /\ \A x \in S : x.lc \in Nat /\ x.lc <= l
  BY DEF Low, LowSeq
<1>. DEFINE u == r.out[d]
            w == q.out[d]
<1>1. Then(r, q).out[d] = u \o w
  BY DEF Then
<1>2. PICK A : u \in Seq(A) /\ \A x \in A : x.lc \in Nat /\ x.lc <= l
  BY DEF Low, LowSeq
<1>3. PICK B : w \in Seq(B) /\ \A x \in B : x.lc \in Nat /\ x.lc <= l
  BY DEF Low, LowSeq
<1>. HIDE DEF u, w
<1>. DEFINE S == A \cup B
<1>4. u \in Seq(S) /\ w \in Seq(S)
  BY <1>2, <1>3
<1>5. u \o w \in Seq(S)
  <2>. HIDE DEF S
  <2>. QED
    BY <1>4
<1>6. \A x \in S : x.lc \in Nat /\ x.lc <= l
  BY <1>2, <1>3
<1>. HIDE DEF S
<1>. QED
  BY <1>1, <1>5, <1>6

\* They end where the second one ends.
LEMMA ThenAt ==
  ASSUME NEW r, NEW q, NEW k \in Nat, NEW l \in Nat, k <= l, At(r, k), At(q, l)
  PROVE  At(Then(r, q), l)
<1>1. Low(r.out, l) /\ Low(q.out, l)
  BY LowGrows DEF At
<1>2. Then(r, q).s = q.s
  BY DEF Then
<1>. QED
  BY <1>1, <1>2, LowThen DEF At

\* A call that sends nothing ends where its state is.
LEMMA DoneAt ==
  ASSUME NEW s, Rec(s)
  PROVE  At(Done(s), s.last_committed)
<1>1. Done(s).s = s /\ Done(s).out = Nothing
  BY DEF Done
<1>. QED
  BY <1>1, LowNothing DEF At

\* So does one that sends a message that knows of no later version.
LEMMA SendsAt ==
  ASSUME NEW s, Rec(s), NEW X, NEW msg, msg.lc \in Nat, msg.lc <= s.last_committed
  PROVE  At(Sends(s, X, msg), s.last_committed) /\ Sends(s, X, msg).s = s
<1>1. Sends(s, X, msg).s = s /\ Sends(s, X, msg).out = SendTo(X, msg)
  BY DEF Sends
<1>. QED
  BY <1>1, LowSend DEF At

\* begin stays at its version: what it proposes is not committed yet.
LEMMA BeginAt ==
  ASSUME NEW m, NEW s, Rec(s), Others(m, s), NEW x, NEW st
  PROVE  At(Begin(m, s, x, st), s.last_committed) /\ Begin(m, s, x, st).s.state = st
<1>. DEFINE v == s.last_committed + 1
            t == [s EXCEPT !.state = st, !.accepted = {m}, !.new_value = x,
                           !.log = Over(One(v, x), @), !.pending_v = v,
                           !.pending_pn = s.accepted_pn]
            u == [t EXCEPT !.events = @ \cup {"accept"}]
            msg == [Msg("BEGIN", s) EXCEPT !.pn = s.accepted_pn, !.values = One(v, x),
                                           !.lc = s.last_committed]
<1>1. Begin(m, s, x, st) = Sends(u, s.quorum \ {m}, msg)
  BY DEF Begin, Others
<1>2. Rec(u) /\ u.last_committed = s.last_committed /\ u.state = st
  BY DEF Rec, Fields
<1>3. msg.lc = s.last_committed
  BY DEF Msg
<1>. HIDE DEF u, msg
<1>. QED
  BY <1>1, <1>2, <1>3, SendsAt DEF Rec

\* So does propose_pending, which ends in begin.
LEMMA ProposePendingAt ==
  ASSUME NEW m, NEW s, Rec(s), Others(m, s), NEW trim
  PROVE  /\ At(ProposePending(m, s, trim), s.last_committed)
         /\ ProposePending(m, s, trim).s.state = "updating"
<1>. DEFINE t == [s EXCEPT !.events = {}, !.pending = FALSE]
            x == [epoch |-> s.epoch, by |-> m, v |-> s.last_committed + 1, trim |-> trim]
            st == "updating"
<1>1. ProposePending(m, s, trim) = Begin(m, t, x, st)
  BY DEF ProposePending
<1>2. Rec(t) /\ t.last_committed = s.last_committed /\ Others(m, t)
  BY DEF Rec, Fields, Others
<1>. HIDE DEF t, x, st
<1>3. At(Begin(m, t, x, st), t.last_committed) /\ Begin(m, t, x, st).s.state = st
  BY <1>2, BeginAt
<1>. QED
  BY <1>1, <1>2, <1>3 DEF st

\* finish_round stays at its version.
LEMMA FinishRoundAt ==
  ASSUME NEW m, NEW s, Rec(s), Others(m, s)
  PROVE  At(FinishRound(m, s), s.last_committed) /\ ~IsWriting(FinishRound(m, s).s)
<1>. DEFINE t == [s EXCEPT !.state = "active"]
<1>1. FinishRound(m, s) \in {ProposePending(m, t, TrimTo(s)), Done(t)}
  BY DEF FinishRound
<1>2. Rec(t) /\ t.last_committed = s.last_committed /\ Others(m, t) /\ t.state = "active"
  BY DEF Rec, Fields, Others
<1>. HIDE DEF t
<1>3. Done(t).s = t
  BY DEF Done
<1>4. CASE FinishRound(m, s) = Done(t)
  BY <1>2, <1>3, <1>4, DoneAt DEF IsWriting
<1>5. CASE FinishRound(m, s) = ProposePending(m, t, TrimTo(s))
  BY <1>2, <1>5, ProposePendingAt DEF IsWriting
<1>. QED
  BY <1>1, <1>4, <1>5

\* extend_lease does, and its messages know of that version.
LEMMA ExtendLeaseAt ==
  ASSUME NEW m, NEW s, Rec(s)
  PROVE  /\ At(ExtendLease(m, s), s.last_committed)
         /\ ExtendLease(m, s).s.state = s.state /\ ExtendLease(m, s).s.quorum = s.quorum
<1>. DEFINE t == [s EXCEPT !.lease = TRUE, !.acked_lease = {m},
                           !.events = @ \cup {"lease_ack", "lease_renew"}]
            msg == [Msg("LEASE", s) EXCEPT !.lc = s.last_committed, !.fc = s.first_committed]
<1>1. ExtendLease(m, s) = Sends(t, s.quorum \ {m}, msg)
  BY DEF ExtendLease
<1>2. /\ Rec(t) /\ t.last_committed = s.last_committed
      /\ t.quorum = s.quorum /\ t.state = s.state
  BY DEF Rec, Fields
<1>3. msg.lc = s.last_committed
  BY DEF Msg
<1>. HIDE DEF t, msg
<1>. QED
  BY <1>1, <1>2, <1>3, SendsAt DEF Rec

\* Monitor::_reset stays at its version.
LEMMA ResetAt ==
  ASSUME NEW s, Rec(s)
  PROVE  /\ Rec(Reset(s)) /\ Reset(s).last_committed = s.last_committed
         /\ Reset(s).state = "recovering"
  BY DEF Reset, Rec, Fields

\* Applying the transactions of versions W leaves all else but the store alone.
LEMMA LearnAt ==
  ASSUME NEW s, Rec(s), NEW W, NEW values, Max(W) \in Nat
  PROVE  LET t == Learn(s, W, values)
         IN  /\ Rec(t) /\ t.last_committed = Max(W) /\ t.quorum = s.quorum
             /\ t.state = s.state /\ t.role = s.role
  BY DEF Learn, Rec, Fields

\* The maximum of one version
LEMMA OnlyMax == ASSUME NEW v \in Nat PROVE Max({v}) = v
<1>1. {v} \subseteq v .. v /\ {v} # {}
  OBVIOUS
<1>. QED
  BY <1>1, SetMax

\* commit_finish commits one version and begins no other commit.
LEMMA CommitFinishAt ==
  ASSUME NEW m, NEW s, Rec(s), Others(m, s)
  PROVE  At(CommitFinish(m, s), s.last_committed + 1) /\ ~IsWriting(CommitFinish(m, s).s)
<1>. DEFINE v == s.last_committed + 1
            o == One(v, s.new_value)
            a == Learn(s, {v}, o)
            t == [a EXCEPT !.lease = FALSE, !.new_value = NoValue]
            msg == [Msg("COMMIT", s) EXCEPT !.pn = s.accepted_pn, !.lc = v, !.values = o]
            c == Sends(t, s.quorum \ {m}, msg)
            l == Then(c, ExtendLease(m, t))
            f == FinishRound(m, l.s)
<1>1. CommitFinish(m, s) = IF NeedsBootstrap({v}, o) THEN [c EXCEPT !.s = Reset(t)]
                           ELSE Then(l, f)
  BY DEF CommitFinish, Others
<1>2. v \in Nat /\ Max({v}) = v
  BY OnlyMax DEF Rec
<1>3. Rec(a) /\ a.last_committed = v /\ a.quorum = s.quorum
  <2>. HIDE DEF v, o
  <2>. QED
    BY <1>2, LearnAt
<1>4. msg.lc = v
  BY DEF Msg
<1>. HIDE DEF a, o, v, msg
<1>5. Rec(t) /\ t.last_committed = v /\ t.quorum = s.quorum
  BY <1>3 DEF Rec, Fields
<1>. HIDE DEF t
<1>6. At(c, v) /\ c.s = t
  BY <1>2, <1>4, <1>5, SendsAt
<1>7. IsCall(c)
  BY CallMade
<1>. HIDE DEF c
<1>8. CASE NeedsBootstrap({v}, o)
  <2>1. CommitFinish(m, s).s = Reset(t) /\ CommitFinish(m, s).out = c.out
    BY <1>1, <1>7, <1>8, CallMade
  <2>2. Rec(Reset(t)) /\ Reset(t).last_committed = v /\ Reset(t).state = "recovering"
    BY <1>5, ResetAt
  <2>. QED
    BY <1>6, <2>1, <2>2 DEF At, IsWriting, v
<1>9. CASE ~NeedsBootstrap({v}, o)
  <2>. DEFINE e == ExtendLease(m, t)
  <2>1. At(e, v) /\ e.s.quorum = s.quorum
    BY <1>5, ExtendLeaseAt
  <2>. HIDE DEF e
  <2>2. At(Then(c, e), v) /\ Then(c, e).s = e.s
    <3>1. Then(c, e).s = e.s
      BY DEF Then
    <3>. QED
      BY <1>2, <1>6, <2>1, <3>1, ThenAt
  <2>3. At(l, v) /\ Others(m, l.s)
    BY <2>1, <2>2 DEF e, Others
  <2>. HIDE DEF l
  <2>4. At(f, v) /\ ~IsWriting(f.s)
    BY <2>3, FinishRoundAt DEF At
  <2>. HIDE DEF f
  <2>5. At(Then(l, f), v) /\ Then(l, f).s = f.s
    <3>1. Then(l, f).s = f.s
      BY DEF Then
    <3>. QED
      BY <1>2, <2>3, <2>4, <3>1, ThenAt
  <2>. QED
    BY <1>1, <1>9, <2>4, <2>5 DEF v
<1>. QED
  BY <1>8, <1>9

\* Where a monitor is when the commit that is being written has ended
Goal(s) == s.last_committed + (IF IsWriting(s) THEN 1 ELSE 0)

\* wait_for_paxos_write ends the commit that is being written, and commits no more.
LEMMA WaitForPaxosWriteAt ==
  ASSUME NEW m, NEW s, Rec(s), IsWriting(s) => Others(m, s)
  PROVE  At(WaitForPaxosWrite(m, s), Goal(s)) /\ IsCall(WaitForPaxosWrite(m, s))
<1>. DEFINE f == IF IsWriting(s) THEN CommitFinish(m, s) ELSE Done(s)
<1>1. At(f, Goal(s)) /\ ~IsWriting(f.s) /\ IsCall(f)
  <2>1. CASE IsWriting(s)
    BY <2>1, CommitFinishAt, CommitFinishCall DEF Goal
  <2>2. CASE ~IsWriting(s)
    <3>1. f = Done(s) /\ Done(s).s = s /\ IsCall(Done(s)) /\ Goal(s) = s.last_committed
      BY <2>2, CallMade DEF Done, Goal, Rec
    <3>. HIDE DEF f
    <3>. QED
      BY <2>2, <3>1, DoneAt
  <2>. QED
    BY <2>1, <2>2
<1>2. WaitForPaxosWrite(m, s) = IF IsWriting(f.s) THEN Then(f, CommitFinish(m, f.s)) ELSE f
  BY DEF WaitForPaxosWrite
<1>. HIDE DEF f
<1>. QED
  BY <1>1, <1>2

\* Monitor::bootstrap waits for the write and goes no further.
LEMMA BootstrapAt ==
  ASSUME NEW m, NEW s, Rec(s), IsWriting(s) => Others(m, s)
  PROVE  At(Bootstrap(m, s), Goal(s)) /\ IsCall(Bootstrap(m, s))
<1>. DEFINE w == WaitForPaxosWrite(m, s)
<1>1. At(w, Goal(s)) /\ IsCall(w)
  BY WaitForPaxosWriteAt
<1>2. Bootstrap(m, s) = [w EXCEPT !.s = Reset(w.s)]
  BY DEF Bootstrap
<1>. HIDE DEF w
<1>3. Bootstrap(m, s) = [s |-> Reset(w.s), out |-> w.out]
  BY <1>1, <1>2, CallMade
<1>4. Rec(Reset(w.s)) /\ Reset(w.s).last_committed = w.s.last_committed
  BY <1>1, ResetAt DEF At
<1>. QED
  BY <1>1, <1>3, <1>4 DEF At, IsCall

\* With nothing to wait for it stays at its version.
LEMMA BootstrapIdle ==
  ASSUME NEW m, NEW s, Rec(s), ~IsWriting(s)
  PROVE  At(Bootstrap(m, s), s.last_committed)
<1>1. Goal(s) = s.last_committed
  BY DEF Goal, Rec
<1>. QED
  BY <1>1, BootstrapAt

\* Elector::bump_epoch stays at its version.
LEMMA JoinElectionAt ==
  ASSUME NEW m, NEW s, Rec(s), IsWriting(s) => Others(m, s), NEW e
  PROVE  At(JoinElection(m, s, e), Goal(s)) /\ IsCall(JoinElection(m, s, e))
<1>. DEFINE t == [s EXCEPT !.epoch = e]
<1>1. Rec(t) /\ t.last_committed = s.last_committed /\ t.state = s.state /\ t.quorum = s.quorum
  BY DEF Rec, Fields
<1>2. JoinElection(m, s, e) = Bootstrap(m, t)
  BY DEF JoinElection
<1>. HIDE DEF t
<1>3. Goal(t) = Goal(s) /\ (IsWriting(t) => Others(m, t))
  BY <1>1 DEF Goal, IsWriting, Others
<1>. QED
  BY <1>1, <1>2, <1>3, BootstrapAt

\* collect stays at its version, which it asks the others about.
LEMMA CollectAt ==
  ASSUME NEW m, NEW s, Rec(s), NEW oldpn
  PROVE  At(Collect(m, s, oldpn), s.last_committed) /\ Collect(m, s, oldpn).s.state = "recovering"
<1>. DEFINE v   == s.last_committed + 1
            pn  == NewPn(m, s.last_pn, Larger(s.accepted_pn, oldpn))
            un  == IF Exists(s, v)
                   THEN [v |-> v, pn |-> PendingPn(s, s.accepted_pn), value |-> s.log[v]]
                   ELSE NoneUncommitted
            t   == [s EXCEPT !.state = "recovering", !.uncommitted = un,
                             !.peer_lc = <<>>, !.last_pn = pn, !.accepted_pn = pn,
                             !.num_last = 1, !.events = @ \cup {"collect"}]
            msg == [Msg("COLLECT", t) EXCEPT !.pn = pn, !.lc = s.last_committed,
                                             !.fc = s.first_committed]
<1>1. Collect(m, s, oldpn) = Sends(t, s.quorum \ {m}, msg)
  BY DEF Collect
<1>. HIDE DEF un, pn, v
<1>2. Rec(t) /\ t.last_committed = s.last_committed /\ t.state = "recovering"
  BY DEF Rec, Fields
<1>3. msg.lc = s.last_committed
  BY DEF Msg
<1>. HIDE DEF t, msg
<1>. QED
  BY <1>1, <1>2, <1>3, SendsAt DEF Rec

\* leader_init stays at its version when there are others in the quorum.
LEMMA LeaderInitAt ==
  ASSUME NEW m, NEW s, Rec(s), Others(m, s)
  PROVE  At(LeaderInit(m, s), s.last_committed)
<1>. DEFINE t == [s EXCEPT !.events = {}, !.new_value = NoValue, !.pending = TRUE]
            u == [t EXCEPT !.lease = FALSE]
<1>1. LeaderInit(m, s) = Collect(m, u, 0)
  BY DEF LeaderInit, Others
<1>2. Rec(u) /\ u.last_committed = s.last_committed
  BY DEF Rec, Fields
<1>. HIDE DEF u
<1>. DEFINE z == 0
<1>. HIDE DEF z
<1>3. At(Collect(m, u, z), u.last_committed)
  BY <1>2, CollectAt
<1>. QED
  BY <1>1, <1>2, <1>3 DEF z

\* store_state learns no more than the message knows.
LEMMA StoreStateAt ==
  ASSUME NEW s, Rec(s), NEW msg \in Messages
  PROVE  LET t == StoreState(s, msg)
         IN  /\ Rec(t) /\ t.quorum = s.quorum /\ t.state = s.state /\ t.role = s.role
             /\ s.last_committed <= t.last_committed
             /\ t.last_committed = s.last_committed \/ t.last_committed <= msg.lc
<1>. DEFINE W == News(s, msg)
            a == Learn(s, W, msg.values)
            t == StoreState(s, msg)
<1>1. CASE W = {}
  BY <1>1 DEF StoreState, Rec
<1>2. CASE W # {}
  <2>1. msg.lc \in Nat /\ s.last_committed \in Nat /\ DOMAIN msg.values \subseteq Nat
    BY VMapsDef DEF Messages, Rec
  <2>2. W \subseteq s.last_committed + 1 .. msg.lc
    BY <2>1 DEF News
  <2>3. t = [a EXCEPT !.uncommitted =
               IF @.v <= a.last_committed THEN NoneUncommitted ELSE @]
    BY <1>2 DEF StoreState
  <2>. HIDE DEF W
  <2>4. Max(W) \in s.last_committed + 1 .. msg.lc
    <3>1. s.last_committed + 1 \in Nat
      BY <2>1
    <3>2. Max(W) \in W
      BY <1>2, <2>1, <2>2, <3>1, SetMax
    <3>. QED
      BY <2>2, <3>2
  <2>5. /\ Rec(a) /\ a.last_committed = Max(W) /\ a.quorum = s.quorum
        /\ a.state = s.state /\ a.role = s.role
    BY <2>1, <2>4, LearnAt
  <2>. HIDE DEF a
  <2>6. /\ Rec(t) /\ t.last_committed = a.last_committed /\ t.quorum = a.quorum
        /\ t.state = a.state /\ t.role = a.role
    BY <2>3, <2>5 DEF Rec, Fields
  <2>. QED
    BY <2>1, <2>4, <2>5, <2>6
<1>. QED
  BY <1>1, <1>2

\* share_state tells those that are behind of no version that its monitor lacks.
LEMMA ShareCommitsAt ==
  ASSUME NEW s, Rec(s)
  PROVE  At(ShareCommits(s), s.last_committed) /\ ShareCommits(s).s = s /\ IsCall(ShareCommits(s))
<1>. DEFINE out == ShareCommits(s).out
            cm(d) == Share(s, Msg("COMMIT", s), s.peer_lc[d])
<1>1. ShareCommits(s).s = s /\ IsCall(ShareCommits(s))
  BY DEF ShareCommits, IsCall
<1>2. ASSUME NEW d \in Rank
      PROVE  \E S : out[d] \in Seq(S) /\ \A x \in S : x.lc \in Nat /\ x.lc <= s.last_committed
  <2>1. out[d] = <<cm(d)>> \/ out[d] = <<>>
    BY DEF ShareCommits
  <2>2. cm(d).lc = s.last_committed /\ s.last_committed \in Nat
    BY DEF Share, Msg, Rec
  <2>. HIDE DEF out, cm
  <2>3. <<>> \in Seq({cm(d)}) /\ <<cm(d)>> \in Seq({cm(d)})
    OBVIOUS
  <2>4. out[d] \in Seq({cm(d)})
    BY <2>1, <2>3
  <2>5. \A x \in {cm(d)} : x.lc \in Nat /\ x.lc <= s.last_committed
    BY <2>2
  <2>. QED
    BY <2>4, <2>5
<1>. QED
  BY <1>1, <1>2 DEF At, Low, LowSeq

\* What handle_last does when everyone has answered commits nothing.
LEMMA RecoveredAt ==
  ASSUME NEW m, NEW s, Rec(s), Others(m, s), s.state = "recovering", NEW ref
  PROVE  At(Recovered(m, s, ref), s.last_committed) /\ ~IsWriting(Recovered(m, s, ref).s)
<1>. DEFINE t  == [s EXCEPT !.events = @ \ {"collect"}, !.peer_lc = <<>>]
            l  == ExtendLease(m, t)
            f  == FinishRound(m, l.s)
            st == "updating-previous"
            x  == t.uncommitted.value
<1>1. Recovered(m, s, ref) \in {Begin(m, t, x, st), Then(l, f), l}
  BY DEF Recovered
<1>2. Rec(t) /\ t.last_committed = s.last_committed /\ Others(m, t) /\ t.state = "recovering"
  BY DEF Rec, Fields, Others
<1>. HIDE DEF t, x, st
<1>3. At(l, s.last_committed) /\ l.s.state = "recovering" /\ Others(m, l.s)
  BY <1>2, ExtendLeaseAt DEF Others
<1>. HIDE DEF l
<1>4. At(f, s.last_committed) /\ ~IsWriting(f.s)
  BY <1>3, FinishRoundAt DEF At
<1>. HIDE DEF f
<1>5. CASE Recovered(m, s, ref) = Begin(m, t, x, st)
  <2>1. At(Begin(m, t, x, st), s.last_committed) /\ Begin(m, t, x, st).s.state = st
    BY <1>2, BeginAt
  <2>. QED
    BY <1>5, <2>1 DEF st, IsWriting
<1>6. CASE Recovered(m, s, ref) = Then(l, f)
  <2>1. Then(l, f).s = f.s
    BY DEF Then
  <2>2. At(Then(l, f), s.last_committed)
    BY <1>3, <1>4, ThenAt DEF Rec
  <2>. QED
    BY <1>4, <1>6, <2>1, <2>2
<1>7. CASE Recovered(m, s, ref) = l
  BY <1>3, <1>7 DEF IsWriting
<1>. QED
  BY <1>1, <1>5, <1>6, <1>7

\* Call r of a monitor in state s knows of at most L, or has committed one version.
Grown(s, L, r) ==
  \E k \in Nat : At(r, k) /\ s.last_committed <= k /\ (k <= L \/ k = s.last_committed + 1)

\* A call that learns nothing has grown as it may.
LEMMA StaysGrown ==
  ASSUME NEW s, Rec(s), NEW L \in Nat, s.last_committed <= L, NEW r, At(r, s.last_committed)
  PROVE  Grown(s, L, r)
  BY DEF Grown, Rec

\* So has one that ends the commit that is being written.
LEMMA GoalGrown ==
  ASSUME NEW s, Rec(s), NEW L \in Nat, s.last_committed <= L, NEW r, At(r, Goal(s))
  PROVE  Grown(s, L, r)
<1>1. s.last_committed \in Nat /\ Goal(s) \in Nat
      /\ (Goal(s) = s.last_committed \/ Goal(s) = s.last_committed + 1)
  BY DEF Goal, Rec
<1>. QED
  BY <1>1 DEF Grown

\* handle_collect stays at its version and answers with no more than it has.
LEMMA HandleCollectAt ==
  ASSUME NEW m, NEW s, Rec(s), ~IsWriting(s), NEW x, NEW msg
  PROVE  At(HandleCollect(m, s, x, msg), s.last_committed)
<1>. DEFINE t     == [s EXCEPT !.state = "recovering", !.events = @ \cup {"lease"}]
            newer == msg.pn > s.accepted_pn
            u     == [t EXCEPT !.accepted_pn = IF newer THEN msg.pn ELSE @,
                               !.stored_pn   = IF newer THEN msg.pn ELSE @]
            last  == [Msg("LAST", s) EXCEPT !.pn = u.accepted_pn,
                                            !.lc = s.last_committed,
                                            !.fc = s.first_committed]
            next  == s.last_committed + 1
            upn   == IF Exists(s, next) THEN PendingPn(s, s.accepted_pn) ELSE 0
            ans   == IF msg.lc > s.last_committed THEN last
                     ELSE [last EXCEPT !.values = Restricted(s.log, msg.lc + 1 .. next),
                                       !.upn = upn]
<1>1. HandleCollect(m, s, x, msg) = IF msg.fc > next THEN Bootstrap(m, t) ELSE Sends(u, {x}, ans)
  BY DEF HandleCollect
<1>2. Rec(t) /\ t.last_committed = s.last_committed /\ t.state = "recovering"
  BY DEF Rec, Fields
<1>. HIDE DEF newer
<1>3. Rec(u) /\ u.last_committed = s.last_committed
  BY DEF Rec, Fields
<1>. HIDE DEF t, u, next, upn
<1>4. ans.lc = s.last_committed
  BY DEF Msg
<1>. HIDE DEF ans
<1>5. At(Bootstrap(m, t), s.last_committed)
  BY <1>2, BootstrapIdle DEF IsWriting
<1>6. At(Sends(u, {x}, ans), s.last_committed)
  BY <1>3, <1>4, SendsAt DEF Rec
<1>. QED
  BY <1>1, <1>5, <1>6

\* handle_begin accepts the version after its own, which is not committed by that.
LEMMA HandleBeginAt ==
  ASSUME NEW m, NEW s, Rec(s), NEW x, NEW msg
  PROVE  At(HandleBegin(m, s, x, msg), s.last_committed)
<1>. DEFINE v == s.last_committed + 1
            t == [s EXCEPT !.state = "updating", !.lease = FALSE,
                           !.log = Over(One(v, msg.values[v]), @),
                           !.pending_v = v, !.pending_pn = s.accepted_pn]
            a == [Msg("ACCEPT", s) EXCEPT !.pn = s.accepted_pn, !.lc = s.last_committed]
<1>1. HandleBegin(m, s, x, msg) \in {Done(s), Sends(t, {x}, a)}
  BY DEF HandleBegin
<1>2. Rec(t) /\ t.last_committed = s.last_committed
  BY DEF Rec, Fields
<1>3. a.lc = s.last_committed
  BY DEF Msg
<1>. HIDE DEF t, a
<1>4. At(Done(s), s.last_committed)
  BY DoneAt
<1>5. At(Sends(t, {x}, a), s.last_committed)
  BY <1>2, <1>3, SendsAt DEF Rec
<1>. QED
  BY <1>1, <1>4, <1>5

\* handle_accept starts to write a commit, which ends in a later step.
LEMMA HandleAcceptAt ==
  ASSUME NEW m, NEW s, Rec(s), NEW x, NEW msg
  PROVE  At(HandleAccept(m, s, x, msg), s.last_committed)
<1>. DEFINE t == [s EXCEPT !.accepted = @ \cup {x}]
<1>1. HandleAccept(m, s, x, msg) \in {Done(s), Done(CommitStart(t)), Done(t)}
  BY DEF HandleAccept
<1>2. /\ Rec(t) /\ t.last_committed = s.last_committed
  BY DEF Rec, Fields
<1>. HIDE DEF t
<1>3. Rec(CommitStart(t)) /\ CommitStart(t).last_committed = s.last_committed
  BY <1>2 DEF Rec, Fields, CommitStart
<1>4. \A z \in {s, t, CommitStart(t)} : At(Done(z), s.last_committed)
  BY <1>2, <1>3, DoneAt
<1>. QED
  BY <1>1, <1>4

\* handle_lease stays at its version.
LEMMA HandleLeaseAt ==
  ASSUME NEW m, NEW s, Rec(s), NEW x, NEW msg
  PROVE  At(HandleLease(m, s, x, msg), s.last_committed)
<1>. DEFINE t == [s EXCEPT !.lease = TRUE, !.state = "active", !.events = @ \cup {"lease"}]
            a == [Msg("LEASE_ACK", s) EXCEPT !.lc = s.last_committed, !.fc = s.first_committed]
<1>1. HandleLease(m, s, x, msg) \in {Done(s), Sends(t, {x}, a)}
  BY DEF HandleLease
<1>2. Rec(t) /\ t.last_committed = s.last_committed
  BY DEF Rec, Fields
<1>3. a.lc = s.last_committed
  BY DEF Msg
<1>. HIDE DEF t, a
<1>4. At(Done(s), s.last_committed)
  BY DoneAt
<1>5. At(Sends(t, {x}, a), s.last_committed)
  BY <1>2, <1>3, SendsAt DEF Rec
<1>. QED
  BY <1>1, <1>4, <1>5

\* handle_lease_ack stays at its version.
LEMMA HandleLeaseAckAt ==
  ASSUME NEW m, NEW s, Rec(s), NEW x, NEW msg
  PROVE  At(HandleLeaseAck(m, s, x, msg), s.last_committed)
<1>. DEFINE t == [s EXCEPT !.acked_lease = @ \cup {x}]
            u == [t EXCEPT !.events = @ \ {"lease_ack"}]
<1>1. HandleLeaseAck(m, s, x, msg) \in {Done(s), Done(u), Done(t)}
  BY DEF HandleLeaseAck
<1>2. /\ Rec(t) /\ t.last_committed = s.last_committed
      /\ Rec(u) /\ u.last_committed = s.last_committed
  BY DEF Rec, Fields
<1>. HIDE DEF t, u
<1>3. \A z \in {s, t, u} : At(Done(z), s.last_committed)
  BY <1>2, DoneAt
<1>. QED
  BY <1>1, <1>3

\* handle_commit learns of what the COMMIT carries.
LEMMA HandleCommitAt ==
  ASSUME NEW m, NEW s, Rec(s), ~IsWriting(s), NEW x, NEW msg \in Messages,
         NEW L \in Nat, s.last_committed <= L, msg.lc <= L
  PROVE  Grown(s, L, HandleCommit(m, s, x, msg))
<1>. DEFINE t == StoreState(s, msg)
<1>1. /\ Rec(t) /\ t.state = s.state /\ s.last_committed <= t.last_committed
      /\ t.last_committed = s.last_committed \/ t.last_committed <= msg.lc
  BY StoreStateAt
<1>2. HandleCommit(m, s, x, msg) \in {Bootstrap(m, t), Done(t)}
  BY DEF HandleCommit
<1>. HIDE DEF t
<1>3. At(Bootstrap(m, t), t.last_committed) /\ At(Done(t), t.last_committed)
  BY <1>1, BootstrapIdle, DoneAt DEF IsWriting
<1>4. t.last_committed \in Nat /\ msg.lc \in Nat
  BY <1>1 DEF Rec, Messages
<1>5. t.last_committed <= L
  BY <1>1, <1>4
<1>6. At(HandleCommit(m, s, x, msg), t.last_committed)
  BY <1>2, <1>3
<1>. QED
  BY <1>1, <1>4, <1>5, <1>6 DEF Grown

\* handle_victory ends the write it has to wait for, and no more.
LEMMA HandleVictoryAt ==
  ASSUME NEW m, NEW s, Rec(s), IsWriting(s) => Others(m, s), NEW x, NEW msg
  PROVE  At(HandleVictory(m, s, x, msg), Goal(s))
<1>. DEFINE b == JoinElection(m, s, msg.epoch)
            q == b.s
            p == PeonInit([q EXCEPT !.role = "peon", !.leader = x, !.quorum = msg.quorum])
            o == [q EXCEPT !.epoch = msg.epoch + 1]
            r == HandleVictory(m, s, x, msg)
<1>1. At(b, Goal(s)) /\ IsCall(b)
  BY JoinElectionAt
<1>2. r = IF msg.epoch = s.epoch + 1 THEN [b EXCEPT !.s = p] ELSE [b EXCEPT !.s = o]
  BY DEF HandleVictory
<1>. HIDE DEF b
<1>3. Rec(q) /\ q.last_committed = Goal(s)
  BY <1>1 DEF At
<1>. HIDE DEF q
<1>4. Rec(p) /\ p.last_committed = Goal(s)
  BY <1>3 DEF Rec, Fields, PeonInit
<1>5. Rec(o) /\ o.last_committed = Goal(s)
  BY <1>3 DEF Rec, Fields
<1>. HIDE DEF p, o, r
<1>6. r.out = b.out /\ (r.s = p \/ r.s = o)
  BY <1>1, <1>2, CallMade
<1>7. At(r, Goal(s))
  BY <1>1, <1>4, <1>5, <1>6 DEF At
<1>. QED
  BY <1>7 DEF r

\* handle_last learns of what the LAST carries, and commits nothing itself.
LEMMA HandleLastAt ==
  ASSUME NEW m, NEW s, Rec(s), NEW x, NEW msg \in Messages,
         s.role = "leader" => s.state = "recovering" /\ Others(m, s),
         NEW L \in Nat, s.last_committed <= L, msg.lc <= L
  PROVE  Grown(s, L, HandleLast(m, s, x, msg))
<1>. DEFINE heard == [s EXCEPT !.peer_lc = Over(One(x, msg.lc), @)]
            W     == News(s, msg)
            remap == NeedsBootstrap(W, msg.values)
            g     == StoreState(heard, msg)
            c     == ShareCommits(g)
            z     == [c.s EXCEPT !.events = @ \ {"collect"}]
            again == Collect(m, z, msg.pn)
            t     == LearnUncommitted([c.s EXCEPT !.num_last = @ + 1], msg)
            rec   == Recovered(m, t, ~remap)
            r     == IF msg.pn > s.accepted_pn THEN Then(c, again)
                     ELSE IF msg.pn < s.accepted_pn THEN c
                     ELSE IF t.num_last = Cardinality(s.quorum) THEN Then(c, rec)
                     ELSE [c EXCEPT !.s = t]
            q     == HandleLast(m, s, x, msg)
<1>1. q = IF s.role # "leader" THEN Done(s)
          ELSE IF msg.fc > s.last_committed + 1 THEN Bootstrap(m, heard)
          ELSE IF TooLow(c.s) # {} THEN Then(c, Bootstrap(m, c.s))
          ELSE IF remap THEN Then(r, Bootstrap(m, r.s))
          ELSE r
  BY DEF HandleLast
<1>2. CASE s.role # "leader"
  BY <1>1, <1>2, DoneAt, StaysGrown
<1>3. CASE s.role = "leader"
  <2>1. /\ Rec(heard) /\ heard.last_committed = s.last_committed
        /\ heard.state = "recovering" /\ Others(m, heard)
    BY <1>3 DEF Rec, Fields, Others
  <2>. HIDE DEF heard
  <2>2. /\ Rec(g) /\ g.state = "recovering" /\ Others(m, g)
        /\ s.last_committed <= g.last_committed
        /\ g.last_committed = s.last_committed \/ g.last_committed <= msg.lc
    BY <2>1, StoreStateAt DEF Others
  <2>. DEFINE k == g.last_committed
  <2>3. k \in Nat /\ s.last_committed \in Nat /\ s.last_committed <= k /\ k <= L
    BY <2>2 DEF Rec, Messages
  <2>. HIDE DEF g
  <2>4. At(c, k) /\ c.s = g /\ IsCall(c)
    BY <2>2, ShareCommitsAt
  <2>. HIDE DEF c
  <2>5. At(again, k) /\ again.s.state = "recovering"
    <3>1. Rec(z) /\ z.last_committed = k
      BY <2>2, <2>4 DEF Rec, Fields
    <3>. HIDE DEF z
    <3>. QED
      BY <3>1, CollectAt
  <2>. HIDE DEF again
  <2>6. Rec(t) /\ t.last_committed = k /\ t.state = "recovering" /\ Others(m, t)
    <3>. DEFINE y == [c.s EXCEPT !.num_last = @ + 1]
                un == [v |-> msg.lc + 1, pn |-> msg.upn, value |-> msg.values[msg.lc + 1]]
    <3>1. Rec(y) /\ y.last_committed = k /\ y.state = "recovering" /\ Others(m, y)
      BY <2>2, <2>4 DEF Rec, Fields, Others
    <3>2. t \in {y, [y EXCEPT !.uncommitted = un]}
      BY DEF LearnUncommitted
    <3>. HIDE DEF y, un, t, k
    <3>. QED
      BY <3>1, <3>2 DEF Rec, Fields, Others
  <2>. HIDE DEF t
  <2>7. At(rec, k) /\ ~IsWriting(rec.s)
    BY <2>6, RecoveredAt
  <2>. HIDE DEF rec, k, remap
  <2>8. At(r, k) /\ ~IsWriting(r.s)
    <3>1. At(Then(c, again), k) /\ ~IsWriting(Then(c, again).s)
      <4>1. Then(c, again).s = again.s
        BY DEF Then
      <4>. QED
        BY <2>3, <2>4, <2>5, <4>1, ThenAt DEF IsWriting
    <3>2. At(Then(c, rec), k) /\ ~IsWriting(Then(c, rec).s)
      <4>1. Then(c, rec).s = rec.s
        BY DEF Then
      <4>. QED
        BY <2>3, <2>4, <2>7, <4>1, ThenAt
    <3>3. At([c EXCEPT !.s = t], k) /\ ~IsWriting([c EXCEPT !.s = t].s)
      <4>1. [c EXCEPT !.s = t].s = t /\ [c EXCEPT !.s = t].out = c.out
        BY <2>4, CallMade
      <4>. QED
        BY <2>4, <2>6, <4>1 DEF At, IsWriting
    <3>4. At(c, k) /\ ~IsWriting(c.s)
      BY <2>2, <2>4 DEF IsWriting
    <3>. QED
      BY <3>1, <3>2, <3>3, <3>4
  <2>. HIDE DEF r
  <2>9. At(Then(r, Bootstrap(m, r.s)), k)
    <3>1. Rec(r.s) /\ r.s.last_committed = k
      BY <2>8 DEF At
    <3>2. At(Bootstrap(m, r.s), k)
      BY <2>8, <3>1, BootstrapIdle
    <3>. QED
      BY <2>3, <2>8, <3>2, ThenAt
  <2>10. At(Then(c, Bootstrap(m, c.s)), k)
    <3>1. Rec(c.s) /\ c.s.last_committed = k /\ ~IsWriting(c.s)
      BY <2>2, <2>4 DEF At, IsWriting
    <3>2. At(Bootstrap(m, c.s), k)
      BY <3>1, BootstrapIdle
    <3>. QED
      BY <2>3, <2>4, <3>2, ThenAt
  <2>11. At(Bootstrap(m, heard), s.last_committed)
    BY <2>1, BootstrapIdle DEF IsWriting
  <2>. HIDE DEF q
  <2>12. At(q, k) \/ At(q, s.last_committed)
    BY <1>1, <1>3, <2>8, <2>9, <2>10, <2>11
  <2>13. Grown(s, L, q)
    BY <2>3, <2>12 DEF Grown
  <2>. QED
    BY <2>13 DEF q
<1>. QED
  BY <1>2, <1>3

\* What a monitor may get, and what it is then like
Expected(m, s, msg) ==
  /\ IsWriting(s) => Others(m, s)
  /\ msg.op \in {"COLLECT", "COMMIT"} => ~IsWriting(s)
  /\ msg.op = "LAST" /\ s.role = "leader" => s.state = "recovering" /\ Others(m, s)

\* Every handler learns of what its message knew of, or commits one version.
LEMMA HandlerAt ==
  ASSUME NEW m, NEW s, Rec(s), NEW x, NEW msg \in Messages, Expected(m, s, msg),
         NEW L \in Nat, s.last_committed <= L, msg.lc <= L
  PROVE  Grown(s, L, Handler(m, s, x, msg))
<1>1. msg.op \in {"VICTORY", "COLLECT", "LAST", "BEGIN", "ACCEPT", "COMMIT", "LEASE", "LEASE_ACK"}
  BY DEF Messages, Ops
<1>2. CASE msg.op = "VICTORY"
  <2>1. Handler(m, s, x, msg) = HandleVictory(m, s, x, msg)
    BY <1>2 DEF Handler
  <2>. QED
    BY <2>1, HandleVictoryAt, GoalGrown DEF Expected
<1>3. CASE msg.op = "COLLECT"
  <2>1. Handler(m, s, x, msg) = HandleCollect(m, s, x, msg)
    BY <1>3 DEF Handler
  <2>. QED
    BY <1>3, <2>1, HandleCollectAt, StaysGrown DEF Expected
<1>4. CASE msg.op = "LAST"
  <2>1. Handler(m, s, x, msg) = HandleLast(m, s, x, msg)
    BY <1>4 DEF Handler
  <2>. QED
    BY <1>4, <2>1, HandleLastAt DEF Expected
<1>5. CASE msg.op = "BEGIN"
  <2>1. Handler(m, s, x, msg) = HandleBegin(m, s, x, msg)
    BY <1>5 DEF Handler
  <2>. QED
    BY <2>1, HandleBeginAt, StaysGrown
<1>6. CASE msg.op = "ACCEPT"
  <2>1. Handler(m, s, x, msg) = HandleAccept(m, s, x, msg)
    BY <1>6 DEF Handler
  <2>. QED
    BY <2>1, HandleAcceptAt, StaysGrown
<1>7. CASE msg.op = "COMMIT"
  <2>1. Handler(m, s, x, msg) = HandleCommit(m, s, x, msg)
    BY <1>7 DEF Handler
  <2>. QED
    BY <1>7, <2>1, HandleCommitAt DEF Expected
<1>8. CASE msg.op = "LEASE"
  <2>1. Handler(m, s, x, msg) = HandleLease(m, s, x, msg)
    BY <1>8 DEF Handler
  <2>. QED
    BY <2>1, HandleLeaseAt, StaysGrown
<1>9. CASE msg.op = "LEASE_ACK"
  <2>1. Handler(m, s, x, msg) = HandleLeaseAck(m, s, x, msg)
    BY <1>9 DEF Handler
  <2>. QED
    BY <2>1, HandleLeaseAckAt, StaysGrown
<1>. QED
  BY <1>1, <1>2, <1>3, <1>4, <1>5, <1>6, <1>7, <1>8, <1>9

-----------------------------------------------------------------------------
\* A part of a channel has none but its messages.
LEMMA PartLow ==
  ASSUME NEW ch, NEW l, LowSeq(ch, l)
  PROVE  /\ LowSeq(<<>>, l) /\ Len(ch) \in Nat
         /\ ch # <<>> => LowSeq(Tail(ch), l) /\ Head(ch).lc \in Nat /\ Head(ch).lc <= l
         /\ \A i \in 1 .. Len(ch) : LowSeq(SubSeq(ch, i, Len(ch)), l)
         /\ \A k \in Nat : k <= Len(ch) => LowSeq(SubSeq(ch, 1, k), l)
<1>1. PICK S : ch \in Seq(S) /\ \A x \in S : x.lc \in Nat /\ x.lc <= l
  BY DEF LowSeq
<1>2. <<>> \in Seq(S) /\ Len(ch) \in Nat
  BY <1>1
<1>3. ch # <<>> => Tail(ch) \in Seq(S) /\ Head(ch) \in S
  BY <1>1
<1>4. \A i \in 1 .. Len(ch) : SubSeq(ch, i, Len(ch)) \in Seq(S)
  BY <1>1, SMT
<1>5. \A k \in Nat : k <= Len(ch) => SubSeq(ch, 1, k) \in Seq(S)
  BY <1>1, SMT
<1>6. ASSUME NEW u \in Seq(S) PROVE LowSeq(u, l)
  BY <1>1 DEF LowSeq
<1>. QED
  BY <1>1, <1>2, <1>3, <1>4, <1>5, <1>6

\* Messages put behind others in a channel
LEMMA ConcatLow ==
  ASSUME NEW u, NEW w, NEW l, LowSeq(u, l), LowSeq(w, l)
  PROVE  LowSeq(u \o w, l)
<1>1. PICK A : u \in Seq(A) /\ \A x \in A : x.lc \in Nat /\ x.lc <= l
  BY DEF LowSeq
<1>2. PICK B : w \in Seq(B) /\ \A x \in B : x.lc \in Nat /\ x.lc <= l
  BY DEF LowSeq
<1>. DEFINE S == A \cup B
<1>3. u \in Seq(S) /\ w \in Seq(S)
  BY <1>1, <1>2
<1>4. u \o w \in Seq(S)
  <2>. HIDE DEF S
  <2>. QED
    BY <1>3
<1>5. \A x \in S : x.lc \in Nat /\ x.lc <= l
  BY <1>1, <1>2
<1>. HIDE DEF S
<1>. QED
  BY <1>4, <1>5 DEF LowSeq

\* No channel has a message beyond version l.
LowNet(n, l) == \A x, d \in Rank : LowSeq(n[x][d], l)

\* What dispatch_op drops unheard takes nothing further.
LEMMA DeliveredLow ==
  ASSUME NEW n, NEW l, LowNet(n, l), NEW ms
  PROVE  LowNet(Delivered(n, ms), l)
<1>. SUFFICES ASSUME NEW x \in Rank, NEW d \in Rank PROVE LowSeq(Delivered(n, ms)[x][d], l)
  BY DEF LowNet
<1>. DEFINE ch == n[x][d]
            h  == {i \in 1 .. Len(ch) : Heard(ms[d], ch[i])}
<1>1. Delivered(n, ms)[x][d] = IF h = {} THEN <<>> ELSE SubSeq(ch, Min(h), Len(ch))
  BY DEF Delivered
<1>2. LowSeq(ch, l)
  BY DEF LowNet
<1>. HIDE DEF ch
<1>3. Len(ch) \in Nat
  BY <1>2, PartLow
<1>4. h \subseteq Nat /\ h \subseteq 1 .. Len(ch)
  BY <1>3
<1>. HIDE DEF h
<1>5. h # {} => Min(h) \in 1 .. Len(ch)
  BY <1>4, SetMin
<1>. QED
  BY <1>1, <1>2, <1>5, PartLow

\* What a step takes from the channels and puts into them
LEMMA PlusLow ==
  ASSUME NEW n, NEW l, LowNet(n, l), NEW m, NEW F, \A x \in F \cap Rank : n[x][m] # <<>>,
         NEW out, Low(out, l)
  PROVE  LowNet(Plus(Pop(n, F, m), m, out), l)
<1>. SUFFICES ASSUME NEW x \in Rank, NEW d \in Rank
              PROVE  LowSeq(Plus(Pop(n, F, m), m, out)[x][d], l)
  BY DEF LowNet
<1>. DEFINE u == IF x \in F /\ d = m THEN Tail(n[x][d]) ELSE n[x][d]
            w == IF x = m THEN out[d] ELSE <<>>
<1>1. Plus(Pop(n, F, m), m, out)[x][d] = u \o w
  BY DEF Plus, Pop
<1>2. LowSeq(n[x][d], l) /\ LowSeq(out[d], l)
  BY DEF LowNet, Low
<1>3. LowSeq(u, l)
  BY <1>2, PartLow
<1>4. LowSeq(w, l)
  BY <1>2, PartLow
<1>. HIDE DEF u, w
<1>. QED
  BY <1>1, <1>3, <1>4, ConcatLow

\* All channels, for a later version
LEMMA NetGrows ==
  ASSUME NEW n, NEW k \in Nat, NEW l \in Nat, k <= l, LowNet(n, k)
  PROVE  LowNet(n, l)
<1>1. ASSUME NEW x \in Rank PROVE Low(n[x], l)
  <2>1. Low(n[x], k)
    BY <1>1 DEF LowNet, Low
  <2>. QED
    BY <2>1, LowGrows
<1>. QED
  BY <1>1 DEF LowNet, Low

\* L is the last version that anybody has committed or is told of.
Top(L, C, ms, n) ==
  /\ L \in Nat
  /\ \A v \in 1 .. L : \E c \in C : c.v = v
  /\ \A c \in C : c.v <= L
  /\ \A m \in Rank : ms[m].last_committed <= L
  /\ LowNet(n, L)

\* m takes a step, in which it learns or commits.
Onwards(m, L) ==
  LET k == mon'[m].last_committed
      top == IF k <= L THEN L ELSE k
  IN  /\ k \in Nat /\ mon[m].last_committed <= k
      /\ k <= L \/ k = mon[m].last_committed + 1
      /\ \A p \in Rank \ {m} : mon'[p] = mon[p]
      /\ committed' = committed \cup CommittedBy(mon'[m])
      /\ LowNet(net', top)

\* A step whose call has grown as it may is a step onwards.
LEMMA StepOnwards ==
  ASSUME NEW L, Top(L, committed, mon, net), mon \in [Rank -> Monitors], NEW m \in Rank, NEW F,
         \A x \in F \cap Rank : net[x][m] # <<>>, NEW r, Step(m, F, r), Grown(mon[m], L, r)
  PROVE  Onwards(m, L)
<1>. DEFINE o == Plus(Pop(net, F, m), m, r.out)
<1>1. /\ mon' = [mon EXCEPT ![m] = r.s] /\ committed' = committed \cup CommittedBy(r.s)
      /\ net' = Delivered(o, mon')
  BY StepShape
<1>2. mon'[m] = r.s /\ \A p \in Rank \ {m} : mon'[p] = mon[p]
  BY <1>1
<1>3. PICK k \in Nat : /\ At(r, k) /\ mon[m].last_committed <= k
                       /\ k <= L \/ k = mon[m].last_committed + 1
  BY DEF Grown
<1>4. r.s.last_committed = k /\ Low(r.out, k) /\ L \in Nat /\ LowNet(net, L)
  BY <1>3 DEF At, Top
<1>. DEFINE top == IF k <= L THEN L ELSE k
<1>5. top \in Nat /\ k <= top /\ L <= top
  BY <1>4
<1>. HIDE DEF top
<1>6. LowNet(net, top) /\ Low(r.out, top)
  BY <1>4, <1>5, NetGrows, LowGrows
<1>7. LowNet(o, top)
  BY <1>6, PlusLow
<1>. HIDE DEF o
<1>8. LowNet(net', top)
  <2>. DEFINE ms == mon'
  <2>. HIDE DEF ms
  <2>1. net' = Delivered(o, ms)
    BY <1>1 DEF ms
  <2>. QED
    BY <1>7, <2>1, DeliveredLow
<1>. QED
  BY <1>1, <1>2, <1>3, <1>4, <1>8 DEF Onwards, top

-----------------------------------------------------------------------------
\* What the steps below need to know of m
LEMMA MemberFacts ==
  ASSUME AgreeInv, N > 1, NEW m \in Rank
  PROVE  /\ mon \in [Rank -> Monitors] /\ mon[m] \in Monitors /\ Rec(mon[m])
         /\ IsWriting(mon[m]) => mon[m].role = "leader"
         /\ mon[m].role = "leader" => Others(m, mon[m])
         /\ AskInv(mon, net)
<1>1. Sound(TRUE, committed, mon, net)
  BY DEF AgreeInv
<1>2. mon \in [Rank -> Monitors] /\ mon[m] \in Monitors /\ Fit(m, mon[m])
  BY <1>1, SoundFacts
<1>3. AskInv(mon, net)
  BY <1>1 DEF Sound
<1>4. Rec(mon[m])
  BY <1>2 DEF Monitors, Rec, Fields
<1>. QED
  BY <1>2, <1>3, <1>4, FitFacts DEF MemoryOK, Others

\* Receive goes onwards: the message it takes knew of no version beyond L.
LEMMA ReceiveOnwards ==
  ASSUME AgreeInv, N > 1, NEW L, Top(L, committed, mon, net), NEW m \in Rank, NEW x \in Rank,
         Receive(m, x)
  PROVE  Onwards(m, L)
<1>. DEFINE ch == net[x][m]
            s == mon[m]
            msg == Head(ch)
            r == IF msg.op # "VICTORY" /\ msg.epoch > s.epoch THEN Bootstrap(m, s)
                 ELSE Handler(m, s, x, msg)
<1>1. /\ ch # <<>> /\ Step(m, {x}, r)
      /\ ForPaxos(s, msg) => FromQuorum(s, x) /\ Asserted(s, x, msg)
  BY DEF Receive
<1>2. /\ mon \in [Rank -> Monitors] /\ s \in Monitors /\ Rec(s) /\ AskInv(mon, net)
      /\ IsWriting(s) => s.role = "leader"
      /\ s.role = "leader" => Others(m, s)
  BY MemberFacts
<1>3. msg \in Messages /\ 1 \in 1 .. Len(ch) /\ msg = ch[1]
  BY <1>1, <1>2, HeadIs DEF AskInv
<1>4. L \in Nat /\ s.last_committed <= L /\ msg.lc <= L
  BY <1>1, PartLow DEF Top, LowNet
<1>5. msg.epoch >= s.epoch /\ msg.epoch \in Nat /\ s.epoch \in Nat
  <2>1. PICK D : NetOK(D, mon, net)
    BY DEF AgreeInv, PaxosInv
  <2>2. HeadOK(s, ch)
    BY <2>1 DEF NetOK
  <2>. HIDE DEF ch, msg
  <2>. QED
    BY <1>2, <1>3, <2>2 DEF HeadOK, Messages, Monitors
<1>. HIDE DEF ch
<1>6. Grown(s, L, r)
  <2>1. CASE msg.op # "VICTORY" /\ msg.epoch > s.epoch
    <3>1. r = Bootstrap(m, s)
      BY <2>1
    <3>. HIDE DEF r, s, msg
    <3>2. At(Bootstrap(m, s), Goal(s))
      BY <1>2, BootstrapAt
    <3>. QED
      BY <1>2, <1>4, <3>1, <3>2, GoalGrown
  <2>2. CASE ~(msg.op # "VICTORY" /\ msg.epoch > s.epoch)
    <3>1. r = Handler(m, s, x, msg)
      BY <2>2
    <3>2. msg.op = "VICTORY" \/ msg.epoch = s.epoch
      <4>. HIDE DEF msg, s
      <4>. QED
        BY <1>5, <2>2
    <3>3. msg.op \in {"COLLECT", "COMMIT"} => s.role = "peon"
      BY <1>1, <3>2 DEF ForPaxos, Asserted
    <3>4. msg.op = "LAST" /\ s.role = "leader" => s.state = "recovering"
      <4>. SUFFICES ASSUME msg.op = "LAST", s.role = "leader" PROVE s.state = "recovering"
        OBVIOUS
      <4>1. msg.epoch = mon[m].epoch
        BY <3>2
      <4>. QED
        BY <1>1, <1>2, <4>1, LastComes DEF ch
    <3>5. Expected(m, s, msg)
      BY <1>2, <3>3, <3>4 DEF Expected
    <3>. HIDE DEF r, s, msg
    <3>. QED
      BY <1>2, <1>3, <1>4, <3>1, <3>5, HandlerAt
  <2>. QED
    BY <2>1, <2>2
<1>7. \A y \in {x} \cap Rank : net[y][m] # <<>>
  BY <1>1 DEF ch
<1>. HIDE DEF r
<1>. QED
  BY <1>1, <1>2, <1>6, <1>7, StepOnwards

\* Win goes onwards: leader_init asks the others, and learns nothing yet.
LEMMA WinOnwards ==
  ASSUME AgreeInv, N > 1, NEW L, Top(L, committed, mon, net), NEW m \in Rank, Win(m)
  PROVE  Onwards(m, L)
<1>1. PICK Q \in SUBSET Rank :
        /\ m \in Q /\ Majority(Q)
        /\ LET w == [mon[m] EXCEPT !.epoch = @ + 1, !.role = "leader",
                                   !.leader = m, !.quorum = Q]
               v == Sends(w, Q \ {m}, [Msg("VICTORY", w) EXCEPT !.quorum = Q])
           IN  Step(m, {}, Then(v, LeaderInit(m, w)))
  BY ZenonT(60) DEF Win
<1>. DEFINE s == mon[m]
            w == [s EXCEPT !.epoch = @ + 1, !.role = "leader", !.leader = m, !.quorum = Q]
            msg == [Msg("VICTORY", w) EXCEPT !.quorum = Q]
            v == Sends(w, Q \ {m}, msg)
            i == LeaderInit(m, w)
            r == Then(v, i)
<1>2. Step(m, {}, r)
  BY <1>1
<1>3. mon \in [Rank -> Monitors] /\ Rec(s)
  BY MemberFacts
<1>4. Q # {m}
  <2>1. Cardinality({m}) = 1
    BY FS_Singleton
  <2>. QED
    BY <1>1, <2>1, NAssumption DEF Majority
<1>5. Rec(w) /\ w.last_committed = s.last_committed /\ w.quorum = Q
  BY <1>3 DEF Rec, Fields
<1>6. msg.lc = 0
  BY DEF Msg
<1>7. L \in Nat /\ s.last_committed <= L /\ s.last_committed \in Nat
  BY <1>3 DEF Top, Rec
<1>. HIDE DEF w, msg, s
<1>8. At(v, s.last_committed)
  BY <1>5, <1>6, <1>7, SendsAt
<1>9. At(i, s.last_committed)
  BY <1>4, <1>5, LeaderInitAt DEF Others
<1>. HIDE DEF v, i
<1>10. At(r, s.last_committed)
  BY <1>7, <1>8, <1>9, ThenAt
<1>. HIDE DEF r
<1>11. Grown(s, L, r)
  BY <1>3, <1>7, <1>10, StaysGrown
<1>. QED
  BY <1>2, <1>3, <1>11, StepOnwards DEF s

\* The steps that take no message go onwards: at most the write of a commit ends.
LEMMA LocalOnwards ==
  ASSUME AgreeInv, N > 1, NEW L, Top(L, committed, mon, net), NEW m \in Rank,
         FinishCommit(m) \/ Propose(m) \/ Timeout(m) \/ RenewLease(m) \/ Elect(m)
  PROVE  Onwards(m, L)
<1>. DEFINE s == mon[m]
<1>1. /\ mon \in [Rank -> Monitors] /\ Rec(s)
      /\ IsWriting(s) => Others(m, s)
      /\ s.role = "leader" => Others(m, s)
  BY MemberFacts
<1>2. L \in Nat /\ s.last_committed <= L
  BY DEF Top
<1>3. ASSUME NEW r, Step(m, {}, r), Grown(s, L, r) PROVE Onwards(m, L)
  BY <1>1, <1>3, StepOnwards
<1>4. CASE FinishCommit(m)
  <2>1. IsWriting(s) /\ Step(m, {}, CommitFinish(m, s))
    BY <1>4 DEF FinishCommit
  <2>2. At(CommitFinish(m, s), Goal(s))
    BY <1>1, <2>1, CommitFinishAt DEF Goal
  <2>. QED
    BY <1>1, <1>2, <1>3, <2>1, <2>2, GoalGrown
<1>5. CASE Propose(m)
  <2>. DEFINE t == [s EXCEPT !.pending = TRUE]
              z == 0
              r == IF s.state = "active" THEN ProposePending(m, s, z) ELSE Done(t)
  <2>1. s.role = "leader" /\ Step(m, {}, r)
    BY <1>5 DEF Propose
  <2>2. Rec(t) /\ t.last_committed = s.last_committed
    BY <1>1 DEF Rec, Fields
  <2>. HIDE DEF t, z, s
  <2>3. At(Done(t), s.last_committed)
    BY <2>2, DoneAt
  <2>4. At(ProposePending(m, s, z), s.last_committed)
    BY <1>1, <2>1, ProposePendingAt
  <2>5. At(r, s.last_committed)
    BY <2>3, <2>4
  <2>. HIDE DEF r
  <2>6. Grown(s, L, r)
    BY <1>1, <1>2, <2>5, StaysGrown
  <2>. QED
    BY <1>3, <2>1, <2>6
<1>6. CASE Timeout(m)
  <2>1. Step(m, {}, Bootstrap(m, s))
    BY <1>6 DEF Timeout
  <2>2. At(Bootstrap(m, s), Goal(s))
    BY <1>1, BootstrapAt
  <2>. QED
    BY <1>1, <1>2, <1>3, <2>1, <2>2, GoalGrown
<1>7. CASE RenewLease(m)
  <2>. DEFINE t == [s EXCEPT !.events = @ \ {"lease_renew"}]
  <2>1. Step(m, {}, ExtendLease(m, t))
    BY <1>7 DEF RenewLease
  <2>2. Rec(t) /\ t.last_committed = s.last_committed
    BY <1>1 DEF Rec, Fields
  <2>. HIDE DEF t, s
  <2>3. At(ExtendLease(m, t), s.last_committed)
    BY <2>2, ExtendLeaseAt
  <2>4. Grown(s, L, ExtendLease(m, t))
    BY <1>1, <1>2, <2>3, StaysGrown
  <2>. QED
    BY <1>3, <2>1, <2>4
<1>8. CASE Elect(m)
  <2>1. PICK e \in mon[m].epoch + 1 .. EpochBound : Step(m, {}, JoinElection(m, s, e))
    BY <1>8 DEF Elect
  <2>2. At(JoinElection(m, s, e), Goal(s))
    BY <1>1, JoinElectionAt
  <2>. QED
    BY <1>1, <1>2, <1>3, <2>1, <2>2, GoalGrown
<1>. QED
  BY <1>4, <1>5, <1>6, <1>7, <1>8

\* Restart and Abort: what was being written is there or is not.
LEMMA DieOnwards ==
  ASSUME AgreeInv, N > 1, NEW L, Top(L, committed, mon, net), NEW m \in Rank, Die(m)
  PROVE  Onwards(m, L)
<1>. DEFINE s == mon[m]
            v == s.last_committed + 1
            a == Learn(s, {v}, One(v, s.new_value))
            top == Max({Len(net[m][d]) : d \in Rank})
<1>1. mon \in [Rank -> Monitors] /\ Rec(s)
  BY MemberFacts
<1>2. L \in Nat /\ s.last_committed <= L /\ LowNet(net, L) /\ s.last_committed \in Nat
  BY <1>1 DEF Top, Rec
<1>3. PICK t : /\ t = Reloaded(a) \/ t = Reloaded(s)
               /\ mon' = [mon EXCEPT ![m] = t] /\ committed' = committed \cup CommittedBy(t)
  BY DEF Die
<1>4. mon'[m] = t /\ \A p \in Rank \ {m} : mon'[p] = mon[p]
  BY <1>1, <1>3
<1>5. PICK keep \in [Rank -> 0 .. top] :
             /\ \A d \in Rank : keep[d] <= Len(net[m][d])
             /\ net' = [x \in Rank |-> [d \in Rank |->
                          IF x = m THEN SubSeq(net[x][d], 1, keep[d])
                          ELSE IF d = m THEN <<>> ELSE net[x][d]]]
  BY DEF Die
<1>. HIDE DEF top
<1>6. LowNet(net', L)
  <2>1. ASSUME NEW x \in Rank, NEW d \in Rank PROVE LowSeq(net'[x][d], L)
    <3>1. net'[x][d] = IF x = m THEN SubSeq(net[x][d], 1, keep[d])
                       ELSE IF d = m THEN <<>> ELSE net[x][d]
      BY <1>5
    <3>2. LowSeq(net[x][d], L) /\ keep[d] \in Nat
      BY <1>2, <1>5 DEF LowNet
    <3>3. x = m => keep[d] <= Len(net[x][d])
      BY <1>5
    <3>. QED
      BY <3>1, <3>2, <3>3, PartLow
  <2>. QED
    BY <2>1 DEF LowNet
<1>7. t.last_committed \in {s.last_committed, v}
  <2>1. v \in Nat /\ Max({v}) = v
    BY <1>2, OnlyMax
  <2>2. a.last_committed = v
    <3>. HIDE DEF v
    <3>. QED
      BY <1>1, <2>1, LearnAt
  <2>3. /\ Reloaded(a).last_committed = a.last_committed
        /\ Reloaded(s).last_committed = s.last_committed
    BY DEF Reloaded, Fresh
  <2>. HIDE DEF a, v
  <2>. QED
    BY <1>3, <2>2, <2>3
<1>8. LowNet(net', IF t.last_committed <= L THEN L ELSE t.last_committed)
  <2>1. t.last_committed \in Nat
    BY <1>2, <1>7
  <2>. DEFINE w == IF t.last_committed <= L THEN L ELSE t.last_committed
              n == net'
  <2>2. w \in Nat /\ L <= w
    BY <1>2, <2>1
  <2>. HIDE DEF w, n
  <2>3. LowNet(n, L)
    BY <1>6 DEF n
  <2>4. LowNet(n, w)
    BY <1>2, <2>2, <2>3, NetGrows
  <2>. QED
    BY <2>4 DEF w, n
<1>. QED
  BY <1>2, <1>3, <1>4, <1>7, <1>8 DEF Onwards

\* Whatever happens, one monitor goes on.
LEMMA NextOnwards ==
  ASSUME AgreeInv, N > 1, NEW L, Top(L, committed, mon, net), Next
  PROVE  \E m \in Rank : Onwards(m, L)
<1>1. ASSUME NEW m \in Rank, NEW x \in Rank,
             Receive(m, x) \/ IgnoreVictory(m, x) \/ Abort(m, x)
      PROVE  Onwards(m, L)
  <2>1. Receive(m, x) => Onwards(m, L)
    BY ReceiveOnwards
  <2>2. Abort(m, x) => Onwards(m, L)
    BY DieOnwards DEF Abort
  <2>3. CASE IgnoreVictory(m, x)
    <3>1. net[x][m] # <<>> /\ Step(m, {x}, Done(mon[m]))
      BY <2>3 DEF IgnoreVictory
    <3>2. mon \in [Rank -> Monitors] /\ Rec(mon[m])
      BY MemberFacts
    <3>3. L \in Nat /\ mon[m].last_committed <= L
      BY DEF Top
    <3>4. Grown(mon[m], L, Done(mon[m]))
      BY <3>2, <3>3, DoneAt, StaysGrown
    <3>5. \A y \in {x} \cap Rank : net[y][m] # <<>>
      BY <3>1
    <3>. QED
      BY <3>1, <3>2, <3>4, <3>5, StepOnwards
  <2>. QED
    BY <1>1, <2>1, <2>2, <2>3
<1>2. ASSUME NEW m \in Rank,
             FinishCommit(m) \/ Propose(m) \/ Timeout(m) \/ RenewLease(m) \/ Elect(m)
      PROVE  Onwards(m, L)
  BY <1>2, LocalOnwards
<1>3. ASSUME NEW m \in Rank, Win(m) \/ Restart(m) PROVE Onwards(m, L)
  BY <1>3, WinOnwards, DieOnwards DEF Restart
<1>. QED
  BY <1>1, <1>2, <1>3 DEF Next

-----------------------------------------------------------------------------
\* What the invariant says of the history and of m
LEMMA SoundTop ==
  ASSUME NEW C, NEW ms, NEW n, Sound(TRUE, C, ms, n), NEW m \in Rank
  PROVE  /\ \A c \in C : c.v \in Nat \ {0}
         /\ \A c, d \in C : c.v = d.v => c = d
         /\ ms[m].last_committed \in Nat
         /\ ms[m].last_committed > 0 => ms[m].last_committed \in DOMAIN ms[m].log
<1>1. PICK H, K : C \subseteq K /\ Core(H, K, ms, n)
  BY DEF Sound
<1>2. /\ K \subseteq [v: Nat \ {0}, value: Value] /\ \A c, d \in K : c.v = d.v => c = d
      /\ Whole(ms[m])
  BY <1>1 DEF Core, Chosen, MonB
<1>3. ms[m] \in Monitors /\ Fit(m, ms[m])
  BY SoundFacts
<1>4. /\ ms[m].last_committed \in Nat /\ ms[m].first_committed \in Nat
      /\ ms[m].first_committed <= ms[m].last_committed
  BY <1>3, FitFacts DEF Monitors
<1>5. ms[m].last_committed > 0 => ms[m].last_committed \in DOMAIN ms[m].log
  BY <1>2, <1>4 DEF Whole
<1>. QED
  BY <1>1, <1>2, <1>4, <1>5

\* The last version is the last one there is.
LEMMA TopIs ==
  ASSUME NEW L, NEW C, NEW ms, NEW n, Top(L, C, ms, n), \A c \in C : c.v \in Nat \ {0}
  PROVE  Max({0} \cup {c.v : c \in C}) = L
<1>. DEFINE W == {0} \cup {c.v : c \in C}
<1>1. L \in Nat /\ (\A v \in 1 .. L : \E c \in C : c.v = v) /\ \A c \in C : c.v <= L
  BY DEF Top
<1>2. W \subseteq 0 .. L /\ W # {}
  BY <1>1
<1>3. L \in W
  <2>1. CASE L = 0
    BY <2>1
  <2>2. CASE L # 0
    <3>1. L \in 1 .. L
      BY <1>1, <2>2
    <3>. QED
      BY <1>1, <3>1
  <2>. QED
    BY <2>1, <2>2
<1>. HIDE DEF W
<1>4. 0 \in Nat /\ Max(W) \in W /\ \A w \in W : w <= Max(W)
  BY <1>1, <1>2, SetMax
<1>5. Max(W) \in 0 .. L
  BY <1>2, <1>4
<1>6. L <= Max(W)
  BY <1>3, <1>4
<1>. DEFINE x == Max(W)
<1>7. x \in 0 .. L /\ L <= x
  BY <1>5, <1>6
<1>. HIDE DEF x
<1>8. x = L
  BY <1>1, <1>7
<1>. QED
  BY <1>8 DEF W, x

\* The log that the history C makes, up to version L
Values(C, v) == {c.value : c \in {d \in C : d.v = v}}

\* As a function of the versions
Lg(C, L) == [v \in 1 .. L |-> Values(C, v)]

\* A version that has its value keeps it.
LEMMA SameValues ==
  ASSUME NEW C, NEW D, C \subseteq D, \A c, d \in D : c.v = d.v => c = d,
         NEW v, \E c \in C : c.v = v
  PROVE  Values(D, v) = Values(C, v)
  BY DEF Values

\* It is a sequence of L entries.
LEMMA LgSeq ==
  ASSUME NEW C, NEW L \in Nat
  PROVE  /\ Lg(C, L) \in Seq(SUBSET {c.value : c \in C}) /\ Len(Lg(C, L)) = L
         /\ \A v \in 1 .. L : Lg(C, L)[v] = Values(C, v)
<1>. DEFINE S == SUBSET {c.value : c \in C}
<1>1. \A v \in 1 .. L : Values(C, v) \in S
  BY DEF Values
<1>. HIDE DEF S
<1>2. Lg(C, L) \in [1 .. L -> S] /\ \A v \in 1 .. L : Lg(C, L)[v] = Values(C, v)
  BY <1>1 DEF Lg
<1>. QED
  BY <1>2 DEF S

\* D goes on where C is whole up to version L.
Continued(C, D, L) ==
  /\ C \subseteq D /\ \A c, d \in D : c.v = d.v => c = d
  /\ \A v \in 1 .. L : \E c \in C : c.v = v

\* The log of C up to L opens that of D up to P.
Opening(C, L, D, P) == SubSeq(Lg(D, P), 1, L) = Lg(C, L)

\* The log as far as it goes
LEMMA LgPrefix ==
  ASSUME NEW C, NEW D, NEW L \in Nat, NEW P \in Nat, L <= P, Continued(C, D, L)
  PROVE  Opening(C, L, D, P)
<1>. DEFINE S == SUBSET {c.value : c \in D}
            f == Lg(D, P)
            g == Lg(C, L)
            u == SubSeq(f, 1, L)
<1>1. f \in Seq(S) /\ Len(f) = P /\ \A v \in 1 .. P : f[v] = Values(D, v)
  BY LgSeq
<1>2. Len(g) = L /\ \A v \in 1 .. L : g[v] = Values(C, v)
  BY LgSeq
<1>3. \A v \in 1 .. L : Values(D, v) = Values(C, v)
  BY SameValues DEF Continued
<1>4. g \in Seq(SUBSET {c.value : c \in C})
  BY LgSeq
<1>5. g \in Seq(S)
  BY <1>4 DEF Continued
<1>. HIDE DEF f, g, S
<1>6. u \in Seq(S) /\ Len(u) = L /\ \A v \in 1 .. L : u[v] = f[v]
  BY <1>1, SMT
<1>. HIDE DEF u
<1>7. \A v \in 1 .. L : u[v] = g[v]
  BY <1>1, <1>2, <1>3, <1>6
<1>8. u = g
  BY <1>2, <1>5, <1>6, <1>7
<1>. QED
  BY <1>8 DEF u, f, g, Opening

\* m goes to version k and no other monitor moves; P is the last version then.
Advance(m, L, k, P, C, D, ms, w, o) ==
  /\ k = w[m].last_committed /\ ms[m].last_committed <= k
  /\ k <= L \/ k = ms[m].last_committed + 1
  /\ \A p \in Rank \ {m} : w[p] = ms[p]
  /\ D = C \cup CommittedBy(w[m])
  /\ P = IF k <= L THEN L ELSE k
  /\ LowNet(o, P)

\* It is there, and has learnt of a version or committed the next one.
Arrived(m, L, k, P, D, ms, w, o) ==
  /\ Top(P, D, w, o) /\ P \in Nat /\ L \in Nat /\ k \in Nat
  /\ (P = L /\ k <= L) \/ (P = L + 1 /\ k = L + 1 /\ ms[m].last_committed = L)

\* The history and the monitors after a step of m
LEMMA OnwardsTop ==
  ASSUME NEW L, NEW C, NEW D, NEW ms, NEW w, NEW n, NEW o, Top(L, C, ms, n),
         Sound(TRUE, C, ms, n), Sound(TRUE, D, w, o), NEW m \in Rank,
         NEW k, NEW P, Advance(m, L, k, P, C, D, ms, w, o)
  PROVE  Arrived(m, L, k, P, D, ms, w, o)
<1>. USE DEF Advance
<1>1. /\ L \in Nat /\ (\A v \in 1 .. L : \E c \in C : c.v = v) /\ (\A c \in C : c.v <= L)
      /\ \A p \in Rank : ms[p].last_committed <= L
  BY DEF Top
<1>2. k \in Nat /\ (k > 0 => k \in DOMAIN w[m].log)
  BY SoundTop
<1>3. \A p \in Rank : ms[p].last_committed \in Nat
  BY SoundTop
<1>4. P \in Nat /\ k <= P /\ L <= P
  BY <1>1, <1>2
<1>5. (P = L /\ k <= L) \/ (P = L + 1 /\ k = L + 1 /\ ms[m].last_committed = L)
  BY <1>1, <1>2, <1>3
<1>6. \A c \in CommittedBy(w[m]) : c.v <= k
  BY DEF CommittedBy
<1>7. k > 0 => \E c \in CommittedBy(w[m]) : c.v = k
  <2>1. k > 0 => [v |-> k, value |-> w[m].log[k]] \in CommittedBy(w[m])
    BY <1>2 DEF CommittedBy
  <2>. QED
    BY <2>1
<1>8. \A c \in D : c.v <= P
  <2>1. \A c \in D : c.v \in Nat
    BY SoundTop
  <2>. QED
    BY <1>1, <1>2, <1>4, <1>6, <2>1
<1>9. \A v \in 1 .. P : \E c \in D : c.v = v
  BY <1>1, <1>2, <1>5, <1>7
<1>10. \A p \in Rank : w[p].last_committed <= P
  BY <1>1, <1>3, <1>4
<1>. QED
  BY <1>1, <1>2, <1>4, <1>5, <1>8, <1>9, <1>10 DEF Top, Arrived

\* There is a last version.
LogInv == \E L : Top(L, committed, mon, net)

\* There is none at first.
LEMMA LogStart == Init => LogInv
<1>. SUFFICES ASSUME Init PROVE LogInv
  OBVIOUS
<1>1. /\ committed = {} /\ \A m \in Rank : mon[m].last_committed = 0
      /\ \A x, d \in Rank : net[x][d] = <<>>
  BY DEF Init, Fresh
<1>2. ASSUME NEW x \in Rank PROVE Low(net[x], 0)
  BY <1>1, <1>2, LowNothing DEF Low, Nothing
<1>3. Top(0, committed, mon, net)
  BY <1>1, <1>2 DEF Top, LowNet, Low
<1>. QED
  BY <1>3 DEF LogInv

\* What the monitors know of, in states ms
Knows(ms) == [p \in Rank |-> ms[p].last_committed]

\* In the words of ReplicatedLog m does nothing, learns or extends the log.
Logged(m, L, P, C, D, ms, w) ==
  \/ Lg(D, P) = Lg(C, L) /\ Knows(w) = Knows(ms)
  \/ /\ \E v \in Knows(ms)[m] + 1 .. Len(Lg(C, L)) : Knows(w) = [Knows(ms) EXCEPT ![m] = v]
     /\ Lg(D, P) = Lg(C, L)
  \/ /\ Knows(w) = [Knows(ms) EXCEPT ![m] = @ + 1]
     /\ Knows(ms)[m] = Len(Lg(C, L))
     /\ Len(Lg(D, P)) = Len(Lg(C, L)) + 1
     /\ SubSeq(Lg(D, P), 1, Len(Lg(C, L))) = Lg(C, L)

\* A step of m onwards does one of these.
LEMMA OnwardsLog ==
  ASSUME NEW L, NEW C, NEW D, NEW ms, NEW w, NEW n, NEW o, Top(L, C, ms, n),
         Sound(TRUE, C, ms, n), Sound(TRUE, D, w, o), NEW m \in Rank,
         NEW k, NEW P, Advance(m, L, k, P, C, D, ms, w, o)
  PROVE  Top(P, D, w, o) /\ Logged(m, L, P, C, D, ms, w)
<1>1. /\ Top(P, D, w, o) /\ P \in Nat /\ L \in Nat /\ k \in Nat
      /\ (P = L /\ k <= L) \/ (P = L + 1 /\ k = L + 1 /\ ms[m].last_committed = L)
  <2>1. Arrived(m, L, k, P, D, ms, w, o)
    BY OnwardsTop
  <2>. QED
    BY <2>1 DEF Arrived
<1>. USE DEF Advance, Logged
<1>2. \A v \in 1 .. L : \E c \in C : c.v = v
  BY DEF Top
<1>3. \A c, d \in D : c.v = d.v => c = d
  BY SoundTop
<1>4. ms[m].last_committed \in Nat
  BY SoundTop
<1>5. Len(Lg(C, L)) = L /\ Len(Lg(D, P)) = P
  BY <1>1, LgSeq
<1>6. Knows(ms)[m] = ms[m].last_committed /\ Knows(w) = [Knows(ms) EXCEPT ![m] = k]
  BY DEF Knows
<1>7. CASE P = L /\ k <= L
  <2>1. \A v \in 1 .. L : Values(D, v) = Values(C, v)
    BY <1>2, <1>3, SameValues
  <2>2. Lg(D, P) = Lg(C, L)
    BY <1>7, <2>1 DEF Lg
  <2>3. CASE k = ms[m].last_committed
    <3>1. Knows(w) = Knows(ms)
      BY <2>3 DEF Knows
    <3>. QED
      BY <1>1, <2>2, <3>1
  <2>4. CASE k # ms[m].last_committed
    <3>1. k \in Knows(ms)[m] + 1 .. Len(Lg(C, L))
      BY <1>1, <1>4, <1>5, <1>6, <1>7, <2>4
    <3>. QED
      BY <1>1, <1>6, <2>2, <3>1
  <2>. QED
    BY <2>3, <2>4
<1>8. CASE P = L + 1 /\ k = L + 1 /\ ms[m].last_committed = L
  <2>1. SubSeq(Lg(D, P), 1, L) = Lg(C, L)
    <3>1. Continued(C, D, L) /\ L <= P
      BY <1>1, <1>2, <1>3, <1>8 DEF Continued
    <3>2. Opening(C, L, D, P)
      BY <1>1, <3>1, LgPrefix
    <3>. QED
      BY <3>2 DEF Opening
  <2>2. Knows(w) = [Knows(ms) EXCEPT ![m] = @ + 1]
    BY <1>6, <1>8
  <2>. QED
    BY <1>1, <1>5, <1>6, <1>8, <2>1, <2>2
<1>. QED
  BY <1>1, <1>7, <1>8

\* Every step learns, extends the log or leaves it alone.
LEMMA LogStep ==
  ASSUME AgreeInv, AgreeInv', N > 1, LogInv, [Next]_vars
  PROVE  LogInv' /\ [Log!Next]_Log!vars
<1>1. PICK L : Top(L, committed, mon, net)
  BY DEF LogInv
<1>2. Sound(TRUE, committed, mon, net) /\ Sound(TRUE, committed', mon', net')
  BY DEF AgreeInv
<1>3. CASE Next
  <2>1. PICK m \in Rank : Onwards(m, L)
    BY <1>1, <1>3, NextOnwards
  <2>. DEFINE C == committed
              D == committed'
              ms == mon
              w == mon'
              o == net'
              k == w[m].last_committed
              P == IF k <= L THEN L ELSE k
  <2>2. Advance(m, L, k, P, C, D, ms, w, o)
    BY <2>1 DEF Onwards, Advance
  <2>3. Sound(TRUE, C, ms, net) /\ Sound(TRUE, D, w, o) /\ Top(L, C, ms, net)
    BY <1>1, <1>2
  <2>. DEFINE lg == Lg(C, L)
              mg == Lg(D, P)
              kn == Knows(ms)
              ln == Knows(w)
  <2>5. LastVersion = Max({0} \cup {c.v : c \in C})
    BY DEF LastVersion
  <2>6. LastVersion' = Max({0} \cup {c.v : c \in D})
    BY DEF LastVersion
  <2>7. [v \in 1 .. LastVersion |-> {c.value : c \in {d \in committed : d.v = v}}]
          = Lg(C, LastVersion)
    BY DEF Lg, Values
  <2>8. [v \in 1 .. LastVersion' |-> {c.value : c \in {d \in committed' : d.v = v}}]
          = Lg(D, LastVersion')
    BY DEF Lg, Values
  <2>9. /\ [p \in Rank |-> mon[p].last_committed] = kn
        /\ [p \in Rank |-> mon'[p].last_committed] = ln
    BY DEF Knows
  <2>. HIDE DEF C, D, ms, w, o, k, P
  <2>10. Top(P, D, w, o) /\ Logged(m, L, P, C, D, ms, w)
    BY <2>2, <2>3, OnwardsLog
  <2>11. (\A c \in C : c.v \in Nat \ {0}) /\ (\A c \in D : c.v \in Nat \ {0})
    BY <2>3, SoundTop
  <2>12. LastVersion = L
    BY <2>3, <2>5, <2>11, TopIs
  <2>13. LastVersion' = P
    BY <2>6, <2>10, <2>11, TopIs
  <2>14. LogInv'
    BY <2>10 DEF LogInv, D, w, o
  <2>15. \/ mg = lg /\ ln = kn
         \/ (\E v \in kn[m] + 1 .. Len(lg) : ln = [kn EXCEPT ![m] = v]) /\ mg = lg
         \/ /\ ln = [kn EXCEPT ![m] = @ + 1] /\ kn[m] = Len(lg)
            /\ Len(mg) = Len(lg) + 1 /\ SubSeq(mg, 1, Len(lg)) = lg
    BY <2>10 DEF Logged
  <2>. HIDE DEF lg, mg, kn, ln
  <2>16. /\ [v \in 1 .. LastVersion |-> {c.value : c \in {d \in committed : d.v = v}}] = lg
         /\ [v \in 1 .. LastVersion' |-> {c.value : c \in {d \in committed' : d.v = v}}] = mg
    BY <2>7, <2>8, <2>12, <2>13 DEF lg, mg
  <2>17. [Log!Next]_Log!vars
    BY <2>9, <2>15, <2>16 DEF Log!Next, Log!vars, Log!Extend, Log!Learn
  <2>. QED
    BY <2>14, <2>17
<1>4. CASE UNCHANGED vars
  <2>1. committed' = committed /\ mon' = mon /\ net' = net
    BY <1>4 DEF vars
  <2>2. LogInv'
    BY <1>1, <2>1 DEF LogInv
  <2>3. UNCHANGED Log!vars
    BY <2>1 DEF Log!vars, LastVersion
  <2>. QED
    BY <2>2, <2>3
<1>. QED
  BY <1>3, <1>4

\* It is the empty log at first.
LEMMA LogEmpty == Init => Log!Init
<1>. SUFFICES ASSUME Init PROVE Log!Init
  OBVIOUS
<1>1. committed = {} /\ \A m \in Rank : mon[m].last_committed = 0
  BY DEF Init, Fresh
<1>2. Top(0, committed, mon, net)
  BY LogStart, <1>1 DEF LogInv, Top
<1>3. LastVersion = 0
  BY <1>1, <1>2, TopIs DEF LastVersion
<1>. QED
  BY <1>1, <1>3 DEF Log!Init

\* Together the monitors are one log, of which every monitor knows a prefix: each handler,
\* election, timeout and restart leaves it alone, learns of versions in it (store_state,
\* on a LAST or a COMMIT), or appends the one version after all others, at a monitor that
\* knew of them all (commit_finish, or a restart that finds the commit written).  That is
\* for more than one monitor of which none loses a vote: a lone one that waits for its
\* writes before it bootstraps may end two commits, hence two versions, in one step.
THEOREM PaxosImplements == N > 1 => (Spec /\ [][VotesKept]_vars => ImplementsLog)
<1>. SUFFICES ASSUME N > 1 PROVE Spec /\ [][VotesKept]_vars => ImplementsLog
  OBVIOUS
<1>1. AgreeInv /\ AgreeInv' /\ LogInv /\ [Next]_vars => LogInv' /\ [Log!Next]_Log!vars
  BY LogStep
<1>. QED
  BY <1>1, LogStart, LogEmpty, AgreeAlways, PTL DEF Spec, ImplementsLog, Log!Spec

=============================================================================
