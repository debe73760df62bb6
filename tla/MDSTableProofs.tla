--------------------------- MODULE MDSTableProofs ---------------------------
(***************************************************************************)
(* Proofs about the MDS tables: the replay of the journal rebuilds the      *)
(* table of the server whatever was saved and wherever the journal ends     *)
(* (ReplayRebuilds), and the assertions of the two sides that no crash      *)
(* reaches (AssertionsHold), for every number of ranks, requests, crashes   *)
(* and saves.                                                               *)
(*                                                                          *)
(* What the server has answered grows: the versions in its journal do, and  *)
(* the journal is cut only behind what has been answered.  Hence the tids   *)
(* that a client learns from answers grow too, along its journal and then   *)
(* along the messages on their way to it, and no tid is learnt twice.       *)
(***************************************************************************)
EXTENDS MDSTable, FiniteSetTheorems, SequenceTheorems, WellFoundedInduction, TLAPS

-----------------------------------------------------------------------------
(* Numbers and finite sets *)

\* Induction, with a set for the property
LEMMA NatSets ==
  ASSUME NEW W, 0 \in W, \A n \in Nat : n \in W => n + 1 \in W
  PROVE  \A n \in Nat : n \in W
<1>. DEFINE R == OpToRel(<, Nat)
            T == Nat \ W
<1>. HIDE DEF R
<1>. SUFFICES ASSUME T # {} PROVE FALSE
  OBVIOUS
<1>1. PICK k \in T : \A y \in T : <<y, k>> \notin R
  <2>. HIDE DEF T
  <2>1. IsWellFoundedOn(R, Nat)
    BY NatLessThanWellFounded DEF R
  <2>2. T \subseteq Nat
    BY DEF T
  <2>. QED
    BY <2>1, <2>2, WFMin
<1>2. \A y \in T : ~(y < k)
  BY <1>1 DEF OpToRel, R
<1>3. k \in Nat /\ k # 0
  OBVIOUS
<1>4. k - 1 \in Nat /\ k - 1 < k
  BY <1>3
<1>5. k - 1 \in W
  BY <1>2, <1>4
<1>6. (k - 1) + 1 \in W
  BY <1>4, <1>5
<1>. QED
  BY <1>3, <1>6

\* A finite set of numbers has a greatest one
LEMMA FiniteMax ==
  ASSUME NEW S, S \subseteq Nat, S # {}, IsFiniteSet(S)
  PROVE  \E x \in S : \A y \in S : y <= x
<1>. DEFINE P(T) == T # {} => \E x \in T : \A y \in T : y <= x
            W == {n \in Nat : \A T \in SUBSET Nat :
                                IsFiniteSet(T) /\ Cardinality(T) = n => P(T)}
<1>1. 0 \in W
  BY FS_EmptySet
<1>2. ASSUME NEW n \in Nat, n \in W
      PROVE  n + 1 \in W
  <2>. SUFFICES ASSUME NEW T \in SUBSET Nat, IsFiniteSet(T), Cardinality(T) = n + 1, T # {}
                PROVE  \E x \in T : \A y \in T : y <= x
    OBVIOUS
  <2>1. PICK z : z \in T
    OBVIOUS
  <2>2. IsFiniteSet(T \ {z}) /\ Cardinality(T \ {z}) = n
    <3>. HIDE DEF W
    <3>1. /\ IsFiniteSet(T \ {z})
          /\ Cardinality(T \ {z}) = IF z \in T THEN Cardinality(T) - 1 ELSE Cardinality(T)
      BY FS_RemoveElement
    <3>. QED
      BY <2>1, <3>1
  <2>3. P(T \ {z})
    BY <1>2, <2>2
  <2>4. CASE T \ {z} = {}
    BY <2>1, <2>4
  <2>5. CASE T \ {z} # {}
    <3>1. PICK x \in T \ {z} : \A y \in T \ {z} : y <= x
      BY <2>3, <2>5
    <3>2. x \in Nat /\ z \in Nat
      BY <2>1
    <3>3. CASE x <= z
      BY <2>1, <3>1, <3>2, <3>3
    <3>4. CASE ~(x <= z)
      BY <2>1, <3>1, <3>2, <3>4
    <3>. QED
      BY <3>3, <3>4
  <2>. QED
    BY <2>4, <2>5
<1>3. Cardinality(S) \in W
  <2>. HIDE DEF W
  <2>. QED
    BY <1>1, <1>2, NatSets, FS_CardinalityType
<1>. QED
  BY <1>3

LEMMA MaxType ==
  ASSUME NEW S, S \subseteq Nat, S # {}, IsFiniteSet(S)
  PROVE  Max(S) \in Nat
<1>1. \E x \in S : \A y \in S : x >= y
  <2>1. PICK x \in S : \A y \in S : y <= x
    BY FiniteMax
  <2>2. \A y \in S : x >= y
    BY <2>1
  <2>. QED
    BY <2>2
<1>. QED
  BY <1>1 DEF Max

\* A finite set of numbers has its members in order in one sequence
LEMMA AscendingIs ==
  ASSUME NEW S, S \subseteq Nat, IsFiniteSet(S)
  PROVE  Ascending(S) \in Seq(S) /\ Len(Ascending(S)) = Cardinality(S)
<1>. DEFINE Fits(T, f) == /\ f \in [1 .. Cardinality(T) -> T]
                          /\ \A i, j \in DOMAIN f : i < j => f[i] < f[j]
            W == {n \in Nat : \A T \in SUBSET Nat :
                                IsFiniteSet(T) /\ Cardinality(T) = n => \E f : Fits(T, f)}
<1>1. 0 \in W
  <2>1. ASSUME NEW T \in SUBSET Nat, IsFiniteSet(T), Cardinality(T) = 0
        PROVE  Fits(T, <<>>)
    BY <2>1
  <2>. QED
    BY <2>1
<1>2. ASSUME NEW n \in Nat, n \in W
      PROVE  n + 1 \in W
  <2>. SUFFICES ASSUME NEW T \in SUBSET Nat, IsFiniteSet(T), Cardinality(T) = n + 1
                PROVE  \E f : Fits(T, f)
    OBVIOUS
  <2>1. T # {}
    BY FS_EmptySet
  <2>2. PICK x \in T : \A y \in T : y <= x
    BY <2>1, FiniteMax
  <2>3. IsFiniteSet(T \ {x}) /\ Cardinality(T \ {x}) = n
    BY <2>2, FS_RemoveElement
  <2>4. PICK f : Fits(T \ {x}, f)
    BY <1>2, <2>3
  <2>5. /\ f \in [1 .. n -> T \ {x}]
        /\ \A i, j \in 1 .. n : i < j => f[i] < f[j]
    BY <2>3, <2>4
  <2>. DEFINE g == [i \in 1 .. n + 1 |-> IF i = n + 1 THEN x ELSE f[i]]
  <2>6. \A i \in 1 .. n + 1 : i # n + 1 => i \in 1 .. n /\ f[i] \in T /\ f[i] < x
    <3>. TAKE i \in 1 .. n + 1
    <3>. HAVE i # n + 1
    <3>1. i \in 1 .. n
      OBVIOUS
    <3>2. f[i] \in T /\ f[i] # x /\ f[i] <= x /\ x \in Nat /\ f[i] \in Nat
      BY <2>2, <2>5, <3>1
    <3>. QED
      BY <3>1, <3>2
  <2>7. g \in [1 .. n + 1 -> T]
    BY <2>2, <2>6
  <2>8. ASSUME NEW i \in 1 .. n + 1, NEW j \in 1 .. n + 1, i < j
        PROVE  g[i] < g[j]
    <3>1. i # n + 1
      BY <2>8
    <3>2. CASE j = n + 1
      BY <2>6, <3>1, <3>2
    <3>3. CASE j # n + 1
      <4>1. i \in 1 .. n /\ j \in 1 .. n
        BY <3>1, <3>3
      <4>. QED
        BY <2>5, <2>8, <3>1, <3>3, <4>1
    <3>. QED
      BY <3>2, <3>3
  <2>9. Fits(T, g)
    <3>. HIDE DEF g
    <3>. QED
      BY <2>7, <2>8
  <2>. QED
    BY <2>9
<1>3. Cardinality(S) \in W
  <2>. HIDE DEF W
  <2>. QED
    BY <1>1, <1>2, NatSets, FS_CardinalityType
<1>4. \E f : Fits(S, f)
  BY <1>3
<1>5. Fits(S, Ascending(S))
  <2>1. \E f \in [1 .. Cardinality(S) -> S] : \A i, j \in DOMAIN f : i < j => f[i] < f[j]
    BY <1>4
  <2>. QED
    BY <2>1 DEF Ascending
<1>6. Cardinality(S) \in Nat
  BY FS_CardinalityType
<1>. QED
  BY <1>5, <1>6

-----------------------------------------------------------------------------
(* Types *)

Transactions == [mds: Clients, reqid: Nat, kind: AllKinds, seq: Nat, snap: Nat]
FiniteTids == {D \in SUBSET Nat : IsFiniteSet(D)}
PendingMaps == UNION {[D -> Transactions] : D \in FiniteTids}

Tables == [version: Nat, last_snap: Nat, snaps: SUBSET Nat, pending: PendingMaps,
           purge: SUBSET Nat]

Entries == [op: {"PREPARE", "COMMIT", "ROLLBACK", "UPDATE"}, version: Nat, tid: Nat,
            mds: Clients, reqid: Nat, kind: AllKinds, snap: Nat, reply: Nat,
            purged: SUBSET Nat]

LEMMA PendingDef ==
  ASSUME NEW f
  PROVE  f \in PendingMaps <=> /\ DOMAIN f \in FiniteTids
                               /\ f \in [DOMAIN f -> Transactions]
<1>1. ASSUME f \in PendingMaps
      PROVE  DOMAIN f \in FiniteTids /\ f \in [DOMAIN f -> Transactions]
  <2>1. PICK D \in FiniteTids : f \in [D -> Transactions]
    BY <1>1 DEF PendingMaps
  <2>. QED
    BY <2>1
<1>2. ASSUME DOMAIN f \in FiniteTids, f \in [DOMAIN f -> Transactions]
      PROVE  f \in PendingMaps
  BY <1>2 DEF PendingMaps
<1>. QED
  BY <1>1, <1>2

LEMMA WithType ==
  ASSUME NEW f \in PendingMaps, NEW k \in Nat, NEW v \in Transactions
  PROVE  With(f, k, v) \in PendingMaps /\ DOMAIN With(f, k, v) = DOMAIN f \cup {k}
<1>1. DOMAIN f \in FiniteTids /\ f \in [DOMAIN f -> Transactions]
  BY PendingDef
<1>. DEFINE g == With(f, k, v)
<1>2. DOMAIN g = DOMAIN f \cup {k} /\ g \in [DOMAIN g -> Transactions]
  BY <1>1 DEF With
<1>3. IsFiniteSet(DOMAIN f \cup {k}) /\ DOMAIN f \cup {k} \subseteq Nat
  BY <1>1, FS_AddElement DEF FiniteTids
<1>. HIDE DEF g
<1>4. DOMAIN g \in FiniteTids
  BY <1>2, <1>3 DEF FiniteTids
<1>5. g \in PendingMaps
  BY <1>2, <1>4, PendingDef
<1>. QED
  BY <1>2, <1>5 DEF g

LEMMA WithoutType ==
  ASSUME NEW f \in PendingMaps, NEW k
  PROVE  Without(f, k) \in PendingMaps
<1>1. DOMAIN f \in FiniteTids /\ f \in [DOMAIN f -> Transactions]
  BY PendingDef
<1>. DEFINE g == Without(f, k)
<1>2. DOMAIN g = DOMAIN f \ {k} /\ g \in [DOMAIN g -> Transactions]
  BY <1>1 DEF Without
<1>3. IsFiniteSet(DOMAIN f \ {k}) /\ DOMAIN f \ {k} \subseteq Nat
  BY <1>1, FS_RemoveElement DEF FiniteTids
<1>. HIDE DEF g
<1>4. DOMAIN g \in FiniteTids
  BY <1>2, <1>3 DEF FiniteTids
<1>5. g \in PendingMaps
  BY <1>2, <1>4, PendingDef
<1>. QED
  BY <1>5 DEF g

LEMMA TableType ==
  ASSUME NEW v \in Nat, NEW l \in Nat, NEW s \in SUBSET Nat, NEW p \in PendingMaps,
         NEW u \in SUBSET Nat
  PROVE  [version |-> v, last_snap |-> l, snaps |-> s, pending |-> p, purge |-> u] \in Tables
BY DEF Tables

\* What each operation makes of a table
LEMMA PrepareType ==
  ASSUME NEW t \in Tables, NEW c \in Clients, NEW r \in Nat,
         NEW o \in [kind: AllKinds, snap: Nat]
  PROVE  /\ Prepare(t, c, r, o) \in Tables
         /\ Prepare(t, c, r, o).version = t.version + 1
<1>. DEFINE last == IF o.kind = "realm" THEN t.last_snap ELSE t.last_snap + 1
            p == [mds |-> c, reqid |-> r, kind |-> o.kind, seq |-> last,
                  snap |-> IF o.kind = "create" THEN last ELSE o.snap]
            q == With(t.pending, t.version + 1, p)
<1>1. last \in Nat
  BY DEF Tables
<1>2. p \in Transactions
  <2>. HIDE DEF last
  <2>. QED
    BY <1>1 DEF Transactions
<1>3. t.pending \in PendingMaps /\ t.version + 1 \in Nat
  BY DEF Tables
<1>4. q \in PendingMaps
  <2>. HIDE DEF p
  <2>. QED
    BY <1>2, <1>3, WithType
<1>5. Prepare(t, c, r, o) = [t EXCEPT !.version = t.version + 1, !.last_snap = last, !.pending = q]
  BY DEF Prepare
<1>. HIDE DEF last, q
<1>. QED
  BY <1>1, <1>3, <1>4, <1>5 DEF Tables

LEMMA CommitType ==
  ASSUME NEW t \in Tables, NEW tid \in DOMAIN t.pending
  PROVE  Commit(t, tid) \in Tables /\ Commit(t, tid).version = t.version + 1
<1>. DEFINE p == t.pending[tid]
            q == Without(t.pending, tid)
            sn == CASE p.kind \in {"create", "update"} -> t.snaps \cup {p.snap}
                    [] p.kind = "destroy" -> t.snaps \ {p.snap}
                    [] OTHER -> t.snaps
            pu == IF p.kind = "destroy" THEN t.purge \cup {p.snap, p.seq} ELSE t.purge
<1>1. t.pending \in PendingMaps
  BY DEF Tables
<1>2. p.snap \in Nat /\ p.seq \in Nat
  BY <1>1, PendingDef DEF Transactions
<1>3. q \in PendingMaps
  BY <1>1, WithoutType
<1>4. sn \in SUBSET Nat /\ pu \in SUBSET Nat
  <2>. HIDE DEF p
  <2>. QED
    BY <1>2 DEF Tables
<1>5. Commit(t, tid) = [t EXCEPT !.version = t.version + 1, !.pending = q, !.snaps = sn, !.purge = pu]
  BY DEF Commit
<1>. HIDE DEF q, sn, pu
<1>6. t.version + 1 \in Nat /\ t.last_snap \in Nat
  BY DEF Tables
<1>7. Commit(t, tid) = [version |-> t.version + 1, last_snap |-> t.last_snap, snaps |-> sn,
                        pending |-> q, purge |-> pu]
  BY <1>5 DEF Tables
<1>. QED
  BY <1>3, <1>4, <1>6, <1>7, TableType

LEMMA RollbackType ==
  ASSUME NEW t \in Tables, NEW tid
  PROVE  Rollback(t, tid) \in Tables /\ Rollback(t, tid).version = t.version + 1
<1>. DEFINE q == Without(t.pending, tid)
<1>1. q \in PendingMaps
  BY WithoutType DEF Tables
<1>2. Rollback(t, tid) = [t EXCEPT !.version = t.version + 1, !.pending = q]
  BY DEF Rollback
<1>. HIDE DEF q
<1>3. t.version + 1 \in Nat /\ t.last_snap \in Nat /\ t.snaps \in SUBSET Nat /\ t.purge \in SUBSET Nat
  BY DEF Tables
<1>4. Rollback(t, tid) = [version |-> t.version + 1, last_snap |-> t.last_snap,
                          snaps |-> t.snaps, pending |-> q, purge |-> t.purge]
  BY <1>2 DEF Tables
<1>. QED
  BY <1>1, <1>3, <1>4, TableType

LEMMA UpdateType ==
  ASSUME NEW t \in Tables, NEW S
  PROVE  ServerUpdate(t, S) \in Tables /\ ServerUpdate(t, S).version = t.version + 1
<1>1. /\ t.version + 1 \in Nat /\ t.last_snap \in Nat /\ t.snaps \in SUBSET Nat
      /\ t.pending \in PendingMaps /\ t.purge \in SUBSET Nat
  BY DEF Tables
<1>. DEFINE pu == t.purge \ S
<1>2. ServerUpdate(t, S) = [version |-> t.version + 1, last_snap |-> t.last_snap,
                            snaps |-> t.snaps, pending |-> t.pending, purge |-> pu]
  <2>1. ServerUpdate(t, S) = [t EXCEPT !.version = t.version + 1, !.purge = pu]
    BY DEF ServerUpdate
  <2>. HIDE DEF pu
  <2>. QED
    BY <2>1 DEF Tables
<1>3. pu \in SUBSET Nat
  BY <1>1
<1>. HIDE DEF pu
<1>. QED
  BY <1>1, <1>2, <1>3, TableType

LEMMA EmptyTableType ==
  EmptyTable \in Tables /\ EmptyTable.version = 0
<1>1. Empty \in PendingMaps
  <2>1. DOMAIN Empty \in FiniteTids
    BY FS_EmptySet DEF Empty, FiniteTids
  <2>2. Empty \in [DOMAIN Empty -> Transactions]
    BY DEF Empty
  <2>. QED
    BY <2>1, <2>2, PendingDef
<1>. QED
  BY <1>1 DEF EmptyTable, Tables

-----------------------------------------------------------------------------
(* The replay of a journal *)

\* The entry can be applied to the table: the next version, and a transaction
\* that is pending
Applies(t, e) ==
  /\ t.version = e.version - 1
  /\ e.op \in {"COMMIT", "ROLLBACK"} => e.tid \in DOMAIN t.pending

LEMMA ReplayType ==
  ASSUME NEW t \in Tables, NEW e \in Entries, t.version < e.version => Applies(t, e)
  PROVE  /\ Replay(t, e) \in Tables
         /\ t.version <= Replay(t, e).version /\ e.version <= Replay(t, e).version
<1>1. t.version \in Nat /\ e.version \in Nat /\ e.tid \in Nat
  BY DEF Tables, Entries
<1>2. CASE t.version >= e.version
  BY <1>1, <1>2 DEF Replay
<1>3. CASE ~(t.version >= e.version)
  <2>1. Applies(t, e) /\ t.version + 1 = e.version
    BY <1>1, <1>3 DEF Applies
  <2>. SUFFICES Replay(t, e) \in Tables /\ Replay(t, e).version = t.version + 1
    BY <1>1, <2>1
  <2>2. CASE e.op = "PREPARE"
    <3>. DEFINE o == [kind |-> e.kind, snap |-> e.snap]
    <3>1. o \in [kind: AllKinds, snap: Nat] /\ e.mds \in Clients /\ e.reqid \in Nat
      BY DEF Entries
    <3>2. Replay(t, e) = Prepare(t, e.mds, e.reqid, o)
      BY <1>3, <2>2 DEF Replay
    <3>. HIDE DEF o
    <3>. QED
      BY <3>1, <3>2, PrepareType
  <2>3. CASE e.op = "COMMIT"
    <3>1. Replay(t, e) = Commit(t, e.tid) /\ e.tid \in DOMAIN t.pending
      BY <1>3, <2>1, <2>3 DEF Replay, Applies
    <3>. QED
      BY <3>1, CommitType
  <2>4. CASE e.op = "ROLLBACK"
    <3>1. Replay(t, e) = Rollback(t, e.tid)
      BY <1>3, <2>4 DEF Replay
    <3>. QED
      BY <3>1, RollbackType
  <2>5. CASE e.op = "UPDATE"
    <3>1. Replay(t, e) = ServerUpdate(t, e.purged)
      BY <1>3, <2>5 DEF Replay
    <3>. QED
      BY <3>1, UpdateType
  <2>. QED
    BY <2>2, <2>3, <2>4, <2>5 DEF Entries
<1>. QED
  BY <1>2, <1>3

\* The recursive function is there
LEMMA ReplayedIs ==
  ASSUME NEW t, NEW E, NEW j \in Seq(E)
  PROVE  /\ Replayed(t, j)[0] = t
         /\ \A i \in 1 .. Len(j) : Replayed(t, j)[i] = Replay(Replayed(t, j)[i - 1], j[i])
<1>. DEFINE After(f, i) == IF i = 0 THEN t ELSE Replay(f[i - 1], j[i])
            Is(n, f) == f = [i \in 0 .. n |-> After(f, i)]
            W == {n \in Nat : \E f : Is(n, f)}
<1>1. 0 \in W
  <2>1. Is(0, [i \in 0 .. 0 |-> t])
    OBVIOUS
  <2>. HIDE DEF Is
  <2>. QED
    BY <2>1
<1>2. ASSUME NEW n \in Nat, n \in W
      PROVE  n + 1 \in W
  <2>1. PICK f : Is(n, f)
    BY <1>2
  <2>. DEFINE g == [i \in 0 .. n + 1 |-> IF i = n + 1 THEN Replay(f[n], j[n + 1]) ELSE f[i]]
  <2>2. ASSUME NEW i \in 0 .. n + 1
        PROVE  g[i] = After(g, i)
    <3>1. CASE i = n + 1
      <4>1. i - 1 = n /\ i # 0 /\ n \in 0 .. n + 1 /\ n # n + 1
        BY <3>1
      <4>. QED
        BY <3>1, <4>1
    <3>2. CASE i # n + 1
      <4>1. i \in 0 .. n
        BY <3>2
      <4>2. f[i] = After(f, i)
        BY <2>1, <4>1
      <4>3. i # 0 => i - 1 \in 0 .. n + 1 /\ i - 1 # n + 1
        BY <4>1
      <4>. QED
        BY <3>2, <4>1, <4>2, <4>3
    <3>. QED
      BY <3>1, <3>2
  <2>3. Is(n + 1, g)
    <3>. HIDE DEF After
    <3>1. \A i \in 0 .. n + 1 : g[i] = After(g, i)
      BY <2>2
    <3>. QED
      BY <3>1
  <2>. HIDE DEF Is, g
  <2>. QED
    BY <2>3
<1>3. Len(j) \in W
  <2>1. Len(j) \in Nat
    BY LenProperties
  <2>. HIDE DEF W
  <2>. QED
    BY <1>1, <1>2, <2>1, NatSets
<1>4. PICK f : Is(Len(j), f)
  BY <1>3
<1>5. Is(Len(j), Replayed(t, j))
  <2>1. \E f0 : f0 = [i \in 0 .. Len(j) |-> IF i = 0 THEN t ELSE Replay(f0[i - 1], j[i])]
    BY <1>4
  <2>. QED
    BY <2>1 DEF Replayed
<1>6. \A i \in 0 .. Len(j) : Replayed(t, j)[i] = After(Replayed(t, j), i)
  <2>. HIDE DEF After
  <2>. QED
    BY <1>5
<1>7. Len(j) \in Nat
  BY LenProperties
<1>. QED
  BY <1>6, <1>7

LEMMA EntriesOf ==
  ASSUME NEW j \in Seq(Entries)
  PROVE  /\ Len(j) \in Nat
         /\ \A i \in 1 .. Len(j) : j[i] \in Entries /\ j[i].version \in Nat
<1>1. Len(j) \in Nat /\ \A i \in 1 .. Len(j) : j[i] \in Entries
  BY LenProperties, ElementOfSeq
<1>2. \A e \in Entries : e.version \in Nat
  BY DEF Entries
<1>. QED
  BY <1>1, <1>2

\* A replay depends on the entries it has read only
LEMMA ReplayedPrefix ==
  ASSUME NEW t, NEW E, NEW j \in Seq(E), NEW k \in Seq(E), NEW n \in Nat,
         n <= Len(j), n <= Len(k), \A i \in 1 .. n : j[i] = k[i]
  PROVE  \A i \in 0 .. n : Replayed(t, j)[i] = Replayed(t, k)[i]
<1>. DEFINE F == Replayed(t, j)
            G == Replayed(t, k)
            W == {i \in Nat : i <= n => F[i] = G[i]}
<1>1. /\ F[0] = t /\ \A i \in 1 .. Len(j) : F[i] = Replay(F[i - 1], j[i])
      /\ G[0] = t /\ \A i \in 1 .. Len(k) : G[i] = Replay(G[i - 1], k[i])
  BY ReplayedIs
<1>. HIDE DEF F, G
<1>2. 0 \in W
  BY <1>1
<1>3. ASSUME NEW i \in Nat, i \in W
      PROVE  i + 1 \in W
  <2>. SUFFICES ASSUME i + 1 <= n PROVE F[i + 1] = G[i + 1]
    OBVIOUS
  <2>1. Len(j) \in Nat /\ Len(k) \in Nat
    BY LenProperties
  <2>2. i + 1 \in 1 .. n /\ i + 1 \in 1 .. Len(j) /\ i + 1 \in 1 .. Len(k) /\ (i + 1) - 1 = i
    BY <2>1
  <2>3. F[i] = G[i] /\ j[i + 1] = k[i + 1]
    BY <1>3, <2>2
  <2>. QED
    BY <1>1, <2>2, <2>3
<1>4. \A i \in Nat : i \in W
  <2>. HIDE DEF W
  <2>. QED
    BY <1>2, <1>3, NatSets
<1>. QED
  BY <1>4 DEF F, G

\* The journal leads from a table to another: every entry that is not passed
\* over can be applied
Leads(t, j, u) ==
  /\ Replayed(t, j)[Len(j)] = u
  /\ \A i \in 1 .. Len(j) :
       Replayed(t, j)[i - 1].version < j[i].version => Applies(Replayed(t, j)[i - 1], j[i])

LEMMA LeadsType ==
  ASSUME NEW t \in Tables, NEW j \in Seq(Entries), NEW u, Leads(t, j, u)
  PROVE  \A i \in 0 .. Len(j) :
           /\ Replayed(t, j)[i] \in Tables
           /\ \A k \in 1 .. i : j[k].version <= Replayed(t, j)[i].version
<1>. DEFINE F == Replayed(t, j)
            Good(i) == F[i] \in Tables /\ \A k \in 1 .. i : j[k].version <= F[i].version
            W == {i \in Nat : i <= Len(j) => Good(i)}
<1>1. F[0] = t /\ \A i \in 1 .. Len(j) : F[i] = Replay(F[i - 1], j[i])
  BY ReplayedIs
<1>2. \A i \in 1 .. Len(j) : F[i - 1].version < j[i].version => Applies(F[i - 1], j[i])
  BY DEF Leads
<1>3. Len(j) \in Nat /\ \A i \in 1 .. Len(j) : j[i] \in Entries /\ j[i].version \in Nat
  BY EntriesOf
<1>. HIDE DEF F
<1>4. 0 \in W
  BY <1>1
<1>5. ASSUME NEW i \in Nat, i \in W
      PROVE  i + 1 \in W
  <2>. SUFFICES ASSUME i + 1 <= Len(j) PROVE Good(i + 1)
    OBVIOUS
  <2>1. i + 1 \in 1 .. Len(j) /\ (i + 1) - 1 = i
    BY <1>3
  <2>2. Good(i)
    BY <1>3, <1>5, <2>1
  <2>3. F[i + 1] = Replay(F[i], j[i + 1]) /\ j[i + 1] \in Entries
    BY <1>1, <1>3, <2>1
  <2>4. F[i].version < j[i + 1].version => Applies(F[i], j[i + 1])
    BY <1>2, <2>1
  <2>5. /\ F[i + 1] \in Tables
        /\ F[i].version <= F[i + 1].version /\ j[i + 1].version <= F[i + 1].version
    BY <2>2, <2>3, <2>4, ReplayType
  <2>6. F[i].version \in Nat /\ F[i + 1].version \in Nat
    BY <2>2, <2>5 DEF Tables
  <2>7. ASSUME NEW k \in 1 .. i + 1
        PROVE  j[k].version <= F[i + 1].version
    <3>1. CASE k = i + 1
      BY <2>5, <3>1
    <3>2. CASE k # i + 1
      <4>1. k \in 1 .. i /\ k \in 1 .. Len(j)
        BY <1>3, <2>1, <3>2
      <4>2. j[k].version <= F[i].version /\ j[k].version \in Nat
        BY <1>3, <2>2, <4>1
      <4>. QED
        BY <2>5, <2>6, <4>2
    <3>. QED
      BY <3>1, <3>2
  <2>. QED
    BY <2>5, <2>7
<1>6. \A i \in Nat : i \in W
  <2>. HIDE DEF W
  <2>. QED
    BY <1>4, <1>5, NatSets
<1>. QED
  BY <1>3, <1>6 DEF F

\* A table that has all entries is left alone
LEMMA LeadsNowhere ==
  ASSUME NEW t \in Tables, NEW j \in Seq(Entries),
         \A i \in 1 .. Len(j) : j[i].version <= t.version
  PROVE  Leads(t, j, t)
<1>. DEFINE F == Replayed(t, j)
            W == {i \in Nat : i <= Len(j) => F[i] = t}
<1>1. F[0] = t /\ \A i \in 1 .. Len(j) : F[i] = Replay(F[i - 1], j[i])
  BY ReplayedIs
<1>2. Len(j) \in Nat /\ t.version \in Nat /\ \A i \in 1 .. Len(j) : j[i].version \in Nat
  BY EntriesOf DEF Tables
<1>. HIDE DEF F
<1>3. 0 \in W
  BY <1>1
<1>4. ASSUME NEW i \in Nat, i \in W
      PROVE  i + 1 \in W
  <2>. SUFFICES ASSUME i + 1 <= Len(j) PROVE F[i + 1] = t
    OBVIOUS
  <2>1. i + 1 \in 1 .. Len(j) /\ (i + 1) - 1 = i
    BY <1>2
  <2>2. F[i] = t /\ t.version >= j[i + 1].version
    BY <1>2, <1>4, <2>1
  <2>3. F[i + 1] = Replay(t, j[i + 1])
    BY <1>1, <2>1, <2>2
  <2>. QED
    BY <2>2, <2>3 DEF Replay
<1>5. \A i \in Nat : i \in W
  <2>. HIDE DEF W
  <2>. QED
    BY <1>3, <1>4, NatSets
<1>6. \A i \in 0 .. Len(j) : F[i] = t
  BY <1>2, <1>5
<1>7. ASSUME NEW i \in 1 .. Len(j)
      PROVE  ~(F[i - 1].version < j[i].version)
  <2>1. F[i - 1] = t
    BY <1>2, <1>6
  <2>. QED
    BY <1>2, <2>1
<1>. QED
  BY <1>2, <1>6, <1>7 DEF Leads, F

\* One entry more
LEMMA LeadsOn ==
  ASSUME NEW t, NEW j \in Seq(Entries), NEW u, Leads(t, j, u),
         NEW e \in Entries, Applies(u, e)
  PROVE  Leads(t, Append(j, e), Replay(u, e))
<1>. DEFINE k == Append(j, e)
            n == Len(j)
            F == Replayed(t, j)
            G == Replayed(t, k)
<1>1. /\ n \in Nat /\ k \in Seq(Entries) /\ Len(k) = n + 1
      /\ k[n + 1] = e /\ \A i \in 1 .. n : j[i] = k[i]
  BY AppendProperties, LenProperties
<1>2. /\ F[n] = u
      /\ \A i \in 1 .. n : F[i - 1].version < j[i].version => Applies(F[i - 1], j[i])
  BY DEF Leads
<1>. HIDE DEF k
<1>3. \A i \in 0 .. n : F[i] = G[i]
  <2>1. n <= Len(j) /\ n <= Len(k)
    BY <1>1
  <2>. HIDE DEF n
  <2>. QED
    BY <1>1, <2>1, ReplayedPrefix
<1>4. \A i \in 1 .. Len(k) : G[i] = Replay(G[i - 1], k[i])
  BY <1>1, ReplayedIs
<1>. HIDE DEF n, F, G
<1>5. n + 1 \in 1 .. Len(k) /\ (n + 1) - 1 = n /\ n \in 0 .. n
  BY <1>1
<1>6. G[n] = u
  BY <1>2, <1>3, <1>5
<1>7. G[n + 1] = Replay(u, e)
  BY <1>1, <1>4, <1>5, <1>6
<1>8. ASSUME NEW i \in 1 .. Len(k), G[i - 1].version < k[i].version
      PROVE  Applies(G[i - 1], k[i])
  <2>1. CASE i = n + 1
    BY <1>1, <1>5, <1>6, <2>1
  <2>2. CASE i # n + 1
    <3>1. i \in 1 .. n /\ i - 1 \in 0 .. n
      BY <1>1, <2>2
    <3>2. G[i - 1] = F[i - 1] /\ k[i] = j[i]
      BY <1>1, <1>3, <3>1
    <3>. QED
      BY <1>2, <1>8, <3>1, <3>2
  <2>. QED
    BY <2>1, <2>2
<1>. QED
  BY <1>1, <1>7, <1>8 DEF Leads, G, k

\* What a crash leaves of the journal
LEMMA LeadsBack ==
  ASSUME NEW t \in Tables, NEW j \in Seq(Entries), NEW u, Leads(t, j, u), NEW n \in 0 .. Len(j)
  PROVE  LET k == SubSeq(j, 1, n)
         IN  /\ k \in Seq(Entries) /\ Len(k) = n /\ \A i \in 1 .. n : k[i] = j[i]
             /\ Leads(t, k, Recovered(t, k)) /\ Recovered(t, k) \in Tables
             /\ \A i \in 1 .. n : k[i].version <= Recovered(t, k).version
<1>. DEFINE k == SubSeq(j, 1, n)
            F == Replayed(t, j)
            G == Replayed(t, k)
<1>1. n \in Nat /\ Len(j) \in Nat /\ n <= Len(j)
  BY LenProperties
<1>2. k \in Seq(Entries) /\ Len(k) = n /\ \A i \in 1 .. n : k[i] = j[i]
  BY <1>1, SubSeqProperties
<1>. HIDE DEF k
<1>3. \A i \in 0 .. n : F[i] = G[i]
  <2>1. n <= Len(k) /\ \A i \in 1 .. n : j[i] = k[i]
    BY <1>1, <1>2
  <2>. QED
    BY <1>1, <1>2, <2>1, ReplayedPrefix
<1>4. \A i \in 1 .. Len(j) : F[i - 1].version < j[i].version => Applies(F[i - 1], j[i])
  BY DEF Leads
<1>5. F[n] \in Tables /\ \A i \in 1 .. n : j[i].version <= F[n].version
  BY LeadsType
<1>6. Recovered(t, k) = F[n]
  BY <1>1, <1>2, <1>3 DEF Recovered
<1>7. ASSUME NEW i \in 1 .. Len(k), G[i - 1].version < k[i].version
      PROVE  Applies(G[i - 1], k[i])
  <2>. HIDE DEF F, G
  <2>1. i \in 1 .. n /\ i \in 1 .. Len(j) /\ i - 1 \in 0 .. n
    BY <1>1, <1>2
  <2>2. G[i - 1] = F[i - 1] /\ k[i] = j[i]
    BY <1>2, <1>3, <2>1
  <2>. QED
    BY <1>4, <1>7, <2>1, <2>2
<1>8. Leads(t, k, Recovered(t, k))
  BY <1>7 DEF Leads, Recovered
<1>9. \A i \in 1 .. n : k[i].version <= Recovered(t, k).version
  BY <1>2, <1>5, <1>6
<1>. QED
  BY <1>2, <1>5, <1>6, <1>8, <1>9 DEF k

-----------------------------------------------------------------------------
(* The server *)

\* The tables that a new instance of the server may read
Objects == {saved} \cup ToSet(saving)

\* The last version that has been answered
Answered == IF safe = 0 THEN 0 ELSE jrnl[safe].version

ServerTypes ==
  /\ table \in Tables /\ saved \in Tables /\ saving \in Seq(Tables)
  /\ jrnl \in Seq(Entries) /\ safe \in 0 .. Len(jrnl)

\* The versions grow along the journal; a PREPARE makes its version the tid
Growing ==
  /\ \A i \in 1 .. Len(jrnl) : /\ 0 < jrnl[i].version /\ jrnl[i].version <= table.version
                               /\ jrnl[i].op = "PREPARE" => jrnl[i].tid = jrnl[i].version
  /\ \A i, k \in 1 .. Len(jrnl) : i < k => jrnl[i].version < jrnl[k].version

ServerInv == ServerTypes /\ Growing /\ \A t \in Objects : Leads(t, jrnl, table)

LEMMA ObjectTypes ==
  ASSUME ServerTypes
  PROVE  \A t \in Objects : t \in Tables
<1>1. \A i \in DOMAIN saving : saving[i] \in Tables
  BY DEF ServerTypes
<1>. QED
  BY <1>1 DEF ServerTypes, Objects, ToSet

LEMMA AnsweredType ==
  ASSUME ServerInv
  PROVE  /\ Answered \in Nat /\ Answered <= table.version /\ table.version \in Nat
         /\ \A i \in 1 .. Len(jrnl) : jrnl[i].version \in Nat /\ (i > safe => Answered < jrnl[i].version)
<1>1. jrnl \in Seq(Entries) /\ safe \in 0 .. Len(jrnl) /\ table.version \in Nat
  BY DEF ServerInv, ServerTypes, Tables
<1>2. Len(jrnl) \in Nat /\ \A i \in 1 .. Len(jrnl) : jrnl[i].version \in Nat
  BY <1>1, EntriesOf
<1>3. CASE safe = 0
  <2>1. \A i \in 1 .. Len(jrnl) : 0 < jrnl[i].version
    BY DEF ServerInv, Growing
  <2>. QED
    BY <1>1, <1>2, <1>3, <2>1 DEF Answered
<1>4. CASE safe # 0
  <2>1. safe \in 1 .. Len(jrnl)
    BY <1>1, <1>2, <1>4
  <2>2. Answered = jrnl[safe].version
    BY <1>4 DEF Answered
  <2>3. jrnl[safe].version <= table.version /\ \A i \in 1 .. Len(jrnl) : i > safe => jrnl[safe].version < jrnl[i].version
    BY <2>1, <1>2 DEF ServerInv, Growing
  <2>. QED
    BY <1>1, <1>2, <2>1, <2>2, <2>3
<1>. QED
  BY <1>3, <1>4

\* An operation is done in memory and submitted
LEMMA SubmitStep ==
  ASSUME ServerInv, NEW e \in Entries, Applies(table, e),
         e.op = "PREPARE" => e.tid = e.version,
         table' = Replay(table, e), Submit(e), UNCHANGED <<saved, saving, safe>>
  PROVE  ServerInv' /\ Answered' = Answered
<1>1. /\ table \in Tables /\ saved \in Tables /\ saving \in Seq(Tables)
      /\ jrnl \in Seq(Entries) /\ safe \in 0 .. Len(jrnl)
  BY DEF ServerInv, ServerTypes
<1>. DEFINE k == Append(jrnl, e)
            n == Len(jrnl)
<1>2. /\ n \in Nat /\ k \in Seq(Entries) /\ Len(k) = n + 1
      /\ k[n + 1] = e /\ \A i \in 1 .. n : k[i] = jrnl[i]
  BY <1>1, AppendProperties, LenProperties
<1>3. jrnl' = k
  BY DEF Submit
<1>. HIDE DEF k, n
<1>4. table.version \in Nat /\ e.version \in Nat /\ table.version = e.version - 1
  BY <1>1 DEF Tables, Entries, Applies
<1>5. table' \in Tables /\ table.version <= table'.version /\ e.version <= table'.version
  BY <1>1, ReplayType
<1>6. \A i \in 1 .. n : jrnl[i].version \in Nat
  BY <1>1, EntriesOf DEF n
<1>7. ServerTypes'
  <2>1. safe \in 0 .. n + 1
    BY <1>1, <1>2 DEF n
  <2>. QED
    BY <1>1, <1>2, <1>3, <1>5, <2>1 DEF ServerTypes
<1>8. table'.version \in Nat
  BY <1>5 DEF Tables
<1>9. Growing'
  <2>1. /\ \A i \in 1 .. n : /\ 0 < jrnl[i].version /\ jrnl[i].version <= table.version
                             /\ jrnl[i].op = "PREPARE" => jrnl[i].tid = jrnl[i].version
        /\ \A i, j \in 1 .. n : i < j => jrnl[i].version < jrnl[j].version
    BY DEF ServerInv, Growing, n
  <2>2. ASSUME NEW i \in 1 .. n + 1
        PROVE  /\ 0 < k[i].version /\ k[i].version <= table'.version
               /\ k[i].op = "PREPARE" => k[i].tid = k[i].version
    <3>1. CASE i = n + 1
      BY <1>2, <1>4, <1>5, <3>1
    <3>2. CASE i # n + 1
      <4>1. i \in 1 .. n
        BY <1>2, <3>2
      <4>. QED
        BY <1>2, <1>4, <1>5, <1>6, <1>8, <2>1, <4>1
    <3>. QED
      BY <3>1, <3>2
  <2>3. ASSUME NEW i \in 1 .. n + 1, NEW j \in 1 .. n + 1, i < j
        PROVE  k[i].version < k[j].version
    <3>1. i \in 1 .. n
      BY <1>2, <2>3
    <3>2. k[i] = jrnl[i] /\ jrnl[i].version <= table.version /\ jrnl[i].version \in Nat
      BY <1>2, <1>6, <2>1, <3>1
    <3>3. CASE j = n + 1
      BY <1>2, <1>4, <3>2, <3>3
    <3>4. CASE j # n + 1
      <4>1. j \in 1 .. n
        BY <1>2, <3>4
      <4>. QED
        BY <1>2, <2>1, <2>3, <3>1, <4>1
    <3>. QED
      BY <3>3, <3>4
  <2>. QED
    BY <1>2, <1>3, <2>2, <2>3 DEF Growing
<1>10. ASSUME NEW t \in Objects'
       PROVE  Leads(t, jrnl', table')
  <2>1. t \in Objects
    BY DEF Objects
  <2>2. Leads(t, jrnl, table)
    BY <2>1 DEF ServerInv
  <2>. QED
    BY <1>1, <1>3, <2>2, LeadsOn DEF k
<1>11. Answered' = Answered
  <2>1. CASE safe = 0
    BY <2>1 DEF Answered
  <2>2. CASE safe # 0
    <3>1. safe \in 1 .. n
      BY <1>1, <1>2, <2>2 DEF n
    <3>2. k[safe] = jrnl[safe]
      BY <1>2, <3>1
    <3>. QED
      BY <1>3, <2>2, <3>2 DEF Answered
  <2>. QED
    BY <2>1, <2>2
<1>. QED
  BY <1>7, <1>9, <1>10, <1>11 DEF ServerInv

\* Nothing happens to the server
LEMMA ServerRests ==
  ASSUME ServerInv, UNCHANGED server
  PROVE  ServerInv' /\ Answered' = Answered
BY DEF server, ServerInv, ServerTypes, Growing, Objects, Leads, Answered

\* An entry has become safe
LEMMA LoggedStep ==
  ASSUME ServerInv, safe < Len(jrnl), safe' = safe + 1, UNCHANGED <<table, saved, saving, jrnl>>
  PROVE  /\ ServerInv' /\ Answered < Answered'
         /\ safe + 1 \in 1 .. Len(jrnl) /\ Answered' = jrnl[safe + 1].version
<1>1. jrnl \in Seq(Entries) /\ safe \in 0 .. Len(jrnl)
  BY DEF ServerInv, ServerTypes
<1>2. Len(jrnl) \in Nat
  BY <1>1, EntriesOf
<1>3. safe + 1 \in 1 .. Len(jrnl) /\ safe + 1 \in 0 .. Len(jrnl) /\ safe + 1 # 0 /\ safe + 1 > safe
  BY <1>1, <1>2
<1>4. Answered' = jrnl[safe + 1].version
  BY <1>3 DEF Answered
<1>5. ServerTypes'
  BY <1>3 DEF ServerInv, ServerTypes
<1>6. Growing'
  BY DEF ServerInv, Growing
<1>7. \A t \in Objects' : Leads(t, jrnl', table')
  BY DEF ServerInv, Objects
<1>8. ServerInv'
  BY <1>5, <1>6, <1>7 DEF ServerInv
<1>9. Answered \in Nat /\ jrnl[safe + 1].version \in Nat /\ Answered < jrnl[safe + 1].version
  BY <1>3, AnsweredType
<1>. QED
  BY <1>3, <1>4, <1>8, <1>9

LEMMA SaveStep ==
  ASSUME ServerInv, saving' = Append(saving, table), UNCHANGED <<table, saved, jrnl, safe>>
  PROVE  ServerInv' /\ Answered' = Answered
<1>1. saving \in Seq(Tables) /\ table \in Tables /\ jrnl \in Seq(Entries)
  BY DEF ServerInv, ServerTypes
<1>2. /\ Append(saving, table) \in Seq(Tables)
      /\ Len(saving) \in Nat /\ Len(Append(saving, table)) = Len(saving) + 1
      /\ \A i \in 1 .. Len(saving) : Append(saving, table)[i] = saving[i]
      /\ Append(saving, table)[Len(saving) + 1] = table
  BY <1>1, AppendProperties, LenProperties
<1>3. ServerTypes'
  BY <1>2 DEF ServerInv, ServerTypes
<1>4. Growing' /\ Answered' = Answered
  BY DEF ServerInv, Growing, Answered
<1>5. Leads(table, jrnl, table)
  <2>1. \A i \in 1 .. Len(jrnl) : jrnl[i].version <= table.version
    BY DEF ServerInv, Growing
  <2>. QED
    BY <1>1, <2>1, LeadsNowhere
<1>6. ASSUME NEW t \in Objects'
      PROVE  t \in Objects \/ t = table
  <2>1. CASE t = saved
    BY <2>1 DEF Objects
  <2>2. CASE t # saved
    <3>1. PICK i \in DOMAIN (saving') : t = saving'[i]
      BY <2>2 DEF Objects, ToSet
    <3>2. saving' \in Seq(Tables) /\ Len(saving') = Len(saving) + 1
      BY <1>2
    <3>3. i \in 1 .. Len(saving) + 1
      BY <3>1, <3>2
    <3>4. CASE i = Len(saving) + 1
      BY <1>2, <3>1, <3>4
    <3>5. CASE i # Len(saving) + 1
      <4>1. i \in 1 .. Len(saving)
        BY <1>2, <3>3, <3>5
      <4>2. t = saving[i] /\ i \in DOMAIN saving
        BY <1>1, <1>2, <3>1, <4>1
      <4>. QED
        BY <4>2 DEF Objects, ToSet
    <3>. QED
      BY <3>4, <3>5
  <2>. QED
    BY <2>1, <2>2
<1>7. \A t \in Objects' : Leads(t, jrnl', table')
  BY <1>5, <1>6 DEF ServerInv
<1>. QED
  BY <1>3, <1>4, <1>7 DEF ServerInv

LEMMA SavedStep ==
  ASSUME ServerInv, saving # <<>>, saved' = Head(saving), saving' = Tail(saving),
         UNCHANGED <<table, jrnl, safe>>
  PROVE  ServerInv' /\ Answered' = Answered
<1>1. saving \in Seq(Tables) /\ table \in Tables /\ jrnl \in Seq(Entries)
  BY DEF ServerInv, ServerTypes
<1>2. /\ Head(saving) \in Tables /\ Tail(saving) \in Seq(Tables) /\ Len(saving) \in Nat
      /\ Head(saving) = saving[1] /\ 1 \in DOMAIN saving
      /\ Len(Tail(saving)) = Len(saving) - 1
      /\ \A i \in 1 .. Len(saving) - 1 : Tail(saving)[i] = saving[i + 1]
  BY <1>1, HeadTailProperties, LenProperties
<1>3. ServerTypes'
  BY <1>2 DEF ServerInv, ServerTypes
<1>4. Growing' /\ Answered' = Answered
  BY DEF ServerInv, Growing, Answered
<1>5. ASSUME NEW t \in Objects'
      PROVE  t \in Objects
  <2>1. CASE t = saved'
    <3>1. t = saving[1]
      BY <1>2, <2>1
    <3>. QED
      BY <1>2, <3>1 DEF Objects, ToSet
  <2>2. CASE t # saved'
    <3>1. PICK i \in DOMAIN (saving') : t = saving'[i]
      BY <2>2 DEF Objects, ToSet
    <3>2. saving' \in Seq(Tables) /\ Len(saving') = Len(saving) - 1
      BY <1>2
    <3>3. i \in 1 .. Len(saving) - 1
      BY <3>1, <3>2
    <3>4. t = saving[i + 1] /\ i + 1 \in DOMAIN saving
      BY <1>1, <1>2, <3>1, <3>3
    <3>. QED
      BY <3>4 DEF Objects, ToSet
  <2>. QED
    BY <2>1, <2>2
<1>6. \A t \in Objects' : Leads(t, jrnl', table')
  BY <1>5 DEF ServerInv
<1>. QED
  BY <1>3, <1>4, <1>6 DEF ServerInv

\* The server dies, and another reads what there is
LEMMA ServerDies ==
  ASSUME ServerInv, NEW n \in safe .. Len(jrnl), NEW w \in 0 .. Len(saving),
         jrnl' = SubSeq(jrnl, 1, n), safe' = n,
         saved' = IF w = 0 THEN saved ELSE saving[w], saving' = <<>>,
         table' = Recovered(saved', jrnl')
  PROVE  ServerInv' /\ Answered <= Answered'
<1>1. saving \in Seq(Tables) /\ saved \in Tables /\ jrnl \in Seq(Entries) /\ safe \in 0 .. Len(jrnl)
  BY DEF ServerInv, ServerTypes
<1>2. Len(jrnl) \in Nat /\ Len(saving) \in Nat /\ n \in 0 .. Len(jrnl) /\ n \in Nat /\ safe \in 0 .. n
  BY <1>1, LenProperties
<1>3. saved' \in Objects
  <2>1. CASE w = 0
    BY <2>1 DEF Objects
  <2>2. CASE w # 0
    <3>1. w \in DOMAIN saving
      BY <1>1, <1>2, <2>2
    <3>. QED
      BY <2>2, <3>1 DEF Objects, ToSet
  <2>. QED
    BY <2>1, <2>2
<1>. DEFINE t == saved'
            k == SubSeq(jrnl, 1, n)
<1>4. t \in Tables /\ Leads(t, jrnl, table)
  BY <1>3, ObjectTypes DEF ServerInv
<1>5. /\ k \in Seq(Entries) /\ Len(k) = n /\ \A i \in 1 .. n : k[i] = jrnl[i]
      /\ Leads(t, k, Recovered(t, k)) /\ Recovered(t, k) \in Tables
      /\ \A i \in 1 .. n : k[i].version <= Recovered(t, k).version
  <2>. HIDE DEF t
  <2>. QED
    BY <1>1, <1>2, <1>4, LeadsBack
<1>6. jrnl' = k /\ table' = Recovered(t, k)
  OBVIOUS
<1>. HIDE DEF k
<1>7. ServerTypes'
  BY <1>2, <1>4, <1>5, <1>6 DEF ServerTypes
<1>8. Growing'
  <2>1. /\ \A i \in 1 .. Len(jrnl) : /\ 0 < jrnl[i].version
                                     /\ jrnl[i].op = "PREPARE" => jrnl[i].tid = jrnl[i].version
        /\ \A i, j \in 1 .. Len(jrnl) : i < j => jrnl[i].version < jrnl[j].version
    BY DEF ServerInv, Growing
  <2>2. \A i \in 1 .. n : i \in 1 .. Len(jrnl)
    BY <1>2
  <2>3. \A i \in 1 .. n : 0 < k[i].version /\ (k[i].op = "PREPARE" => k[i].tid = k[i].version)
    BY <1>5, <2>1, <2>2
  <2>4. \A i, j \in 1 .. n : i < j => k[i].version < k[j].version
    BY <1>5, <2>1, <2>2
  <2>. QED
    BY <1>5, <1>6, <2>3, <2>4 DEF Growing
<1>9. \A u \in Objects' : Leads(u, jrnl', table')
  <2>1. ASSUME NEW u \in Objects'
        PROVE  u = t
    <3>1. DOMAIN (saving') = {}
      OBVIOUS
    <3>. QED
      BY <3>1 DEF Objects, ToSet
  <2>. QED
    BY <1>5, <1>6, <2>1
<1>10. Answered <= Answered'
  <2>0. Answered \in Nat
    BY AnsweredType
  <2>1. CASE safe = 0
    <3>1. Answered = 0
      BY <2>1 DEF Answered
    <3>2. Answered' \in Nat
      <4>1. ServerInv'
        BY <1>7, <1>8, <1>9 DEF ServerInv
      <4>2. n = 0 => Answered' = 0
        BY DEF Answered
      <4>3. n # 0 => Answered' = k[n].version /\ n \in 1 .. n
        BY <1>2, <1>6 DEF Answered
      <4>4. \A i \in 1 .. n : k[i].version \in Nat
        BY <1>5, EntriesOf
      <4>. QED
        BY <4>2, <4>3, <4>4
    <3>. QED
      BY <3>1, <3>2
  <2>2. CASE safe # 0
    <3>1. safe \in 1 .. n /\ n \in 1 .. n /\ n # 0 /\ safe \in 1 .. Len(jrnl) /\ n \in 1 .. Len(jrnl)
      BY <1>2, <2>2
    <3>2. Answered = jrnl[safe].version
      BY <2>2 DEF Answered
    <3>3. Answered' = k[n].version
      BY <1>6, <3>1 DEF Answered
    <3>4. Answered' = jrnl[n].version
      BY <1>5, <3>1, <3>3
    <3>5. CASE safe = n
      BY <2>0, <3>2, <3>4, <3>5
    <3>6. CASE safe # n
      <4>1. safe < n
        BY <3>1, <3>6
      <4>2. jrnl[safe].version < jrnl[n].version
        BY <3>1, <4>1 DEF ServerInv, Growing
      <4>3. jrnl[n].version \in Nat
        BY <1>1, <3>1, EntriesOf
      <4>. QED
        BY <2>0, <3>2, <3>4, <4>2, <4>3
    <3>. QED
      BY <3>5, <3>6
  <2>. QED
    BY <2>1, <2>2
<1>. QED
  BY <1>7, <1>8, <1>9, <1>10 DEF ServerInv

-----------------------------------------------------------------------------
(* The clients *)

MessageOps == {"PREPARE", "COMMIT", "ROLLBACK", "AGREE", "ACK", "READY"}
Messages == [op: MessageOps, reqid: Nat, tid: Nat, kind: AllKinds, snap: Nat, seq: Nat]
Wants == [kind: AllKinds, snap: Nat, live: BOOLEAN]
WantMaps == UNION {[D -> Wants] : D \in FiniteTids}
TidMaps == UNION {[D -> Nat] : D \in SUBSET Nat}
Notes == [op: {"UPDATE", "ACK"}, tid: Nat, kind: AllKinds, snap: Nat]

ClientStates ==
  [ready: BOOLEAN, last_reqid: Nat \cup {Unset}, waiting: Seq(Wants), preparing: WantMaps,
   prepared: TidMaps, committing: FiniteTids, journal: Seq(Notes), safe: Nat]

\* The AGREE of a prepare that has been logged, with its answer
Answer(m) == m.op = "AGREE" /\ m.seq # 0

\* Of a client: its state s, the messages in to it and out from it, and w, the
\* last version that the server has answered
ClientTypes(s, in, out) ==
  /\ s \in ClientStates /\ s.safe <= Len(s.journal)
  /\ in \in Seq(Messages) /\ out \in Seq(Messages)

\* The tids it learns grow, along its journal and then along its messages
Learns(j, in) ==
  /\ \A i, k \in 1 .. Len(j) :
       i < k /\ j[i].op = "UPDATE" /\ j[k].op = "UPDATE" => j[i].tid < j[k].tid
  /\ \A i, k \in 1 .. Len(in) :
       i < k /\ Answer(in[i]) /\ Answer(in[k]) => in[i].tid < in[k].tid
  /\ \A i \in 1 .. Len(j), k \in 1 .. Len(in) :
       j[i].op = "UPDATE" /\ Answer(in[k]) => j[i].tid < in[k].tid

\* The server has answered all that the client knows,
Known(j, committing, in, w) ==
  /\ \A i \in 1 .. Len(j) : j[i].op = "UPDATE" => j[i].tid <= w
  /\ \A i \in 1 .. Len(in) : Answer(in[i]) => in[i].tid <= w
  /\ \A tid \in committing : tid <= w

\* and all that it commits
Sent(out, w) == \A i \in 1 .. Len(out) : out[i].op = "COMMIT" => out[i].tid <= w

\* commit() will find it
Prepared(j, n, prepared) ==
  \A i \in n + 1 .. Len(j) : j[i].op = "UPDATE" => j[i].tid \in DOMAIN prepared

ClientOK(s, in, out, w) ==
  /\ ClientTypes(s, in, out)
  /\ Learns(s.journal, in)
  /\ Known(s.journal, s.committing, in, w)
  /\ Sent(out, w)
  /\ Prepared(s.journal, s.safe, s.prepared)

\* SERVER_READY is sent once to a client that is there while the server is
ServerReadyOK(ready, in, live) ==
  /\ ~live => ~ready /\ \A i \in 1 .. Len(in) : in[i].op # "READY"
  /\ \A i \in 1 .. Len(in) :
       in[i].op = "READY" => ~ready /\ \A k \in 1 .. Len(in) : in[k].op = "READY" => k = i

LEMMA MessagesOf ==
  ASSUME NEW q \in Seq(Messages)
  PROVE  /\ Len(q) \in Nat /\ DOMAIN q = 1 .. Len(q)
         /\ \A i \in 1 .. Len(q) : q[i] \in Messages /\ q[i].tid \in Nat /\ q[i].reqid \in Nat
         /\ q # <<>> => /\ Head(q) \in Messages /\ Head(q) = q[1] /\ 1 \in 1 .. Len(q)
                        /\ Tail(q) \in Seq(Messages) /\ Len(Tail(q)) = Len(q) - 1
                        /\ \A i \in 1 .. Len(q) - 1 : Tail(q)[i] = q[i + 1] /\ i + 1 \in 1 .. Len(q)
<1>1. Len(q) \in Nat /\ DOMAIN q = 1 .. Len(q) /\ \A i \in 1 .. Len(q) : q[i] \in Messages
  BY LenProperties, ElementOfSeq
<1>2. \A m \in Messages : m.tid \in Nat /\ m.reqid \in Nat
  BY DEF Messages
<1>3. ASSUME q # <<>>
      PROVE  /\ Head(q) \in Messages /\ Head(q) = q[1] /\ 1 \in 1 .. Len(q)
             /\ Tail(q) \in Seq(Messages) /\ Len(Tail(q)) = Len(q) - 1
             /\ \A i \in 1 .. Len(q) - 1 : Tail(q)[i] = q[i + 1] /\ i + 1 \in 1 .. Len(q)
  <2>1. /\ Head(q) \in Messages /\ Tail(q) \in Seq(Messages) /\ Len(Tail(q)) = Len(q) - 1
        /\ \A i \in 1 .. Len(q) - 1 : Tail(q)[i] = q[i + 1]
    BY <1>3, HeadTailProperties
  <2>2. Len(q) # 0
    BY <1>3, EmptySeq
  <2>3. 1 \in 1 .. Len(q) /\ \A i \in 1 .. Len(q) - 1 : i + 1 \in 1 .. Len(q)
    BY <1>1, <2>2
  <2>. QED
    BY <2>1, <2>3
<1>. QED
  BY <1>1, <1>2, <1>3

LEMMA NotesOf ==
  ASSUME NEW j \in Seq(Notes)
  PROVE  /\ Len(j) \in Nat
         /\ \A i \in 1 .. Len(j) : j[i] \in Notes /\ j[i].tid \in Nat
<1>1. Len(j) \in Nat /\ \A i \in 1 .. Len(j) : j[i] \in Notes
  BY LenProperties, ElementOfSeq
<1>2. \A e \in Notes : e.tid \in Nat
  BY DEF Notes
<1>. QED
  BY <1>1, <1>2

\* A message more for the client
LEMMA LearnsMore ==
  ASSUME NEW j \in Seq(Notes), NEW C \in SUBSET Nat, NEW in \in Seq(Messages),
         NEW w \in Nat, NEW v \in Nat, Learns(j, in), Known(j, C, in, w), w <= v,
         NEW m \in Messages, Answer(m) => w < m.tid /\ m.tid <= v
  PROVE  Learns(j, Append(in, m)) /\ Known(j, C, Append(in, m), v)
<1>. DEFINE q == Append(in, m)
            n == Len(in)
<1>1. /\ n \in Nat /\ q \in Seq(Messages) /\ Len(q) = n + 1
      /\ q[n + 1] = m /\ \A i \in 1 .. n : q[i] = in[i] /\ in[i].tid \in Nat
  BY AppendProperties, MessagesOf
<1>2. Len(j) \in Nat /\ (\A i \in 1 .. Len(j) : j[i].tid \in Nat) /\ m.tid \in Nat
  BY NotesOf DEF Messages
<1>3. /\ \A i \in 1 .. Len(j) : j[i].op = "UPDATE" => j[i].tid <= w
      /\ \A i \in 1 .. n : Answer(in[i]) => in[i].tid <= w
      /\ \A tid \in C : tid <= w
  BY DEF Known
<1>4. /\ \A i, k \in 1 .. Len(j) : i < k /\ j[i].op = "UPDATE" /\ j[k].op = "UPDATE" => j[i].tid < j[k].tid
      /\ \A i, k \in 1 .. n : i < k /\ Answer(in[i]) /\ Answer(in[k]) => in[i].tid < in[k].tid
      /\ \A i \in 1 .. Len(j), k \in 1 .. n : j[i].op = "UPDATE" /\ Answer(in[k]) => j[i].tid < in[k].tid
  BY DEF Learns
<1>. HIDE DEF q, n
<1>5. \A i \in 1 .. n + 1 : i = n + 1 \/ i \in 1 .. n
  BY <1>1
<1>6. ASSUME NEW i \in 1 .. n + 1, NEW k \in 1 .. n + 1, i < k, Answer(q[i]), Answer(q[k])
      PROVE  q[i].tid < q[k].tid
  <2>1. i \in 1 .. n
    BY <1>1, <1>6
  <2>2. CASE k = n + 1
    <3>1. in[i].tid <= w /\ w < m.tid
      BY <1>1, <1>3, <1>6, <2>1, <2>2
    <3>. QED
      BY <1>1, <1>2, <2>1, <2>2, <3>1
  <2>3. CASE k \in 1 .. n
    BY <1>1, <1>4, <1>6, <2>1, <2>3
  <2>. QED
    BY <1>5, <2>2, <2>3
<1>7. ASSUME NEW i \in 1 .. Len(j), NEW k \in 1 .. n + 1, j[i].op = "UPDATE", Answer(q[k])
      PROVE  j[i].tid < q[k].tid
  <2>1. CASE k = n + 1
    <3>1. j[i].tid <= w /\ w < m.tid
      BY <1>1, <1>3, <1>7, <2>1
    <3>. QED
      BY <1>1, <1>2, <2>1, <3>1
  <2>2. CASE k \in 1 .. n
    BY <1>1, <1>4, <1>7, <2>2
  <2>. QED
    BY <1>5, <2>1, <2>2
<1>8. ASSUME NEW i \in 1 .. n + 1, Answer(q[i])
      PROVE  q[i].tid <= v
  <2>1. CASE i = n + 1
    BY <1>1, <1>8, <2>1
  <2>2. CASE i \in 1 .. n
    <3>1. in[i].tid <= w
      BY <1>1, <1>3, <1>8, <2>2
    <3>. QED
      BY <1>1, <2>2, <3>1
  <2>. QED
    BY <1>5, <2>1, <2>2
<1>9. Learns(j, q)
  BY <1>1, <1>4, <1>6, <1>7 DEF Learns
<1>10. /\ \A i \in 1 .. Len(j) : j[i].op = "UPDATE" => j[i].tid <= v
       /\ \A tid \in C : tid <= v
  BY <1>2, <1>3
<1>11. Known(j, C, q, v)
  BY <1>1, <1>8, <1>10 DEF Known
<1>. QED
  BY <1>9, <1>11 DEF q

LEMMA KnownGrows ==
  ASSUME NEW j \in Seq(Notes), NEW C \in SUBSET Nat, NEW in \in Seq(Messages),
         NEW w \in Nat, NEW v \in Nat, Known(j, C, in, w), w <= v
  PROVE  Known(j, C, in, v)
<1>1. /\ \A i \in 1 .. Len(j) : j[i].tid \in Nat
      /\ \A i \in 1 .. Len(in) : in[i].tid \in Nat
  BY NotesOf, MessagesOf
<1>2. /\ \A i \in 1 .. Len(j) : j[i].op = "UPDATE" => j[i].tid <= w
      /\ \A i \in 1 .. Len(in) : Answer(in[i]) => in[i].tid <= w
      /\ \A tid \in C : tid <= w
  BY DEF Known
<1>3. \A i \in 1 .. Len(j) : j[i].op = "UPDATE" => j[i].tid <= v
  BY <1>1, <1>2
<1>4. \A i \in 1 .. Len(in) : Answer(in[i]) => in[i].tid <= v
  BY <1>1, <1>2
<1>5. \A tid \in C : tid <= v
  BY <1>2
<1>. QED
  BY <1>3, <1>4, <1>5 DEF Known

\* The first message is handled
LEMMA LearnsLess ==
  ASSUME NEW j, NEW C, NEW in \in Seq(Messages), NEW w,
         Learns(j, in), Known(j, C, in, w), in # <<>>
  PROVE  Learns(j, Tail(in)) /\ Known(j, C, Tail(in), w)
<1>. DEFINE q == Tail(in)
            n == Len(in)
<1>1. /\ n \in Nat /\ q \in Seq(Messages) /\ Len(q) = n - 1
      /\ \A i \in 1 .. n - 1 : q[i] = in[i + 1] /\ i + 1 \in 1 .. n
  BY MessagesOf
<1>2. \A i, k \in 1 .. n - 1 : i < k => i + 1 < k + 1
  BY <1>1
<1>3. /\ \A i, k \in 1 .. Len(j) : i < k /\ j[i].op = "UPDATE" /\ j[k].op = "UPDATE" => j[i].tid < j[k].tid
      /\ \A i, k \in 1 .. n : i < k /\ Answer(in[i]) /\ Answer(in[k]) => in[i].tid < in[k].tid
      /\ \A i \in 1 .. Len(j), k \in 1 .. n : j[i].op = "UPDATE" /\ Answer(in[k]) => j[i].tid < in[k].tid
  BY DEF Learns
<1>4. /\ \A i \in 1 .. n : Answer(in[i]) => in[i].tid <= w
      /\ \A i \in 1 .. Len(j) : j[i].op = "UPDATE" => j[i].tid <= w
      /\ \A tid \in C : tid <= w
  BY DEF Known
<1>. HIDE DEF q, n
<1>5. \A i, k \in 1 .. n - 1 : i < k /\ Answer(q[i]) /\ Answer(q[k]) => q[i].tid < q[k].tid
  BY <1>1, <1>2, <1>3
<1>6. \A i \in 1 .. Len(j), k \in 1 .. n - 1 : j[i].op = "UPDATE" /\ Answer(q[k]) => j[i].tid < q[k].tid
  BY <1>1, <1>3
<1>7. \A i \in 1 .. n - 1 : Answer(q[i]) => q[i].tid <= w
  BY <1>1, <1>4
<1>8. Learns(j, q)
  BY <1>1, <1>3, <1>5, <1>6 DEF Learns
<1>9. Known(j, C, q, w)
  BY <1>1, <1>4, <1>7 DEF Known
<1>. QED
  BY <1>8, <1>9 DEF q

\* An answer is handled: its tid goes into the journal
LEMMA LearnsAnswer ==
  ASSUME NEW j \in Seq(Notes), NEW C \in SUBSET Nat, NEW in \in Seq(Messages), NEW w \in Nat,
         Learns(j, in), Known(j, C, in, w), in # <<>>, Answer(Head(in)),
         NEW e \in Notes, e.tid = Head(in).tid
  PROVE  Learns(Append(j, e), Tail(in)) /\ Known(Append(j, e), C, Tail(in), w)
<1>. DEFINE q == Tail(in)
            n == Len(in)
            k == Append(j, e)
            l == Len(j)
<1>1. /\ n \in Nat /\ q \in Seq(Messages) /\ Len(q) = n - 1 /\ Head(in) = in[1] /\ 1 \in 1 .. n
      /\ \A i \in 1 .. n - 1 : q[i] = in[i + 1] /\ i + 1 \in 1 .. n
  BY MessagesOf
<1>2. /\ l \in Nat /\ k \in Seq(Notes) /\ Len(k) = l + 1
      /\ k[l + 1] = e /\ \A i \in 1 .. l : k[i] = j[i]
  BY AppendProperties, NotesOf
<1>3. Learns(j, q) /\ Known(j, C, q, w)
  BY LearnsLess
<1>4. /\ \A i, x \in 1 .. n : i < x /\ Answer(in[i]) /\ Answer(in[x]) => in[i].tid < in[x].tid
      /\ \A i \in 1 .. l, x \in 1 .. n : j[i].op = "UPDATE" /\ Answer(in[x]) => j[i].tid < in[x].tid
  BY DEF Learns
<1>5. Answer(in[1]) /\ in[1].tid <= w /\ e.tid = in[1].tid
  BY <1>1 DEF Known
<1>. HIDE DEF q, n, k, l
<1>6. /\ \A i, x \in 1 .. l : i < x /\ j[i].op = "UPDATE" /\ j[x].op = "UPDATE" => j[i].tid < j[x].tid
      /\ \A i, x \in 1 .. n - 1 : i < x /\ Answer(q[i]) /\ Answer(q[x]) => q[i].tid < q[x].tid
      /\ \A i \in 1 .. l, x \in 1 .. n - 1 : j[i].op = "UPDATE" /\ Answer(q[x]) => j[i].tid < q[x].tid
  BY <1>1, <1>3 DEF Learns, l
<1>7. \A i \in 1 .. l + 1 : i = l + 1 \/ i \in 1 .. l
  BY <1>2
<1>8. ASSUME NEW i \in 1 .. l + 1, NEW x \in 1 .. l + 1, i < x, k[i].op = "UPDATE", k[x].op = "UPDATE"
      PROVE  k[i].tid < k[x].tid
  <2>1. i \in 1 .. l
    BY <1>2, <1>8
  <2>2. CASE x = l + 1
    <3>1. k[x] = e /\ k[i] = j[i]
      BY <1>2, <2>1, <2>2
    <3>. QED
      BY <1>1, <1>4, <1>5, <1>8, <2>1, <3>1
  <2>3. CASE x \in 1 .. l
    BY <1>2, <1>6, <1>8, <2>1, <2>3
  <2>. QED
    BY <1>7, <2>2, <2>3
<1>9. ASSUME NEW i \in 1 .. l + 1, NEW x \in 1 .. n - 1, k[i].op = "UPDATE", Answer(q[x])
      PROVE  k[i].tid < q[x].tid
  <2>1. CASE i = l + 1
    <3>1. k[i] = e /\ q[x] = in[x + 1] /\ x + 1 \in 1 .. n /\ 1 < x + 1
      BY <1>1, <1>2, <2>1
    <3>. QED
      BY <1>1, <1>4, <1>5, <1>9, <3>1
  <2>2. CASE i \in 1 .. l
    BY <1>2, <1>6, <1>9, <2>2
  <2>. QED
    BY <1>7, <2>1, <2>2
<1>10. Learns(k, q)
  BY <1>1, <1>2, <1>6, <1>8, <1>9 DEF Learns
<1>11. /\ \A i \in 1 .. l : j[i].op = "UPDATE" => j[i].tid <= w
       /\ \A i \in 1 .. Len(q) : Answer(q[i]) => q[i].tid <= w
       /\ \A tid \in C : tid <= w
  BY <1>3 DEF Known, l
<1>12. \A i \in 1 .. l + 1 : k[i].op = "UPDATE" => k[i].tid <= w
  BY <1>2, <1>5, <1>7, <1>11
<1>13. Known(k, C, q, w)
  BY <1>2, <1>11, <1>12 DEF Known
<1>. QED
  BY <1>10, <1>13 DEF q, k

\* Another entry in the journal
LEMMA LearnsNothing ==
  ASSUME NEW j \in Seq(Notes), NEW C, NEW D \in SUBSET C, NEW in, NEW w,
         Learns(j, in), Known(j, C, in, w), NEW e \in Notes, e.op # "UPDATE"
  PROVE  Learns(Append(j, e), in) /\ Known(Append(j, e), D, in, w)
<1>. DEFINE k == Append(j, e)
            l == Len(j)
<1>1. /\ l \in Nat /\ k \in Seq(Notes) /\ Len(k) = l + 1
      /\ k[l + 1] = e /\ \A i \in 1 .. l : k[i] = j[i]
  BY AppendProperties, NotesOf
<1>2. \A i \in 1 .. l + 1 : k[i].op = "UPDATE" => i \in 1 .. l /\ k[i] = j[i]
  <2>1. \A i \in 1 .. l + 1 : i = l + 1 \/ i \in 1 .. l
    BY <1>1
  <2>. HIDE DEF k, l
  <2>. QED
    BY <1>1, <2>1
<1>3. /\ \A i, x \in 1 .. l : i < x /\ j[i].op = "UPDATE" /\ j[x].op = "UPDATE" => j[i].tid < j[x].tid
      /\ \A i, x \in 1 .. Len(in) : i < x /\ Answer(in[i]) /\ Answer(in[x]) => in[i].tid < in[x].tid
      /\ \A i \in 1 .. l, x \in 1 .. Len(in) : j[i].op = "UPDATE" /\ Answer(in[x]) => j[i].tid < in[x].tid
  BY DEF Learns
<1>4. /\ \A i \in 1 .. l : j[i].op = "UPDATE" => j[i].tid <= w
      /\ \A i \in 1 .. Len(in) : Answer(in[i]) => in[i].tid <= w
      /\ \A tid \in D : tid <= w
  BY DEF Known
<1>. HIDE DEF k, l
<1>5. Learns(k, in)
  BY <1>1, <1>2, <1>3 DEF Learns
<1>6. Known(k, D, in, w)
  BY <1>1, <1>2, <1>4 DEF Known
<1>. QED
  BY <1>5, <1>6 DEF k

\* What is left of the journal of a client that dies
LEMMA LearnsBack ==
  ASSUME NEW j \in Seq(Notes), NEW C, NEW in, NEW w \in Nat, NEW n \in 0 .. Len(j),
         Learns(j, in), Known(j, C, in, w)
  PROVE  LET k == SubSeq(j, 1, n)
         IN  /\ k \in Seq(Notes) /\ Len(k) = n
             /\ Uncommitted(k) \in FiniteTids
             /\ Learns(k, <<>>) /\ Known(k, Uncommitted(k), <<>>, w)
<1>. DEFINE k == SubSeq(j, 1, n)
            C2 == Uncommitted(k)
<1>1. Len(j) \in Nat /\ n \in Nat /\ n <= Len(j)
  BY NotesOf
<1>2. k \in Seq(Notes) /\ Len(k) = n /\ \A i \in 1 .. n : k[i] = j[i] /\ i \in 1 .. Len(j)
  BY <1>1, SubSeqProperties
<1>. HIDE DEF k
<1>3. \A tid \in C2 : \E i \in 1 .. n : k[i].op = "UPDATE" /\ tid = k[i].tid
  <2>1. DOMAIN k = 1 .. n
    BY <1>2, LenProperties
  <2>. QED
    BY <2>1 DEF Uncommitted
<1>4. C2 \in FiniteTids
  <2>1. \A i \in 1 .. n : k[i].tid \in Nat
    BY <1>2, NotesOf
  <2>2. C2 \subseteq Nat
    <3>. HIDE DEF C2
    <3>. QED
      BY <1>3, <2>1
  <2>. DEFINE T == {k[i].tid : i \in 1 .. n}
              f == [i \in 1 .. n |-> k[i].tid]
  <2>3. IsFiniteSet(1 .. n)
    BY <1>1, FS_Interval
  <2>4. IsFiniteSet(T)
    <3>1. f \in Surjection(1 .. n, T)
      BY DEF Surjection
    <3>. HIDE DEF f, T
    <3>. QED
      BY <2>3, <3>1, FS_Surjection
  <2>5. C2 \subseteq T
    <3>. HIDE DEF C2
    <3>. QED
      BY <1>3
  <2>6. IsFiniteSet(C2)
    <3>. HIDE DEF C2, T
    <3>. QED
      BY <2>4, <2>5, FS_Subset
  <2>. QED
    BY <2>2, <2>6 DEF FiniteTids
<1>. HIDE DEF C2
<1>5. /\ \A i, x \in 1 .. Len(j) : i < x /\ j[i].op = "UPDATE" /\ j[x].op = "UPDATE" => j[i].tid < j[x].tid
      /\ \A i \in 1 .. Len(j) : j[i].op = "UPDATE" => j[i].tid <= w
  BY DEF Learns, Known
<1>6. Len(<<>>) = 0 /\ 1 .. 0 = {}
  OBVIOUS
<1>7. Learns(k, <<>>)
  BY <1>2, <1>5, <1>6 DEF Learns
<1>8. Known(k, C2, <<>>, w)
  BY <1>2, <1>3, <1>5, <1>6 DEF Known
<1>. QED
  BY <1>2, <1>4, <1>7, <1>8 DEF k, C2

\* Messages to the server
LEMMA SentMore ==
  ASSUME NEW out \in Seq(Messages), NEW w, Sent(out, w),
         NEW m \in Messages, m.op = "COMMIT" => m.tid <= w
  PROVE  Append(out, m) \in Seq(Messages) /\ Sent(Append(out, m), w)
<1>. DEFINE q == Append(out, m)
            n == Len(out)
<1>1. /\ n \in Nat /\ q \in Seq(Messages) /\ Len(q) = n + 1
      /\ q[n + 1] = m /\ \A i \in 1 .. n : q[i] = out[i]
  BY AppendProperties, LenProperties
<1>2. \A i \in 1 .. n : out[i].op = "COMMIT" => out[i].tid <= w
  BY DEF Sent
<1>. HIDE DEF q, n
<1>3. \A i \in 1 .. n + 1 : i = n + 1 \/ i \in 1 .. n
  BY <1>1
<1>4. Sent(q, w)
  BY <1>1, <1>2, <1>3 DEF Sent
<1>. QED
  BY <1>1, <1>4 DEF q

LEMMA SentAll ==
  ASSUME NEW out \in Seq(Messages), NEW p \in Seq(Messages), NEW w, Sent(out, w), Sent(p, w)
  PROVE  out \o p \in Seq(Messages) /\ Sent(out \o p, w)
<1>. DEFINE q == out \o p
            n == Len(out)
<1>1. /\ n \in Nat /\ Len(p) \in Nat /\ q \in Seq(Messages) /\ Len(q) = n + Len(p)
      /\ \A i \in 1 .. Len(q) : q[i] = IF i <= n THEN out[i] ELSE p[i - n]
  BY ConcatProperties, LenProperties
<1>2. /\ \A i \in 1 .. n : out[i].op = "COMMIT" => out[i].tid <= w
      /\ \A i \in 1 .. Len(p) : p[i].op = "COMMIT" => p[i].tid <= w
  BY DEF Sent
<1>. HIDE DEF q, n
<1>3. ASSUME NEW i \in 1 .. Len(q), q[i].op = "COMMIT"
      PROVE  q[i].tid <= w
  <2>1. CASE i <= n
    <3>1. i \in 1 .. n
      BY <1>1, <2>1
    <3>. QED
      BY <1>1, <1>2, <1>3, <2>1, <3>1
  <2>2. CASE ~(i <= n)
    <3>1. i - n \in 1 .. Len(p)
      BY <1>1, <2>2
    <3>. QED
      BY <1>1, <1>2, <1>3, <2>2, <3>1
  <2>. QED
    BY <2>1, <2>2
<1>. QED
  BY <1>1, <1>3 DEF Sent, q

LEMMA SentLess ==
  ASSUME NEW out \in Seq(Messages), NEW w, Sent(out, w), out # <<>>
  PROVE  Tail(out) \in Seq(Messages) /\ Sent(Tail(out), w)
<1>. DEFINE q == Tail(out)
<1>1. /\ q \in Seq(Messages) /\ Len(q) = Len(out) - 1
      /\ \A i \in 1 .. Len(out) - 1 : q[i] = out[i + 1] /\ i + 1 \in 1 .. Len(out)
  BY MessagesOf
<1>. HIDE DEF q
<1>2. Sent(q, w)
  BY <1>1 DEF Sent
<1>. QED
  BY <1>1, <1>2 DEF q

LEMMA SentGrows ==
  ASSUME NEW out \in Seq(Messages), NEW w \in Nat, NEW v \in Nat, Sent(out, w), w <= v
  PROVE  Sent(out, v)
<1>1. \A i \in 1 .. Len(out) : out[i].tid \in Nat
  BY MessagesOf
<1>. QED
  BY <1>1 DEF Sent

\* SERVER_READY on its way
LEMMA ReadyMore ==
  ASSUME NEW ready \in BOOLEAN, NEW in \in Seq(Messages), NEW live \in BOOLEAN,
         ServerReadyOK(ready, in, live),
         NEW m \in Messages, m.op # "READY"
  PROVE  ServerReadyOK(ready, Append(in, m), live)
<1>. DEFINE q == Append(in, m)
            n == Len(in)
<1>1. /\ n \in Nat /\ q \in Seq(Messages) /\ Len(q) = n + 1
      /\ q[n + 1] = m /\ \A i \in 1 .. n : q[i] = in[i]
  BY AppendProperties, LenProperties
<1>. HIDE DEF q, n
<1>2. \A i \in 1 .. n + 1 : i = n + 1 \/ i \in 1 .. n
  BY <1>1
<1>3. \A i \in 1 .. n + 1 : q[i].op = "READY" => i \in 1 .. n /\ in[i].op = "READY"
  BY <1>1, <1>2
<1>4. /\ ~live => ~ready /\ \A i \in 1 .. n : in[i].op # "READY"
      /\ \A i \in 1 .. n : in[i].op = "READY" =>
            ~ready /\ \A k \in 1 .. n : in[k].op = "READY" => k = i
  BY DEF ServerReadyOK, n
<1>5. ServerReadyOK(ready, q, live)
  BY <1>1, <1>3, <1>4 DEF ServerReadyOK
<1>. QED
  BY <1>5 DEF q

LEMMA ReadyLess ==
  ASSUME NEW ready \in BOOLEAN, NEW in \in Seq(Messages), NEW live \in BOOLEAN,
         ServerReadyOK(ready, in, live), in # <<>>
  PROVE  /\ ServerReadyOK(ready, Tail(in), live)
         /\ Head(in).op = "READY" => live /\ ServerReadyOK(TRUE, Tail(in), live)
<1>. DEFINE q == Tail(in)
            n == Len(in)
<1>1. /\ n \in Nat /\ q \in Seq(Messages) /\ Len(q) = n - 1 /\ Head(in) = in[1] /\ 1 \in 1 .. n
      /\ \A i \in 1 .. n - 1 : q[i] = in[i + 1] /\ i + 1 \in 1 .. n
  BY MessagesOf
<1>2. /\ ~live => ~ready /\ \A i \in 1 .. n : in[i].op # "READY"
      /\ \A i \in 1 .. n : in[i].op = "READY" =>
            ~ready /\ \A k \in 1 .. n : in[k].op = "READY" => k = i
  BY DEF ServerReadyOK
<1>. HIDE DEF q, n
<1>3. \A i, k \in 1 .. n - 1 : i + 1 = k + 1 => i = k
  BY <1>1
<1>4. ServerReadyOK(ready, q, live)
  <2>1. ASSUME NEW i \in 1 .. n - 1, q[i].op = "READY"
        PROVE  ~ready /\ \A k \in 1 .. n - 1 : q[k].op = "READY" => k = i
    <3>1. i + 1 \in 1 .. n /\ in[i + 1].op = "READY"
      BY <1>1, <2>1
    <3>2. ~ready /\ \A k \in 1 .. n : in[k].op = "READY" => k = i + 1
      BY <1>2, <3>1
    <3>3. \A k \in 1 .. n - 1 : q[k].op = "READY" => k + 1 = i + 1
      BY <1>1, <3>2
    <3>. QED
      BY <1>3, <3>2, <3>3
  <2>2. ~live => ~ready /\ \A i \in 1 .. n - 1 : q[i].op # "READY"
    BY <1>1, <1>2
  <2>. QED
    BY <1>1, <2>1, <2>2 DEF ServerReadyOK
<1>5. ASSUME in[1].op = "READY"
      PROVE  live /\ ServerReadyOK(TRUE, q, live)
  <2>1. live
    BY <1>1, <1>2, <1>5
  <2>2. \A k \in 1 .. n : in[k].op = "READY" => k = 1
    BY <1>1, <1>2, <1>5
  <2>3. \A i \in 1 .. n - 1 : i + 1 # 1
    BY <1>1
  <2>4. \A i \in 1 .. n - 1 : q[i].op # "READY"
    BY <1>1, <2>2, <2>3
  <2>. QED
    BY <1>1, <2>1, <2>4 DEF ServerReadyOK
<1>. QED
  BY <1>1, <1>4, <1>5 DEF q

LEMMA ReadyNone ==
  ASSUME NEW live
  PROVE  ServerReadyOK(FALSE, <<>>, live)
BY DEF ServerReadyOK

-----------------------------------------------------------------------------
(* What the operations make of a client *)

LEMMA MapDef ==
  ASSUME NEW f, NEW R
  PROVE  f \in UNION {[D -> R] : D \in FiniteTids} <=>
            DOMAIN f \in FiniteTids /\ f \in [DOMAIN f -> R]
<1>. DEFINE M == UNION {[D -> R] : D \in FiniteTids}
<1>1. ASSUME f \in M
      PROVE  DOMAIN f \in FiniteTids /\ f \in [DOMAIN f -> R]
  <2>1. PICK D \in FiniteTids : f \in [D -> R]
    BY <1>1
  <2>. QED
    BY <2>1
<1>2. ASSUME DOMAIN f \in FiniteTids, f \in [DOMAIN f -> R]
      PROVE  f \in M
  BY <1>2
<1>. QED
  BY <1>1, <1>2

LEMMA WantDef ==
  ASSUME NEW f
  PROVE  f \in WantMaps <=> DOMAIN f \in FiniteTids /\ f \in [DOMAIN f -> Wants]
BY MapDef DEF WantMaps

LEMMA WantWith ==
  ASSUME NEW f \in WantMaps, NEW k \in Nat, NEW v \in Wants
  PROVE  With(f, k, v) \in WantMaps /\ With(f, k, v)[k] = v /\ k \in DOMAIN With(f, k, v)
<1>1. DOMAIN f \in FiniteTids /\ f \in [DOMAIN f -> Wants]
  BY WantDef
<1>. DEFINE g == With(f, k, v)
<1>2. DOMAIN g = DOMAIN f \cup {k} /\ g \in [DOMAIN g -> Wants] /\ g[k] = v
  BY <1>1 DEF With
<1>3. IsFiniteSet(DOMAIN f \cup {k}) /\ DOMAIN f \cup {k} \subseteq Nat
  BY <1>1, FS_AddElement DEF FiniteTids
<1>. HIDE DEF g
<1>4. DOMAIN g \in FiniteTids
  BY <1>2, <1>3 DEF FiniteTids
<1>5. g \in WantMaps
  BY <1>2, <1>4, WantDef
<1>. QED
  BY <1>2, <1>5 DEF g

LEMMA WantWithout ==
  ASSUME NEW f \in WantMaps, NEW k
  PROVE  Without(f, k) \in WantMaps
<1>1. DOMAIN f \in FiniteTids /\ f \in [DOMAIN f -> Wants]
  BY WantDef
<1>. DEFINE g == Without(f, k)
<1>2. DOMAIN g = DOMAIN f \ {k} /\ g \in [DOMAIN g -> Wants]
  BY <1>1 DEF Without
<1>3. IsFiniteSet(DOMAIN f \ {k}) /\ DOMAIN f \ {k} \subseteq Nat
  BY <1>1, FS_RemoveElement DEF FiniteTids
<1>. HIDE DEF g
<1>4. DOMAIN g \in FiniteTids
  BY <1>2, <1>3 DEF FiniteTids
<1>5. g \in WantMaps
  BY <1>2, <1>4, WantDef
<1>. QED
  BY <1>5 DEF g

LEMMA TidDef ==
  ASSUME NEW f
  PROVE  f \in TidMaps <=> DOMAIN f \in SUBSET Nat /\ f \in [DOMAIN f -> Nat]
<1>1. ASSUME f \in TidMaps
      PROVE  DOMAIN f \in SUBSET Nat /\ f \in [DOMAIN f -> Nat]
  <2>1. PICK D \in SUBSET Nat : f \in [D -> Nat]
    BY <1>1 DEF TidMaps
  <2>. QED
    BY <2>1
<1>2. ASSUME DOMAIN f \in SUBSET Nat, f \in [DOMAIN f -> Nat]
      PROVE  f \in TidMaps
  BY <1>2 DEF TidMaps
<1>. QED
  BY <1>1, <1>2

LEMMA TidWith ==
  ASSUME NEW f \in TidMaps, NEW k \in Nat, NEW v \in Nat
  PROVE  With(f, k, v) \in TidMaps /\ DOMAIN With(f, k, v) = DOMAIN f \cup {k}
<1>1. DOMAIN f \in SUBSET Nat /\ f \in [DOMAIN f -> Nat]
  BY TidDef
<1>. DEFINE g == With(f, k, v)
<1>2. DOMAIN g = DOMAIN f \cup {k} /\ g \in [DOMAIN g -> Nat]
  BY <1>1 DEF With
<1>. HIDE DEF g
<1>3. g \in TidMaps
  BY <1>1, <1>2, TidDef
<1>. QED
  BY <1>2, <1>3 DEF g

LEMMA TidWithout ==
  ASSUME NEW f \in TidMaps, NEW k
  PROVE  Without(f, k) \in TidMaps /\ DOMAIN Without(f, k) = DOMAIN f \ {k}
<1>1. DOMAIN f \in SUBSET Nat /\ f \in [DOMAIN f -> Nat]
  BY TidDef
<1>. DEFINE g == Without(f, k)
<1>2. DOMAIN g = DOMAIN f \ {k} /\ g \in [DOMAIN g -> Nat]
  BY <1>1 DEF Without
<1>. HIDE DEF g
<1>3. g \in TidMaps
  BY <1>1, <1>2, TidDef
<1>. QED
  BY <1>2, <1>3 DEF g

LEMMA EmptyMaps ==
  Empty \in WantMaps /\ Empty \in TidMaps
<1>1. DOMAIN Empty = {} /\ \A R : Empty \in [DOMAIN Empty -> R]
  BY DEF Empty
<1>2. {} \in FiniteTids
  BY FS_EmptySet DEF FiniteTids
<1>. QED
  BY <1>1, <1>2, WantDef, TidDef

LEMMA FiniteTidOps ==
  ASSUME NEW S \in FiniteTids, NEW k \in Nat
  PROVE  S \cup {k} \in FiniteTids /\ S \ {k} \in FiniteTids
BY FS_AddElement, FS_RemoveElement DEF FiniteTids

LEMMA MsgType ==
  ASSUME NEW op \in MessageOps, NEW r \in Nat, NEW t \in Nat, NEW o \in Wants, NEW q \in Nat
  PROVE  /\ Msg(op, r, t, o, q) \in Messages
         /\ Msg(op, r, t, o, q).op = op /\ Msg(op, r, t, o, q).tid = t /\ Msg(op, r, t, o, q).seq = q
BY DEF Msg, Messages, Wants

LEMMA NoOpType == NoOp.kind \in AllKinds /\ NoOp.snap \in Nat
BY DEF NoOp, AllKinds

LEMMA BareMsgType ==
  ASSUME NEW op \in MessageOps, NEW r \in Nat, NEW t \in Nat, NEW q \in Nat
  PROVE  /\ Msg(op, r, t, NoOp, q) \in Messages
         /\ Msg(op, r, t, NoOp, q).op = op /\ Msg(op, r, t, NoOp, q).tid = t
         /\ Msg(op, r, t, NoOp, q).seq = q
BY NoOpType DEF Msg, Messages

LEMMA ClientFields ==
  ASSUME NEW s \in ClientStates
  PROVE  /\ s.ready \in BOOLEAN /\ s.last_reqid \in Nat \cup {Unset} /\ s.waiting \in Seq(Wants)
         /\ s.preparing \in WantMaps /\ s.prepared \in TidMaps /\ s.committing \in FiniteTids
         /\ s.journal \in Seq(Notes) /\ s.safe \in Nat
         /\ s.committing \in SUBSET Nat
<1>1. s.committing \in FiniteTids
  BY DEF ClientStates
<1>2. s.committing \in SUBSET Nat
  BY <1>1 DEF FiniteTids
<1>. QED
  BY <1>1, <1>2 DEF ClientStates

\* The state of a client, field by field
State(a, b, q, p, d, k, j, n) ==
  [ready |-> a, last_reqid |-> b, waiting |-> q, preparing |-> p, prepared |-> d,
   committing |-> k, journal |-> j, safe |-> n]

LEMMA StateType ==
  ASSUME NEW a \in BOOLEAN, NEW b \in Nat \cup {Unset}, NEW q \in Seq(Wants), NEW p \in WantMaps,
         NEW d \in TidMaps, NEW k \in FiniteTids, NEW j \in Seq(Notes), NEW n \in Nat
  PROVE  State(a, b, q, p, d, k, j, n) \in ClientStates
BY DEF State, ClientStates

LEMMA FreshOK ==
  ASSUME NEW w \in Nat
  PROVE  ClientOK(Fresh, <<>>, <<>>, w) /\ Fresh.ready = FALSE
<1>1. Fresh = State(FALSE, Unset, <<>>, Empty, Empty, {}, <<>>, 0)
  BY DEF Fresh, State
<1>2. {} \in FiniteTids
  BY FS_EmptySet DEF FiniteTids
<1>3. Fresh \in ClientStates
  <2>1. FALSE \in BOOLEAN /\ Unset \in Nat \cup {Unset} /\ <<>> \in Seq(Wants) /\ <<>> \in Seq(Notes) /\ 0 \in Nat
    OBVIOUS
  <2>. QED
    BY <1>1, <1>2, <2>1, EmptyMaps, StateType
<1>4. Fresh.journal = <<>> /\ Fresh.safe = 0 /\ Fresh.committing = {} /\ Fresh.ready = FALSE
  BY <1>1 DEF State
<1>5. Len(<<>>) = 0 /\ 1 .. 0 = {} /\ 0 + 1 .. 0 = {} /\ <<>> \in Seq(Messages)
  OBVIOUS
<1>6. ClientTypes(Fresh, <<>>, <<>>)
  BY <1>3, <1>4, <1>5 DEF ClientTypes
<1>7. Learns(<<>>, <<>>) /\ Known(<<>>, {}, <<>>, w) /\ Sent(<<>>, w)
  BY <1>5 DEF Learns, Known, Sent
<1>8. Prepared(<<>>, 0, Fresh.prepared)
  BY <1>5 DEF Prepared
<1>. QED
  BY <1>4, <1>6, <1>7, <1>8 DEF ClientOK

LEMMA PreparingState ==
  ASSUME NEW s \in ClientStates, NEW b, NEW p
  PROVE  [s EXCEPT !.last_reqid = b, !.preparing = p]
            = State(s.ready, b, s.waiting, p, s.prepared, s.committing, s.journal, s.safe)
<1>. DEFINE r == [s EXCEPT !.last_reqid = b]
<1>1. r = State(s.ready, b, s.waiting, s.preparing, s.prepared, s.committing, s.journal, s.safe)
  BY DEF State, ClientStates
<1>2. [s EXCEPT !.last_reqid = b, !.preparing = p] = [r EXCEPT !.preparing = p]
  OBVIOUS
<1>. HIDE DEF r
<1>3. [r EXCEPT !.preparing = p]
        = State(s.ready, b, s.waiting, p, s.prepared, s.committing, s.journal, s.safe)
  BY <1>1 DEF State
<1>. QED
  BY <1>2, <1>3

\* A request that waits, or that is prepared
LEMMA RequestOK ==
  ASSUME NEW s \in ClientStates, NEW o \in Wants
  PROVE  LET id == s.last_reqid + 1
             t == [s EXCEPT !.last_reqid = id, !.preparing = With(@, id, o)]
             u == [s EXCEPT !.waiting = Append(@, o)]
         IN  /\ u \in ClientStates
             /\ u.journal = s.journal /\ u.safe = s.safe /\ u.committing = s.committing
             /\ u.prepared = s.prepared /\ u.ready = s.ready
             /\ s.last_reqid # Unset =>
                  /\ t \in ClientStates
                  /\ t.journal = s.journal /\ t.safe = s.safe /\ t.committing = s.committing
                  /\ t.prepared = s.prepared /\ t.ready = s.ready
                  /\ PrepareMsg(t, id) \in Messages /\ PrepareMsg(t, id).op = "PREPARE"
<1>. DEFINE id == s.last_reqid + 1
            p == With(s.preparing, id, o)
            t == [s EXCEPT !.last_reqid = id, !.preparing = p]
            q == Append(s.waiting, o)
            u == [s EXCEPT !.waiting = q]
<1>1. /\ s.ready \in BOOLEAN /\ s.last_reqid \in Nat \cup {Unset} /\ s.waiting \in Seq(Wants)
      /\ s.preparing \in WantMaps /\ s.prepared \in TidMaps /\ s.committing \in FiniteTids
      /\ s.journal \in Seq(Notes) /\ s.safe \in Nat
  BY ClientFields
<1>2. q \in Seq(Wants)
  BY <1>1, AppendProperties
<1>3. u = State(s.ready, s.last_reqid, q, s.preparing, s.prepared, s.committing, s.journal, s.safe)
  <2>. HIDE DEF q
  <2>. QED
    BY DEF State, ClientStates
<1>4. /\ u \in ClientStates
      /\ u.journal = s.journal /\ u.safe = s.safe /\ u.committing = s.committing
      /\ u.prepared = s.prepared /\ u.ready = s.ready
  <2>. HIDE DEF q, u
  <2>1. u \in ClientStates
    BY <1>1, <1>2, <1>3, StateType
  <2>. QED
    BY <1>3, <2>1 DEF State
<1>5. ASSUME s.last_reqid # Unset
      PROVE  /\ t \in ClientStates
             /\ t.journal = s.journal /\ t.safe = s.safe /\ t.committing = s.committing
             /\ t.prepared = s.prepared /\ t.ready = s.ready
             /\ PrepareMsg(t, id) \in Messages /\ PrepareMsg(t, id).op = "PREPARE"
  <2>1. id \in Nat
    BY <1>1, <1>5
  <2>2. p \in WantMaps /\ p[id] = o
    <3>. HIDE DEF id
    <3>. QED
      BY <1>1, <2>1, WantWith
  <2>3. t = State(s.ready, id, s.waiting, p, s.prepared, s.committing, s.journal, s.safe)
    <3>. HIDE DEF p, id
    <3>. QED
      BY PreparingState
  <2>. HIDE DEF p, t, id
  <2>4. t \in ClientStates
    BY <1>1, <2>1, <2>2, <2>3, StateType
  <2>5. /\ t.journal = s.journal /\ t.safe = s.safe /\ t.committing = s.committing
        /\ t.prepared = s.prepared /\ t.ready = s.ready /\ t.preparing = p
    BY <2>3 DEF State
  <2>6. PrepareMsg(t, id) = Msg("PREPARE", id, 0, o, 0)
    BY <2>2, <2>5 DEF PrepareMsg
  <2>7. PrepareMsg(t, id) \in Messages /\ PrepareMsg(t, id).op = "PREPARE"
    <3>1. "PREPARE" \in MessageOps /\ 0 \in Nat
      BY DEF MessageOps
    <3>. QED
      BY <2>1, <2>6, <3>1, MsgType
  <2>. QED
    BY <2>4, <2>5, <2>7
<1>. QED
  BY <1>4, <1>5

\* The next entries of the journal are found prepared too
LEMMA PreparedMore ==
  ASSUME NEW j \in Seq(Notes), NEW n \in Nat, n <= Len(j), NEW d, Prepared(j, n, d),
         NEW e \in Notes, NEW f, DOMAIN d \subseteq DOMAIN f,
         e.op = "UPDATE" => e.tid \in DOMAIN f
  PROVE  /\ Append(j, e) \in Seq(Notes) /\ n <= Len(Append(j, e))
         /\ Prepared(Append(j, e), n, f)
<1>. DEFINE k == Append(j, e)
            l == Len(j)
<1>1. /\ l \in Nat /\ k \in Seq(Notes) /\ Len(k) = l + 1
      /\ k[l + 1] = e /\ \A i \in 1 .. l : k[i] = j[i]
  BY AppendProperties, NotesOf
<1>2. \A i \in n + 1 .. l : j[i].op = "UPDATE" => j[i].tid \in DOMAIN d
  BY DEF Prepared
<1>. HIDE DEF k
<1>3. n <= l + 1
  BY <1>1
<1>. HIDE DEF l
<1>4. ASSUME NEW i \in n + 1 .. l + 1, k[i].op = "UPDATE"
      PROVE  k[i].tid \in DOMAIN f
  <2>1. CASE i = l + 1
    BY <1>1, <1>4, <2>1
  <2>2. CASE i # l + 1
    <3>1. i \in n + 1 .. l /\ i \in 1 .. l
      BY <1>1, <2>2
    <3>. QED
      BY <1>1, <1>2, <1>4, <3>1
  <2>. QED
    BY <2>1, <2>2
<1>. QED
  BY <1>1, <1>3, <1>4 DEF Prepared, k

\* The states that the operations lead to
Answering(s, p, d, j) == [s EXCEPT !.preparing = p, !.prepared = d, !.journal = j]
Acking(s, k, j) == [s EXCEPT !.committing = k, !.journal = j]
Committing(s, n, d, k) == [s EXCEPT !.safe = n, !.prepared = d, !.committing = k]
Logging(s, n) == [s EXCEPT !.safe = n]

LEMMA AnswerState ==
  ASSUME NEW s \in ClientStates, NEW p \in WantMaps, NEW d \in TidMaps, NEW j \in Seq(Notes)
  PROVE  LET t == Answering(s, p, d, j)
         IN  /\ t \in ClientStates /\ t.ready = s.ready /\ t.journal = j /\ t.safe = s.safe
             /\ t.prepared = d /\ t.committing = s.committing
<1>. DEFINE r == [s EXCEPT !.preparing = p]
            q == [r EXCEPT !.prepared = d]
            t == Answering(s, p, d, j)
<1>1. r = State(s.ready, s.last_reqid, s.waiting, p, s.prepared, s.committing, s.journal, s.safe)
  BY DEF State, ClientStates
<1>2. t = [q EXCEPT !.journal = j]
  BY DEF Answering
<1>. HIDE DEF r, t
<1>3. q = State(s.ready, s.last_reqid, s.waiting, p, d, s.committing, s.journal, s.safe)
  BY <1>1 DEF State
<1>. HIDE DEF q
<1>4. t = State(s.ready, s.last_reqid, s.waiting, p, d, s.committing, j, s.safe)
  BY <1>2, <1>3 DEF State
<1>5. t \in ClientStates
  BY <1>4, ClientFields, StateType
<1>6. /\ t.ready = s.ready /\ t.journal = j /\ t.safe = s.safe /\ t.prepared = d
      /\ t.committing = s.committing
  BY <1>4 DEF State
<1>. QED
  BY <1>5, <1>6 DEF t

LEMMA AckState ==
  ASSUME NEW s \in ClientStates, NEW k \in FiniteTids, NEW j \in Seq(Notes)
  PROVE  LET t == Acking(s, k, j)
         IN  /\ t \in ClientStates /\ t.ready = s.ready /\ t.journal = j /\ t.safe = s.safe
             /\ t.prepared = s.prepared /\ t.committing = k
<1>. DEFINE r == [s EXCEPT !.committing = k]
            t == Acking(s, k, j)
<1>1. r = State(s.ready, s.last_reqid, s.waiting, s.preparing, s.prepared, k, s.journal, s.safe)
  BY DEF State, ClientStates
<1>2. t = [r EXCEPT !.journal = j]
  BY DEF Acking
<1>. HIDE DEF r, t
<1>3. t = State(s.ready, s.last_reqid, s.waiting, s.preparing, s.prepared, k, j, s.safe)
  BY <1>1, <1>2 DEF State
<1>4. t \in ClientStates
  BY <1>3, ClientFields, StateType
<1>5. /\ t.ready = s.ready /\ t.journal = j /\ t.safe = s.safe /\ t.prepared = s.prepared
      /\ t.committing = k
  BY <1>3 DEF State
<1>. QED
  BY <1>4, <1>5 DEF t

LEMMA LoggedState ==
  ASSUME NEW s \in ClientStates, NEW n \in Nat, NEW d \in TidMaps, NEW k \in FiniteTids
  PROVE  /\ LET t == Committing(s, n, d, k)
            IN  /\ t \in ClientStates /\ t.ready = s.ready /\ t.journal = s.journal /\ t.safe = n
                /\ t.prepared = d /\ t.committing = k
         /\ LET r == Logging(s, n)
            IN  /\ r \in ClientStates /\ r.ready = s.ready /\ r.journal = s.journal /\ r.safe = n
                /\ r.prepared = s.prepared /\ r.committing = s.committing
<1>. DEFINE r == Logging(s, n)
            q == [r EXCEPT !.prepared = d]
            t == Committing(s, n, d, k)
<1>1. r = State(s.ready, s.last_reqid, s.waiting, s.preparing, s.prepared, s.committing, s.journal, n)
  BY DEF Logging, State, ClientStates
<1>2. t = [q EXCEPT !.committing = k]
  BY DEF Committing, Logging
<1>. HIDE DEF r, t
<1>3. q = State(s.ready, s.last_reqid, s.waiting, s.preparing, d, s.committing, s.journal, n)
  BY <1>1 DEF State
<1>. HIDE DEF q
<1>4. t = State(s.ready, s.last_reqid, s.waiting, s.preparing, d, k, s.journal, n)
  BY <1>2, <1>3 DEF State
<1>5. t \in ClientStates /\ r \in ClientStates
  BY <1>1, <1>4, ClientFields, StateType
<1>6. /\ t.ready = s.ready /\ t.journal = s.journal /\ t.safe = n /\ t.prepared = d
      /\ t.committing = k
  BY <1>4 DEF State
<1>7. /\ r.ready = s.ready /\ r.journal = s.journal /\ r.safe = n /\ r.prepared = s.prepared
      /\ r.committing = s.committing
  BY <1>1 DEF State
<1>. QED
  BY <1>5, <1>6, <1>7 DEF t, r

LEMMA AnswerOK ==
  ASSUME NEW s, NEW in, NEW out, NEW w \in Nat, ClientOK(s, in, out, w),
         in # <<>>, Answer(Head(in)), Head(in).reqid \in DOMAIN s.preparing,
         NEW e \in Notes, e.tid = Head(in).tid
  PROVE  LET t == Answering(s, Without(s.preparing, Head(in).reqid),
                            With(s.prepared, Head(in).tid, Head(in).reqid), Append(s.journal, e))
         IN  ClientOK(t, Tail(in), out, w) /\ t.ready = s.ready
<1>. DEFINE m == Head(in)
            p == Without(s.preparing, m.reqid)
            d == With(s.prepared, m.tid, m.reqid)
            j == Append(s.journal, e)
            t == Answering(s, p, d, j)
<1>0. s \in ClientStates /\ s.safe <= Len(s.journal) /\ in \in Seq(Messages) /\ out \in Seq(Messages)
  BY DEF ClientOK, ClientTypes
<1>1. /\ s.ready \in BOOLEAN /\ s.last_reqid \in Nat \cup {Unset} /\ s.waiting \in Seq(Wants)
      /\ s.preparing \in WantMaps /\ s.prepared \in TidMaps /\ s.committing \in FiniteTids
      /\ s.journal \in Seq(Notes) /\ s.safe \in Nat /\ s.committing \in SUBSET Nat
  BY <1>0, ClientFields
<1>2. m.tid \in Nat /\ m.reqid \in Nat /\ Tail(in) \in Seq(Messages)
  BY <1>0, MessagesOf
<1>3. p \in WantMaps
  BY <1>1, WantWithout
<1>4. d \in TidMaps /\ DOMAIN d = DOMAIN s.prepared \cup {m.tid}
  BY <1>1, <1>2, TidWith
<1>. HIDE DEF p, d, t
<1>6. j \in Seq(Notes) /\ s.safe <= Len(j) /\ Prepared(j, s.safe, d)
  <2>1. Prepared(s.journal, s.safe, s.prepared)
    BY DEF ClientOK
  <2>2. DOMAIN s.prepared \subseteq DOMAIN d /\ e.tid \in DOMAIN d
    BY <1>4
  <2>. QED
    BY <1>0, <1>1, <2>1, <2>2, PreparedMore
<1>7. Learns(j, Tail(in)) /\ Known(j, s.committing, Tail(in), w)
  <2>1. Learns(s.journal, in) /\ Known(s.journal, s.committing, in, w)
    BY DEF ClientOK
  <2>. QED
    BY <1>0, <1>1, <2>1, LearnsAnswer
<1>. HIDE DEF j, m
<1>10. /\ t \in ClientStates /\ t.ready = s.ready /\ t.journal = j /\ t.safe = s.safe
       /\ t.prepared = d /\ t.committing = s.committing
  BY <1>0, <1>3, <1>4, <1>6, AnswerState DEF t
<1>11. ClientTypes(t, Tail(in), out)
  BY <1>0, <1>2, <1>6, <1>10 DEF ClientTypes
<1>12. Sent(out, w)
  BY DEF ClientOK
<1>13. ClientOK(t, Tail(in), out, w) /\ t.ready = s.ready
  BY <1>6, <1>7, <1>10, <1>11, <1>12 DEF ClientOK
<1>. QED
  BY <1>13 DEF t, p, d, j, m

LEMMA AckOK ==
  ASSUME NEW s, NEW in, NEW out, NEW w \in Nat, ClientOK(s, in, out, w),
         in # <<>>, NEW e \in Notes, e.op = "ACK"
  PROVE  LET t == Acking(s, s.committing \ {e.tid}, Append(s.journal, e))
         IN  ClientOK(t, Tail(in), out, w) /\ t.ready = s.ready
<1>. DEFINE j == Append(s.journal, e)
            k == s.committing \ {e.tid}
            t == Acking(s, k, j)
<1>0. s \in ClientStates /\ s.safe <= Len(s.journal) /\ in \in Seq(Messages) /\ out \in Seq(Messages)
  BY DEF ClientOK, ClientTypes
<1>1. /\ s.ready \in BOOLEAN /\ s.last_reqid \in Nat \cup {Unset} /\ s.waiting \in Seq(Wants)
      /\ s.preparing \in WantMaps /\ s.prepared \in TidMaps /\ s.committing \in FiniteTids
      /\ s.journal \in Seq(Notes) /\ s.safe \in Nat /\ s.committing \in SUBSET Nat
  BY <1>0, ClientFields
<1>2. Tail(in) \in Seq(Messages)
  BY <1>0, MessagesOf
<1>3. k \in FiniteTids /\ k \in SUBSET s.committing
  <2>1. e.tid \in Nat
    BY DEF Notes
  <2>. QED
    BY <1>1, <2>1, FiniteTidOps
<1>4. j \in Seq(Notes) /\ s.safe <= Len(j) /\ Prepared(j, s.safe, s.prepared)
  <2>1. Prepared(s.journal, s.safe, s.prepared)
    BY DEF ClientOK
  <2>. QED
    BY <1>0, <1>1, <2>1, PreparedMore
<1>5. Learns(j, Tail(in)) /\ Known(j, k, Tail(in), w)
  <2>1. Learns(s.journal, in) /\ Known(s.journal, s.committing, in, w)
    BY DEF ClientOK
  <2>2. Learns(s.journal, Tail(in)) /\ Known(s.journal, s.committing, Tail(in), w)
    BY <1>0, <2>1, LearnsLess
  <2>3. e.op # "UPDATE"
    OBVIOUS
  <2>. HIDE DEF k
  <2>. QED
    BY <1>1, <1>3, <2>2, <2>3, LearnsNothing
<1>. HIDE DEF j, k, t
<1>8. /\ t \in ClientStates /\ t.ready = s.ready /\ t.journal = j /\ t.safe = s.safe
      /\ t.prepared = s.prepared /\ t.committing = k
  BY <1>0, <1>3, <1>4, AckState DEF t
<1>9. ClientTypes(t, Tail(in), out)
  BY <1>0, <1>2, <1>4, <1>8 DEF ClientTypes
<1>10. Sent(out, w)
  BY DEF ClientOK
<1>11. ClientOK(t, Tail(in), out, w) /\ t.ready = s.ready
  BY <1>4, <1>5, <1>8, <1>9, <1>10 DEF ClientOK
<1>. QED
  BY <1>11 DEF t, j, k

\* The next entry of the journal is safe
LEMMA LoggedOK ==
  ASSUME NEW s, NEW in, NEW out, NEW w \in Nat, ClientOK(s, in, out, w),
         s.safe < Len(s.journal)
  PROVE  LET e == s.journal[s.safe + 1]
             t == Committing(s, s.safe + 1, Without(s.prepared, e.tid), s.committing \cup {e.tid})
             r == Logging(s, s.safe + 1)
         IN  /\ e \in Notes
             /\ e.op = "UPDATE" => ClientOK(t, in, out, w) /\ t.ready = s.ready /\ e.tid <= w
             /\ e.op # "UPDATE" => ClientOK(r, in, out, w) /\ r.ready = s.ready
<1>. DEFINE n == s.safe + 1
            e == s.journal[n]
            d == Without(s.prepared, e.tid)
            k == s.committing \cup {e.tid}
            t == Committing(s, n, d, k)
            r == Logging(s, n)
<1>. HIDE DEF t, r
<1>0. s \in ClientStates /\ s.safe <= Len(s.journal) /\ in \in Seq(Messages) /\ out \in Seq(Messages)
  BY DEF ClientOK, ClientTypes
<1>1. /\ s.ready \in BOOLEAN /\ s.last_reqid \in Nat \cup {Unset} /\ s.waiting \in Seq(Wants)
      /\ s.preparing \in WantMaps /\ s.prepared \in TidMaps /\ s.committing \in FiniteTids
      /\ s.journal \in Seq(Notes) /\ s.safe \in Nat /\ s.committing \in SUBSET Nat
  BY <1>0, ClientFields
<1>2. Len(s.journal) \in Nat /\ \A i \in 1 .. Len(s.journal) : s.journal[i] \in Notes /\ s.journal[i].tid \in Nat
  BY <1>1, NotesOf
<1>3. n \in 1 .. Len(s.journal) /\ n \in Nat /\ n <= Len(s.journal)
  BY <1>1, <1>2
<1>4. Learns(s.journal, in) /\ Known(s.journal, s.committing, in, w) /\ Sent(out, w)
      /\ Prepared(s.journal, s.safe, s.prepared)
  BY DEF ClientOK
<1>5. e.op = "UPDATE" => e.tid <= w
  BY <1>3, <1>4 DEF Known
<1>6. \A i \in n + 1 .. Len(s.journal) : i \in s.safe + 1 .. Len(s.journal) /\ i \in 1 .. Len(s.journal) /\ n < i
  BY <1>1, <1>2
<1>7. \A i \in n + 1 .. Len(s.journal) : s.journal[i].op = "UPDATE" => s.journal[i].tid \in DOMAIN s.prepared
  BY <1>4, <1>6 DEF Prepared
<1>8. d \in TidMaps /\ DOMAIN d = DOMAIN s.prepared \ {e.tid}
  BY <1>1, TidWithout
<1>9. k \in FiniteTids /\ \A tid \in k : tid \in s.committing \/ tid = e.tid
  BY <1>1, <1>2, <1>3, FiniteTidOps
<1>10. ASSUME e.op = "UPDATE"
       PROVE  ClientOK(t, in, out, w) /\ t.ready = s.ready
  <2>1. ASSUME NEW i \in n + 1 .. Len(s.journal), s.journal[i].op = "UPDATE"
        PROVE  s.journal[i].tid # e.tid
    <3>1. e.tid < s.journal[i].tid
      BY <1>3, <1>4, <1>6, <1>10, <2>1 DEF Learns
    <3>. QED
      BY <1>2, <1>3, <3>1
  <2>. HIDE DEF d, k, n, e
  <2>2. Prepared(s.journal, n, d)
    BY <1>7, <1>8, <2>1 DEF Prepared
  <2>3. Known(s.journal, k, in, w)
    BY <1>4, <1>5, <1>9, <1>10 DEF Known
  <2>4. /\ t \in ClientStates /\ t.ready = s.ready /\ t.journal = s.journal /\ t.safe = n
        /\ t.prepared = d /\ t.committing = k
    BY <1>0, <1>3, <1>8, <1>9, LoggedState DEF t
  <2>5. ClientTypes(t, in, out)
    BY <1>0, <1>3, <2>4 DEF ClientTypes
  <2>. QED
    BY <1>4, <2>2, <2>3, <2>4, <2>5 DEF ClientOK
<1>11. ClientOK(r, in, out, w) /\ r.ready = s.ready
  <2>. HIDE DEF d, k, n, e
  <2>1. /\ r \in ClientStates /\ r.ready = s.ready /\ r.journal = s.journal /\ r.safe = n
        /\ r.prepared = s.prepared /\ r.committing = s.committing
    BY <1>0, <1>3, <1>8, <1>9, LoggedState DEF r
  <2>2. ClientTypes(r, in, out)
    BY <1>0, <1>3, <2>1 DEF ClientTypes
  <2>3. Prepared(s.journal, n, s.prepared)
    BY <1>7 DEF Prepared
  <2>. QED
    BY <1>4, <2>1, <2>2, <2>3 DEF ClientOK
<1>12. e \in Notes
  BY <1>2, <1>3
<1>. QED
  BY <1>5, <1>10, <1>11, <1>12 DEF t, r

LEMMA ReadyState ==
  ASSUME NEW s \in ClientStates, NEW x
  PROVE  [s EXCEPT !.ready = x]
           = State(x, s.last_reqid, s.waiting, s.preparing, s.prepared, s.committing, s.journal, s.safe)
BY DEF State, ClientStates

LEMMA NumberedState ==
  ASSUME NEW s \in ClientStates, NEW x, NEW l, NEW q, NEW p
  PROVE  [s EXCEPT !.ready = x, !.last_reqid = l, !.waiting = q, !.preparing = p]
           = State(x, l, q, p, s.prepared, s.committing, s.journal, s.safe)
<1>. DEFINE a == [s EXCEPT !.ready = x]
            b == [a EXCEPT !.last_reqid = l]
            c == [b EXCEPT !.waiting = q]
            t == [s EXCEPT !.ready = x, !.last_reqid = l, !.waiting = q, !.preparing = p]
<1>1. a = State(x, s.last_reqid, s.waiting, s.preparing, s.prepared, s.committing, s.journal, s.safe)
  BY ReadyState
<1>2. t = [c EXCEPT !.preparing = p]
  OBVIOUS
<1>. HIDE DEF a, t
<1>3. b = State(x, l, s.waiting, s.preparing, s.prepared, s.committing, s.journal, s.safe)
  BY <1>1 DEF State
<1>. HIDE DEF b
<1>4. c = State(x, l, q, s.preparing, s.prepared, s.committing, s.journal, s.safe)
  BY <1>3 DEF State
<1>. HIDE DEF c
<1>5. t = State(x, l, q, p, s.prepared, s.committing, s.journal, s.safe)
  BY <1>2, <1>4 DEF State
<1>. QED
  BY <1>5 DEF t

\* The waiting requests get their reqids
LEMMA NumberedIs ==
  ASSUME NEW s \in ClientStates, NEW r \in Nat
  PROVE  LET t == Numbered(s, r)
         IN  /\ t \in ClientStates /\ t.ready = TRUE /\ t.journal = s.journal /\ t.safe = s.safe
             /\ t.prepared = s.prepared /\ t.committing = s.committing
<1>1. /\ s.ready \in BOOLEAN /\ s.last_reqid \in Nat \cup {Unset} /\ s.waiting \in Seq(Wants)
      /\ s.preparing \in WantMaps /\ s.prepared \in TidMaps /\ s.committing \in FiniteTids
      /\ s.journal \in Seq(Notes) /\ s.safe \in Nat
  BY ClientFields
<1>. DEFINE last == IF s.last_reqid = Unset THEN r ELSE s.last_reqid
            n == Len(s.waiting)
            I == last + 1 .. last + n
            p == [x \in DOMAIN s.preparing \cup I |->
                    IF x \in DOMAIN s.preparing THEN s.preparing[x] ELSE s.waiting[x - last]]
            t == Numbered(s, r)
<1>2. last \in Nat /\ n \in Nat /\ last + n \in Nat /\ last + 1 \in Nat
  BY <1>1, LenProperties
<1>3. \A i \in 1 .. n : s.waiting[i] \in Wants
  BY <1>1, ElementOfSeq
<1>4. t = [s EXCEPT !.ready = TRUE, !.last_reqid = last + n, !.waiting = <<>>, !.preparing = p]
  BY DEF Numbered
<1>. HIDE DEF last, n, t
<1>5. DOMAIN s.preparing \in FiniteTids /\ s.preparing \in [DOMAIN s.preparing -> Wants]
  BY <1>1, WantDef
<1>6. I \subseteq Nat /\ \A x \in I : x - last \in 1 .. n
  BY <1>2
<1>7. IsFiniteSet(I)
  BY <1>2, FS_Interval
<1>. HIDE DEF I
<1>8. p \in WantMaps
  <2>1. DOMAIN p = DOMAIN s.preparing \cup I
    OBVIOUS
  <2>2. DOMAIN p \in FiniteTids
    <3>. HIDE DEF p
    <3>1. IsFiniteSet(DOMAIN s.preparing \cup I)
      BY <1>5, <1>7, FS_Union DEF FiniteTids
    <3>. QED
      BY <1>5, <1>6, <2>1, <3>1 DEF FiniteTids
  <2>3. p \in [DOMAIN p -> Wants]
    <3>1. \A x \in DOMAIN s.preparing \cup I : p[x] \in Wants
      BY <1>3, <1>5, <1>6
    <3>. QED
      BY <2>1, <3>1
  <2>. HIDE DEF p
  <2>. QED
    BY <2>2, <2>3, WantDef
<1>. HIDE DEF p
<1>9. t = State(TRUE, last + n, <<>>, p, s.prepared, s.committing, s.journal, s.safe)
  BY <1>4, NumberedState
<1>10. t \in ClientStates
  <2>1. <<>> \in Seq(Wants) /\ TRUE \in BOOLEAN /\ last + n \in Nat \cup {Unset}
    BY <1>2
  <2>. QED
    BY <1>1, <1>8, <1>9, <2>1, StateType
<1>11. /\ t.ready = TRUE /\ t.journal = s.journal /\ t.safe = s.safe
       /\ t.prepared = s.prepared /\ t.committing = s.committing
  BY <1>9 DEF State
<1>. QED
  BY <1>10, <1>11 DEF t

\* The prepares and the commits that are sent again
LEMMA ResentIs ==
  ASSUME NEW s \in ClientStates, NEW w, \A tid \in s.committing : tid <= w
  PROVE  Resent(s) \in Seq(Messages) /\ Sent(Resent(s), w)
<1>1. s.preparing \in WantMaps /\ s.committing \in FiniteTids
  BY ClientFields
<1>2. DOMAIN s.preparing \in FiniteTids /\ s.preparing \in [DOMAIN s.preparing -> Wants]
  BY <1>1, WantDef
<1>. DEFINE p == Ascending(DOMAIN s.preparing)
            t == Ascending(s.committing)
            a == [i \in 1 .. Len(p) |-> PrepareMsg(s, p[i])]
            b == [i \in 1 .. Len(t) |-> CommitMsg(t[i])]
<1>3. p \in Seq(DOMAIN s.preparing) /\ t \in Seq(s.committing)
  BY <1>1, <1>2, AscendingIs DEF FiniteTids
<1>. HIDE DEF p, t
<1>4. Len(p) \in Nat /\ Len(t) \in Nat
  BY <1>3, LenProperties
<1>5. \A i \in 1 .. Len(p) : PrepareMsg(s, p[i]) \in Messages /\ PrepareMsg(s, p[i]).op = "PREPARE"
  <2>1. ASSUME NEW i \in 1 .. Len(p)
        PROVE  PrepareMsg(s, p[i]) \in Messages /\ PrepareMsg(s, p[i]).op = "PREPARE"
    <3>1. p[i] \in DOMAIN s.preparing
      BY <1>3, ElementOfSeq
    <3>2. p[i] \in Nat /\ s.preparing[p[i]] \in Wants
      BY <1>2, <3>1 DEF FiniteTids
    <3>3. "PREPARE" \in MessageOps /\ 0 \in Nat
      BY DEF MessageOps
    <3>4. PrepareMsg(s, p[i]) = Msg("PREPARE", p[i], 0, s.preparing[p[i]], 0)
      BY DEF PrepareMsg
    <3>. QED
      BY <3>2, <3>3, <3>4, MsgType
  <2>. QED
    BY <2>1
<1>6. \A i \in 1 .. Len(t) : CommitMsg(t[i]) \in Messages /\ CommitMsg(t[i]).tid <= w
  <2>1. ASSUME NEW i \in 1 .. Len(t)
        PROVE  CommitMsg(t[i]) \in Messages /\ CommitMsg(t[i]).tid <= w
    <3>1. t[i] \in s.committing
      BY <1>3, ElementOfSeq
    <3>2. t[i] \in Nat /\ t[i] <= w
      BY <1>1, <3>1 DEF FiniteTids
    <3>3. "COMMIT" \in MessageOps /\ 0 \in Nat
      BY DEF MessageOps
    <3>4. CommitMsg(t[i]) = Msg("COMMIT", 0, t[i], NoOp, 0)
      BY DEF CommitMsg
    <3>5. CommitMsg(t[i]) \in Messages /\ CommitMsg(t[i]).tid = t[i]
      BY <3>2, <3>3, <3>4, BareMsgType
    <3>. QED
      BY <3>2, <3>5
  <2>. QED
    BY <2>1
<1>7. a \in Seq(Messages) /\ Sent(a, w)
  <2>1. a \in [1 .. Len(p) -> Messages] /\ \A i \in 1 .. Len(p) : a[i].op = "PREPARE"
    BY <1>5
  <2>. HIDE DEF a
  <2>2. a \in Seq(Messages) /\ Len(a) = Len(p)
    BY <1>4, <2>1, LenProperties
  <2>. QED
    BY <2>1, <2>2 DEF Sent
<1>8. b \in Seq(Messages) /\ Sent(b, w)
  <2>1. b \in [1 .. Len(t) -> Messages] /\ \A i \in 1 .. Len(t) : b[i].tid <= w
    BY <1>6
  <2>. HIDE DEF b
  <2>2. b \in Seq(Messages) /\ Len(b) = Len(t)
    BY <1>4, <2>1, LenProperties
  <2>. QED
    BY <2>1, <2>2 DEF Sent
<1>9. Resent(s) = a \o b
  BY DEF Resent, p, t
<1>. HIDE DEF a, b
<1>. QED
  BY <1>7, <1>8, <1>9, SentAll

\* A client that is there again
LEMMA RebornOK ==
  ASSUME NEW s, NEW in, NEW out, NEW w \in Nat, ClientOK(s, in, out, w),
         NEW n \in s.safe .. Len(s.journal)
  PROVE  ClientOK(Reborn(s, n), <<>>, <<>>, w) /\ Reborn(s, n).ready = FALSE
<1>0. s \in ClientStates /\ s.safe <= Len(s.journal)
  BY DEF ClientOK, ClientTypes
<1>1. s.journal \in Seq(Notes) /\ s.safe \in Nat
  BY <1>0, ClientFields
<1>2. Len(s.journal) \in Nat
  BY <1>1, NotesOf
<1>3. n \in Nat /\ n \in 0 .. Len(s.journal)
  BY <1>1, <1>2
<1>. DEFINE j == SubSeq(s.journal, 1, n)
            k == Uncommitted(j)
            t == Reborn(s, n)
<1>4. j \in Seq(Notes) /\ Len(j) = n /\ k \in FiniteTids /\ Learns(j, <<>>) /\ Known(j, k, <<>>, w)
  <2>1. Learns(s.journal, in) /\ Known(s.journal, s.committing, in, w)
    BY DEF ClientOK
  <2>. QED
    BY <1>1, <1>3, <2>1, LearnsBack
<1>5. t = [Fresh EXCEPT !.journal = j, !.safe = n, !.committing = k]
  BY DEF Reborn
<1>. HIDE DEF j, k, t
<1>6. t = State(FALSE, Unset, <<>>, Empty, Empty, k, j, n)
  BY <1>5 DEF Fresh, State
<1>7. t \in ClientStates
  <2>1. FALSE \in BOOLEAN /\ Unset \in Nat \cup {Unset} /\ <<>> \in Seq(Wants)
    OBVIOUS
  <2>. QED
    BY <1>3, <1>4, <1>6, <2>1, EmptyMaps, StateType
<1>8. t.ready = FALSE /\ t.journal = j /\ t.safe = n /\ t.committing = k
  BY <1>6 DEF State
<1>9. Len(<<>>) = 0 /\ 1 .. 0 = {} /\ <<>> \in Seq(Messages) /\ n + 1 .. n = {}
  BY <1>3
<1>10. ClientTypes(t, <<>>, <<>>)
  BY <1>3, <1>4, <1>7, <1>8, <1>9 DEF ClientTypes
<1>11. Sent(<<>>, w) /\ Prepared(j, n, t.prepared)
  BY <1>4, <1>9 DEF Sent, Prepared
<1>12. ClientOK(t, <<>>, <<>>, w) /\ t.ready = FALSE
  BY <1>4, <1>8, <1>10, <1>11 DEF ClientOK
<1>. QED
  BY <1>12 DEF t

\* A client that has lost its server
LEMMA UnreadyOK ==
  ASSUME NEW s, NEW in, NEW out, NEW w \in Nat, ClientOK(s, in, out, w)
  PROVE  LET t == [s EXCEPT !.ready = FALSE]
         IN  ClientOK(t, <<>>, <<>>, w) /\ t.ready = FALSE
<1>0. s \in ClientStates /\ s.safe <= Len(s.journal)
  BY DEF ClientOK, ClientTypes
<1>. DEFINE t == [s EXCEPT !.ready = FALSE]
<1>1. t = State(FALSE, s.last_reqid, s.waiting, s.preparing, s.prepared, s.committing, s.journal, s.safe)
  BY <1>0, ReadyState
<1>. HIDE DEF t
<1>2. t \in ClientStates
  <2>1. FALSE \in BOOLEAN
    OBVIOUS
  <2>. QED
    BY <1>0, <1>1, <2>1, ClientFields, StateType
<1>3. /\ t.ready = FALSE /\ t.journal = s.journal /\ t.safe = s.safe /\ t.prepared = s.prepared
      /\ t.committing = s.committing
  BY <1>1 DEF State
<1>4. Len(<<>>) = 0 /\ 1 .. 0 = {} /\ <<>> \in Seq(Messages)
  OBVIOUS
<1>5. ClientTypes(t, <<>>, <<>>)
  BY <1>0, <1>2, <1>3, <1>4 DEF ClientTypes
<1>6. Learns(s.journal, <<>>) /\ Known(s.journal, s.committing, <<>>, w)
  <2>1. Learns(s.journal, in) /\ Known(s.journal, s.committing, in, w)
    BY DEF ClientOK
  <2>. QED
    BY <1>4, <2>1 DEF Learns, Known
<1>7. Sent(<<>>, w) /\ Prepared(s.journal, s.safe, s.prepared)
  BY <1>4 DEF Sent, ClientOK
<1>8. ClientOK(t, <<>>, <<>>, w) /\ t.ready = FALSE
  BY <1>3, <1>5, <1>6, <1>7 DEF ClientOK
<1>. QED
  BY <1>8 DEF t

\* What the server sends to a rank that is there again: no answers, and
\* SERVER_READY last
Greeting(q) ==
  /\ q \in Seq(Messages) /\ Len(q) # 0
  /\ \A i \in 1 .. Len(q) : ~Answer(q[i]) /\ (q[i].op = "READY" => i = Len(q))

LEMMA AgreesIs ==
  ASSUME NEW t \in Tables, NEW c
  PROVE  Greeting(Agrees(t, c))
<1>1. DOMAIN t.pending \in FiniteTids /\ t.pending \in [DOMAIN t.pending -> Transactions]
  BY PendingDef DEF Tables
<1>. DEFINE S == {tid \in DOMAIN t.pending : t.pending[tid].mds = c}
            mine == Ascending(S)
            ids == {t.pending[mine[i]].reqid : i \in DOMAIN mine}
            next == IF ids = {} THEN 0 ELSE Max(ids) + 1
            a == [i \in 1 .. Len(mine) |-> Msg("AGREE", t.pending[mine[i]].reqid, mine[i], NoOp, 0)]
            r == Msg("READY", next, 0, NoOp, 0)
<1>2. S \subseteq DOMAIN t.pending /\ S \subseteq Nat /\ IsFiniteSet(S)
  BY <1>1, FS_Subset DEF FiniteTids
<1>. HIDE DEF S
<1>3. mine \in Seq(S)
  BY <1>2, AscendingIs
<1>. HIDE DEF mine
<1>4. Len(mine) \in Nat /\ DOMAIN mine = 1 .. Len(mine) /\ \A i \in 1 .. Len(mine) : mine[i] \in S
  BY <1>3, LenProperties, ElementOfSeq
<1>5. \A i \in 1 .. Len(mine) : mine[i] \in Nat /\ t.pending[mine[i]].reqid \in Nat
  <2>1. ASSUME NEW i \in 1 .. Len(mine)
        PROVE  mine[i] \in Nat /\ t.pending[mine[i]].reqid \in Nat
    <3>1. mine[i] \in DOMAIN t.pending /\ mine[i] \in Nat
      BY <1>2, <1>4
    <3>2. t.pending[mine[i]] \in Transactions
      BY <1>1, <3>1
    <3>. QED
      BY <3>1, <3>2 DEF Transactions
  <2>. QED
    BY <2>1
<1>6. ids \subseteq Nat /\ IsFiniteSet(ids)
  <2>1. ids \subseteq Nat
    BY <1>4, <1>5
  <2>. DEFINE f == [i \in 1 .. Len(mine) |-> t.pending[mine[i]].reqid]
  <2>2. f \in Surjection(1 .. Len(mine), ids)
    BY <1>4 DEF Surjection
  <2>3. IsFiniteSet(1 .. Len(mine))
    BY <1>4, FS_Interval
  <2>. HIDE DEF f, ids
  <2>. QED
    BY <2>1, <2>2, <2>3, FS_Surjection
<1>. HIDE DEF ids
<1>7. next \in Nat
  <2>1. ASSUME ids # {} PROVE Max(ids) \in Nat
    BY <1>6, <2>1, MaxType
  <2>. QED
    BY <2>1
<1>. HIDE DEF next
<1>8. "AGREE" \in MessageOps /\ "READY" \in MessageOps /\ 0 \in Nat
  BY DEF MessageOps
<1>9. r \in Messages /\ r.op = "READY"
  BY <1>7, <1>8, BareMsgType
<1>10. \A i \in 1 .. Len(mine) : a[i] \in Messages /\ a[i].op = "AGREE" /\ a[i].seq = 0
  <2>1. ASSUME NEW i \in 1 .. Len(mine)
        PROVE  a[i] \in Messages /\ a[i].op = "AGREE" /\ a[i].seq = 0
    <3>1. a[i] = Msg("AGREE", t.pending[mine[i]].reqid, mine[i], NoOp, 0)
      OBVIOUS
    <3>2. t.pending[mine[i]].reqid \in Nat /\ mine[i] \in Nat
      BY <1>5
    <3>. HIDE DEF a
    <3>. DEFINE id == t.pending[mine[i]].reqid
                tid == mine[i]
                m == Msg("AGREE", id, tid, NoOp, 0)
    <3>. HIDE DEF id, tid
    <3>3. m \in Messages /\ m.op = "AGREE" /\ m.seq = 0
      <4>1. id \in Nat /\ tid \in Nat
        BY <3>2 DEF id, tid
      <4>. QED
        BY <1>8, <4>1, BareMsgType
    <3>. QED
      BY <3>1, <3>3 DEF id, tid
  <2>. QED
    BY <2>1
<1>11. a \in Seq(Messages) /\ Len(a) = Len(mine)
  <2>1. a \in [1 .. Len(mine) -> Messages]
    BY <1>10
  <2>. HIDE DEF a
  <2>. QED
    BY <1>4, <2>1, LenProperties
<1>12. Agrees(t, c) = a \o <<r>>
  BY DEF Agrees, next, ids, mine, S
<1>. HIDE DEF a, r
<1>. DEFINE q == a \o <<r>>
            n == Len(a)
<1>13. n \in Nat /\ <<r>> \in Seq(Messages) /\ Len(<<r>>) = 1 /\ <<r>>[1] = r
  BY <1>4, <1>9, <1>11
<1>14. /\ q \in Seq(Messages) /\ Len(q) = n + 1
       /\ \A i \in 1 .. n + 1 : q[i] = IF i <= n THEN a[i] ELSE <<r>>[i - n]
  BY <1>11, <1>13, ConcatProperties
<1>. HIDE DEF q
<1>15. ASSUME NEW i \in 1 .. Len(q)
       PROVE  ~Answer(q[i]) /\ (q[i].op = "READY" => i = Len(q))
  <2>1. CASE i <= n
    <3>1. i \in 1 .. Len(mine) /\ i \in 1 .. n + 1
      BY <1>11, <1>13, <1>14, <2>1
    <3>2. q[i].op = "AGREE" /\ q[i].seq = 0
      BY <1>10, <1>14, <2>1, <3>1
    <3>. QED
      BY <3>2 DEF Answer
  <2>2. CASE ~(i <= n)
    <3>1. i = n + 1 /\ i - n = 1 /\ i \in 1 .. n + 1
      BY <1>13, <1>14, <2>2
    <3>2. q[i] = r
      BY <1>13, <1>14, <2>2, <3>1
    <3>. QED
      BY <1>9, <1>14, <3>1, <3>2 DEF Answer
  <2>. QED
    BY <2>1, <2>2
<1>16. Len(q) # 0
  BY <1>13, <1>14
<1>17. Greeting(q)
  BY <1>14, <1>15, <1>16 DEF Greeting
<1>. QED
  BY <1>12, <1>17 DEF q

LEMMA GreetingOK ==
  ASSUME NEW j, NEW C, NEW in \in Seq(Messages), NEW w, NEW ready \in BOOLEAN, NEW q,
         Learns(j, in), Known(j, C, in, w), ServerReadyOK(ready, in, FALSE), Greeting(q)
  PROVE  /\ in \o q \in Seq(Messages)
         /\ Learns(j, in \o q) /\ Known(j, C, in \o q, w)
         /\ ServerReadyOK(ready, in \o q, TRUE)
<1>. DEFINE x == in \o q
            n == Len(in)
<1>1. /\ q \in Seq(Messages)
      /\ \A i \in 1 .. Len(q) : ~Answer(q[i]) /\ (q[i].op = "READY" => i = Len(q))
  BY DEF Greeting
<1>2. /\ n \in Nat /\ Len(q) \in Nat /\ x \in Seq(Messages) /\ Len(x) = n + Len(q)
      /\ \A i \in 1 .. n + Len(q) : x[i] = IF i <= n THEN in[i] ELSE q[i - n]
  BY <1>1, ConcatProperties, LenProperties
<1>3. /\ \A i, k \in 1 .. Len(j) : i < k /\ j[i].op = "UPDATE" /\ j[k].op = "UPDATE" => j[i].tid < j[k].tid
      /\ \A i, k \in 1 .. n : i < k /\ Answer(in[i]) /\ Answer(in[k]) => in[i].tid < in[k].tid
      /\ \A i \in 1 .. Len(j), k \in 1 .. n : j[i].op = "UPDATE" /\ Answer(in[k]) => j[i].tid < in[k].tid
  BY DEF Learns
<1>4. /\ \A i \in 1 .. Len(j) : j[i].op = "UPDATE" => j[i].tid <= w
      /\ \A i \in 1 .. n : Answer(in[i]) => in[i].tid <= w
      /\ \A tid \in C : tid <= w
  BY DEF Known
<1>5. ~ready /\ \A i \in 1 .. n : in[i].op # "READY"
  BY DEF ServerReadyOK
<1>. HIDE DEF x, n
<1>6. ASSUME NEW i \in 1 .. n + Len(q)
      PROVE  /\ Answer(x[i]) => i \in 1 .. n /\ x[i] = in[i]
             /\ x[i].op = "READY" => i = n + Len(q)
  <2>1. CASE i <= n
    <3>1. i \in 1 .. n /\ x[i] = in[i]
      BY <1>2, <2>1
    <3>. QED
      BY <1>5, <3>1
  <2>2. CASE ~(i <= n)
    <3>1. i - n \in 1 .. Len(q) /\ x[i] = q[i - n] /\ (i - n = Len(q) => i = n + Len(q))
      BY <1>2, <2>2
    <3>. QED
      BY <1>1, <3>1
  <2>. QED
    BY <2>1, <2>2
<1>7. Learns(j, x)
  <2>1. \A i, k \in 1 .. n + Len(q) : i < k /\ Answer(x[i]) /\ Answer(x[k]) => x[i].tid < x[k].tid
    BY <1>3, <1>6
  <2>2. \A i \in 1 .. Len(j), k \in 1 .. n + Len(q) : j[i].op = "UPDATE" /\ Answer(x[k]) => j[i].tid < x[k].tid
    BY <1>3, <1>6
  <2>. QED
    BY <1>2, <1>3, <2>1, <2>2 DEF Learns
<1>8. Known(j, C, x, w)
  <2>1. \A i \in 1 .. n + Len(q) : Answer(x[i]) => x[i].tid <= w
    BY <1>4, <1>6
  <2>. QED
    BY <1>2, <1>4, <2>1 DEF Known
<1>9. ServerReadyOK(ready, x, TRUE)
  BY <1>2, <1>5, <1>6 DEF ServerReadyOK
<1>. QED
  BY <1>2, <1>7, <1>8, <1>9 DEF x

-----------------------------------------------------------------------------
(* The inductive invariant *)

Live(c) == c \in active /\ 0 \in active

Shapes ==
  /\ removed \in SUBSET Nat /\ active \in SUBSET Clients
  /\ cli \in [Clients -> ClientStates]
  /\ toCli \in [Clients -> Seq(Messages)] /\ toSrv \in [Clients -> Seq(Messages)]

ClientInv(c) ==
  /\ ClientOK(cli[c], toCli[c], toSrv[c], Answered)
  /\ ServerReadyOK(cli[c].ready, toCli[c], Live(c))

TableInv == ServerInv /\ Shapes /\ \A c \in Clients : ClientInv(c)

LEMMA ClientKnown ==
  ASSUME TableInv, NEW c \in Clients
  PROVE  /\ cli[c] \in ClientStates /\ cli[c].safe <= Len(cli[c].journal)
         /\ cli[c].ready \in BOOLEAN /\ cli[c].journal \in Seq(Notes)
         /\ cli[c].committing \in SUBSET Nat
         /\ toCli[c] \in Seq(Messages) /\ toSrv[c] \in Seq(Messages)
         /\ ClientOK(cli[c], toCli[c], toSrv[c], Answered)
         /\ Learns(cli[c].journal, toCli[c])
         /\ Known(cli[c].journal, cli[c].committing, toCli[c], Answered)
         /\ Sent(toSrv[c], Answered)
         /\ Prepared(cli[c].journal, cli[c].safe, cli[c].prepared)
         /\ ServerReadyOK(cli[c].ready, toCli[c], Live(c)) /\ Live(c) \in BOOLEAN
         /\ Answered \in Nat
<1>1. ClientInv(c) /\ ServerInv
  BY DEF TableInv
<1>2. ClientOK(cli[c], toCli[c], toSrv[c], Answered) /\ ServerReadyOK(cli[c].ready, toCli[c], Live(c))
  BY <1>1 DEF ClientInv
<1>3. cli[c] \in ClientStates
  BY <1>2 DEF ClientOK, ClientTypes
<1>4. cli[c].ready \in BOOLEAN /\ cli[c].journal \in Seq(Notes) /\ cli[c].committing \in SUBSET Nat
  BY <1>3, ClientFields
<1>5. Answered \in Nat
  BY <1>1, AnsweredType
<1>6. Live(c) \in BOOLEAN
  BY DEF Live
<1>. QED
  BY <1>2, <1>3, <1>4, <1>5, <1>6 DEF ClientOK, ClientTypes

LEMMA AnsweredNext ==
  ASSUME ServerInv'
  PROVE  Answered' \in Nat
<1>. DEFINE j == jrnl'
            n == safe'
<1>1. j \in Seq(Entries) /\ n \in 0 .. Len(j)
  BY DEF ServerInv, ServerTypes
<1>2. Answered' = IF n = 0 THEN 0 ELSE j[n].version
  BY DEF Answered
<1>. HIDE DEF j, n
<1>3. Len(j) \in Nat /\ \A i \in 1 .. Len(j) : j[i].version \in Nat
  BY <1>1, EntriesOf
<1>4. n # 0 => n \in 1 .. Len(j)
  BY <1>1, <1>3
<1>. QED
  BY <1>2, <1>3, <1>4

\* The server goes on, and a client stays as it is
LEMMA ClientStays ==
  ASSUME TableInv, ServerInv', Answered <= Answered', NEW c \in Clients
  PROVE  ClientOK(cli[c], toCli[c], toSrv[c], Answered')
<1>1. /\ cli[c] \in ClientStates /\ cli[c].safe <= Len(cli[c].journal)
      /\ cli[c].journal \in Seq(Notes) /\ cli[c].committing \in SUBSET Nat
      /\ toCli[c] \in Seq(Messages) /\ toSrv[c] \in Seq(Messages)
      /\ Learns(cli[c].journal, toCli[c])
      /\ Known(cli[c].journal, cli[c].committing, toCli[c], Answered)
      /\ Sent(toSrv[c], Answered)
      /\ Prepared(cli[c].journal, cli[c].safe, cli[c].prepared)
      /\ Answered \in Nat
  BY ClientKnown
<1>. DEFINE v == Answered'
<1>2. v \in Nat
  BY AnsweredNext
<1>3. Answered <= v
  OBVIOUS
<1>. HIDE DEF v
<1>4. Known(cli[c].journal, cli[c].committing, toCli[c], v) /\ Sent(toSrv[c], v)
  BY <1>1, <1>2, <1>3, KnownGrows, SentGrows
<1>5. ClientOK(cli[c], toCli[c], toSrv[c], v)
  BY <1>1, <1>4 DEF ClientOK, ClientTypes
<1>. QED
  BY <1>5 DEF v

\* A step of the server and of one client, or of one of them
LEMMA Locally ==
  ASSUME TableInv, ServerInv', Answered <= Answered', removed' \in SUBSET Nat,
         active' = active, NEW c \in Clients, NEW s, NEW in, NEW out,
         cli' = [cli EXCEPT ![c] = s],
         toCli' = [toCli EXCEPT ![c] = in], toSrv' = [toSrv EXCEPT ![c] = out],
         ClientOK(s, in, out, Answered'), ServerReadyOK(s.ready, in, Live(c))
  PROVE  TableInv'
<1>1. /\ active \in SUBSET Clients /\ cli \in [Clients -> ClientStates]
      /\ toCli \in [Clients -> Seq(Messages)] /\ toSrv \in [Clients -> Seq(Messages)]
  BY DEF TableInv, Shapes
<1>2. s \in ClientStates /\ in \in Seq(Messages) /\ out \in Seq(Messages)
  BY DEF ClientOK, ClientTypes
<1>3. Shapes'
  BY <1>1, <1>2 DEF Shapes
<1>4. ASSUME NEW d \in Clients
      PROVE  ClientInv(d)'
  <2>1. Live(d)' <=> Live(d)
    BY DEF Live
  <2>2. CASE d = c
    <3>1. cli'[c] = s /\ toCli'[c] = in /\ toSrv'[c] = out
      BY <1>1
    <3>2. Live(c)' = Live(c)
      BY DEF Live
    <3>3. ClientOK(cli[c], toCli[c], toSrv[c], Answered)'
      BY <3>1
    <3>4. ServerReadyOK(cli'[c].ready, toCli'[c], Live(c)')
      BY <3>1, <3>2
    <3>. QED
      BY <2>2, <3>3, <3>4 DEF ClientInv
  <2>3. CASE d # c
    <3>1. cli'[d] = cli[d] /\ toCli'[d] = toCli[d] /\ toSrv'[d] = toSrv[d]
      BY <1>1, <2>3
    <3>2. Live(d)' = Live(d)
      BY DEF Live
    <3>3. ClientOK(cli[d], toCli[d], toSrv[d], Answered)'
      BY <3>1, ClientStays
    <3>4. ServerReadyOK(cli[d].ready, toCli[d], Live(d))
      BY ClientKnown
    <3>5. ServerReadyOK(cli'[d].ready, toCli'[d], Live(d)')
      BY <3>1, <3>2, <3>4
    <3>. QED
      BY <3>3, <3>5 DEF ClientInv
  <2>. QED
    BY <2>2, <2>3
<1>. QED
  BY <1>3, <1>4 DEF TableInv

\* What one step of one client leaves alone
LEMMA Same ==
  ASSUME TableInv, NEW c \in Clients
  PROVE  /\ cli = [cli EXCEPT ![c] = cli[c]]
         /\ toCli = [toCli EXCEPT ![c] = toCli[c]] /\ toSrv = [toSrv EXCEPT ![c] = toSrv[c]]
BY DEF TableInv, Shapes

-----------------------------------------------------------------------------
(* The steps of the server *)

\* The server has handled the first message of c
LEMMA Received ==
  ASSUME TableInv, NEW c \in Clients, ServerInv', Answered' = Answered, toSrv[c] # <<>>,
         toSrv' = [toSrv EXCEPT ![c] = Tail(@)], UNCHANGED <<active, cli, toCli, removed>>
  PROVE  TableInv'
<1>1. /\ cli' = [cli EXCEPT ![c] = cli[c]] /\ toCli' = [toCli EXCEPT ![c] = toCli[c]]
      /\ toSrv' = [toSrv EXCEPT ![c] = Tail(toSrv[c])]
  BY Same
<1>2. /\ toSrv[c] \in Seq(Messages) /\ Sent(toSrv[c], Answered) /\ Answered \in Nat
      /\ ClientOK(cli[c], toCli[c], toSrv[c], Answered)
      /\ ServerReadyOK(cli[c].ready, toCli[c], Live(c))
  BY ClientKnown
<1>3. Tail(toSrv[c]) \in Seq(Messages) /\ Sent(Tail(toSrv[c]), Answered)
  BY <1>2, SentLess
<1>4. ClientOK(cli[c], toCli[c], Tail(toSrv[c]), Answered)
  BY <1>2, <1>3 DEF ClientOK, ClientTypes
<1>5. ClientOK(cli[c], toCli[c], Tail(toSrv[c]), Answered')
  BY <1>4
<1>6. removed' \in SUBSET Nat /\ active' = active /\ Answered <= Answered'
  BY <1>2 DEF TableInv, Shapes
<1>. QED
  BY <1>1, <1>2, <1>5, <1>6, Locally

LEMMA PrepareStep ==
  ASSUME TableInv, NEW c \in Clients, HandlePrepare(c)
  PROVE  TableInv'
<1>. DEFINE m == Head(toSrv[c])
            o == [kind |-> m.kind, snap |-> m.snap]
            t == Prepare(table, c, m.reqid, o)
            e == Entry("PREPARE", t.version, t.version, c, m.reqid, o, t.last_snap)
<1>1. /\ toSrv[c] # <<>> /\ table' = t /\ Submit(e)
      /\ toSrv' = [toSrv EXCEPT ![c] = Tail(@)]
      /\ UNCHANGED <<saved, saving, safe, active, cli, toCli, removed>>
  BY DEF HandlePrepare, From
<1>2. m \in Messages
  <2>1. toSrv[c] \in Seq(Messages)
    BY ClientKnown
  <2>. QED
    BY <1>1, <2>1, MessagesOf
<1>3. o \in [kind: AllKinds, snap: Nat] /\ m.reqid \in Nat
  BY <1>2 DEF Messages
<1>4. table \in Tables /\ ServerInv
  BY DEF TableInv, ServerInv, ServerTypes
<1>. HIDE DEF o, m
<1>5. t \in Tables /\ t.version = table.version + 1
  BY <1>3, <1>4, PrepareType
<1>6. table.version \in Nat /\ t.version \in Nat /\ t.last_snap \in Nat
  BY <1>4, <1>5 DEF Tables
<1>. DEFINE v == t.version
            a == t.last_snap
            r == m.reqid
            f == Entry("PREPARE", v, v, c, r, o, a)
<1>7. v \in Nat /\ a \in Nat /\ r \in Nat /\ v = table.version + 1
  BY <1>3, <1>5, <1>6
<1>12. f = e
  OBVIOUS
<1>. HIDE DEF v, a, r, t, e
<1>8. /\ f \in Entries /\ f.op = "PREPARE" /\ f.version = v /\ f.tid = v /\ f.mds = c
      /\ f.reqid = r /\ f.kind = o.kind /\ f.snap = o.snap
  BY <1>3, <1>7 DEF Entry, Entries
<1>. HIDE DEF f
<1>9. Applies(table, f)
  BY <1>6, <1>7, <1>8 DEF Applies
<1>14. [kind |-> f.kind, snap |-> f.snap] = o
  BY <1>3, <1>8
<1>10. Replay(table, f) = t
  BY <1>14, <1>6, <1>7, <1>8 DEF Replay, t, r
<1>11. ServerInv' /\ Answered' = Answered
  <2>1. table' = Replay(table, f) /\ Submit(f) /\ UNCHANGED <<saved, saving, safe>>
    BY <1>1, <1>10, <1>12
  <2>. QED
    BY <1>4, <1>8, <1>9, <2>1, SubmitStep
<1>13. UNCHANGED <<active, cli, toCli, removed>>
  BY <1>1
<1>. QED
  BY <1>1, <1>11, <1>13, Received

\* A decision: the commit or the rollback of a transaction that is pending
LEMMA DecisionStep ==
  ASSUME TableInv, NEW c \in Clients, NEW op \in {"COMMIT", "ROLLBACK"},
         NEW tid \in DOMAIN table.pending,
         table' = IF op = "COMMIT" THEN Commit(table, tid) ELSE Rollback(table, tid),
         Submit(Entry(op, table.version + 1, tid, c, 0, NoOp, 0)),
         UNCHANGED <<saved, saving, safe>>
  PROVE  ServerInv' /\ Answered' = Answered
<1>1. ServerInv /\ table \in Tables
  BY DEF TableInv, ServerInv, ServerTypes
<1>2. table.version \in Nat /\ tid \in Nat /\ 0 \in Nat
  BY <1>1, PendingDef DEF Tables, FiniteTids
<1>. DEFINE v == table.version + 1
            e == Entry(op, v, tid, c, 0, NoOp, 0)
<1>3. v \in Nat
  BY <1>2
<1>. HIDE DEF v
<1>4. e \in Entries /\ e.op = op /\ e.version = v /\ e.tid = tid
  BY <1>2, <1>3, NoOpType DEF Entry, Entries
<1>5. Submit(e)
  BY DEF v
<1>. HIDE DEF e
<1>6. Applies(table, e)
  BY <1>2, <1>4 DEF Applies, v
<1>7. table' = Replay(table, e)
  BY <1>2, <1>4 DEF Replay, v
<1>. QED
  BY <1>1, <1>4, <1>5, <1>6, <1>7, SubmitStep

LEMMA RollbackStep ==
  ASSUME TableInv, NEW c \in Clients, HandleRollback(c)
  PROVE  TableInv'
<1>. DEFINE tid == Head(toSrv[c]).tid
<1>1. /\ toSrv[c] # <<>> /\ tid \in DOMAIN table.pending /\ table' = Rollback(table, tid)
      /\ Submit(Entry("ROLLBACK", table.version + 1, tid, c, 0, NoOp, 0))
      /\ toSrv' = [toSrv EXCEPT ![c] = Tail(@)]
      /\ UNCHANGED <<saved, saving, safe, active, cli, toCli, removed>>
  BY DEF HandleRollback, From
<1>. HIDE DEF tid
<1>2. ServerInv' /\ Answered' = Answered
  BY <1>1, DecisionStep
<1>3. UNCHANGED <<active, cli, toCli, removed>>
  BY <1>1
<1>. QED
  BY <1>1, <1>2, <1>3, Received

\* The server sends m to c: an answer is newer than all that c knows
LEMMA Tells ==
  ASSUME TableInv, ServerInv', Answered <= Answered', NEW c \in Clients,
         NEW m \in Messages, m.op # "READY", Answer(m) => Answered < m.tid /\ m.tid <= Answered'
  PROVE  /\ ClientOK(cli[c], Append(toCli[c], m), toSrv[c], Answered')
         /\ ServerReadyOK(cli[c].ready, Append(toCli[c], m), Live(c))
<1>. DEFINE v == Answered'
<1>1. /\ cli[c] \in ClientStates /\ cli[c].safe <= Len(cli[c].journal)
      /\ cli[c].ready \in BOOLEAN
      /\ cli[c].journal \in Seq(Notes) /\ cli[c].committing \in SUBSET Nat
      /\ toCli[c] \in Seq(Messages) /\ toSrv[c] \in Seq(Messages)
      /\ Learns(cli[c].journal, toCli[c])
      /\ Known(cli[c].journal, cli[c].committing, toCli[c], Answered)
      /\ Prepared(cli[c].journal, cli[c].safe, cli[c].prepared)
      /\ ServerReadyOK(cli[c].ready, toCli[c], Live(c)) /\ Live(c) \in BOOLEAN
      /\ Answered \in Nat
  BY ClientKnown
<1>2. v \in Nat /\ Answered <= v /\ (Answer(m) => Answered < m.tid /\ m.tid <= v)
  BY AnsweredNext
<1>3. Sent(toSrv[c], v)
  BY ClientStays DEF ClientOK
<1>. HIDE DEF v
<1>4. /\ Learns(cli[c].journal, Append(toCli[c], m))
      /\ Known(cli[c].journal, cli[c].committing, Append(toCli[c], m), v)
  BY <1>1, <1>2, LearnsMore
<1>5. Append(toCli[c], m) \in Seq(Messages)
  BY <1>1
<1>6. ClientOK(cli[c], Append(toCli[c], m), toSrv[c], v)
  BY <1>1, <1>3, <1>4, <1>5 DEF ClientOK, ClientTypes
<1>7. ServerReadyOK(cli[c].ready, Append(toCli[c], m), Live(c))
  BY <1>1, ReadyMore
<1>. QED
  BY <1>6, <1>7 DEF v

LEMMA AckType ==
  ASSUME NEW tid \in Nat
  PROVE  Ack(tid) \in Messages /\ Ack(tid).op = "ACK"
BY NoOpType DEF Ack, Msg, Messages, MessageOps

LEMMA CommitStep ==
  ASSUME TableInv, NEW c \in Clients, HandleCommit(c)
  PROVE  TableInv'
<1>. DEFINE tid == Head(toSrv[c]).tid
<1>1. /\ toSrv[c] # <<>> /\ toSrv' = [toSrv EXCEPT ![c] = Tail(@)]
      /\ UNCHANGED <<saved, saving, safe, active, cli, removed>>
  BY DEF HandleCommit, From
<1>2. CASE tid \in DOMAIN table.pending
  <2>1. /\ table' = Commit(table, tid) /\ toCli' = toCli
        /\ Submit(Entry("COMMIT", table.version + 1, tid, c, 0, NoOp, 0))
    BY <1>2 DEF HandleCommit
  <2>. HIDE DEF tid
  <2>2. UNCHANGED <<saved, saving, safe>> /\ UNCHANGED <<active, cli, toCli, removed>>
    BY <1>1, <2>1
  <2>3. ServerInv' /\ Answered' = Answered
    BY <1>2, <2>1, <2>2, DecisionStep
  <2>. QED
    BY <1>1, <2>2, <2>3, Received
<1>3. CASE tid \notin DOMAIN table.pending
  <2>1. toCli' = [toCli EXCEPT ![c] = Append(@, Ack(tid))] /\ UNCHANGED <<table, jrnl>>
    BY <1>3 DEF HandleCommit
  <2>2. toSrv[c] \in Seq(Messages) /\ Answered \in Nat
    BY ClientKnown
  <2>3. tid \in Nat
    BY <1>1, <2>2, MessagesOf
  <2>. HIDE DEF tid
  <2>. DEFINE m == Ack(tid)
  <2>4. m \in Messages /\ m.op = "ACK"
    BY <2>3, AckType
  <2>. HIDE DEF m
  <2>5. m.op # "READY" /\ ~Answer(m)
    BY <2>4 DEF Answer
  <2>6. ServerInv' /\ Answered' = Answered
    BY <1>1, <2>1, ServerRests DEF server, TableInv
  <2>7. Answered <= Answered'
    BY <2>2, <2>6
  <2>8. /\ ClientOK(cli[c], Append(toCli[c], m), toSrv[c], Answered')
        /\ ServerReadyOK(cli[c].ready, Append(toCli[c], m), Live(c))
    BY <2>4, <2>5, <2>6, <2>7, Tells
  <2>. DEFINE v == Answered'
  <2>9. ClientOK(cli[c], Append(toCli[c], m), Tail(toSrv[c]), v)
    <3>0. ClientOK(cli[c], Append(toCli[c], m), toSrv[c], v)
      BY <2>8
    <3>. HIDE DEF v
    <3>1. Tail(toSrv[c]) \in Seq(Messages) /\ Sent(Tail(toSrv[c]), v)
      BY <3>0, <1>1, <2>2, SentLess DEF ClientOK
    <3>. QED
      BY <3>0, <3>1 DEF ClientOK, ClientTypes
  <2>10. /\ cli' = [cli EXCEPT ![c] = cli[c]]
         /\ toCli' = [toCli EXCEPT ![c] = Append(toCli[c], m)]
         /\ toSrv' = [toSrv EXCEPT ![c] = Tail(toSrv[c])]
    BY <1>1, <2>1, Same DEF m
  <2>11. removed' \in SUBSET Nat /\ active' = active
    BY <1>1 DEF TableInv, Shapes
  <2>. QED
    BY <2>6, <2>7, <2>8, <2>9, <2>10, <2>11, Locally
<1>. QED
  BY <1>2, <1>3

\* A step of the server that tells no client
LEMMA Silently ==
  ASSUME TableInv, ServerInv', Answered <= Answered', removed' \in SUBSET Nat,
         UNCHANGED <<active, cli, toCli, toSrv>>
  PROVE  TableInv'
<1>. DEFINE c == 0
<1>1. c \in Clients
  BY RankAssumption
<1>. HIDE DEF c
<1>2. /\ cli' = [cli EXCEPT ![c] = cli[c]]
      /\ toCli' = [toCli EXCEPT ![c] = toCli[c]] /\ toSrv' = [toSrv EXCEPT ![c] = toSrv[c]]
  BY <1>1, Same
<1>3. ClientOK(cli[c], toCli[c], toSrv[c], Answered')
  BY <1>1, ClientStays
<1>4. ServerReadyOK(cli[c].ready, toCli[c], Live(c))
  BY <1>1, ClientKnown
<1>5. active' = active
  OBVIOUS
<1>. QED
  BY <1>1, <1>2, <1>3, <1>4, <1>5, Locally

LEMMA SilentSteps ==
  ASSUME TableInv, Save \/ Saved \/ UNCHANGED vars
  PROVE  TableInv'
<1>1. ServerInv /\ removed \in SUBSET Nat /\ Answered \in Nat
  BY AnsweredType DEF TableInv, Shapes
<1>2. ServerInv' /\ Answered' = Answered
  <2>1. CASE Save
    BY <1>1, <2>1, SaveStep DEF Save
  <2>2. CASE Saved
    BY <1>1, <2>2, SavedStep DEF Saved
  <2>3. CASE UNCHANGED vars
    BY <1>1, <2>3, ServerRests DEF vars, server
  <2>. QED
    BY <2>1, <2>2, <2>3
<1>3. UNCHANGED <<active, cli, toCli, toSrv>> /\ removed' = removed
  BY DEF Save, Saved, vars
<1>4. Answered <= Answered' /\ removed' \in SUBSET Nat
  BY <1>1, <1>2, <1>3
<1>. QED
  BY <1>2, <1>3, <1>4, Silently

LEMMA CheckStep ==
  ASSUME TableInv, CheckOsdMap
  PROVE  TableInv'
<1>1. ServerInv /\ table \in Tables /\ removed \in SUBSET Nat /\ Answered \in Nat
  BY AnsweredType DEF TableInv, ServerInv, ServerTypes, Shapes
<1>. DEFINE gone == table.purge \cap removed
            v == table.version + 1
            e == [Entry("UPDATE", v, 0, 0, 0, NoOp, 0) EXCEPT !.purged = gone]
<1>2. table.version \in Nat /\ v \in Nat /\ table.purge \in SUBSET Nat /\ gone \in SUBSET Nat
  BY <1>1 DEF Tables
<1>3. /\ removed' = removed \cup table.purge
      /\ UNCHANGED <<saved, saving, safe>> /\ UNCHANGED <<active, cli, toCli, toSrv>>
  BY DEF CheckOsdMap
<1>4. gone = {} => UNCHANGED <<table, jrnl>>
  BY DEF CheckOsdMap
<1>5. gone # {} => table' = ServerUpdate(table, gone) /\ Submit(e)
  BY DEF CheckOsdMap
<1>. HIDE DEF gone, v
<1>6. ServerInv' /\ Answered' = Answered
  <2>1. CASE gone = {}
    BY <1>1, <1>3, <1>4, <2>1, ServerRests DEF server
  <2>2. CASE gone # {}
    <3>1. e \in Entries /\ e.op = "UPDATE" /\ e.version = v /\ e.purged = gone
      BY <1>2, NoOpType, RankAssumption DEF Entry, Entries
    <3>2. table' = ServerUpdate(table, gone) /\ Submit(e)
      BY <1>5, <2>2
    <3>. HIDE DEF e
    <3>3. Applies(table, e)
      BY <1>2, <3>1 DEF Applies, v
    <3>4. Replay(table, e) = ServerUpdate(table, gone)
      BY <1>2, <3>1 DEF Replay, v
    <3>. QED
      BY <1>1, <1>3, <3>1, <3>2, <3>3, <3>4, SubmitStep
  <2>. QED
    BY <2>1, <2>2
<1>7. removed' \in SUBSET Nat
  BY <1>1, <1>2, <1>3
<1>8. Answered <= Answered'
  BY <1>1, <1>6
<1>. QED
  BY <1>3, <1>6, <1>7, <1>8, Silently

\* One client is told
LEMMA Telling ==
  ASSUME TableInv, ServerInv', Answered <= Answered', NEW c \in Clients,
         NEW m \in Messages, m.op # "READY", Answer(m) => Answered < m.tid /\ m.tid <= Answered',
         toCli' = [toCli EXCEPT ![c] = Append(@, m)], UNCHANGED <<active, cli, toSrv, removed>>
  PROVE  TableInv'
<1>1. /\ cli' = [cli EXCEPT ![c] = cli[c]] /\ toSrv' = [toSrv EXCEPT ![c] = toSrv[c]]
      /\ toCli' = [toCli EXCEPT ![c] = Append(toCli[c], m)]
  BY Same
<1>2. /\ ClientOK(cli[c], Append(toCli[c], m), toSrv[c], Answered')
      /\ ServerReadyOK(cli[c].ready, Append(toCli[c], m), Live(c))
  BY Tells
<1>3. removed' \in SUBSET Nat /\ active' = active
  BY DEF TableInv, Shapes
<1>. QED
  BY <1>1, <1>2, <1>3, Locally

LEMMA ServerLoggedStep ==
  ASSUME TableInv, ServerLogged
  PROVE  TableInv'
<1>. DEFINE e == jrnl[safe + 1]
            agree == Msg("AGREE", e.reqid, e.tid, NoOp, e.reply)
<1>1. /\ safe < Len(jrnl) /\ safe' = safe + 1 /\ UNCHANGED <<table, saved, saving, jrnl>>
      /\ UNCHANGED <<active, cli, toSrv, removed>>
  BY DEF ServerLogged
<1>2. toCli' = IF e.op = "PREPARE" THEN [toCli EXCEPT ![e.mds] = Append(@, agree)]
               ELSE IF e.op = "COMMIT" THEN [toCli EXCEPT ![e.mds] = Append(@, Ack(e.tid))]
               ELSE toCli
  BY DEF ServerLogged
<1>3. ServerInv /\ removed \in SUBSET Nat /\ jrnl \in Seq(Entries)
  BY DEF TableInv, Shapes, ServerInv, ServerTypes
<1>4. ServerInv' /\ Answered < Answered' /\ safe + 1 \in 1 .. Len(jrnl) /\ Answered' = e.version
  BY <1>1, <1>3, LoggedStep
<1>5. e \in Entries /\ (e.op = "PREPARE" => e.tid = e.version)
  BY <1>3, <1>4, EntriesOf DEF ServerInv, Growing
<1>6. Answered \in Nat /\ e.version \in Nat
  BY <1>3, <1>5, AnsweredType DEF Entries
<1>7. Answered <= Answered'
  BY <1>4, <1>6
<1>. HIDE DEF e
<1>8. e.mds \in Clients /\ e.tid \in Nat /\ e.reqid \in Nat /\ e.reply \in Nat
  BY <1>5 DEF Entries
<1>9. CASE e.op = "PREPARE"
  <2>1. agree \in Messages /\ agree.op = "AGREE" /\ agree.tid = e.tid
    BY <1>8, NoOpType DEF Msg, Messages, MessageOps
  <2>2. toCli' = [toCli EXCEPT ![e.mds] = Append(@, agree)]
    BY <1>2, <1>9
  <2>. HIDE DEF agree
  <2>3. agree.tid = Answered' /\ Answered < agree.tid /\ agree.tid <= Answered' /\ agree.op # "READY"
    BY <1>4, <1>5, <1>6, <1>9, <2>1
  <2>. QED
    BY <1>1, <1>4, <1>7, <1>8, <2>1, <2>2, <2>3, Telling
<1>10. CASE e.op = "COMMIT"
  <2>. DEFINE m == Ack(e.tid)
  <2>1. m \in Messages /\ m.op = "ACK"
    BY <1>8, AckType
  <2>2. toCli' = [toCli EXCEPT ![e.mds] = Append(@, m)]
    BY <1>2, <1>10
  <2>. HIDE DEF m
  <2>3. ~Answer(m) /\ m.op # "READY"
    BY <2>1 DEF Answer
  <2>. QED
    BY <1>1, <1>4, <1>7, <1>8, <2>1, <2>2, <2>3, Telling
<1>11. CASE e.op # "PREPARE" /\ e.op # "COMMIT"
  <2>1. UNCHANGED <<active, cli, toCli, toSrv>> /\ removed' \in SUBSET Nat
    BY <1>1, <1>2, <1>3, <1>11
  <2>. QED
    BY <1>4, <1>7, <2>1, Silently
<1>. QED
  BY <1>9, <1>10, <1>11

-----------------------------------------------------------------------------
(* The steps of the clients *)

\* The server rests, and one client goes on
LEMMA ClientStep ==
  ASSUME TableInv, NEW c \in Clients, NEW s, NEW in, NEW out, UNCHANGED <<server, active, removed>>,
         cli' = [cli EXCEPT ![c] = s],
         toCli' = [toCli EXCEPT ![c] = in], toSrv' = [toSrv EXCEPT ![c] = out],
         ClientOK(s, in, out, Answered), ServerReadyOK(s.ready, in, Live(c))
  PROVE  TableInv'
<1>1. ServerInv /\ removed \in SUBSET Nat /\ Answered \in Nat
  BY AnsweredType DEF TableInv, Shapes
<1>2. ServerInv' /\ Answered' = Answered
  BY <1>1, ServerRests
<1>3. Answered <= Answered' /\ ClientOK(s, in, out, Answered')
  BY <1>1, <1>2
<1>4. removed' \in SUBSET Nat /\ active' = active
  BY <1>1
<1>. QED
  BY <1>2, <1>3, <1>4, Locally

\* The note of an answer
LEMMA AgreeStep ==
  ASSUME TableInv, NEW c \in Clients, HandleAgree(c)
  PROVE  TableInv'
<1>. DEFINE in == toCli[c]
            s == cli[c]
            m == Head(in)
            o == s.preparing[m.reqid]
            e == [op |-> "UPDATE", tid |-> m.tid, kind |-> o.kind,
                  snap |-> IF o.kind = "create" THEN m.seq ELSE o.snap]
            t == Answering(s, Without(s.preparing, m.reqid), With(s.prepared, m.tid, m.reqid),
                           Append(s.journal, e))
<1>1. /\ in # <<>> /\ m.op = "AGREE" /\ m.reqid \in DOMAIN s.preparing /\ m.seq # 0
      /\ toCli' = [toCli EXCEPT ![c] = Tail(@)] /\ UNCHANGED <<server, active, toSrv, removed>>
  BY DEF HandleAgree, To, Awaited
<1>2. cli' = [cli EXCEPT ![c] = t]
  <2>1. cli \in [Clients -> ClientStates]
    BY DEF TableInv, Shapes
  <2>2. cli' = [cli EXCEPT ![c].preparing = Without(@, m.reqid),
                           ![c].prepared = With(@, m.tid, m.reqid),
                           ![c].journal = Append(@, e)]
    BY DEF HandleAgree
  <2>. QED
    BY <2>1, <2>2 DEF Answering
<1>3. /\ s \in ClientStates /\ in \in Seq(Messages) /\ Answered \in Nat /\ s.ready \in BOOLEAN
      /\ ClientOK(s, in, toSrv[c], Answered)
      /\ ServerReadyOK(s.ready, in, Live(c)) /\ Live(c) \in BOOLEAN
  BY ClientKnown
<1>4. m \in Messages /\ m.tid \in Nat /\ m.seq \in Nat
  BY <1>1, <1>3, MessagesOf DEF Messages
<1>5. o \in Wants
  <2>1. s.preparing \in WantMaps
    BY <1>3, ClientFields
  <2>. QED
    BY <1>1, <2>1, WantDef
<1>6. e \in Notes /\ e.tid = m.tid
  <2>. HIDE DEF o, m
  <2>. QED
    BY <1>4, <1>5 DEF Notes, Wants
<1>7. Answer(m)
  BY <1>1 DEF Answer
<1>8. ClientOK(t, Tail(in), toSrv[c], Answered) /\ t.ready = s.ready
  <2>. HIDE DEF e, s, in
  <2>. QED
    BY <1>1, <1>3, <1>6, <1>7, AnswerOK
<1>. HIDE DEF t
<1>9. ServerReadyOK(t.ready, Tail(in), Live(c))
  BY <1>1, <1>3, <1>8, ReadyLess
<1>10. toCli' = [toCli EXCEPT ![c] = Tail(in)] /\ toSrv' = [toSrv EXCEPT ![c] = toSrv[c]]
  BY <1>1, Same
<1>. QED
  BY <1>1, <1>2, <1>8, <1>9, <1>10, ClientStep

\* An AGREE that its request does not go on with
LEMMA InVainStep ==
  ASSUME TableInv, NEW c \in Clients, HandleAgreeInVain(c)
  PROVE  TableInv'
<1>. DEFINE in == toCli[c]
            s == cli[c]
            m == Head(in)
            p == Without(s.preparing, m.reqid)
            d == With(s.prepared, m.tid, m.reqid)
            t == Answering(s, p, d, s.journal)
<1>1. /\ in # <<>> /\ toCli' = [toCli EXCEPT ![c] = Tail(@)]
      /\ UNCHANGED <<server, active, toSrv, removed>>
  BY DEF HandleAgreeInVain, To
<1>2. cli' = [cli EXCEPT ![c] = t]
  <2>1. cli \in [Clients -> ClientStates]
    BY DEF TableInv, Shapes
  <2>2. cli' = [cli EXCEPT ![c].preparing = Without(@, m.reqid),
                           ![c].prepared = With(@, m.tid, m.reqid)]
    BY DEF HandleAgreeInVain
  <2>3. s \in ClientStates
    BY <2>1
  <2>4. [s EXCEPT !.preparing = p, !.prepared = d] = t
    <3>. HIDE DEF s, p, d
    <3>. QED
      BY <2>3 DEF Answering, ClientStates
  <2>. QED
    BY <2>1, <2>2, <2>4
<1>3. /\ s \in ClientStates /\ in \in Seq(Messages) /\ toSrv[c] \in Seq(Messages)
      /\ Answered \in Nat /\ s.ready \in BOOLEAN
      /\ ClientOK(s, in, toSrv[c], Answered)
      /\ Learns(s.journal, in) /\ Known(s.journal, s.committing, in, Answered)
      /\ ServerReadyOK(s.ready, in, Live(c)) /\ Live(c) \in BOOLEAN
  BY ClientKnown
<1>4. m.tid \in Nat /\ m.reqid \in Nat /\ Tail(in) \in Seq(Messages)
  BY <1>1, <1>3, MessagesOf
<1>5. /\ s.preparing \in WantMaps /\ s.prepared \in TidMaps /\ s.journal \in Seq(Notes)
      /\ s.safe \in Nat
  BY <1>3, ClientFields
<1>6. p \in WantMaps
  BY <1>5, WantWithout
<1>7. d \in TidMaps /\ DOMAIN d = DOMAIN s.prepared \cup {m.tid}
  BY <1>4, <1>5, TidWith
<1>. HIDE DEF p, d, t
<1>8. /\ t \in ClientStates /\ t.ready = s.ready /\ t.journal = s.journal /\ t.safe = s.safe
      /\ t.prepared = d /\ t.committing = s.committing
  BY <1>3, <1>5, <1>6, <1>7, AnswerState DEF t
<1>9. Learns(s.journal, Tail(in)) /\ Known(s.journal, s.committing, Tail(in), Answered)
  BY <1>1, <1>3, LearnsLess
<1>10. Prepared(s.journal, s.safe, d)
  BY <1>3, <1>7 DEF ClientOK, Prepared
<1>11. ClientOK(t, Tail(in), toSrv[c], Answered)
  BY <1>3, <1>4, <1>8, <1>9, <1>10 DEF ClientOK, ClientTypes
<1>12. ServerReadyOK(t.ready, Tail(in), Live(c))
  BY <1>1, <1>3, <1>8, ReadyLess
<1>13. toCli' = [toCli EXCEPT ![c] = Tail(in)] /\ toSrv' = [toSrv EXCEPT ![c] = toSrv[c]]
  BY <1>1, Same
<1>. QED
  BY <1>1, <1>2, <1>11, <1>12, <1>13, ClientStep

LEMMA StrayStep ==
  ASSUME TableInv, NEW c \in Clients, HandleStrayAgree(c)
  PROVE  TableInv'
<1>. DEFINE in == toCli[c]
            s == cli[c]
            tid == Head(in).tid
            m == Msg("ROLLBACK", 0, tid, NoOp, 0)
<1>1. /\ in # <<>> /\ toCli' = [toCli EXCEPT ![c] = Tail(@)] /\ UNCHANGED <<server, active, cli, removed>>
      /\ toSrv' = IF StrayAgree(c) THEN [toSrv EXCEPT ![c] = Append(@, m)] ELSE toSrv
  BY DEF HandleStrayAgree, To
<1>2. /\ s \in ClientStates /\ in \in Seq(Messages) /\ toSrv[c] \in Seq(Messages)
      /\ Answered \in Nat /\ s.ready \in BOOLEAN
      /\ ClientOK(s, in, toSrv[c], Answered)
      /\ Learns(s.journal, in) /\ Known(s.journal, s.committing, in, Answered)
      /\ Sent(toSrv[c], Answered)
      /\ ServerReadyOK(s.ready, in, Live(c)) /\ Live(c) \in BOOLEAN
  BY ClientKnown
<1>3. tid \in Nat /\ Tail(in) \in Seq(Messages)
  BY <1>1, <1>2, MessagesOf
<1>. HIDE DEF tid
<1>4. m \in Messages /\ m.op = "ROLLBACK"
  BY <1>3, NoOpType DEF Msg, Messages, MessageOps
<1>. HIDE DEF m
<1>5. PICK out : toSrv' = [toSrv EXCEPT ![c] = out] /\ out \in Seq(Messages) /\ Sent(out, Answered)
  <2>1. CASE StrayAgree(c)
    <3>1. toSrv' = [toSrv EXCEPT ![c] = Append(toSrv[c], m)]
      BY <1>1, <2>1
    <3>2. Append(toSrv[c], m) \in Seq(Messages) /\ Sent(Append(toSrv[c], m), Answered)
      BY <1>2, <1>4, SentMore
    <3>. QED
      BY <3>1, <3>2
  <2>2. CASE ~StrayAgree(c)
    BY <1>1, <1>2, <2>2, Same
  <2>. QED
    BY <2>1, <2>2
<1>6. Learns(s.journal, Tail(in)) /\ Known(s.journal, s.committing, Tail(in), Answered)
  BY <1>1, <1>2, LearnsLess
<1>7. ClientOK(s, Tail(in), out, Answered)
  BY <1>2, <1>3, <1>5, <1>6 DEF ClientOK, ClientTypes
<1>8. ServerReadyOK(s.ready, Tail(in), Live(c))
  BY <1>1, <1>2, ReadyLess
<1>9. toCli' = [toCli EXCEPT ![c] = Tail(in)] /\ cli' = [cli EXCEPT ![c] = s]
  BY <1>1, Same
<1>. QED
  BY <1>1, <1>5, <1>7, <1>8, <1>9, ClientStep

LEMMA AckStep ==
  ASSUME TableInv, NEW c \in Clients, HandleAck(c)
  PROVE  TableInv'
<1>. DEFINE in == toCli[c]
            s == cli[c]
            tid == Head(in).tid
            e == [op |-> "ACK", tid |-> tid, kind |-> "realm", snap |-> 0]
            t == Acking(s, s.committing \ {e.tid}, Append(s.journal, e))
<1>1. /\ in # <<>> /\ toCli' = [toCli EXCEPT ![c] = Tail(@)]
      /\ UNCHANGED <<server, active, toSrv, removed>>
  BY DEF HandleAck, To
<1>2. /\ s \in ClientStates /\ in \in Seq(Messages) /\ toSrv[c] \in Seq(Messages)
      /\ Answered \in Nat /\ s.ready \in BOOLEAN
      /\ ClientOK(s, in, toSrv[c], Answered)
      /\ Learns(s.journal, in) /\ Known(s.journal, s.committing, in, Answered)
      /\ ServerReadyOK(s.ready, in, Live(c)) /\ Live(c) \in BOOLEAN
  BY ClientKnown
<1>3. tid \in Nat /\ Tail(in) \in Seq(Messages)
  BY <1>1, <1>2, MessagesOf
<1>4. e \in Notes /\ e.op = "ACK" /\ e.tid = tid
  BY <1>3 DEF Notes, AllKinds
<1>5. PICK u : cli' = [cli EXCEPT ![c] = u] /\ ClientOK(u, Tail(in), toSrv[c], Answered)
                 /\ u.ready = s.ready
  <2>1. CASE tid \in s.committing
    <3>1. cli' = [cli EXCEPT ![c] = t]
      <4>1. cli \in [Clients -> ClientStates]
        BY DEF TableInv, Shapes
      <4>2. cli' = [cli EXCEPT ![c].committing = @ \ {tid}, ![c].journal = Append(@, e)]
        BY <2>1 DEF HandleAck
      <4>. QED
        BY <4>1, <4>2 DEF Acking
    <3>2. ClientOK(t, Tail(in), toSrv[c], Answered) /\ t.ready = s.ready
      <4>. HIDE DEF e, s, in
      <4>. QED
        BY <1>1, <1>2, <1>4, AckOK
    <3>. HIDE DEF t
    <3>. QED
      BY <3>1, <3>2
  <2>2. CASE tid \notin s.committing
    <3>1. cli' = [cli EXCEPT ![c] = s]
      BY <2>2, Same DEF HandleAck
    <3>2. Learns(s.journal, Tail(in)) /\ Known(s.journal, s.committing, Tail(in), Answered)
      BY <1>1, <1>2, LearnsLess
    <3>3. ClientOK(s, Tail(in), toSrv[c], Answered)
      BY <1>2, <1>3, <3>2 DEF ClientOK, ClientTypes
    <3>. QED
      BY <3>1, <3>3
  <2>. QED
    BY <2>1, <2>2
<1>6. ServerReadyOK(u.ready, Tail(in), Live(c))
  BY <1>1, <1>2, <1>5, ReadyLess
<1>7. toCli' = [toCli EXCEPT ![c] = Tail(in)] /\ toSrv' = [toSrv EXCEPT ![c] = toSrv[c]]
  BY <1>1, Same
<1>. QED
  BY <1>1, <1>5, <1>6, <1>7, ClientStep

LEMMA ReadyStep ==
  ASSUME TableInv, NEW c \in Clients, HandleReady(c)
  PROVE  TableInv'
<1>. DEFINE in == toCli[c]
            s == cli[c]
            t == Numbered(s, Head(in).reqid)
            out == toSrv[c] \o Resent(t)
<1>1. /\ in # <<>> /\ Head(in).op = "READY" /\ toCli' = [toCli EXCEPT ![c] = Tail(in)]
      /\ cli' = [cli EXCEPT ![c] = t] /\ toSrv' = [toSrv EXCEPT ![c] = out]
      /\ UNCHANGED <<server, active, removed>>
  BY DEF HandleReady, To
<1>2. /\ s \in ClientStates /\ in \in Seq(Messages) /\ toSrv[c] \in Seq(Messages)
      /\ s.safe <= Len(s.journal) /\ Answered \in Nat /\ s.ready \in BOOLEAN
      /\ Learns(s.journal, in) /\ Known(s.journal, s.committing, in, Answered)
      /\ Sent(toSrv[c], Answered) /\ Prepared(s.journal, s.safe, s.prepared)
      /\ ServerReadyOK(s.ready, in, Live(c)) /\ Live(c) \in BOOLEAN
  BY ClientKnown
<1>3. Head(in).reqid \in Nat /\ Tail(in) \in Seq(Messages)
  BY <1>1, <1>2, MessagesOf
<1>4. /\ t \in ClientStates /\ t.ready = TRUE /\ t.journal = s.journal /\ t.safe = s.safe
      /\ t.prepared = s.prepared /\ t.committing = s.committing
  BY <1>2, <1>3, NumberedIs
<1>. HIDE DEF t, s, in
<1>5. Learns(s.journal, Tail(in)) /\ Known(s.journal, s.committing, Tail(in), Answered)
  BY <1>1, <1>2, LearnsLess
<1>6. Resent(t) \in Seq(Messages) /\ Sent(Resent(t), Answered)
  <2>1. \A tid \in t.committing : tid <= Answered
    BY <1>4, <1>5 DEF Known
  <2>. QED
    BY <1>4, <2>1, ResentIs
<1>7. out \in Seq(Messages) /\ Sent(out, Answered)
  BY <1>2, <1>6, SentAll
<1>. HIDE DEF out
<1>8. ClientOK(t, Tail(in), out, Answered)
  BY <1>2, <1>3, <1>4, <1>5, <1>7 DEF ClientOK, ClientTypes
<1>9. ServerReadyOK(t.ready, Tail(in), Live(c))
  BY <1>1, <1>2, <1>4, ReadyLess
<1>. QED
  BY <1>1, <1>8, <1>9, ClientStep

LEMMA ClientLoggedStep ==
  ASSUME TableInv, NEW c \in Clients, ClientLogged(c)
  PROVE  TableInv'
<1>. DEFINE in == toCli[c]
            s == cli[c]
            e == s.journal[s.safe + 1]
            t == Committing(s, s.safe + 1, Without(s.prepared, e.tid), s.committing \cup {e.tid})
            r == Logging(s, s.safe + 1)
            m == CommitMsg(e.tid)
<1>1. s.safe < Len(s.journal) /\ UNCHANGED <<server, active, toCli, removed>>
  BY DEF ClientLogged
<1>2. /\ s \in ClientStates /\ in \in Seq(Messages) /\ toSrv[c] \in Seq(Messages)
      /\ Answered \in Nat /\ s.ready \in BOOLEAN
      /\ ClientOK(s, in, toSrv[c], Answered) /\ Sent(toSrv[c], Answered)
      /\ ServerReadyOK(s.ready, in, Live(c))
  BY ClientKnown
<1>3. cli \in [Clients -> ClientStates] /\ toCli' = [toCli EXCEPT ![c] = in]
  BY <1>1, Same DEF TableInv, Shapes
<1>4. /\ e \in Notes
      /\ e.op = "UPDATE" => ClientOK(t, in, toSrv[c], Answered) /\ t.ready = s.ready /\ e.tid <= Answered
      /\ e.op # "UPDATE" => ClientOK(r, in, toSrv[c], Answered) /\ r.ready = s.ready
  <2>. HIDE DEF s, in
  <2>. QED
    BY <1>1, <1>2, LoggedOK
<1>5. CASE e.op = "UPDATE"
  <2>1. /\ cli' = [cli EXCEPT ![c].safe = @ + 1, ![c].prepared = Without(@, e.tid),
                              ![c].committing = @ \cup {e.tid}]
        /\ toSrv' = IF s.ready THEN [toSrv EXCEPT ![c] = Append(@, m)] ELSE toSrv
    BY <1>5 DEF ClientLogged
  <2>2. cli' = [cli EXCEPT ![c] = t]
    BY <1>3, <2>1 DEF Committing
  <2>3. e.tid \in Nat /\ e.tid <= Answered
    BY <1>4, <1>5 DEF Notes
  <2>4. m \in Messages /\ m.tid <= Answered
    BY <2>3, NoOpType DEF CommitMsg, Msg, Messages, MessageOps
  <2>5. ClientOK(t, in, toSrv[c], Answered) /\ t.ready = s.ready
    BY <1>4, <1>5
  <2>. HIDE DEF t, m
  <2>6. PICK out : toSrv' = [toSrv EXCEPT ![c] = out] /\ out \in Seq(Messages) /\ Sent(out, Answered)
    <3>1. CASE s.ready
      <4>1. toSrv' = [toSrv EXCEPT ![c] = Append(toSrv[c], m)]
        BY <2>1, <3>1
      <4>2. Append(toSrv[c], m) \in Seq(Messages) /\ Sent(Append(toSrv[c], m), Answered)
        BY <1>2, <2>4, SentMore
      <4>. QED
        BY <4>1, <4>2
    <3>2. CASE ~s.ready
      BY <1>2, <2>1, <3>2, Same
    <3>. QED
      BY <3>1, <3>2
  <2>7. ClientOK(t, in, out, Answered)
    BY <2>5, <2>6 DEF ClientOK, ClientTypes
  <2>8. ServerReadyOK(t.ready, in, Live(c))
    BY <1>2, <2>5
  <2>. QED
    BY <1>1, <1>3, <2>2, <2>6, <2>7, <2>8, ClientStep
<1>6. CASE e.op # "UPDATE"
  <2>1. cli' = [cli EXCEPT ![c].safe = @ + 1] /\ UNCHANGED toSrv
    BY <1>6 DEF ClientLogged
  <2>2. cli' = [cli EXCEPT ![c] = r]
    BY <1>3, <2>1 DEF Logging
  <2>3. toSrv' = [toSrv EXCEPT ![c] = toSrv[c]]
    BY <2>1, Same
  <2>4. ClientOK(r, in, toSrv[c], Answered) /\ r.ready = s.ready
    BY <1>4, <1>6
  <2>. HIDE DEF r
  <2>5. ServerReadyOK(r.ready, in, Live(c))
    BY <1>2, <2>4
  <2>. QED
    BY <1>1, <1>3, <2>2, <2>3, <2>4, <2>5, ClientStep
<1>. QED
  BY <1>5, <1>6

LEMMA RequestableType ==
  ASSUME TableInv, NEW c \in Clients, NEW o \in Requestable(c)
  PROVE  o \in Wants
<1>1. /\ cli[c] \in ClientStates /\ cli[c].journal \in Seq(Notes)
      /\ cli[c].safe <= Len(cli[c].journal)
  BY ClientKnown
<1>2. Len(cli[c].journal) \in Nat /\ \A i \in 1 .. Len(cli[c].journal) : cli[c].journal[i] \in Notes
  BY <1>1, NotesOf
<1>3. cli[c].safe \in Nat
  BY <1>1, ClientFields
<1>4. Done(c) \subseteq Notes
  BY <1>1, <1>2, <1>3 DEF Done
<1>5. Realm(c) \subseteq Nat
  BY <1>4 DEF Realm, Made, Notes
<1>6. /\ o.kind \in AllKinds /\ o.snap \in Nat /\ o.live \in BOOLEAN
      /\ o = [kind |-> o.kind, snap |-> o.snap, live |-> o.live]
  <2>1. o \in [kind: Kinds, snap: {0} \cup Realm(c), live: {TRUE}]
    BY DEF Requestable
  <2>2. o.live = TRUE /\ o.kind \in Kinds /\ o.snap \in {0} \cup Realm(c)
    BY <2>1
  <2>3. o = [kind |-> o.kind, snap |-> o.snap, live |-> o.live]
    BY <2>1
  <2>4. o.live \in BOOLEAN
    BY <2>2, Zenon
  <2>. QED
    BY <1>5, <2>2, <2>3, <2>4, KindAssumption
<1>. QED
  BY <1>6 DEF Wants

\* The client goes on, and knows no more than before
LEMMA SameKnowledge ==
  ASSUME NEW s, NEW in, NEW out, NEW w, ClientOK(s, in, out, w), NEW t \in ClientStates,
         t.journal = s.journal, t.safe = s.safe, t.committing = s.committing,
         t.prepared = s.prepared
  PROVE  ClientOK(t, in, out, w)
BY DEF ClientOK, ClientTypes

LEMMA RequestStep ==
  ASSUME TableInv, NEW c \in Clients, Request(c)
  PROVE  TableInv'
<1>. DEFINE in == toCli[c]
            s == cli[c]
            id == s.last_reqid + 1
<1>1. PICK o \in Requestable(c) :
        LET t == [s EXCEPT !.last_reqid = id, !.preparing = With(@, id, o)]
        IN  IF s.last_reqid = Unset
            THEN cli' = [cli EXCEPT ![c].waiting = Append(@, o)] /\ UNCHANGED toSrv
            ELSE /\ cli' = [cli EXCEPT ![c] = t]
                 /\ toSrv' = IF s.ready THEN [toSrv EXCEPT ![c] = Append(@, PrepareMsg(t, id))]
                             ELSE toSrv
  BY DEF Request
<1>2. o \in Wants
  BY RequestableType
<1>3. /\ s \in ClientStates /\ in \in Seq(Messages) /\ toSrv[c] \in Seq(Messages)
      /\ Answered \in Nat /\ s.ready \in BOOLEAN
      /\ ClientOK(s, in, toSrv[c], Answered) /\ Sent(toSrv[c], Answered)
      /\ ServerReadyOK(s.ready, in, Live(c))
  BY ClientKnown
<1>. DEFINE t == [s EXCEPT !.last_reqid = id, !.preparing = With(@, id, o)]
            u == [s EXCEPT !.waiting = Append(@, o)]
            m == PrepareMsg(t, id)
<1>4. /\ u \in ClientStates
      /\ u.journal = s.journal /\ u.safe = s.safe /\ u.committing = s.committing
      /\ u.prepared = s.prepared /\ u.ready = s.ready
      /\ s.last_reqid # Unset =>
           /\ t \in ClientStates
           /\ t.journal = s.journal /\ t.safe = s.safe /\ t.committing = s.committing
           /\ t.prepared = s.prepared /\ t.ready = s.ready
           /\ m \in Messages /\ m.op = "PREPARE"
  <2>. HIDE DEF s
  <2>. QED
    BY <1>2, <1>3, RequestOK
<1>5. cli \in [Clients -> ClientStates] /\ toCli' = [toCli EXCEPT ![c] = in]
  BY Same DEF Request, TableInv, Shapes
<1>6. UNCHANGED <<server, active, removed>>
  BY DEF Request
<1>7. CASE s.last_reqid = Unset
  <2>1. cli' = [cli EXCEPT ![c] = u] /\ toSrv' = [toSrv EXCEPT ![c] = toSrv[c]]
    BY <1>1, <1>5, <1>7, Same
  <2>. HIDE DEF u
  <2>2. ClientOK(u, in, toSrv[c], Answered)
    BY <1>3, <1>4, SameKnowledge
  <2>3. ServerReadyOK(u.ready, in, Live(c))
    BY <1>3, <1>4
  <2>. QED
    BY <1>5, <1>6, <2>1, <2>2, <2>3, ClientStep
<1>8. CASE s.last_reqid # Unset
  <2>1. /\ cli' = [cli EXCEPT ![c] = t]
        /\ toSrv' = IF s.ready THEN [toSrv EXCEPT ![c] = Append(@, m)] ELSE toSrv
    BY <1>1, <1>8
  <2>. HIDE DEF t, m
  <2>2. PICK out : toSrv' = [toSrv EXCEPT ![c] = out] /\ out \in Seq(Messages) /\ Sent(out, Answered)
    <3>1. CASE s.ready
      <4>1. toSrv' = [toSrv EXCEPT ![c] = Append(toSrv[c], m)]
        BY <2>1, <3>1
      <4>2. Append(toSrv[c], m) \in Seq(Messages) /\ Sent(Append(toSrv[c], m), Answered)
        BY <1>3, <1>4, <1>8, SentMore
      <4>. QED
        BY <4>1, <4>2
    <3>2. CASE ~s.ready
      BY <1>3, <2>1, <3>2, Same
    <3>. QED
      BY <3>1, <3>2
  <2>3. ClientOK(t, in, toSrv[c], Answered)
    BY <1>3, <1>4, <1>8, SameKnowledge
  <2>4. ClientOK(t, in, out, Answered)
    BY <2>2, <2>3 DEF ClientOK, ClientTypes
  <2>5. ServerReadyOK(t.ready, in, Live(c))
    BY <1>3, <1>4, <1>8
  <2>. QED
    BY <1>5, <1>6, <2>1, <2>2, <2>4, <2>5, ClientStep
<1>. QED
  BY <1>7, <1>8

\* A request that is killed is a request still
LEMMA KillWant ==
  ASSUME NEW f \in WantMaps, NEW k \in DOMAIN f
  PROVE  [f EXCEPT ![k].live = FALSE] \in WantMaps
<1>. DEFINE g == [f EXCEPT ![k].live = FALSE]
<1>1. DOMAIN f \in FiniteTids /\ f \in [DOMAIN f -> Wants]
  BY WantDef
<1>2. [f[k] EXCEPT !.live = FALSE] \in Wants
  BY <1>1 DEF Wants
<1>3. DOMAIN g = DOMAIN f /\ g \in [DOMAIN g -> Wants]
  BY <1>1, <1>2
<1>. HIDE DEF g
<1>4. g \in WantMaps
  BY <1>1, <1>3, WantDef
<1>. QED
  BY <1>4 DEF g

LEMMA KillStep ==
  ASSUME TableInv, NEW c \in Clients, Kill(c)
  PROVE  TableInv'
<1>. DEFINE in == toCli[c]
            s == cli[c]
<1>1. /\ s \in ClientStates /\ Answered \in Nat /\ s.ready \in BOOLEAN
      /\ ClientOK(s, in, toSrv[c], Answered) /\ ServerReadyOK(s.ready, in, Live(c))
  BY ClientKnown
<1>2. /\ s.ready \in BOOLEAN /\ s.last_reqid \in Nat \cup {Unset} /\ s.waiting \in Seq(Wants)
      /\ s.preparing \in WantMaps /\ s.prepared \in TidMaps /\ s.committing \in FiniteTids
      /\ s.journal \in Seq(Notes) /\ s.safe \in Nat
  BY <1>1, ClientFields
<1>3. /\ cli \in [Clients -> ClientStates] /\ toCli' = [toCli EXCEPT ![c] = in]
      /\ toSrv' = [toSrv EXCEPT ![c] = toSrv[c]] /\ UNCHANGED <<server, active, removed>>
  BY Same DEF Kill, TableInv, Shapes
<1>4. ASSUME NEW q \in Seq(Wants), NEW p \in WantMaps, NEW t, cli' = [cli EXCEPT ![c] = t],
             t = State(s.ready, s.last_reqid, q, p, s.prepared, s.committing, s.journal, s.safe)
      PROVE  TableInv'
  <2>1. t \in ClientStates
    BY <1>2, <1>4, StateType
  <2>2. /\ t.journal = s.journal /\ t.safe = s.safe /\ t.committing = s.committing
        /\ t.prepared = s.prepared /\ t.ready = s.ready
    BY <1>4 DEF State
  <2>3. ClientOK(t, in, toSrv[c], Answered)
    BY <1>1, <2>1, <2>2, SameKnowledge
  <2>4. ServerReadyOK(t.ready, in, Live(c))
    BY <1>1, <2>2
  <2>. QED
    BY <1>3, <1>4, <2>3, <2>4, ClientStep
<1>5. ASSUME NEW id \in DOMAIN s.preparing, cli' = [cli EXCEPT ![c].preparing[id].live = FALSE]
      PROVE  TableInv'
  <2>. DEFINE p == [s.preparing EXCEPT ![id].live = FALSE]
              t == [s EXCEPT !.preparing = p]
  <2>1. p \in WantMaps
    BY <1>2, <1>5, KillWant
  <2>2. cli' = [cli EXCEPT ![c] = t]
    BY <1>3, <1>5
  <2>. HIDE DEF p
  <2>3. t = State(s.ready, s.last_reqid, s.waiting, p, s.prepared, s.committing, s.journal, s.safe)
    BY <1>1 DEF State, ClientStates
  <2>. HIDE DEF t
  <2>. QED
    BY <1>2, <1>4, <2>1, <2>2, <2>3
<1>6. ASSUME NEW i \in DOMAIN s.waiting, cli' = [cli EXCEPT ![c].waiting[i].live = FALSE]
      PROVE  TableInv'
  <2>. DEFINE q == [s.waiting EXCEPT ![i].live = FALSE]
              t == [s EXCEPT !.waiting = q]
  <2>1. q \in Seq(Wants)
    <3>1. /\ s.waiting \in [1 .. Len(s.waiting) -> Wants] /\ Len(s.waiting) \in Nat
          /\ i \in 1 .. Len(s.waiting)
      BY <1>2, <1>6, LenProperties
    <3>2. [s.waiting[i] EXCEPT !.live = FALSE] \in Wants
      BY <3>1 DEF Wants
    <3>3. q \in [1 .. Len(s.waiting) -> Wants]
      BY <3>1, <3>2
    <3>. QED
      BY <3>1, <3>3
  <2>2. cli' = [cli EXCEPT ![c] = t]
    BY <1>3, <1>6
  <2>. HIDE DEF q
  <2>3. t = State(s.ready, s.last_reqid, q, s.preparing, s.prepared, s.committing, s.journal, s.safe)
    BY <1>1 DEF State, ClientStates
  <2>. HIDE DEF t
  <2>. QED
    BY <1>2, <1>4, <2>1, <2>2, <2>3
<1>. QED
  BY <1>5, <1>6 DEF Kill

-----------------------------------------------------------------------------
(* Failure and recovery *)

\* A step of all clients
LEMMA Globally ==
  ASSUME ServerInv', removed' \in SUBSET Nat, active' \in SUBSET Clients,
         cli' = [c \in Clients |-> cli'[c]], toCli' = [c \in Clients |-> toCli'[c]],
         toSrv' = [c \in Clients |-> toSrv'[c]],
         \A c \in Clients : /\ ClientOK(cli'[c], toCli'[c], toSrv'[c], Answered')
                            /\ ServerReadyOK(cli'[c].ready, toCli'[c], Live(c)')
  PROVE  TableInv'
<1>1. \A c \in Clients : cli'[c] \in ClientStates /\ toCli'[c] \in Seq(Messages)
                           /\ toSrv'[c] \in Seq(Messages)
  BY DEF ClientOK, ClientTypes
<1>2. /\ cli' \in [Clients -> ClientStates]
      /\ toCli' \in [Clients -> Seq(Messages)] /\ toSrv' \in [Clients -> Seq(Messages)]
  BY <1>1
<1>3. Shapes'
  BY <1>2 DEF Shapes
<1>4. \A c \in Clients : ClientInv(c)'
  BY DEF ClientInv
<1>. QED
  BY <1>3, <1>4 DEF TableInv

LEMMA FailStep ==
  ASSUME TableInv, NEW r \in Clients, Fail(r), removed' = removed
  PROVE  TableInv'
<1>1. ServerInv /\ removed \in SUBSET Nat /\ active \in SUBSET Clients /\ Answered \in Nat
  BY AnsweredType DEF TableInv, Shapes
<1>. DEFINE cut == IF r = 0 THEN Clients ELSE {r}
<1>2. PICK n \in cli[r].safe .. Len(cli[r].journal) :
        cli' = [c \in Clients |-> IF c = r THEN Reborn(cli[c], n)
                                  ELSE IF r = 0 THEN [cli[c] EXCEPT !.ready = FALSE] ELSE cli[c]]
  BY DEF Fail
<1>3. /\ active' = active \ {r}
      /\ toSrv' = [c \in Clients |-> IF c \in cut THEN <<>> ELSE toSrv[c]]
      /\ toCli' = [c \in Clients |-> IF c \in cut THEN <<>> ELSE toCli[c]]
  BY DEF Fail
<1>4. ServerInv' /\ Answered <= Answered'
  <2>1. CASE r # 0
    <3>1. UNCHANGED server
      BY <2>1 DEF Fail
    <3>2. ServerInv' /\ Answered' = Answered
      BY <1>1, <3>1, ServerRests
    <3>. QED
      BY <1>1, <3>2
  <2>2. CASE r = 0
    <3>1. PICK k \in safe .. Len(jrnl), w \in 0 .. Len(saving) :
            /\ jrnl' = SubSeq(jrnl, 1, k) /\ safe' = k
            /\ saved' = IF w = 0 THEN saved ELSE saving[w]
            /\ saving' = <<>>
            /\ table' = Recovered(IF w = 0 THEN saved ELSE saving[w], SubSeq(jrnl, 1, k))
      BY <2>2 DEF Fail
    <3>2. table' = Recovered(saved', jrnl')
      BY <3>1
    <3>. QED
      BY <1>1, <3>1, <3>2, ServerDies
  <2>. QED
    BY <2>1, <2>2
<1>. DEFINE v == Answered'
<1>5. v \in Nat /\ \A c \in Clients : ClientOK(cli[c], toCli[c], toSrv[c], v)
  BY <1>4, AnsweredNext, ClientStays
<1>. HIDE DEF v
<1>6. ASSUME NEW c \in Clients
      PROVE  /\ ClientOK(cli'[c], toCli'[c], toSrv'[c], v)
             /\ ServerReadyOK(cli'[c].ready, toCli'[c], Live(c)')
  <2>0. ClientOK(cli[c], toCli[c], toSrv[c], v)
    BY <1>5
  <2>1. CASE c = r
    <3>1. cli'[c] = Reborn(cli[c], n) /\ toCli'[c] = <<>> /\ toSrv'[c] = <<>>
      BY <1>2, <1>3, <2>1
    <3>2. n \in cli[c].safe .. Len(cli[c].journal)
      BY <2>1
    <3>3. ClientOK(Reborn(cli[c], n), <<>>, <<>>, v) /\ Reborn(cli[c], n).ready = FALSE
      BY <1>5, <2>0, <3>2, RebornOK
    <3>4. ServerReadyOK(FALSE, <<>>, Live(c)')
      BY ReadyNone
    <3>. QED
      BY <3>1, <3>3, <3>4
  <2>2. CASE c # r /\ r = 0
    <3>. DEFINE t == [cli[c] EXCEPT !.ready = FALSE]
    <3>1. cli'[c] = t /\ toCli'[c] = <<>> /\ toSrv'[c] = <<>>
      BY <1>2, <1>3, <2>2
    <3>2. ClientOK(t, <<>>, <<>>, v) /\ t.ready = FALSE
      BY <1>5, <2>0, UnreadyOK
    <3>. HIDE DEF t
    <3>3. ServerReadyOK(FALSE, <<>>, Live(c)')
      BY ReadyNone
    <3>. QED
      BY <3>1, <3>2, <3>3
  <2>3. CASE c # r /\ r # 0
    <3>1. cli'[c] = cli[c] /\ toCli'[c] = toCli[c] /\ toSrv'[c] = toSrv[c]
      BY <1>2, <1>3, <2>3
    <3>2. Live(c)' = Live(c)
      BY <1>3, <2>3 DEF Live
    <3>3. ServerReadyOK(cli[c].ready, toCli[c], Live(c))
      BY ClientKnown
    <3>. QED
      BY <2>0, <3>1, <3>2, <3>3
  <2>. QED
    BY <2>1, <2>2, <2>3
<1>7. /\ cli' = [c \in Clients |-> cli'[c]] /\ toCli' = [c \in Clients |-> toCli'[c]]
      /\ toSrv' = [c \in Clients |-> toSrv'[c]]
  BY <1>2, <1>3
<1>8. removed' \in SUBSET Nat /\ active' \in SUBSET Clients
  BY <1>1, <1>3
<1>. QED
  BY <1>4, <1>6, <1>7, <1>8, Globally DEF v

LEMMA ActivateStep ==
  ASSUME TableInv, NEW r \in Clients, Activate(r)
  PROVE  TableInv'
<1>1. ServerInv /\ table \in Tables /\ removed \in SUBSET Nat /\ active \in SUBSET Clients
  BY DEF TableInv, Shapes, ServerInv, ServerTypes
<1>. DEFINE D == IF r = 0 THEN active' ELSE IF Serving THEN {r} ELSE {}
<1>2. /\ r \notin active /\ active' = active \cup {r}
      /\ toCli' = [c \in Clients |-> IF c \in D THEN toCli[c] \o Agrees(table, c) ELSE toCli[c]]
      /\ UNCHANGED <<server, cli, toSrv, removed>>
  BY DEF Activate
<1>3. ServerInv' /\ Answered' = Answered
  BY <1>1, <1>2, ServerRests
<1>4. /\ cli \in [Clients -> ClientStates] /\ toSrv \in [Clients -> Seq(Messages)]
  BY DEF TableInv, Shapes
<1>5. ASSUME NEW c \in Clients
      PROVE  /\ ClientOK(cli[c], toCli'[c], toSrv[c], Answered)
             /\ ServerReadyOK(cli[c].ready, toCli'[c], Live(c)')
  <2>1. /\ cli[c] \in ClientStates /\ cli[c].safe <= Len(cli[c].journal)
        /\ cli[c].ready \in BOOLEAN
        /\ toCli[c] \in Seq(Messages) /\ toSrv[c] \in Seq(Messages)
        /\ ClientOK(cli[c], toCli[c], toSrv[c], Answered)
        /\ Learns(cli[c].journal, toCli[c])
        /\ Known(cli[c].journal, cli[c].committing, toCli[c], Answered)
        /\ Sent(toSrv[c], Answered) /\ Prepared(cli[c].journal, cli[c].safe, cli[c].prepared)
        /\ ServerReadyOK(cli[c].ready, toCli[c], Live(c)) /\ Live(c) \in BOOLEAN
    BY ClientKnown
  <2>2. CASE c \in D
    <3>. DEFINE q == Agrees(table, c)
    <3>1. Live(c) = FALSE /\ Live(c)' = TRUE
      BY <1>2, <2>2 DEF Live, Serving
    <3>2. toCli'[c] = toCli[c] \o q
      BY <1>2, <2>2
    <3>3. Greeting(q)
      BY <1>1, AgreesIs
    <3>. HIDE DEF q, D
    <3>4. ServerReadyOK(cli[c].ready, toCli[c], FALSE)
      BY <2>1, <3>1
    <3>5. /\ toCli[c] \o q \in Seq(Messages)
          /\ Learns(cli[c].journal, toCli[c] \o q)
          /\ Known(cli[c].journal, cli[c].committing, toCli[c] \o q, Answered)
          /\ ServerReadyOK(cli[c].ready, toCli[c] \o q, TRUE)
      BY <2>1, <3>3, <3>4, GreetingOK
    <3>6. ClientOK(cli[c], toCli[c] \o q, toSrv[c], Answered)
      BY <2>1, <3>5 DEF ClientOK, ClientTypes
    <3>. QED
      BY <3>1, <3>2, <3>5, <3>6
  <2>3. CASE c \notin D
    <3>1. Live(c)' = Live(c)
      BY <1>2, <2>3 DEF Live, Serving
    <3>2. toCli'[c] = toCli[c]
      BY <1>2, <2>3
    <3>. QED
      BY <2>1, <3>1, <3>2
  <2>. QED
    BY <2>2, <2>3
<1>6. /\ cli' = [c \in Clients |-> cli'[c]] /\ toCli' = [c \in Clients |-> toCli'[c]]
      /\ toSrv' = [c \in Clients |-> toSrv'[c]]
  BY <1>2, <1>4
<1>7. removed' \in SUBSET Nat /\ active' \in SUBSET Clients /\ cli' = cli /\ toSrv' = toSrv
  BY <1>1, <1>2
<1>8. \A c \in Clients : /\ ClientOK(cli'[c], toCli'[c], toSrv'[c], Answered')
                         /\ ServerReadyOK(cli'[c].ready, toCli'[c], Live(c)')
  BY <1>3, <1>5, <1>7
<1>. QED
  BY <1>3, <1>6, <1>7, <1>8, Globally

-----------------------------------------------------------------------------
(* The theorems *)

LEMMA TableInit == Init => TableInv
<1>. SUFFICES ASSUME Init
              PROVE  TableInv
  OBVIOUS
<1>1. EmptyTable \in Tables /\ EmptyTable.version = 0
  BY EmptyTableType
<1>2. /\ table = EmptyTable /\ saved = EmptyTable /\ saving = <<>> /\ jrnl = <<>> /\ safe = 0
      /\ active = {} /\ removed = {} /\ cli = [c \in Clients |-> Fresh]
      /\ toSrv = [c \in Clients |-> <<>>] /\ toCli = [c \in Clients |-> <<>>]
  BY DEF Init
<1>3. ServerTypes /\ Growing
  BY <1>1, <1>2 DEF ServerTypes, Growing
<1>4. \A t \in Objects : Leads(t, jrnl, table)
  <2>1. \A t \in Objects : t = EmptyTable
    BY <1>2 DEF Objects, ToSet
  <2>2. Leads(EmptyTable, jrnl, EmptyTable)
    <3>1. jrnl \in Seq(Entries) /\ \A i \in 1 .. Len(jrnl) : jrnl[i].version <= EmptyTable.version
      BY <1>2
    <3>. QED
      BY <1>1, <3>1, LeadsNowhere
  <2>. QED
    BY <1>2, <2>1, <2>2
<1>5. ServerInv /\ Answered = 0
  BY <1>2, <1>3, <1>4 DEF ServerInv, Answered
<1>6. ASSUME NEW c \in Clients
      PROVE  ClientInv(c) /\ Fresh \in ClientStates
  <2>1. ClientOK(Fresh, <<>>, <<>>, 0) /\ Fresh.ready = FALSE
    <3>1. 0 \in Nat
      OBVIOUS
    <3>. QED
      BY <3>1, FreshOK
  <2>2. cli[c] = Fresh /\ toCli[c] = <<>> /\ toSrv[c] = <<>>
    BY <1>2
  <2>3. ServerReadyOK(FALSE, <<>>, Live(c))
    BY ReadyNone
  <2>. QED
    BY <1>5, <2>1, <2>2, <2>3 DEF ClientInv, ClientOK, ClientTypes
<1>7. Shapes
  BY <1>2, <1>6 DEF Shapes
<1>. QED
  BY <1>5, <1>6, <1>7 DEF TableInv

\* Every step keeps the invariant, the failures of the ranks included.
LEMMA TableNext == TableInv /\ [Next]_vars => TableInv'
<1>. SUFFICES ASSUME TableInv, [Next]_vars
              PROVE  TableInv'
  OBVIOUS
<1>1. CASE ServerLogged
  BY <1>1, ServerLoggedStep
<1>2. CASE Save \/ Saved \/ UNCHANGED vars
  BY <1>2, SilentSteps
<1>3. CASE CheckOsdMap
  BY <1>3, CheckStep
<1>4. ASSUME NEW c \in Clients, ServerReceive(c)
      PROVE  TableInv'
  BY <1>4, PrepareStep, CommitStep, RollbackStep DEF ServerReceive
<1>5. ASSUME NEW c \in Clients, ClientReceive(c)
      PROVE  TableInv'
  BY <1>5, AgreeStep, InVainStep, StrayStep, AckStep, ReadyStep DEF ClientReceive
<1>6. ASSUME NEW c \in Clients, Request(c) \/ Kill(c) \/ ClientLogged(c)
      PROVE  TableInv'
  BY <1>6, RequestStep, KillStep, ClientLoggedStep
<1>7. ASSUME NEW c \in Clients, Crash(c) \/ ClientThrows(c) \/ ClientAborts(c)
      PROVE  TableInv'
  <2>1. Fail(c) /\ removed' = removed
    BY <1>7 DEF Crash, ClientThrows, ClientAborts
  <2>. QED
    BY <2>1, FailStep
<1>8. ASSUME NEW c \in Clients, ServerAborts(c)
      PROVE  TableInv'
  <2>1. Fail(0) /\ removed' = removed
    BY <1>8 DEF ServerAborts
  <2>. QED
    BY <2>1, FailStep, RankAssumption
<1>9. ASSUME NEW c \in Clients, Activate(c)
      PROVE  TableInv'
  BY <1>9, ActivateStep
<1>. QED
  BY <1>1, <1>2, <1>3, <1>4, <1>5, <1>6, <1>7, <1>8, <1>9 DEF Next

\* The inductive invariant holds in every state.
THEOREM TableInvariant == Spec => []TableInv
BY TableInit, TableNext, PTL DEF Spec

LEMMA InvRebuilds == TableInv => ReplayRebuilds
<1>. SUFFICES ASSUME TableInv, NEW t \in {saved} \cup ToSet(saving)
              PROVE  /\ Recovered(t, jrnl) = table
                     /\ \A i \in DOMAIN jrnl :
                          LET before == Replayed(t, jrnl)[i - 1].version
                          IN  before < jrnl[i].version => before = jrnl[i].version - 1
  BY DEF ReplayRebuilds
<1>1. Leads(t, jrnl, table) /\ jrnl \in Seq(Entries)
  BY DEF TableInv, ServerInv, ServerTypes, Objects
<1>2. DOMAIN jrnl = 1 .. Len(jrnl)
  BY <1>1
<1>3. Recovered(t, jrnl) = table
  BY <1>1 DEF Leads, Recovered
<1>4. ASSUME NEW i \in DOMAIN jrnl, Replayed(t, jrnl)[i - 1].version < jrnl[i].version
      PROVE  Replayed(t, jrnl)[i - 1].version = jrnl[i].version - 1
  BY <1>1, <1>2, <1>4 DEF Leads, Applies
<1>. QED
  BY <1>3, <1>4

LEMMA InvAssertions == TableInv => AssertionsHold
<1>. SUFFICES ASSUME TableInv, NEW c \in Clients
              PROVE  /\ From(c, "COMMIT") => Head(toSrv[c]).tid <= table.version
                     /\ To(c, "READY") => ~cli[c].ready
                     /\ \A i \in cli[c].safe + 1 .. Len(cli[c].journal) :
                          cli[c].journal[i].op = "UPDATE" =>
                            cli[c].journal[i].tid \in DOMAIN cli[c].prepared
  BY DEF AssertionsHold
<1>1. /\ toCli[c] \in Seq(Messages) /\ toSrv[c] \in Seq(Messages)
      /\ Sent(toSrv[c], Answered) /\ Prepared(cli[c].journal, cli[c].safe, cli[c].prepared)
      /\ ServerReadyOK(cli[c].ready, toCli[c], Live(c))
  BY ClientKnown
<1>2. Answered \in Nat /\ Answered <= table.version /\ table.version \in Nat
  BY AnsweredType DEF TableInv
<1>3. ASSUME From(c, "COMMIT")
      PROVE  Head(toSrv[c]).tid <= table.version
  <2>1. toSrv[c] # <<>> /\ Head(toSrv[c]).op = "COMMIT"
    BY <1>3 DEF From
  <2>2. Head(toSrv[c]) = toSrv[c][1] /\ 1 \in 1 .. Len(toSrv[c]) /\ toSrv[c][1].tid \in Nat
    BY <1>1, <2>1, MessagesOf
  <2>3. toSrv[c][1].tid <= Answered
    BY <1>1, <2>1, <2>2 DEF Sent
  <2>. QED
    BY <1>2, <2>2, <2>3
<1>4. ASSUME To(c, "READY")
      PROVE  ~cli[c].ready
  <2>1. toCli[c] # <<>> /\ Head(toCli[c]).op = "READY"
    BY <1>4 DEF To
  <2>2. Head(toCli[c]) = toCli[c][1] /\ 1 \in 1 .. Len(toCli[c])
    BY <1>1, <2>1, MessagesOf
  <2>. QED
    BY <1>1, <2>1, <2>2 DEF ServerReadyOK
<1>5. \A i \in cli[c].safe + 1 .. Len(cli[c].journal) :
        cli[c].journal[i].op = "UPDATE" => cli[c].journal[i].tid \in DOMAIN cli[c].prepared
  BY <1>1 DEF Prepared
<1>. QED
  BY <1>3, <1>4, <1>5

\* ETableServer::replay rebuilds the table of the server from every table object
\* that it may find, saved at any moment, with no gap in the versions: however
\* many ranks there are, and however often they die.
THEOREM TableReplayRebuilds == Spec => []ReplayRebuilds
BY TableInvariant, InvRebuilds, PTL

\* A COMMIT names a tid that the server has given out and has not lost since,
\* SERVER_READY comes to a client that is not ready, and commit() finds its tid
\* prepared: however many ranks there are, and however often they die.
THEOREM TableAssertionsHold == Spec => []AssertionsHold
BY TableInvariant, InvAssertions, PTL
=============================================================================
