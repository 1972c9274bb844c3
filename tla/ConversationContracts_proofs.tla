-------------------- MODULE ConversationContracts_proofs --------------------
(***************************************************************************)
(* Facts about the operators on conversations, for every conversation.     *)
(***************************************************************************)
EXTENDS ConversationContracts, FiniteSetTheorems, WellFoundedInduction, TLAPS

\* A non-empty set of positions has a largest one.  (Strict inclusion is well
\* founded on finite sets, so there is a smallest upper part of the set: it
\* starts at the maximum.)
LEMMA MaxOfPositions ==
  ASSUME NEW n \in Nat, NEW I \in SUBSET (1..n), I # {}
  PROVE  Max(I) \in I /\ \A y \in I : y <= Max(I)
<1> DEFINE Above(y) == {z \in I : z >= y}
           Uppers == {Above(y) : y \in I}
<1>1. IsFiniteSet(I)
  <2>1. IsFiniteSet(1..n)
    BY FS_Interval
  <2>2. QED
    BY <2>1, FS_Subset
<1>2. Uppers \subseteq FiniteSubsetsOf(I) /\ Uppers # {}
  <2>1. \A U \in Uppers : U \in SUBSET I
    OBVIOUS
  <2>2. FiniteSubsetsOf(I) = SUBSET I
    BY <1>1, FS_FiniteSubsetsOfFinite
  <2>3. PICK x \in I : TRUE
    OBVIOUS
  <2>4. Above(x) \in Uppers
    OBVIOUS
  <2>5. QED
    BY <2>1, <2>2, <2>4
<1>3. PICK U \in Uppers : \A V \in Uppers : ~(<<V, U>> \in StrictSubsetOrdering(I))
  <2>1. IsWellFoundedOn(StrictSubsetOrdering(I), FiniteSubsetsOf(I))
    BY FS_StrictSubsetOrderingWellFounded
  <2> HIDE DEF Uppers
  <2>2. QED
    BY <2>1, <1>2, WFMin
<1>4. PICK y \in I : U = Above(y)
  OBVIOUS
<1>5. \A z \in I : z <= y
  <2>1. SUFFICES ASSUME NEW z \in I, z > y
                 PROVE  FALSE
    OBVIOUS
  <2>2. \A x \in I : x \in Int
    OBVIOUS
  <2>3. \A x \in Above(z) : x \in Above(y)
    BY <2>1, <2>2
  <2>4. y \in Above(y) /\ y \notin Above(z)
    BY <2>1, <2>2
  <2>5. <<Above(z), Above(y)>> \in StrictSubsetOrdering(I)
    BY <2>3, <2>4 DEF StrictSubsetOrdering
  <2>6. QED
    BY <2>5, <1>3, <1>4
<1>6. QED
  BY <1>5 DEF Max

-----------------------------------------------------------------------------
\* The last position that satisfies a test, read as a set of positions.
LEMMA LastPosition ==
  ASSUME NEW n \in Nat, NEW I \in SUBSET (1..n)
  PROVE  LET last == IF I # {} THEN Max(I) ELSE 0
         IN  last \in 0..n /\ \A i \in I : i <= last
<1>1. CASE I = {}
  BY <1>1
<1>2. CASE I # {}
  <2>1. Max(I) \in I /\ \A i \in I : i <= Max(I)
    BY <1>2, MaxOfPositions
  <2>2. Max(I) \in 1..n
    BY <2>1
  <2>3. QED
    BY <1>2, <2>1, <2>2
<1>3. QED
  BY <1>1, <1>2

LEMMA LastSystemPosition ==
  ASSUME NEW S, NEW v \in Seq(S)
  PROVE  SelectLastInSeq(v, LAMBDA m : m.kind = "system") \in 0..Len(v)
<1> DEFINE I == {i \in 1..Len(v) : v[i].kind = "system"}
<1>1. SelectLastInSeq(v, LAMBDA m : m.kind = "system") = IF I # {} THEN Max(I) ELSE 0
  BY DEF SelectLastInSeq
<1>2. Len(v) \in Nat /\ I \in SUBSET (1..Len(v))
  OBVIOUS
<1> HIDE DEF I
<1>3. QED
  BY <1>1, <1>2, LastPosition

\* A rollback only shortens the conversation, and keeps its messages.
LEMMA RollbackLastType ==
  ASSUME NEW S, NEW v \in Seq(S), NEW count \in Nat
  PROVE  RollbackLast(v, count) \in Seq(S)
<1> DEFINE lastSystem == SelectLastInSeq(v, LAMBDA m : m.kind = "system")
           kept == Len(v) - count
           end == IF kept > lastSystem THEN kept ELSE lastSystem
<1>1. lastSystem \in 0..Len(v)
  BY LastSystemPosition
<1>2. RollbackLast(v, count) = SubSeq(v, 1, end)
  BY DEF RollbackLast
<1> HIDE DEF lastSystem
<1>3. end \in 0..Len(v)
  BY <1>1
<1> HIDE DEF end
<1>4. QED
  BY <1>2, <1>3

-----------------------------------------------------------------------------
(***************************************************************************)
(* Replay, of which the equations are proved from its recursive function:  *)
(* the function exists, and is determined by the entries it goes through.  *)
(***************************************************************************)
LEMMA LeastOf ==
  ASSUME NEW S \in SUBSET Nat, S # {}
  PROVE  \E k \in S : \A m \in S : k <= m
<1>1. IsWellFoundedOn(OpToRel(<, Nat), Nat)
  BY NatLessThanWellFounded
<1>2. PICK k \in S : \A m \in S : ~(<<m, k>> \in OpToRel(<, Nat))
  BY <1>1, WFMin
<1>3. ASSUME NEW m \in S
      PROVE  k <= m
  <2>1. m \in Nat /\ k \in Nat /\ ~(m < k)
    BY <1>2 DEF OpToRel
  <2>2. QED
    BY <2>1
<1>4. QED
  BY <1>3

\* f tells what is in sight after each of the first n entries.
Replayed(v, s, f, n) == f = [i \in 0..n |-> IF i = 0 THEN v ELSE ReplayEntry(f[i - 1], s[i])]

LEMMA ReplayedOnce ==
  ASSUME NEW v, NEW s, NEW k \in Nat, NEW f, Replayed(v, s, f, k)
  PROVE  \E g : Replayed(v, s, g, k + 1)
<1> DEFINE g == [i \in 0..(k + 1) |-> IF i = 0 THEN v ELSE ReplayEntry(f[i - 1], s[i])]
<1>1. \A i \in 0..k : f[i] = IF i = 0 THEN v ELSE ReplayEntry(f[i - 1], s[i])
  BY DEF Replayed
<1>2. \A i \in 0..k : i \in 0..(k + 1) /\ g[i] = f[i]
  BY <1>1
<1>3. \A i \in 0..(k + 1) : i # 0 => i - 1 \in 0..k
  OBVIOUS
<1>4. \A i \in 0..(k + 1) : i # 0 => g[i - 1] = f[i - 1]
  BY <1>2, <1>3
<1>5. g = [i \in 0..(k + 1) |-> IF i = 0 THEN v ELSE ReplayEntry(g[i - 1], s[i])]
  BY <1>4
<1>6. QED
  BY <1>5 DEF Replayed

LEMMA ReplayedExists ==
  ASSUME NEW v, NEW s, NEW n \in Nat
  PROVE  \E f : Replayed(v, s, f, n)
<1> DEFINE missing == {m \in Nat : ~\E f : Replayed(v, s, f, m)}
<1>1. missing # {} => \E k \in missing : \A m \in missing : k <= m
  <2>1. missing \in SUBSET Nat
    OBVIOUS
  <2> HIDE DEF missing
  <2>2. QED
    BY <2>1, LeastOf
<1>2. 0 \notin missing
  <2>1. Replayed(v, s, [i \in 0..0 |-> v], 0)
    BY DEF Replayed
  <2>2. QED
    BY <2>1
<1>3. ASSUME NEW k \in missing, \A m \in missing : k <= m
      PROVE  FALSE
  <2>1. k # 0 /\ k - 1 \in Nat /\ k = (k - 1) + 1
    BY <1>2
  <2>2. k - 1 \notin missing
    <3>1. ~(k <= k - 1)
      BY <2>1
    <3> HIDE DEF missing
    <3>2. QED
      BY <1>3, <3>1
  <2>3. PICK f : Replayed(v, s, f, k - 1)
    BY <2>1, <2>2
  <2>4. \E g : Replayed(v, s, g, k)
    BY <2>1, <2>3, ReplayedOnce
  <2>5. QED
    BY <2>4
<1>4. n \notin missing
  BY <1>1, <1>3
<1>5. QED
  BY <1>4

\* Entries that are the same show the same.
LEMMA ReplayedAlike ==
  ASSUME NEW v, NEW s, NEW t, NEW f, NEW g, NEW n \in Nat, NEW m \in Nat, NEW k \in Nat,
         k <= n, k <= m, Replayed(v, s, f, n), Replayed(v, t, g, m), \A i \in 1..k : s[i] = t[i]
  PROVE  f[k] = g[k]
<1> DEFINE apart == {i \in Nat : i <= k /\ f[i] # g[i]}
<1>1. apart # {} => \E j \in apart : \A i \in apart : j <= i
  <2>1. apart \in SUBSET Nat
    OBVIOUS
  <2> HIDE DEF apart
  <2>2. QED
    BY <2>1, LeastOf
<1>2. \A i \in 0..k : f[i] = IF i = 0 THEN v ELSE ReplayEntry(f[i - 1], s[i])
  BY DEF Replayed
<1>3. \A i \in 0..k : g[i] = IF i = 0 THEN v ELSE ReplayEntry(g[i - 1], t[i])
  BY DEF Replayed
<1>4. ASSUME NEW j \in apart, \A i \in apart : j <= i
      PROVE  FALSE
  <2>1. j \in 0..k /\ f[j] # g[j] /\ j \in Nat
    OBVIOUS
  <2>2. j # 0
    BY <1>2, <1>3, <2>1
  <2>3. j - 1 \in Nat /\ j - 1 <= k /\ ~(j <= j - 1) /\ j \in 1..k
    BY <2>1, <2>2
  <2>4. j - 1 \notin apart
    <3> HIDE DEF apart
    <3>1. QED
      BY <1>4, <2>3
  <2>5. f[j - 1] = g[j - 1] /\ s[j] = t[j]
    BY <2>3, <2>4
  <2>6. QED
    BY <1>2, <1>3, <2>1, <2>2, <2>5
<1>5. QED
  BY <1>1, <1>4

LEMMA ReplaySeen ==
  ASSUME NEW v, NEW s, Len(s) \in Nat
  PROVE  \E f : Replayed(v, s, f, Len(s)) /\ Replay(v, s) = f[Len(s)]
<1> DEFINE f == CHOOSE f : Replayed(v, s, f, Len(s))
<1>1. Replayed(v, s, f, Len(s))
  BY ReplayedExists
<1>2. Replay(v, s) = f[Len(s)]
  BY DEF Replay, Replayed
<1>3. QED
  BY <1>1, <1>2

LEMMA ReplayNothing ==
  ASSUME NEW v
  PROVE  Replay(v, << >>) = v
<1>1. PICK f : Replayed(v, << >>, f, 0) /\ Replay(v, << >>) = f[0]
  BY ReplaySeen
<1>2. f[0] = v
  BY <1>1 DEF Replayed
<1>3. QED
  BY <1>1, <1>2

\* One more entry is replayed into what the others left in sight.
LEMMA ReplayOneMore ==
  ASSUME NEW S, NEW v, NEW s \in Seq(S), NEW e
  PROVE  Replay(v, Append(s, e)) = ReplayEntry(Replay(v, s), e)
<1> DEFINE t == Append(s, e)
<1>1. PICK n \in Nat : n = Len(s)
  OBVIOUS
<1>2. Len(t) = n + 1 /\ t[n + 1] = e /\ \A i \in 1..n : s[i] = t[i]
  BY <1>1
<1> HIDE DEF t
<1>3. PICK f : Replayed(v, s, f, n) /\ Replay(v, s) = f[n]
  BY <1>1, ReplaySeen
<1>4. PICK g : Replayed(v, t, g, n + 1) /\ Replay(v, t) = g[n + 1]
  BY <1>1, <1>2, ReplaySeen
<1>5. f[n] = g[n]
  BY <1>2, <1>3, <1>4, ReplayedAlike
<1>6. g[n + 1] = ReplayEntry(g[n], t[n + 1])
  BY <1>4 DEF Replayed
<1>7. QED
  BY <1>2, <1>3, <1>4, <1>5, <1>6 DEF t

\* A prefix of a sequence, and the next one.
LEMMA OneLonger ==
  ASSUME NEW M, NEW u \in Seq(M), NEW k \in 1..Len(u)
  PROVE  /\ SubSeq(u, 1, k - 1) \in Seq(M)
         /\ u[k] \in M
         /\ SubSeq(u, 1, k) = Append(SubSeq(u, 1, k - 1), u[k])
<1>1. PICK n \in Nat : n = Len(u)
  OBVIOUS
<1>2. k \in 1..n
  BY <1>1
<1>3. k - 1 \in 0..n /\ k \in 0..n
  BY <1>2
<1>4. SubSeq(u, 1, k - 1) \in Seq(M) /\ Len(SubSeq(u, 1, k - 1)) = k - 1
  BY <1>1, <1>3
<1>5. PICK part \in Seq(M) : part = SubSeq(u, 1, k - 1)
  BY <1>4
<1>6. \A i \in 1..(k - 1) : part[i] = u[i]
  BY <1>1, <1>3, <1>5
<1>7. SubSeq(u, 1, k) \in Seq(M) /\ Len(SubSeq(u, 1, k)) = k
  BY <1>1, <1>3
<1>8. \A i \in 1..k : SubSeq(u, 1, k)[i] = u[i]
  BY <1>1, <1>3
<1>9. u[k] \in M
  BY <1>1, <1>2
<1>10. Append(part, u[k]) \in Seq(M) /\ Len(Append(part, u[k])) = k
  BY <1>4, <1>5, <1>9
<1>11. \A i \in 1..k : Append(part, u[k])[i] = u[i]
  BY <1>4, <1>5, <1>6
<1>12. SubSeq(u, 1, k) = Append(part, u[k])
  <2>1. PICK a \in Seq(M) : a = SubSeq(u, 1, k)
    BY <1>7
  <2>2. PICK b \in Seq(M) : b = Append(part, u[k])
    BY <1>10
  <2>3. Len(a) = k /\ Len(b) = k /\ \A i \in 1..k : a[i] = b[i]
    BY <1>7, <1>8, <1>10, <1>11, <2>1, <2>2
  <2>4. a = b
    BY <2>3
  <2>5. QED
    BY <2>1, <2>2, <2>4
<1>13. QED
  BY <1>4, <1>5, <1>9, <1>12

=============================================================================
