----------------------------- MODULE QueueLemmas -----------------------------
(***************************************************************************)
(* The calls a page waits for are a sequence in the order of their issue:  *)
(* a call is appended, is updated in its place, and is removed with its    *)
(* answer.  What these do to the sequence, for the proofs about the pages. *)
(***************************************************************************)
EXTENDS Integers, SequencesExt, SequenceTheorems, WellFoundedInduction, TLAPS

\* Where the element at j of a sequence is after the one at i was removed, ...
After(i, j) == IF j < i THEN j ELSE j - 1
\* ... and where the element at k was before.
Before(i, k) == IF k < i THEN k ELSE k + 1

\* RemoveAt drops one element and moves those after it by one.
LEMMA RemoveAtProperties ==
    ASSUME NEW S, NEW s \in Seq(S), NEW i \in DOMAIN s
    PROVE  /\ RemoveAt(s, i) \in Seq(S)
           /\ Len(RemoveAt(s, i)) = Len(s) - 1
           /\ DOMAIN RemoveAt(s, i) = 1..Len(s) - 1
           /\ \A k \in DOMAIN RemoveAt(s, i) :
                 /\ RemoveAt(s, i)[k] = s[Before(i, k)]
                 /\ Before(i, k) \in DOMAIN s \ {i} /\ After(i, Before(i, k)) = k
           /\ \A j \in DOMAIN s \ {i} :
                 /\ After(i, j) \in DOMAIN RemoveAt(s, i)
                 /\ RemoveAt(s, i)[After(i, j)] = s[j]
<1> DEFINE l == SubSeq(s, 1, i - 1)
           r == SubSeq(s, i + 1, Len(s))
<1>1. Len(s) \in Nat /\ i \in 1..Len(s) /\ DOMAIN s = 1..Len(s)
  OBVIOUS
<1>2. \A k \in 1..Len(s) : s[k] \in S
  BY ElementOfSeq
<1>3. l \in Seq(S) /\ Len(l) = i - 1 /\ \A k \in 1..i - 1 : l[k] = s[k]
  <2>1. \A k \in 1..i - 1 : s[k] \in S
    BY <1>1, <1>2
  <2>2. l \in Seq(S) /\ Len(l) = IF 1 <= i - 1 THEN i - 1 - 1 + 1 ELSE 0
    BY <2>1, <1>1, SubSeqProperties
  <2>3. \A k \in 1..i - 1 - 1 + 1 : l[k] = s[1 + k - 1]
    BY <2>1, <1>1, SubSeqProperties
  <2>4. QED
    BY <2>2, <2>3, <1>1
<1>4. r \in Seq(S) /\ Len(r) = Len(s) - i /\ \A k \in 1..Len(s) - i : r[k] = s[i + k]
  <2>1. \A k \in i + 1..Len(s) : s[k] \in S
    BY <1>1, <1>2
  <2>2. r \in Seq(S) /\ Len(r) = IF i + 1 <= Len(s) THEN Len(s) - (i + 1) + 1 ELSE 0
    BY <2>1, <1>1, SubSeqProperties
  <2>3. \A k \in 1..Len(s) - (i + 1) + 1 : r[k] = s[i + 1 + k - 1]
    BY <2>1, <1>1, SubSeqProperties
  <2> HIDE DEF r
  <2>4. Len(r) = Len(s) - i
    BY <2>2, <1>1
  <2>5. \A k \in 1..Len(s) - i : k \in 1..Len(s) - (i + 1) + 1 /\ i + 1 + k - 1 = i + k
    BY <1>1
  <2>6. QED
    BY <2>2, <2>3, <2>4, <2>5
<1>5. RemoveAt(s, i) = l \o r
  BY DEF RemoveAt
<1> HIDE DEF l, r
<1>6. /\ l \o r \in Seq(S) /\ Len(l \o r) = Len(l) + Len(r)
      /\ \A k \in 1..Len(l) + Len(r) : (l \o r)[k] = IF k <= Len(l) THEN l[k] ELSE r[k - Len(l)]
  BY <1>3, <1>4, ConcatProperties
<1>7. Len(l) + Len(r) = Len(s) - 1
  BY <1>1, <1>3, <1>4
<1>8. /\ RemoveAt(s, i) \in Seq(S) /\ Len(RemoveAt(s, i)) = Len(s) - 1
      /\ DOMAIN RemoveAt(s, i) = 1..Len(s) - 1
  <2>1. RemoveAt(s, i) \in Seq(S) /\ Len(RemoveAt(s, i)) = Len(s) - 1
    BY <1>5, <1>6, <1>7
  <2>2. QED
    BY <2>1, LenProperties
<1>9. ASSUME NEW k \in 1..Len(s) - 1 PROVE RemoveAt(s, i)[k] = s[Before(i, k)]
  <2>1. RemoveAt(s, i)[k] = IF k <= Len(l) THEN l[k] ELSE r[k - Len(l)]
    BY <1>5, <1>6, <1>7
  <2>2. CASE k < i
    BY <2>1, <2>2, <1>1, <1>3 DEF Before
  <2>3. CASE ~(k < i)
    <3>1. ~(k <= Len(l)) /\ k - Len(l) \in 1..Len(s) - i /\ i + (k - Len(l)) = k + 1
      BY <2>3, <1>1, <1>3
    <3>2. r[k - Len(l)] = s[k + 1]
      BY <3>1, <1>4
    <3>3. QED
      BY <2>1, <2>3, <3>1, <3>2 DEF Before
  <2>4. QED
    BY <2>2, <2>3
<1>10. \A k \in 1..Len(s) - 1 : Before(i, k) \in 1..Len(s) \ {i} /\ After(i, Before(i, k)) = k
  BY <1>1 DEF Before, After
<1>11. \A j \in 1..Len(s) \ {i} : After(i, j) \in 1..Len(s) - 1 /\ Before(i, After(i, j)) = j
  BY <1>1 DEF Before, After
<1>12. QED
  BY <1>1, <1>8, <1>9, <1>10, <1>11

\* Append adds one element at the end.
LEMMA AppendAtEnd ==
    ASSUME NEW S, NEW s \in Seq(S), NEW e \in S
    PROVE  /\ Append(s, e) \in Seq(S)
           /\ Len(Append(s, e)) = Len(s) + 1
           /\ DOMAIN Append(s, e) = DOMAIN s \cup {Len(s) + 1}
           /\ Append(s, e)[Len(s) + 1] = e
           /\ \A j \in DOMAIN s : Append(s, e)[j] = s[j] /\ j < Len(s) + 1
<1>1. Len(s) \in Nat /\ DOMAIN s = 1..Len(s)
  OBVIOUS
<1>2. /\ Append(s, e) \in Seq(S) /\ Len(Append(s, e)) = Len(s) + 1
      /\ \A j \in 1..Len(s) : Append(s, e)[j] = s[j]
      /\ Append(s, e)[Len(s) + 1] = e
  BY AppendProperties
<1>3. DOMAIN Append(s, e) = 1..Len(s) + 1
  BY <1>1, <1>2
<1>4. QED
  BY <1>1, <1>2, <1>3

\* Where the elements that are left were before one was taken out, in their order.
Left(r, s, i, f) ==
    /\ f \in [DOMAIN r -> DOMAIN s \ {i}]
    /\ \A k \in DOMAIN r : r[k] = s[f[k]]
    /\ \A k, l \in DOMAIN r : (k < l <=> f[k] < f[l]) /\ (f[k] = f[l] => k = l)
    /\ \A j \in DOMAIN s \ {i} : \E k \in DOMAIN r : f[k] = j

LEMMA RemoveAtLeaves ==
    ASSUME NEW S, NEW s \in Seq(S), NEW i \in DOMAIN s
    PROVE  \E f : Left(RemoveAt(s, i), s, i, f)
<1> DEFINE g == [k \in DOMAIN RemoveAt(s, i) |-> Before(i, k)]
<1>1. /\ DOMAIN s = 1..Len(s) /\ Len(s) \in Nat /\ DOMAIN RemoveAt(s, i) = 1..Len(s) - 1
      /\ \A k \in DOMAIN RemoveAt(s, i) :
            RemoveAt(s, i)[k] = s[Before(i, k)] /\ Before(i, k) \in DOMAIN s \ {i}
  BY RemoveAtProperties
<1>2. g \in [DOMAIN RemoveAt(s, i) -> DOMAIN s \ {i}]
  BY <1>1
<1>3. \A k, l \in 1..Len(s) - 1 :
         (k < l <=> Before(i, k) < Before(i, l)) /\ (Before(i, k) = Before(i, l) => k = l)
  BY <1>1 DEF Before
<1>4. \A j \in 1..Len(s) \ {i} : After(i, j) \in 1..Len(s) - 1 /\ Before(i, After(i, j)) = j
  BY <1>1 DEF Before, After
<1>5. \A k \in DOMAIN RemoveAt(s, i) : g[k] = Before(i, k)
  OBVIOUS
<1> HIDE DEF g
<1>6. \A k \in DOMAIN RemoveAt(s, i) : RemoveAt(s, i)[k] = s[g[k]]
  BY <1>1, <1>5
<1>7. \A k, l \in DOMAIN RemoveAt(s, i) : (k < l <=> g[k] < g[l]) /\ (g[k] = g[l] => k = l)
  BY <1>1, <1>3, <1>5
<1>8. \A j \in DOMAIN s \ {i} : \E k \in DOMAIN RemoveAt(s, i) : g[k] = j
  <2> SUFFICES ASSUME NEW j \in DOMAIN s \ {i}
               PROVE  \E k \in DOMAIN RemoveAt(s, i) : g[k] = j
    OBVIOUS
  <2>1. After(i, j) \in DOMAIN RemoveAt(s, i) /\ g[After(i, j)] = j
    BY <1>1, <1>4, <1>5
  <2>2. QED
    BY <2>1
<1>9. Left(RemoveAt(s, i), s, i, g)
  BY <1>2, <1>6, <1>7, <1>8, Zenon DEF Left
<1>10. QED
  BY <1>9

\* A set of naturals has a least element; below a bound it has a greatest one as well.
LEMMA HasLeast ==
    ASSUME NEW T, T \subseteq Nat, T # {}
    PROVE  \E x \in T : \A y \in T : x <= y
<1>1. PICK R : R = OpToRel(<, Nat)
  OBVIOUS
<1>2. IsWellFoundedOn(R, Nat)
  BY <1>1, NatLessThanWellFounded
<1>3. \A x, y \in Nat : x < y => <<x, y>> \in R
  BY <1>1 DEF OpToRel
<1>4. PICK x \in T : \A y \in T : ~(<<y, x>> \in R)
  BY <1>2, WFMin
<1>5. ASSUME NEW y \in T PROVE x <= y
  <2>1. x \in Nat /\ y \in Nat /\ ~(y < x)
    BY <1>3, <1>4
  <2>2. QED
    BY <2>1
<1>6. QED
  BY <1>5

LEMMA HasGreatest ==
    ASSUME NEW n \in Nat, NEW T, T \subseteq 0..n, T # {}
    PROVE  \E x \in T : \A y \in T : y <= x
<1>1. PICK U : U = {n - y : y \in T}
  OBVIOUS
<1>2. U \subseteq Nat /\ U # {}
  <2>1. \A y \in T : n - y \in Nat
    OBVIOUS
  <2>2. QED
    BY <1>1, <2>1
<1>3. PICK u \in U : \A v \in U : u <= v
  BY <1>2, HasLeast
<1>4. PICK x \in T : u = n - x
  BY <1>1, <1>3
<1>5. ASSUME NEW y \in T PROVE y <= x
  <2>1. n - y \in U
    BY <1>1
  <2>2. n - x <= n - y
    BY <1>3, <1>4, <2>1
  <2>3. QED
    BY <2>2
<1>6. QED
  BY <1>5

===============================================================================
