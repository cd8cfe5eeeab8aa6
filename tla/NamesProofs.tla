---------------------------- MODULE NamesProofs ----------------------------
(***************************************************************************)
(* The form that names, e-mail addresses and lists of hosts are brought    *)
(* into, and how a host is divided (DomainNames), for texts of any length  *)
(* and any list of public suffixes.                                        *)
(***************************************************************************)
EXTENDS ToolsProofs, DomainNames

\* A part of a text.
LEMMA PartOf ==
  ASSUME NEW S, NEW t \in Seq(S), NEW lo \in Nat \ {0}, NEW hi \in Nat, hi <= Len(t), lo <= hi + 1
  PROVE  /\ SubSeq(t, lo, hi) \in Seq(S) /\ Len(SubSeq(t, lo, hi)) = hi - lo + 1
         /\ DOMAIN SubSeq(t, lo, hi) = 1..(hi - lo + 1)
         /\ \A i \in 1..(hi - lo + 1) : SubSeq(t, lo, hi)[i] = t[lo + i - 1]
<1>1. Len(t) \in Nat /\ DOMAIN t = 1..Len(t) /\ \A i \in 1..Len(t) : t[i] \in S
  OBVIOUS
<1>2. SubSeq(t, lo, hi) = [i \in 1..(hi - lo + 1) |-> t[lo + i - 1]]
  OBVIOUS
<1>3. \A i \in 1..(hi - lo + 1) : t[lo + i - 1] \in S
  BY <1>1
<1>4. QED
  BY <1>2, <1>3

\* Two texts are the same if they have the same characters.
LEMMA SameText ==
  ASSUME NEW S, NEW s \in Seq(S), NEW t \in Seq(S), Len(s) = Len(t), \A i \in 1..Len(s) : s[i] = t[i]
  PROVE  s = t
<1>1. s = [i \in 1..Len(s) |-> s[i]] /\ t = [i \in 1..Len(t) |-> t[i]]
  OBVIOUS
<1>2. QED
  BY <1>1

\* A part of a part.
LEMMA PartOfPart ==
  ASSUME NEW S, NEW t \in Seq(S), NEW lo \in Nat \ {0}, NEW hi \in Nat, hi <= Len(t), lo <= hi + 1,
         NEW a \in Nat \ {0}, NEW b \in Nat, b <= hi - lo + 1, a <= b + 1
  PROVE  SubSeq(SubSeq(t, lo, hi), a, b) = SubSeq(t, lo + a - 1, lo + b - 1)
<1>1. PICK s : s = SubSeq(t, lo, hi)
  OBVIOUS
<1>2. s \in Seq(S) /\ Len(s) = hi - lo + 1 /\ \A i \in 1..(hi - lo + 1) : s[i] = t[lo + i - 1]
  BY <1>1, PartOf
<1>3. PICK p : p = SubSeq(s, a, b)
  OBVIOUS
<1>4. p \in Seq(S) /\ Len(p) = b - a + 1 /\ \A i \in 1..(b - a + 1) : p[i] = s[a + i - 1]
  BY <1>2, <1>3, PartOf
<1>5. PICK q : q = SubSeq(t, lo + a - 1, lo + b - 1)
  OBVIOUS
<1>6. q \in Seq(S) /\ Len(q) = b - a + 1 /\ \A i \in 1..(b - a + 1) : q[i] = t[lo + a - 1 + i - 1]
  <2>1. PICK c \in Nat \ {0}, d \in Nat : c = lo + a - 1 /\ d = lo + b - 1
    OBVIOUS
  <2>2. d <= Len(t) /\ c <= d + 1 /\ d - c + 1 = b - a + 1
    BY <2>1
  <2>3. q = SubSeq(t, c, d)
    BY <1>5, <2>1
  <2>4. q \in Seq(S) /\ Len(q) = d - c + 1 /\ \A i \in 1..(d - c + 1) : q[i] = t[c + i - 1]
    BY <2>2, <2>3, PartOf
  <2>5. QED
    BY <2>1, <2>2, <2>4
<1>7. \A i \in 1..(b - a + 1) : p[i] = q[i]
  <2>1. SUFFICES ASSUME NEW i \in 1..(b - a + 1) PROVE p[i] = q[i]
    OBVIOUS
  <2>2. a + i - 1 \in 1..(hi - lo + 1)
    OBVIOUS
  <2>3. p[i] = t[lo + (a + i - 1) - 1]
    BY <1>2, <1>4, <2>2
  <2>4. lo + (a + i - 1) - 1 = lo + a - 1 + i - 1
    OBVIOUS
  <2>5. QED
    BY <1>6, <2>3, <2>4
<1>8. p = q
  BY <1>4, <1>6, <1>7, SameText
<1>9. QED
  BY <1>1, <1>3, <1>5, <1>8

\* Two parts with a character between them.
LEMMA Glued ==
  ASSUME NEW S, NEW t \in Seq(S), NEW lo \in Nat \ {0}, NEW mid \in Nat, NEW hi \in Nat,
         lo <= mid, mid <= hi, hi <= Len(t)
  PROVE  SubSeq(t, lo, mid - 1) \o (<<t[mid]>> \o SubSeq(t, mid + 1, hi)) = SubSeq(t, lo, hi)
<1>1. PICK p : p = SubSeq(t, lo, mid - 1)
  OBVIOUS
<1>2. p \in Seq(S) /\ Len(p) = mid - lo /\ \A i \in 1..(mid - lo) : p[i] = t[lo + i - 1]
  <2>1. PICK m \in Nat : m = mid - 1
    OBVIOUS
  <2>2. p = SubSeq(t, lo, m) /\ m <= Len(t) /\ lo <= m + 1 /\ m - lo + 1 = mid - lo
    BY <1>1, <2>1
  <2>3. p \in Seq(S) /\ Len(p) = m - lo + 1 /\ \A i \in 1..(m - lo + 1) : p[i] = t[lo + i - 1]
    BY <2>2, PartOf
  <2>4. QED
    BY <2>2, <2>3
<1>3. PICK q : q = SubSeq(t, mid + 1, hi)
  OBVIOUS
<1>4. q \in Seq(S) /\ Len(q) = hi - mid /\ \A i \in 1..(hi - mid) : q[i] = t[mid + i]
  <2>1. PICK m \in Nat \ {0} : m = mid + 1
    OBVIOUS
  <2>2. q = SubSeq(t, m, hi) /\ m <= hi + 1 /\ hi - m + 1 = hi - mid
    BY <1>3, <2>1
  <2>3. q \in Seq(S) /\ Len(q) = hi - m + 1 /\ \A i \in 1..(hi - m + 1) : q[i] = t[m + i - 1]
    BY <2>2, PartOf
  <2>4. \A i \in 1..(hi - mid) : m + i - 1 = mid + i
    BY <2>1
  <2>5. QED
    BY <2>2, <2>3, <2>4
<1>5. t[mid] \in S /\ mid \in 1..Len(t)
  OBVIOUS
<1>6. PICK r : r = <<t[mid]>> \o q
  OBVIOUS
<1>7. r \in Seq(S) /\ Len(r) = hi - mid + 1 /\ \A i \in 1..(hi - mid + 1) : r[i] = t[mid + i - 1]
  <2>1. r \in Seq(S) /\ Len(r) = hi - mid + 1
    BY <1>4, <1>5, <1>6
  <2>2. r[1] = t[mid] /\ \A i \in 1..(hi - mid) : r[i + 1] = q[i]
    BY <1>4, <1>5, <1>6
  <2>3. SUFFICES ASSUME NEW i \in 1..(hi - mid + 1) PROVE r[i] = t[mid + i - 1]
    BY <2>1
  <2>4. CASE i = 1
    BY <2>2, <2>4
  <2>5. CASE i # 1
    <3>1. PICK j \in 1..(hi - mid) : j = i - 1
      BY <2>5
    <3>2. r[j + 1] = q[j]
      BY <2>2, <3>1
    <3>3. q[j] = t[mid + j]
      BY <1>4, <3>1
    <3>4. j + 1 = i /\ mid + j = mid + i - 1
      BY <3>1
    <3>5. QED
      BY <3>2, <3>3, <3>4
  <2>6. QED
    BY <2>4, <2>5
<1>8. PICK u : u = p \o r
  OBVIOUS
<1>9. u \in Seq(S) /\ Len(u) = hi - lo + 1 /\ \A i \in 1..(hi - lo + 1) : u[i] = t[lo + i - 1]
  <2>1. u \in Seq(S) /\ Len(u) = hi - lo + 1
    BY <1>2, <1>7, <1>8
  <2>2. /\ \A i \in 1..(mid - lo) : u[i] = p[i]
        /\ \A i \in 1..(hi - mid + 1) : u[mid - lo + i] = r[i]
    <3>1. \A i \in 1..Len(p) : u[i] = p[i]
      BY <1>2, <1>7, <1>8
    <3>2. \A i \in 1..Len(r) : u[Len(p) + i] = r[i]
      <4>1. PICK P \in Nat, R \in Nat : P = Len(p) /\ R = Len(r)
        BY <1>2, <1>7
      <4>2. \A i \in 1..P + R : u[i] = IF i <= P THEN p[i] ELSE r[i - P]
        BY <1>2, <1>7, <1>8, <4>1, ConcatProperties
      <4>3. SUFFICES ASSUME NEW i \in 1..R PROVE u[P + i] = r[i]
        BY <4>1
      <4>4. P + i \in 1..P + R /\ ~(P + i <= P) /\ P + i - P = i
        OBVIOUS
      <4>5. QED
        BY <4>2, <4>4
    <3>3. Len(p) = mid - lo /\ Len(r) = hi - mid + 1
      BY <1>2, <1>7
    <3>4. QED
      BY <3>1, <3>2, <3>3
  <2>3. SUFFICES ASSUME NEW i \in 1..(hi - lo + 1) PROVE u[i] = t[lo + i - 1]
    BY <2>1
  <2>4. CASE i <= mid - lo
    <3>1. i \in 1..(mid - lo)
      BY <2>4
    <3>2. u[i] = p[i]
      BY <2>2, <3>1
    <3>3. p[i] = t[lo + i - 1]
      BY <1>2, <3>1
    <3>4. QED
      BY <3>2, <3>3
  <2>5. CASE i > mid - lo
    <3>1. PICK j \in 1..(hi - mid + 1) : j = i - (mid - lo)
      BY <2>5
    <3>2. u[mid - lo + j] = r[j]
      BY <2>2, <3>1
    <3>3. r[j] = t[mid + j - 1]
      BY <1>7, <3>1
    <3>4. mid - lo + j = i /\ mid + j - 1 = lo + i - 1
      BY <3>1
    <3>5. QED
      BY <3>2, <3>3, <3>4
  <2>6. QED
    BY <2>4, <2>5
<1>10. PICK v : v = SubSeq(t, lo, hi)
  OBVIOUS
<1>11. v \in Seq(S) /\ Len(v) = hi - lo + 1 /\ \A i \in 1..(hi - lo + 1) : v[i] = t[lo + i - 1]
  BY <1>10, PartOf
<1>12. u = v
  BY <1>9, <1>11, SameText
<1>13. QED
  BY <1>1, <1>3, <1>6, <1>8, <1>10, <1>12

\* Where a text is cut: before it, at every c, and after it.
Cuts(t, c) == {i \in DOMAIN t : t[i] = c} \cup {0, Len(t) + 1}

\* The cuts in their order.
LEMMA CutsAre ==
  ASSUME NEW S, NEW t \in Seq(S), NEW c
  PROVE  \E K \in Nat : /\ K >= 2 /\ Len(Ascending(Cuts(t, c))) = K /\ DOMAIN Ascending(Cuts(t, c)) = 1..K
                        /\ \A k \in 1..K : Ascending(Cuts(t, c))[k] \in 0..Len(t) + 1
                        /\ Ascending(Cuts(t, c))[1] = 0 /\ Ascending(Cuts(t, c))[K] = Len(t) + 1
                        /\ \A k, l \in 1..K : k < l => Ascending(Cuts(t, c))[k] < Ascending(Cuts(t, c))[l]
                        /\ \A k \in 1..K : k # 1 /\ k # K =>
                             Ascending(Cuts(t, c))[k] \in 1..Len(t) /\ t[Ascending(Cuts(t, c))[k]] = c
                        /\ \A i \in Cuts(t, c) : \E k \in 1..K : Ascending(Cuts(t, c))[k] = i
<1>1. PICK C : C = Cuts(t, c)
  OBVIOUS
<1>2. Len(t) \in Nat /\ DOMAIN t = 1..Len(t)
  OBVIOUS
<1>3. C = {i \in 1..Len(t) : t[i] = c} \cup {0, Len(t) + 1}
  BY <1>1, <1>2, Zenon DEF Cuts
<1>4. C \in SUBSET (0..Len(t) + 1) /\ 0 \in C /\ Len(t) + 1 \in C /\ \A i \in C : i = 0 \/ i = Len(t) + 1 \/ (i \in 1..Len(t) /\ t[i] = c)
  BY <1>2, <1>3
<1>5. C \in SUBSET Int /\ IsFiniteSet(C)
  <2>1. IsFiniteSet(0..Len(t) + 1)
    BY <1>2, FS_Interval
  <2>2. IsFiniteSet(C)
    BY <1>4, <2>1, FS_Subset
  <2>3. C \in SUBSET Int
    BY <1>2, <1>4
  <2>4. QED
    BY <2>2, <2>3
<1>6. PICK a : a = Ascending(C)
  OBVIOUS
<1>7. PICK K \in Nat : K = Cardinality(C)
  BY <1>5, AscendingListed
<1>8. /\ a \in Seq(C) /\ Len(a) = K /\ DOMAIN a = 1..K
      /\ {a[n] : n \in DOMAIN a} = C
      /\ \A m, n \in DOMAIN a : m < n => a[m] < a[n]
  BY <1>5, <1>6, <1>7, AscendingListed
<1>9. \A k \in 1..K : a[k] \in C /\ a[k] \in Int
  BY <1>5, <1>8
<1>10. \A i \in C : \E k \in 1..K : a[k] = i
  BY <1>8
<1>11. PICK first \in 1..K, last \in 1..K : a[first] = 0 /\ a[last] = Len(t) + 1
  BY <1>4, <1>10
<1>12. first < last
  <2>1. first # last
    BY <1>2, <1>11
  <2>2. ~(last < first)
    <3>1. SUFFICES ASSUME last < first PROVE FALSE
      OBVIOUS
    <3>2. a[last] < a[first]
      BY <1>8, <3>1
    <3>3. QED
      BY <1>2, <1>11, <3>2
  <2>3. QED
    BY <2>1, <2>2
<1>13. first = 1
  <2>1. SUFFICES ASSUME 1 < first PROVE FALSE
    OBVIOUS
  <2>2. 1 \in 1..K
    OBVIOUS
  <2>3. a[1] < a[first] /\ a[1] \in 0..Len(t) + 1
    BY <1>4, <1>8, <1>9, <2>1, <2>2
  <2>4. QED
    BY <1>11, <2>3
<1>14. last = K
  <2>1. SUFFICES ASSUME last < K PROVE FALSE
    OBVIOUS
  <2>2. K \in 1..K
    OBVIOUS
  <2>3. a[last] < a[K] /\ a[K] \in 0..Len(t) + 1
    BY <1>4, <1>8, <1>9, <2>1, <2>2
  <2>4. QED
    BY <1>2, <1>11, <2>3
<1>15. K >= 2
  BY <1>12, <1>13, <1>14
<1>16. ASSUME NEW k \in 1..K, k # 1, k # K
       PROVE  a[k] \in 1..Len(t) /\ t[a[k]] = c
  <2>1. 1 < k /\ k < K /\ 1 \in 1..K /\ K \in 1..K
    BY <1>15, <1>16
  <2>2. a[1] < a[k] /\ a[k] < a[K]
    BY <1>8, <2>1
  <2>3. a[k] # 0 /\ a[k] # Len(t) + 1
    BY <1>2, <1>9, <1>11, <1>13, <1>14, <2>2
  <2>4. QED
    BY <1>4, <1>9, <2>3
<1>17. \A k \in 1..K : a[k] \in 0..Len(t) + 1
  BY <1>4, <1>9
<1>18. a = Ascending(Cuts(t, c))
  BY <1>1, <1>6
<1>19. a[1] = 0 /\ a[K] = Len(t) + 1
  BY <1>11, <1>13, <1>14
<1>20. \A k, l \in 1..K : k < l => a[k] < a[l]
  BY <1>8
<1>21. QED
  BY <1>1, <1>8, <1>10, <1>15, <1>16, <1>17, <1>18, <1>19, <1>20

\* A place in a text lies behind one cut and before the next.
LEMMA PlaceCut ==
  ASSUME NEW n \in Nat, NEW K \in Nat, K >= 2, NEW a, \A k \in 1..K : a[k] \in 0..n + 1, a[1] = 0, a[K] = n + 1,
         NEW i \in 0..n
  PROVE  \E k \in 1..K - 1 : a[k] <= i /\ i < a[k + 1]
<1>1. PICK T : T = {k \in 1..K : i < a[k]}
  OBVIOUS
<1>2. K \in T /\ T \in SUBSET Nat
  BY <1>1
<1>3. PICK l \in T : \A k \in T : l <= k
  BY <1>2, LeastMember
<1>4. l \in 1..K /\ i < a[l] /\ l # 1
  BY <1>1, <1>3
<1>5. PICK k \in 1..K - 1 : k + 1 = l
  <2>1. l - 1 \in 1..K - 1 /\ (l - 1) + 1 = l
    BY <1>4
  <2>2. QED
    BY <2>1
<1>6. k \notin T /\ k \in 1..K
  BY <1>3, <1>4, <1>5
<1>7. ~(i < a[k]) /\ a[k] \in 0..n + 1
  BY <1>1, <1>6
<1>8. QED
  BY <1>4, <1>5, <1>7

\* a are the cuts of a text: before it, at every c, and after it; n pieces lie
\* between them.
CutAt(t, c, a, n) ==
  /\ n \in Nat \ {0} /\ DOMAIN a = 1..n + 1
  /\ \A k \in 1..n + 1 : a[k] \in 0..Len(t) + 1
  /\ a[1] = 0 /\ a[n + 1] = Len(t) + 1
  /\ \A k, l \in 1..n + 1 : k < l => a[k] < a[l]
  /\ \A k \in 2..n : a[k] \in 1..Len(t) /\ t[a[k]] = c
  /\ \A i \in 1..Len(t) : t[i] = c => \E k \in 2..n : a[k] = i

\* P are the pieces between these cuts.
CutInto(S, t, c, a, n, P) ==
  /\ CutAt(t, c, a, n)
  /\ P \in Seq(Seq(S)) /\ Len(P) = n /\ DOMAIN P = 1..n
  /\ \A k \in 1..n : P[k] = SubSeq(t, a[k] + 1, a[k + 1] - 1)

\* The pieces of a text are what is between its cuts.
LEMMA PiecesAre ==
  ASSUME NEW S, NEW t \in Seq(S), NEW c
  PROVE  \E n \in Nat \ {0} : \E a : CutInto(S, t, c, a, n, Pieces(t, c))
<1>1. PICK a : a = Ascending(Cuts(t, c))
  OBVIOUS
<1>2. PICK K \in Nat : /\ K >= 2 /\ Len(a) = K /\ DOMAIN a = 1..K
                       /\ \A k \in 1..K : a[k] \in 0..Len(t) + 1
                       /\ a[1] = 0 /\ a[K] = Len(t) + 1
                       /\ \A k, l \in 1..K : k < l => a[k] < a[l]
                       /\ \A k \in 1..K : k # 1 /\ k # K => a[k] \in 1..Len(t) /\ t[a[k]] = c
                       /\ \A i \in Cuts(t, c) : \E k \in 1..K : a[k] = i
  BY <1>1, CutsAre
<1>3. PICK n \in Nat \ {0} : n + 1 = K
  <2>1. K - 1 \in Nat \ {0} /\ (K - 1) + 1 = K
    BY <1>2
  <2>2. QED
    BY <2>1
<1>4. PICK P : P = Pieces(t, c)
  OBVIOUS
<1>5. P = [k \in 1..n |-> SubSeq(t, a[k] + 1, a[k + 1] - 1)]
  <2>1. P = [k \in 1..(Len(a) - 1) |-> SubSeq(t, a[k] + 1, a[k + 1] - 1)]
    BY <1>1, <1>4, Zenon DEF Pieces, Cuts
  <2>2. Len(a) - 1 = n
    BY <1>2, <1>3
  <2>3. QED
    BY <2>1, <2>2
<1>6. ASSUME NEW k \in 1..n
      PROVE  SubSeq(t, a[k] + 1, a[k + 1] - 1) \in Seq(S)
  <2>1. k \in 1..K /\ k + 1 \in 1..K /\ k < k + 1
    BY <1>3
  <2>2. a[k] < a[k + 1] /\ a[k] \in 0..Len(t) + 1 /\ a[k + 1] \in 0..Len(t) + 1
    BY <1>2, <2>1
  <2>3. PICK lo \in Nat \ {0}, hi \in Nat : lo = a[k] + 1 /\ hi = a[k + 1] - 1
    BY <2>2
  <2>4. Len(t) \in Nat
    OBVIOUS
  <2>5. hi <= Len(t) /\ lo <= hi + 1
    BY <2>2, <2>3, <2>4
  <2>6. QED
    BY <2>3, <2>5, PartOf
<1>7. P \in Seq(Seq(S)) /\ Len(P) = n /\ DOMAIN P = 1..n /\ \A k \in 1..n : P[k] = SubSeq(t, a[k] + 1, a[k + 1] - 1)
  <2>1. PICK T : T = Seq(S)
    OBVIOUS
  <2>2. \A k \in 1..n : P[k] = SubSeq(t, a[k] + 1, a[k + 1] - 1)
    BY <1>5
  <2>3. \A k \in 1..n : P[k] \in T
    BY <1>6, <2>1, <2>2, Zenon
  <2>4. P = [k \in 1..n |-> P[k]]
    BY <1>5
  <2>5. P \in Seq(T) /\ Len(P) = n /\ DOMAIN P = 1..n
    BY <2>3, <2>4
  <2>6. QED
    BY <2>1, <2>2, <2>5, Zenon
<1>8. \A k \in 2..n : a[k] \in 1..Len(t) /\ t[a[k]] = c
  BY <1>2, <1>3
<1>9. ASSUME NEW i \in 1..Len(t), t[i] = c
      PROVE  \E k \in 2..n : a[k] = i
  <2>1. i \in Cuts(t, c)
    BY <1>9 DEF Cuts
  <2>2. PICK k \in 1..K : a[k] = i
    BY <1>2, <2>1
  <2>3. k # 1 /\ k # K
    BY <1>2, <2>2
  <2>4. QED
    BY <1>3, <2>2, <2>3
<1>10. CutAt(t, c, a, n)
  <2>1. 1..n + 1 = 1..K
    BY <1>3
  <2>2. /\ DOMAIN a = 1..n + 1 /\ a[1] = 0 /\ a[n + 1] = Len(t) + 1
        /\ \A k \in 1..n + 1 : a[k] \in 0..Len(t) + 1
        /\ \A k, l \in 1..n + 1 : k < l => a[k] < a[l]
    BY <1>2, <1>3, <2>1, Zenon
  <2>3. QED
    BY <1>8, <1>9, <2>2, Zenon DEF CutAt
<1>11. QED
  BY <1>4, <1>7, <1>10, Zenon DEF CutInto

\* s is what is between two places of a text, and has no c in it.
PieceIs(S, t, c, from, to, s) ==
  /\ from \in 0..Len(t) /\ to \in 1..Len(t) + 1 /\ from < to /\ to - from - 1 \in Nat
  /\ s \in Seq(S) /\ Len(s) = to - from - 1
  /\ \A i \in 1..(to - from - 1) : s[i] = t[from + i] /\ t[from + i] # c /\ from + i \in 1..Len(t)

\* Between two cuts there is no other.
LEMMA PieceHas ==
  ASSUME NEW S, NEW t \in Seq(S), NEW c, NEW n, NEW a, CutAt(t, c, a, n), NEW k \in 1..n
  PROVE  PieceIs(S, t, c, a[k], a[k + 1], SubSeq(t, a[k] + 1, a[k + 1] - 1))
<1>0. n \in Nat \ {0}
  BY Zenon DEF CutAt
<1>1. PICK L \in Nat : L = Len(t)
  OBVIOUS
<1>2. k \in 1..n + 1 /\ k + 1 \in 1..n + 1 /\ k < k + 1
  BY <1>0
<1>3. /\ \A l \in 1..n + 1 : a[l] \in 0..L + 1
      /\ \A j, l \in 1..n + 1 : j < l => a[j] < a[l]
      /\ \A i \in 1..L : t[i] = c => \E l \in 2..n : a[l] = i
  BY <1>1 DEF CutAt
<1>4. PICK from \in Nat, to \in Nat : from = a[k] /\ to = a[k + 1] /\ from < to /\ to <= L + 1
  BY <1>2, <1>3
<1>5. PICK lo \in Nat \ {0}, hi \in Nat : lo = from + 1 /\ hi = to - 1
  BY <1>4
<1>6. hi <= Len(t) /\ lo <= hi + 1 /\ hi - lo + 1 = to - from - 1 /\ to - from - 1 \in Nat
  <2>1. hi <= L
    BY <1>4, <1>5
  <2>2. lo <= hi + 1 /\ hi - lo + 1 = to - from - 1 /\ to - from - 1 \in Nat
    <3>1. from < to
      BY <1>4
    <3>2. lo = from + 1 /\ hi = to - 1
      BY <1>5
    <3>3. QED
      BY <3>1, <3>2
  <2>3. QED
    BY <1>1, <2>1, <2>2
<1>7. PICK s : s = SubSeq(t, lo, hi)
  OBVIOUS
<1>8. s \in Seq(S) /\ Len(s) = hi - lo + 1 /\ \A i \in 1..(hi - lo + 1) : s[i] = t[lo + i - 1]
  BY <1>6, <1>7, PartOf
<1>9. ASSUME NEW i \in 1..(to - from - 1)
      PROVE  s[i] = t[from + i] /\ t[from + i] # c /\ from + i \in 1..L
  <2>1. lo + i - 1 = from + i
    BY <1>5
  <2>2. from + i \in 1..L
    <3>1. 1 <= i /\ i <= to - from - 1 /\ to <= L + 1
      BY <1>4
    <3>2. QED
      BY <3>1
  <2>3. t[from + i] # c
    <3>1. SUFFICES ASSUME t[from + i] = c PROVE FALSE
      OBVIOUS
    <3>2. PICK l \in 2..n : a[l] = from + i
      BY <1>3, <2>2, <3>1
    <3>3. a[k] < a[l] /\ a[l] < a[k + 1]
      <4>1. from < from + i /\ from + i < to
        OBVIOUS
      <4>2. QED
        BY <1>4, <3>2, <4>1
    <3>4. l \in 1..n + 1 /\ l # k /\ l # k + 1
      <4>1. l \in 1..n + 1
        BY <1>0
      <4>2. from # from + i /\ to # from + i
        <5>1. from < from + i /\ from + i < to
          OBVIOUS
        <5>2. QED
          BY <5>1
      <4>3. a[l] # a[k] /\ a[l] # a[k + 1]
        BY <1>4, <3>2, <4>2, Zenon
      <4>4. l # k /\ l # k + 1
        BY <4>3
      <4>5. QED
        BY <4>1, <4>4
    <3>5. l < k \/ k + 1 < l
      BY <3>4
    <3>6. a[l] < a[k] \/ a[k + 1] < a[l]
      BY <1>2, <1>3, <3>4, <3>5
    <3>7. a[l] \in Nat /\ a[k] \in Nat /\ a[k + 1] \in Nat
      <4>1. from + i \in Nat
        OBVIOUS
      <4>2. QED
        BY <1>4, <3>2, <4>1, Zenon
    <3>8. QED
      BY <3>3, <3>6, <3>7
  <2>4. QED
    BY <1>6, <1>8, <2>1, <2>2, <2>3
<1>10. s = SubSeq(t, a[k] + 1, a[k + 1] - 1)
  BY <1>4, <1>5, <1>7
<1>11. s \in Seq(S) /\ Len(s) = to - from - 1
  BY <1>6, <1>8
<1>12. from \in 0..Len(t) /\ to \in 1..Len(t) + 1
  BY <1>1, <1>4
<1>13. QED
  BY <1>1, <1>4, <1>6, <1>9, <1>10, <1>11, <1>12, Zenon DEF PieceIs

\* The pieces from one on, joined again, are the end of the text.
LEMMA JoinedFrom ==
  ASSUME NEW S, NEW t \in Seq(S), NEW c, NEW n, NEW a, CutAt(t, c, a, n),
         NEW P, CutInto(S, t, c, a, n, P), NEW m \in 1..n
  PROVE  Joined(SubSeq(P, m, n), c) = SubSeq(t, a[m] + 1, Len(t))
<1>1. PICK T : T = Seq(S)
  OBVIOUS
<1>2. PICK Q : Q = SubSeq(P, m, n)
  OBVIOUS
<1>0. n \in Nat \ {0}
  BY Zenon DEF CutAt
<1>3. PICK N \in Nat \ {0} : N = n - m + 1
  BY <1>0
<1>a. P \in Seq(T) /\ Len(P) = n /\ \A k \in 1..n : P[k] = SubSeq(t, a[k] + 1, a[k + 1] - 1)
  BY <1>1, Zenon DEF CutInto
<1>4. Len(Q) = N /\ DOMAIN Q = 1..N /\ \A k \in 1..N : Q[k] = P[m + k - 1]
  BY <1>2, <1>3, <1>a, PartOf
<1>b. /\ \A k \in 1..n + 1 : a[k] \in 0..Len(t) + 1
      /\ \A k, l \in 1..n + 1 : k < l => a[k] < a[l]
      /\ \A k \in 2..n : a[k] \in 1..Len(t) /\ t[a[k]] = c
      /\ a[n + 1] = Len(t) + 1
  BY Zenon DEF CutAt
<1>5. PICK rows : rows = [k \in DOMAIN Q |-> IF k = 1 THEN Q[k] ELSE <<c>> \o Q[k]]
  OBVIOUS
<1>6. Len(rows) = N
  BY <1>4, <1>5
<1>7. Joined(Q, c) = FlattenSeq(rows)
  BY <1>5, Zenon DEF Joined
<1>8. PICK f : /\ FlattenSeq(rows) = f[N] /\ f[1] = rows[1]
               /\ \A i \in 1..N - 1 : f[i + 1] = f[i] \o rows[i + 1]
  <2>1. Len(rows) \in Nat /\ Len(rows) # 0
    BY <1>6
  <2>2. QED
    BY <1>6, <2>1, FlattenStepwise
<1> DEFINE Up(i) == SubSeq(t, a[m] + 1, a[m + i] - 1)
<1>9. \A k \in 1..N : m + k - 1 \in 1..n /\ Q[k] = SubSeq(t, a[m + k - 1] + 1, a[m + k] - 1)
  <2>1. SUFFICES ASSUME NEW k \in 1..N PROVE m + k - 1 \in 1..n /\ Q[k] = SubSeq(t, a[m + k - 1] + 1, a[m + k] - 1)
    OBVIOUS
  <2>2. PICK j \in 1..n : j = m + k - 1 /\ j + 1 = m + k
    BY <1>0, <1>3
  <2>3. QED
    BY <1>4, <1>a, <2>2
<1>10. f[1] = Up(1)
  <2>1. 1 \in 1..N /\ m + 1 - 1 = m
    BY <1>3
  <2>2. f[1] = Q[1]
    BY <1>4, <1>5, <1>8, <2>1
  <2>3. QED
    BY <1>9, <2>1, <2>2
<1>11. ASSUME NEW i \in 1..N - 1, f[i] = Up(i)
       PROVE  f[i + 1] = Up(i + 1)
  <2>1. i + 1 \in 1..N /\ i + 1 # 1 /\ m + (i + 1) - 1 = m + i /\ m + i \in 2..n /\ m + i \in 1..n + 1 /\ m + i + 1 \in 1..n + 1 /\ m \in 1..n + 1
    BY <1>0, <1>3
  <2>2. f[i + 1] = Up(i) \o (<<c>> \o Q[i + 1])
    BY <1>4, <1>5, <1>8, <1>11, <2>1
  <2>3. Q[i + 1] = SubSeq(t, a[m + i] + 1, a[m + (i + 1)] - 1)
    BY <1>9, <2>1
  <2>4. t[a[m + i]] = c /\ a[m + i] \in 1..Len(t)
    BY <1>b, <2>1, Zenon
  <2>5. /\ a[m] < a[m + i] /\ a[m + i] < a[m + i + 1] /\ a[m] \in 0..Len(t) + 1 /\ a[m + i + 1] \in 0..Len(t) + 1
    <3>1. m < m + i /\ m + i < m + i + 1
      OBVIOUS
    <3>2. QED
      BY <1>b, <2>1, <3>1, Zenon
  <2>6. PICK lo \in Nat \ {0}, mid \in Nat, hi \in Nat : lo = a[m] + 1 /\ mid = a[m + i] /\ hi = a[m + i + 1] - 1
    <3>1. PICK L, x, y, z : L = Len(t) /\ x = a[m] /\ y = a[m + i] /\ z = a[m + i + 1]
      OBVIOUS
    <3>2. x \in 0..L + 1 /\ y \in 1..L /\ z \in 0..L + 1 /\ x < y /\ y < z
      BY <2>4, <2>5, <3>1, Zenon
    <3>a. L \in Nat
      BY <3>1
    <3>3. x + 1 \in Nat \ {0} /\ y \in Nat /\ z - 1 \in Nat
      BY <3>2, <3>a
    <3>4. QED
      BY <3>1, <3>3
  <2>7. lo <= mid /\ mid <= hi /\ hi <= Len(t)
    <3>1. PICK L, x, y, z : L = Len(t) /\ x = a[m] /\ y = a[m + i] /\ z = a[m + i + 1]
      OBVIOUS
    <3>2. x \in 0..L + 1 /\ y \in 1..L /\ z \in 0..L + 1 /\ x < y /\ y < z
      BY <2>4, <2>5, <3>1, Zenon
    <3>a. L \in Nat
      BY <3>1
    <3>3. lo = x + 1 /\ mid = y /\ hi = z - 1
      BY <2>6, <3>1, Zenon
    <3>4. lo <= mid /\ mid <= hi /\ hi <= L
      BY <3>2, <3>3, <3>a
    <3>5. QED
      BY <3>1, <3>4
  <2>8. SubSeq(t, lo, mid - 1) \o (<<t[mid]>> \o SubSeq(t, mid + 1, hi)) = SubSeq(t, lo, hi)
    BY <2>7, Glued
  <2>9. m + (i + 1) = m + i + 1
    OBVIOUS
  <2>10. Q[i + 1] = SubSeq(t, mid + 1, hi) /\ Up(i) = SubSeq(t, lo, mid - 1) /\ Up(i + 1) = SubSeq(t, lo, hi) /\ t[mid] = c
    BY <2>3, <2>4, <2>6, <2>9
  <2>11. QED
    BY <2>2, <2>8, <2>10, Zenon
<1>12. f[N] = Up(N)
  <2> DEFINE I == {i \in Nat : i + 1 \in 1..N => f[i + 1] = Up(i + 1)}
  <2>1. 0 \in I
    BY <1>10
  <2>2. ASSUME NEW i \in I
        PROVE  i + 1 \in I
    <3>1. SUFFICES ASSUME i + 1 + 1 \in 1..N PROVE f[i + 1 + 1] = Up(i + 1 + 1)
      BY <2>2
    <3>2. i \in Nat /\ i + 1 \in 1..N - 1 /\ i + 1 \in 1..N
      BY <2>2, <3>1
    <3>3. f[i + 1] = Up(i + 1)
      BY <2>2, <3>2
    <3>4. QED
      BY <1>11, <3>2, <3>3
  <2>3. I = Nat
    <3> HIDE DEF I
    <3>1. I \in SUBSET Nat
      BY DEF I
    <3>2. QED
      BY <2>1, <2>2, <3>1, SetInduction
  <2>4. N - 1 \in Nat /\ (N - 1) + 1 = N /\ N \in 1..N
    BY <1>3
  <2>5. QED
    BY <2>3, <2>4
<1>13. a[m + N] - 1 = Len(t)
  <2>1. m + N = n + 1
    BY <1>0, <1>3
  <2>2. a[n + 1] = Len(t) + 1
    BY <1>b
  <2>3. Len(t) \in Nat
    OBVIOUS
  <2>4. QED
    BY <2>1, <2>2, <2>3
<1>14. QED
  BY <1>2, <1>7, <1>8, <1>12, <1>13

\* A text is what its pieces make when they are joined again.
LEMMA JoinedBack ==
  ASSUME NEW S, NEW t \in Seq(S), NEW c
  PROVE  Joined(Pieces(t, c), c) = t
<1>1. PICK n \in Nat \ {0} : \E a : CutInto(S, t, c, a, n, Pieces(t, c))
  BY PiecesAre, Zenon
<1>2. PICK a : CutInto(S, t, c, a, n, Pieces(t, c))
  BY <1>1
<1>3. PICK P : P = Pieces(t, c)
  OBVIOUS
<1>4. Joined(SubSeq(P, 1, n), c) = SubSeq(t, a[1] + 1, Len(t))
  <2>1. 1 \in 1..n
    OBVIOUS
  <2>2. QED
    <3>1. CutAt(t, c, a, n) /\ CutInto(S, t, c, a, n, P)
      BY <1>2, <1>3, Zenon DEF CutInto
    <3>2. QED
      <4>1. \A m \in 1..n : Joined(SubSeq(P, m, n), c) = SubSeq(t, a[m] + 1, Len(t))
        BY <1>1, <3>1, JoinedFrom
      <4>2. QED
        BY <2>1, <4>1, Zenon
<1>5. SubSeq(P, 1, n) = P
  <2>1. PICK T : T = Seq(S)
    OBVIOUS
  <2>2. P \in Seq(T) /\ Len(P) = n
    BY <1>2, <1>3, <2>1, Zenon DEF CutInto
  <2>3. QED
    BY <2>2
<1>6. SubSeq(t, a[1] + 1, Len(t)) = t
  <2>1. a[1] = 0
    BY <1>2 DEF CutInto, CutAt
  <2>2. SubSeq(t, 1, Len(t)) = t
    OBVIOUS
  <2>3. QED
    BY <2>1, <2>2
<1>7. QED
  BY <1>3, <1>4, <1>5, <1>6

\* Texts that are joined make a text.
LEMMA JoinedTyped ==
  ASSUME NEW S, NEW parts \in Seq(Seq(S)), Len(parts) # 0, NEW c \in S
  PROVE  Joined(parts, c) \in Seq(S)
<1>1. PICK T : T = Seq(S)
  OBVIOUS
<1>2. PICK N \in Nat \ {0} : N = Len(parts)
  BY <1>1
<1>3. DOMAIN parts = 1..N /\ \A k \in 1..N : parts[k] \in T
  BY <1>1, <1>2
<1>4. PICK rows : rows = [k \in DOMAIN parts |-> IF k = 1 THEN parts[k] ELSE <<c>> \o parts[k]]
  OBVIOUS
<1>5. Len(rows) = N
  BY <1>3, <1>4
<1>6. PICK f : /\ FlattenSeq(rows) = f[N] /\ f[1] = rows[1]
               /\ \A i \in 1..N - 1 : f[i + 1] = f[i] \o rows[i + 1]
  <2>1. Len(rows) \in Nat /\ Len(rows) # 0
    BY <1>5
  <2>2. QED
    BY <1>5, <2>1, FlattenStepwise
<1>7. f[1] \in Seq(S)
  BY <1>1, <1>3, <1>4, <1>6
<1>8. ASSUME NEW i \in 1..N - 1, f[i] \in Seq(S)
      PROVE  f[i + 1] \in Seq(S)
  <2>1. i + 1 \in 1..N /\ i + 1 # 1
    OBVIOUS
  <2>2. PICK p : p = parts[i + 1]
    OBVIOUS
  <2>3. p \in Seq(S)
    BY <1>1, <1>3, <2>1, <2>2
  <2>4. f[i + 1] = f[i] \o (<<c>> \o p)
    BY <1>3, <1>4, <1>6, <2>1, <2>2
  <2>5. <<c>> \o p \in Seq(S)
    BY <2>3
  <2>6. QED
    BY <1>8, <2>4, <2>5
<1> DEFINE I == {i \in Nat : i + 1 \in 1..N => f[i + 1] \in Seq(S)}
<1>9. 0 \in I
  BY <1>7
<1>10. ASSUME NEW i \in I
       PROVE  i + 1 \in I
  <2>1. SUFFICES ASSUME i + 1 + 1 \in 1..N PROVE f[i + 1 + 1] \in Seq(S)
    BY <1>10
  <2>2. i \in Nat /\ i + 1 \in 1..N - 1 /\ i + 1 \in 1..N
    BY <1>10, <2>1
  <2>3. f[i + 1] \in Seq(S)
    BY <1>10, <2>2
  <2>4. QED
    BY <1>8, <2>2, <2>3
<1>11. I = Nat
  <2> HIDE DEF I
  <2>1. I \in SUBSET Nat
    BY DEF I
  <2>2. QED
    BY <1>9, <1>10, <2>1, SetInduction
<1>12. N - 1 \in Nat /\ (N - 1) + 1 = N /\ N \in 1..N
  OBVIOUS
<1>13. f[N] \in Seq(S)
  BY <1>11, <1>12
<1>14. Joined(parts, c) = FlattenSeq(rows)
  BY <1>4, Zenon DEF Joined
<1>15. QED
  BY <1>6, <1>13, <1>14

\* A text after another.
LEMMA Behind ==
  ASSUME NEW S, NEW s \in Seq(S), NEW t \in Seq(S)
  PROVE  /\ s \o t \in Seq(S) /\ Len(s \o t) = Len(s) + Len(t)
         /\ \A i \in 1..Len(s) : (s \o t)[i] = s[i]
         /\ \A i \in 1..Len(t) : (s \o t)[Len(s) + i] = t[i]
  OBVIOUS

\* Every piece of a text, from a c or its start to a c or its end, is one of
\* the parts.
Between(w, c, from, to) == (from = 0 \/ w[from] = c) /\ (to = Len(w) + 1 \/ w[to] = c)

MadeOf(S, w, c, parts) ==
  /\ w \in Seq(S)
  /\ \A from, to, s : PieceIs(S, w, c, from, to, s) /\ Between(w, c, from, to) => \E k \in DOMAIN parts : s = parts[k]

\* One part is made of itself.
LEMMA MadeOfOne ==
  ASSUME NEW S, NEW w \in Seq(S), NEW c, \A i \in 1..Len(w) : w[i] # c, NEW parts, NEW j \in DOMAIN parts, w = parts[j]
  PROVE  MadeOf(S, w, c, parts)
<1>1. PICK n \in Nat : n = Len(w)
  OBVIOUS
<1>2. SUFFICES ASSUME NEW from, NEW to, NEW s, PieceIs(S, w, c, from, to, s), Between(w, c, from, to)
               PROVE  s = w
  BY Zenon DEF MadeOf
<1>3. /\ from \in 0..n /\ to \in 1..n + 1 /\ s \in Seq(S) /\ Len(s) = to - from - 1
      /\ \A i \in 1..(to - from - 1) : s[i] = w[from + i]
  BY <1>1, <1>2, Zenon DEF PieceIs
<1>4. from = 0 /\ to = n + 1
  BY <1>1, <1>2, <1>3 DEF Between
<1>5. Len(s) = n /\ \A i \in 1..n : s[i] = w[i]
  BY <1>1, <1>3, <1>4
<1>6. QED
  BY <1>1, <1>3, <1>5, SameText

\* A part more, after a c.
LEMMA MadeOfMore ==
  ASSUME NEW S, NEW w, NEW c \in S, NEW parts, MadeOf(S, w, c, parts),
         NEW p \in Seq(S), \A i \in 1..Len(p) : p[i] # c, NEW j \in DOMAIN parts, p = parts[j]
  PROVE  MadeOf(S, w \o (<<c>> \o p), c, parts)
<1>1. w \in Seq(S)
  BY Zenon DEF MadeOf
<1>2. PICK n \in Nat, m \in Nat : n = Len(w) /\ m = Len(p)
  BY <1>1
<1>3. PICK W : W = w \o (<<c>> \o p)
  OBVIOUS
<1>4. /\ W \in Seq(S) /\ Len(W) = n + 1 + m /\ W[n + 1] = c
      /\ \A i \in 1..n : W[i] = w[i]
      /\ \A i \in 1..m : W[n + 1 + i] = p[i]
  <2>1. PICK q : q = <<c>> \o p
    OBVIOUS
  <2>2. q \in Seq(S) /\ Len(q) = m + 1 /\ q[1] = c /\ \A i \in 1..m : q[i + 1] = p[i]
    BY <1>2, <2>1
  <2>3. /\ w \o q \in Seq(S) /\ Len(w \o q) = Len(w) + Len(q)
        /\ \A i \in 1..Len(w) : (w \o q)[i] = w[i]
        /\ \A i \in 1..Len(q) : (w \o q)[Len(w) + i] = q[i]
    BY <1>1, <2>2, Behind
  <2>4. /\ W \in Seq(S) /\ Len(W) = n + (m + 1) /\ \A i \in 1..n : W[i] = w[i]
        /\ \A i \in 1..m + 1 : W[n + i] = q[i]
    BY <1>2, <1>3, <2>1, <2>2, <2>3
  <2>5. W[n + 1] = c
    <3>1. 1 \in 1..m + 1
      BY <1>2
    <3>2. QED
      BY <2>2, <2>4, <3>1
  <2>6. ASSUME NEW i \in 1..m
        PROVE  W[n + 1 + i] = p[i]
    <3>1. i + 1 \in 1..m + 1 /\ n + (i + 1) = n + 1 + i
      <4>1. i \in Nat /\ 1 <= i /\ i <= m
        OBVIOUS
      <4>2. QED
        BY <4>1
    <3>2. W[n + (i + 1)] = q[i + 1] /\ q[i + 1] = p[i]
      BY <2>2, <2>4, <3>1
    <3>3. QED
      BY <3>1, <3>2
  <2>7. Len(W) = n + 1 + m
    BY <1>2, <2>4
  <2>8. QED
    BY <2>4, <2>5, <2>6, <2>7
<1>a. SUFFICES MadeOf(S, W, c, parts)
  BY <1>3, Zenon
<1>b. SUFFICES ASSUME NEW from, NEW to, NEW s, PieceIs(S, W, c, from, to, s), Between(W, c, from, to)
               PROVE  \E k \in DOMAIN parts : s = parts[k]
  BY <1>4 DEF MadeOf
<1>5. /\ PieceIs(S, W, c, from, to, s)
      /\ from = 0 \/ W[from] = c
      /\ to = Len(W) + 1 \/ W[to] = c
  BY <1>b, Zenon DEF Between
<1>6. /\ from \in 0..n + 1 + m /\ to \in 1..n + 1 + m + 1 /\ from < to /\ s \in Seq(S) /\ Len(s) = to - from - 1
      /\ \A i \in 1..(to - from - 1) : s[i] = W[from + i] /\ W[from + i] # c
  BY <1>4, <1>5, Zenon DEF PieceIs
<1>7. CASE to <= n + 1
  <2>1. from \in 0..n /\ to \in 1..n + 1 /\ to - from - 1 \in Nat
    BY <1>2, <1>6, <1>7
  <2>2. ASSUME NEW i \in 1..(to - from - 1)
        PROVE  s[i] = w[from + i] /\ w[from + i] # c /\ from + i \in 1..n
    <3>1. from + i \in 1..n
      <4>1. /\ n \in Nat /\ m \in Nat /\ from \in 0..n + 1 + m /\ to \in 1..n + 1 + m + 1 /\ to <= n + 1
            /\ i \in 1..(to - from - 1)
        BY <1>6, <1>7, Zenon
      <4>2. from \in Nat /\ to \in Nat /\ i \in Nat /\ 1 <= i /\ i <= to - from - 1
        BY <4>1
      <4>3. QED
        BY <4>1, <4>2
    <3>2. QED
      BY <1>4, <1>6, <3>1
  <2>3. PieceIs(S, w, c, from, to, s)
    BY <1>2, <1>6, <2>1, <2>2, Zenon DEF PieceIs
  <2>4. from = 0 \/ w[from] = c
    <3>1. from = 0 \/ from \in 1..n
      BY <1>2, <2>1
    <3>2. QED
      BY <1>4, <1>5, <3>1
  <2>5. to = n + 1 \/ w[to] = c
    <3>1. to = n + 1 \/ to \in 1..n
      BY <1>2, <2>1
    <3>2. to # n + 1 => to # n + 1 + m + 1
      BY <1>2, <2>1
    <3>3. QED
      BY <1>4, <1>5, <3>1, <3>2
  <2>6. to = Len(w) + 1 \/ w[to] = c
    BY <1>2, <2>5, Zenon
  <2>7. QED
    <3>1. PieceIs(S, w, c, from, to, s) /\ Between(w, c, from, to)
      BY <2>3, <2>4, <2>6, Zenon DEF Between
    <3>2. QED
      BY <3>1 DEF MadeOf
<1>8. CASE n + 1 < to
  <2>1. ~(from < n + 1)
    <3>1. SUFFICES ASSUME from < n + 1 PROVE FALSE
      OBVIOUS
    <3>2. PICK i \in 1..(to - from - 1) : i = n + 1 - from /\ from + i = n + 1
      <4>1. n + 1 - from \in 1..(to - from - 1) /\ from + (n + 1 - from) = n + 1
        BY <1>2, <1>6, <1>8, <3>1
      <4>2. QED
        BY <4>1
    <3>3. QED
      BY <1>4, <1>6, <3>2
  <2>2. from = n + 1
    <3>1. SUFFICES ASSUME from # n + 1 PROVE FALSE
      OBVIOUS
    <3>2. PICK i \in 1..m : i = from - (n + 1) /\ n + 1 + i = from
      <4>1. from - (n + 1) \in 1..m /\ n + 1 + (from - (n + 1)) = from
        BY <1>2, <1>6, <2>1, <3>1
      <4>2. QED
        BY <4>1
    <3>3. from # 0
      BY <1>2, <2>1
    <3>4. QED
      BY <1>2, <1>4, <1>5, <3>2, <3>3
  <2>3. to = n + 1 + m + 1
    <3>1. SUFFICES ASSUME to # n + 1 + m + 1 PROVE FALSE
      OBVIOUS
    <3>2. PICK i \in 1..m : i = to - (n + 1) /\ n + 1 + i = to
      <4>1. n \in Nat /\ m \in Nat /\ to \in 1..n + 1 + m + 1
        BY <1>6, Zenon
      <4>2. to \in Nat /\ to <= n + 1 + m + 1 /\ to # n + 1 + m + 1 /\ n + 1 < to
        BY <1>8, <3>1, <4>1
      <4>3. to - (n + 1) \in 1..m /\ n + 1 + (to - (n + 1)) = to
        BY <4>1, <4>2
      <4>4. QED
        BY <4>3
    <3>3. QED
      BY <1>2, <1>4, <1>5, <3>1, <3>2
  <2>4. to - from - 1 = m
    BY <1>2, <2>2, <2>3
  <2>5. Len(s) = m /\ \A i \in 1..m : s[i] = p[i]
    BY <1>4, <1>6, <2>2, <2>4
  <2>6. s = p
    BY <1>2, <1>6, <2>5, SameText
  <2>7. QED
    BY <2>6
<1>9. QED
  BY <1>2, <1>6, <1>7, <1>8

\* Texts without a c, joined by c, are made of these texts.
LEMMA JoinedOf ==
  ASSUME NEW S, NEW parts \in Seq(Seq(S)), Len(parts) # 0, NEW c \in S,
         \A k \in 1..Len(parts) : \A i \in 1..Len(parts[k]) : parts[k][i] # c
  PROVE  MadeOf(S, Joined(parts, c), c, parts)
<1>1. PICK T : T = Seq(S)
  OBVIOUS
<1>2. PICK N \in Nat \ {0} : N = Len(parts)
  BY <1>1
<1>3. DOMAIN parts = 1..N /\ \A k \in 1..N : parts[k] \in T
  BY <1>1, <1>2
<1>4. PICK rows : rows = [k \in DOMAIN parts |-> IF k = 1 THEN parts[k] ELSE <<c>> \o parts[k]]
  OBVIOUS
<1>5. Len(rows) = N
  BY <1>3, <1>4
<1>6. PICK f : /\ FlattenSeq(rows) = f[N] /\ f[1] = rows[1]
               /\ \A i \in 1..N - 1 : f[i + 1] = f[i] \o rows[i + 1]
  <2>1. Len(rows) \in Nat /\ Len(rows) # 0
    BY <1>5
  <2>2. QED
    BY <1>5, <2>1, FlattenStepwise
<1>7. MadeOf(S, f[1], c, parts)
  <2>1. 1 \in 1..N
    BY <1>2
  <2>2. f[1] = parts[1] /\ parts[1] \in Seq(S) /\ 1 \in DOMAIN parts
    BY <1>1, <1>3, <1>4, <1>6, <2>1
  <2>3. \A i \in 1..Len(parts[1]) : parts[1][i] # c
    BY <1>2, <2>1
  <2>4. QED
    BY <2>2, <2>3, MadeOfOne
<1>8. ASSUME NEW i \in 1..N - 1, MadeOf(S, f[i], c, parts)
      PROVE  MadeOf(S, f[i + 1], c, parts)
  <2>1. i + 1 \in 1..N /\ i + 1 # 1
    OBVIOUS
  <2>2. PICK j \in DOMAIN parts : j = i + 1
    BY <1>3, <2>1
  <2>3. PICK p : p = parts[j]
    OBVIOUS
  <2>4. p \in Seq(S) /\ \A l \in 1..Len(p) : p[l] # c
    BY <1>1, <1>2, <1>3, <2>2, <2>3
  <2>5. f[i + 1] = f[i] \o (<<c>> \o p)
    BY <1>3, <1>4, <1>6, <2>1, <2>2, <2>3
  <2>6. QED
    BY <1>8, <2>3, <2>4, <2>5, MadeOfMore
<1> DEFINE I == {i \in Nat : i + 1 \in 1..N => MadeOf(S, f[i + 1], c, parts)}
<1>9. 0 \in I
  BY <1>7
<1>10. ASSUME NEW i \in I
       PROVE  i + 1 \in I
  <2>1. SUFFICES ASSUME i + 1 + 1 \in 1..N PROVE MadeOf(S, f[i + 1 + 1], c, parts)
    BY <1>10
  <2>2. i \in Nat /\ i + 1 \in 1..N - 1 /\ i + 1 \in 1..N
    BY <1>10, <2>1
  <2>3. MadeOf(S, f[i + 1], c, parts)
    BY <1>10, <2>2
  <2>4. QED
    BY <1>8, <2>2, <2>3
<1>11. I = Nat
  <2> HIDE DEF I
  <2>1. I \in SUBSET Nat
    BY DEF I
  <2>2. QED
    BY <1>9, <1>10, <2>1, SetInduction
<1>12. N - 1 \in Nat /\ (N - 1) + 1 = N /\ N \in 1..N
  OBVIOUS
<1>13. MadeOf(S, f[N], c, parts)
  BY <1>11, <1>12
<1>14. Joined(parts, c) = FlattenSeq(rows)
  BY <1>4, Zenon DEF Joined
<1>15. QED
  BY <1>6, <1>13, <1>14

\* No reason is given exactly if no check fails.
LEMMA ReasonNone ==
  ASSUME NEW checks, NEW N \in Nat, DOMAIN checks = 1..N, \A j \in 1..N : checks[j][2] # "none"
  PROVE  Reason(checks) = "none" <=> \A j \in 1..N : ~checks[j][1]
<1>1. ASSUME \E j \in 1..N : checks[j][1]
      PROVE  Reason(checks) # "none"
  <2>1. PICK T : T = {j \in 1..N : checks[j][1]}
    OBVIOUS
  <2>2. T \in SUBSET Nat /\ T # {}
    BY <1>1, <2>1
  <2>3. PICK m \in T : \A j \in T : m <= j
    BY <2>2, LeastMember
  <2>4. m \in 1..N /\ checks[m][1]
    BY <2>1, <2>3
  <2>5. \A j \in 1..N : j < m => ~checks[j][1]
    BY <2>1, <2>3, <2>4
  <2>6. Reason(checks) = checks[m][2]
    BY <2>4, <2>5, ReasonIs
  <2>7. QED
    BY <2>4, <2>6
<1>2. (\A j \in 1..N : ~checks[j][1]) => Reason(checks) = "none"
  BY ReasonIs
<1>3. QED
  BY <1>1, <1>2

\* Labels that may stand in a name.
LabelFits(label) ==
  /\ label # << >> /\ Len(label) <= MaxLabel
  /\ "-" \notin Ends(label) /\ ToSet(label) \subseteq {"a", "x", "-"}

\* What _validate_ascii_domain checks of the pieces of a name.
LEMMA FaultFree ==
  ASSUME NEW t
  PROVE  AsciiFault(t) = "none" <=> /\ t # << >> /\ ~(Len(t) > MaxName) /\ ~(Len(Pieces(t, ".")) < 2)
                                    /\ \A k \in DOMAIN Pieces(t, ".") :
                                         /\ Pieces(t, ".")[k] # << >> /\ ~(Len(Pieces(t, ".")[k]) > MaxLabel)
                                         /\ "-" \notin Ends(Pieces(t, ".")[k])
                                         /\ ToSet(Pieces(t, ".")[k]) \subseteq {"a", "x", "-"}
<1>1. PICK P : P = Pieces(t, ".")
  OBVIOUS
<1>2. PICK A, B, C, D, E, F :
        /\ A = (t = << >>) /\ B = (Len(t) > MaxName) /\ C = (Len(P) < 2)
        /\ D = (\E k \in DOMAIN P : P[k] = << >>) /\ E = (\E k \in DOMAIN P : Len(P[k]) > MaxLabel)
        /\ F = (\E k \in DOMAIN P : "-" \in Ends(P[k]) \/ ~(ToSet(P[k]) \subseteq {"a", "x", "-"}))
  OBVIOUS
<1>2a. PICK a, b, c, d, e, f :
         /\ a = <<A, "empty">> /\ b = <<B, "too long">> /\ c = <<C, "no TLD">>
         /\ d = <<D, "empty label">> /\ e = <<E, "label too long">> /\ f = <<F, "characters">>
  OBVIOUS
<1>3. PICK checks : checks = <<a, b, c, d, e, f>>
  OBVIOUS
<1>4. AsciiFault(t) = Reason(checks)
  BY <1>1, <1>2, <1>2a, <1>3, Zenon DEF AsciiFault
<1>5. A \in BOOLEAN /\ B \in BOOLEAN /\ C \in BOOLEAN /\ D \in BOOLEAN /\ E \in BOOLEAN /\ F \in BOOLEAN
  BY <1>2
<1>6. /\ DOMAIN checks = 1..6
      /\ checks[1] = a /\ checks[2] = b /\ checks[3] = c /\ checks[4] = d /\ checks[5] = e /\ checks[6] = f
  BY <1>3
<1>7. /\ a[2] = "empty" /\ b[2] = "too long" /\ c[2] = "no TLD" /\ d[2] = "empty label"
      /\ e[2] = "label too long" /\ f[2] = "characters"
  BY <1>2a, <1>5
<1>8. (a[1] <=> A) /\ (b[1] <=> B) /\ (c[1] <=> C) /\ (d[1] <=> D) /\ (e[1] <=> E) /\ (f[1] <=> F)
  BY <1>2a, <1>5
<1>9. Reason(checks) = "none" <=> \A j \in 1..6 : ~checks[j][1]
  <2>1. \A j \in 1..6 : j = 1 \/ j = 2 \/ j = 3 \/ j = 4 \/ j = 5 \/ j = 6
    OBVIOUS
  <2>2. \A j \in 1..6 : checks[j][2] # "none"
    BY <1>6, <1>7, <2>1
  <2>3. QED
    BY <1>6, <2>2, ReasonNone
<1>10. (\A j \in 1..6 : ~checks[j][1]) <=> ~A /\ ~B /\ ~C /\ ~D /\ ~E /\ ~F
  <2>1. \A j \in 1..6 : j = 1 \/ j = 2 \/ j = 3 \/ j = 4 \/ j = 5 \/ j = 6
    OBVIOUS
  <2>2. 1 \in 1..6 /\ 2 \in 1..6 /\ 3 \in 1..6 /\ 4 \in 1..6 /\ 5 \in 1..6 /\ 6 \in 1..6
    OBVIOUS
  <2>3. QED
    BY <1>6, <1>8, <2>1, <2>2, Zenon
<1>11. AsciiFault(t) = "none" <=> ~A /\ ~B /\ ~C /\ ~D /\ ~E /\ ~F
  BY <1>4, <1>9, <1>10, Zenon
<1>12. QED
  BY <1>1, <1>2, <1>11, Zenon

\* The same, where texts are texts.
LEMMA LabelsFit ==
  ASSUME NEW t \in Seq(Characters), MaxLabel \in Nat, MaxName \in Nat
  PROVE  AsciiFault(t) = "none" <=> /\ t # << >> /\ Len(t) <= MaxName /\ 2 <= Len(Pieces(t, "."))
                                    /\ \A k \in DOMAIN Pieces(t, ".") : LabelFits(Pieces(t, ".")[k])
<1>1. PICK P : P = Pieces(t, ".")
  OBVIOUS
<1>2. P \in Seq(Seq(Characters))
  <2>1. PICK n \in Nat \ {0} : \E a : CutInto(Characters, t, ".", a, n, P)
    BY <1>1, PiecesAre
  <2>2. PICK a : CutInto(Characters, t, ".", a, n, P)
    BY <2>1
  <2>3. QED
    BY <2>2, Zenon DEF CutInto
<1>3. Len(t) \in Nat
  OBVIOUS
<1>4. PICK T : T = Seq(Characters)
  OBVIOUS
<1>5. Len(P) \in Nat /\ \A k \in DOMAIN P : P[k] \in T
  BY <1>2, <1>4
<1>6. \A k \in DOMAIN P : Len(P[k]) \in Nat
  BY <1>4, <1>5
<1>7. ~(Len(t) > MaxName) <=> Len(t) <= MaxName
  BY <1>3
<1>8. ~(Len(P) < 2) <=> 2 <= Len(P)
  BY <1>5
<1>9. \A k \in DOMAIN P : ~(Len(P[k]) > MaxLabel) <=> Len(P[k]) <= MaxLabel
  BY <1>6
<1>10. AsciiFault(t) = "none" <=> /\ t # << >> /\ ~(Len(t) > MaxName) /\ ~(Len(P) < 2)
                                  /\ \A k \in DOMAIN P : /\ P[k] # << >> /\ ~(Len(P[k]) > MaxLabel)
                                                         /\ "-" \notin Ends(P[k]) /\ ToSet(P[k]) \subseteq {"a", "x", "-"}
  BY <1>1, FaultFree, Zenon
<1>11. QED
  BY <1>1, <1>7, <1>8, <1>9, <1>10, Zenon DEF LabelFits

\* What a label that fits is, character by character.
LEMMA FitsMeans ==
  ASSUME NEW s \in Seq(Characters)
  PROVE  LabelFits(s) <=> /\ Len(s) \in 1..MaxLabel /\ s[1] # "-" /\ s[Len(s)] # "-"
                          /\ \A i \in 1..Len(s) : s[i] \in {"a", "x", "-"}
<1>1. PICK L \in Nat : L = Len(s) /\ DOMAIN s = 1..L
  OBVIOUS
<1>2. s # << >> <=> L >= 1
  BY <1>1
<1>3. ToSet(s) \subseteq {"a", "x", "-"} <=> \A i \in 1..L : s[i] \in {"a", "x", "-"}
  <2>1. ToSet(s) = {s[i] : i \in 1..L}
    BY <1>1, Zenon DEF ToSet
  <2>2. QED
    BY <2>1
<1>4. L >= 1 => ("-" \notin Ends(s) <=> s[1] # "-" /\ s[L] # "-")
  <2>1. SUFFICES ASSUME L >= 1 PROVE "-" \notin Ends(s) <=> s[1] # "-" /\ s[L] # "-"
    OBVIOUS
  <2>2. {1, L} \cap (1..L) = {1, L}
    BY <2>1
  <2>3. Ends(s) = {s[i] : i \in {1, L}}
    BY <1>1, <2>2, Zenon DEF Ends
  <2>4. QED
    BY <2>3
<1>5. L \in 1..MaxLabel <=> L >= 1 /\ L <= MaxLabel
  OBVIOUS
<1>6. QED
  BY <1>1, <1>2, <1>3, <1>4, <1>5, Zenon DEF LabelFits

\* What a name is, character by character.
LEMMA FormMeans ==
  ASSUME NEW t \in Seq(Characters)
  PROVE  WellFormed(t) <=>
           /\ Len(t) <= MaxName
           /\ \A i \in 1..Len(t) : t[i] \in {"a", "x", "-", "."}
           /\ \E i \in 1..Len(t) : t[i] = "."
           /\ \A i \in 1..Len(t) : t[i] \in {".", "-"} => 1 < i /\ i < Len(t)
           /\ \A i \in 1..Len(t) : t[i] = "." => t[i - 1] \notin {".", "-"} /\ t[i + 1] \notin {".", "-"}
           /\ \A i, j \in 1..Len(t) : j - i >= MaxLabel => \E k \in i..j : t[k] = "."
<1>1. PICK L \in Nat : L = Len(t) /\ DOMAIN t = 1..L
  OBVIOUS
<1>2. ToSet(t) = {t[i] : i \in 1..L}
  BY <1>1, Zenon DEF ToSet
<1>3. ToSet(t) \subseteq {"a", "x", "-", "."} <=> \A i \in 1..L : t[i] \in {"a", "x", "-", "."}
  BY <1>2
<1>4. "." \in ToSet(t) <=> \E i \in 1..L : t[i] = "."
  BY <1>2
<1>5. /\ WellFormed(t) => \A i \in 1..L : t[i] \in {".", "-"} => 1 < i /\ i < L
      /\ WellFormed(t) => \A i \in 1..L : t[i] = "." => t[i - 1] \notin {".", "-"} /\ t[i + 1] \notin {".", "-"}
  BY <1>1 DEF WellFormed
<1>6. WellFormed(t) <=>
           /\ L <= MaxName
           /\ \A i \in 1..L : t[i] \in {"a", "x", "-", "."}
           /\ \E i \in 1..L : t[i] = "."
           /\ \A i \in 1..L :
                t[i] \in {".", "-"} => /\ 1 < i /\ i < L
                                       /\ t[i] = "." => t[i - 1] \notin {".", "-"} /\ t[i + 1] \notin {".", "-"}
           /\ \A i, j \in 1..L : j - i >= MaxLabel => \E k \in i..j : t[k] = "."
  BY <1>1, <1>3, <1>4, Zenon DEF WellFormed
<1>7. QED
  BY <1>1, <1>5, <1>6, Zenon

\* A name whose labels fit is a name.
LEMMA FittingForms ==
  ASSUME NEW t \in Seq(Characters), MaxLabel \in Nat, MaxName \in Nat, Len(t) <= MaxName, 2 <= Len(Pieces(t, ".")),
         \A k \in DOMAIN Pieces(t, ".") : LabelFits(Pieces(t, ".")[k])
  PROVE  WellFormed(t)
<1>1. PICK P : P = Pieces(t, ".")
  OBVIOUS
<1>2. PICK n \in Nat \ {0} : \E b : CutInto(Characters, t, ".", b, n, P)
  BY <1>1, PiecesAre
<1>3. PICK a : CutInto(Characters, t, ".", a, n, P)
  BY <1>2
<1>4. CutAt(t, ".", a, n) /\ Len(P) = n /\ DOMAIN P = 1..n /\ \A k \in 1..n : P[k] = SubSeq(t, a[k] + 1, a[k + 1] - 1)
  BY <1>3, Zenon DEF CutInto
<1>5. PICK L \in Nat : L = Len(t)
  OBVIOUS
<1>6. /\ \A k \in 1..n + 1 : a[k] \in 0..L + 1
      /\ a[1] = 0 /\ a[n + 1] = L + 1
      /\ \A k \in 2..n : a[k] \in 1..L /\ t[a[k]] = "."
      /\ \A i \in 1..L : t[i] = "." => \E k \in 2..n : a[k] = i
  BY <1>4, <1>5 DEF CutAt
<1>7. 2 <= n
  BY <1>1, <1>4
<1>8. ASSUME NEW k \in 1..n
      PROVE  /\ a[k] \in 0..L /\ a[k + 1] \in 1..L + 1 /\ a[k + 1] - a[k] - 1 \in 1..MaxLabel
             /\ t[a[k] + 1] # "-" /\ t[a[k + 1] - 1] # "-"
             /\ \A i \in 1..(a[k + 1] - a[k] - 1) : t[a[k] + i] \in {"a", "x", "-"} /\ a[k] + i \in 1..L
  <2>1. PICK s : s = SubSeq(t, a[k] + 1, a[k + 1] - 1)
    OBVIOUS
  <2>2. PICK d : d = a[k + 1] - a[k] - 1
    OBVIOUS
  <2>3. /\ a[k] \in 0..L /\ a[k + 1] \in 1..L + 1 /\ d \in Nat /\ s \in Seq(Characters) /\ Len(s) = d
        /\ \A i \in 1..d : s[i] = t[a[k] + i] /\ a[k] + i \in 1..L
    <3>1. PieceIs(Characters, t, ".", a[k], a[k + 1], s)
      BY <1>4, <2>1, PieceHas
    <3>2. QED
      BY <1>5, <2>2, <3>1, Zenon DEF PieceIs
  <2>4. LabelFits(s)
    BY <1>1, <1>4, <2>1
  <2>5. d \in 1..MaxLabel /\ s[1] # "-" /\ s[d] # "-" /\ \A i \in 1..d : s[i] \in {"a", "x", "-"}
    BY <2>3, <2>4, FitsMeans
  <2>6. s[1] = t[a[k] + 1] /\ s[d] = t[a[k] + d]
    BY <2>3, <2>5
  <2>7. a[k] + d = a[k + 1] - 1
    <3>1. PICK from \in Int, to \in Int : from = a[k] /\ to = a[k + 1]
      BY <2>3
    <3>2. from + (to - from - 1) = to - 1
      OBVIOUS
    <3>3. QED
      BY <2>2, <3>1, <3>2
  <2>8. QED
    BY <2>2, <2>3, <2>5, <2>6, <2>7
<1>9. ASSUME NEW i \in 1..L
      PROVE  \/ \E k \in 2..n : a[k] = i /\ t[i] = "."
             \/ \E k \in 1..n : /\ a[k] < i /\ i < a[k + 1] /\ i - a[k] \in 1..(a[k + 1] - a[k] - 1)
                                /\ t[i] \in {"a", "x", "-"}
  <2>1. PICK K \in Nat : K = n + 1 /\ K >= 2
    BY <1>7
  <2>2. \E k \in 1..K - 1 : a[k] <= i /\ i < a[k + 1]
    <3>1. 1..n + 1 = 1..K /\ i \in 0..L
      BY <2>1
    <3>2. \A k \in 1..K : a[k] \in 0..L + 1
      BY <1>6, <3>1
    <3>3. a[1] = 0 /\ a[K] = L + 1
      BY <1>6, <2>1
    <3>4. QED
      BY <2>1, <3>1, <3>2, <3>3, PlaceCut
  <2>3. PICK k \in 1..n : a[k] <= i /\ i < a[k + 1]
    BY <2>1, <2>2
  <2>4. a[k] \in 0..L /\ a[k + 1] \in 1..L + 1
    BY <1>8
  <2>5. CASE a[k] = i
    <3>1. k # 1
      BY <1>6, <2>5
    <3>2. k \in 2..n
      BY <3>1
    <3>3. QED
      BY <1>6, <2>5, <3>2
  <2>6. CASE a[k] # i
    <3>1. a[k] < i /\ i - a[k] \in 1..(a[k + 1] - a[k] - 1) /\ a[k] + (i - a[k]) = i
      <4>1. PICK from \in Int, to \in Int : from = a[k] /\ to = a[k + 1]
        BY <2>4
      <4>2. from < i /\ i < to
        BY <2>3, <2>6, <4>1
      <4>3. i - from \in 1..(to - from - 1) /\ from + (i - from) = i
        BY <4>2
      <4>4. QED
        BY <4>1, <4>2, <4>3
    <3>2. t[i] \in {"a", "x", "-"}
      BY <1>8, <3>1
    <3>3. QED
      BY <2>3, <3>1, <3>2
  <2>7. QED
    BY <2>5, <2>6
<1>10. \A i \in 1..L : t[i] \in {"a", "x", "-", "."}
  BY <1>9
<1>11. \E i \in 1..L : t[i] = "."
  <2>1. 2 \in 2..n
    BY <1>7
  <2>2. QED
    BY <1>6, <2>1
<1>12. ASSUME NEW i \in 1..L, t[i] = "."
       PROVE  1 < i /\ i < L /\ t[i - 1] \notin {".", "-"} /\ t[i + 1] \notin {".", "-"}
  <2>1. PICK k \in 2..n : a[k] = i
    BY <1>6, <1>12
  <2>2. PICK l \in 1..n : l = k - 1 /\ l + 1 = k
    OBVIOUS
  <2>3. k \in 1..n
    OBVIOUS
  <2>4. /\ a[l] \in 0..L /\ i - a[l] - 1 \in 1..MaxLabel /\ t[i - 1] # "-"
        /\ \A j \in 1..(i - a[l] - 1) : t[a[l] + j] \in {"a", "x", "-"} /\ a[l] + j \in 1..L
    BY <1>8, <2>1, <2>2
  <2>5. /\ a[k + 1] \in 1..L + 1 /\ a[k + 1] - i - 1 \in 1..MaxLabel /\ t[i + 1] # "-"
        /\ \A j \in 1..(a[k + 1] - i - 1) : t[i + j] \in {"a", "x", "-"} /\ i + j \in 1..L
    BY <1>8, <2>1, <2>3
  <2>6. PICK d \in 1..(i - a[l] - 1) : a[l] + d = i - 1
    <3>1. PICK x \in 0..L : x = a[l] /\ i - x - 1 \in 1..MaxLabel
      BY <2>4
    <3>2. i - x - 1 \in 1..(i - x - 1) /\ x + (i - x - 1) = i - 1
      <4>1. i \in Int /\ x \in Int
        BY <1>5
      <4>2. 1 <= i - x - 1
        BY <3>1, <4>1
      <4>3. QED
        BY <4>1, <4>2
    <3>3. QED
      BY <3>1, <3>2
  <2>7. t[i - 1] \in {"a", "x", "-"} /\ i - 1 \in 1..L
    <3>1. t[a[l] + d] \in {"a", "x", "-"} /\ a[l] + d \in 1..L
      BY <2>4, <2>6
    <3>2. QED
      BY <2>6, <3>1
  <2>8. t[i + 1] \in {"a", "x", "-"} /\ i + 1 \in 1..L
    <3>1. 1 \in 1..(a[k + 1] - i - 1)
      BY <2>5
    <3>2. QED
      BY <2>5, <3>1
  <2>9. t[i - 1] \notin {".", "-"} /\ t[i + 1] \notin {".", "-"}
    BY <2>4, <2>5, <2>7, <2>8
  <2>10. 1 < i /\ i < L
    BY <2>7, <2>8
  <2>11. QED
    BY <2>9, <2>10
<1>13. ASSUME NEW i \in 1..L, t[i] = "-"
       PROVE  1 < i /\ i < L
  <2>1. PICK k \in 1..n : a[k] < i /\ i < a[k + 1]
    BY <1>9, <1>13
  <2>2. a[k] \in 0..L /\ a[k + 1] \in 1..L + 1 /\ t[a[k] + 1] # "-" /\ t[a[k + 1] - 1] # "-"
    BY <1>8
  <2>3. i # a[k] + 1 /\ i # a[k + 1] - 1
    BY <1>13, <2>2
  <2>4. PICK from \in Int, to \in Int : from = a[k] /\ to = a[k + 1] /\ 0 <= from /\ to <= L + 1
    BY <2>2
  <2>5. from < i /\ i < to /\ i # from + 1 /\ i # to - 1
    BY <2>1, <2>3, <2>4
  <2>6. from + 1 < i /\ i < to - 1
    BY <2>5
  <2>7. 1 < i
    BY <2>4, <2>6
  <2>8. i < L
    BY <2>4, <2>6
  <2>9. QED
    BY <2>7, <2>8
<1>14. ASSUME NEW i \in 1..L, NEW j \in 1..L, j - i >= MaxLabel
       PROVE  \E k \in i..j : t[k] = "."
  <2>1. i <= j
    BY <1>14
  <2>2. CASE t[i] = "."
    BY <2>1, <2>2
  <2>3. CASE t[i] # "."
    <3>1. PICK k \in 1..n : a[k] < i /\ i < a[k + 1]
      BY <1>9, <2>3
    <3>2. a[k] \in 0..L /\ a[k + 1] \in 1..L + 1 /\ a[k + 1] - a[k] - 1 \in 1..MaxLabel
      BY <1>8
    <3>3. a[k + 1] <= j
      <4>1. PICK from \in Int, to \in Int : from = a[k] /\ to = a[k + 1]
        BY <3>2
      <4>2. from < i /\ to - from - 1 <= MaxLabel /\ j - i >= MaxLabel
        BY <1>14, <3>1, <3>2, <4>1
      <4>3. to <= j
        BY <4>2
      <4>4. QED
        BY <4>1, <4>3
    <3>4. k # n
      BY <1>6, <3>2, <3>3
    <3>5. k + 1 \in 2..n
      BY <3>4
    <3>6. t[a[k + 1]] = "."
      BY <1>6, <3>5
    <3>8. a[k + 1] \in i..j
      BY <3>1, <3>2, <3>3
    <3>7. QED
      BY <3>6, <3>8
  <2>4. QED
    BY <2>2, <2>3
<1>15. QED
  BY <1>5, <1>10, <1>11, <1>12, <1>13, <1>14, FormMeans

\* The labels of a name fit.
LEMMA FormedFits ==
  ASSUME NEW t \in Seq(Characters), MaxLabel \in Nat, MaxName \in Nat, WellFormed(t)
  PROVE  /\ t # << >> /\ Len(t) <= MaxName /\ 2 <= Len(Pieces(t, "."))
         /\ \A k \in DOMAIN Pieces(t, ".") : LabelFits(Pieces(t, ".")[k])
<1>1. PICK P : P = Pieces(t, ".")
  OBVIOUS
<1>2. PICK n \in Nat \ {0} : \E b : CutInto(Characters, t, ".", b, n, P)
  BY <1>1, PiecesAre
<1>3. PICK a : CutInto(Characters, t, ".", a, n, P)
  BY <1>2
<1>4. CutAt(t, ".", a, n) /\ Len(P) = n /\ DOMAIN P = 1..n /\ \A k \in 1..n : P[k] = SubSeq(t, a[k] + 1, a[k + 1] - 1)
  BY <1>3, Zenon DEF CutInto
<1>5. PICK L \in Nat : L = Len(t)
  OBVIOUS
<1>6. /\ \A k \in 1..n + 1 : a[k] \in 0..L + 1
      /\ a[1] = 0 /\ a[n + 1] = L + 1
      /\ \A k \in 2..n : a[k] \in 1..L /\ t[a[k]] = "."
      /\ \A i \in 1..L : t[i] = "." => \E k \in 2..n : a[k] = i
  BY <1>4, <1>5 DEF CutAt
<1>7. /\ L <= MaxName
      /\ \A i \in 1..L : t[i] \in {"a", "x", "-", "."}
      /\ \E i \in 1..L : t[i] = "."
      /\ \A i \in 1..L : t[i] \in {".", "-"} => 1 < i /\ i < L
      /\ \A i \in 1..L : t[i] = "." => t[i - 1] \notin {".", "-"} /\ t[i + 1] \notin {".", "-"}
      /\ \A i, j \in 1..L : j - i >= MaxLabel => \E k \in i..j : t[k] = "."
  BY <1>5, FormMeans
<1>8. 2 <= n
  BY <1>6, <1>7
<1>9. ASSUME NEW k \in 1..n
      PROVE  LabelFits(P[k])
  <2>1. PICK s : s = SubSeq(t, a[k] + 1, a[k + 1] - 1)
    OBVIOUS
  <2>2. PICK from \in 0..L, to \in 1..L + 1 : from = a[k] /\ to = a[k + 1] /\ from < to
    <3>1. a[k] \in 0..Len(t) /\ a[k + 1] \in 1..Len(t) + 1 /\ a[k] < a[k + 1]
      BY <1>4, PieceHas DEF PieceIs
    <3>2. QED
      BY <1>5, <3>1
  <2>3. PICK d \in Nat : d = to - from - 1
    BY <2>2
  <2>4. /\ s \in Seq(Characters) /\ Len(s) = d
        /\ \A i \in 1..d : s[i] = t[from + i] /\ t[from + i] # "." /\ from + i \in 1..L
    <3>1. PieceIs(Characters, t, ".", a[k], a[k + 1], s)
      BY <1>4, <2>1, PieceHas
    <3>2. QED
      BY <1>5, <2>2, <2>3, <3>1, Zenon DEF PieceIs
  <2>5. from # 0 => t[from] = "." /\ from \in 1..L
    <3>1. SUFFICES ASSUME from # 0 PROVE t[from] = "." /\ from \in 1..L
      OBVIOUS
    <3>2. k # 1
      BY <1>6, <2>2, <3>1
    <3>3. k \in 2..n
      BY <3>2
    <3>4. QED
      BY <1>6, <2>2, <3>3
  <2>6. to # L + 1 => t[to] = "." /\ to \in 1..L
    <3>1. SUFFICES ASSUME to # L + 1 PROVE t[to] = "." /\ to \in 1..L
      OBVIOUS
    <3>2. k # n
      BY <1>6, <2>2, <3>1
    <3>3. k + 1 \in 2..n
      BY <3>2
    <3>4. QED
      BY <1>6, <2>2, <3>3
  <2>7. from # 0 \/ to # L + 1
    <3>1. SUFFICES ASSUME from = 0, to = L + 1 PROVE FALSE
      OBVIOUS
    <3>2. d = L
      BY <2>3, <3>1
    <3>3. \A i \in 1..L : t[i] # "."
      <4>1. \A i \in 1..L : from + i = i
        BY <3>1
      <4>2. QED
        BY <2>4, <3>2, <4>1
    <3>4. QED
      BY <1>7, <3>3
  <2>8. d # 0
    <3>1. SUFFICES ASSUME to = from + 1 PROVE FALSE
      BY <2>2, <2>3
    <3>2. CASE from = 0
      <4>1. t[1] = "." /\ 1 \in 1..L
        BY <2>6, <2>7, <3>1, <3>2
      <4>2. QED
        BY <1>7, <4>1
    <3>3. CASE from # 0
      <4>1. t[from] = "." /\ from \in 1..L
        BY <2>5, <3>3
      <4>2. from < L /\ t[from + 1] # "."
        BY <1>7, <4>1
      <4>3. to # L + 1 /\ t[to] # "."
        BY <3>1, <4>1, <4>2
      <4>4. QED
        BY <2>6, <4>3
    <3>4. QED
      BY <3>2, <3>3
  <2>9. d <= MaxLabel
    <3>1. SUFFICES ASSUME d > MaxLabel PROVE FALSE
      BY <2>3
    <3>2. PICK i \in 1..L, j \in 1..L : i = from + 1 /\ j = from + d
      <4>1. from + 1 \in 1..L /\ from + d \in 1..L
        <5>1. 1 \in 1..d /\ d \in 1..d
          BY <2>8
        <5>2. QED
          BY <2>4, <5>1
      <4>2. QED
        BY <4>1
    <3>3. j - i >= MaxLabel
      BY <3>1, <3>2
    <3>4. PICK l \in i..j : t[l] = "."
      BY <1>7, <3>3
    <3>5. l - from \in 1..d /\ from + (l - from) = l
      BY <3>2
    <3>6. QED
      BY <2>4, <3>4, <3>5
  <2>10. s[1] # "-"
    <3>1. SUFFICES ASSUME t[from + 1] = "-" PROVE FALSE
      BY <2>4, <2>8
    <3>2. from + 1 \in 1..L
      <4>1. 1 \in 1..d
        BY <2>8
      <4>2. QED
        BY <2>4, <4>1
    <3>3. 1 < from + 1
      BY <1>7, <3>1, <3>2
    <3>4. from # 0
      BY <3>3
    <3>5. t[from + 1] \notin {".", "-"}
      BY <1>7, <2>5, <3>4
    <3>6. QED
      BY <3>1, <3>5
  <2>11. s[d] # "-"
    <3>1. s[d] = t[from + d] /\ from + d = to - 1 /\ to - 1 \in 1..L
      <4>1. d \in 1..d /\ from + d = to - 1 /\ to - 1 \in 1..L
        <5>1. d \in 1..d
          BY <2>8
        <5>2. from + d = to - 1
          BY <2>3
        <5>3. QED
          BY <2>4, <5>1, <5>2
      <4>2. QED
        BY <2>4, <4>1
    <3>2. SUFFICES ASSUME t[to - 1] = "-" PROVE FALSE
      BY <3>1
    <3>3. to - 1 < L
      BY <1>7, <3>1, <3>2
    <3>4. to # L + 1
      BY <3>3
    <3>5. t[to - 1] \notin {".", "-"}
      BY <1>7, <2>6, <3>4
    <3>6. QED
      BY <3>2, <3>5
  <2>12. \A i \in 1..d : s[i] \in {"a", "x", "-"}
    BY <1>7, <2>4
  <2>13. LabelFits(s)
    BY <2>4, <2>8, <2>9, <2>10, <2>11, <2>12, FitsMeans
  <2>14. QED
    BY <1>4, <2>1, <2>13
<1>10. t # << >>
  BY <1>5, <1>7
<1>11. QED
  BY <1>1, <1>4, <1>5, <1>7, <1>8, <1>9, <1>10

\* _validate_ascii_domain accepts what is a name.
LEMMA FormChecked ==
  ASSUME NEW t \in Seq(Characters), MaxLabel \in Nat, MaxName \in Nat
  PROVE  AsciiFault(t) = "none" <=> WellFormed(t)
<1>1. AsciiFault(t) = "none" => WellFormed(t)
  BY LabelsFit, FittingForms
<1>2. WellFormed(t) => AsciiFault(t) = "none"
  BY LabelsFit, FormedFits
<1>3. QED
  BY <1>1, <1>2

\* A blank, by a name that every prover can read.
Blank == " "

\* s is what is left of a text that is not blank, from lo on.
BareOf(S, t, lo, s) ==
  /\ s \in Seq(S) /\ Len(s) # 0 /\ lo \in 1..Len(t) /\ lo + Len(s) - 1 \in 1..Len(t)
  /\ \A i \in 1..Len(s) : s[i] = t[lo + i - 1]
  /\ s[1] # Blank /\ s[Len(s)] # Blank
  /\ \A i \in 1..Len(t) : i < lo \/ i > lo + Len(s) - 1 => t[i] = Blank

\* str.strip takes the blanks away before and after.
LEMMA StripIs ==
  ASSUME NEW S, NEW t \in Seq(S)
  PROVE  /\ Strip(t) \in Seq(S)
         /\ \/ Strip(t) = << >> /\ \A i \in 1..Len(t) : t[i] = Blank
            \/ \E lo \in Nat : BareOf(S, t, lo, Strip(t))
<1>1. PICK L \in Nat : L = Len(t) /\ DOMAIN t = 1..L
  OBVIOUS
<1>2. PICK solid : solid = {i \in DOMAIN t : t[i] # Blank}
  OBVIOUS
<1>3. Strip(t) = IF solid = {} THEN << >> ELSE SubSeq(t, Min(solid), Max(solid))
  BY <1>2, Zenon DEF Strip, Blank
<1>4. CASE solid = {}
  <2>1. \A i \in 1..L : t[i] = Blank
    BY <1>1, <1>2, <1>4
  <2>2. Strip(t) = << >>
    BY <1>3, <1>4
  <2>3. << >> \in Seq(S)
    OBVIOUS
  <2>4. QED
    BY <1>1, <2>1, <2>2, <2>3
<1>5. CASE solid # {}
  <2>1. solid \in SUBSET (1..L) /\ solid \in SUBSET Nat
    BY <1>1, <1>2
  <2>2. Min(solid) \in solid /\ \A n \in solid : Min(solid) <= n
    BY <1>5, <2>1, LeastOf
  <2>3. \E m \in solid : \A n \in solid : n <= m
    <3>1. 1 \in Nat
      OBVIOUS
    <3>2. QED
      BY <1>1, <1>5, <2>1, <3>1, GreatestMember
  <2>4. \E m \in solid : \A n \in solid : m >= n
    BY <2>1, <2>3
  <2>5. Max(solid) \in solid /\ \A n \in solid : Max(solid) >= n
    BY <2>4, Zenon DEF Max
  <2>6. PICK lo, hi : lo = Min(solid) /\ hi = Max(solid)
    OBVIOUS
  <2>7. lo \in 1..L /\ hi \in 1..L /\ lo <= hi /\ t[lo] # Blank /\ t[hi] # Blank
    BY <1>1, <1>2, <2>1, <2>2, <2>5, <2>6
  <2>8. \A i \in 1..L : t[i] # Blank => lo <= i /\ i <= hi
    BY <1>1, <1>2, <2>1, <2>2, <2>5, <2>6
  <2>9. PICK s : s = SubSeq(t, lo, hi)
    OBVIOUS
  <2>10. s \in Seq(S) /\ Len(s) = hi - lo + 1 /\ \A i \in 1..(hi - lo + 1) : s[i] = t[lo + i - 1]
    <3>1. lo \in Nat \ {0} /\ hi \in Nat /\ hi <= Len(t) /\ lo <= hi + 1
      BY <1>1, <2>7
    <3>2. QED
      BY <2>9, <3>1, PartOf
  <2>11. Strip(t) = s
    BY <1>3, <1>5, <2>6, <2>9, Zenon
  <2>12. BareOf(S, t, lo, s)
    <3>1. s \in Seq(S) /\ Len(s) # 0 /\ lo \in 1..Len(t) /\ lo + Len(s) - 1 = hi /\ hi \in 1..Len(t)
      BY <1>1, <2>7, <2>10
    <3>2. \A i \in 1..Len(s) : s[i] = t[lo + i - 1]
      BY <2>10
    <3>3. s[1] = t[lo] /\ s[Len(s)] = t[hi]
      BY <2>7, <2>10
    <3>4. \A i \in 1..Len(t) : i < lo \/ i > hi => t[i] = Blank
      BY <1>1, <2>7, <2>8
    <3>5. QED
      BY <2>7, <3>1, <3>2, <3>3, <3>4 DEF BareOf
  <2>13. lo \in Nat
    BY <2>7
  <2>14. QED
    BY <2>10, <2>11, <2>12, <2>13, Zenon
<1>6. QED
  BY <1>4, <1>5

\* A text with no blank at its ends stays what it is.
LEMMA StripSame ==
  ASSUME NEW S, NEW t \in Seq(S), Len(t) # 0, t[1] # Blank, t[Len(t)] # Blank
  PROVE  Strip(t) = t
<1>1. PICK L \in Nat : L = Len(t) /\ L >= 1
  <2>1. Len(t) \in Nat
    OBVIOUS
  <2>2. QED
    BY <2>1
<1>2. PICK s : s = Strip(t)
  OBVIOUS
<1>3. s \in Seq(S)
  BY <1>2, StripIs
<1>4. PICK lo \in Nat : BareOf(S, t, lo, s)
  <2>1. ~(\A i \in 1..L : t[i] = Blank)
    BY <1>1
  <2>2. QED
    BY <1>1, <1>2, <2>1, StripIs
<1>5. PICK M \in Nat : M = Len(s)
  BY <1>3
<1>6. /\ lo \in 1..L /\ lo + M - 1 \in 1..L
      /\ \A i \in 1..M : s[i] = t[lo + i - 1]
      /\ \A i \in 1..L : i < lo \/ i > lo + M - 1 => t[i] = Blank
  BY <1>1, <1>4, <1>5 DEF BareOf
<1>7. lo = 1
  BY <1>1, <1>6
<1>8. M = L
  <2>1. L \in 1..L
    BY <1>1
  <2>2. ~(L > lo + M - 1)
    BY <1>1, <1>6, <2>1
  <2>3. QED
    BY <1>6, <1>7, <2>2
<1>9. \A i \in 1..Len(s) : s[i] = t[i]
  BY <1>5, <1>6, <1>7
<1>10. QED
  BY <1>1, <1>2, <1>3, <1>5, <1>8, <1>9, SameText

\* A text without the dot of the root, and what is made of it.
Unrooted(t) == IF t # << >> /\ Last(t) = "." THEN Front(t) ELSE t

Dotted(t) == [i \in DOMAIN t |-> IF t[i] = "o" THEN "." ELSE t[i]]

AsciiName(t) == Joined([k \in DOMAIN Labelled(t) |-> AsciiLabel(Labelled(t)[k])], ".")

NameFault(t) == Reason(<<<<t = << >>, "empty">>, <<Blank \in ToSet(t), "whitespace">>, <<~Encodable(t), "IDN">>,
                         <<TRUE, AsciiFault(AsciiName(t))>>>>)

\* What is made of a text when it is normalised.
LEMMA NormalizedMeans ==
  ASSUME NEW text, NEW t, t = Unrooted(Lowered(Strip(text)))
  PROVE  Normalized(text) = <<NameFault(t), IF NameFault(t) = "none" THEN AsciiName(t) ELSE << >>>>
  BY Zenon DEF Normalized, Unrooted, AsciiName, NameFault, Blank

\* A lowered text has the same length; only "A" changes.
LEMMA LoweredIs ==
  ASSUME NEW t \in Seq(Characters)
  PROVE  /\ Lowered(t) \in Seq(Characters) /\ Len(Lowered(t)) = Len(t)
         /\ \A i \in 1..Len(t) : Lowered(t)[i] = IF t[i] = "A" THEN "a" ELSE t[i]
<1>1. Lowered(t) = [i \in 1..Len(t) |-> IF t[i] = "A" THEN "a" ELSE t[i]]
  BY DEF Lowered
<1>2. \A i \in 1..Len(t) : (IF t[i] = "A" THEN "a" ELSE t[i]) \in Characters
  <2>1. "a" \in Characters
    BY CharactersAssumption
  <2>2. QED
    BY <2>1
<1>3. QED
  BY <1>1, <1>2

\* The name without the dot of the root.
LEMMA UnrootedIs ==
  ASSUME NEW t \in Seq(Characters)
  PROVE  /\ Unrooted(t) \in Seq(Characters)
         /\ Len(t) # 0 /\ t[Len(t)] = "." => /\ Len(Unrooted(t)) = Len(t) - 1
                                             /\ \A i \in 1..Len(t) - 1 : Unrooted(t)[i] = t[i]
         /\ Len(t) = 0 \/ t[Len(t)] # "." => Unrooted(t) = t
<1>1. PICK L \in Nat : L = Len(t)
  OBVIOUS
<1>2. t = << >> <=> L = 0
  BY <1>1
<1>3. Last(t) = t[L]
  BY <1>1, Zenon DEF Last
<1>4. Front(t) = SubSeq(t, 1, L - 1)
  BY <1>1, Zenon DEF Front
<1>5. CASE L # 0 /\ t[L] = "."
  <2>1. Unrooted(t) = SubSeq(t, 1, L - 1)
    BY <1>2, <1>3, <1>4, <1>5, Zenon DEF Unrooted
  <2>2. 1 \in Nat \ {0} /\ L - 1 \in Nat /\ L - 1 <= Len(t) /\ 1 <= (L - 1) + 1 /\ (L - 1) - 1 + 1 = L - 1
        /\ \A i \in 1..L - 1 : 1 + i - 1 = i
    BY <1>1, <1>5
  <2>3. PICK hi \in Nat : hi = L - 1
    BY <2>2
  <2>4. /\ SubSeq(t, 1, hi) \in Seq(Characters) /\ Len(SubSeq(t, 1, hi)) = hi - 1 + 1
        /\ \A i \in 1..(hi - 1 + 1) : SubSeq(t, 1, hi)[i] = t[1 + i - 1]
    BY <2>2, <2>3, PartOf
  <2>5. QED
    BY <1>1, <1>5, <2>1, <2>2, <2>3, <2>4
<1>6. CASE L = 0 \/ t[L] # "."
  <2>1. Unrooted(t) = t
    BY <1>2, <1>3, <1>6, Zenon DEF Unrooted
  <2>2. QED
    BY <1>1, <1>6, <2>1
<1>7. QED
  BY <1>5, <1>6

\* The text with every full stop the same.
LEMMA DottedIs ==
  ASSUME NEW t \in Seq(Characters)
  PROVE  /\ Dotted(t) \in Seq(Characters) /\ Len(Dotted(t)) = Len(t)
         /\ \A i \in 1..Len(t) : Dotted(t)[i] = IF t[i] = "o" THEN "." ELSE t[i]
<1>1. Dotted(t) = [i \in 1..Len(t) |-> IF t[i] = "o" THEN "." ELSE t[i]]
  BY DEF Dotted
<1>2. \A i \in 1..Len(t) : (IF t[i] = "o" THEN "." ELSE t[i]) \in Characters
  <2>1. "." \in Characters
    BY CharactersAssumption
  <2>2. QED
    BY <2>1
<1>3. QED
  BY <1>1, <1>2

\* A text that has no other full stop stays what it is.
LEMMA DottedSame ==
  ASSUME NEW t \in Seq(Characters), \A i \in 1..Len(t) : t[i] # "o"
  PROVE  Labelled(t) = Pieces(t, ".")
<1>1. Dotted(t) = t
  BY DottedIs, SameText
<1>2. QED
  BY <1>1, Zenon DEF Labelled, Dotted

\* The labels of a text are texts, and there is at least one.
LEMMA LabelledTyped ==
  ASSUME NEW t \in Seq(Characters)
  PROVE  Labelled(t) \in Seq(Seq(Characters)) /\ Len(Labelled(t)) # 0 /\ Len(Labelled(t)) \in Nat
<1>1. PICK d \in Seq(Characters) : d = Dotted(t)
  BY DottedIs
<1>2. PICK n \in Nat \ {0} : \E b : CutInto(Characters, d, ".", b, n, Pieces(d, "."))
  BY <1>1, PiecesAre
<1>3. PICK P : P = Pieces(d, ".")
  OBVIOUS
<1>4. P \in Seq(Seq(Characters)) /\ Len(P) = n
  BY <1>2, <1>3, Zenon DEF CutInto
<1>5. Labelled(t) = P
  BY <1>1, <1>3, Zenon DEF Labelled, Dotted
<1>6. QED
  BY <1>4, <1>5

\* A label in ASCII: itself, if it is.
LEMMA AsciiLabelIs ==
  ASSUME NEW s \in Seq(Characters)
  PROVE  /\ AsciiLabel(s) \in Seq(Characters)
         /\ (\A i \in 1..Len(s) : s[i] # "u") => AsciiLabel(s) = s
<1>1. ToSet(s) = {s[i] : i \in 1..Len(s)}
  BY DEF ToSet
<1>2. CASE "u" \in ToSet(s)
  <2>1. PICK w : w = [i \in DOMAIN s |-> IF s[i] = "u" THEN "a" ELSE s[i]]
    OBVIOUS
  <2>2. w = [i \in 1..Len(s) |-> IF s[i] = "u" THEN "a" ELSE s[i]]
    BY <2>1
  <2>3. \A i \in 1..Len(s) : (IF s[i] = "u" THEN "a" ELSE s[i]) \in Characters
    <3>1. "a" \in Characters
      BY CharactersAssumption
    <3>2. QED
      BY <3>1
  <2>4. w \in Seq(Characters)
    BY <2>2, <2>3
  <2>5. <<"x">> \in Seq(Characters)
    <3>1. "x" \in Characters
      BY CharactersAssumption
    <3>2. QED
      BY <3>1
  <2>6. <<"x">> \o w \in Seq(Characters)
    BY <2>4, <2>5
  <2>7. AsciiLabel(s) = <<"x">> \o w
    BY <1>2, <2>1, Zenon DEF AsciiLabel
  <2>8. QED
    BY <1>1, <1>2, <2>6, <2>7
<1>3. CASE "u" \notin ToSet(s)
  <2>1. AsciiLabel(s) = s
    BY <1>3, Zenon DEF AsciiLabel
  <2>2. QED
    BY <2>1
<1>4. QED
  BY <1>2, <1>3

\* The name is a text; one that is ASCII stays what it is.
LEMMA AsciiNameIs ==
  ASSUME NEW t \in Seq(Characters)
  PROVE  /\ AsciiName(t) \in Seq(Characters)
         /\ (\A i \in 1..Len(t) : t[i] # "u" /\ t[i] # "o") => AsciiName(t) = t
<1>1. PICK L : L = Labelled(t)
  OBVIOUS
<1>2. PICK T : T = Seq(Characters)
  OBVIOUS
<1>3. L \in Seq(T) /\ Len(L) # 0 /\ Len(L) \in Nat
  BY <1>1, <1>2, LabelledTyped
<1>4. PICK E : E = [k \in DOMAIN L |-> AsciiLabel(L[k])]
  OBVIOUS
<1>5. AsciiName(t) = Joined(E, ".")
  BY <1>1, <1>4, Zenon DEF AsciiName
<1>6. \A k \in 1..Len(L) : L[k] \in T /\ AsciiLabel(L[k]) \in T
  <2>1. \A k \in 1..Len(L) : L[k] \in T
    BY <1>3
  <2>2. QED
    BY <1>2, <2>1, AsciiLabelIs
<1>7. E \in Seq(T) /\ Len(E) = Len(L)
  <2>1. E = [k \in 1..Len(L) |-> AsciiLabel(L[k])]
    BY <1>3, <1>4
  <2>2. QED
    BY <1>3, <1>6, <2>1
<1>8. AsciiName(t) \in Seq(Characters)
  <2>1. E \in Seq(Seq(Characters)) /\ Len(E) # 0 /\ "." \in Characters
    <3>1. "." \in Characters
      BY CharactersAssumption
    <3>2. QED
      BY <1>2, <1>3, <1>7, <3>1
  <2>2. QED
    BY <1>5, <2>1, JoinedTyped
<1>9. ASSUME \A i \in 1..Len(t) : t[i] # "u" /\ t[i] # "o"
      PROVE  AsciiName(t) = t
  <2>1. L = Pieces(t, ".")
    BY <1>1, <1>9, DottedSame
  <2>2. PICK n \in Nat \ {0} : \E b : CutInto(Characters, t, ".", b, n, L)
    BY <2>1, PiecesAre
  <2>3. PICK a : CutInto(Characters, t, ".", a, n, L)
    BY <2>2
  <2>4. CutAt(t, ".", a, n) /\ DOMAIN L = 1..n /\ \A k \in 1..n : L[k] = SubSeq(t, a[k] + 1, a[k + 1] - 1)
    BY <2>3, Zenon DEF CutInto
  <2>5. ASSUME NEW k \in 1..n
        PROVE  AsciiLabel(L[k]) = L[k]
    <3>1. PICK s : s = SubSeq(t, a[k] + 1, a[k + 1] - 1)
      OBVIOUS
    <3>2. PieceIs(Characters, t, ".", a[k], a[k + 1], s)
      BY <2>4, <3>1, PieceHas
    <3>3. PICK d \in Nat : /\ d = a[k + 1] - a[k] - 1 /\ s \in Seq(Characters) /\ Len(s) = d
                           /\ \A i \in 1..d : s[i] = t[a[k] + i] /\ a[k] + i \in 1..Len(t)
      BY <3>2, Zenon DEF PieceIs
    <3>4. \A i \in 1..Len(s) : s[i] # "u"
      BY <1>9, <3>3
    <3>5. AsciiLabel(s) = s
      BY <3>3, <3>4, AsciiLabelIs
    <3>6. QED
      BY <2>4, <3>1, <3>5
  <2>6. \A k \in DOMAIN L : E[k] = L[k] /\ E[k] \in T
    BY <1>4, <1>3, <2>4, <2>5
  <2>7. E = L
    <3>1. \A k \in 1..Len(E) : E[k] = L[k]
      BY <1>3, <1>7, <2>6
    <3>2. QED
      BY <1>3, <1>7, <3>1, SameText
  <2>8. QED
    BY <1>5, <2>1, <2>7, JoinedBack
<1>10. QED
  BY <1>8, <1>9

\* What it is to be a name that no check complains of.
LEMMA NameFaultNone ==
  ASSUME NEW t
  PROVE  NameFault(t) = "none" <=> t # << >> /\ Blank \notin ToSet(t) /\ Encodable(t) /\ AsciiFault(AsciiName(t)) = "none"
<1>1. PICK A, B, C, D : A = (t = << >>) /\ B = (Blank \in ToSet(t)) /\ C = (~Encodable(t)) /\ D = TRUE
  OBVIOUS
<1>2. A \in BOOLEAN /\ B \in BOOLEAN /\ C \in BOOLEAN /\ D \in BOOLEAN
  BY <1>1
<1>3. PICK d : d = AsciiFault(AsciiName(t))
  OBVIOUS
<1>4. PICK R : R = NameFault(t)
  OBVIOUS
<1>5. R = Reason(<<<<A, "empty">>, <<B, "whitespace">>, <<C, "IDN">>, <<D, d>>>>)
  BY <1>1, <1>3, <1>4, Zenon DEF NameFault
<1>6. /\ A => R = "empty"
      /\ ~A /\ B => R = "whitespace"
      /\ ~A /\ ~B /\ C => R = "IDN"
      /\ ~A /\ ~B /\ ~C /\ D => R = d
  BY <1>2, <1>5, ReasonOfFour
<1>7. R = "none" <=> ~A /\ ~B /\ ~C /\ d = "none"
  BY <1>1, <1>2, <1>6
<1>8. QED
  BY <1>1, <1>3, <1>4, <1>7, Zenon

\* What is in a name.
LEMMA FormedHas ==
  ASSUME NEW t \in Seq(Characters), MaxLabel \in Nat, MaxName \in Nat, WellFormed(t)
  PROVE  /\ Len(t) \in Nat /\ Len(t) # 0 /\ \A i \in 1..Len(t) : t[i] \in {"a", "x", "-", "."}
         /\ t[1] # "." /\ t[Len(t)] # "."
<1>1. PICK L \in Nat : L = Len(t)
  OBVIOUS
<1>2. t # << >>
  BY FormedFits
<1>3. L # 0
  BY <1>1, <1>2
<1>4. /\ \A i \in 1..L : t[i] \in {"a", "x", "-", "."}
      /\ \A i \in 1..L : t[i] \in {".", "-"} => 1 < i /\ i < L
  BY <1>1, FormMeans
<1>5. t[1] # "." /\ t[L] # "."
  <2>1. 1 \in 1..L /\ L \in 1..L
    BY <1>3
  <2>2. QED
    BY <1>4, <2>1
<1>6. QED
  BY <1>1, <1>3, <1>4, <1>5

\* IDNA has nothing against the labels of a name.
Unbarred(t) == \A k \in DOMAIN Pieces(t, ".") : ~Barred(Pieces(t, ".")[k])

\* In ASCII, the labels that IDNA takes are those it has nothing against.
LEMMA AllowedMeans ==
  ASSUME NEW label, "u" \notin ToSet(label)
  PROVE  Allowed(label) <=> ~Barred(label)
<1>1. AsciiLabel(label) = label
  BY Zenon DEF AsciiLabel
<1>2. QED
  BY <1>1, Zenon DEF Allowed, Barred

\* The ASCII form of a label that IDNA takes is one that it takes again.
LEMMA AllowedKept ==
  ASSUME NEW s \in Seq(Characters), s # << >>, ToSet(s) \subseteq {"a", "u", "x", "-"}, Allowed(s)
  PROVE  /\ ~Barred(AsciiLabel(s))
         /\ \A i \in 1..Len(AsciiLabel(s)) : AsciiLabel(s)[i] \in {"a", "x", "-"}
<1>1. PICK e : e = AsciiLabel(s)
  OBVIOUS
<1>2. e \notin BadALabels
  BY <1>1, Zenon DEF Allowed
<1>3. ToSet(s) = {s[i] : i \in 1..Len(s)}
  BY DEF ToSet
<1>4. \A i \in 1..Len(s) : s[i] \in {"a", "u", "x", "-"}
  BY <1>3
<1>5. CASE "u" \in ToSet(s)
  <2>1. PICK w : w = [i \in DOMAIN s |-> IF s[i] = "u" THEN "a" ELSE s[i]]
    OBVIOUS
  <2>2. w = [i \in 1..Len(s) |-> IF s[i] = "u" THEN "a" ELSE s[i]]
    BY <2>1
  <2>3. e = <<"x">> \o w
    BY <1>1, <1>5, <2>1, Zenon DEF AsciiLabel
  <2>4. PICK A : A = {"a", "x", "-"}
    OBVIOUS
  <2>5. w \in Seq(A)
    BY <1>4, <2>2, <2>4
  <2>6. <<"x">> \in Seq(A)
    BY <2>4
  <2>7. e \in Seq(A) /\ e[1] = "x"
    BY <2>3, <2>5, <2>6
  <2>8. \A i \in 1..Len(e) : e[i] \in A
    BY <2>7
  <2>9. ~Barred(e)
    BY <1>2, <2>7, Zenon DEF Barred
  <2>10. QED
    BY <1>1, <2>4, <2>8, <2>9
<1>6. CASE "u" \notin ToSet(s)
  <2>1. e = s
    BY <1>1, <1>6, Zenon DEF AsciiLabel
  <2>2. ~Barred(e)
    BY <1>6, <2>1, AllowedMeans, Zenon
  <2>3. \A i \in 1..Len(s) : s[i] \in {"a", "x", "-"}
    BY <1>3, <1>4, <1>6
  <2>4. QED
    BY <1>1, <2>1, <2>2, <2>3
<1>7. QED
  BY <1>5, <1>6

\* There is nothing against a name of such labels, and it is its own ASCII form.
LEMMA FormedPasses ==
  ASSUME NEW t \in Seq(Characters), MaxLabel \in Nat, MaxName \in Nat, WellFormed(t)
  PROVE  (NameFault(t) = "none" <=> Unbarred(t)) /\ AsciiName(t) = t
<1>1. \A i \in 1..Len(t) : t[i] \in {"a", "x", "-", "."}
  BY FormedHas
<1>2. \A i \in 1..Len(t) : t[i] # "u" /\ t[i] # "o"
  BY <1>1
<1>3. AsciiName(t) = t /\ Labelled(t) = Pieces(t, ".")
  BY <1>2, AsciiNameIs, DottedSame
<1>4. t # << >> /\ \A k \in DOMAIN Pieces(t, ".") : LabelFits(Pieces(t, ".")[k])
  BY FormedFits
<1>5. Blank \notin ToSet(t)
  <2>1. ToSet(t) = {t[i] : i \in 1..Len(t)}
    BY DEF ToSet
  <2>2. Blank \notin {"a", "x", "-", "."}
    BY Zenon DEF Blank
  <2>3. QED
    BY <1>1, <2>1, <2>2
<1>6. Encodable(t) <=> Unbarred(t)
  <2>1. PICK P : P = Pieces(t, ".")
    OBVIOUS
  <2> DEFINE Good(k) == /\ P[k] = << >> => k = Len(P) /\ k > 1
                        /\ P[k] # << >> => /\ ToSet(P[k]) \subseteq {"a", "u", "x", "-"}
                                           /\ "-" \notin Ends(P[k])
                                           /\ Allowed(P[k])
                                           /\ Len(AsciiLabel(P[k])) <= MaxLabel
  <2>a. Encodable(t) <=> \A k \in DOMAIN P : Good(k)
    BY <1>3, <2>1, Zenon DEF Encodable
  <2>b. Unbarred(t) <=> \A k \in DOMAIN P : ~Barred(P[k])
    BY <2>1, Zenon DEF Unbarred
  <2>2. SUFFICES ASSUME NEW k \in DOMAIN P
                 PROVE  Good(k) <=> ~Barred(P[k])
    <3> HIDE DEF Good
    <3>1. QED
      BY <2>a, <2>b, Zenon
  <2>3. PICK label : label = P[k]
    OBVIOUS
  <2>4. label # << >> /\ Len(label) <= MaxLabel /\ "-" \notin Ends(label) /\ ToSet(label) \subseteq {"a", "x", "-"}
    BY <1>4, <2>1, <2>3, Zenon DEF LabelFits
  <2>5. "u" \notin ToSet(label) /\ ToSet(label) \subseteq {"a", "u", "x", "-"}
    BY <2>4
  <2>6. AsciiLabel(label) = label
    BY <2>5, Zenon DEF AsciiLabel
  <2>7. Allowed(label) <=> ~Barred(label)
    BY <2>5, AllowedMeans, Zenon
  <2>8. QED
    BY <2>3, <2>4, <2>5, <2>6, <2>7, Zenon
<1>7. AsciiFault(t) = "none"
  BY FormChecked
<1>8. QED
  BY <1>3, <1>4, <1>5, <1>6, <1>7, NameFaultNone

\* A name is what is checked when it is normalised, with and without the dot
\* of the root.
LEMMA FormedBare ==
  ASSUME NEW t \in Seq(Characters), MaxLabel \in Nat, MaxName \in Nat, WellFormed(t)
  PROVE  Unrooted(Lowered(Strip(t))) = t /\ Unrooted(Lowered(Strip(Append(t, ".")))) = t
<1>1. PICK L \in Nat : L = Len(t) /\ L # 0 /\ \A i \in 1..L : t[i] \in {"a", "x", "-", "."}
  BY FormedHas
<1>2. t[1] # "." /\ t[L] # "."
  BY <1>1, FormedHas
<1>3. Blank \notin {"a", "x", "-", "."}
  BY Zenon DEF Blank
<1>4. \A i \in 1..L : t[i] # Blank /\ t[i] # "A"
  BY <1>1, <1>3
<1>5. 1 \in 1..L /\ L \in 1..L
  BY <1>1
<1>6. Strip(t) = t
  BY <1>1, <1>4, <1>5, StripSame
<1>7. Lowered(t) = t
  <2>1. \A i \in 1..Len(t) : Lowered(t)[i] = t[i]
    BY <1>1, <1>4, LoweredIs
  <2>2. QED
    BY <2>1, LoweredIs, SameText
<1>8. Unrooted(t) = t
  BY <1>1, <1>2, UnrootedIs
<1>9. PICK w : w = Append(t, ".")
  OBVIOUS
<1>10. "." \in Characters
  BY CharactersAssumption
<1>11. w \in Seq(Characters) /\ Len(w) = L + 1 /\ w[L + 1] = "." /\ \A i \in 1..L : w[i] = t[i]
  BY <1>1, <1>9, <1>10
<1>12. \A i \in 1..L + 1 : w[i] # Blank /\ w[i] # "A"
  <2>1. Blank # "."
    BY <1>3
  <2>2. QED
    BY <1>1, <1>4, <1>11, <2>1
<1>13. Strip(w) = w
  <2>1. 1 \in 1..L + 1 /\ L + 1 \in 1..L + 1 /\ L + 1 # 0
    BY <1>1
  <2>2. QED
    BY <1>11, <1>12, <2>1, StripSame
<1>14. Lowered(w) = w
  <2>1. \A i \in 1..Len(w) : Lowered(w)[i] = w[i]
    BY <1>11, <1>12, LoweredIs
  <2>2. QED
    BY <1>11, <2>1, LoweredIs, SameText
<1>15. Unrooted(w) = t
  <2>1. L + 1 # 0 /\ (L + 1) - 1 = L
    BY <1>1
  <2>2. Len(Unrooted(w)) = L /\ Unrooted(w) \in Seq(Characters) /\ \A i \in 1..L : Unrooted(w)[i] = w[i]
    BY <1>11, <2>1, UnrootedIs
  <2>3. \A i \in 1..L : Unrooted(w)[i] = t[i]
    BY <1>11, <2>2
  <2>4. QED
    BY <1>1, <2>2, <2>3, SameText
<1>16. QED
  BY <1>6, <1>7, <1>8, <1>9, <1>13, <1>14, <1>15

\* A name of such labels is normalised to itself.
LEMMA FormedKept ==
  ASSUME NEW t \in Seq(Characters), MaxLabel \in Nat, MaxName \in Nat, WellFormed(t), Unbarred(t)
  PROVE  Normalized(t) = <<"none", t>> /\ Normalized(Append(t, ".")) = <<"none", t>>
<1>1. NameFault(t) = "none" /\ AsciiName(t) = t
  BY FormedPasses
<1>2. Unrooted(Lowered(Strip(t))) = t /\ Unrooted(Lowered(Strip(Append(t, ".")))) = t
  BY FormedBare
<1>3. Normalized(t) = <<NameFault(t), IF NameFault(t) = "none" THEN AsciiName(t) ELSE << >>>>
  BY <1>2, NormalizedMeans, Zenon
<1>4. Normalized(Append(t, ".")) = <<NameFault(t), IF NameFault(t) = "none" THEN AsciiName(t) ELSE << >>>>
  BY <1>2, NormalizedMeans, Zenon
<1>5. QED
  BY <1>1, <1>3, <1>4, Zenon

\* What a text is checked as.
LEMMA BareTyped ==
  ASSUME NEW text \in Seq(Characters)
  PROVE  /\ Strip(text) \in Seq(Characters) /\ Lowered(Strip(text)) \in Seq(Characters)
         /\ Unrooted(Lowered(Strip(text))) \in Seq(Characters)
<1>1. PICK s \in Seq(Characters) : s = Strip(text)
  BY StripIs
<1>2. PICK w \in Seq(Characters) : w = Lowered(s)
  BY LoweredIs
<1>3. Unrooted(w) \in Seq(Characters)
  BY UnrootedIs
<1>4. QED
  BY <1>1, <1>2, <1>3

\* The labels of a name that was encoded are those that were made for it.
LEMMA EncodedUnbarred ==
  ASSUME NEW t \in Seq(Characters), MaxLabel \in Nat, MaxName \in Nat, Encodable(t), AsciiFault(AsciiName(t)) = "none"
  PROVE  Unbarred(AsciiName(t))
<1>1. PICK T, c : T = Seq(Characters) /\ c = "."
  OBVIOUS
<1>2. PICK L \in Seq(T) : L = Labelled(t) /\ Len(L) # 0 /\ Len(L) \in Nat
  BY <1>1, LabelledTyped
<1>3. PICK E : E = [k \in DOMAIN L |-> AsciiLabel(L[k])]
  OBVIOUS
<1>4. AsciiName(t) = Joined(E, c)
  BY <1>1, <1>2, <1>3, Zenon DEF AsciiName
<1>5. DOMAIN L = 1..Len(L) /\ \A k \in 1..Len(L) : L[k] \in T
  BY <1>2
<1>6. \A k \in 1..Len(L) : AsciiLabel(L[k]) \in T
  BY <1>1, <1>5, AsciiLabelIs
<1>7. E \in Seq(T) /\ Len(E) = Len(L) /\ DOMAIN E = 1..Len(L) /\ \A k \in 1..Len(L) : E[k] = AsciiLabel(L[k])
  BY <1>3, <1>5, <1>6
<1>8. \A k \in 1..Len(L) : L[k] # << >> => ToSet(L[k]) \subseteq {"a", "u", "x", "-"} /\ Allowed(L[k])
  BY <1>2, <1>5, Zenon DEF Encodable
<1>9. ASSUME NEW k \in 1..Len(L), E[k] # << >>
      PROVE  ~Barred(E[k]) /\ \A i \in 1..Len(E[k]) : E[k][i] \in {"a", "x", "-"}
  <2>1. PICK s \in Seq(Characters) : s = L[k]
    BY <1>1, <1>5
  <2>2. s # << >>
    <3>1. SUFFICES ASSUME s = << >> PROVE E[k] = << >>
      BY <1>9
    <3>2. AsciiLabel(s) = s
      <4>1. Len(s) = 0
        BY <3>1
      <4>2. \A i \in 1..Len(s) : s[i] # "u"
        BY <4>1
      <4>3. QED
        BY <4>2, AsciiLabelIs
    <3>3. QED
      BY <1>7, <2>1, <3>1, <3>2, Zenon
  <2>3. ToSet(s) \subseteq {"a", "u", "x", "-"} /\ Allowed(s)
    BY <1>8, <2>1, <2>2, Zenon
  <2>4. QED
    BY <1>7, <2>1, <2>2, <2>3, AllowedKept
<1>10. \A k \in 1..Len(E) : \A i \in 1..Len(E[k]) : E[k][i] # c
  <2>1. SUFFICES ASSUME NEW k \in 1..Len(E), NEW i \in 1..Len(E[k]) PROVE E[k][i] # c
    OBVIOUS
  <2>2. k \in 1..Len(L) /\ E[k] \in T
    BY <1>7
  <2>3. E[k] # << >>
    OBVIOUS
  <2>4. E[k][i] \in {"a", "x", "-"}
    BY <1>9, <2>2, <2>3
  <2>5. QED
    BY <1>1, <2>4
<1>11. PICK N : N = AsciiName(t)
  OBVIOUS
<1>12. MadeOf(Characters, N, c, E)
  <2>1. c \in Characters
    BY <1>1, CharactersAssumption
  <2>2. E \in Seq(Seq(Characters)) /\ Len(E) # 0
    BY <1>1, <1>2, <1>7
  <2>3. QED
    BY <1>4, <1>10, <1>11, <2>1, <2>2, JoinedOf
<1>13. N \in Seq(Characters)
  BY <1>12, Zenon DEF MadeOf
<1>14. PICK P : P = Pieces(N, c)
  OBVIOUS
<1>15. PICK n \in Nat \ {0} : \E b : CutInto(Characters, N, c, b, n, P)
  BY <1>13, <1>14, PiecesAre
<1>16. PICK b : CutInto(Characters, N, c, b, n, P)
  BY <1>15
<1>17. CutAt(N, c, b, n) /\ DOMAIN P = 1..n /\ \A k \in 1..n : P[k] = SubSeq(N, b[k] + 1, b[k + 1] - 1)
  BY <1>16, Zenon DEF CutInto
<1>18. ASSUME NEW k \in 1..n
       PROVE  Between(N, c, b[k], b[k + 1])
  <2>1. b[1] = 0 /\ b[n + 1] = Len(N) + 1 /\ \A l \in 2..n : N[b[l]] = c
    BY <1>17, Zenon DEF CutAt
  <2>2. (k = 1 \/ k \in 2..n) /\ (k + 1 = n + 1 \/ k + 1 \in 2..n)
    BY <1>15
  <2>3. QED
    BY <2>1, <2>2, Zenon DEF Between
<1>19. ASSUME NEW k \in 1..n
       PROVE  ~Barred(P[k])
  <2>1. PieceIs(Characters, N, c, b[k], b[k + 1], P[k])
    <3>1. PieceIs(Characters, N, c, b[k], b[k + 1], SubSeq(N, b[k] + 1, b[k + 1] - 1))
      BY <1>13, <1>17, PieceHas
    <3>2. QED
      BY <1>17, <3>1
  <2>2. PICK l \in DOMAIN E : P[k] = E[l]
    <3>1. PICK from, to, s : from = b[k] /\ to = b[k + 1] /\ s = P[k]
      OBVIOUS
    <3>2. PieceIs(Characters, N, c, from, to, s) /\ Between(N, c, from, to)
      BY <1>18, <2>1, <3>1, Zenon
    <3>3. \E l \in DOMAIN E : s = E[l]
      BY <1>12, <3>2 DEF MadeOf
    <3>4. QED
      BY <3>1, <3>3
  <2>3. P[k] # << >>
    <3>1. LabelFits(P[k])
      <4>1. \A j \in DOMAIN Pieces(N, ".") : LabelFits(Pieces(N, ".")[j])
        BY <1>11, <1>13, LabelsFit
      <4>2. QED
        BY <1>1, <1>14, <1>17, <4>1, Zenon
    <3>2. QED
      BY <3>1, Zenon DEF LabelFits
  <2>4. QED
    BY <1>7, <1>9, <2>2, <2>3
<1>20. QED
  BY <1>1, <1>11, <1>14, <1>17, <1>19, Zenon DEF Unbarred

\* What is normalised is a name.
LEMMA NormalizedForms ==
  ASSUME NEW text \in Seq(Characters), MaxLabel \in Nat, MaxName \in Nat, Normalized(text)[1] = "none"
  PROVE  /\ Normalized(text)[2] \in Seq(Characters) /\ WellFormed(Normalized(text)[2])
         /\ Unbarred(Normalized(text)[2])
         /\ NameFault(Unrooted(Lowered(Strip(text)))) = "none"
         /\ Normalized(text)[2] = AsciiName(Unrooted(Lowered(Strip(text))))
<1>1. PICK t \in Seq(Characters) : t = Unrooted(Lowered(Strip(text)))
  BY BareTyped
<1>2. PICK F, N : F = NameFault(t) /\ N = IF NameFault(t) = "none" THEN AsciiName(t) ELSE << >>
  OBVIOUS
<1>3. Normalized(text) = <<F, N>>
  BY <1>1, <1>2, NormalizedMeans, Zenon
<1>4. Normalized(text)[1] = F /\ Normalized(text)[2] = N
  BY <1>3
<1>5. F = "none" /\ N = AsciiName(t)
  BY <1>2, <1>4, Zenon
<1>6. N \in Seq(Characters)
  BY <1>5, AsciiNameIs
<1>7. AsciiFault(N) = "none"
  BY <1>2, <1>5, NameFaultNone
<1>8. WellFormed(N)
  BY <1>6, <1>7, FormChecked
<1>9. Encodable(t)
  BY <1>2, <1>5, NameFaultNone
<1>10. Unbarred(N)
  BY <1>5, <1>7, <1>9, EncodedUnbarred
<1>11. QED
  BY <1>1, <1>2, <1>4, <1>5, <1>6, <1>8, <1>10, Zenon

\* What FormsExact says of a text.
FormsMean(text) ==
  LET name == Normalized(text)[2]
  IN /\ Normalized(text)[1] = "none" =>
          WellFormed(name) /\ Normalized(name) = <<"none", name>> /\ Normalized(Append(name, ".")) = <<"none", name>>
     /\ WellFormed(text) => (Normalized(text)[1] = "none" <=> ~\E label \in ToSet(Pieces(text, ".")) : Barred(label))

\* Every text is normalised as FormsExact says.
LEMMA FormsMeant ==
  ASSUME NEW text \in Seq(Characters), MaxLabel \in Nat, MaxName \in Nat
  PROVE  FormsMean(text)
<1>1. PICK name : name = Normalized(text)[2]
  OBVIOUS
<1>2. ASSUME Normalized(text)[1] = "none"
      PROVE  WellFormed(name) /\ Normalized(name) = <<"none", name>> /\ Normalized(Append(name, ".")) = <<"none", name>>
  <2>1. name \in Seq(Characters) /\ WellFormed(name) /\ Unbarred(name)
    BY <1>1, <1>2, NormalizedForms
  <2>2. QED
    BY <2>1, FormedKept
<1>3. ASSUME WellFormed(text)
      PROVE  Normalized(text)[1] = "none" <=> ~\E label \in ToSet(Pieces(text, ".")) : Barred(label)
  <2>1. Unrooted(Lowered(Strip(text))) = text
    BY <1>3, FormedBare
  <2>2. PICK F : F = NameFault(text)
    OBVIOUS
  <2>3. Normalized(text) = <<F, IF F = "none" THEN AsciiName(text) ELSE << >>>>
    BY <2>1, <2>2, NormalizedMeans, Zenon
  <2>4. Normalized(text)[1] = F
    BY <2>3
  <2>5. F = "none" <=> Unbarred(text)
    BY <1>3, <2>2, FormedPasses
  <2>6. PICK P : P = Pieces(text, ".")
    OBVIOUS
  <2>7. ToSet(P) = {P[k] : k \in DOMAIN P}
    BY DEF ToSet
  <2>8. Unbarred(text) <=> ~\E label \in ToSet(P) : Barred(label)
    <3>1. Unbarred(text) <=> \A k \in DOMAIN P : ~Barred(P[k])
      BY <2>6, Zenon DEF Unbarred
    <3>2. QED
      BY <2>7, <3>1
  <2>9. QED
    BY <2>4, <2>5, <2>6, <2>8, Zenon
<1>4. QED
  BY <1>1, <1>2, <1>3, Zenon DEF FormsMean

\* A sequence is the end of another exactly if it is, item by item.
LEMMA SuffixIs ==
  ASSUME NEW S, NEW s \in Seq(S), NEW t \in Seq(S)
  PROVE  IsSuffix(s, t) <=> Len(s) <= Len(t) /\ \A i \in 1..Len(s) : s[i] = t[Len(t) - Len(s) + i]
<1>1. PICK m \in Nat, n \in Nat : m = Len(s) /\ n = Len(t)
  OBVIOUS
<1>2. PICK u, v : u = Reverse(s) /\ v = Reverse(t)
  OBVIOUS
<1>3. /\ u \in Seq(S) /\ Len(u) = m /\ \A i \in 1..m : u[i] = s[(m - i) + 1]
      /\ v \in Seq(S) /\ Len(v) = n /\ \A i \in 1..n : v[i] = t[(n - i) + 1]
  <2>1. u = [i \in 1..m |-> s[(m - i) + 1]] /\ v = [i \in 1..n |-> t[(n - i) + 1]]
    BY <1>1, <1>2, Zenon DEF Reverse
  <2>2. /\ \A i \in 1..m : (m - i) + 1 \in 1..m
        /\ \A i \in 1..n : (n - i) + 1 \in 1..n
    BY <1>1
  <2>3. (\A i \in 1..m : s[(m - i) + 1] \in S) /\ \A i \in 1..n : t[(n - i) + 1] \in S
    BY <1>1, <2>2
  <2>4. QED
    BY <1>1, <2>1, <2>3
<1>4. IsSuffix(s, t) <=> m <= n /\ SubSeq(u, 1, m) = SubSeq(v, 1, m)
  BY <1>2, <1>3, Zenon DEF IsSuffix, IsPrefix
<1>5. SUFFICES ASSUME m <= n
               PROVE  SubSeq(u, 1, m) = SubSeq(v, 1, m) <=> \A i \in 1..m : s[i] = t[n - m + i]
  BY <1>1, <1>4
<1>6. 1 \in Nat \ {0} /\ m <= Len(u) /\ m <= Len(v) /\ 1 <= m + 1 /\ m - 1 + 1 = m /\ \A i \in 1..m : 1 + i - 1 = i
  BY <1>3, <1>5
<1>7. PICK p, r : p = SubSeq(u, 1, m) /\ r = SubSeq(v, 1, m)
  OBVIOUS
<1>8. p \in Seq(S) /\ Len(p) = m - 1 + 1 /\ \A i \in 1..(m - 1 + 1) : p[i] = u[1 + i - 1]
  BY <1>3, <1>6, <1>7, PartOf
<1>9. r \in Seq(S) /\ Len(r) = m - 1 + 1 /\ \A i \in 1..(m - 1 + 1) : r[i] = v[1 + i - 1]
  BY <1>3, <1>6, <1>7, PartOf
<1>10. /\ p \in Seq(S) /\ Len(p) = m /\ \A i \in 1..m : p[i] = u[i]
       /\ r \in Seq(S) /\ Len(r) = m /\ \A i \in 1..m : r[i] = v[i]
  BY <1>6, <1>8, <1>9
<1>11. p = r <=> \A i \in 1..m : u[i] = v[i]
  <2>1. ASSUME \A i \in 1..m : u[i] = v[i]
        PROVE  p = r
    <3>1. \A i \in 1..Len(p) : p[i] = r[i]
      BY <1>10, <2>1
    <3>2. QED
      BY <1>10, <3>1, SameText
  <2>2. ASSUME p = r
        PROVE  \A i \in 1..m : u[i] = v[i]
    BY <1>10, <2>2
  <2>3. QED
    BY <2>1, <2>2
<1>12. (\A i \in 1..m : u[i] = v[i]) <=> \A i \in 1..m : s[i] = t[n - m + i]
  <2>1. ASSUME \A i \in 1..m : u[i] = v[i], NEW i \in 1..m
        PROVE  s[i] = t[n - m + i]
    <3>1. PICK j \in 1..m : j = (m - i) + 1
      OBVIOUS
    <3>2. j \in 1..n /\ (m - j) + 1 = i /\ (n - j) + 1 = n - m + i
      BY <1>5, <3>1
    <3>3. u[j] = s[i] /\ v[j] = t[n - m + i]
      BY <1>3, <3>2
    <3>4. QED
      BY <2>1, <3>3
  <2>2. ASSUME \A i \in 1..m : s[i] = t[n - m + i], NEW i \in 1..m
        PROVE  u[i] = v[i]
    <3>1. PICK j \in 1..m : j = (m - i) + 1
      OBVIOUS
    <3>2. i \in 1..n /\ (m - i) + 1 = j /\ (n - i) + 1 = n - m + j
      BY <1>5, <3>1
    <3>3. u[i] = s[j] /\ v[i] = t[n - m + j]
      BY <1>3, <3>2
    <3>4. QED
      BY <2>2, <3>3
  <2>3. QED
    BY <2>1, <2>2
<1>13. QED
  BY <1>7, <1>11, <1>12

\* w are the last n labels of s.
LastIs(S, s, n, w) ==
  w \in Seq(S) /\ Len(w) = n /\ (\A i \in 1..n : w[i] = s[Len(s) - n + i]) /\ IsSuffix(w, s)

\* The last labels.
LEMMA LastOf ==
  ASSUME NEW S, NEW s \in Seq(S), NEW n \in Nat, n # 0, n <= Len(s)
  PROVE  LastIs(S, s, n, LastLabels(s, n))
<1>1. PICK L \in Nat : L = Len(s)
  OBVIOUS
<1>2. PICK lo \in Nat \ {0} : lo = L - n + 1
  BY <1>1
<1>3. L <= Len(s) /\ lo <= L + 1 /\ L - lo + 1 = n /\ \A i \in 1..n : lo + i - 1 = L - n + i
  BY <1>1, <1>2
<1>4. PICK w : w = SubSeq(s, lo, L)
  OBVIOUS
<1>5. LastLabels(s, n) = w
  BY <1>1, <1>2, <1>4, Zenon DEF LastLabels
<1>6. w \in Seq(S) /\ Len(w) = L - lo + 1 /\ \A i \in 1..(L - lo + 1) : w[i] = s[lo + i - 1]
  BY <1>1, <1>3, <1>4, PartOf
<1>7. w \in Seq(S) /\ Len(w) = n /\ \A i \in 1..n : w[i] = s[L - n + i]
  BY <1>3, <1>6
<1>8. IsSuffix(w, s)
  BY <1>1, <1>7, SuffixIs
<1>9. QED
  BY <1>1, <1>5, <1>7, <1>8, Zenon DEF LastIs

SameLast(s, t, n) == LastLabels(s, n) = LastLabels(t, n)

\* All the labels, and the last of the last ones.
LEMMA LastOfLast ==
  ASSUME NEW S, NEW s \in Seq(S), NEW t \in Seq(S), NEW n \in Nat, n # 0, n <= Len(s), IsSuffix(s, t)
  PROVE  /\ SameLast(s, t, n)
         /\ n = Len(s) => LastLabels(s, n) = s
<1>1. PICK K \in Nat, L \in Nat : K = Len(s) /\ L = Len(t)
  OBVIOUS
<1>2. K <= L /\ \A i \in 1..K : s[i] = t[L - K + i]
  BY <1>1, SuffixIs
<1>3. n <= Len(s) /\ n <= Len(t)
  BY <1>1, <1>2
<1>4. PICK v, w : v = LastLabels(s, n) /\ w = LastLabels(t, n)
  OBVIOUS
<1>5. v \in Seq(S) /\ Len(v) = n /\ \A i \in 1..n : v[i] = s[K - n + i]
  BY <1>1, <1>3, <1>4, LastOf, Zenon DEF LastIs
<1>6. w \in Seq(S) /\ Len(w) = n /\ \A i \in 1..n : w[i] = t[L - n + i]
  BY <1>1, <1>3, <1>4, LastOf, Zenon DEF LastIs
<1>7. v = w
  <2>1. \A i \in 1..n : K - n + i \in 1..K /\ L - K + (K - n + i) = L - n + i
    BY <1>1, <1>3
  <2>2. \A i \in 1..n : s[K - n + i] = t[L - K + (K - n + i)]
    BY <1>2, <2>1
  <2>3. \A i \in 1..Len(v) : v[i] = w[i]
    BY <1>5, <1>6, <2>1, <2>2
  <2>4. QED
    BY <1>5, <1>6, <2>3, SameText
<1>8. ASSUME n = K
      PROVE  v = s
  <2>1. \A i \in 1..Len(v) : v[i] = s[i]
    BY <1>1, <1>5, <1>8
  <2>2. QED
    BY <1>1, <1>5, <1>8, <2>1, SameText
<1>9. SameLast(s, t, n)
  BY <1>4, <1>7, Zenon DEF SameLast
<1>10. QED
  BY <1>1, <1>4, <1>8, <1>9

\* One label more at the front.
LEMMA LastOfMore ==
  ASSUME NEW S, NEW s \in Seq(S), NEW x \in S
  PROVE  <<x>> \o s \in Seq(S) /\ Len(<<x>> \o s) = Len(s) + 1 /\ IsSuffix(s, <<x>> \o s)
<1>1. PICK L \in Nat : L = Len(s)
  OBVIOUS
<1>2. PICK t : t = <<x>> \o s
  OBVIOUS
<1>3. t \in Seq(S) /\ Len(t) = L + 1 /\ \A i \in 1..L : t[1 + i] = s[i]
  BY <1>1, <1>2
<1>4. Len(s) <= Len(t) /\ \A i \in 1..Len(s) : s[i] = t[Len(t) - Len(s) + i]
  BY <1>1, <1>3
<1>5. IsSuffix(s, t)
  BY <1>3, <1>4, SuffixIs
<1>6. QED
  BY <1>1, <1>2, <1>3, <1>5

\* What HostsExact says of labels, x being one more.
HostsMean(labels, x) ==
  LET registrable == Registrable(labels)
  IN /\ IsSuffix(registrable, labels)
     /\ registrable \in PublicSuffixes => registrable = labels
     /\ Tail(registrable) \in PublicSuffixes \/ Len(registrable) = 2
     /\ Registrable(<<x>> \o registrable) = IF registrable \in PublicSuffixes THEN <<x>> \o registrable ELSE registrable

\* The registrable domain is as HostsExact says.
LEMMA HostsMeant ==
  ASSUME NEW S, NEW x \in S, NEW labels \in Seq(S), Len(labels) >= 2, \A suffix \in PublicSuffixes : Len(suffix) = 2
  PROVE  HostsMean(labels, x)
<1>1. PICK L \in Nat : L = Len(labels) /\ L >= 2
  OBVIOUS
<1>2. PICK two : two = LastLabels(labels, 2)
  OBVIOUS
<1>0. 2 \in Nat /\ 2 # 0 /\ 3 \in Nat /\ 3 # 0 /\ 2 <= 2 /\ 2 <= 3 /\ 2 <= 4 /\ 3 <= 3 /\ 3 <= 4
  OBVIOUS
<1>3. two \in Seq(S) /\ Len(two) = 2 /\ IsSuffix(two, labels) /\ \A i \in 1..2 : two[i] = labels[L - 2 + i]
  <2>1. 2 <= Len(labels)
    BY <1>1
  <2>2. LastIs(S, labels, 2, two)
    BY <1>0, <1>2, <2>1, LastOf, Zenon
  <2>3. QED
    BY <1>1, <2>2, Zenon DEF LastIs
<1>4. PICK more : more = <<x>> \o Registrable(labels)
  OBVIOUS
<1>5. CASE two \notin PublicSuffixes
  <2>1. Registrable(labels) = two
    BY <1>2, <1>5, Zenon DEF Registrable
  <2>2. more \in Seq(S) /\ Len(more) = 3 /\ IsSuffix(two, more)
    <3>1. more \in Seq(S) /\ Len(more) = Len(two) + 1 /\ IsSuffix(two, more)
      BY <1>3, <1>4, <2>1, LastOfMore, Zenon
    <3>2. QED
      BY <1>3, <3>1
  <2>3. LastLabels(more, 2) = LastLabels(two, 2) /\ LastLabels(two, 2) = two
    <3>1. 2 <= Len(two) /\ 2 = Len(two)
      BY <1>3
    <3>2. SameLast(two, more, 2)
      BY <1>0, <1>3, <2>2, <3>1, LastOfLast, Zenon
    <3>3. LastLabels(two, 2) = two
      BY <1>0, <1>3, <2>2, <3>1, LastOfLast, Zenon
    <3>4. QED
      BY <3>2, <3>3, Zenon DEF SameLast
  <2>4. Registrable(more) = two
    BY <1>5, <2>3, Zenon DEF Registrable
  <2>5. QED
    BY <1>3, <1>4, <1>5, <2>1, <2>4, Zenon DEF HostsMean
<1>6. CASE two \in PublicSuffixes /\ L < 3
  <2>1. L = 2
    BY <1>1, <1>6
  <2>2. two = labels
    <3>1. \A i \in 1..Len(two) : two[i] = labels[i]
      BY <1>3, <2>1
    <3>2. QED
      BY <1>1, <1>3, <2>1, <3>1, SameText
  <2>3. Registrable(labels) = labels
    BY <1>1, <1>2, <1>6, Zenon DEF Registrable
  <2>4. more \in Seq(S) /\ Len(more) = 3 /\ IsSuffix(two, more)
    <3>1. more \in Seq(S) /\ Len(more) = Len(two) + 1 /\ IsSuffix(two, more)
      <4>1. more = <<x>> \o two
        BY <1>4, <2>2, <2>3
      <4>2. QED
        BY <1>3, <4>1, LastOfMore, Zenon
    <3>2. QED
      BY <1>3, <3>1
  <2>5. LastLabels(more, 2) = LastLabels(two, 2) /\ LastLabels(two, 2) = two
    <3>1. 2 <= Len(two) /\ 2 = Len(two)
      BY <1>3
    <3>2. SameLast(two, more, 2)
      BY <1>0, <1>3, <2>4, <3>1, LastOfLast, Zenon
    <3>3. LastLabels(two, 2) = two
      BY <1>0, <1>3, <2>4, <3>1, LastOfLast, Zenon
    <3>4. QED
      BY <3>2, <3>3, Zenon DEF SameLast
  <2>6. LastLabels(more, 3) = more
    <3>1. IsSuffix(more, more)
      <4>1. \A i \in 1..Len(more) : more[i] = more[Len(more) - Len(more) + i]
        BY <2>4
      <4>2. QED
        BY <2>4, <4>1, SuffixIs
    <3>2. QED
      BY <1>0, <2>4, <3>1, LastOfLast, Zenon
  <2>7. ~(Len(more) < 3)
    BY <2>4
  <2>8. Registrable(more) = more
    BY <1>6, <2>5, <2>6, <2>7, Zenon DEF Registrable
  <2>9. QED
    BY <1>3, <1>4, <1>6, <2>2, <2>3, <2>8, Zenon DEF HostsMean
<1>7. CASE two \in PublicSuffixes /\ ~(L < 3)
  <2>1. PICK three : three = LastLabels(labels, 3)
    OBVIOUS
  <2>2. three \in Seq(S) /\ Len(three) = 3 /\ IsSuffix(three, labels)
    <3>1. 3 <= Len(labels)
      BY <1>1, <1>7
    <3>2. QED
      BY <1>0, <2>1, <3>1, LastOf, Zenon DEF LastIs
  <2>3. Registrable(labels) = three
    BY <1>1, <1>2, <1>7, <2>1, Zenon DEF Registrable
  <2>4. three \notin PublicSuffixes
    <3>1. three \in PublicSuffixes => Len(three) = 2
      OBVIOUS
    <3>2. QED
      BY <2>2, <3>1
  <2>5. LastLabels(three, 2) = two
    <3>1. 2 <= Len(three)
      BY <2>2
    <3>2. SameLast(three, labels, 2)
      BY <1>0, <2>2, <3>1, LastOfLast, Zenon
    <3>3. QED
      BY <1>2, <3>2, Zenon DEF SameLast
  <2>6. Tail(three) = two
    <3>1. Tail(three) \in Seq(S) /\ Len(Tail(three)) = 2 /\ \A i \in 1..2 : Tail(three)[i] = three[i + 1]
      <4>1. three # << >>
        <5>1. Len(three) = 3 /\ Len(<< >>) = 0
          BY <2>2
        <5>2. QED
          BY <5>1
      <4>2. /\ Tail(three) \in Seq(S) /\ Len(Tail(three)) = Len(three) - 1
            /\ \A i \in 1..Len(Tail(three)) : Tail(three)[i] = three[i + 1]
        BY <2>2, <4>1, HeadTailProperties, Zenon
      <4>3. Len(three) - 1 = 2
        BY <2>2
      <4>4. QED
        BY <4>2, <4>3
    <3>2. \A i \in 1..2 : LastLabels(three, 2)[i] = three[3 - 2 + i]
      <4>1. 2 <= Len(three)
        BY <2>2
      <4>2. LastIs(S, three, 2, LastLabels(three, 2))
        BY <1>0, <2>2, <4>1, LastOf, Zenon
      <4>3. \A i \in 1..2 : LastLabels(three, 2)[i] = three[Len(three) - 2 + i]
        BY <4>2, Zenon DEF LastIs
      <4>4. QED
        BY <2>2, <4>3
    <3>3. \A i \in 1..2 : 3 - 2 + i = i + 1
      OBVIOUS
    <3>6. \A i \in 1..2 : two[i] = three[i + 1]
      BY <2>5, <3>2, <3>3
    <3>7. Len(two) = 2
      BY <1>3
    <3>4. \A i \in 1..Len(two) : Tail(three)[i] = two[i]
      <4>1. SUFFICES ASSUME NEW i \in 1..2 PROVE Tail(three)[i] = two[i]
        BY <3>7
      <4>2. QED
        BY <3>1, <3>6, Zenon
    <3>5. QED
      BY <1>3, <3>1, <3>4, SameText
  <2>7. more \in Seq(S) /\ Len(more) = 4 /\ IsSuffix(three, more)
    <3>1. more \in Seq(S) /\ Len(more) = Len(three) + 1 /\ IsSuffix(three, more)
      BY <1>4, <2>2, <2>3, LastOfMore, Zenon
    <3>2. QED
      BY <2>2, <3>1
  <2>8. LastLabels(more, 2) = two /\ LastLabels(more, 3) = three
    <3>1. 2 <= Len(three) /\ 3 <= Len(three) /\ 3 = Len(three)
      BY <2>2
    <3>2. SameLast(three, more, 2) /\ SameLast(three, more, 3)
      BY <1>0, <2>2, <2>7, <3>1, LastOfLast, Zenon
    <3>3. LastLabels(three, 3) = three
      BY <1>0, <2>2, <2>7, <3>1, LastOfLast, Zenon
    <3>4. QED
      BY <2>5, <3>2, <3>3, Zenon DEF SameLast
  <2>9. ~(Len(more) < 3)
    BY <2>7
  <2>10. Registrable(more) = three
    BY <1>7, <2>8, <2>9, Zenon DEF Registrable
  <2>11. QED
    BY <1>4, <1>7, <2>2, <2>3, <2>4, <2>6, <2>10, Zenon DEF HostsMean
<1>8. QED
  BY <1>5, <1>6, <1>7

\* The host is the name or below it.
IsBelow(name, host) == host = name \/ IsSuffix(<<".">> \o name, host)

\* What follows a cut of a host is a name above it.
LEMMA CutAbove ==
  ASSUME NEW host \in Seq(Characters), NEW n, NEW a, CutAt(host, ".", a, n), NEW m \in 1..n
  PROVE  SubSeq(host, a[m] + 1, Len(host)) \in Seq(Characters) /\ IsBelow(SubSeq(host, a[m] + 1, Len(host)), host)
<1>1. PICK L \in Nat : L = Len(host)
  OBVIOUS
<1>2. n \in Nat \ {0}
  BY Zenon DEF CutAt
<1>3. /\ \A k \in 1..n + 1 : a[k] \in 0..L + 1
      /\ a[1] = 0 /\ a[n + 1] = L + 1
      /\ \A k, l \in 1..n + 1 : k < l => a[k] < a[l]
      /\ \A k \in 2..n : a[k] \in 1..L /\ host[a[k]] = "."
  BY <1>1 DEF CutAt
<1>4. PICK p \in Nat : p = a[m] /\ p <= L
  <2>1. m \in 1..n + 1 /\ n + 1 \in 1..n + 1 /\ m < n + 1
    BY <1>2
  <2>2. a[m] < L + 1 /\ a[m] \in 0..L + 1
    BY <1>3, <2>1
  <2>3. QED
    BY <2>2
<1>5. PICK name : name = SubSeq(host, p + 1, L)
  OBVIOUS
<1>6. name \in Seq(Characters) /\ Len(name) = L - p /\ \A i \in 1..L - p : name[i] = host[p + i]
  <2>1. PICK lo \in Nat \ {0} : lo = p + 1
    OBVIOUS
  <2>2. L <= Len(host) /\ lo <= L + 1 /\ L - lo + 1 = L - p /\ \A i \in 1..L - p : lo + i - 1 = p + i
    <3>1. L <= Len(host)
      BY <1>1
    <3>2. lo <= L + 1
      BY <1>4, <2>1
    <3>3. L - lo + 1 = L - p
      BY <2>1
    <3>4. \A i \in 1..L - p : lo + i - 1 = p + i
      BY <2>1
    <3>5. QED
      BY <3>1, <3>2, <3>3, <3>4
  <2>3. name \in Seq(Characters) /\ Len(name) = L - lo + 1 /\ \A i \in 1..(L - lo + 1) : name[i] = host[lo + i - 1]
    <3>1. name = SubSeq(host, lo, L)
      BY <1>5, <2>1
    <3>2. QED
      BY <1>1, <2>2, <3>1, PartOf
  <2>4. QED
    BY <2>2, <2>3
<1>7. CASE m = 1
  <2>1. p = 0
    BY <1>3, <1>4, <1>7
  <2>2. \A i \in 1..Len(name) : name[i] = host[i]
    BY <1>6, <2>1
  <2>3. name = host
    BY <1>1, <1>6, <2>1, <2>2, SameText
  <2>4. QED
    BY <1>1, <1>4, <1>5, <1>6, <2>3, Zenon DEF IsBelow
<1>8. CASE m # 1
  <2>1. p \in 1..L /\ host[p] = "."
    <3>1. m \in 2..n
      BY <1>2, <1>8
    <3>2. QED
      BY <1>3, <1>4, <3>1
  <2>2. "." \in Characters
    BY CharactersAssumption
  <2>3. PICK w : w = <<".">> \o name
    OBVIOUS
  <2>4. w \in Seq(Characters) /\ Len(w) = L - p + 1 /\ w[1] = "." /\ \A i \in 1..L - p : w[1 + i] = name[i]
    BY <1>4, <1>6, <2>2, <2>3
  <2>5. \A i \in 1..Len(w) : w[i] = host[L - Len(w) + i]
    <3>1. SUFFICES ASSUME NEW i \in 1..(L - p + 1) PROVE w[i] = host[p - 1 + i]
      <4>1. L - (L - p + 1) = p - 1
        BY <1>4
      <4>2. QED
        BY <2>4, <4>1
    <3>2. CASE i = 1
      BY <2>1, <2>4, <3>2
    <3>3. CASE i # 1
      <4>1. PICK j \in 1..L - p : 1 + j = i
        <5>1. i - 1 \in 1..L - p /\ 1 + (i - 1) = i
          BY <1>4, <3>3
        <5>2. QED
          BY <5>1
      <4>2. w[i] = host[p + j]
        BY <1>6, <2>4, <4>1
      <4>3. p + j = p - 1 + i
        <5>1. j \in Nat /\ p \in Nat /\ i = j + 1
          BY <1>1, <1>4, <4>1
        <5>2. QED
          BY <5>1
      <4>4. QED
        BY <4>2, <4>3
    <3>4. QED
      BY <3>2, <3>3
  <2>6. IsSuffix(w, host)
    <3>1. Len(w) <= Len(host)
      BY <1>1, <2>1, <2>4
    <3>2. QED
      BY <1>1, <2>4, <2>5, <3>1, SuffixIs
  <2>7. QED
    BY <1>1, <1>4, <1>5, <1>6, <2>3, <2>6, Zenon DEF IsBelow
<1>9. QED
  BY <1>7, <1>8

\* A name above a host follows one of its cuts.
LEMMA AboveCut ==
  ASSUME NEW host \in Seq(Characters), NEW n, NEW a, CutAt(host, ".", a, n),
         NEW name \in Seq(Characters), IsBelow(name, host)
  PROVE  \E m \in 1..n : SubSeq(host, a[m] + 1, Len(host)) = name
<1>1. PICK L \in Nat, M \in Nat : L = Len(host) /\ M = Len(name)
  OBVIOUS
<1>2. n \in Nat \ {0}
  BY Zenon DEF CutAt
<1>3. a[1] = 0 /\ \A i \in 1..L : host[i] = "." => \E k \in 2..n : a[k] = i
  BY <1>1 DEF CutAt
<1>4. PICK p \in Nat : /\ p <= L /\ M = L - p /\ \A i \in 1..M : name[i] = host[p + i]
                       /\ \E m \in 1..n : a[m] = p
  <2>1. CASE host = name
    <3>1. L = M /\ \A i \in 1..M : name[i] = host[0 + i]
      BY <1>1, <2>1
    <3>2. 1 \in 1..n
      BY <1>2
    <3>3. 0 \in Nat /\ 0 <= L /\ M = L - 0
      BY <3>1
    <3>4. QED
      BY <1>3, <3>1, <3>2, <3>3
  <2>2. CASE IsSuffix(<<".">> \o name, host)
    <3>1. "." \in Characters
      BY CharactersAssumption
    <3>2. PICK w : w = <<".">> \o name
      OBVIOUS
    <3>3. w \in Seq(Characters) /\ Len(w) = M + 1 /\ w[1] = "." /\ \A i \in 1..M : w[1 + i] = name[i]
      BY <1>1, <3>1, <3>2
    <3>4. Len(w) <= Len(host) /\ \A i \in 1..Len(w) : w[i] = host[Len(host) - Len(w) + i]
      BY <2>2, <3>2, <3>3, SuffixIs
    <3>5. PICK p \in Nat : p = L - M /\ p # 0 /\ p <= L /\ M = L - p
      <4>1. L - M \in Nat /\ L - M # 0 /\ L - M <= L /\ M = L - (L - M)
        BY <1>1, <3>3, <3>4
      <4>2. QED
        BY <4>1
    <3>6. \A i \in 1..M + 1 : w[i] = host[p - 1 + i]
      <4>1. Len(host) - Len(w) = p - 1
        BY <1>1, <3>3, <3>5
      <4>2. QED
        BY <3>3, <3>4, <4>1
    <3>7. host[p] = "."
      <4>1. 1 \in 1..M + 1 /\ p - 1 + 1 = p
        BY <3>5
      <4>2. QED
        BY <3>3, <3>6, <4>1
    <3>8. \A i \in 1..M : name[i] = host[p + i]
      <4>1. \A i \in 1..M : 1 + i \in 1..M + 1 /\ p - 1 + (1 + i) = p + i
        BY <3>5
      <4>2. \A i \in 1..M : w[1 + i] = host[p - 1 + (1 + i)]
        BY <3>6, <4>1
      <4>3. QED
        BY <3>3, <4>1, <4>2
    <3>9. \E m \in 1..n : a[m] = p
      <4>1. p \in 1..L
        BY <3>5
      <4>2. PICK k \in 2..n : a[k] = p
        BY <1>3, <3>7, <4>1
      <4>3. k \in 1..n
        BY <1>2
      <4>4. QED
        BY <4>2, <4>3
    <3>10. QED
      BY <3>5, <3>8, <3>9
  <2>3. QED
    BY <2>1, <2>2, Zenon DEF IsBelow
<1>5. PICK m \in 1..n : a[m] = p
  BY <1>4
<1>6. PICK s : s = SubSeq(host, p + 1, L)
  OBVIOUS
<1>7. s \in Seq(Characters) /\ Len(s) = L - p /\ \A i \in 1..L - p : s[i] = host[p + i]
  <2>1. PICK lo \in Nat \ {0} : lo = p + 1
    OBVIOUS
  <2>2. L <= Len(host) /\ lo <= L + 1 /\ L - lo + 1 = L - p /\ \A i \in 1..L - p : lo + i - 1 = p + i
    <3>1. L <= Len(host)
      BY <1>1
    <3>2. lo <= L + 1
      BY <1>4, <2>1
    <3>3. L - lo + 1 = L - p
      BY <2>1
    <3>4. \A i \in 1..L - p : lo + i - 1 = p + i
      BY <2>1
    <3>5. QED
      BY <3>1, <3>2, <3>3, <3>4
  <2>3. s \in Seq(Characters) /\ Len(s) = L - lo + 1 /\ \A i \in 1..(L - lo + 1) : s[i] = host[lo + i - 1]
    BY <1>1, <1>6, <2>1, <2>2, PartOf
  <2>4. QED
    BY <2>2, <2>3
<1>8. s = name
  <2>1. \A i \in 1..Len(s) : s[i] = name[i]
    BY <1>4, <1>7
  <2>2. QED
    BY <1>1, <1>4, <1>7, <2>1, SameText
<1>9. QED
  BY <1>1, <1>5, <1>6, <1>8

\* A host is listed if a name of the list is above it.
LEMMA ListedMeans ==
  ASSUME NEW host \in Seq(Characters), NEW lines, HostsOf(lines) \subseteq Seq(Characters)
  PROVE  Listed(lines, host) <=> \E name \in HostsOf(lines) : IsBelow(name, host)
<1>1. PICK P : P = Pieces(host, ".")
  OBVIOUS
<1>2. PICK n \in Nat \ {0} : \E b : CutInto(Characters, host, ".", b, n, P)
  BY <1>1, PiecesAre
<1>3. PICK a : CutInto(Characters, host, ".", a, n, P)
  BY <1>2
<1>4. CutAt(host, ".", a, n) /\ Len(P) = n /\ DOMAIN P = 1..n
  BY <1>3, Zenon DEF CutInto
<1>5. \A m \in 1..n : Joined(SubSeq(P, m, n), ".") = SubSeq(host, a[m] + 1, Len(host))
  BY <1>3, <1>4, JoinedFrom
<1>6. PICK H : H = HostsOf(lines)
  OBVIOUS
<1>7. Listed(lines, host) <=> \E k \in 1..n : Joined(SubSeq(P, n - k + 1, n), ".") \in H
  BY <1>1, <1>4, <1>6, Zenon DEF Listed, LastLabels
<1>8. ASSUME NEW k \in 1..n, Joined(SubSeq(P, n - k + 1, n), ".") \in H
      PROVE  \E name \in H : IsBelow(name, host)
  <2>1. PICK m \in 1..n : m = n - k + 1
    BY <1>2
  <2>2. SubSeq(host, a[m] + 1, Len(host)) \in H
    BY <1>5, <1>8, <2>1
  <2>3. IsBelow(SubSeq(host, a[m] + 1, Len(host)), host)
    BY <1>4, CutAbove
  <2>4. QED
    BY <2>2, <2>3, Zenon
<1>9. ASSUME NEW name \in H, IsBelow(name, host)
      PROVE  \E k \in 1..n : Joined(SubSeq(P, n - k + 1, n), ".") \in H
  <2>1. name \in Seq(Characters)
    BY <1>6
  <2>2. PICK m \in 1..n : SubSeq(host, a[m] + 1, Len(host)) = name
    BY <1>4, <1>9, <2>1, AboveCut
  <2>3. PICK k \in 1..n : n - k + 1 = m
    <3>1. n - m + 1 \in 1..n /\ n - (n - m + 1) + 1 = m
      BY <1>2
    <3>2. QED
      BY <3>1
  <2>4. Joined(SubSeq(P, n - k + 1, n), ".") = name
    BY <1>5, <2>2, <2>3
  <2>5. QED
    BY <2>4
<1>10. QED
  BY <1>6, <1>7, <1>8, <1>9, Zenon

\* The host of a line: what is left of it, lowered.
LEMMA HostOfIs ==
  ASSUME NEW line \in Seq(Characters)
  PROVE  HostOf(line) = IF Strip(line) = << >> \/ Strip(line)[1] = "#" THEN << >> ELSE Lowered(Unrooted(Strip(line)))
<1>1. PICK s : s = Strip(line)
  OBVIOUS
<1>2. HostOf(line) = IF s = << >> \/ s[1] = "#" THEN << >> ELSE Lowered(IF Last(s) = "." THEN Front(s) ELSE s)
  BY <1>1, Zenon DEF HostOf
<1>3. s # << >> => Unrooted(s) = IF Last(s) = "." THEN Front(s) ELSE s
  BY Zenon DEF Unrooted
<1>4. CASE s = << >>
  BY <1>1, <1>2, <1>4, Zenon
<1>5. CASE s # << >>
  BY <1>1, <1>2, <1>3, <1>5, Zenon
<1>6. QED
  BY <1>4, <1>5

\* A dot at the end may be taken away before or after.
LEMMA LoweredUnrooted ==
  ASSUME NEW s \in Seq(Characters)
  PROVE  /\ Lowered(Unrooted(s)) = Unrooted(Lowered(s)) /\ Unrooted(s) \in Seq(Characters)
         /\ Len(Lowered(Unrooted(s))) \in Nat /\ Len(Lowered(Unrooted(s))) <= Len(s)
         /\ \A i \in 1..Len(Lowered(Unrooted(s))) : Lowered(Unrooted(s))[i] = IF s[i] = "A" THEN "a" ELSE s[i]
         /\ \A i \in 1..Len(s) : i \in 1..Len(Lowered(Unrooted(s))) \/ s[i] = "."
<1>1. PICK L \in Nat : L = Len(s)
  OBVIOUS
<1>2. PICK w \in Seq(Characters) : w = Lowered(s)
  BY LoweredIs
<1>3. Len(w) = L /\ \A i \in 1..L : w[i] = IF s[i] = "A" THEN "a" ELSE s[i]
  BY <1>1, <1>2, LoweredIs
<1>4. PICK u \in Seq(Characters) : u = Unrooted(s)
  BY UnrootedIs
<1>5. PICK v \in Seq(Characters) : v = Lowered(u)
  BY LoweredIs
<1>6. Len(v) = Len(u) /\ \A i \in 1..Len(u) : v[i] = IF u[i] = "A" THEN "a" ELSE u[i]
  BY <1>5, LoweredIs
<1>7. PICK r \in Seq(Characters) : r = Unrooted(w)
  BY UnrootedIs
<1>8. CASE L # 0 /\ s[L] = "."
  <2>1. L - 1 \in Nat /\ L - 1 <= L /\ \A i \in 1..L : i \in 1..L - 1 \/ i = L
    BY <1>8
  <2>2. Len(u) = L - 1 /\ \A i \in 1..L - 1 : u[i] = s[i]
    BY <1>1, <1>4, <1>8, UnrootedIs
  <2>3. w[L] = "."
    <3>1. L \in 1..L
      BY <1>8
    <3>2. QED
      BY <1>3, <1>8, <3>1
  <2>4. Len(r) = L - 1 /\ \A i \in 1..L - 1 : r[i] = w[i]
    BY <1>3, <1>7, <1>8, <2>3, UnrootedIs
  <2>5. \A i \in 1..L - 1 : i \in 1..L
    BY <1>8
  <2>6. \A i \in 1..L - 1 : v[i] = IF s[i] = "A" THEN "a" ELSE s[i]
    BY <1>6, <2>2
  <2>7. v = r
    <3>1. \A i \in 1..Len(v) : v[i] = r[i]
      BY <1>3, <1>6, <2>2, <2>4, <2>5, <2>6
    <3>2. QED
      BY <1>6, <2>2, <2>4, <3>1, SameText
  <2>8. Len(v) = L - 1
    BY <1>6, <2>2
  <2>9. QED
    BY <1>1, <1>2, <1>4, <1>5, <1>7, <1>8, <2>1, <2>6, <2>7, <2>8
<1>9. CASE L = 0 \/ s[L] # "."
  <2>1. u = s
    BY <1>1, <1>4, <1>9, UnrootedIs
  <2>2. L = 0 \/ w[L] # "."
    <3>1. L # 0 => L \in 1..L
      OBVIOUS
    <3>2. QED
      BY <1>3, <1>9, <3>1
  <2>3. r = w
    BY <1>3, <1>7, <2>2, UnrootedIs
  <2>4. v = w
    BY <1>2, <1>5, <2>1
  <2>5. QED
    BY <1>1, <1>2, <1>3, <1>4, <1>5, <1>7, <2>1, <2>3, <2>4
<1>10. QED
  BY <1>8, <1>9

\* A line that is a name, in ASCII, is the host it is normalised to.
LEMMA PlainLine ==
  ASSUME NEW line \in Seq(Characters), MaxLabel \in Nat, MaxName \in Nat,
         Normalized(line)[1] = "none", \A i \in 1..Len(line) : line[i] # "u" /\ line[i] # "o"
  PROVE  HostOf(line) = Normalized(line)[2] /\ HostOf(line) # << >>
<1>1. PICK s \in Seq(Characters) : s = Strip(line)
  BY BareTyped
<1>2. PICK L \in Nat : L = Len(s)
  OBVIOUS
<1>3. PICK t \in Seq(Characters) : t = Unrooted(Lowered(s))
  BY <1>1, BareTyped
<1>4. PICK M \in Nat : M = Len(t)
  OBVIOUS
<1>5. /\ t = Lowered(Unrooted(s)) /\ M <= L /\ \A i \in 1..M : t[i] = IF s[i] = "A" THEN "a" ELSE s[i]
  <2>1. PICK v : v = Lowered(Unrooted(s))
    OBVIOUS
  <2>2. v = t
    BY <1>3, <2>1, LoweredUnrooted, Zenon
  <2>3. Len(v) <= Len(s) /\ \A i \in 1..Len(v) : v[i] = IF s[i] = "A" THEN "a" ELSE s[i]
    BY <2>1, LoweredUnrooted
  <2>4. QED
    BY <1>2, <1>4, <2>1, <2>2, <2>3
<1>6. PICK N : N = Normalized(line)[2]
  OBVIOUS
<1>7. N \in Seq(Characters) /\ WellFormed(N) /\ NameFault(t) = "none" /\ N = AsciiName(t)
  BY <1>1, <1>3, <1>6, NormalizedForms
<1>8. \A i \in 1..L : s[i] # "u" /\ s[i] # "o"
  <2>1. CASE L = 0
    BY <2>1
  <2>2. CASE L # 0
    <3>1. s # << >>
      BY <1>2, <2>2
    <3>2. PICK lo \in Nat : BareOf(Characters, line, lo, s)
      BY <1>1, <3>1, StripIs
    <3>3. PICK K \in Nat : K = Len(line)
      OBVIOUS
    <3>4. lo \in 1..K /\ lo + L - 1 \in 1..K /\ \A i \in 1..L : s[i] = line[lo + i - 1]
      BY <1>2, <3>2, <3>3 DEF BareOf
    <3>5. \A i \in 1..L : lo + i - 1 \in 1..K
      BY <1>2, <3>3, <3>4
    <3>6. QED
      BY <3>3, <3>4, <3>5
  <2>3. QED
    BY <2>1, <2>2
<1>9. \A i \in 1..M : t[i] # "u" /\ t[i] # "o" /\ i \in 1..L
  BY <1>2, <1>4, <1>5, <1>8
<1>10. N = t
  BY <1>4, <1>7, <1>9, AsciiNameIs
<1>11. M # 0 /\ \A i \in 1..M : t[i] \in {"a", "x", "-", "."}
  BY <1>4, <1>7, <1>10, FormedHas
<1>12. s # << >> /\ s[1] # "#"
  <2>1. L # 0
    BY <1>2, <1>4, <1>5, <1>11
  <2>2. 1 \in 1..M
    BY <1>11
  <2>3. t[1] \in {"a", "x", "-", "."} /\ t[1] = IF s[1] = "A" THEN "a" ELSE s[1]
    BY <1>5, <1>11, <2>2
  <2>4. QED
    BY <1>2, <2>1, <2>3
<1>13. HostOf(line) = t
  BY <1>1, <1>5, <1>12, HostOfIs, Zenon
<1>14. t # << >>
  BY <1>4, <1>11
<1>15. QED
  BY <1>6, <1>10, <1>13, <1>14

\* The host of a line is a text; what can be a host comes from a line in ASCII.
LEMMA HostLine ==
  ASSUME NEW line \in Seq(Characters)
  PROVE  /\ HostOf(line) \in Seq(Characters)
         /\ (HostOf(line) # << >> /\ \A i \in 1..Len(HostOf(line)) : HostOf(line)[i] \in {"a", "x", "-", "."})
            => \A i \in 1..Len(line) : line[i] \notin {"u", "o", "#"}
<1>1. PICK s \in Seq(Characters) : s = Strip(line)
  BY BareTyped
<1>2. PICK L \in Nat, K \in Nat : L = Len(s) /\ K = Len(line)
  OBVIOUS
<1>3. CASE s = << >> \/ s[1] = "#"
  <2>1. HostOf(line) = << >>
    BY <1>1, <1>3, HostOfIs, Zenon
  <2>2. << >> \in Seq(Characters)
    OBVIOUS
  <2>3. QED
    BY <2>1, <2>2, Zenon
<1>4. CASE ~(s = << >> \/ s[1] = "#")
  <2>1. PICK u \in Seq(Characters) : u = Unrooted(s)
    BY UnrootedIs
  <2>2. PICK t \in Seq(Characters) : t = Lowered(u)
    BY LoweredIs
  <2>3. HostOf(line) = t
    BY <1>1, <1>4, <2>1, <2>2, HostOfIs, Zenon
  <2>4. PICK M \in Nat : M = Len(t)
    OBVIOUS
  <2>5. /\ M <= L /\ \A i \in 1..M : t[i] = IF s[i] = "A" THEN "a" ELSE s[i]
        /\ \A i \in 1..L : i \in 1..M \/ s[i] = "."
    BY <1>2, <2>1, <2>2, <2>4, LoweredUnrooted
  <2>6. PICK lo \in Nat : BareOf(Characters, line, lo, s)
    BY <1>1, <1>4, StripIs
  <2>7. /\ lo \in 1..K /\ lo + L - 1 \in 1..K /\ \A i \in 1..L : s[i] = line[lo + i - 1]
        /\ \A i \in 1..K : i < lo \/ i > lo + L - 1 => line[i] = Blank
    BY <1>2, <2>6 DEF BareOf
  <2>8. ASSUME \A i \in 1..M : t[i] \in {"a", "x", "-", "."}, NEW i \in 1..K
        PROVE  line[i] \notin {"u", "o", "#"}
    <3>1. CASE i < lo \/ i > lo + L - 1
      <4>1. line[i] = Blank
        BY <2>7, <3>1
      <4>2. Blank \notin {"u", "o", "#"}
        BY Zenon DEF Blank
      <4>3. QED
        BY <4>1, <4>2
    <3>2. CASE ~(i < lo \/ i > lo + L - 1)
      <4>1. PICK j \in 1..L : lo + j - 1 = i
        <5>1. i - lo + 1 \in 1..L /\ lo + (i - lo + 1) - 1 = i
          BY <1>2, <2>7, <3>2
        <5>2. QED
          BY <5>1
      <4>2. line[i] = s[j]
        BY <2>7, <4>1
      <4>3. s[j] \in {"a", "A", "x", "-", "."}
        <5>1. CASE j \in 1..M
          BY <2>5, <2>8, <5>1
        <5>2. CASE j \notin 1..M
          BY <2>5, <4>1, <5>2
        <5>3. QED
          BY <5>1, <5>2
      <4>4. QED
        BY <4>2, <4>3
    <3>3. QED
      BY <3>1, <3>2
  <2>9. QED
    BY <1>2, <2>3, <2>4, <2>8
<1>5. QED
  BY <1>3, <1>4

\* What ListsExact says of a list and a host.
ListsMean(q) ==
  LET lines == ToSet(q.lines)
      plain == {line \in lines : Normalized(line)[1] = "none" /\ ~(ToSet(line) \cap {"u", "o"} # {})}
      reply == ListReply(q)
  IN /\ \A line \in plain : IsBelow(Normalized(line)[2], q.host) => reply.listed
     /\ reply.named => reply.listed
     /\ reply.listed => \E line \in lines : ToSet(line) \cap {"u", "o", "#"} = {} /\ IsBelow(HostOf(line), q.host)

\* What is in a text.
LEMMA SetOf ==
  ASSUME NEW t \in Seq(Characters)
  PROVE  /\ \A c : c \in ToSet(t) <=> \E i \in 1..Len(t) : t[i] = c
         /\ ToSet(t) = {t[i] : i \in 1..Len(t)}
  BY DEF ToSet

\* Hosts are listed as ListsExact says.
LEMMA ListsMeant ==
  ASSUME NEW q, q.lines \in Seq(Seq(Characters)), q.host \in Seq({"a", "x", "-", "."}),
         MaxLabel \in Nat, MaxName \in Nat
  PROVE  ListsMean(q)
<1>1. PICK host, rows, T : host = q.host /\ rows = q.lines /\ T = Seq(Characters)
  OBVIOUS
<1>2. PICK A : A = {"a", "x", "-", "."}
  OBVIOUS
<1>3. host \in Seq(Characters) /\ \A i \in 1..Len(host) : host[i] \in {"a", "x", "-", "."}
  <2>1. host \in Seq(A) /\ A \subseteq Characters
    BY <1>1, <1>2, CharactersAssumption
  <2>2. host \in Seq(Characters) /\ \A i \in 1..Len(host) : host[i] \in A
    BY <2>1
  <2>3. QED
    BY <1>2, <2>2
<1>4. PICK R \in Nat : R = Len(rows) /\ DOMAIN rows = 1..R /\ \A r \in 1..R : rows[r] \in T
  BY <1>1
<1>5. PICK lines : lines = ToSet(rows) /\ lines = {rows[r] : r \in 1..R}
  BY <1>4, Zenon DEF ToSet
<1>6. PICK H : H = HostsOf(rows)
  OBVIOUS
<1>7. H = {HostOf(rows[r]) : r \in 1..R} \ {<< >>}
  BY <1>4, <1>6, Zenon DEF HostsOf
<1>8. \A line \in lines : line \in T
  BY <1>4, <1>5
<1>9. \A name \in H : name # << >> /\ \E line \in lines : name = HostOf(line)
  BY <1>5, <1>7
<1>10. \A line \in lines : HostOf(line) # << >> => HostOf(line) \in H
  BY <1>5, <1>7
<1>11. H \subseteq Seq(Characters)
  <2>1. SUFFICES ASSUME NEW name \in H PROVE name \in Seq(Characters)
    OBVIOUS
  <2>2. PICK line \in lines : name = HostOf(line)
    BY <1>9
  <2>3. line \in Seq(Characters)
    BY <1>1, <1>8
  <2>4. QED
    BY <2>2, <2>3, HostLine
<1>12. PICK listed, named : listed = Listed(rows, host) /\ named = (host \in H)
  OBVIOUS
<1>13. listed <=> \E name \in H : IsBelow(name, host)
  BY <1>3, <1>6, <1>11, <1>12, ListedMeans
<1>14. ListReply(q) = [listed |-> listed, named |-> named]
  BY <1>1, <1>6, <1>12, Zenon DEF ListReply
<1>15. ASSUME NEW line \in lines, Normalized(line)[1] = "none", ~(ToSet(line) \cap {"u", "o"} # {}),
              IsBelow(Normalized(line)[2], host)
       PROVE  listed
  <2>1. line \in Seq(Characters)
    BY <1>1, <1>8
  <2>2. \A i \in 1..Len(line) : line[i] # "u" /\ line[i] # "o"
    <3>1. "u" \notin ToSet(line) /\ "o" \notin ToSet(line)
      BY <1>15
    <3>2. QED
      BY <2>1, <3>1, SetOf
  <2>3. HostOf(line) = Normalized(line)[2] /\ HostOf(line) # << >>
    BY <1>15, <2>1, <2>2, PlainLine
  <2>4. HostOf(line) \in H /\ IsBelow(HostOf(line), host)
    BY <1>10, <1>15, <2>3
  <2>5. QED
    BY <1>13, <2>4
<1>16. ASSUME named
       PROVE  listed
  <2>1. IsBelow(host, host)
    BY Zenon DEF IsBelow
  <2>2. QED
    BY <1>12, <1>13, <1>16, <2>1
<1>17. ASSUME listed
       PROVE  \E line \in lines : ToSet(line) \cap {"u", "o", "#"} = {} /\ IsBelow(HostOf(line), host)
  <2>1. PICK name \in H : IsBelow(name, host)
    BY <1>13, <1>17
  <2>2. PICK line \in lines : name = HostOf(line) /\ name # << >>
    BY <1>9
  <2>3. line \in Seq(Characters) /\ name \in Seq(Characters)
    BY <1>1, <1>8, <1>11
  <2>4. \A i \in 1..Len(name) : name[i] \in {"a", "x", "-", "."}
    <3>1. CASE host = name
      BY <1>3, <3>1
    <3>2. CASE IsSuffix(<<".">> \o name, host)
      <4>1. "." \in Characters
        BY CharactersAssumption
      <4>2. PICK w : w = <<".">> \o name
        OBVIOUS
      <4>3. w \in Seq(Characters) /\ Len(w) = Len(name) + 1 /\ \A i \in 1..Len(name) : w[1 + i] = name[i]
        BY <2>3, <4>1, <4>2
      <4>4. Len(w) <= Len(host) /\ \A i \in 1..Len(w) : w[i] = host[Len(host) - Len(w) + i]
        BY <1>3, <3>2, <4>2, <4>3, SuffixIs
      <4>5. PICK M \in Nat, L \in Nat : M = Len(name) /\ L = Len(host)
        BY <1>3, <2>3
      <4>6. SUFFICES ASSUME NEW i \in 1..M PROVE name[i] \in {"a", "x", "-", "."}
        BY <4>5
      <4>7. PICK j \in 1..M + 1 : j = 1 + i
        OBVIOUS
      <4>8. name[i] = host[L - (M + 1) + j]
        <5>1. w[j] = host[L - (M + 1) + j]
          BY <4>3, <4>4, <4>5
        <5>2. QED
          BY <4>3, <4>5, <4>7, <5>1
      <4>9. L - (M + 1) + j \in 1..L
        BY <4>3, <4>4, <4>5, <4>7
      <4>10. QED
        BY <1>3, <4>5, <4>8, <4>9
    <3>3. QED
      BY <2>1, <3>1, <3>2, Zenon DEF IsBelow
  <2>5. \A i \in 1..Len(line) : line[i] \notin {"u", "o", "#"}
    BY <2>2, <2>3, <2>4, HostLine
  <2>6. ToSet(line) \cap {"u", "o", "#"} = {}
    <3>1. \A c : c \in ToSet(line) => \E i \in 1..Len(line) : line[i] = c
      BY <2>3, SetOf, Zenon
    <3>2. \A c \in ToSet(line) : c \notin {"u", "o", "#"}
      BY <2>5, <3>1, Zenon
    <3>3. QED
      BY <3>2, Zenon
  <2>7. QED
    BY <2>1, <2>2, <2>6
<1>18. PICK reply : reply = ListReply(q) /\ reply.listed = listed /\ reply.named = named
  BY <1>14
<1>19. QED
  BY <1>1, <1>5, <1>15, <1>16, <1>17, <1>18, Zenon DEF ListsMean

\* A character stands in a text once exactly if there is one place for it.
LEMMA CountedOne ==
  ASSUME NEW S, NEW t \in Seq(S), NEW c
  PROVE  Count(t, c) = 1 <=> \E p \in 1..Len(t) : {i \in DOMAIN t : t[i] = c} = {p}
<1>1. PICK L \in Nat : L = Len(t) /\ DOMAIN t = 1..L
  OBVIOUS
<1>2. PICK T : T = {i \in DOMAIN t : t[i] = c}
  OBVIOUS
<1>3. T \subseteq 1..L
  BY <1>1, <1>2
<1>4. IsFiniteSet(T)
  <2>1. 1 \in Int /\ L \in Int
    OBVIOUS
  <2>2. IsFiniteSet(1..L)
    BY <2>1, FS_Interval, Zenon
  <2>3. QED
    BY <1>3, <2>2, FS_Subset
<1>5. Count(t, c) = Cardinality(T)
  BY <1>2, Zenon DEF Count
<1>6. Cardinality(T) = 1 <=> \E p : T = {p}
  BY <1>4, FS_Singleton
<1>7. (\E p : T = {p}) <=> \E p \in 1..L : T = {p}
  BY <1>3
<1>8. QED
  BY <1>1, <1>2, <1>5, <1>6, <1>7, Zenon

\* The characters of a local part, and of an atom of it.
LocalCharacters == {"a", "A", "_", "-", "."}
AtomCharacters == {"a", "A", "_", "-"}

\* What is checked of a local part and a domain.
MailFault(local, domain) ==
  Reason(<<
    <<local = << >>, "no local part">>,
    <<domain = << >>, "no domain">>,
    <<Len(local) > MaxLocal, "local part too long">>,
    <<Blank \in ToSet(local), "whitespace">>,
    <<~(ToSet(local) \subseteq LocalCharacters), "characters">>,
    <<"." \in Ends(local), "dot at an end">>,
    <<\E i \in 2..Len(local) : local[i] = "." /\ local[i - 1] = ".", "two dots">>,
    <<Blank \in ToSet(domain), "whitespace">>,
    <<Normalized(domain)[1] # "none", "domain">>>>)

\* A local part and a domain that pass.
MailPasses(local, domain) ==
  /\ local # << >> /\ domain # << >> /\ ~(Len(local) > MaxLocal)
  /\ Blank \notin ToSet(local) /\ ToSet(local) \subseteq LocalCharacters /\ "." \notin Ends(local)
  /\ ~(\E i \in 2..Len(local) : local[i] = "." /\ local[i - 1] = ".")
  /\ Blank \notin ToSet(domain) /\ Normalized(domain)[1] = "none"

\* No reason is given exactly if every check passes.
LEMMA MailFaultNone ==
  ASSUME NEW local, NEW domain
  PROVE  MailFault(local, domain) = "none" <=> MailPasses(local, domain)
<1>a. PICK A, B, C, D, E :
        /\ A = (local = << >>) /\ B = (domain = << >>) /\ C = (Len(local) > MaxLocal)
        /\ D = (Blank \in ToSet(local)) /\ E = (~(ToSet(local) \subseteq LocalCharacters))
  OBVIOUS
<1>b. PICK F, G, H, I :
        /\ F = ("." \in Ends(local)) /\ G = (\E i \in 2..Len(local) : local[i] = "." /\ local[i - 1] = ".")
        /\ H = (Blank \in ToSet(domain)) /\ I = (Normalized(domain)[1] # "none")
  OBVIOUS
<1>1. /\ A = (local = << >>) /\ B = (domain = << >>) /\ C = (Len(local) > MaxLocal)
      /\ D = (Blank \in ToSet(local)) /\ E = (~(ToSet(local) \subseteq LocalCharacters))
      /\ F = ("." \in Ends(local)) /\ G = (\E i \in 2..Len(local) : local[i] = "." /\ local[i - 1] = ".")
      /\ H = (Blank \in ToSet(domain)) /\ I = (Normalized(domain)[1] # "none")
  BY <1>a, <1>b, Zenon
<1>2. /\ A \in BOOLEAN /\ B \in BOOLEAN /\ C \in BOOLEAN /\ D \in BOOLEAN /\ E \in BOOLEAN
      /\ F \in BOOLEAN /\ G \in BOOLEAN /\ H \in BOOLEAN /\ I \in BOOLEAN
  BY <1>1
<1>3. PICK ra, rb, rc, rd, re, rf, rg, ri :
        /\ ra = "no local part" /\ rb = "no domain" /\ rc = "local part too long" /\ rd = "whitespace"
        /\ re = "characters" /\ rf = "dot at an end" /\ rg = "two dots" /\ ri = "domain"
  BY Zenon
<1>4. /\ ra # "none" /\ rb # "none" /\ rc # "none" /\ rd # "none" /\ re # "none" /\ rf # "none"
      /\ rg # "none" /\ ri # "none"
  BY <1>3, Zenon
<1>5. PICK a, b, c, d, e, f, g, h, i :
        /\ a = <<A, ra>> /\ b = <<B, rb>> /\ c = <<C, rc>> /\ d = <<D, rd>> /\ e = <<E, re>>
        /\ f = <<F, rf>> /\ g = <<G, rg>> /\ h = <<H, rd>> /\ i = <<I, ri>>
  OBVIOUS
<1>6. PICK checks : checks = <<a, b, c, d, e, f, g, h, i>>
  OBVIOUS
<1>7. MailFault(local, domain) = Reason(checks)
  BY <1>1, <1>3, <1>5, <1>6, Zenon DEF MailFault
<1>8. /\ DOMAIN checks = 1..9
      /\ checks[1] = a /\ checks[2] = b /\ checks[3] = c /\ checks[4] = d /\ checks[5] = e /\ checks[6] = f
      /\ checks[7] = g /\ checks[8] = h /\ checks[9] = i
  BY <1>6
<1>9. /\ a[2] = ra /\ b[2] = rb /\ c[2] = rc /\ d[2] = rd /\ e[2] = re /\ f[2] = rf
      /\ g[2] = rg /\ h[2] = rd /\ i[2] = ri
  BY <1>5
<1>10. /\ (a[1] <=> A) /\ (b[1] <=> B) /\ (c[1] <=> C) /\ (d[1] <=> D) /\ (e[1] <=> E) /\ (f[1] <=> F)
       /\ (g[1] <=> G) /\ (h[1] <=> H) /\ (i[1] <=> I)
  BY <1>2, <1>5
<1>11. \A j \in 1..9 : j = 1 \/ j = 2 \/ j = 3 \/ j = 4 \/ j = 5 \/ j = 6 \/ j = 7 \/ j = 8 \/ j = 9
  OBVIOUS
<1>12. Reason(checks) = "none" <=> \A j \in 1..9 : ~checks[j][1]
  <2>1. \A j \in 1..9 : checks[j][2] # "none"
    BY <1>4, <1>8, <1>9, <1>11
  <2>2. 9 \in Nat
    OBVIOUS
  <2>3. QED
    BY <1>8, <2>1, <2>2, ReasonNone
<1>13. (\A j \in 1..9 : ~checks[j][1]) <=> ~A /\ ~B /\ ~C /\ ~D /\ ~E /\ ~F /\ ~G /\ ~H /\ ~I
  <2>1. 1 \in 1..9 /\ 2 \in 1..9 /\ 3 \in 1..9 /\ 4 \in 1..9 /\ 5 \in 1..9 /\ 6 \in 1..9 /\ 7 \in 1..9 /\ 8 \in 1..9 /\ 9 \in 1..9
    OBVIOUS
  <2>2. QED
    BY <1>8, <1>10, <1>11, <2>1, Zenon
<1>14. MailFault(local, domain) = "none" <=> ~A /\ ~B /\ ~C /\ ~D /\ ~E /\ ~F /\ ~G /\ ~H /\ ~I
  BY <1>7, <1>12, <1>13, Zenon
<1>15. QED
  BY <1>1, <1>14, Zenon DEF MailPasses

\* Where a text without blanks at its ends is split, and into what.
AtOf(raw) == CHOOSE i \in DOMAIN raw : raw[i] = "@"

LocalOf(raw) == Strip(SubSeq(raw, 1, AtOf(raw) - 1))

DomainOf(raw) == Strip(SubSeq(raw, AtOf(raw) + 1, Len(raw)))

\* What is wrong with it.
FaultOf(raw) ==
  IF raw = << >> THEN "empty" ELSE IF Count(raw, "@") # 1 THEN "no single @" ELSE MailFault(LocalOf(raw), DomainOf(raw))

\* What a text is split into.
LEMMA SplitMeans ==
  ASSUME NEW text
  PROVE  Split(text) = IF FaultOf(Strip(text)) = "none"
                       THEN <<"none", LocalOf(Strip(text)), Normalized(DomainOf(Strip(text)))[2]>>
                       ELSE <<FaultOf(Strip(text)), << >>, << >>>>
  BY Zenon DEF Split, MailFault, Blank, LocalCharacters, AtOf, LocalOf, DomainOf, FaultOf

\* A text that is split has one @ and two parts that pass.
LEMMA SplitPasses ==
  ASSUME NEW text
  PROVE  /\ Split(text)[1] = "none" <=> /\ Strip(text) # << >> /\ Count(Strip(text), "@") = 1
                                        /\ MailPasses(LocalOf(Strip(text)), DomainOf(Strip(text)))
         /\ Split(text)[1] = "none" =>
              Split(text) = <<"none", LocalOf(Strip(text)), Normalized(DomainOf(Strip(text)))[2]>>
<1>1. PICK raw, fault : raw = Strip(text) /\ fault = FaultOf(raw)
  OBVIOUS
<1>2. PICK e, w : e = "empty" /\ w = "no single @"
  BY Zenon
<1>3. e # "none" /\ w # "none"
  BY <1>2, Zenon
<1>4. PICK f : f = MailFault(LocalOf(raw), DomainOf(raw))
  OBVIOUS
<1>5. fault = IF raw = << >> THEN e ELSE IF Count(raw, "@") # 1 THEN w ELSE f
  BY <1>1, <1>2, <1>4, Zenon DEF FaultOf
<1>6. fault = "none" <=> raw # << >> /\ Count(raw, "@") = 1 /\ f = "none"
  BY <1>3, <1>5
<1>7. PICK local, name : local = LocalOf(raw) /\ name = Normalized(DomainOf(raw))[2]
  OBVIOUS
<1>8. Split(text) = IF fault = "none" THEN <<"none", local, name>> ELSE <<fault, << >>, << >>>>
  BY <1>1, <1>7, SplitMeans, Zenon
<1>9. Split(text)[1] = "none" <=> fault = "none"
  <2>1. CASE fault = "none"
    <3>1. Split(text) = <<"none", local, name>>
      BY <1>8, <2>1
    <3>2. QED
      BY <2>1, <3>1
  <2>2. CASE fault # "none"
    <3>1. Split(text) = <<fault, << >>, << >>>>
      BY <1>8, <2>2
    <3>2. QED
      BY <2>2, <3>1
  <2>3. QED
    BY <2>1, <2>2
<1>10. f = "none" <=> MailPasses(LocalOf(raw), DomainOf(raw))
  BY <1>4, MailFaultNone
<1>11. fault = "none" => Split(text) = <<"none", local, name>>
  BY <1>8
<1>12. QED
  BY <1>1, <1>6, <1>7, <1>9, <1>10, <1>11, Zenon

\* A local part, character by character.
LocalHas(local, n) ==
  /\ n \in Nat \ {0} /\ Len(local) = n /\ n <= MaxLocal
  /\ \A i \in 1..n : local[i] \in LocalCharacters
  /\ local[1] # "." /\ local[n] # "."
  /\ \A i \in 2..n : ~(local[i] = "." /\ local[i - 1] = ".")

\* A local part that passes is one, character by character.
LEMMA LocalIs ==
  ASSUME NEW local \in Seq(Characters), NEW domain, MailPasses(local, domain), MaxLocal \in Nat
  PROVE  LocalHas(local, Len(local))
<1>1. PICK n \in Nat : n = Len(local) /\ DOMAIN local = 1..n
  OBVIOUS
<1>2. /\ local # << >> /\ ~(n > MaxLocal) /\ ToSet(local) \subseteq LocalCharacters /\ "." \notin Ends(local)
      /\ ~(\E i \in 2..n : local[i] = "." /\ local[i - 1] = ".")
  BY <1>1, Zenon DEF MailPasses
<1>3. n \in Nat \ {0} /\ n <= MaxLocal
  BY <1>1, <1>2
<1>4. \A i \in 1..n : local[i] \in LocalCharacters
  BY <1>1, <1>2, SetOf
<1>5. local[1] # "." /\ local[n] # "."
  <2>1. {1, n} \cap (1..n) = {1, n}
    BY <1>3
  <2>2. Ends(local) = {local[i] : i \in {1, n}}
    BY <1>1, <2>1, Zenon DEF Ends
  <2>3. QED
    BY <1>2, <2>2
<1>6. QED
  BY <1>1, <1>2, <1>3, <1>4, <1>5, Zenon DEF LocalHas

\* The characters of a local part are no blanks and no @; those of an atom are
\* no dots.
LEMMA LocalKinds == /\ Blank \notin LocalCharacters /\ "@" \notin LocalCharacters
                    /\ \A c \in LocalCharacters : c = "." \/ c \in AtomCharacters
                    /\ Blank \notin {"a", "x", "-", "."} /\ "@" # Blank
  BY Zenon DEF Blank, LocalCharacters, AtomCharacters

\* Atoms stand between the dots of a local part.
LEMMA AtomsAre ==
  ASSUME NEW local \in Seq(Characters), NEW n, LocalHas(local, n), NEW atom \in ToSet(Pieces(local, "."))
  PROVE  atom # << >> /\ ToSet(atom) \subseteq AtomCharacters
<1>1. PICK P : P = Pieces(local, ".")
  OBVIOUS
<1>2. PICK m \in Nat \ {0} : \E b : CutInto(Characters, local, ".", b, m, P)
  BY <1>1, PiecesAre
<1>3. PICK a : CutInto(Characters, local, ".", a, m, P)
  BY <1>2
<1>4. CutAt(local, ".", a, m) /\ DOMAIN P = 1..m /\ \A k \in 1..m : P[k] = SubSeq(local, a[k] + 1, a[k + 1] - 1)
  BY <1>3, Zenon DEF CutInto
<1>5. PICK k \in 1..m : atom = P[k]
  <2>1. atom \in {P[j] : j \in 1..m}
    <3>1. ToSet(P) = {P[j] : j \in DOMAIN P}
      BY Zenon DEF ToSet
    <3>2. QED
      BY <1>1, <1>4, <3>1
  <2>2. QED
    BY <2>1, Zenon
<1>6. atom = SubSeq(local, a[k] + 1, a[k + 1] - 1)
  BY <1>4, <1>5
<1>7. /\ n \in Nat \ {0} /\ Len(local) = n /\ \A i \in 1..n : local[i] \in LocalCharacters
      /\ local[1] # "." /\ local[n] # "." /\ \A i \in 2..n : ~(local[i] = "." /\ local[i - 1] = ".")
  BY Zenon DEF LocalHas
<1>8. PieceIs(Characters, local, ".", a[k], a[k + 1], atom)
  BY <1>4, <1>6, PieceHas
<1>9. PICK from, to : from = a[k] /\ to = a[k + 1]
  OBVIOUS
<1>10. /\ from \in 0..n /\ to \in 1..n + 1 /\ from < to /\ to - from - 1 \in Nat
       /\ atom \in Seq(Characters) /\ Len(atom) = to - from - 1
       /\ \A i \in 1..(to - from - 1) : atom[i] = local[from + i] /\ local[from + i] # "." /\ from + i \in 1..n
  BY <1>7, <1>8, <1>9, Zenon DEF PieceIs
<1>11. /\ a[1] = 0 /\ a[m + 1] = n + 1
       /\ \A l \in 2..m : local[a[l]] = "."
  BY <1>4, <1>7, Zenon DEF CutAt
<1>12. from = 0 \/ local[from] = "."
  <2>1. k = 1 \/ k \in 2..m
    BY <1>2
  <2>2. QED
    BY <1>9, <1>11, <2>1
<1>13. to = n + 1 \/ local[to] = "."
  <2>1. k + 1 = m + 1 \/ k + 1 \in 2..m
    BY <1>2
  <2>2. QED
    BY <1>9, <1>11, <2>1
<1>14. to # from + 1
  <2>1. SUFFICES ASSUME to = from + 1 PROVE FALSE
    OBVIOUS
  <2>2. CASE from = 0
    <3>1. to = 1 /\ to # n + 1
      BY <1>7, <2>1, <2>2
    <3>2. QED
      BY <1>7, <1>13, <3>1
  <2>3. CASE from # 0 /\ to = n + 1
    <3>1. from = n
      BY <1>7, <1>10, <2>1, <2>3
    <3>2. QED
      BY <1>7, <1>12, <2>3, <3>1
  <2>4. CASE from # 0 /\ to # n + 1
    <3>1. to \in 2..n /\ to - 1 = from
      BY <1>7, <1>10, <2>1, <2>4
    <3>2. QED
      BY <1>7, <1>12, <1>13, <2>4, <3>1
  <2>5. QED
    BY <2>2, <2>3, <2>4
<1>15. Len(atom) # 0
  BY <1>7, <1>10, <1>14
<1>16. atom # << >>
  BY <1>15
<1>17. \A i \in 1..Len(atom) : atom[i] \in AtomCharacters
  BY <1>7, <1>10, LocalKinds
<1>18. ToSet(atom) \subseteq AtomCharacters
  <2>1. \A c : c \in ToSet(atom) => \E i \in 1..Len(atom) : atom[i] = c
    BY <1>10, SetOf, Zenon
  <2>2. QED
    BY <1>17, <2>1, Zenon
<1>19. QED
  BY <1>16, <1>18

\* w is an address of these parts.
AddressOf(w, local, name) ==
  Strip(w) = w /\ w # << >> /\ Count(w, "@") = 1 /\ LocalOf(w) = local /\ DomainOf(w) = name

\* A local part, an @ and a name are split where they were put together.
LEMMA AddressSplit ==
  ASSUME NEW local \in Seq(Characters), NEW n, LocalHas(local, n), NEW name \in Seq(Characters),
         MaxLabel \in Nat, MaxName \in Nat, WellFormed(name), NEW c \in Characters, c = "@"
  PROVE  AddressOf(local \o <<c>> \o name, local, name)
<1>0. PICK w : w = local \o <<c>> \o name
  OBVIOUS
<1>1. /\ n \in Nat \ {0} /\ Len(local) = n /\ \A i \in 1..n : local[i] \in LocalCharacters
  BY Zenon DEF LocalHas
<1>2. PICK M \in Nat : M = Len(name) /\ M # 0 /\ \A i \in 1..M : name[i] \in {"a", "x", "-", "."}
  BY FormedHas
<1>3. /\ w \in Seq(Characters) /\ Len(w) = n + 1 + M
      /\ \A i \in 1..n : w[i] = local[i]
      /\ w[n + 1] = c
      /\ \A i \in 1..M : w[n + 1 + i] = name[i]
  <2>1. PICK u : u = local \o <<c>>
    OBVIOUS
  <2>2. u \in Seq(Characters) /\ Len(u) = n + 1 /\ (\A i \in 1..n : u[i] = local[i]) /\ u[n + 1] = c
    BY <1>1, <2>1
  <2>3. w = u \o name
    BY <1>0, <2>1
  <2>4. PICK m \in Nat : m = n + 1
    BY <1>1
  <2>5. /\ w \in Seq(Characters) /\ Len(w) = m + M
        /\ \A i \in 1..m : w[i] = u[i]
        /\ \A i \in 1..M : w[m + i] = name[i]
    <3>1. u \o name \in Seq(Characters) /\ Len(u \o name) = Len(u) + Len(name)
      BY <2>2, Behind
    <3>2. \A i \in 1..Len(u) : (u \o name)[i] = u[i]
      BY <2>2, Behind
    <3>3. \A i \in 1..Len(name) : (u \o name)[Len(u) + i] = name[i]
      BY <2>2, Behind
    <3>4. Len(u) = m
      BY <2>2, <2>4
    <3>5. Len(name) = M
      BY <1>2
    <3>6. QED
      BY <2>3, <3>1, <3>2, <3>3, <3>4, <3>5
  <2>6. n + 1 \in 1..m /\ \A i \in 1..n : i \in 1..m
    BY <1>1, <2>4
  <2>7. QED
    BY <2>2, <2>4, <2>5, <2>6
<1>3a. w \in Seq(Characters)
  BY <1>3
<1>4. \A i \in 1..n : local[i] # Blank /\ local[i] # "@"
  BY <1>1, LocalKinds
<1>5. \A i \in 1..M : name[i] # Blank /\ name[i] # "@"
  BY <1>2, LocalKinds
<1>6. 1 \in 1..n /\ n \in 1..n /\ 1 \in 1..M /\ M \in 1..M /\ n + 1 + M # 0
  BY <1>1, <1>2
<1>7. Strip(w) = w
  <2>1. w[1] # Blank /\ w[n + 1 + M] # Blank
    BY <1>3, <1>4, <1>5, <1>6
  <2>2. QED
    BY <1>3, <1>6, <2>1, StripSame
<1>8. \A i \in 1..n + 1 + M : w[i] = "@" <=> i = n + 1
  <2>1. SUFFICES ASSUME NEW i \in 1..n + 1 + M PROVE w[i] = "@" <=> i = n + 1
    OBVIOUS
  <2>2. CASE i \in 1..n
    <3>1. i # n + 1
      BY <1>1, <2>2
    <3>2. QED
      BY <1>3, <1>4, <2>2, <3>1
  <2>3. CASE i = n + 1
    BY <1>3, <2>3
  <2>4. CASE i \notin 1..n /\ i # n + 1
    <3>1. PICK j \in 1..M : n + 1 + j = i
      <4>1. i - (n + 1) \in 1..M /\ n + 1 + (i - (n + 1)) = i
        BY <1>1, <1>2, <2>4
      <4>2. QED
        BY <4>1
    <3>2. QED
      BY <1>3, <1>5, <2>4, <3>1
  <2>5. QED
    BY <2>2, <2>3, <2>4
<1>9. PICK p \in 1..Len(w) : p = n + 1
  BY <1>1, <1>2, <1>3
<1>10. DOMAIN w = 1..n + 1 + M
  BY <1>3
<1>11. {i \in DOMAIN w : w[i] = "@"} = {p}
  BY <1>3, <1>8, <1>9, <1>10
<1>12. Count(w, "@") = 1
  BY <1>3a, <1>11, CountedOne, Zenon
<1>13. AtOf(w) = p
  <2>1. \A i \in DOMAIN w : w[i] = "@" <=> i = p
    BY <1>8, <1>9, <1>10
  <2>2. p \in DOMAIN w
    BY <1>3, <1>9, <1>10
  <2>3. PICK e : e = AtOf(w)
    OBVIOUS
  <2>4. e \in DOMAIN w /\ w[e] = "@"
    BY <2>1, <2>2, <2>3, Zenon DEF AtOf
  <2>5. QED
    BY <2>1, <2>3, <2>4
<1>14. LocalOf(w) = local
  <2>1. PICK s : s = SubSeq(w, 1, n)
    OBVIOUS
  <2>2. 1 \in Nat \ {0} /\ n \in Nat /\ n <= Len(w) /\ 1 <= n + 1 /\ n - 1 + 1 = n /\ \A i \in 1..n : 1 + i - 1 = i
    BY <1>1, <1>2, <1>3
  <2>3. s \in Seq(Characters) /\ Len(s) = n - 1 + 1 /\ \A i \in 1..(n - 1 + 1) : s[i] = w[1 + i - 1]
    BY <1>3a, <2>1, <2>2, PartOf
  <2>4. s = local
    <3>1. \A i \in 1..Len(s) : s[i] = local[i]
      BY <1>3, <2>2, <2>3
    <3>2. QED
      BY <1>1, <2>2, <2>3, <3>1, SameText
  <2>5. Strip(local) = local
    <3>1. Len(local) # 0 /\ local[1] # Blank /\ local[Len(local)] # Blank
      BY <1>1, <1>4, <1>6
    <3>2. QED
      BY <3>1, StripSame
  <2>6. AtOf(w) - 1 = n
    BY <1>1, <1>9, <1>13
  <2>7. QED
    BY <2>1, <2>4, <2>5, <2>6, Zenon DEF LocalOf
<1>15. DomainOf(w) = name
  <2>0. n + 2 \in Nat \ {0} /\ n + 1 + M \in Nat
    BY <1>1, <1>2
  <2>1. PICK lo \in Nat \ {0}, hi \in Nat : lo = n + 2 /\ hi = n + 1 + M
    BY <2>0
  <2>2. PICK s : s = SubSeq(w, lo, hi)
    OBVIOUS
  <2>3. hi <= Len(w) /\ lo <= hi + 1 /\ hi - lo + 1 = M /\ \A i \in 1..M : lo + i - 1 = n + 1 + i
    BY <1>1, <1>2, <1>3, <2>1
  <2>4. s \in Seq(Characters) /\ Len(s) = hi - lo + 1 /\ \A i \in 1..(hi - lo + 1) : s[i] = w[lo + i - 1]
    <3>1. hi <= Len(w) /\ lo <= hi + 1
      BY <2>3
    <3>2. QED
      BY <1>3a, <2>2, <3>1, PartOf
  <2>5. s = name
    <3>1. \A i \in 1..Len(s) : s[i] = name[i]
      BY <1>3, <2>3, <2>4
    <3>2. QED
      BY <1>2, <2>3, <2>4, <3>1, SameText
  <2>6. Strip(name) = name
    <3>1. Len(name) # 0 /\ name[1] # Blank /\ name[Len(name)] # Blank
      BY <1>2, <1>5, <1>6
    <3>2. QED
      BY <3>1, StripSame
  <2>7. AtOf(w) + 1 = lo /\ Len(w) = hi
    BY <1>1, <1>3, <1>9, <1>13, <2>1
  <2>8. QED
    BY <2>2, <2>5, <2>6, <2>7, Zenon DEF DomainOf
<1>16. w # << >>
  BY <1>3, <1>6
<1>17. QED
  BY <1>0, <1>7, <1>12, <1>14, <1>15, <1>16, Zenon DEF AddressOf

\* Numbers that are moved are as many.
LEMMA Moved ==
  ASSUME NEW X \in SUBSET Int, NEW Y \in SUBSET Int, NEW d \in Int, IsFiniteSet(X),
         \A j \in X : j + d \in Y, \A i \in Y : i - d \in X
  PROVE  Cardinality(X) = Cardinality(Y)
<1>1. PICK f : f = [j \in X |-> j + d]
  OBVIOUS
<1>2. f \in [X -> Y] /\ \A j \in X : f[j] = j + d
  BY <1>1
<1>3. \A j, k \in X : f[j] = f[k] => j = k
  BY <1>2
<1>4. \A i \in Y : \E j \in X : f[j] = i
  <2>1. SUFFICES ASSUME NEW i \in Y PROVE \E j \in X : f[j] = i
    OBVIOUS
  <2>2. PICK j \in X : j = i - d
    OBVIOUS
  <2>3. f[j] = i
    BY <1>2, <2>2
  <2>4. QED
    BY <2>3
<1>5. f \in Bijection(X, Y)
  BY <1>2, <1>3, <1>4 DEF Bijection, Injection, IsInjective, Surjection
<1>6. ExistsBijection(X, Y)
  BY <1>5 DEF ExistsBijection
<1>7. QED
  BY <1>6, FS_Bijection

\* How an accepted text is divided: what is left of it starts at lo, its @ is
\* at p, and the local part starts off places after that.
DividedAt(text, raw, lo, p, part, off, local) ==
  /\ raw \in Seq(Characters) /\ BareOf(Characters, text, lo, raw)
  /\ p \in 1..Len(raw) /\ \A i \in 1..Len(raw) : raw[i] = "@" <=> i = p
  /\ part \in Seq(Characters) /\ Len(part) = p - 1 /\ \A i \in 1..p - 1 : part[i] = raw[i]
  /\ local \in Seq(Characters) /\ BareOf(Characters, part, off, local)

\* Every accepted text is divided so.
LEMMA Divided ==
  ASSUME NEW text \in Seq(Characters), Split(text)[1] = "none"
  PROVE  /\ \E lo, p, part, off : DividedAt(text, Strip(text), lo, p, part, off, LocalOf(Strip(text)))
         /\ DomainOf(Strip(text)) \in Seq(Characters)
<1>1. PICK raw \in Seq(Characters) : raw = Strip(text)
  BY StripIs
<1>2. PICK local, domain : local = LocalOf(raw) /\ domain = DomainOf(raw)
  OBVIOUS
<1>3. raw # << >> /\ Count(raw, "@") = 1 /\ MailPasses(local, domain)
  BY <1>1, <1>2, SplitPasses
<1>4. PICK lo : BareOf(Characters, text, lo, raw)
  BY <1>1, <1>3, StripIs
<1>5. PICK R \in Nat : R = Len(raw) /\ DOMAIN raw = 1..R
  OBVIOUS
<1>6. PICK p \in 1..R : {i \in DOMAIN raw : raw[i] = "@"} = {p}
  BY <1>3, <1>5, CountedOne
<1>7. \A i \in 1..R : raw[i] = "@" <=> i = p
  BY <1>5, <1>6
<1>8. AtOf(raw) = p
  <2>1. PICK e : e = AtOf(raw)
    OBVIOUS
  <2>2. p \in DOMAIN raw /\ raw[p] = "@"
    BY <1>5, <1>7
  <2>3. e \in DOMAIN raw /\ raw[e] = "@"
    BY <2>1, <2>2, Zenon DEF AtOf
  <2>4. QED
    BY <1>5, <1>7, <2>1, <2>3
<1>9. PICK part : part = SubSeq(raw, 1, p - 1)
  OBVIOUS
<1>10. part \in Seq(Characters) /\ Len(part) = p - 1 /\ \A i \in 1..p - 1 : part[i] = raw[i]
  <2>1. PICK hi \in Nat : hi = p - 1
    OBVIOUS
  <2>2. 1 \in Nat \ {0} /\ hi <= Len(raw) /\ 1 <= hi + 1 /\ hi - 1 + 1 = hi /\ \A i \in 1..hi : 1 + i - 1 = i
    BY <1>5, <2>1
  <2>3. part = SubSeq(raw, 1, hi)
    BY <1>9, <2>1
  <2>4. part \in Seq(Characters) /\ Len(part) = hi - 1 + 1 /\ \A i \in 1..(hi - 1 + 1) : part[i] = raw[1 + i - 1]
    BY <2>2, <2>3, PartOf
  <2>5. QED
    BY <2>1, <2>2, <2>4
<1>11. local = Strip(part)
  BY <1>2, <1>8, <1>9, Zenon DEF LocalOf
<1>12. local # << >>
  BY <1>3, Zenon DEF MailPasses
<1>13. local \in Seq(Characters) /\ \E off : BareOf(Characters, part, off, local)
  BY <1>10, <1>11, <1>12, StripIs
<1>14. domain \in Seq(Characters)
  <2>1. PICK lo2 \in Nat \ {0} : lo2 = p + 1
    OBVIOUS
  <2>2. R <= Len(raw) /\ lo2 <= R + 1
    BY <1>5, <2>1
  <2>3. PICK rest \in Seq(Characters) : rest = SubSeq(raw, lo2, R)
    BY <1>5, <2>1, <2>2, PartOf
  <2>4. domain = Strip(rest)
    BY <1>2, <1>5, <1>8, <2>1, <2>3, Zenon DEF DomainOf
  <2>5. QED
    BY <2>4, StripIs
<1>15. PICK off : BareOf(Characters, part, off, local)
  BY <1>13
<1>16. DividedAt(text, raw, lo, p, part, off, local)
  BY <1>4, <1>5, <1>7, <1>10, <1>13, <1>15, Zenon DEF DividedAt
<1>17. QED
  BY <1>1, <1>2, <1>14, <1>16, Zenon

\* Letters before the @ are letters of the local part.
LEMMA CaseCounted ==
  ASSUME NEW text \in Seq(Characters), NEW raw, NEW lo, NEW p, NEW part, NEW off, NEW local,
         DividedAt(text, raw, lo, p, part, off, local)
  PROVE  Count(local, "A") = Count(SubSeq(text, 1, Min({i \in DOMAIN text : text[i] = "@"})), "A")
<1>1. /\ raw \in Seq(Characters) /\ BareOf(Characters, text, lo, raw)
      /\ p \in 1..Len(raw) /\ \A i \in 1..Len(raw) : raw[i] = "@" <=> i = p
      /\ part \in Seq(Characters) /\ Len(part) = p - 1 /\ \A i \in 1..p - 1 : part[i] = raw[i]
      /\ local \in Seq(Characters) /\ BareOf(Characters, part, off, local)
  BY Zenon DEF DividedAt
<1>2. PICK K \in Nat, R \in Nat, n \in Nat : K = Len(text) /\ DOMAIN text = 1..K /\ R = Len(raw) /\ n = Len(local) /\ DOMAIN local = 1..n
  <2>1. Len(text) \in Nat /\ DOMAIN text = 1..Len(text)
    OBVIOUS
  <2>2. Len(raw) \in Nat /\ Len(local) \in Nat /\ DOMAIN local = 1..Len(local)
    BY <1>1
  <2>3. QED
    BY <2>1, <2>2
<1>3. /\ lo \in 1..K /\ lo + R - 1 \in 1..K
      /\ \A i \in 1..R : raw[i] = text[lo + i - 1]
      /\ \A i \in 1..K : i < lo \/ i > lo + R - 1 => text[i] = Blank
  BY <1>1, <1>2, Zenon DEF BareOf
<1>4. p \in 1..R /\ \A i \in 1..R : raw[i] = "@" <=> i = p
  BY <1>1, <1>2
<1>5. /\ off \in 1..p - 1 /\ off + n - 1 \in 1..p - 1
      /\ \A i \in 1..n : local[i] = part[off + i - 1]
      /\ \A i \in 1..p - 1 : i < off \/ i > off + n - 1 => part[i] = Blank
  BY <1>1, <1>2, Zenon DEF BareOf
<1>6. \A i \in 1..p - 1 : part[i] = raw[i]
  BY <1>1
<1>7. PICK e \in 1..K : e = lo + p - 1
  <2>1. lo + p - 1 \in 1..K
    BY <1>2, <1>3, <1>4
  <2>2. QED
    BY <2>1
<1>8. Blank # "A" /\ Blank # "@"
  BY Zenon DEF Blank
<1>9. text[e] = "@"
  BY <1>3, <1>4, <1>7
<1>10. \A i \in 1..K : i < e => text[i] # "@"
  <2>1. SUFFICES ASSUME NEW i \in 1..K, i < e PROVE text[i] # "@"
    OBVIOUS
  <2>2. CASE i < lo
    BY <1>3, <1>8, <2>2
  <2>3. CASE ~(i < lo)
    <3>1. PICK k \in 1..R : lo + k - 1 = i /\ k # p
      <4>1. i - lo + 1 \in 1..R /\ lo + (i - lo + 1) - 1 = i /\ i - lo + 1 # p
        BY <1>2, <1>3, <1>4, <1>7, <2>1, <2>3
      <4>2. QED
        BY <4>1
    <3>2. QED
      BY <1>3, <1>4, <3>1
  <2>4. QED
    BY <2>2, <2>3
<1>11. Min({i \in DOMAIN text : text[i] = "@"}) = e
  <2>1. PICK T : T = {i \in DOMAIN text : text[i] = "@"}
    OBVIOUS
  <2>2. T \in SUBSET Nat /\ T # {} /\ e \in T /\ \A i \in T : ~(i < e)
    BY <1>2, <1>9, <1>10, <2>1
  <2>3. PICK m : m = Min(T)
    OBVIOUS
  <2>4. m \in T /\ \A i \in T : m <= i
    BY <2>2, <2>3, LeastOf
  <2>5. m = e
    BY <2>2, <2>4
  <2>6. QED
    BY <2>1, <2>3, <2>5
<1>12. PICK pre : pre = SubSeq(text, 1, e)
  OBVIOUS
<1>13. pre \in Seq(Characters) /\ Len(pre) = e /\ DOMAIN pre = 1..e /\ \A i \in 1..e : pre[i] = text[i]
  <2>1. 1 \in Nat \ {0} /\ e \in Nat /\ e <= Len(text) /\ 1 <= e + 1 /\ e - 1 + 1 = e /\ \A i \in 1..e : 1 + i - 1 = i
    BY <1>2, <1>7
  <2>2. pre \in Seq(Characters) /\ Len(pre) = e - 1 + 1 /\ \A i \in 1..(e - 1 + 1) : pre[i] = text[1 + i - 1]
    BY <1>12, <2>1, PartOf
  <2>3. QED
    BY <2>1, <2>2
<1>14. PICK X, Y : X = {j \in DOMAIN local : local[j] = "A"} /\ Y = {i \in DOMAIN pre : pre[i] = "A"}
  OBVIOUS
<1>15. X \subseteq 1..n /\ Y \subseteq 1..e /\ \A j \in 1..n : j \in X <=> local[j] = "A"
  BY <1>2, <1>13, <1>14
<1>16. \A i \in 1..e : i \in Y <=> text[i] = "A"
  BY <1>13, <1>14
<1>17. PICK d \in Int : d = lo + off - 2
  <2>1. lo \in Nat /\ off \in Nat
    BY <1>2, <1>3, <1>4, <1>5
  <2>2. lo + off - 2 \in Int
    BY <2>1
  <2>3. QED
    BY <2>2
<1>18. ASSUME NEW j \in X
       PROVE  j + d \in Y
  <2>1. j \in 1..n /\ local[j] = "A"
    BY <1>15
  <2>2. PICK k \in 1..p - 1 : k = off + j - 1
    <3>1. off + j - 1 \in 1..p - 1
      BY <1>2, <1>4, <1>5, <2>1
    <3>2. QED
      BY <3>1
  <2>3. raw[k] = "A" /\ k \in 1..R
    <3>1. local[j] = part[k]
      BY <1>5, <2>1, <2>2
    <3>2. k \in 1..R
      BY <1>4, <2>2
    <3>3. QED
      BY <1>6, <2>1, <2>2, <3>1, <3>2
  <2>4. text[lo + k - 1] = "A"
    BY <1>3, <2>3
  <2>5. lo + k - 1 = j + d /\ j + d \in 1..e
    BY <1>2, <1>3, <1>4, <1>5, <1>7, <1>17, <2>1, <2>2
  <2>6. QED
    BY <1>16, <2>4, <2>5
<1>19. ASSUME NEW i \in Y
       PROVE  i - d \in X
  <2>1. i \in 1..e /\ text[i] = "A"
    BY <1>15, <1>16
  <2>2. i # e /\ ~(i < lo)
    <3>1. i \in 1..K
      BY <1>7, <2>1
    <3>2. QED
      BY <1>3, <1>8, <1>9, <2>1, <3>1
  <2>3. PICK k \in 1..p - 1 : lo + k - 1 = i
    <3>1. i - lo + 1 \in 1..p - 1 /\ lo + (i - lo + 1) - 1 = i
      BY <1>2, <1>3, <1>4, <1>7, <2>1, <2>2
    <3>2. QED
      BY <3>1
  <2>4. part[k] = "A"
    <3>1. k \in 1..R
      BY <1>4, <2>3
    <3>2. raw[k] = text[i]
      BY <1>3, <2>3, <3>1
    <3>3. QED
      BY <1>6, <2>1, <2>3, <3>2
  <2>5. ~(k < off) /\ ~(k > off + n - 1)
    BY <1>5, <1>8, <2>3, <2>4
  <2>6. PICK j \in 1..n : off + j - 1 = k
    <3>1. k - off + 1 \in 1..n /\ off + (k - off + 1) - 1 = k
      BY <1>2, <1>4, <1>5, <2>3, <2>5
    <3>2. QED
      BY <3>1
  <2>7. local[j] = "A"
    BY <1>5, <2>4, <2>6
  <2>8. i - d = j
    <3>1. lo \in Int /\ off \in Int /\ j \in Int /\ k \in Int /\ i \in Int
      BY <1>2, <1>3, <1>4, <1>5, <2>1, <2>3, <2>6
    <3>2. QED
      BY <1>17, <2>3, <2>6, <3>1
  <2>9. QED
    BY <1>15, <2>7, <2>8
<1>20. Cardinality(X) = Cardinality(Y)
  <2>1. X \in SUBSET Int /\ Y \in SUBSET Int
    BY <1>15
  <2>2. 1 \in Int /\ n \in Int
    BY <1>2
  <2>3. IsFiniteSet(1..n)
    BY <2>2, FS_Interval, Zenon
  <2>4. IsFiniteSet(X)
    BY <1>15, <2>3, FS_Subset
  <2>5. QED
    BY <1>18, <1>19, <2>1, <2>4, Moved
<1>21. QED
  BY <1>11, <1>12, <1>14, <1>20, Zenon DEF Count

\* What MailsExact says of a text and what it is split into.
MailsMean(text, split) ==
  split[1] = "none" =>
    /\ \A atom \in ToSet(Pieces(split[2], ".")) : atom # << >> /\ ToSet(atom) \subseteq {"a", "A", "_", "-"}
    /\ Len(split[2]) <= MaxLocal
    /\ WellFormed(split[3])
    /\ Split(Address(split)) = split
    /\ Count(split[2], "A") = Count(SubSeq(text, 1, Min({i \in DOMAIN text : text[i] = "@"})), "A")

\* Every text is split as MailsExact says.
LEMMA MailsMeant ==
  ASSUME NEW text \in Seq(Characters), MaxLabel \in Nat, MaxName \in Nat, MaxLocal \in Nat
  PROVE  MailsMean(text, Split(text))
<1>1. PICK split : split = Split(text)
  OBVIOUS
<1>2. SUFFICES ASSUME split[1] = "none"
               PROVE  /\ \A atom \in ToSet(Pieces(split[2], ".")) : atom # << >> /\ ToSet(atom) \subseteq AtomCharacters
                      /\ Len(split[2]) <= MaxLocal
                      /\ WellFormed(split[3])
                      /\ Split(Address(split)) = split
                      /\ Count(split[2], "A") = Count(SubSeq(text, 1, Min({i \in DOMAIN text : text[i] = "@"})), "A")
  BY <1>1, Zenon DEF MailsMean, AtomCharacters
<1>3. PICK raw, local, domain : raw = Strip(text) /\ local = LocalOf(raw) /\ domain = DomainOf(raw)
  OBVIOUS
<1>4. /\ MailPasses(local, domain)
      /\ split = <<"none", local, Normalized(domain)[2]>>
  BY <1>1, <1>2, <1>3, SplitPasses, Zenon
<1>5. (\E lo, p, part, off : DividedAt(text, raw, lo, p, part, off, local)) /\ domain \in Seq(Characters)
  BY <1>1, <1>2, <1>3, Divided, Zenon
<1>6. PICK lo, p, part, off : DividedAt(text, raw, lo, p, part, off, local)
  BY <1>5
<1>7. /\ local \in Seq(Characters) /\ raw \in Seq(Characters)
      /\ p \in 1..Len(raw) /\ \A i \in 1..Len(raw) : raw[i] = "@" <=> i = p
  BY <1>6, Zenon DEF DividedAt
<1>8. PICK n : n = Len(local)
  OBVIOUS
<1>9. LocalHas(local, n)
  BY <1>4, <1>7, <1>8, LocalIs
<1>10. PICK name : name = Normalized(domain)[2]
  OBVIOUS
<1>11. Normalized(domain)[1] = "none"
  BY <1>4, Zenon DEF MailPasses
<1>12. name \in Seq(Characters) /\ WellFormed(name) /\ Unbarred(name)
  BY <1>5, <1>10, <1>11, NormalizedForms
<1>13. split = <<"none", local, name>> /\ split[2] = local /\ split[3] = name
  BY <1>4, <1>10
<1>14. \A atom \in ToSet(Pieces(local, ".")) : atom # << >> /\ ToSet(atom) \subseteq AtomCharacters
  BY <1>7, <1>9, AtomsAre
<1>15. n <= MaxLocal
  BY <1>9, Zenon DEF LocalHas
<1>16. PICK c \in Characters : c = "@"
  BY <1>7
<1>17. PICK w : w = local \o <<c>> \o name
  OBVIOUS
<1>18. AddressOf(w, local, name)
  BY <1>7, <1>9, <1>12, <1>16, <1>17, AddressSplit
<1>19. Address(split) = w
  BY <1>13, <1>16, <1>17, Zenon DEF Address
<1>20. MailPasses(local, name)
  <2>1. Normalized(name)[1] = "none" /\ Normalized(name)[2] = name
    <3>1. Normalized(name) = <<"none", name>>
      BY <1>12, FormedKept
    <3>2. QED
      BY <3>1
  <2>2. name # << >> /\ Blank \notin ToSet(name)
    <3>1. Len(name) # 0 /\ \A i \in 1..Len(name) : name[i] \in {"a", "x", "-", "."}
      BY <1>12, FormedHas
    <3>2. name # << >>
      BY <3>1
    <3>3. Blank \notin ToSet(name)
      BY <1>12, <3>1, LocalKinds, SetOf
    <3>4. QED
      BY <3>2, <3>3
  <2>3. QED
    BY <1>4, <2>1, <2>2, Zenon DEF MailPasses
<1>21. Split(w) = split
  <2>1. Strip(w) = w /\ w # << >> /\ Count(w, "@") = 1 /\ LocalOf(w) = local /\ DomainOf(w) = name
    BY <1>18, Zenon DEF AddressOf
  <2>2. Split(w)[1] = "none"
    BY <1>20, <2>1, SplitPasses, Zenon
  <2>3. Split(w) = <<"none", LocalOf(Strip(w)), Normalized(DomainOf(Strip(w)))[2]>>
    BY <2>2, SplitPasses, Zenon
  <2>4. Normalized(name)[2] = name
    <3>1. Normalized(name) = <<"none", name>>
      BY <1>12, FormedKept
    <3>2. QED
      BY <3>1
  <2>5. QED
    BY <1>13, <2>1, <2>3, <2>4, Zenon
<1>22. Count(local, "A") = Count(SubSeq(text, 1, Min({i \in DOMAIN text : text[i] = "@"})), "A")
  BY <1>6, CaseCounted
<1>23. QED
  BY <1>8, <1>12, <1>13, <1>14, <1>15, <1>19, <1>21, <1>22, Zenon

\* The registrable domain ends as the name does.
LEMMA LastKept ==
  ASSUME NEW S, NEW x \in S, NEW labels \in Seq(S), Len(labels) >= 2, \A suffix \in PublicSuffixes : Len(suffix) = 2
  PROVE  Tld(labels) = Last(Registrable(labels))
<1>1. PICK r, L : r = Registrable(labels) /\ L = Len(labels)
  OBVIOUS
<1>2. L \in Nat /\ L >= 2
  BY <1>1
<1>3. PICK n \in Nat : n # 0 /\ n <= L /\ (r = labels \/ r = LastLabels(labels, n))
  <2>1. 2 \in Nat /\ 2 # 0 /\ 2 <= L /\ 3 \in Nat /\ 3 # 0 /\ (~(L < 3) => 3 <= L)
    BY <1>2
  <2>2. r = labels \/ r = LastLabels(labels, 2) \/ (~(L < 3) /\ r = LastLabels(labels, 3))
    BY <1>1, Zenon DEF Registrable
  <2>3. QED
    BY <2>1, <2>2, Zenon
<1>4. CASE r = labels
  BY <1>1, <1>4, Zenon DEF Tld
<1>5. CASE r = LastLabels(labels, n)
  <2>1. LastIs(S, labels, n, r)
    BY <1>1, <1>3, <1>5, LastOf, Zenon
  <2>2. Len(r) = n /\ \A i \in 1..n : r[i] = labels[L - n + i]
    BY <1>1, <2>1, Zenon DEF LastIs
  <2>3. n \in 1..n /\ L - n + n = L
    BY <1>2, <1>3
  <2>4. r[n] = labels[L]
    BY <2>2, <2>3
  <2>5. Last(r) = r[n] /\ Tld(labels) = labels[L]
    BY <1>1, <2>2, Zenon DEF Last, Tld
  <2>6. QED
    BY <1>1, <2>4, <2>5
<1>6. QED
  BY <1>3, <1>4, <1>5

\* The reply is that of the request, for every tool of names.
NamesInv ==
  /\ call[1] = "name" => call[2] \in Names /\ (result # << >> => result[1] = Normalized(call[2]))
  /\ call[1] = "mail" => call[2] \in Mails /\ (result # << >> => result[1] = MailReply(call[2]))
  /\ call[1] = "host" => call[2] \in HostLists /\ (result # << >> => result[1] = HostReply(call[2]))
  /\ call[1] = "list" => call[2] \in Listings /\ (result # << >> => result[1] = ListReply(call[2]))

\* Whatever has been asked, the reply is the one of its tool.
LEMMA NamesInvariant == NamesSpec => []NamesInv
<1>1. NamesCalled => NamesInv
  BY DEF NamesCalled, Called, NamesInv
<1>2. NamesInv /\ [NamesAnswers]_callVars => NamesInv'
  <2>1. SUFFICES ASSUME NamesInv, [NamesAnswers]_callVars PROVE NamesInv'
    OBVIOUS
  <2>2. CASE UNCHANGED callVars
    BY <2>1, <2>2 DEF NamesInv, callVars
  <2>3. CASE Answers("name", Normalized)
    BY <2>1, <2>3 DEF NamesInv, Answers
  <2>4. CASE Answers("mail", MailReply)
    BY <2>1, <2>4 DEF NamesInv, Answers
  <2>5. CASE Answers("host", HostReply)
    BY <2>1, <2>5 DEF NamesInv, Answers
  <2>6. CASE Answers("list", ListReply)
    BY <2>1, <2>6 DEF NamesInv, Answers
  <2>7. QED
    BY <2>1, <2>2, <2>3, <2>4, <2>5, <2>6 DEF NamesAnswers
<1>3. QED
  BY <1>1, <1>2, PTL DEF NamesSpec

\* For any texts, labels and lists: names and addresses are brought into one
\* form, and registrable domains and lists of hosts are as NamesExact says
\* (utils/domain.py, utils/email.py, _normalize_host, matches).
THEOREM NamesMadeExact ==
  ASSUME NamesIsTyped
  PROVE  NamesSpec => []NamesExact
<1>1. MaxLabel \in Nat /\ MaxName \in Nat /\ MaxLocal \in Nat
  BY NamesIsTyped DEF NamesIsTyped
<1>2. ASSUME NamesInv
      PROVE  FormsExact
  <2>1. SUFFICES ASSUME Answered("name")
                 PROVE  LET name == result[1][2]
                        IN /\ result[1][1] = "none" =>
                                WellFormed(name) /\ Normalized(name) = <<"none", name>> /\ Normalized(Append(name, ".")) = <<"none", name>>
                           /\ WellFormed(call[2]) =>
                                (result[1][1] = "none" <=> ~\E label \in ToSet(Pieces(call[2], ".")) : Barred(label))
    BY Zenon DEF FormsExact
  <2>2. PICK text \in Names : text = call[2] /\ result[1] = Normalized(text)
    BY <1>2, <2>1 DEF NamesInv, Answered
  <2>3. text \in Seq(Characters)
    BY NamesIsTyped, Zenon DEF NamesIsTyped
  <2>4. FormsMean(text)
    BY <1>1, <2>3, FormsMeant
  <2>5. QED
    BY <2>2, <2>4, Zenon DEF FormsMean
<1>3. ASSUME NamesInv
      PROVE  MailsExact
  <2>1. SUFFICES ASSUME Answered("mail") PROVE MailsMean(call[2], result[1])
    BY Zenon DEF MailsExact, MailsMean
  <2>2. PICK text \in Mails : text = call[2] /\ result[1] = Split(text)
    BY <1>3, <2>1 DEF NamesInv, Answered, MailReply
  <2>3. text \in Seq(Characters)
    BY NamesIsTyped, Zenon DEF NamesIsTyped
  <2>4. MailsMean(text, Split(text))
    BY <1>1, <2>3, MailsMeant
  <2>5. QED
    BY <2>2, <2>4, Zenon
<1>4. ASSUME NamesInv
      PROVE  HostsExact
  <2>1. PICK x : x = "a"
    OBVIOUS
  <2>2. SUFFICES ASSUME Answered("host")
                 PROVE  LET registrable == result[1].registrable
                        IN /\ IsSuffix(registrable, call[2])
                           /\ registrable \in PublicSuffixes => registrable = call[2]
                           /\ Tail(registrable) \in PublicSuffixes \/ Len(registrable) = 2
                           /\ Registrable(<<x>> \o registrable) =
                                IF registrable \in PublicSuffixes THEN <<x>> \o registrable ELSE registrable
                           /\ result[1].tld = Last(registrable)
    BY <2>1, Zenon DEF HostsExact
  <2>3. PICK labels \in HostLists : labels = call[2] /\ result[1] = HostReply(labels)
    BY <1>4, <2>2 DEF NamesInv, Answered
  <2>4. PICK S : S = STRING \cup {x}
    OBVIOUS
  <2>5. labels \in Seq(STRING) /\ Len(labels) >= 2 /\ \A suffix \in PublicSuffixes : Len(suffix) = 2
    BY NamesIsTyped, Zenon DEF NamesIsTyped
  <2>6. labels \in Seq(S) /\ x \in S
    BY <2>4, <2>5
  <2>7. PICK registrable : registrable = Registrable(labels)
    OBVIOUS
  <2>8. HostsMean(labels, x)
    BY <2>5, <2>6, HostsMeant
  <2>9. PICK tld : tld = Tld(labels)
    OBVIOUS
  <2>10. result[1].registrable = registrable /\ result[1].tld = tld
    <3>1. result[1] = [registrable |-> registrable, tld |-> tld]
      BY <2>3, <2>7, <2>9, Zenon DEF HostReply
    <3>2. QED
      BY <3>1
  <2>11. tld = Last(registrable)
    BY <2>5, <2>6, <2>7, <2>9, LastKept
  <2>12. QED
    BY <2>3, <2>7, <2>8, <2>10, <2>11, Zenon DEF HostsMean
<1>5. ASSUME NamesInv
      PROVE  ListsExact
  <2>1. SUFFICES ASSUME Answered("list")
                 PROVE  LET q == call[2]
                            lines == ToSet(q.lines)
                            plain == {line \in lines : Normalized(line)[1] = "none" /\ ~(ToSet(line) \cap {"u", "o"} # {})}
                        IN /\ \A line \in plain : IsBelow(Normalized(line)[2], q.host) => result[1].listed
                           /\ result[1].named => result[1].listed
                           /\ result[1].listed =>
                                \E line \in lines : ToSet(line) \cap {"u", "o", "#"} = {} /\ IsBelow(HostOf(line), q.host)
    BY Zenon DEF ListsExact, IsBelow
  <2>2. PICK q \in Listings : q = call[2] /\ result[1] = ListReply(q)
    BY <1>5, <2>1 DEF NamesInv, Answered
  <2>3. q.lines \in Seq(Seq(Characters)) /\ q.host \in Seq({"a", "x", "-", "."})
    BY NamesIsTyped, Zenon DEF NamesIsTyped
  <2>4. ListsMean(q)
    BY <1>1, <2>3, ListsMeant
  <2>5. QED
    BY <2>2, <2>4, Zenon DEF ListsMean
<1>6. NamesInv => NamesExact
  BY <1>2, <1>3, <1>4, <1>5 DEF NamesExact
<1>7. QED
  BY <1>6, NamesInvariant, PTL
=============================================================================
