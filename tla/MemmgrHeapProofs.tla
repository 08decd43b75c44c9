--------------------------- MODULE MemmgrHeapProofs ---------------------------
(***************************************************************************)
(* Theorems about MemmgrHeap.                                              *)
(***************************************************************************)
EXTENDS MemmgrHeap, FiniteSetTheorems, WellFoundedInduction, TLAPS

(* The sizes cut the heap into blocks without overlap and without a hole.  *)
PartitionOK(size) ==
    /\ DOMAIN size \subseteq Addr
    /\ \A a \in DOMAIN size : size[a] \in Nat \ {0} /\ a + size[a] <= HeapSize
    /\ \A a, b \in DOMAIN size : a < b => a + size[a] <= b
    /\ \A x \in Addr : \E a \in DOMAIN size : a <= x /\ x < a + size[a]

Sorted(s) == \A i, j \in DOMAIN s : i < j => s[i] < s[j]

Coalesced(F, size) == \A x, y \in F : x + size[x] # y

(* The free list: blocks in the order of their addresses, no two of them   *)
(* neighbours.                                                             *)
ListOK(s, size) ==
    /\ s \in Seq(Addr)
    /\ Sorted(s)
    /\ Range(s) \subseteq DOMAIN size
    /\ Coalesced(Range(s), size)

(* a nonempty set of natural numbers has a least element *)
LEMMA Least ==
    ASSUME NEW T \in SUBSET Nat, T # {}
    PROVE  \E m \in T : \A n \in T : m <= n
<1>1. PICK m \in T : \A n \in T : ~(<<n, m>> \in OpToRel(<, Nat))
  BY NatLessThanWellFounded, WFMin
<1>2. \A n \in T : ~(n < m)
  BY <1>1 DEF OpToRel
<1> QED
  BY <1>2

(* the loop over the list stops before the first entry that is not below b *)
LEMMA PassedIs ==
    ASSUME NEW s \in Seq(Addr), NEW b \in Addr, HeapSize \in Nat
    PROVE  LET k == Passed(s, b) IN
           /\ k \in 0 .. Len(s)
           /\ \A j \in 1 .. k : s[j] < b
           /\ k < Len(s) => s[k + 1] >= b
<1> DEFINE T == {n \in 1 .. (Len(s) + 1) : n = Len(s) + 1 \/ s[n] >= b}
<1>1. T \in SUBSET Nat /\ Len(s) + 1 \in T
  OBVIOUS
<1>2. PICK m \in T : \A n \in T : m <= n
  BY <1>1, Least
<1>3. /\ m - 1 \in 0 .. Len(s)
      /\ \A j \in 1 .. (m - 1) : s[j] < b
      /\ m - 1 < Len(s) => s[m - 1 + 1] >= b
  <2>1. m \in 1 .. (Len(s) + 1)
    OBVIOUS
  <2>2. ASSUME NEW j \in 1 .. (m - 1)
        PROVE  s[j] < b
    <3>1. j \in 1 .. Len(s) /\ j \notin T /\ s[j] \in Addr
      BY <1>2, <2>1
    <3> QED
      BY <3>1 DEF Addr
  <2> QED
    BY <1>2, <2>1, <2>2
<1> QED
  BY <1>3 DEF Passed

(* two neighbouring blocks merged into one *)
Merged(size, a, b) ==
    [x \in DOMAIN size \ {b} |-> IF x = a THEN size[a] + size[b] ELSE size[x]]

LEMMA MergeKeepsPartition ==
    ASSUME HeapSize \in Nat, NEW size, PartitionOK(size),
           NEW a \in DOMAIN size, NEW b \in DOMAIN size, a + size[a] = b
    PROVE  PartitionOK(Merged(size, a, b))
<1> DEFINE M == Merged(size, a, b)
<1>1. /\ DOMAIN M = DOMAIN size \ {b} /\ a \in DOMAIN M
      /\ M[a] = size[a] + size[b]
      /\ \A x \in DOMAIN M \ {a} : M[x] = size[x]
  BY DEF Merged, PartitionOK, Addr
<1> HIDE DEF M
<1>2. DOMAIN M \subseteq Addr
      /\ \A x \in DOMAIN M : M[x] \in Nat \ {0} /\ x + M[x] <= HeapSize
  BY <1>1 DEF PartitionOK, Addr
<1>3. ASSUME NEW x \in DOMAIN M, NEW y \in DOMAIN M, x < y
      PROVE  x + M[x] <= y
  <2>1. x \in DOMAIN size /\ y \in DOMAIN size /\ y # b
    BY <1>1
  <2>2. \A z \in DOMAIN size : z \in Int /\ size[z] \in Int
    BY DEF PartitionOK, Addr
  <2>3. x + size[x] <= y
    BY <1>3, <2>1 DEF PartitionOK
  <2>4. CASE x = a
    <3>1. b <= y
      BY <2>3, <2>4
    <3>2. b < y
      BY <3>1, <2>1, <2>2
    <3>3. b + size[b] <= y
      BY <2>1, <3>2 DEF PartitionOK
    <3>4. M[x] = size[a] + size[b]
      BY <1>1, <2>4
    <3> QED
      BY <2>2, <2>4, <3>3, <3>4
  <2>5. CASE x # a
    BY <1>1, <2>3, <2>5
  <2> QED
    BY <2>4, <2>5
<1>4. ASSUME NEW z \in Addr
      PROVE  \E x \in DOMAIN M : x <= z /\ z < x + M[x]
  <2>1. PICK x \in DOMAIN size : x <= z /\ z < x + size[x]
    BY DEF PartitionOK
  <2>2. CASE x = b
    BY <1>1, <2>1, <2>2 DEF PartitionOK, Addr
  <2>3. CASE x = a
    BY <1>1, <2>1, <2>3 DEF PartitionOK, Addr
  <2>4. CASE x \notin {a, b}
    BY <1>1, <2>1, <2>4
  <2> QED
    BY <2>2, <2>3, <2>4
<1> QED
  BY <1>2, <1>3, <1>4 DEF PartitionOK, M

(* what is left of a list without what lies between two places *)
Kept(s, k, r) == {s[j] : j \in {i \in DOMAIN s : i <= k \/ i >= r}}

(* a list from which a part was replaced by m, which lies between what is left *)
LEMMA SpliceIs ==
    ASSUME HeapSize \in Nat, NEW s \in Seq(Addr), Sorted(s),
           NEW k \in 0 .. Len(s), NEW r \in (k + 1) .. (Len(s) + 1), NEW m \in Addr,
           \A j \in 1 .. k : s[j] < m,
           \A j \in r .. Len(s) : m < s[j]
    PROVE  /\ Splice(s, k, m, r) \in Seq(Addr)
           /\ Sorted(Splice(s, k, m, r))
           /\ Range(Splice(s, k, m, r)) = {m} \cup Kept(s, k, r)
<1> DEFINE t == Splice(s, k, m, r)
           n == k + 1 + Len(s) - r + 1
<1>1. /\ n \in Nat /\ DOMAIN s = 1 .. Len(s)
      /\ k \in Int /\ r \in Int /\ Len(s) \in Nat
      /\ \A j \in DOMAIN s : s[j] \in Int /\ s[j] \in Addr
      /\ m \in Int
  BY DEF Addr
<1>2. /\ DOMAIN t = 1 .. n
      /\ \A i \in 1 .. n : i <= k => t[i] = s[i]
      /\ \A i \in 1 .. n : i = k + 1 => t[i] = m
      /\ \A i \in 1 .. n : i > k + 1 => t[i] = s[i - k - 2 + r]
  BY <1>1 DEF Splice
<1>3. \A i \in 1 .. n : i <= k => i \in DOMAIN s
  BY <1>1
<1>4. \A i \in 1 .. n : i > k + 1 => i - k - 2 + r \in r .. Len(s)
  BY <1>1
<1>5. \A i \in 1 .. n : t[i] \in Addr
  BY <1>1, <1>2, <1>3, <1>4
<1>6. t \in Seq(Addr)
  <2>1. t \in [1 .. n -> Addr]
    BY <1>1, <1>5 DEF Splice
  <2>2. n \in Nat
    BY <1>1
  <2> HIDE DEF n, t
  <2> QED
    BY <2>1, <2>2
<1> HIDE DEF t
<1>7. ASSUME NEW i \in DOMAIN t, NEW j \in DOMAIN t, i < j
      PROVE  t[i] < t[j]
  <2>0. i \in 1 .. n /\ j \in 1 .. n
    BY <1>2
  <2>1. CASE j <= k
    BY <1>1, <1>2, <1>3, <1>7, <2>0, <2>1 DEF Sorted
  <2>2. CASE i <= k /\ j = k + 1
    BY <1>1, <1>2, <1>3, <2>0, <2>2
  <2>3. CASE i <= k /\ j > k + 1
    <3>1. t[i] < m /\ m < t[j]
      BY <1>1, <1>2, <1>3, <1>4, <2>0, <2>3
    <3>2. t[i] \in Int /\ t[j] \in Int
      BY <1>5, <2>0 DEF Addr
    <3> QED
      BY <1>1, <3>1, <3>2
  <2>4. CASE i = k + 1 /\ j > k + 1
    BY <1>1, <1>2, <1>4, <2>0, <2>4
  <2>5. CASE i > k + 1
    <3>1. i - k - 2 + r < j - k - 2 + r
      BY <1>1, <1>7, <2>0
    <3>0. j > k + 1
      BY <1>1, <1>7, <2>0, <2>5
    <3>2. i - k - 2 + r \in DOMAIN s /\ j - k - 2 + r \in DOMAIN s /\ j > k + 1
      <4>1. i - k - 2 + r \in r .. Len(s) /\ j - k - 2 + r \in r .. Len(s)
        BY <1>4, <2>0, <2>5, <3>0
      <4>2. r .. Len(s) \subseteq 1 .. Len(s)
        BY <1>1
      <4> QED
        BY <1>1, <3>0, <4>1, <4>2
    <3>3. s[i - k - 2 + r] < s[j - k - 2 + r]
      BY <3>1, <3>2 DEF Sorted
    <3> QED
      BY <1>2, <2>0, <2>5, <3>2, <3>3
  <2> QED
    BY <1>1, <1>7, <2>0, <2>1, <2>2, <2>3, <2>4, <2>5
<1> DEFINE kept == {i \in DOMAIN s : i <= k \/ i >= r}
<1>8. ASSUME NEW i \in DOMAIN t
      PROVE  t[i] \in {m} \cup {s[j] : j \in kept}
  <2>0. i \in 1 .. n /\ i \in Int
    BY <1>1, <1>2
  <2>1. CASE i <= k
    <3>1. i \in kept /\ t[i] = s[i]
      BY <1>2, <1>3, <2>0, <2>1
    <3> QED
      BY <3>1
  <2>2. CASE i = k + 1
    BY <1>2, <2>0, <2>2
  <2>3. CASE i > k + 1
    <3>1. i - k - 2 + r \in kept
      BY <1>1, <1>4, <2>0, <2>3
    <3>2. t[i] = s[i - k - 2 + r]
      BY <1>2, <2>0, <2>3
    <3> QED
      BY <3>1, <3>2
  <2> QED
    BY <1>1, <2>0, <2>1, <2>2, <2>3
<1>9. ASSUME NEW j \in kept
      PROVE  \E i \in DOMAIN t : t[i] = s[j]
  <2>1. CASE j <= k
    <3>1. j \in 1 .. n
      BY <1>1, <2>1
    <3> QED
      BY <1>2, <2>1, <3>1
  <2>2. CASE j >= r
    <3>1. j - r + k + 2 \in 1 .. n /\ j - r + k + 2 > k + 1
      BY <1>1, <2>2
    <3>2. (j - r + k + 2) - k - 2 + r = j
      BY <1>1
    <3>3. t[j - r + k + 2] = s[j]
      BY <1>2, <3>1, <3>2
    <3> QED
      BY <1>2, <3>1, <3>3
  <2> QED
    BY <2>1, <2>2
<1>10. k + 1 \in DOMAIN t /\ t[k + 1] = m
  BY <1>1, <1>2
<1> QED
  <2>1. Range(t) = {m} \cup {s[j] : j \in kept}
    BY <1>8, <1>9, <1>10 DEF Range
  <2> QED
    BY <1>6, <1>7, <2>1 DEF Sorted, t, Kept

(* a block that enters the list is merged with the neighbours that are free *)
LEMMA InsertIs ==
    ASSUME HeapSize \in Nat, NEW s, NEW size, PartitionOK(size), ListOK(s, size),
           size = [a \in DOMAIN size |-> size[a]],
           NEW b \in DOMAIN size \ Range(s)
    PROVE  LET h == prvInsertBlockIntoFreeList(s, size, b) IN
           /\ PartitionOK(h.size)
           /\ ListOK(h.list, h.size)
           /\ h.size = [a \in DOMAIN h.size |-> h.size[a]]
           /\ DOMAIN h.size \ Range(h.list) = (DOMAIN size \ Range(s)) \ {b}
           /\ \A a \in (DOMAIN size \ Range(s)) \ {b} : h.size[a] = size[a]
<1> DEFINE k == Passed(s, b)
           prevToo == k > 0 /\ s[k] + size[s[k]] = b
           nextToo == k < Len(s) /\ b + size[b] = s[k + 1]
           m == IF prevToo THEN s[k] ELSE b
           gone == (IF prevToo THEN {b} ELSE {}) \cup (IF nextToo THEN {s[k + 1]} ELSE {})
           all == size[b] + (IF prevToo THEN size[s[k]] ELSE 0)
                          + (IF nextToo THEN size[s[k + 1]] ELSE 0)
           lo == IF prevToo THEN k - 1 ELSE k
           hi == IF nextToo THEN k + 2 ELSE k + 1
           list == Splice(s, lo, m, hi)
           new == [a \in DOMAIN size \ gone |-> IF a = m THEN all ELSE size[a]]
<1>1. prvInsertBlockIntoFreeList(s, size, b) = [list |-> list, size |-> new]
  BY DEF prvInsertBlockIntoFreeList, Contiguous
<1>2. /\ s \in Seq(Addr) /\ DOMAIN s = 1 .. Len(s) /\ Len(s) \in Nat
      /\ Sorted(s) /\ b \in Addr
      /\ \A j \in 1 .. Len(s) : s[j] \in DOMAIN size /\ s[j] # b
      /\ \A x \in DOMAIN size : x \in Int /\ size[x] \in Int /\ size[x] > 0
  <2>1. s \in Seq(Addr) /\ Sorted(s) /\ b \in Addr
    BY DEF ListOK, PartitionOK
  <2>2. DOMAIN s = 1 .. Len(s) /\ Len(s) \in Nat
    BY <2>1
  <2>3. \A j \in 1 .. Len(s) : s[j] \in DOMAIN size /\ s[j] # b
    BY <2>2 DEF ListOK, Range
  <2>4. \A x \in DOMAIN size : x \in Int /\ size[x] \in Int /\ size[x] > 0
    BY DEF PartitionOK, Addr
  <2> QED
    BY <2>1, <2>2, <2>3, <2>4
<1>3. /\ k \in 0 .. Len(s)
      /\ \A j \in 1 .. k : s[j] < b
      /\ k < Len(s) => s[k + 1] > b
  <2>1. k < Len(s) => s[k + 1] >= b /\ s[k + 1] # b /\ s[k + 1] \in Int
    BY <1>2, PassedIs
  <2> QED
    BY <1>2, <2>1, PassedIs
<1> HIDE DEF k
<1>4. \A j \in 1 .. Len(s) : j > k => s[j] > b
  <2>1. ASSUME NEW j \in 1 .. Len(s), j > k
        PROVE  s[j] > b
    <3>1. k < Len(s) /\ s[k + 1] > b /\ k + 1 \in 1 .. Len(s)
      BY <1>2, <1>3, <2>1
    <3>2. CASE j = k + 1
      BY <3>1, <3>2
    <3>3. CASE j > k + 1
      <4>1. s[k + 1] < s[j]
        BY <1>2, <3>1, <3>3 DEF Sorted
      <4>2. s[j] \in Int /\ s[k + 1] \in Int /\ b \in Int
        BY <1>2, <3>1
      <4> QED
        BY <3>1, <4>1, <4>2
    <3> QED
      BY <1>3, <2>1, <3>2, <3>3
  <2> QED
    BY <2>1
\* the two neighbours
<1>5. prevToo => k \in 1 .. Len(s) /\ s[k] \in DOMAIN size /\ s[k] < b /\ s[k] + size[s[k]] = b
  BY <1>2, <1>3
<1>6. nextToo => k + 1 \in 1 .. Len(s) /\ s[k + 1] \in DOMAIN size /\ s[k + 1] > b
                 /\ b + size[b] = s[k + 1]
  BY <1>2, <1>3
\* the sizes
<1>7. PartitionOK(new)
  <2>1. CASE ~prevToo /\ ~nextToo
    <3>1. gone = {} /\ m = b /\ all = size[b]
      BY <1>2, <2>1
    <3>2. new = [a \in DOMAIN size |-> size[a]]
      BY <3>1
    <3> QED
      BY <3>2
  <2>2. CASE prevToo /\ ~nextToo
    <3>1. new = Merged(size, s[k], b)
      BY <1>2, <1>5, <2>2 DEF Merged
    <3> QED
      BY <1>5, <2>2, <3>1, MergeKeepsPartition
  <2>3. CASE ~prevToo /\ nextToo
    <3>1. new = Merged(size, b, s[k + 1])
      BY <1>2, <1>6, <2>3 DEF Merged
    <3> QED
      BY <1>6, <2>3, <3>1, MergeKeepsPartition
  <2>4. CASE prevToo /\ nextToo
    <3> DEFINE one == Merged(size, b, s[k + 1])
    <3>1. PartitionOK(one)
      BY <1>6, <2>4, MergeKeepsPartition
    <3>2. /\ DOMAIN one = DOMAIN size \ {s[k + 1]}
          /\ b \in DOMAIN one /\ one[b] = size[b] + size[s[k + 1]]
          /\ s[k] \in DOMAIN one /\ one[s[k]] = size[s[k]]
      BY <1>2, <1>5, <1>6, <2>4 DEF Merged
    <3>3. PartitionOK(Merged(one, s[k], b))
      <4> HIDE DEF one
      <4> QED
        BY <1>5, <2>4, <3>1, <3>2, MergeKeepsPartition
    <3>4. new = Merged(one, s[k], b)
      BY <1>2, <1>5, <1>6, <2>4 DEF Merged
    <3> QED
      BY <3>3, <3>4
  <2> QED
    BY <2>1, <2>2, <2>3, <2>4
\* the list
<1>8. /\ lo \in 0 .. Len(s) /\ hi \in (lo + 1) .. (Len(s) + 1) /\ m \in Addr
      /\ m \in DOMAIN size \ gone
  <2>1. lo \in 0 .. Len(s) /\ hi \in (lo + 1) .. (Len(s) + 1)
    <3>1. k \in Int /\ Len(s) \in Int /\ 0 <= k /\ k <= Len(s)
      BY <1>2, <1>3
    <3>2. (lo = k /\ ~prevToo) \/ (lo = k - 1 /\ k >= 1)
      BY <1>5, <3>1
    <3>3. (hi = k + 1 /\ ~nextToo) \/ (hi = k + 2 /\ k + 1 <= Len(s))
      BY <1>6, <3>1
    <3> HIDE DEF lo, hi
    <3> QED
      BY <3>1, <3>2, <3>3
  <2>2. m \in DOMAIN size
    BY <1>5
  <2>3. m \notin gone
    BY <1>2, <1>5, <1>6
  <2> QED
    BY <2>1, <2>2, <2>3 DEF PartitionOK
<1>9. /\ \A j \in 1 .. lo : s[j] < m
      /\ \A j \in hi .. Len(s) : m < s[j]
  <2>1. ASSUME NEW j \in 1 .. lo
        PROVE  s[j] < m
    <3>1. CASE prevToo
      BY <1>2, <1>5, <3>1 DEF Sorted
    <3>2. CASE ~prevToo
      BY <1>3, <3>2
    <3> QED
      BY <3>1, <3>2
  <2>2. ASSUME NEW j \in hi .. Len(s)
        PROVE  m < s[j]
    <3>1. j \in 1 .. Len(s) /\ j > k
      BY <1>2, <1>3, <2>2
    <3>2. s[j] > b /\ s[j] \in Int /\ b \in Int /\ m \in Int /\ m <= b
      BY <1>2, <1>4, <1>5, <3>1
    <3> QED
      BY <3>2
  <2> QED
    BY <2>1, <2>2
<1>10. /\ list \in Seq(Addr)
       /\ Sorted(list)
       /\ Range(list) = {m} \cup Kept(s, lo, hi)
  <2> HIDE DEF lo, hi, m
  <2> QED
    BY <1>2, <1>8, <1>9, SpliceIs
<1>11. Range(list) = (Range(s) \cup {b}) \ gone
  <2>1. ASSUME NEW x \in Range(list)
        PROVE  x \in (Range(s) \cup {b}) \ gone
    <3>1. CASE x = m
      BY <1>2, <1>5, <1>8, <3>1 DEF Range
    <3>2. ASSUME NEW j \in DOMAIN s, j <= lo \/ j >= hi, x = s[j]
          PROVE  x \in (Range(s) \cup {b}) \ gone
      <4>1. x # b /\ x \in Range(s)
        BY <1>2, <3>2 DEF Range
      <4>2. nextToo => x # s[k + 1]
        <5>1. nextToo => k + 1 \in DOMAIN s /\ (j < k + 1 \/ j > k + 1)
          BY <1>2, <1>3, <1>6, <3>2
        <5>2. \A a, c \in DOMAIN s : a < c => s[a] # s[c]
          BY <1>2 DEF Sorted
        <5> QED
          BY <3>2, <5>1, <5>2
      <4> QED
        BY <4>1, <4>2
    <3> QED
      BY <1>10, <3>1, <3>2 DEF Kept
  <2>2. ASSUME NEW x \in (Range(s) \cup {b}) \ gone
        PROVE  x \in Range(list)
    <3>1. CASE x = b
      BY <1>10, <2>2, <3>1
    <3>2. ASSUME NEW j \in DOMAIN s, x = s[j]
          PROVE  x \in Range(list)
      <4>1. CASE j <= lo \/ j >= hi
        BY <1>10, <3>2, <4>1 DEF Kept
      <4>2. CASE ~(j <= lo \/ j >= hi)
        <5>1. (prevToo /\ j = k) \/ (nextToo /\ j = k + 1)
          <6>1. j \in Int /\ k \in Int /\ j \in 1 .. Len(s)
            BY <1>2, <1>3
          <6>2. j > lo /\ j < hi
            BY <1>2, <1>3, <4>2, <6>1
          <6> QED
            BY <6>1, <6>2
        <5> QED
          BY <1>10, <2>2, <3>2, <5>1
      <4> QED
        BY <4>1, <4>2
    <3> QED
      BY <2>2, <3>1, <3>2 DEF Range
  <2> QED
    BY <2>1, <2>2
<1>12. /\ gone \subseteq Range(s) \cup {b} /\ m \in Range(s) \cup {b}
       /\ prevToo => s[k] \in Range(s)
       /\ nextToo => s[k + 1] \in Range(s)
  BY <1>2, <1>5, <1>6 DEF Range
<1>13. /\ DOMAIN new = DOMAIN size \ gone
       /\ new[m] = all
       /\ \A x \in DOMAIN new \ {m} : new[x] = size[x]
  BY <1>8
<1>14. Coalesced(Range(s), size) /\ Range(s) \subseteq DOMAIN size
  BY DEF ListOK
<1>15. m + all = (IF nextToo THEN s[k + 1] + size[s[k + 1]] ELSE b + size[b])
  <2>1. \A x \in DOMAIN size : x \in Int /\ size[x] \in Int
    BY <1>2
  <2> QED
    BY <1>2, <1>5, <1>6, <2>1
<1>16. ASSUME NEW x \in Range(list), NEW y \in Range(list)
       PROVE  x + new[x] # y
  <2>1. /\ x \in DOMAIN size /\ y \in DOMAIN size
        /\ x \in Int /\ y \in Int /\ size[x] \in Int /\ size[x] > 0 /\ b \in Int
    BY <1>2, <1>11, <1>14
  <2>2. CASE x # m /\ y # b
    <3>1. y \in Range(s) /\ x \in Range(s) \cup {b} /\ x \notin gone
      BY <1>11, <2>2
    <3>2. new[x] = size[x]
      BY <1>11, <1>12, <1>13, <1>14, <2>2
    <3>3. x \in Range(s)
      BY <2>2, <3>1
    <3> QED
      BY <1>14, <3>1, <3>2, <3>3 DEF Coalesced
  <2>3. CASE x # m /\ y = b
    <3>1. ~prevToo /\ m = b /\ x \in Range(s)
      BY <1>11, <2>3
    <3>2. new[x] = size[x]
      BY <1>11, <1>12, <1>13, <1>14, <2>3
    <3>3. PICK j \in 1 .. Len(s) : x = s[j]
      BY <1>2, <3>1 DEF Range
    <3>4. CASE x >= b
      BY <2>1, <2>3, <3>2, <3>4
    <3>5. CASE x < b /\ j = k
      BY <1>2, <1>3, <2>3, <3>1, <3>2, <3>3, <3>5
    <3>6. CASE x < b /\ j # k
      <4>1. j < k
        <5>1. j > k => x > b
          BY <1>4, <3>3
        <5>2. ~(j > k)
          BY <2>1, <3>6, <5>1
        <5>3. j \in Int /\ k \in Int
          BY <1>2, <1>3
        <5> QED
          BY <3>6, <5>2, <5>3
      <4>2. s[j] < s[k] /\ s[k] \in DOMAIN size /\ s[k] < b
        BY <1>2, <1>3, <4>1 DEF Sorted
      <4>3. x + size[x] <= s[k]
        BY <2>1, <3>3, <4>2 DEF PartitionOK
      <4>4. s[k] \in Int
        BY <1>2, <4>2
      <4> QED
        BY <2>1, <2>3, <3>2, <4>2, <4>3, <4>4
    <3> QED
      BY <2>1, <3>4, <3>5, <3>6
  <2>4. CASE x = m
    <3>1. CASE nextToo
      <4>1. x + new[x] = s[k + 1] + size[s[k + 1]]
        BY <1>13, <1>15, <2>4, <3>1
      <4>2. CASE y = m
        <5>1. new[x] \in Int /\ new[x] > 0
          <6>1. x \in DOMAIN new
            BY <1>8, <2>4
          <6> HIDE DEF new
          <6> QED
            BY <1>7, <6>1 DEF PartitionOK
        <5> QED
          BY <2>1, <2>4, <4>2, <5>1
      <4>3. CASE y # m
        <5>1. y \in Range(s)
          BY <1>11, <2>4, <4>3
        <5> QED
          BY <1>12, <1>14, <3>1, <4>1, <5>1 DEF Coalesced
      <4> QED
        BY <4>2, <4>3
    <3>2. CASE ~nextToo
      <4>1. x + new[x] = b + size[b]
        BY <1>13, <1>15, <2>4, <3>2
      <4>2. size[b] \in Int /\ size[b] > 0
        BY <1>2
      <4>3. CASE y = b
        BY <2>1, <4>1, <4>2, <4>3
      <4>4. CASE y # b
        <5>1. y \in Range(s)
          BY <1>11, <4>4
        <5>2. PICK j \in 1 .. Len(s) : y = s[j]
          BY <1>2, <5>1 DEF Range
        <5>3. CASE j <= k
          <6>1. y < b
            BY <1>3, <5>2, <5>3
          <6> QED
            BY <2>1, <4>1, <4>2, <6>1
        <5>4. CASE j > k
          <6>1. k < Len(s) /\ k + 1 \in 1 .. Len(s)
            BY <1>2, <1>3, <5>4
          <6>2. s[k + 1] \in DOMAIN size /\ b < s[k + 1]
            BY <1>2, <1>3, <6>1
          <6>3. b + size[b] <= s[k + 1]
            BY <6>2 DEF PartitionOK
          <6>4. b + size[b] # s[k + 1]
            BY <3>2, <6>1
          <6>5. j = k + 1 \/ s[k + 1] < s[j]
            BY <1>2, <1>3, <5>4, <6>1 DEF Sorted
          <6>6. s[k + 1] \in Int
            BY <1>2, <6>2
          <6> QED
            BY <2>1, <4>1, <4>2, <5>2, <6>3, <6>4, <6>5, <6>6
        <5> QED
          BY <1>3, <5>3, <5>4
      <4> QED
        BY <4>3, <4>4
    <3> QED
      BY <3>1, <3>2
  <2> QED
    BY <2>2, <2>3, <2>4
<1>17. ListOK(list, new)
  <2>1. Range(list) \subseteq DOMAIN new
    BY <1>2, <1>11, <1>13, <1>14
  <2> HIDE DEF list, new
  <2> QED
    BY <1>10, <1>16, <2>1 DEF ListOK, Coalesced
<1>18. DOMAIN new \ Range(list) = (DOMAIN size \ Range(s)) \ {b}
  BY <1>11, <1>12, <1>13
<1>19. \A a \in (DOMAIN size \ Range(s)) \ {b} : new[a] = size[a]
  BY <1>12, <1>13
<1>20. new = [a \in DOMAIN new |-> new[a]]
  OBVIOUS
<1> QED
  <2> HIDE DEF list, new
  <2> QED
    BY <1>1, <1>7, <1>17, <1>18, <1>19, <1>20

(* a list that an entry was taken from *)
LEMMA WithoutIs ==
    ASSUME HeapSize \in Nat, NEW s, NEW size, ListOK(s, size), NEW i \in DOMAIN s
    PROVE  /\ ListOK(Without(s, i), size)
           /\ Range(Without(s, i)) = Range(s) \ {s[i]}
<1> DEFINE t == Without(s, i)
           n == Len(s) - 1
<1>1. /\ s \in Seq(Addr) /\ DOMAIN s = 1 .. Len(s) /\ Len(s) \in Nat /\ n \in Nat
      /\ i \in Int /\ 1 <= i /\ i <= Len(s)
      /\ \A j \in DOMAIN s : s[j] \in Addr /\ s[j] \in Int
  <2>1. s \in Seq(Addr)
    BY DEF ListOK
  <2>2. DOMAIN s = 1 .. Len(s) /\ Len(s) \in Nat
    BY <2>1
  <2>3. n \in Nat /\ i \in Int /\ 1 <= i /\ i <= Len(s)
    BY <2>2
  <2> QED
    BY <2>1, <2>2, <2>3 DEF Addr
<1>2. /\ DOMAIN t = 1 .. n
      /\ \A j \in 1 .. n : j < i => t[j] = s[j]
      /\ \A j \in 1 .. n : j >= i => t[j] = s[j + 1]
  BY <1>1 DEF Without
<1>3. \A j \in 1 .. n : j \in DOMAIN s /\ j + 1 \in DOMAIN s /\ j \in Int
  BY <1>1
<1>4. t \in Seq(Addr)
  <2>1. ASSUME NEW j \in 1 .. n
        PROVE  t[j] \in Addr
    <3>1. (t[j] = s[j] \/ t[j] = s[j + 1]) /\ j \in DOMAIN s /\ j + 1 \in DOMAIN s
      BY <1>1, <1>2, <1>3
    <3> QED
      BY <1>1, <3>1
  <2>2. t \in [1 .. n -> Addr]
    BY <2>1 DEF Without
  <2> HIDE DEF n, t
  <2> QED
    BY <1>1, <2>2
<1> HIDE DEF t
<1>5. ASSUME NEW a \in DOMAIN t, NEW c \in DOMAIN t, a < c
      PROVE  t[a] < t[c]
  <2>1. a \in 1 .. n /\ c \in 1 .. n /\ a \in Int /\ c \in Int
    BY <1>2, <1>3
  <2>2. CASE c < i
    <3>0. a < i
      BY <1>1, <1>5, <2>1, <2>2
    <3>1. t[a] = s[a] /\ t[c] = s[c] /\ a \in DOMAIN s /\ c \in DOMAIN s
      BY <1>2, <1>3, <2>1, <2>2, <3>0
    <3> QED
      BY <1>5, <3>1 DEF ListOK, Sorted
  <2>3. CASE a < i /\ c >= i
    <3>1. t[a] = s[a] /\ t[c] = s[c + 1] /\ a < c + 1 /\ a \in DOMAIN s /\ c + 1 \in DOMAIN s
      BY <1>2, <1>3, <1>5, <2>1, <2>3
    <3> QED
      BY <3>1 DEF ListOK, Sorted
  <2>4. CASE a >= i
    <3>1. /\ t[a] = s[a + 1] /\ t[c] = s[c + 1] /\ a + 1 < c + 1
          /\ a + 1 \in DOMAIN s /\ c + 1 \in DOMAIN s
      BY <1>1, <1>2, <1>3, <1>5, <2>1, <2>4
    <3> QED
      BY <3>1 DEF ListOK, Sorted
  <2> QED
    BY <1>1, <2>1, <2>2, <2>3, <2>4
<1>6. \A a, c \in DOMAIN s : a # c => s[a] # s[c]
  <2>1. \A a, c \in DOMAIN s : a # c => (s[a] < s[c] \/ s[c] < s[a])
    BY <1>1 DEF ListOK, Sorted
  <2> QED
    BY <1>1, <2>1
<1>7. Range(t) = Range(s) \ {s[i]}
  <2>1. ASSUME NEW j \in DOMAIN t
        PROVE  t[j] \in Range(s) \ {s[i]}
    <3>1. j \in 1 .. n /\ j \in DOMAIN s /\ j + 1 \in DOMAIN s /\ j \in Int
      BY <1>2, <1>3
    <3>2. (t[j] = s[j] /\ j # i) \/ (t[j] = s[j + 1] /\ j + 1 # i)
      BY <1>1, <1>2, <3>1
    <3> QED
      BY <1>6, <3>1, <3>2 DEF Range
  <2>2. ASSUME NEW j \in DOMAIN s, j # i
        PROVE  \E a \in DOMAIN t : t[a] = s[j]
    <3>1. CASE j < i
      <4>1. j \in 1 .. n
        BY <1>1, <3>1
      <4> QED
        BY <1>2, <3>1, <4>1
    <3>2. CASE j > i
      <4>1. j - 1 \in 1 .. n /\ j - 1 >= i /\ (j - 1) + 1 = j
        BY <1>1, <3>2
      <4>2. t[j - 1] = s[j]
        BY <1>2, <4>1
      <4> QED
        BY <1>2, <4>1, <4>2
    <3> QED
      BY <1>1, <2>2, <3>1, <3>2
  <2>3. Range(t) \subseteq Range(s) \ {s[i]}
    BY <2>1 DEF Range
  <2>4. Range(s) \ {s[i]} \subseteq Range(t)
    <3>1. ASSUME NEW x \in Range(s) \ {s[i]}
          PROVE  x \in Range(t)
      <4>1. PICK j \in DOMAIN s : x = s[j]
        BY <3>1 DEF Range
      <4>2. j # i
        BY <3>1, <4>1
      <4> QED
        BY <2>2, <4>1, <4>2 DEF Range
    <3> QED
      BY <3>1
  <2> QED
    BY <2>3, <2>4
<1>8. ListOK(t, size)
  BY <1>4, <1>5, <1>7 DEF ListOK, Sorted, Coalesced
<1> QED
  BY <1>7, <1>8 DEF t

(* a block split in two *)
LEMMA CutIs ==
    ASSUME HeapSize \in Nat, PartitionOK(xBlockSize),
           NEW b \in Blocks, NEW w \in Nat \ {0}, w < xBlockSize[b]
    PROVE  /\ PartitionOK(Cut(b, w))
           /\ DOMAIN Cut(b, w) = Blocks \cup {b + w} /\ b + w \notin Blocks
           /\ Cut(b, w)[b] = w
           /\ \A a \in Blocks \ {b} : Cut(b, w)[a] = xBlockSize[a]
<1> DEFINE C == Cut(b, w)
           rest == xBlockSize[b] - w
<1>1. \A x \in Blocks : x \in Int /\ 0 <= x /\ xBlockSize[x] \in Int /\ xBlockSize[x] > 0
                        /\ x + xBlockSize[x] <= HeapSize
  BY DEF PartitionOK, Blocks, Addr
<1>2. rest \in Nat \ {0} /\ b + w + rest = b + xBlockSize[b]
  BY <1>1
<1>3. b + w \notin Blocks
  <2>1. ASSUME b + w \in Blocks
        PROVE  FALSE
    <3>1. b + xBlockSize[b] <= b + w
      BY <1>1, <2>1 DEF PartitionOK, Blocks
    <3> QED
      BY <1>1, <3>1
  <2> QED
    BY <2>1
<1>4. /\ DOMAIN C = Blocks \cup {b + w}
      /\ C[b] = w /\ C[b + w] = rest
      /\ \A x \in Blocks \ {b} : C[x] = xBlockSize[x]
  BY <1>1, <1>3 DEF Cut
<1> HIDE DEF C
<1>5. b + w \in Addr
  BY <1>1 DEF Addr
<1>6. \A x \in DOMAIN C : x \in Addr /\ C[x] \in Nat \ {0} /\ x + C[x] <= HeapSize
  <2>1. ASSUME NEW x \in DOMAIN C
        PROVE  x \in Addr /\ C[x] \in Nat \ {0} /\ x + C[x] <= HeapSize
    <3>1. CASE x = b
      BY <1>1, <1>4, <3>1 DEF Addr
    <3>2. CASE x = b + w
      BY <1>1, <1>2, <1>4, <1>5, <3>2
    <3>3. CASE x \in Blocks \ {b}
      BY <1>4, <3>3 DEF PartitionOK, Blocks
    <3> QED
      BY <1>4, <3>1, <3>2, <3>3
  <2> QED
    BY <2>1
<1>7. ASSUME NEW x \in DOMAIN C, NEW y \in DOMAIN C, x < y
      PROVE  x + C[x] <= y
  <2>1. x \in Int /\ y \in Int
    BY <1>5, <1>6 DEF Addr
  <2>2. CASE x = b /\ y = b + w
    <3>1. x + C[x] = b + w
      BY <1>4, <2>2
    <3>2. b + w \in Int
      BY <1>1
    <3> QED
      BY <2>2, <3>1, <3>2
  <2>3. CASE x = b /\ y \in Blocks \ {b}
    <3>1. b + xBlockSize[b] <= y
      BY <1>7, <2>3 DEF PartitionOK, Blocks
    <3> QED
      BY <1>1, <1>4, <2>1, <2>3, <3>1
  <2>4. CASE x = b + w /\ y \in Blocks
    <3>1. b < y
      BY <1>1, <1>7, <2>4
    <3>2. b + xBlockSize[b] <= y
      BY <2>4, <3>1 DEF PartitionOK, Blocks
    <3> QED
      BY <1>2, <1>4, <2>4, <3>2
  <2>5. CASE x \in Blocks \ {b} /\ y = b + w
    <3>1. CASE x < b
      <4>1. x + xBlockSize[x] <= b
        BY <2>5, <3>1 DEF PartitionOK, Blocks
      <4> QED
        BY <1>1, <1>4, <2>5, <4>1
    <3>2. CASE b < x
      <4>1. b + xBlockSize[b] <= x
        BY <2>5, <3>2 DEF PartitionOK, Blocks
      <4> QED
        BY <1>1, <1>7, <2>5, <4>1
    <3> QED
      BY <1>1, <2>5, <3>1, <3>2
  <2>6. CASE x \in Blocks \ {b} /\ y \in Blocks
    BY <1>4, <1>7, <2>6 DEF PartitionOK, Blocks
  <2> QED
    BY <1>4, <1>7, <2>1, <2>2, <2>3, <2>4, <2>5, <2>6
<1>8. ASSUME NEW z \in Addr
      PROVE  \E x \in DOMAIN C : x <= z /\ z < x + C[x]
  <2>1. PICK x \in Blocks : x <= z /\ z < x + xBlockSize[x]
    BY DEF PartitionOK, Blocks
  <2>2. CASE x # b
    BY <1>4, <2>1, <2>2
  <2>3. CASE x = b /\ z < b + w
    BY <1>4, <2>1, <2>3
  <2>4. CASE x = b /\ z >= b + w
    <3>1. z < b + w + C[b + w]
      BY <1>2, <1>4, <2>1, <2>4
    <3> QED
      BY <1>4, <2>4, <3>1
  <2> QED
    <3>1. z \in Int /\ b + w \in Int
      BY <1>1 DEF Addr
    <3> QED
      BY <2>2, <2>3, <2>4, <3>1
<1>9. PartitionOK(C)
  BY <1>6, <1>7, <1>8 DEF PartitionOK
<1> QED
  BY <1>3, <1>4, <1>9 DEF C

(***************************************************************************)
(* The inductive invariant                                                 *)
(***************************************************************************)
HeapInv ==
    /\ xBlockSize = [a \in Blocks |-> xBlockSize[a]]
    /\ PartitionOK(xBlockSize)
    /\ ListOK(freeList, xBlockSize)
    /\ FreeBytesExact

(* What malloc does to the blocks, whether it splits one or not.           *)
LEMMA TakeIs ==
    ASSUME HeapSize \in Nat, HeapInv, NEW i \in DOMAIN freeList, NEW w \in Nat \ {0},
           FirstFit(w, i), Take(i, w)
    PROVE  LET b == freeList[i] IN
           /\ xBlockSize' = [a \in Blocks' |-> xBlockSize'[a]]
           /\ PartitionOK(xBlockSize') /\ ListOK(freeList', xBlockSize')
           /\ b \in Blocks /\ b \notin Allocated
           /\ Allocated' = Allocated \cup {b}
           /\ \A a \in Allocated : xBlockSize'[a] = xBlockSize[a]
           /\ xBlockSize'[b] >= w /\ xBlockSize'[b] <= xBlockSize[b]
           /\ xFreeBytesRemaining' = xFreeBytesRemaining - xBlockSize'[b]
<1> DEFINE b == freeList[i]
           rest == xBlockSize[b] - w
           s == Without(freeList, i)
<1>1. b \in Range(freeList) /\ b \in Blocks /\ b \notin Allocated
  BY DEF HeapInv, ListOK, Range, Blocks, Allocated
<1>2. xBlockSize[b] \in Int /\ xBlockSize[b] >= w /\ w \in Int /\ w > 0 /\ rest \in Int
  BY <1>1 DEF HeapInv, PartitionOK, Blocks, FirstFit
<1>3. ListOK(s, xBlockSize) /\ Range(s) = Range(freeList) \ {b}
  BY WithoutIs DEF HeapInv
<1>4. CASE ~Splits(rest)
  <2>1. xBlockSize' = xBlockSize /\ freeList' = s
        /\ xFreeBytesRemaining' = xFreeBytesRemaining - (w + rest)
    BY <1>4 DEF Take, Charged
  <2>2. w + rest = xBlockSize[b]
    BY <1>2
  <2>3. Blocks' = Blocks /\ Allocated' = Allocated \cup {b}
    BY <1>1, <1>3, <2>1 DEF Blocks, Allocated
  <2> QED
    BY <1>1, <1>2, <1>3, <2>1, <2>2, <2>3 DEF HeapInv
<1>5. CASE Splits(rest)
  <2> DEFINE C == Cut(b, w)
             h == prvInsertBlockIntoFreeList(s, C, b + w)
  <2>1. w < xBlockSize[b]
    BY <1>2, <1>5 DEF Splits, MinimumBlock, Header
  <2>2. /\ PartitionOK(C) /\ DOMAIN C = Blocks \cup {b + w} /\ b + w \notin Blocks
        /\ C[b] = w /\ \A a \in Blocks \ {b} : C[a] = xBlockSize[a]
    BY <1>1, <2>1, CutIs DEF HeapInv
  <2>3. C = [a \in DOMAIN C |-> C[a]]
    BY DEF Cut
  <2>4. ListOK(s, C)
    <3>1. s \in Seq(Addr) /\ Sorted(s) /\ Range(s) \subseteq Blocks /\ Coalesced(Range(s), xBlockSize)
      BY <1>3 DEF ListOK, Blocks
    <3>2. Range(s) \subseteq DOMAIN C /\ \A x \in Range(s) : C[x] = xBlockSize[x]
      BY <1>3, <2>2, <3>1
    <3> QED
      BY <3>1, <3>2 DEF ListOK, Coalesced
  <2>5. b + w \in DOMAIN C \ Range(s)
    BY <1>3, <2>2 DEF ListOK, Blocks
  <2>6. /\ PartitionOK(h.size)
        /\ ListOK(h.list, h.size)
        /\ h.size = [a \in DOMAIN h.size |-> h.size[a]]
        /\ DOMAIN h.size \ Range(h.list) = (DOMAIN C \ Range(s)) \ {b + w}
        /\ \A a \in (DOMAIN C \ Range(s)) \ {b + w} : h.size[a] = C[a]
    <3> HIDE DEF C, s
    <3> QED
      BY <2>2, <2>3, <2>4, <2>5, InsertIs
  <2>7. xBlockSize' = h.size /\ freeList' = h.list
        /\ xFreeBytesRemaining' = xFreeBytesRemaining - w
    BY <1>5 DEF Take, Charged
  <2>8. (DOMAIN C \ Range(s)) \ {b + w} = Allocated \cup {b}
    BY <1>1, <1>3, <2>2, <2>5 DEF Allocated
  <2>9. Allocated' = Allocated \cup {b}
    BY <2>6, <2>7, <2>8 DEF Allocated, Blocks
  <2>10. \A a \in Allocated : xBlockSize'[a] = xBlockSize[a]
    BY <1>1, <2>2, <2>6, <2>7, <2>8 DEF Allocated
  <2>11. xBlockSize'[b] = w
    BY <2>2, <2>6, <2>7, <2>8
  <2> HIDE DEF h, C
  <2> QED
    BY <1>1, <1>2, <2>6, <2>7, <2>9, <2>10, <2>11 DEF Blocks
<1> QED
  BY <1>4, <1>5

(* What free does to the blocks, whatever it merges.                       *)
LEMMA FreeIs ==
    ASSUME HeapSize \in Nat, HeapInv, NEW t \in Threads, NEW b \in Addr, vPortFree(t, b)
    PROVE  /\ xBlockSize' = [a \in Blocks' |-> xBlockSize'[a]]
           /\ PartitionOK(xBlockSize') /\ ListOK(freeList', xBlockSize')
           /\ b \in Allocated /\ Allocated' = Allocated \ {b}
           /\ \A a \in Allocated \ {b} : xBlockSize'[a] = xBlockSize[a]
           /\ xFreeBytesRemaining' = xFreeBytesRemaining + xBlockSize[b]
<1> DEFINE h == prvInsertBlockIntoFreeList(freeList, xBlockSize, b)
<1>1. b \in DOMAIN xBlockSize \ Range(freeList)
  BY DEF vPortFree, Allocated, Blocks
<1>2. /\ PartitionOK(h.size)
      /\ ListOK(h.list, h.size)
      /\ h.size = [a \in DOMAIN h.size |-> h.size[a]]
      /\ DOMAIN h.size \ Range(h.list) = (DOMAIN xBlockSize \ Range(freeList)) \ {b}
      /\ \A a \in (DOMAIN xBlockSize \ Range(freeList)) \ {b} : h.size[a] = xBlockSize[a]
  BY <1>1, InsertIs DEF HeapInv, Blocks
<1>3. xBlockSize' = h.size /\ freeList' = h.list
      /\ xFreeBytesRemaining' = xFreeBytesRemaining + xBlockSize[b]
  BY DEF vPortFree
<1> HIDE DEF h
<1> QED
  BY <1>1, <1>2, <1>3 DEF Blocks, Allocated

(***************************************************************************)
(* The counter                                                             *)
(***************************************************************************)
SpanOf(size, a) == a .. (a + size[a] - 1)
Covered(size, A) == UNION {SpanOf(size, a) : a \in A}

LEMMA SpanIs ==
    ASSUME HeapSize \in Nat, NEW size, PartitionOK(size), NEW a \in DOMAIN size
    PROVE  /\ SpanOf(size, a) \subseteq Addr
           /\ IsFiniteSet(SpanOf(size, a)) /\ Cardinality(SpanOf(size, a)) = size[a]
           /\ \A c \in DOMAIN size \ {a} : SpanOf(size, a) \cap SpanOf(size, c) = {}
<1>1. \A x \in DOMAIN size : x \in Int /\ 0 <= x /\ size[x] \in Int /\ size[x] > 0
                             /\ x + size[x] <= HeapSize
  BY DEF PartitionOK, Addr
<1>2. SpanOf(size, a) \subseteq Addr
  BY <1>1 DEF SpanOf, Addr
<1>3. IsFiniteSet(SpanOf(size, a)) /\ Cardinality(SpanOf(size, a)) = size[a]
  <2> DEFINE z == a + size[a] - 1
  <2>1. a \in Int /\ z \in Int /\ ~(a > z) /\ z - a + 1 = size[a]
    BY <1>1
  <2> HIDE DEF z
  <2>2. IsFiniteSet(a .. z) /\ Cardinality(a .. z) = z - a + 1
    BY <2>1, FS_Interval
  <2> QED
    BY <2>1, <2>2 DEF SpanOf, z
<1>4. ASSUME NEW c \in DOMAIN size \ {a}
      PROVE  SpanOf(size, a) \cap SpanOf(size, c) = {}
  <2>1. a < c => a + size[a] <= c
    BY <1>4 DEF PartitionOK
  <2>2. c < a => c + size[c] <= a
    BY <1>4 DEF PartitionOK
  <2> QED
    BY <1>1, <1>4, <2>1, <2>2 DEF SpanOf
<1> QED
  BY <1>2, <1>3, <1>4

LEMMA InUseIs == InUse = Covered(xBlockSize, Allocated)
  BY DEF InUse, Covered, Span, SpanOf

(* One more block in use: the units free lose its span.                    *)
LEMMA OneMoreInUse ==
    ASSUME HeapSize \in Nat, NEW size, PartitionOK(size), NEW A \in SUBSET DOMAIN size,
           NEW b \in DOMAIN size \ A
    PROVE  Cardinality(Addr \ Covered(size, A))
              = Cardinality(Addr \ Covered(size, A \cup {b})) + size[b]
<1> DEFINE P == SpanOf(size, b)
           F == Addr \ Covered(size, A)
           G == Addr \ Covered(size, A \cup {b})
<1>1. P \subseteq Addr /\ IsFiniteSet(P) /\ Cardinality(P) = size[b]
  BY SpanIs
<1>2. \A a \in A : SpanOf(size, b) \cap SpanOf(size, a) = {}
  BY SpanIs
<1>3. P \subseteq F
  BY <1>1, <1>2 DEF Covered
<1>4. G = F \ P
  BY DEF Covered
<1>5. IsFiniteSet(F)
  <2>1. IsFiniteSet(0 .. (HeapSize - 1))
    BY FS_Interval
  <2>2. IsFiniteSet(Addr)
    BY <2>1 DEF Addr
  <2> QED
    BY <2>2, FS_Difference
<1> HIDE DEF P, F, G
<1>6. Cardinality(G) = Cardinality(F) - Cardinality(F \cap P)
  BY <1>4, <1>5, FS_Difference
<1>7. F \cap P = P
  BY <1>3
<1>8. Cardinality(F) \in Nat /\ Cardinality(P) \in Nat
  BY <1>1, <1>5, FS_CardinalityType
<1>9. Cardinality(F) = Cardinality(G) + size[b]
  <2>1. Cardinality(G) = Cardinality(F) - Cardinality(P)
    BY <1>6, <1>7
  <2>2. Cardinality(P) = size[b]
    BY <1>1
  <2> DEFINE cf == Cardinality(F)
             cp == Cardinality(P)
             cg == Cardinality(G)
  <2>3. cf \in Int /\ cp \in Int /\ cg = cf - cp
    BY <1>8, <2>1
  <2> HIDE DEF cf, cp, cg
  <2>4. cf = cg + cp
    BY <2>3
  <2> QED
    BY <2>2, <2>4 DEF cf, cp, cg
<1> QED
  BY <1>9 DEF F, G

(* The blocks in A keep their spans.                                       *)
LEMMA SameCovered ==
    ASSUME NEW s1, NEW s2, NEW A, \A a \in A : s1[a] = s2[a]
    PROVE  Covered(s1, A) = Covered(s2, A)
  BY DEF Covered, SpanOf

LEMMA FreeUnitsFinite ==
    ASSUME HeapSize \in Nat
    PROVE  /\ IsFiniteSet(Addr) /\ Cardinality(Addr) = HeapSize
           /\ IsFiniteSet(Addr \ InUse)
<1>1. IsFiniteSet(0 .. (HeapSize - 1)) /\ Cardinality(0 .. (HeapSize - 1)) = HeapSize
  BY FS_Interval
<1>2. IsFiniteSet(Addr) /\ Cardinality(Addr) = HeapSize
  BY <1>1 DEF Addr
<1> QED
  BY <1>2, FS_Difference

LEMMA InitInv == ASSUME HeapAssumption, Init PROVE HeapInv
<1>1. HeapSize \in Nat /\ HeapSize > 0 /\ 0 \in Addr
  BY DEF HeapAssumption, Addr
<1>2. Blocks = {0} /\ xBlockSize = [a \in Blocks |-> xBlockSize[a]] /\ xBlockSize[0] = HeapSize
  BY DEF Init, Blocks
<1>3. PartitionOK(xBlockSize)
  BY <1>1, <1>2 DEF PartitionOK, Blocks, Addr
<1>4. freeList = <<0>> /\ DOMAIN freeList = {1} /\ freeList[1] = 0 /\ Range(freeList) = {0}
  <2>1. freeList = <<0>>
    BY DEF Init
  <2>2. DOMAIN freeList = {1} /\ freeList[1] = 0
    BY <2>1
  <2> QED
    BY <2>1, <2>2 DEF Range
<1>5. ListOK(freeList, xBlockSize)
  <2>1. freeList \in Seq(Addr)
    BY <1>1, <1>4
  <2>2. Sorted(freeList)
    BY <1>4 DEF Sorted
  <2>3. Coalesced(Range(freeList), xBlockSize)
    BY <1>1, <1>2, <1>4 DEF Coalesced
  <2> QED
    BY <1>2, <1>4, <2>1, <2>2, <2>3 DEF ListOK, Blocks
<1>6. FreeBytesExact
  <2>1. Allocated = {}
    BY <1>2, <1>4 DEF Allocated
  <2>2. InUse = {}
    BY <2>1 DEF InUse
  <2>3. Addr \ InUse = Addr
    BY <2>2
  <2> QED
    BY <1>1, <2>3, FreeUnitsFinite DEF FreeBytesExact, Init
<1> QED
  BY <1>2, <1>3, <1>5, <1>6 DEF HeapInv

LEMMA MallocInv ==
    ASSUME HeapAssumption, HeapInv, NEW t \in Threads, NEW n \in Requests, pvPortMalloc(t, n)
    PROVE  HeapInv'
<1>1. HeapSize \in Nat /\ n + Header \in Nat \ {0}
  BY DEF HeapAssumption, Header
<1>2. PICK i \in DOMAIN freeList : FirstFit(n + Header, i) /\ Take(i, n + Header)
  BY DEF pvPortMalloc
<1> DEFINE b == freeList[i]
<1>3. /\ xBlockSize' = [a \in Blocks' |-> xBlockSize'[a]]
      /\ PartitionOK(xBlockSize') /\ ListOK(freeList', xBlockSize')
      /\ b \in Blocks /\ b \notin Allocated
      /\ Allocated' = Allocated \cup {b}
      /\ \A a \in Allocated : xBlockSize'[a] = xBlockSize[a]
      /\ xBlockSize'[b] <= xBlockSize[b]
      /\ xFreeBytesRemaining' = xFreeBytesRemaining - xBlockSize'[b]
  BY <1>1, <1>2, TakeIs
<1> HIDE DEF b
<1>4. b \in Blocks' \ Allocated /\ Allocated \subseteq Blocks'
  BY <1>3 DEF Allocated
<1>5. Cardinality(Addr \ Covered(xBlockSize', Allocated))
         = Cardinality(Addr \ Covered(xBlockSize', Allocated \cup {b})) + xBlockSize'[b]
  BY <1>1, <1>3, <1>4, OneMoreInUse DEF Blocks
<1>6. Covered(xBlockSize', Allocated) = InUse
  BY <1>3, SameCovered, InUseIs
<1>7. Covered(xBlockSize', Allocated \cup {b}) = InUse'
  BY <1>3 DEF InUse, Covered, Span, SpanOf
<1>8. FreeBytesExact'
  <2>1. xFreeBytesRemaining = Cardinality(Addr \ InUse)
    BY DEF HeapInv, FreeBytesExact
  <2>2. /\ Cardinality(Addr \ InUse) = Cardinality(Addr \ InUse') + xBlockSize'[b]
        /\ xFreeBytesRemaining' = xFreeBytesRemaining - xBlockSize'[b]
    BY <1>3, <1>5, <1>6, <1>7
  <2>3. Cardinality(Addr \ InUse') \in Nat /\ xBlockSize'[b] \in Nat
    <3>1. IsFiniteSet(Addr \ InUse')
      BY <1>1, FreeUnitsFinite, FS_Difference
    <3>2. xBlockSize'[b] \in Nat
      BY <1>3, <1>4 DEF PartitionOK, Blocks
    <3> QED
      BY <3>1, <3>2, FS_CardinalityType
  <2>4. xFreeBytesRemaining' = Cardinality(Addr \ InUse')
    BY <2>1, <2>2, <2>3
  <2> QED
    BY <2>4 DEF FreeBytesExact, Addr
<1> QED
  BY <1>3, <1>8 DEF HeapInv, PartitionOK, ListOK, Sorted, Coalesced, Range, Addr, Blocks

LEMMA FreeInv ==
    ASSUME HeapAssumption, HeapInv, NEW t \in Threads, NEW b \in Addr, vPortFree(t, b)
    PROVE  HeapInv'
<1>1. HeapSize \in Nat
  BY DEF HeapAssumption
<1>2. /\ xBlockSize' = [a \in Blocks' |-> xBlockSize'[a]]
      /\ PartitionOK(xBlockSize') /\ ListOK(freeList', xBlockSize')
      /\ b \in Allocated /\ Allocated' = Allocated \ {b}
      /\ \A a \in Allocated \ {b} : xBlockSize'[a] = xBlockSize[a]
      /\ xFreeBytesRemaining' = xFreeBytesRemaining + xBlockSize[b]
  BY <1>1, FreeIs
<1>3. b \in Blocks \ Allocated' /\ Allocated' \subseteq Blocks /\ Allocated' \cup {b} = Allocated
  BY <1>2 DEF Allocated
<1>4. Cardinality(Addr \ Covered(xBlockSize, Allocated'))
         = Cardinality(Addr \ Covered(xBlockSize, Allocated' \cup {b})) + xBlockSize[b]
  <2>1. PartitionOK(xBlockSize)
    BY DEF HeapInv
  <2> QED
    BY <1>1, <1>3, <2>1, OneMoreInUse DEF Blocks
<1>5. Covered(xBlockSize, Allocated') = InUse'
  <2>1. Covered(xBlockSize, Allocated') = Covered(xBlockSize', Allocated')
    BY <1>2, SameCovered
  <2> QED
    BY <2>1 DEF InUse, Covered, Span, SpanOf
<1>6. FreeBytesExact'
  <2>1. xFreeBytesRemaining = Cardinality(Addr \ InUse)
    BY DEF HeapInv, FreeBytesExact
  <2>2. /\ Cardinality(Addr \ InUse') = Cardinality(Addr \ InUse) + xBlockSize[b]
        /\ xFreeBytesRemaining' = xFreeBytesRemaining + xBlockSize[b]
    BY <1>2, <1>3, <1>4, <1>5, InUseIs
  <2>3. xFreeBytesRemaining' = Cardinality(Addr \ InUse')
    BY <2>1, <2>2
  <2> QED
    BY <2>3 DEF FreeBytesExact, Addr
<1> QED
  BY <1>2, <1>6 DEF HeapInv, PartitionOK, ListOK, Sorted, Coalesced, Range, Addr, Blocks

LEMMA NextInv == ASSUME HeapAssumption, HeapInv, [Next]_vars PROVE HeapInv'
<1>1. ASSUME UNCHANGED <<freeList, xBlockSize, xFreeBytesRemaining>> PROVE HeapInv'
  BY <1>1 DEF HeapInv, PartitionOK, ListOK, Sorted, Coalesced, Range, Addr, Blocks,
              FreeBytesExact, InUse, Span, Allocated
<1>2. ASSUME NEW n \in Requests, Refuse(n) PROVE HeapInv'
  BY <1>1, <1>2 DEF Refuse
<1>3. ASSUME NEW t \in Threads, EnableThreadTrace(t) \/ DisableThreadTrace(t) PROVE HeapInv'
  BY <1>1, <1>3 DEF EnableThreadTrace, DisableThreadTrace, heapVars
<1>4. CASE UNCHANGED vars
  BY <1>1, <1>4 DEF vars, heapVars
<1> QED
  BY <1>2, <1>3, <1>4, MallocInv, FreeInv DEF Next

\* The heap's invariant: the blocks partition the heap, the list has the free
\* ones in order and coalesced, and the counter is exact.
THEOREM HeapInvariant == Spec => []HeapInv
  BY HeapAssumption, InitInv, NextInv, PTL DEF Spec

\* The counter is the number of units that no block in use covers.
THEOREM HeapFreeBytesExact == Spec => []FreeBytesExact
<1>1. HeapInv => FreeBytesExact
  BY DEF HeapInv
<1> QED
  BY <1>1, HeapInvariant, PTL

(***************************************************************************)
(* The accounting of the threads                                           *)
(***************************************************************************)
TraceInv ==
    /\ traced \subseteq Threads /\ strayed \subseteq Threads
    /\ dict \in [Threads -> SUBSET Addr] /\ mine \in [Threads -> SUBSET Addr]
    /\ halted \in BOOLEAN
    /\ \A t \in Threads : mine[t] \subseteq dict[t] /\ mine[t] \subseteq Allocated
    /\ \A t \in Threads : t \notin traced => dict[t] = {}
    /\ \A t \in Threads : t \notin strayed => dict[t] = mine[t]

LEMMA InitTrace == ASSUME Init PROVE TraceInv
  BY DEF Init, TraceInv

LEMMA MallocTrace ==
    ASSUME HeapAssumption, HeapInv, TraceInv,
           NEW t \in Threads, NEW n \in Requests, pvPortMalloc(t, n)
    PROVE  TraceInv'
<1>1. HeapSize \in Nat /\ n + Header \in Nat \ {0}
  BY DEF HeapAssumption, Header
<1>2. PICK i \in DOMAIN freeList :
         /\ FirstFit(n + Header, i) /\ Take(i, n + Header)
         /\ TraceMalloc(t, freeList[i])
  BY DEF pvPortMalloc
<1> DEFINE b == freeList[i]
<1>3. Allocated' = Allocated \cup {b}
  BY <1>1, <1>2, TakeIs
<1>4. b \in Addr
  BY <1>2 DEF HeapInv, ListOK
<1>5. halted' = halted
  BY DEF pvPortMalloc
<1>6. TraceMalloc(t, b)
  BY <1>2
<1> HIDE DEF b
<1> QED
  BY <1>3, <1>4, <1>5, <1>6 DEF TraceMalloc, TraceInv, Addr

LEMMA FreeTrace ==
    ASSUME HeapAssumption, HeapInv, TraceInv,
           NEW t \in Threads, NEW b \in Addr, vPortFree(t, b)
    PROVE  TraceInv'
<1>1. Allocated' = Allocated \ {b}
  BY FreeIs DEF HeapAssumption
<1>2. halted' = halted /\ TraceFree(t, b)
  BY DEF vPortFree
<1>3. /\ traced' \subseteq Threads /\ strayed' \subseteq Threads /\ halted' \in BOOLEAN
      /\ dict' \in [Threads -> SUBSET Addr] /\ mine' \in [Threads -> SUBSET Addr]
  BY <1>2 DEF TraceFree, Erased, TraceInv
<1>4. ASSUME NEW u \in Threads
      PROVE  /\ mine'[u] \subseteq dict'[u] /\ mine'[u] \subseteq Allocated'
             /\ u \notin traced' => dict'[u] = {}
             /\ u \notin strayed' => dict'[u] = mine'[u]
  <2>1. mine'[u] = mine[u] \ {b} /\ traced' = traced
        /\ dict'[u] = IF u = t THEN Erased(t, b) ELSE dict[u]
    BY <1>2, <1>4 DEF TraceFree, TraceInv
  <2>2. u \notin strayed' => u \notin strayed /\ (u = t \/ b \notin mine[u])
    BY <1>2, <1>4 DEF TraceFree
  <2>3. CASE u = t
    BY <1>1, <2>1, <2>2, <2>3 DEF Erased, TraceInv
  <2>4. CASE u # t
    BY <1>1, <2>1, <2>2, <2>4 DEF TraceInv
  <2> QED
    BY <2>3, <2>4
<1>5. Addr' = Addr
  BY DEF Addr
<1> QED
  BY <1>3, <1>4, <1>5 DEF TraceInv

LEMMA NextTrace ==
    ASSUME HeapAssumption, HeapInv, TraceInv, [Next]_vars PROVE TraceInv'
<1>1. (UNCHANGED <<freeList, xBlockSize>>) => Allocated' = Allocated
  BY DEF Allocated, Blocks, Range
<1>2. ASSUME NEW n \in Requests, Refuse(n) PROVE TraceInv'
  BY <1>1, <1>2 DEF Refuse, traceVars, TraceInv, Addr
<1>3. ASSUME NEW t \in Threads, EnableThreadTrace(t) PROVE TraceInv'
  BY <1>1, <1>3 DEF EnableThreadTrace, heapVars, TraceInv, Addr
<1>4. ASSUME NEW t \in Threads, DisableThreadTrace(t) PROVE TraceInv'
  BY <1>1, <1>4 DEF DisableThreadTrace, heapVars, TraceInv, Addr
<1>5. CASE UNCHANGED vars
  BY <1>1, <1>5 DEF vars, heapVars, traceVars, TraceInv, Addr
<1> QED
  BY <1>2, <1>3, <1>4, <1>5, MallocTrace, FreeTrace DEF Next

LEMMA HeapAndTrace == Spec => [](HeapInv /\ TraceInv)
<1>1. Init => HeapInv /\ TraceInv
  BY HeapAssumption, InitInv, InitTrace
<1>2. (HeapInv /\ TraceInv) /\ [Next]_vars => (HeapInv /\ TraceInv)'
  BY HeapAssumption, NextInv, NextTrace
<1> QED
  BY <1>1, <1>2, PTL DEF Spec

LEMMA TypeIs == ASSUME HeapAssumption, HeapInv, TraceInv PROVE TypeOK
<1>1. \A a \in Blocks : xBlockSize[a] \in 1 .. HeapSize
  BY DEF HeapAssumption, HeapInv, PartitionOK, Blocks, Addr
<1>2. xFreeBytesRemaining \in 0 .. HeapSize
  <2>1. xFreeBytesRemaining = Cardinality(Addr \ InUse)
    BY DEF HeapInv, FreeBytesExact
  <2>2. IsFiniteSet(Addr) /\ Cardinality(Addr) = HeapSize /\ IsFiniteSet(Addr \ InUse)
    BY FreeUnitsFinite DEF HeapAssumption
  <2>3. Cardinality(Addr \ InUse) <= Cardinality(Addr)
    BY <2>2, FS_Subset
  <2>4. Cardinality(Addr \ InUse) \in Nat
    BY <2>2, FS_CardinalityType
  <2> QED
    BY <2>1, <2>2, <2>3, <2>4 DEF HeapAssumption
<1> QED
  BY <1>1, <1>2 DEF TypeOK, HeapInv, ListOK, PartitionOK, TraceInv, Blocks

\* Types.
THEOREM HeapTypeOK == Spec => []TypeOK
  BY HeapAssumption, HeapAndTrace, TypeIs, PTL

\* What is reported of a traced thread is what it allocated and left.
THEOREM HeapLeaksReported == Spec => []LeaksReported
<1>1. TraceInv => LeaksReported
  BY DEF TraceInv, LeaksReported, ThreadMemory
<1> QED
  BY <1>1, HeapAndTrace, PTL

(***************************************************************************)
(* The heap implements the allocator                                       *)
(***************************************************************************)
live == {<<a, xBlockSize[a]>> : a \in Allocated}
Sizes == {n + Header : n \in Requests}

LEMMA InitAlloc == ASSUME Init PROVE Alloc!AInit
<1>1. freeList = <<0>> /\ Blocks = {0} /\ halted = FALSE
  BY DEF Init, Blocks
<1>2. 0 \in Range(freeList)
  BY <1>1 DEF Range
<1>3. Allocated = {}
  BY <1>1, <1>2 DEF Allocated
<1> QED
  BY <1>1, <1>3 DEF Alloc!AInit

LEMMA MallocIsAMalloc ==
    ASSUME HeapAssumption, HeapInv, NEW t \in Threads, NEW n \in Requests, pvPortMalloc(t, n)
    PROVE  Alloc!AMalloc
<1> DEFINE w == n + Header
<1>1. HeapSize \in Nat /\ w \in Nat \ {0} /\ w \in Sizes
  <2>1. HeapSize \in Nat /\ n \in Nat \ {0}
    BY DEF HeapAssumption
  <2>2. w \in Nat \ {0}
    BY <2>1 DEF Header
  <2>3. w \in Sizes
    BY DEF Sizes
  <2> QED
    BY <2>1, <2>2, <2>3
<1>2. PICK i \in DOMAIN freeList : FirstFit(w, i) /\ Take(i, w)
  BY DEF pvPortMalloc
<1> DEFINE b == freeList[i]
           s == xBlockSize'[b]
<1> HIDE DEF w
<1>3. /\ PartitionOK(xBlockSize')
      /\ b \in Blocks /\ b \notin Allocated
      /\ Allocated' = Allocated \cup {b}
      /\ \A a \in Allocated : xBlockSize'[a] = xBlockSize[a]
      /\ s >= w
  BY <1>1, <1>2, TakeIs
<1>4. b \in DOMAIN xBlockSize' /\ Allocated \subseteq DOMAIN xBlockSize' \ {b}
  BY <1>3 DEF Allocated, Blocks
<1>5. b \in 0 .. (HeapSize - 1) /\ s \in 1 .. HeapSize
  BY <1>1, <1>3, <1>4 DEF PartitionOK, Addr
<1> HIDE DEF b, s
<1>6. SpanOf(xBlockSize', b) \subseteq Addr
      /\ \A c \in Allocated : SpanOf(xBlockSize', b) \cap SpanOf(xBlockSize', c) = {}
  BY <1>1, <1>3, <1>4, SpanIs
<1>7. b .. (b + s - 1) \subseteq Addr
      /\ \A c \in Allocated : (b .. (b + s - 1)) \cap (c .. (c + xBlockSize[c] - 1)) = {}
  BY <1>3, <1>6 DEF SpanOf, s
<1>8. Alloc!Vacant(<<b, s>>)
  BY <1>7 DEF Alloc!Vacant, Alloc!Units, Addr
<1>9. live' = live \cup {<<b, s>>}
  BY <1>3 DEF live, s
<1>10. halted' = halted
  BY DEF pvPortMalloc
<1> QED
  BY <1>1, <1>3, <1>5, <1>8, <1>9, <1>10 DEF Alloc!AMalloc, live, Sizes

LEMMA FreeIsAFree ==
    ASSUME HeapAssumption, HeapInv, NEW t \in Threads, NEW b \in Addr, vPortFree(t, b)
    PROVE  Alloc!AFree
<1>1. /\ b \in Allocated /\ Allocated' = Allocated \ {b}
      /\ \A a \in Allocated \ {b} : xBlockSize'[a] = xBlockSize[a]
  BY FreeIs DEF HeapAssumption
<1>2. live' = live \ {<<b, xBlockSize[b]>>} /\ <<b, xBlockSize[b]>> \in live
  BY <1>1 DEF live
<1>3. halted' = halted
  BY DEF vPortFree
<1> QED
  BY <1>2, <1>3 DEF Alloc!AFree, live

(* An interval of w units outside every block in use lies in one block of  *)
(* the list: its neighbour would not be in the list too.                   *)
LEMMA VacantLiesInABlock ==
    ASSUME HeapSize \in Nat, HeapInv, NEW w \in Nat \ {0}, NEW a \in Addr,
           a + w <= HeapSize,
           \A c \in Allocated : (a .. (a + w - 1)) \cap SpanOf(xBlockSize, c) = {}
    PROVE  \E x \in Range(freeList) : xBlockSize[x] >= w
<1>1. \A x \in Blocks : x \in Int /\ 0 <= x /\ xBlockSize[x] \in Int /\ xBlockSize[x] > 0
  BY DEF HeapInv, PartitionOK, Blocks, Addr
<1>2. a \in Int /\ 0 <= a /\ w \in Int /\ w > 0
  BY DEF Addr
<1>3. ASSUME NEW y \in Int, a <= y, y < a + w
      PROVE  \E x \in Range(freeList) : x <= y /\ y < x + xBlockSize[x]
  <2>1. y \in Addr
    BY <1>2, <1>3 DEF Addr
  <2>2. PICK x \in Blocks : x <= y /\ y < x + xBlockSize[x]
    BY <2>1 DEF HeapInv, PartitionOK, Blocks
  <2>3. y \in SpanOf(xBlockSize, x) /\ y \in a .. (a + w - 1)
    BY <1>1, <1>2, <1>3, <2>2 DEF SpanOf
  <2>4. x \notin Allocated
    BY <2>3
  <2> QED
    BY <2>2, <2>4 DEF Allocated
<1>4. PICK x \in Range(freeList) : x <= a /\ a < x + xBlockSize[x]
  <2>1. a <= a /\ a < a + w
    BY <1>2
  <2> QED
    BY <1>2, <1>3, <2>1
<1>5. Range(freeList) \subseteq Blocks
  BY DEF HeapInv, ListOK, Blocks
<1> DEFINE y == x + xBlockSize[x]
<1>6. x \in Int /\ xBlockSize[x] \in Int /\ y \in Int /\ a <= y
  BY <1>1, <1>2, <1>4, <1>5
<1>7. ~(y < a + w)
  <2> SUFFICES ASSUME y < a + w PROVE FALSE
    OBVIOUS
  <2>1. PICK z \in Range(freeList) : z <= y /\ y < z + xBlockSize[z]
    BY <1>3, <1>6
  <2>2. z \in Int /\ xBlockSize[z] \in Int /\ z \in Blocks /\ x \in Blocks
    BY <1>1, <1>5
  <2>3. z # x
    BY <1>6, <2>1
  <2>4. (x < z => y <= z) /\ (z < x => z + xBlockSize[z] <= x)
    BY <2>2 DEF HeapInv, PartitionOK, Blocks
  <2>5. x < y
    BY <1>1, <1>5, <1>6
  <2>6. y = z
    BY <1>6, <2>1, <2>2, <2>3, <2>4, <2>5
  <2> QED
    BY <2>6 DEF HeapInv, ListOK, Coalesced
<1>8. xBlockSize[x] >= w
  BY <1>2, <1>4, <1>6, <1>7
<1> QED
  BY <1>8

(* A request that is refused fits into no gap.                             *)
LEMMA VacantIsServed ==
    ASSUME HeapSize \in Nat, HeapInv, NEW w \in Nat \ {0}, NEW a \in Addr,
           Alloc!Vacant(<<a, w>>)
    PROVE  w <= xFreeBytesRemaining /\ \E i \in DOMAIN freeList : FirstFit(w, i)
<1>1. a \in Int /\ 0 <= a /\ w \in Int /\ w > 0
  BY DEF Addr
<1>2. a .. (a + w - 1) \subseteq Addr
  BY DEF Alloc!Vacant, Alloc!Units, Addr
<1>3. a + w <= HeapSize
  <2>1. a + w - 1 \in a .. (a + w - 1)
    BY <1>1
  <2>2. a + w - 1 \in Addr
    BY <1>2, <2>1
  <2> QED
    BY <1>1, <2>2 DEF Addr
<1>4. \A c \in Allocated : (a .. (a + w - 1)) \cap SpanOf(xBlockSize, c) = {}
  <2>1. \A c \in live : Alloc!Units(<<a, w>>) \cap Alloc!Units(c) = {}
    BY DEF Alloc!Vacant, live
  <2>2. \A c \in Allocated : <<c, xBlockSize[c]>> \in live
    BY DEF live
  <2>3. \A c \in Allocated :
           Alloc!Units(<<a, w>>) \cap Alloc!Units(<<c, xBlockSize[c]>>) = {}
    BY <2>1, <2>2
  <2> QED
    BY <2>3 DEF Alloc!Units, SpanOf
<1>5. w <= xFreeBytesRemaining
  <2> DEFINE P == a .. (a + w - 1)
             F == Addr \ InUse
             z == a + w - 1
  <2>1. z \in Int /\ ~(a > z) /\ z - a + 1 = w
    BY <1>1
  <2> HIDE DEF z
  <2>2. IsFiniteSet(a .. z) /\ Cardinality(a .. z) = z - a + 1
    BY <1>1, <2>1, FS_Interval
  <2>3. Cardinality(P) = w
    BY <2>1, <2>2 DEF z
  <2>4. P \subseteq F
    BY <1>2, <1>4, InUseIs DEF Covered
  <2>5. IsFiniteSet(F)
    BY FreeUnitsFinite
  <2> HIDE DEF P, F
  <2>6. Cardinality(P) <= Cardinality(F)
    BY <2>4, <2>5, FS_Subset
  <2>7. xFreeBytesRemaining = Cardinality(F)
    BY DEF HeapInv, FreeBytesExact, F
  <2> QED
    BY <2>3, <2>6, <2>7
<1>6. PICK x \in Range(freeList) : xBlockSize[x] >= w
  BY <1>3, <1>4, VacantLiesInABlock
<1> DEFINE T == {i \in DOMAIN freeList : xBlockSize[freeList[i]] >= w}
<1>7. T \in SUBSET Nat /\ T # {}
  <2>1. DOMAIN freeList \subseteq Nat
    BY DEF HeapInv, ListOK
  <2> QED
    BY <1>6, <2>1 DEF Range
<1>8. PICK i \in T : \A j \in T : i <= j
  <2> HIDE DEF T
  <2> QED
    BY <1>7, Least
<1>9. \A j \in 1 .. (i - 1) : xBlockSize[freeList[j]] < w
  <2> SUFFICES ASSUME NEW j \in 1 .. (i - 1) PROVE xBlockSize[freeList[j]] < w
    OBVIOUS
  <2>1. i \in Nat /\ i \in 1 .. Len(freeList) /\ Len(freeList) \in Nat
        /\ DOMAIN freeList = 1 .. Len(freeList)
    BY <1>7, <1>8 DEF HeapInv, ListOK
  <2>2. j \in DOMAIN freeList /\ j \in Int /\ ~(i <= j)
    BY <2>1
  <2>3. j \notin T
    BY <1>8, <2>2
  <2>4. ~(xBlockSize[freeList[j]] >= w)
    BY <2>2, <2>3
  <2>5. xBlockSize[freeList[j]] \in Int
    <3>1. freeList[j] \in Range(freeList)
      BY <2>2 DEF Range
    <3>2. freeList[j] \in DOMAIN xBlockSize
      BY <3>1 DEF HeapInv, ListOK
    <3> QED
      BY <3>2 DEF HeapInv, PartitionOK
  <2> QED
    BY <1>1, <2>4, <2>5
<1>10. FirstFit(w, i)
  BY <1>8, <1>9 DEF FirstFit
<1> QED
  BY <1>5, <1>8, <1>10

LEMMA RefuseIsARefuse ==
    ASSUME HeapAssumption, HeapInv, NEW n \in Requests, Refuse(n)
    PROVE  Alloc!ARefuse
<1> DEFINE w == n + Header
<1>1. HeapSize \in Nat /\ w \in Nat \ {0} /\ w \in Sizes
  <2>1. HeapSize \in Nat /\ n \in Nat \ {0}
    BY DEF HeapAssumption
  <2>2. w \in Nat \ {0}
    BY <2>1 DEF Header
  <2>3. w \in Sizes
    BY DEF Sizes
  <2> QED
    BY <2>1, <2>2, <2>3
<1>2. ~(w <= xFreeBytesRemaining /\ \E i \in DOMAIN freeList : FirstFit(w, i))
  <2>1. xFreeBytesRemaining \in Int
    <3>1. IsFiniteSet(Addr \ InUse)
      BY <1>1, FreeUnitsFinite
    <3>2. Cardinality(Addr \ InUse) \in Nat
      BY <3>1, FS_CardinalityType
    <3> QED
      BY <3>2 DEF HeapInv, FreeBytesExact
  <2>2. w > xFreeBytesRemaining \/ \A i \in DOMAIN freeList : ~FirstFit(w, i)
    BY DEF Refuse
  <2> QED
    BY <1>1, <2>1, <2>2
<1>3. halted' = TRUE /\ live' = live
  BY DEF Refuse, live, Allocated, Blocks, Range
<1> HIDE DEF w
<1>4. \A a \in 0 .. (HeapSize - 1) : ~Alloc!Vacant(<<a, w>>)
  BY <1>1, <1>2, VacantIsServed DEF Addr
<1> QED
  BY <1>1, <1>3, <1>4 DEF Alloc!ARefuse, live, Sizes

LEMMA StepAlloc ==
    ASSUME HeapAssumption, HeapInv, [Next]_vars
    PROVE  [Alloc!ANext]_(<<live, halted>>)
<1>1. ASSUME ~halted, NEW t \in Threads, NEW n \in Requests, pvPortMalloc(t, n)
      PROVE  Alloc!ANext
  BY <1>1, MallocIsAMalloc DEF Alloc!ANext
<1>2. ASSUME ~halted, NEW n \in Requests, Refuse(n) PROVE Alloc!ANext
  BY <1>2, RefuseIsARefuse DEF Alloc!ANext
<1>3. ASSUME ~halted, NEW t \in Threads, NEW b \in Addr, vPortFree(t, b) PROVE Alloc!ANext
  BY <1>3, FreeIsAFree DEF Alloc!ANext
<1>4. (UNCHANGED heapVars) => UNCHANGED <<live, halted>>
  BY DEF heapVars, live, Allocated, Blocks, Range
<1>5. ASSUME NEW t \in Threads, EnableThreadTrace(t) PROVE UNCHANGED <<live, halted>>
  BY <1>4, <1>5 DEF EnableThreadTrace, heapVars
<1>6. ASSUME NEW t \in Threads, DisableThreadTrace(t) PROVE UNCHANGED <<live, halted>>
  BY <1>4, <1>6 DEF DisableThreadTrace
<1>7. CASE UNCHANGED vars
  BY <1>4, <1>7 DEF vars
<1> QED
  BY <1>1, <1>2, <1>3, <1>5, <1>6, <1>7 DEF Next

\* The heap implements the allocator: blocks in use never overlap, and a refusal
\* means that no gap is large enough.
THEOREM HeapImplementsAllocator == Spec => ImplementsAllocator
<1>1. Init => Alloc!AInit
  BY InitAlloc
<1>2. HeapInv /\ [Next]_vars => [Alloc!ANext]_(<<live, halted>>)
  BY HeapAssumption, StepAlloc
<1> QED
  BY <1>1, <1>2, HeapInvariant, PTL DEF Spec, ImplementsAllocator, Alloc!ASpec, live

===============================================================================
