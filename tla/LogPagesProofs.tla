--------------------------- MODULE LogPagesProofs ---------------------------
(***************************************************************************)
(* That the running total is the sum of the pages, that handles are those  *)
(* of current pages, and that a write stays within the policy in force,    *)
(* for every number of instances, policy, line and page.                   *)
(*                                                                         *)
(* Bytes is a fold, and induction over a set is not at hand: what it adds  *)
(* up is proved from a smallest set for which it would be wrong.           *)
(***************************************************************************)
EXTENDS LogPages, FiniteSetTheorems, TLAPS

-----------------------------------------------------------------------------
(* Least elements, and what Bytes adds up.                                  *)

\* A number with a property is preceded by a least one.
LEMMA LeastNumber ==
  ASSUME NEW T, T \subseteq Nat, T # {}
  PROVE  \E n \in T : \A m \in T : n <= m
<1> DEFINE R == OpToRel(<, Nat)
<1>1. IsWellFoundedOn(R, Nat)
  BY NatLessThanWellFounded
<1>2. \A m, n \in Nat : m < n => <<m, n>> \in R
  BY DEF OpToRel
<1> HIDE DEF R
<1>3. PICK n \in T : \A m \in T : ~ (<<m, n>> \in R)
  BY <1>1, WFMin
<1>4. \A m \in T : ~(m < n)
  BY <1>2, <1>3
<1>5. \A m \in T : n <= m
  BY <1>3, <1>4
<1> QED BY <1>5

\* A finite set with subsets of some kind has a smallest of them.
LEMMA SmallestSubset ==
  ASSUME NEW S, IsFiniteSet(S), NEW K, K \subseteq SUBSET S, K # {}
  PROVE  \E t \in K : \A u \in K : ~(u \subseteq t /\ u # t)
<1> DEFINE T == {Cardinality(u) : u \in K}
<1>1. \A u \in SUBSET S : IsFiniteSet(u) /\ Cardinality(u) \in Nat
  BY FS_Subset, FS_CardinalityType
<1>2. T \subseteq Nat /\ T # {}
  BY <1>1
<1>3. PICK n \in T : \A m \in T : n <= m
  BY <1>2, LeastNumber
<1>4. PICK t \in K : Cardinality(t) = n
  BY <1>3
<1>5. ASSUME NEW u \in K, u \subseteq t, u # t PROVE FALSE
  <2>1. Cardinality(u) <= Cardinality(t) /\ (Cardinality(t) = Cardinality(u) => t = u)
    BY <1>1, <1>5, FS_Subset
  <2> QED BY <1>1, <1>3, <1>4, <1>5, <2>1
<1> QED BY <1>4, <1>5

Pick(s) == CHOOSE x \in s : TRUE

\* A function that adds up the sizes of every subset of a set.
Adds(f, s) ==
    f = [t \in SUBSET s |-> IF t = {} THEN 0 ELSE Pick(t).size + f[t \ {Pick(t)}]]

\* Bytes is such a function at the set itself.
LEMMA BytesChosen ==
  ASSUME NEW s PROVE Bytes(s) = (CHOOSE f : Adds(f, s))[s]
  BY DEF Bytes, MapThenSumSet, MapThenFoldSet, Adds, Pick

\* There is one such function at most.
LEMMA AddsOnce ==
  ASSUME NEW s, IsFiniteSet(s), NEW f, NEW g, Adds(f, s), Adds(g, s) PROVE f = g
<1> DEFINE K == {t \in SUBSET s : f[t] # g[t]}
<1>1. SUFFICES ASSUME K # {} PROVE FALSE
  <2>1. DOMAIN f = SUBSET s /\ DOMAIN g = SUBSET s
    BY DEF Adds
  <2>2. f = [t \in SUBSET s |-> f[t]] /\ g = [t \in SUBSET s |-> g[t]]
    BY <2>1 DEF Adds
  <2> QED BY <1>1, <2>2
<1> K \subseteq SUBSET s
  OBVIOUS
<1>2. PICK t \in K : \A u \in K : ~(u \subseteq t /\ u # t)
  <2> HIDE DEF K
  <2> QED BY <1>1, SmallestSubset
<1>3. /\ f[t] = IF t = {} THEN 0 ELSE Pick(t).size + f[t \ {Pick(t)}]
      /\ g[t] = IF t = {} THEN 0 ELSE Pick(t).size + g[t \ {Pick(t)}]
  BY DEF Adds
<1>4. t # {}
  BY <1>3
<1>5. Pick(t) \in t
  BY <1>4 DEF Pick
<1>6. t \ {Pick(t)} \notin K
  BY <1>2, <1>5
<1> QED BY <1>3, <1>4, <1>6

\* Such a function on the subsets of a subset.
Below(f, t) == [u \in SUBSET t |-> f[u]]

\* It adds them up there too.
LEMMA AddsBelow ==
  ASSUME NEW s, NEW f, Adds(f, s), NEW t, t \subseteq s
  PROVE  Adds(Below(f, t), t)
<1> DEFINE g == Below(f, t)
<1> USE DEF Below
<1>1. ASSUME NEW u \in SUBSET t
      PROVE  f[u] = IF u = {} THEN 0 ELSE Pick(u).size + g[u \ {Pick(u)}]
  <2>1. f[u] = IF u = {} THEN 0 ELSE Pick(u).size + f[u \ {Pick(u)}]
    BY DEF Adds
  <2>2. u \ {Pick(u)} \in SUBSET t
    OBVIOUS
  <2> QED BY <2>1, <2>2
<1>2. g = [u \in SUBSET t |-> IF u = {} THEN 0 ELSE Pick(u).size + g[u \ {Pick(u)}]]
  BY <1>1
<1> QED BY <1>2 DEF Adds

\* There is one, for every finite set.
LEMMA AddsExists ==
  ASSUME NEW S, IsFiniteSet(S) PROVE \E f : Adds(f, S)
<1> DEFINE K == {t \in SUBSET S : ~ \E f : Adds(f, t)}
           V(t) == (CHOOSE f : Adds(f, t))[t]
<1>1. SUFFICES ASSUME K # {} PROVE FALSE
  OBVIOUS
<1> K \subseteq SUBSET S
  OBVIOUS
<1>2. PICK s \in K : \A u \in K : ~(u \subseteq s /\ u # s)
  <2> HIDE DEF K
  <2> QED BY <1>1, SmallestSubset
<1>3. ASSUME NEW t, t \subseteq s, t # s
      PROVE  V(t) = IF t = {} THEN 0 ELSE Pick(t).size + V(t \ {Pick(t)})
  <2> DEFINE f == CHOOSE f : Adds(f, t)
  <2>1. Adds(f, t)
    BY <1>2, <1>3
  <2> HIDE DEF f
  <2>2. f[t] = IF t = {} THEN 0 ELSE Pick(t).size + f[t \ {Pick(t)}]
    BY <2>1 DEF Adds
  <2> DEFINE r == t \ {Pick(t)}
             g == Below(f, r)
             h == CHOOSE h : Adds(h, r)
  <2>3. Adds(g, r)
    BY <2>1, AddsBelow
  <2>4. Adds(h, r)
    BY <2>3
  <2>5. IsFiniteSet(r)
    BY <1>3, FS_Subset
  <2> HIDE DEF h
  <2>6. g = h
    BY <2>3, <2>4, <2>5, AddsOnce
  <2>7. h[r] = f[r]
    BY <2>6 DEF Below
  <2> QED BY <2>2, <2>7 DEF f, h
<1> DEFINE F == [t \in SUBSET s |-> IF t = s THEN (IF s = {} THEN 0 ELSE Pick(s).size + V(s \ {Pick(s)}))
                                    ELSE V(t)]
<1> HIDE DEF V
<1>4. ASSUME NEW t \in SUBSET s
      PROVE  F[t] = IF t = {} THEN 0 ELSE Pick(t).size + F[t \ {Pick(t)}]
  <2>1. t # {} => Pick(t) \in t
    BY DEF Pick
  <2>2. t # {} => t \ {Pick(t)} \in SUBSET s /\ t \ {Pick(t)} # s
    BY <2>1
  <2>3. t # {} => F[t \ {Pick(t)}] = V(t \ {Pick(t)})
    BY <2>2
  <2>4. F[t] = IF t = {} THEN 0 ELSE Pick(t).size + V(t \ {Pick(t)})
    BY <1>3
  <2> QED BY <2>3, <2>4
<1>5. F = [t \in SUBSET s |-> IF t = {} THEN 0 ELSE Pick(t).size + F[t \ {Pick(t)}]]
  <2> HIDE DEF F
  <2>1. DOMAIN F = SUBSET s /\ F = [t \in SUBSET s |-> F[t]]
    BY DEF F
  <2> QED BY <1>4, <2>1
<1>6. Adds(F, s)
  BY <1>5 DEF Adds
<1> QED BY <1>2, <1>6

\* So Bytes adds the size of one of the pages to that of the others,
LEMMA BytesPicked ==
  ASSUME NEW s, IsFiniteSet(s)
  PROVE  Bytes(s) = IF s = {} THEN 0 ELSE Pick(s).size + Bytes(s \ {Pick(s)})
<1> DEFINE r == s \ {Pick(s)}
           f == CHOOSE f : Adds(f, s)
           h == CHOOSE h : Adds(h, r)
           g == Below(f, r)
<1>1. IsFiniteSet(r)
  BY FS_Subset
<1>2. Adds(f, s) /\ Adds(h, r)
  BY <1>1, AddsExists
<1>3. f[s] = Bytes(s) /\ h[r] = Bytes(r)
  BY BytesChosen
<1> HIDE DEF f, h
<1>4. Adds(g, r)
  BY <1>2, AddsBelow
<1>5. g = h
  BY <1>1, <1>2, <1>4, AddsOnce
<1>6. h[r] = f[r]
  BY <1>5 DEF Below
<1>7. f[s] = IF s = {} THEN 0 ELSE Pick(s).size + f[r]
  BY <1>2 DEF Adds
<1> QED BY <1>3, <1>6, <1>7

\* which is a number,
LEMMA BytesNat ==
  ASSUME NEW S, IsFiniteSet(S), \A p \in S : p.size \in Nat PROVE Bytes(S) \in Nat
<1> DEFINE K == {t \in SUBSET S : Bytes(t) \notin Nat}
<1>1. SUFFICES ASSUME K # {} PROVE FALSE
  OBVIOUS
<1> K \subseteq SUBSET S
  OBVIOUS
<1>2. PICK t \in K : \A u \in K : ~(u \subseteq t /\ u # t)
  <2> HIDE DEF K
  <2> QED BY <1>1, SmallestSubset
<1>3. Bytes(t) = IF t = {} THEN 0 ELSE Pick(t).size + Bytes(t \ {Pick(t)})
  BY <1>2, FS_Subset, BytesPicked
<1>4. CASE t = {}
  BY <1>2, <1>3, <1>4
<1>5. CASE t # {}
  <2>1. Pick(t) \in t
    BY <1>5 DEF Pick
  <2>2. t \ {Pick(t)} \notin K
    BY <1>2, <2>1
  <2>3. Bytes(t \ {Pick(t)}) \in Nat /\ Pick(t).size \in Nat
    BY <2>1, <2>2
  <2> QED BY <1>2, <1>3, <1>5, <2>3
<1> QED BY <1>4, <1>5

\* whichever page is taken first,
LEMMA BytesWithout ==
  ASSUME NEW S, IsFiniteSet(S), \A p \in S : p.size \in Nat, NEW x \in S
  PROVE  Bytes(S) = x.size + Bytes(S \ {x})
<1> DEFINE K == {t \in SUBSET S : \E p \in t : Bytes(t) # p.size + Bytes(t \ {p})}
<1>1. SUFFICES ASSUME K # {} PROVE FALSE
  OBVIOUS
<1> K \subseteq SUBSET S
  OBVIOUS
<1>2. PICK t \in K : \A u \in K : ~(u \subseteq t /\ u # t)
  <2> HIDE DEF K
  <2> QED BY <1>1, SmallestSubset
<1>3. PICK p \in t : Bytes(t) # p.size + Bytes(t \ {p})
  BY <1>2
<1>4. \A u \in SUBSET S : IsFiniteSet(u) /\ Bytes(u) \in Nat
  BY FS_Subset, BytesNat
<1> DEFINE y == Pick(t)
<1>5. y \in t
  BY <1>3 DEF Pick
<1> HIDE DEF y
<1>6. Bytes(t) = y.size + Bytes(t \ {y})
  BY <1>3, <1>4, BytesPicked DEF y
<1>7. y # p
  BY <1>3, <1>6
<1>8. Bytes(t \ {y}) = p.size + Bytes((t \ {y}) \ {p})
  <2>1. t \ {y} \notin K /\ p \in t \ {y}
    BY <1>2, <1>5, <1>7
  <2> QED BY <2>1
<1>9. Bytes(t \ {p}) = y.size + Bytes((t \ {p}) \ {y})
  <2>1. t \ {p} \notin K /\ y \in t \ {p}
    BY <1>2, <1>5, <1>7
  <2> QED BY <2>1
<1>10. (t \ {y}) \ {p} = (t \ {p}) \ {y}
  OBVIOUS
<1>11. /\ p.size \in Nat /\ y.size \in Nat /\ Bytes((t \ {p}) \ {y}) \in Nat
  BY <1>4, <1>5
<1>12. \A a, b, c \in Nat : a + (b + c) = b + (a + c)
  OBVIOUS
<1>13. Bytes(t) = y.size + (p.size + Bytes((t \ {p}) \ {y}))
  BY <1>6, <1>8, <1>10
<1> QED BY <1>3, <1>9, <1>11, <1>12, <1>13

\* and whichever part of the pages,
LEMMA BytesParts ==
  ASSUME NEW S, IsFiniteSet(S), \A p \in S : p.size \in Nat, NEW T, T \subseteq S
  PROVE  Bytes(S) = Bytes(T) + Bytes(S \ T) /\ Bytes(T) <= Bytes(S)
<1> DEFINE K == {t \in SUBSET T : Bytes(S) # Bytes(t) + Bytes(S \ t)}
<1>1. \A u \in SUBSET S : IsFiniteSet(u) /\ Bytes(u) \in Nat
  BY FS_Subset, BytesNat
<1>2. ASSUME K # {} PROVE FALSE
  <2> K \subseteq SUBSET T
    OBVIOUS
  <2>1. PICK t \in K : \A u \in K : ~(u \subseteq t /\ u # t)
    <3> HIDE DEF K
    <3> QED BY <1>1, <1>2, SmallestSubset
  <2>2. CASE t = {}
    <3>1. Bytes({}) = 0
      BY FS_EmptySet, BytesPicked
    <3>2. S \ {} = S
      OBVIOUS
    <3> QED BY <1>1, <2>1, <2>2, <3>1, <3>2
  <2>3. ASSUME NEW p \in t PROVE FALSE
    <3>1. t \ {p} \notin K
      BY <2>1
    <3>2. Bytes(S) = Bytes(t \ {p}) + Bytes(S \ (t \ {p}))
      BY <3>1
    <3>3. Bytes(t) = p.size + Bytes(t \ {p})
      BY <1>1, BytesWithout
    <3>4. Bytes(S \ (t \ {p})) = p.size + Bytes((S \ (t \ {p})) \ {p})
      BY <1>1, BytesWithout
    <3>5. (S \ (t \ {p})) \ {p} = S \ t
      OBVIOUS
    <3>6. p.size \in Nat /\ Bytes(t \ {p}) \in Nat /\ Bytes(S \ t) \in Nat
      BY <1>1
    <3>7. \A a, b, c \in Nat : a + (b + c) = (b + a) + c
      OBVIOUS
    <3>8. Bytes(S) = Bytes(t \ {p}) + (p.size + Bytes(S \ t))
      BY <3>2, <3>4, <3>5
    <3>9. Bytes(S) = (p.size + Bytes(t \ {p})) + Bytes(S \ t)
      BY <3>6, <3>7, <3>8
    <3>10. Bytes(S) # Bytes(t) + Bytes(S \ t)
      BY <2>1
    <3> QED BY <3>3, <3>9, <3>10
  <2> QED BY <2>2, <2>3
<1>3. Bytes(S) = Bytes(T) + Bytes(S \ T)
  BY <1>2
<1>4. Bytes(T) \in Nat /\ Bytes(S \ T) \in Nat
  BY <1>1
<1> QED BY <1>3, <1>4

\* and when a page comes.
LEMMA BytesWith ==
  ASSUME NEW S, IsFiniteSet(S), \A p \in S : p.size \in Nat, NEW x, x \notin S, x.size \in Nat
  PROVE  IsFiniteSet(S \cup {x}) /\ Bytes(S \cup {x}) = Bytes(S) + x.size
<1>1. IsFiniteSet(S \cup {x}) /\ (S \cup {x}) \ {x} = S
  BY FS_AddElement
<1>2. Bytes(S \cup {x}) = x.size + Bytes(S)
  BY <1>1, BytesWithout
<1>3. Bytes(S) \in Nat
  BY BytesNat
<1> QED BY <1>1, <1>2, <1>3

\* A restart, which takes a page to be as old as its file, changes no size.
Scanned(S) == {[p EXCEPT !.created = p.written] : p \in S}

\* The bytes in the directory are as many behind a scan of it.
LEMMA BytesScanned ==
  ASSUME NEW S, IsFiniteSet(S), \A p \in S : p.size \in Nat,
         S \subseteq [name : Names, size : Nat, created : 1..MaxCalls, written : 1..MaxCalls,
                      made : 1..MaxCalls],
         \A p, q \in S : p.name = q.name => p = q
  PROVE  IsFiniteSet(Scanned(S)) /\ Bytes(Scanned(S)) = Bytes(S)
<1> DEFINE K == {t \in SUBSET S : ~(IsFiniteSet(Scanned(t)) /\ Bytes(Scanned(t)) = Bytes(t))}
<1>1. SUFFICES ASSUME K # {} PROVE FALSE
  OBVIOUS
<1> K \subseteq SUBSET S
  OBVIOUS
<1>2. PICK t \in K : \A u \in K : ~(u \subseteq t /\ u # t)
  <2> HIDE DEF K
  <2> QED BY <1>1, SmallestSubset
<1>3. CASE t = {}
  <2>1. Scanned(t) = {}
    BY <1>3 DEF Scanned
  <2> QED BY <1>2, <1>3, <2>1, FS_EmptySet
<1>4. ASSUME NEW p \in t PROVE FALSE
  <2> DEFINE u == t \ {p}
             x == [p EXCEPT !.created = p.written]
  <2>1. u \notin K
    BY <1>2
  <2>2. IsFiniteSet(Scanned(u)) /\ Bytes(Scanned(u)) = Bytes(u)
    BY <2>1
  <2>3. x.size = p.size /\ x.name = p.name /\ x.size \in Nat
    OBVIOUS
  <2>4. \A q \in u : [q EXCEPT !.created = q.written].name = q.name
                     /\ [q EXCEPT !.created = q.written].size = q.size
    OBVIOUS
  <2>5. /\ \A q \in Scanned(u) : q.size \in Nat /\ \E r \in u : q.name = r.name
        /\ Scanned(t) = Scanned(u) \cup {x}
    BY <2>4 DEF Scanned
  <2>9. x \notin Scanned(u)
    BY <2>3, <2>5
  <2> HIDE DEF x
  <2>6. IsFiniteSet(Scanned(t)) /\ Bytes(Scanned(t)) = Bytes(Scanned(u)) + x.size
    <3> HIDE DEF u
    <3>1. /\ IsFiniteSet(Scanned(u) \cup {x})
          /\ Bytes(Scanned(u) \cup {x}) = Bytes(Scanned(u)) + x.size
      BY <2>2, <2>3, <2>5, <2>9, BytesWith
    <3> QED BY <2>5, <3>1
  <2>7. IsFiniteSet(t) /\ Bytes(u) \in Nat
    BY FS_Subset, BytesNat
  <2>8. Bytes(t) = p.size + Bytes(u)
    BY <2>7, BytesWithout
  <2> QED BY <1>2, <2>2, <2>3, <2>6, <2>7, <2>8
<1> QED BY <1>3, <1>4

-----------------------------------------------------------------------------
(* The order in which pages go.                                             *)
PageRecords == [name : Names, size : Nat, created : 1..MaxCalls, written : 1..MaxCalls,
                made : 1..MaxCalls]

\* The numbers that the constants are.
LEMMA Bounds ==
  /\ \A i \in Ids : i \in Nat /\ Header[i] \in Nat /\ Header[i] # 0
  /\ \A p \in Policies : p.days \in Nat /\ p.file \in Nat /\ p.total \in Nat /\ p.total >= p.file
  /\ MaxSeq \in Nat /\ MaxCalls \in Nat /\ MaxDay \in Nat /\ MaxFaults \in Nat /\ MaxRestarts \in Nat
  BY LogAssumption

\* It is a strict order.
LEMMA OrderStrict ==
  ASSUME NEW p \in PageRecords, NEW q \in PageRecords, NEW r \in PageRecords
  PROVE  /\ ~OlderFirst(p, p)
         /\ OlderFirst(p, q) /\ OlderFirst(q, r) => OlderFirst(p, r)
         /\ OlderFirst(p, q) => p.created <= q.created
         /\ p.created < q.created => OlderFirst(p, q)
<1>1. /\ p.created \in Nat /\ q.created \in Nat /\ r.created \in Nat
      /\ p.name \in Names /\ q.name \in Names /\ r.name \in Names
  BY Bounds DEF PageRecords
<1>2. \A n \in Names : n.id \in Nat /\ n.day \in Nat /\ n.seq \in Nat
  BY Bounds DEF Names
<1>3. ~Before(p.name, p.name)
  BY <1>1, <1>2 DEF Before
<1>4. Before(p.name, q.name) /\ Before(q.name, r.name) => Before(p.name, r.name)
  BY <1>1, <1>2 DEF Before
<1> QED BY <1>1, <1>3, <1>4 DEF OlderFirst

\* A finite set of pages has an oldest one.
LEMMA OldestPage ==
  ASSUME NEW S, IsFiniteSet(S), S \subseteq PageRecords, S # {}
  PROVE  \E p \in S : \A q \in S : ~OlderFirst(q, p)
<1> DEFINE Older(p) == {q \in S : OlderFirst(q, p)}
           K == {t \in SUBSET S : \E p \in S : t = Older(p)}
<1>1. K \subseteq SUBSET S /\ K # {}
  OBVIOUS
<1>2. PICK t \in K : \A u \in K : ~(u \subseteq t /\ u # t)
  <2> HIDE DEF K
  <2> QED BY <1>1, SmallestSubset
<1>3. PICK p \in S : t = Older(p)
  BY <1>2
<1>4. ASSUME NEW q \in S, OlderFirst(q, p) PROVE FALSE
  <2>1. Older(q) \subseteq Older(p) /\ q \notin Older(q) /\ q \in Older(p)
    BY <1>4, OrderStrict
  <2>2. Older(q) \in K
    OBVIOUS
  <2> QED BY <1>2, <1>3, <2>1, <2>2
<1> QED BY <1>4

-----------------------------------------------------------------------------
(* The store: pages, their files, their handles and their sum.              *)
OneName == \A p, q \in pages : p.name = q.name => p = q

StoreTyped ==
    /\ pages \subseteq PageRecords /\ IsFiniteSet(pages)
    /\ current \in [Ids -> Names \cup {None}]
    /\ open \subseteq Names /\ disk \subseteq Names

StoreInv ==
    /\ StoreTyped /\ OneName
    /\ total = Bytes(pages) /\ disk \subseteq NamesOf(pages)
    /\ HandlesCurrent

\* Sums of pages are numbers, and sums of some of them no larger.
LEMMA Sums ==
  ASSUME StoreInv
  PROVE  /\ \A p \in pages : p.size \in Nat
         /\ \A S \in SUBSET pages : IsFiniteSet(S) /\ Bytes(S) \in Nat
         /\ \A S \in SUBSET pages : /\ Bytes(pages) = Bytes(S) + Bytes(pages \ S)
                                    /\ \A T \in SUBSET S : Bytes(T) <= Bytes(S)
<1>1. \A p \in pages : p.size \in Nat
  BY DEF StoreInv, StoreTyped, PageRecords
<1>2. \A S \in SUBSET pages : IsFiniteSet(S)
  BY FS_Subset DEF StoreInv, StoreTyped
<1>3. \A S \in SUBSET pages : Bytes(S) \in Nat
  BY <1>1, <1>2, BytesNat
<1>4. \A S \in SUBSET pages : Bytes(pages) = Bytes(S) + Bytes(pages \ S)
  BY <1>1, <1>2, BytesParts
<1>5. \A S \in SUBSET pages : \A T \in SUBSET S : Bytes(T) <= Bytes(S)
  BY <1>1, <1>2, BytesParts
<1> QED BY <1>1, <1>2, <1>3, <1>4, <1>5

\* A name of a page is that of one page, and PageOf finds it.
LEMMA PageFound ==
  ASSUME StoreInv, NEW n \in NamesOf(pages)
  PROVE  PageOf(n) \in pages /\ PageOf(n).name = n /\ \A p \in pages : p.name = n => p = PageOf(n)
<1>1. \E p \in pages : p.name = n
  BY DEF NamesOf
<1>2. PageOf(n) \in pages /\ PageOf(n).name = n
  BY <1>1 DEF PageOf
<1> QED BY <1>2 DEF StoreInv, OneName

\* Removing pages keeps the store, with their bytes off the total.
LEMMA RemovedStore ==
  ASSUME StoreInv, NEW gone, gone \subseteq pages, NEW closed, RemovePages(gone, closed)
  PROVE  /\ StoreInv' /\ pages' = pages \ gone /\ disk' \subseteq disk /\ open' \subseteq open \ closed
         /\ total' = Bytes(pages \ gone)
<1>1. /\ pages' = pages \ gone /\ disk' = disk \ NamesOf(gone)
      /\ open' = open \ (NamesOf(gone) \cup closed) /\ total' = total - Bytes(gone)
      /\ current' = [i \in Ids |-> IF current[i] \in NamesOf(gone) THEN None ELSE current[i]]
  BY DEF RemovePages
<1>2. total' = Bytes(pages')
  <2>1. total = Bytes(gone) + Bytes(pages \ gone) /\ Bytes(gone) \in Nat /\ Bytes(pages \ gone) \in Nat
    BY Sums DEF StoreInv
  <2>2. \A a, b \in Nat : (a + b) - a = b
    OBVIOUS
  <2> QED BY <1>1, <2>1, <2>2
<1>3. IsFiniteSet(pages \ gone)
  BY Sums
<1>4. StoreTyped'
  BY <1>1, <1>3 DEF StoreInv, StoreTyped
<1>5. OneName' /\ (disk \subseteq NamesOf(pages))'
  BY <1>1 DEF StoreInv, OneName, NamesOf
<1>6. HandlesCurrent'
  <2>1. ASSUME NEW i \in Ids, current'[i] # None
        PROVE  current'[i] \in NamesOf(pages') /\ current'[i].id = i
    <3>1. current'[i] = current[i] /\ current[i] \notin NamesOf(gone)
      BY <1>1, <2>1
    <3>2. current[i] \in NamesOf(pages) /\ current[i].id = i
      BY <2>1, <3>1 DEF StoreInv, HandlesCurrent
    <3> QED BY <1>1, <3>1, <3>2 DEF NamesOf
  <2>2. ASSUME NEW n \in open' PROVE current'[n.id] = n
    <3>1. n \in open /\ n \notin NamesOf(gone) /\ n.id \in Ids
      BY <1>1, <2>2 DEF StoreInv, StoreTyped, Names
    <3>2. current[n.id] = n
      BY <3>1 DEF StoreInv, HandlesCurrent
    <3> QED BY <1>1, <3>1, <3>2
  <2> QED BY <2>1, <2>2 DEF HandlesCurrent
<1> QED BY <1>1, <1>2, <1>4, <1>5, <1>6 DEF StoreInv

\* What trimming leaves is within the total, with what it was to make room for.
LEMMA TrimmedFits ==
  ASSUME StoreInv, NEW pol \in Policies, NEW today, NEW reserve \in Nat, reserve <= pol.total
  PROVE  Bytes(pages \ Doomed(pol, today, reserve)) + reserve <= pol.total
<1> DEFINE kept == pages \ Doomed(pol, today, reserve)
<1>1. IsFiniteSet(kept) /\ kept \subseteq pages /\ pages \subseteq PageRecords /\ pol.total \in Nat
  BY Sums, Bounds DEF StoreInv, StoreTyped
<1>2. CASE kept = {}
  <2>1. Bytes({}) = 0
    BY FS_EmptySet, BytesPicked
  <2> QED BY <1>1, <1>2, <2>1
<1>3. CASE kept # {}
  <2>1. PICK p \in kept : \A q \in kept : ~OlderFirst(q, p)
    <3> HIDE DEF kept
    <3> QED BY <1>1, <1>3, OldestPage
  <2> DEFINE newer == {q \in pages : ~OlderFirst(q, p)}
  <2>2. kept \subseteq newer /\ newer \subseteq pages
    BY <2>1
  <2>3. Bytes(newer) \in Nat /\ Bytes(kept) \in Nat /\ Bytes(kept) <= Bytes(newer)
    <3> HIDE DEF kept, newer
    <3> QED BY <1>1, <2>2, Sums
  <2>4. ~(Bytes(newer) + reserve > pol.total)
    BY <2>1 DEF Doomed
  <2> HIDE DEF kept, newer
  <2>5. Bytes(kept) + reserve <= pol.total
    BY <1>1, <2>3, <2>4
  <2> QED BY <2>5 DEF kept
<1> QED BY <1>2, <1>3

-----------------------------------------------------------------------------
(* A write in progress.                                                     *)
Writing == [pc : {"page", "create", "append"}, id : Ids, left : Nat \ {0}, now : 1..MaxCalls,
            day : 0..MaxDay]

ClockInv ==
    /\ policy \in Policies /\ writer \in {Idle, [pc |-> "start"]} \cup Writing
    /\ calls \in 0..MaxCalls /\ day \in 0..MaxDay
    /\ faults \in 0..MaxFaults /\ restarts \in 0..MaxRestarts

\* Between making room and taking it nobody else can: a page that is to be
\* created replaces one that is closed, and it, or the bytes to come, fit.
WriteInv ==
    /\ At("create") => /\ \A n \in open : n.id # writer.id
                       /\ Header[writer.id] < policy.file
                       /\ total + Header[writer.id] <= policy.total
    /\ At("append") => /\ Own # None /\ OwnPage.size < policy.file
                       /\ total + Chunk <= policy.total

LogInv == StoreInv /\ ClockInv /\ WriteInv

\* A write that is under way has its instance, its bytes and its time.
LEMMA WriterTyped ==
  ASSUME ClockInv, writer.pc \notin {"idle", "start"} PROVE writer \in Writing
  BY DEF ClockInv, Idle

\* It keeps them from one turn to the next.
LEMMA WriterWith ==
  ASSUME writer \in Writing, NEW pc \in {"page", "create", "append"}
  PROVE  /\ [writer EXCEPT !.pc = pc] \in Writing
         /\ [writer EXCEPT !.pc = pc].pc = pc /\ [writer EXCEPT !.pc = pc].id = writer.id
         /\ [writer EXCEPT !.pc = pc].left = writer.left
         /\ \A n \in Nat \ {0} : [writer EXCEPT !.pc = "page", !.left = n] \in Writing
  BY DEF Writing

\* The bytes that one turn writes are some, and fill the page at most.
LEMMA ChunkFits ==
  ASSUME StoreInv, ClockInv, writer \in Writing, Own # None, OwnPage.size < policy.file
  PROVE  /\ Own \in NamesOf(pages) /\ Own.id = writer.id /\ OwnPage \in pages /\ OwnPage.name = Own
         /\ \A p \in pages : p.name = Own => p = OwnPage
         /\ Chunk \in 1..writer.left /\ OwnPage.size + Chunk <= policy.file
         /\ Chunk <= policy.total
<1>1. writer.id \in Ids /\ writer.left \in Nat \ {0} /\ policy \in Policies
  BY DEF Writing, ClockInv
<1>2. Own \in NamesOf(pages) /\ Own.id = writer.id
  BY <1>1 DEF StoreInv, HandlesCurrent, Own
<1>3. OwnPage \in pages /\ OwnPage.name = Own /\ \A p \in pages : p.name = Own => p = OwnPage
  BY <1>2, PageFound DEF OwnPage
<1>4. policy.file \in Nat /\ policy.total \in Nat /\ policy.file <= policy.total /\ OwnPage.size \in Nat
  BY <1>1, <1>3, Bounds, Sums
<1>5. ASSUME NEW a \in Nat, NEW b \in Nat
      PROVE  Min({a, b}) \in {a, b} /\ Min({a, b}) <= a /\ Min({a, b}) <= b
  <2>1. \E x \in {a, b} : \A y \in {a, b} : x =< y
    BY <1>5
  <2> QED BY <2>1 DEF Min
<1>6. policy.file - OwnPage.size \in Nat /\ policy.file - OwnPage.size # 0
  BY <1>4
<1>7. Chunk \in {writer.left, policy.file - OwnPage.size} /\ Chunk <= writer.left
      /\ Chunk <= policy.file - OwnPage.size
  BY <1>1, <1>5, <1>6 DEF Chunk
<1> HIDE DEF Chunk, OwnPage
<1> QED BY <1>1, <1>2, <1>3, <1>4, <1>6, <1>7

\* A step that leaves the store, and its types, alone keeps both.
LEMMA StoreStays ==
  ASSUME StoreInv, UNCHANGED store PROVE StoreInv'
  BY DEF store, StoreInv, StoreTyped, OneName, HandlesCurrent

\* Faults stay within their bound.
LEMMA FaultTyped ==
  ASSUME ClockInv, Fault \/ UNCHANGED faults PROVE faults' \in 0..MaxFaults
  BY Bounds DEF ClockInv, Fault

\* A trim removes what is doomed, or, when it fails, what is older than one of it.
Reasons(gone, pol, today) ==
    \A p \in gone, q \in pages \ gone : Due(p, pol, today) \/ p.created <= q.created

\* It dooms no page that is younger than one it spares, unless that page is due.
LEMMA DoomedReasons ==
  ASSUME StoreInv, NEW pol \in Policies, NEW today, NEW reserve \in Nat
  PROVE  Reasons(Doomed(pol, today, reserve), pol, today)
<1> DEFINE gone == Doomed(pol, today, reserve)
<1> SUFFICES ASSUME NEW p \in gone, NEW q \in pages \ gone, ~Due(p, pol, today),
                    ~(p.created <= q.created)
             PROVE  FALSE
  BY DEF Reasons
<1> DEFINE Newer(r) == {s \in pages : ~OlderFirst(s, r)}
<1>1. p \in pages /\ q \in pages /\ pages \subseteq PageRecords
  BY DEF Doomed, StoreInv, StoreTyped
<1>2. p.created \in Nat /\ q.created \in Nat
  BY <1>1, Bounds DEF PageRecords
<1>3. OlderFirst(q, p)
  BY <1>1, <1>2, OrderStrict
<1>4. Newer(p) \subseteq Newer(q)
  BY <1>1, <1>3, OrderStrict
<1>5. Bytes(Newer(p)) + reserve > pol.total /\ ~(Bytes(Newer(q)) + reserve > pol.total)
  BY DEF Doomed
<1>6. Newer(q) \subseteq pages
  OBVIOUS
<1>7. pol.total \in Nat
  BY Bounds
<1> HIDE DEF Newer
<1>8. Bytes(Newer(p)) \in Nat /\ Bytes(Newer(q)) \in Nat /\ Bytes(Newer(p)) <= Bytes(Newer(q))
  BY <1>4, <1>6, Sums
<1> QED BY <1>5, <1>7, <1>8

\* Neither does a trim that stops halfway remove one.
LEMMA TrimRemoves ==
  ASSUME StoreInv, NEW pol \in Policies, NEW today, NEW reserve \in Nat, NEW closed,
         Trimmed(pol, today, reserve, closed) \/ TrimFails(pol, today, reserve, closed)
  PROVE  /\ \E gone \in SUBSET pages : \E shut : RemovePages(gone, shut) /\ Reasons(gone, pol, today)
         /\ TrimFails(pol, today, reserve, closed) => Fault
<1>1. Doomed(pol, today, reserve) \subseteq pages
  BY DEF Doomed
<1>2. ASSUME Trimmed(pol, today, reserve, closed)
      PROVE  \E gone \in SUBSET pages : \E shut : RemovePages(gone, shut) /\ Reasons(gone, pol, today)
  BY <1>1, <1>2, DoomedReasons DEF Trimmed
<1>3. ASSUME TrimFails(pol, today, reserve, closed)
      PROVE  \E gone \in SUBSET pages : \E shut : RemovePages(gone, shut) /\ Reasons(gone, pol, today)
  <2> DEFINE doomed == Doomed(pol, today, reserve)
             Older(p) == {q \in doomed : OlderFirst(q, p)}
  <2>1. PICK p \in doomed : RemovePages(Older(p), closed \cup {p.name})
    BY <1>3 DEF TrimFails
  <2>2. ASSUME NEW x \in Older(p), NEW y \in pages \ Older(p), ~Due(x, pol, today)
        PROVE  x.created <= y.created
    <3>1. CASE y \notin doomed
      BY <2>2, <3>1, DoomedReasons DEF Reasons
    <3>2. CASE y \in doomed
      <4>1. x \in PageRecords /\ y \in PageRecords /\ p \in PageRecords
        BY <1>1, <2>1, <2>2 DEF StoreInv, StoreTyped
      <4>2. ~OlderFirst(y, p) /\ OlderFirst(x, p)
        BY <2>2, <3>2
      <4>3. x.created \in Nat /\ y.created \in Nat /\ p.created \in Nat
        BY <4>1, Bounds DEF PageRecords
      <4> QED BY <4>1, <4>2, <4>3, OrderStrict
    <3> QED BY <3>1, <3>2
  <2>3. Older(p) \in SUBSET pages
    BY <1>1
  <2> QED BY <2>1, <2>2, <2>3 DEF Reasons
<1>4. TrimFails(pol, today, reserve, closed) => Fault
  BY DEF TrimFails
<1> QED BY <1>2, <1>3, <1>4

-----------------------------------------------------------------------------
(* What a step does to the store. Each keeps it, and each that takes more of  *)
(* the disk is within the budget.                                             *)

\* What BudgetKept says of one step, and OldestFirst of the times that trim compares,
BudgetStep ==
    /\ Bytes(OnDisk') > Bytes(OnDisk) => Bytes(OnDisk') <= policy'.total
    /\ \A p \in pages' : p.size <= policy'.file \/ \E q \in pages : q.name = p.name /\ q.size = p.size

OldestStep == \A p \in GivenUp, q \in pages \cap pages' : p.created <= q.created

Today == IF writer.pc \in {"idle", "start"} THEN day ELSE writer.day

\* and all that a step has to keep of the store.
Keeping == StoreInv' /\ BudgetStep /\ OldestStep

\* Nothing comes to the directory when pages go.
LEMMA LessOnDisk ==
  ASSUME StoreInv, pages' \subseteq pages, disk' \subseteq disk
  PROVE  BudgetStep
<1>1. OnDisk' \subseteq OnDisk /\ OnDisk \subseteq pages
  BY DEF OnDisk
<1>2. Bytes(OnDisk') <= Bytes(OnDisk) /\ Bytes(OnDisk) \in Nat /\ Bytes(OnDisk') \in Nat
  <2> DEFINE later == OnDisk'
  <2>1. later \subseteq OnDisk
    BY <1>1
  <2> HIDE DEF later
  <2>2. Bytes(later) <= Bytes(OnDisk) /\ Bytes(OnDisk) \in Nat /\ Bytes(later) \in Nat
    BY <1>1, <2>1, Sums
  <2> QED BY <2>2 DEF later
<1> QED BY <1>2 DEF BudgetStep

\* Nothing happens to the store,
LEMMA StaysKeeping ==
  ASSUME StoreInv, UNCHANGED store PROVE Keeping
<1>1. StoreInv'
  BY StoreStays
<1>2. BudgetStep
  BY LessOnDisk DEF store
<1> QED BY <1>1, <1>2 DEF Keeping, OldestStep, GivenUp, store

\* Pages are removed for a reason,
LEMMA RemovesKeeping ==
  ASSUME StoreInv, NEW gone \in SUBSET pages, NEW shut, RemovePages(gone, shut),
         Reasons(gone, policy', Today) \/ \A p \in gone : p.name \notin disk
  PROVE  Keeping
<1>1. StoreInv' /\ pages' = pages \ gone /\ disk' \subseteq disk
  BY RemovedStore
<1>2. BudgetStep
  BY <1>1, LessOnDisk
<1>3. OldestStep
  BY <1>1 DEF OldestStep, GivenUp, Reasons, Today
<1> QED BY <1>1, <1>2, <1>3 DEF Keeping

\* one is created, within the budget and with a name of its own,
LEMMA CreateKeeping ==
  ASSUME LogInv, Create PROVE Keeping
<1> DEFINE name == [id |-> writer.id, day |-> writer.day, seq |-> Min(FreeNumbers)]
           page == [name |-> name, size |-> Header[writer.id], created |-> writer.now,
                    written |-> writer.now, made |-> writer.now]
<1>1. writer \in Writing /\ At("create") /\ StoreInv /\ policy \in Policies /\ policy' = policy
  BY WriterTyped DEF LogInv, ClockInv, Create, At, External
<1>2. /\ pages' = pages \cup {page} /\ current' = [current EXCEPT ![writer.id] = name]
      /\ open' = open \cup {name} /\ disk' = disk \cup {name} /\ total' = total + Header[writer.id]
  BY DEF Create
<1>3. Min(FreeNumbers) \in FreeNumbers
  <2>1. FreeNumbers \subseteq Nat /\ FreeNumbers # {}
    BY Bounds DEF FreeNumbers, Create
  <2>2. \E n \in FreeNumbers : \A m \in FreeNumbers : n <= m
    BY <2>1, LeastNumber
  <2> QED BY <2>2 DEF Min
<1>4. writer.id \in Ids /\ name \in Names /\ name.id = writer.id /\ \A p \in pages : p.name # name
  BY <1>1, <1>3 DEF FreeNumbers, Names, Writing
<1> HIDE DEF name
<1>5. page \in PageRecords /\ page.size = Header[writer.id] /\ page.name = name
      /\ Header[writer.id] \in Nat
  BY <1>1, <1>4, Bounds DEF PageRecords, Writing
<1> HIDE DEF page
<1>6. page \notin pages
  BY <1>4, <1>5
<1>7. IsFiniteSet(pages') /\ total' = Bytes(pages')
  <2>1. IsFiniteSet(pages) /\ total = Bytes(pages)
    BY <1>1 DEF StoreInv, StoreTyped
  <2>2. IsFiniteSet(pages \cup {page}) /\ Bytes(pages \cup {page}) = Bytes(pages) + page.size
    BY <1>1, <1>5, <1>6, <2>1, Sums, BytesWith
  <2> QED BY <1>2, <1>5, <2>1, <2>2
<1>8. StoreTyped'
  BY <1>1, <1>2, <1>4, <1>5, <1>7 DEF StoreInv, StoreTyped
<1>9. OneName' /\ (disk \subseteq NamesOf(pages))'
  BY <1>1, <1>2, <1>4, <1>5 DEF StoreInv, OneName, NamesOf
<1>10. HandlesCurrent'
  <2>1. ASSUME NEW i \in Ids, current'[i] # None
        PROVE  current'[i] \in NamesOf(pages') /\ current'[i].id = i
    <3>1. CASE i = writer.id
      BY <1>1, <1>2, <1>4, <1>5, <3>1 DEF StoreInv, StoreTyped, NamesOf
    <3>2. CASE i # writer.id
      BY <1>1, <1>2, <2>1, <3>2 DEF StoreInv, StoreTyped, HandlesCurrent, NamesOf
    <3> QED BY <3>1, <3>2
  <2>2. ASSUME NEW n \in open' PROVE current'[n.id] = n
    <3>1. CASE n = name
      BY <1>1, <1>2, <1>4, <3>1 DEF StoreInv, StoreTyped
    <3>2. CASE n # name
      <4>1. n \in open /\ n.id \in Ids /\ n.id # writer.id
        BY <1>1, <1>2, <2>2, <3>2 DEF StoreInv, StoreTyped, Names, LogInv, WriteInv
      <4> QED BY <1>1, <1>2, <4>1 DEF StoreInv, StoreTyped, HandlesCurrent
    <3> QED BY <3>1, <3>2
  <2> QED BY <2>1, <2>2 DEF HandlesCurrent
<1>11. StoreInv'
  BY <1>7, <1>8, <1>9, <1>10 DEF StoreInv
<1>12. Bytes(OnDisk') <= policy'.total
  <2>1. total' <= policy'.total
    BY <1>1, <1>2 DEF LogInv, WriteInv
  <2> DEFINE later == OnDisk'
             all == pages'
  <2>2. later \subseteq all
    BY DEF OnDisk
  <2>3. IsFiniteSet(all) /\ \A p \in all : p.size \in Nat
    BY <1>7, <1>8 DEF StoreTyped, PageRecords
  <2> HIDE DEF later, all
  <2>4. Bytes(later) <= Bytes(all) /\ Bytes(all) \in Nat /\ Bytes(later) \in Nat
    BY <2>2, <2>3, BytesParts, BytesNat, FS_Subset
  <2>5. Bytes(later) <= policy'.total
    BY <1>1, <1>7, <2>1, <2>4, Bounds DEF all
  <2> QED BY <2>5 DEF later
<1>13. BudgetStep
  <2>1. page.size <= policy'.file
    BY <1>1, <1>5, Bounds DEF LogInv, WriteInv
  <2> QED BY <1>2, <1>12, <2>1 DEF BudgetStep
<1>14. OldestStep
  BY <1>2 DEF OldestStep, GivenUp
<1> QED BY <1>11, <1>13, <1>14 DEF Keeping

\* A page behind n more bytes.
Grown(p, n, w) == [p EXCEPT !.size = @ + n, !.written = w]

\* It is a page of the same name, and larger.
LEMMA PageGrown ==
  ASSUME NEW p \in PageRecords, NEW n, p.size + n \in Nat, NEW w \in 1..MaxCalls
  PROVE  /\ Grown(p, n, w) \in PageRecords
         /\ Grown(p, n, w).name = p.name /\ Grown(p, n, w).size = p.size + n
  BY DEF PageRecords, Grown

\* some bytes of a line are written,
LEMMA WrittenKeeping ==
  ASSUME LogInv, writer \in Writing, MayAppend, NEW n \in 0..Chunk, Written(n), policy' = policy
  PROVE  Keeping
<1> DEFINE grown == Grown(OwnPage, n, writer.now)
           rest  == pages \ {OwnPage}
<1>1. StoreInv /\ ClockInv /\ policy \in Policies
  BY DEF LogInv, ClockInv
<1>2. Own # None /\ OwnPage.size < policy.file /\ total + Chunk <= policy.total
  BY DEF LogInv, WriteInv, MayAppend, Ready, HasRoom, Fits
<1>3. /\ Own \in NamesOf(pages) /\ OwnPage \in pages /\ OwnPage.name = Own
      /\ \A p \in pages : p.name = Own => p = OwnPage
      /\ Chunk \in Nat /\ OwnPage.size + Chunk <= policy.file
  BY <1>1, <1>2, ChunkFits DEF Writing
<1>4. /\ pages' = rest \cup {grown} /\ total' = total + n
      /\ current' = current /\ open' = open /\ disk' = disk
  BY DEF Written, Grown
<1>5. OwnPage \in PageRecords /\ n \in Nat /\ n <= Chunk /\ policy.file \in Nat /\ policy.total \in Nat
  BY <1>1, <1>3, Bounds DEF StoreInv, StoreTyped
<1> HIDE DEF OwnPage, Chunk, Own
<1>6. /\ grown \in PageRecords /\ grown.name = Own /\ grown.size = OwnPage.size + n
      /\ grown.size <= policy.file
  <2>1. OwnPage.size \in Nat /\ writer.now \in 1..MaxCalls
    BY <1>5 DEF PageRecords, Writing
  <2>2. OwnPage.size + n \in Nat /\ OwnPage.size + n <= policy.file
    BY <1>3, <1>5, <2>1
  <2> QED BY <1>3, <1>5, <2>1, <2>2, PageGrown
<1>7. \A p \in rest : p.name # Own
  BY <1>3
<1> HIDE DEF grown
<1>8. /\ IsFiniteSet(rest) /\ (\A p \in rest : p.size \in Nat) /\ Bytes(rest) \in Nat
      /\ Bytes(pages) = OwnPage.size + Bytes(rest) /\ OwnPage.size \in Nat /\ grown.size \in Nat
  <2>1. IsFiniteSet(pages) /\ (\A p \in pages : p.size \in Nat) /\ rest \in SUBSET pages
    BY <1>1, Sums
  <2>2. Bytes(pages) = OwnPage.size + Bytes(rest)
    BY <1>3, <2>1, BytesWithout
  <2>3. grown.size \in Nat
    BY <1>6 DEF PageRecords
  <2> QED BY <1>1, <1>3, <2>1, <2>2, <2>3, Sums
<1>9. IsFiniteSet(pages') /\ total' = Bytes(pages') /\ total' <= policy.total /\ total' \in Nat
  <2>1. grown \notin rest
    BY <1>6, <1>7
  <2>2. IsFiniteSet(rest \cup {grown}) /\ Bytes(rest \cup {grown}) = Bytes(rest) + grown.size
    <3> HIDE DEF rest
    <3> QED BY <1>8, <2>1, BytesWith
  <2>3. total = OwnPage.size + Bytes(rest)
    BY <1>1, <1>8 DEF StoreInv
  <2> DEFINE b == Bytes(rest)
             z == OwnPage.size
  <2>4. b \in Nat /\ z \in Nat /\ total = z + b /\ grown.size = z + n
    BY <1>6, <1>8, <2>3
  <2>5. \A x, y, w \in Nat : y + (x + w) = (x + y) + w
    OBVIOUS
  <2>6. b + grown.size = total + n
    <3> HIDE DEF b, z
    <3> QED BY <1>5, <2>4, <2>5
  <2>7. total + n <= policy.total /\ total + n \in Nat
    <3> HIDE DEF b, z
    <3> QED BY <1>2, <1>3, <1>5, <2>4
  <2> QED BY <1>4, <2>2, <2>6, <2>7
<1>10. StoreTyped'
  BY <1>1, <1>4, <1>6, <1>9 DEF StoreInv, StoreTyped
<1>11. NamesOf(pages') = NamesOf(pages)
  BY <1>3, <1>4, <1>6, <1>7 DEF NamesOf
<1>12. OneName' /\ (disk \subseteq NamesOf(pages))'
  BY <1>1, <1>4, <1>6, <1>7, <1>11 DEF StoreInv, OneName
<1>13. HandlesCurrent'
  BY <1>1, <1>4, <1>11 DEF StoreInv, HandlesCurrent
<1>14. StoreInv'
  BY <1>9, <1>10, <1>12, <1>13 DEF StoreInv
<1>15. Bytes(OnDisk') <= policy'.total
  <2> DEFINE later == OnDisk'
             all == pages'
  <2>1. later \subseteq all
    BY DEF OnDisk
  <2>2. IsFiniteSet(all) /\ \A p \in all : p.size \in Nat
    BY <1>9, <1>10 DEF StoreTyped, PageRecords
  <2>3. Bytes(all) <= policy'.total /\ policy'.total \in Nat
    BY <1>5, <1>9
  <2> HIDE DEF later, all
  <2>4. Bytes(later) <= Bytes(all) /\ Bytes(all) \in Nat /\ Bytes(later) \in Nat
    BY <2>1, <2>2, BytesParts, BytesNat, FS_Subset
  <2>5. Bytes(later) <= policy'.total
    BY <2>3, <2>4
  <2> QED BY <2>5 DEF later
<1>16. BudgetStep
  BY <1>4, <1>6, <1>15 DEF BudgetStep
<1>17. OldestStep
  BY <1>3, <1>4, <1>6 DEF OldestStep, GivenUp, NamesOf
<1> QED BY <1>14, <1>16, <1>17 DEF Keeping

\* a file is lost,
LEMMA FileLostKeeping ==
  ASSUME StoreInv, FileLost PROVE Keeping
<1>1. /\ pages' = pages /\ current' = current /\ open' = open /\ total' = total
      /\ disk' \subseteq disk
  BY DEF FileLost
<1>2. StoreInv'
  BY <1>1 DEF StoreInv, StoreTyped, OneName, HandlesCurrent
<1>3. BudgetStep
  BY <1>1, LessOnDisk
<1> QED BY <1>1, <1>2, <1>3 DEF Keeping, OldestStep, GivenUp

\* a page is opened again or given up,
LEMMA ReopenKeeping ==
  ASSUME StoreInv, ClockInv, Reopen PROVE Keeping
<1>1. /\ writer \in Writing /\ Own # None /\ OwnPage.size < policy.file
      /\ IF Own \in disk
         THEN open' = open \cup {Own} /\ UNCHANGED <<pages, current, total, disk>>
         ELSE RemovePages({OwnPage}, {})
  BY WriterTyped DEF Reopen, HasRoom, At
<1>2. Own \in NamesOf(pages) /\ Own.id = writer.id /\ OwnPage \in pages /\ OwnPage.name = Own
  BY <1>1, ChunkFits
<1>3. CASE Own \in disk
  <2>1. open' = open \cup {Own} /\ UNCHANGED <<pages, current, total, disk>>
    BY <1>1, <1>3
  <2>2. StoreTyped'
    BY <1>3, <2>1 DEF StoreInv, StoreTyped
  <2>3. HandlesCurrent'
    BY <1>2, <2>1 DEF StoreInv, HandlesCurrent, Own
  <2>4. StoreInv'
    BY <2>1, <2>2, <2>3 DEF StoreInv, OneName
  <2>5. BudgetStep
    BY <2>1, LessOnDisk
  <2> QED BY <2>1, <2>4, <2>5 DEF Keeping, OldestStep, GivenUp
<1>4. CASE Own \notin disk
  <2>1. RemovePages({OwnPage}, {}) /\ {OwnPage} \in SUBSET pages
    BY <1>1, <1>2, <1>4
  <2> QED BY <1>2, <1>4, <2>1, RemovesKeeping
<1> QED BY <1>3, <1>4

\* and the directory is scanned.
LEMMA RestartKeeping ==
  ASSUME StoreInv, Restart PROVE Keeping
<1>1. /\ pages' = Scanned(OnDisk) /\ total' = Bytes(pages') /\ disk' = disk
      /\ current' = [i \in Ids |-> None] /\ open' = {}
  BY DEF Restart, Scanned, OnDisk
<1>2. /\ IsFiniteSet(OnDisk) /\ (\A p \in OnDisk : p.size \in Nat) /\ OnDisk \subseteq PageRecords
      /\ \A p, q \in OnDisk : p.name = q.name => p = q
  <2>1. OnDisk \subseteq pages
    BY DEF OnDisk
  <2> QED BY <2>1, Sums DEF StoreInv, StoreTyped, OneName
<1>3. IsFiniteSet(Scanned(OnDisk)) /\ Bytes(Scanned(OnDisk)) = Bytes(OnDisk)
  <2> DEFINE found == OnDisk
  <2>1. /\ IsFiniteSet(found) /\ (\A p \in found : p.size \in Nat)
        /\ found \subseteq [name : Names, size : Nat, created : 1..MaxCalls, written : 1..MaxCalls,
                           made : 1..MaxCalls]
        /\ \A p, q \in found : p.name = q.name => p = q
    BY <1>2 DEF PageRecords
  <2> HIDE DEF found
  <2>2. IsFiniteSet(Scanned(found)) /\ Bytes(Scanned(found)) = Bytes(found)
    BY <2>1, BytesScanned
  <2> QED BY <2>2 DEF found
<1>4. \A p \in Scanned(OnDisk) : /\ p \in PageRecords /\ p.name \in disk
                                 /\ \E q \in OnDisk : /\ p = [q EXCEPT !.created = q.written]
                                                      /\ p.name = q.name /\ p.size = q.size
  <2>1. ASSUME NEW q \in PageRecords
        PROVE  /\ [q EXCEPT !.created = q.written] \in PageRecords
               /\ [q EXCEPT !.created = q.written].name = q.name
               /\ [q EXCEPT !.created = q.written].size = q.size
    BY DEF PageRecords
  <2>2. \A q \in OnDisk : q.name \in disk /\ q \in PageRecords
    BY <1>2 DEF OnDisk
  <2> SUFFICES ASSUME NEW p \in Scanned(OnDisk)
               PROVE  /\ p \in PageRecords /\ p.name \in disk
                      /\ \E q \in OnDisk : /\ p = [q EXCEPT !.created = q.written]
                                           /\ p.name = q.name /\ p.size = q.size
    OBVIOUS
  <2>3. PICK q \in OnDisk : p = [q EXCEPT !.created = q.written]
    BY DEF Scanned
  <2>4. p \in PageRecords /\ p.name = q.name /\ p.size = q.size
    BY <2>1, <2>2, <2>3
  <2> QED BY <2>2, <2>3, <2>4
<1>5. \A q \in OnDisk : \E p \in Scanned(OnDisk) : p.name = q.name
  <2> SUFFICES ASSUME NEW q \in OnDisk PROVE \E p \in Scanned(OnDisk) : p.name = q.name
    OBVIOUS
  <2>1. [q EXCEPT !.created = q.written] \in Scanned(OnDisk)
    BY DEF Scanned
  <2>2. [q EXCEPT !.created = q.written].name = q.name
    BY <1>2 DEF PageRecords
  <2> QED BY <2>1, <2>2
<1>6. StoreTyped'
  BY <1>1, <1>3, <1>4 DEF StoreInv, StoreTyped
<1>7. OneName'
  BY <1>1, <1>2, <1>4 DEF OneName
<1>8. disk \subseteq NamesOf(pages')
  <2>1. \A m \in disk : \E q \in OnDisk : q.name = m
    BY DEF StoreInv, NamesOf, OnDisk
  <2> QED BY <1>1, <1>5, <2>1 DEF NamesOf
<1>9. HandlesCurrent'
  BY <1>1 DEF HandlesCurrent
<1>10. StoreInv'
  BY <1>1, <1>6, <1>7, <1>8, <1>9 DEF StoreInv
<1>11. Bytes(OnDisk') = Bytes(OnDisk) /\ Bytes(OnDisk) \in Nat
  <2>1. OnDisk' = Scanned(OnDisk)
    BY <1>1, <1>4 DEF OnDisk
  <2>2. Bytes(OnDisk) \in Nat
    BY <1>2, BytesNat
  <2> QED BY <1>3, <2>1, <2>2
<1>12. BudgetStep
  BY <1>1, <1>4, <1>11 DEF BudgetStep, OnDisk
<1>13. OldestStep
  BY <1>1, <1>8 DEF OldestStep, GivenUp
<1> QED BY <1>10, <1>12, <1>13 DEF Keeping

-----------------------------------------------------------------------------
(* The actions.                                                             *)

\* What every step has to show.
StepKeeps == Keeping /\ ClockInv' /\ WriteInv'

\* A trim, complete or not, of the policy in force, keeps the store.
LEMMA TrimKeeping ==
  ASSUME StoreInv, policy' \in Policies, NEW reserve \in Nat, NEW closed,
         \/ Trimmed(policy', Today, reserve, closed)
         \/ TrimFails(policy', Today, reserve, closed)
  PROVE  Keeping /\ (TrimFails(policy', Today, reserve, closed) => Fault)
<1> DEFINE pol == policy'
<1>1. pol \in Policies /\ (Trimmed(pol, Today, reserve, closed) \/ TrimFails(pol, Today, reserve, closed))
  OBVIOUS
<1> HIDE DEF pol
<1>2. PICK gone \in SUBSET pages : \E shut : RemovePages(gone, shut) /\ Reasons(gone, pol, Today)
  BY <1>1, TrimRemoves
<1>3. TrimFails(pol, Today, reserve, closed) => Fault
  BY <1>1, TrimRemoves
<1>4. PICK shut : RemovePages(gone, shut) /\ Reasons(gone, pol, Today)
  BY <1>2
<1>5. Keeping
  BY <1>4, RemovesKeeping DEF pol
<1> QED BY <1>3, <1>5 DEF pol

\* The bytes there was to make room for fit behind a complete trim.
LEMMA TrimmedRoom ==
  ASSUME StoreInv, policy \in Policies, NEW today, NEW reserve \in Nat, reserve <= policy.total,
         NEW closed, Trimmed(policy, today, reserve, closed)
  PROVE  /\ StoreInv' /\ total' + reserve <= policy.total
         /\ open' \subseteq open \ closed /\ pages' \subseteq pages
<1> DEFINE gone == Doomed(policy, today, reserve)
<1>1. gone \subseteq pages
  BY DEF Doomed
<1>2. Bytes(pages \ gone) + reserve <= policy.total
  BY TrimmedFits
<1>3. RemovePages(gone, closed)
  BY DEF Trimmed
<1> HIDE DEF gone
<1>4. /\ StoreInv' /\ pages' = pages \ gone /\ open' \subseteq open \ closed
      /\ total' = Bytes(pages \ gone)
  BY <1>1, <1>3, RemovedStore
<1> QED BY <1>2, <1>4

\* The clock, for the steps that do not touch it.
LEMMA ClockStays ==
  ASSUME ClockInv, UNCHANGED External, Fault \/ UNCHANGED faults,
         writer' \in {Idle, [pc |-> "start"]} \cup Writing
  PROVE  ClockInv'
<1>1. faults' \in 0..MaxFaults
  BY FaultTyped
<1> QED BY <1>1 DEF ClockInv, External

\* Outside the two turns that were made room for there is nothing to hold.
LEMMA NoRoomNeeded ==
  ASSUME writer'.pc \notin {"create", "append"} PROVE WriteInv'
  BY DEF WriteInv, At

\* Nor is there for a step that leaves what they hold.
LEMMA WriteStays ==
  ASSUME WriteInv, UNCHANGED <<pages, current, open, total, policy, writer>> PROVE WriteInv'
  BY DEF WriteInv, At, Own, OwnPage, PageOf, Chunk

\* A write that has ended is in none of them.
LEMMA IdleTyped ==
  ASSUME writer' = Idle
  PROVE  /\ writer' \in {Idle, [pc |-> "start"]} \cup Writing
         /\ writer'.pc \notin {"create", "append"}
  BY DEF Idle

\* A call takes the mutex.
LEMMA BeginKeeps ==
  ASSUME LogInv, NEW i \in Ids, NEW n \in Lines, Begin(i, n) PROVE StepKeeps
<1>1. Keeping
  BY StaysKeeping DEF LogInv, Begin
<1>2. /\ writer' = [pc |-> "page", id |-> i, left |-> n, now |-> calls', day |-> day]
      /\ calls' = calls + 1 /\ calls < MaxCalls /\ UNCHANGED <<policy, day, faults, restarts>>
  BY DEF Begin
<1>3. calls' \in 1..MaxCalls /\ calls' \in 0..MaxCalls /\ n \in Nat \ {0} /\ day \in 0..MaxDay
  BY <1>2, Bounds, LogAssumption DEF LogInv, ClockInv
<1>4. writer' \in Writing /\ writer'.pc = "page"
  BY <1>2, <1>3 DEF Writing
<1>5. ClockInv'
  BY <1>2, <1>3, <1>4 DEF LogInv, ClockInv
<1> QED BY <1>1, <1>4, <1>5, NoRoomNeeded DEF StepKeeps

\* The old page is closed, and room made for the next: its instance has no handle then.
LEMMA RollKeeps ==
  ASSUME LogInv, Roll PROVE StepKeeps
<1>1. /\ StoreInv /\ ClockInv /\ writer \in Writing /\ policy \in Policies /\ policy' = policy
      /\ Today = writer.day /\ Header[writer.id] \in Nat /\ Header[writer.id] <= policy.total
      /\ Header[writer.id] < policy.file
  <2>1. writer \in Writing /\ policy \in Policies
    BY WriterTyped DEF LogInv, ClockInv, Roll, At
  <2>2. writer.id \in Ids
    BY <2>1 DEF Writing
  <2>3. Header[writer.id] \in Nat /\ policy.file \in Nat /\ policy.total \in Nat
        /\ policy.total >= policy.file /\ Header[writer.id] < policy.file
    BY <2>1, <2>2, Bounds DEF Roll
  <2>4. Today = writer.day
    BY DEF Roll, At, Today
  <2> QED BY <2>1, <2>3, <2>4 DEF LogInv, Roll, External
<1>2. CASE TrimFails(policy, writer.day, Header[writer.id], OwnOpen) /\ writer' = Idle
  <2>1. Keeping /\ Fault
    BY <1>1, <1>2, TrimKeeping
  <2> QED BY <1>1, <1>2, <2>1, IdleTyped, ClockStays, NoRoomNeeded DEF StepKeeps, Roll
<1>3. CASE Trimmed(policy, writer.day, Header[writer.id], OwnOpen) /\ Goto("create") /\ UNCHANGED faults
  <2>1. Keeping
    BY <1>1, <1>3, TrimKeeping
  <2>2. /\ total' + Header[writer.id] <= policy.total /\ open' \subseteq open \ OwnOpen
    BY <1>1, <1>3, TrimmedRoom
  <2>3. writer' = [writer EXCEPT !.pc = "create"]
    BY <1>3 DEF Goto
  <2>4. writer' \in Writing /\ writer'.pc = "create" /\ writer'.id = writer.id
    BY <1>1, <2>3, WriterWith
  <2>5. ClockInv'
    BY <1>1, <1>3, <2>4, ClockStays DEF Roll
  <2>6. \A n \in open' : n.id # writer.id
    <3> SUFFICES ASSUME NEW n \in open', n.id = writer.id PROVE FALSE
      OBVIOUS
    <3>1. n \in open /\ n \notin OwnOpen
      BY <2>2
    <3>2. Own = n
      BY <1>1, <3>1 DEF StoreInv, HandlesCurrent, Own
    <3> QED BY <3>1, <3>2 DEF OwnOpen
  <2>7. WriteInv'
    BY <1>1, <2>2, <2>4, <2>6 DEF WriteInv, At
  <2> QED BY <2>1, <2>5, <2>7 DEF StepKeeps
<1> QED BY <1>2, <1>3 DEF Roll

\* A frontmatter that would fill the page is refused.
LEMMA RollRefusedKeeps ==
  ASSUME LogInv, RollRefused PROVE StepKeeps
<1>1. StoreInv /\ ClockInv /\ RemovePages({}, OwnOpen) /\ {} \in SUBSET pages
  BY DEF LogInv, RollRefused
<1>2. Keeping
  BY <1>1, RemovesKeeping
<1>3. writer' = Idle /\ UNCHANGED <<External, faults>>
  BY DEF RollRefused
<1> QED BY <1>1, <1>2, <1>3, IdleTyped, ClockStays, NoRoomNeeded DEF StepKeeps

\* The page is created in that room.
LEMMA CreateKeeps ==
  ASSUME LogInv, Create PROVE StepKeeps
<1>1. Keeping
  BY CreateKeeping
<1>2. writer' = [writer EXCEPT !.pc = "page"] /\ UNCHANGED <<External, faults>> /\ writer \in Writing
  BY WriterTyped DEF Create, Goto, At, LogInv
<1>3. writer' \in Writing /\ writer'.pc = "page"
  BY <1>2, WriterWith
<1> QED BY <1>1, <1>2, <1>3, ClockStays, NoRoomNeeded DEF StepKeeps, LogInv

\* A write that fails before it has touched the store.
LEMMA GivesUpKeeps ==
  ASSUME LogInv, CreateFails \/ ReopenFails PROVE StepKeeps
<1>1. UNCHANGED <<store, External>> /\ writer' = Idle /\ (Fault \/ UNCHANGED faults)
  BY DEF CreateFails, ReopenFails
<1>2. Keeping
  BY <1>1, StaysKeeping DEF LogInv
<1> QED BY <1>1, <1>2, IdleTyped, ClockStays, NoRoomNeeded DEF StepKeeps, LogInv

\* A handle is opened again, or its page given up.
LEMMA ReopenKeeps ==
  ASSUME LogInv, Reopen PROVE StepKeeps
<1>1. Keeping
  BY ReopenKeeping DEF LogInv
<1>2. UNCHANGED <<External, writer, faults>> /\ writer.pc = "page"
  BY DEF Reopen, At
<1>3. writer' \in {Idle, [pc |-> "start"]} \cup Writing
  BY <1>2 DEF LogInv, ClockInv
<1> QED BY <1>1, <1>2, <1>3, ClockStays, NoRoomNeeded DEF StepKeeps, LogInv

\* Room is made for the next bytes: the page they go to, if it stays, is the same.
LEMMA MakeRoomKeeps ==
  ASSUME LogInv, MakeRoom PROVE StepKeeps
<1>1. /\ StoreInv /\ ClockInv /\ writer \in Writing /\ policy \in Policies /\ policy' = policy
      /\ Today = writer.day /\ Own # None /\ OwnPage.size < policy.file
  BY WriterTyped DEF LogInv, ClockInv, MakeRoom, Ready, HasRoom, At, External, Today
<1>2. /\ Own.id = writer.id /\ (\A p \in pages : p.name = Own => p = OwnPage)
      /\ Chunk \in Nat /\ Chunk <= policy.total
  BY <1>1, ChunkFits DEF Writing
<1>3. CASE TrimFails(policy, writer.day, Chunk, {}) /\ writer' = Idle
  <2>1. Keeping /\ Fault
    BY <1>1, <1>2, <1>3, TrimKeeping
  <2> QED BY <1>1, <1>3, <2>1, IdleTyped, ClockStays, NoRoomNeeded DEF StepKeeps, MakeRoom
<1>4. CASE /\ Trimmed(policy, writer.day, Chunk, {}) /\ UNCHANGED faults
           /\ Goto(IF current'[writer.id] = Own THEN "append" ELSE "page")
  <2>1. Keeping
    BY <1>1, <1>2, <1>4, TrimKeeping
  <2>2. StoreInv' /\ total' + Chunk <= policy.total /\ pages' \subseteq pages
    BY <1>1, <1>2, <1>4, TrimmedRoom
  <2>3. CASE current'[writer.id] # Own
    <3>1. writer' = [writer EXCEPT !.pc = "page"]
      BY <1>4, <2>3 DEF Goto
    <3>2. writer' \in Writing /\ writer'.pc = "page"
      BY <1>1, <3>1, WriterWith
    <3> QED BY <1>1, <1>4, <2>1, <3>2, ClockStays, NoRoomNeeded DEF StepKeeps, MakeRoom
  <2>4. CASE current'[writer.id] = Own
    <3>1. writer' = [writer EXCEPT !.pc = "append"]
      BY <1>4, <2>4 DEF Goto
    <3>2. /\ writer' \in Writing /\ writer'.pc = "append" /\ writer'.id = writer.id
          /\ writer'.left = writer.left
      BY <1>1, <3>1, WriterWith
    <3>3. ClockInv'
      BY <1>1, <1>4, <3>2, ClockStays DEF MakeRoom
    <3>4. Own' = Own
      BY <2>4, <3>2 DEF Own
    <3>5. \E p \in pages' : p.name = Own
      <4>1. writer.id \in Ids
        BY <1>1 DEF Writing
      <4>2. current'[writer.id] \in NamesOf(pages')
        BY <1>1, <2>2, <2>4, <4>1 DEF StoreInv, HandlesCurrent
      <4> QED BY <2>4, <4>2 DEF NamesOf
    <3>6. OwnPage' = OwnPage
      <4>1. OwnPage' = CHOOSE p \in pages' : p.name = Own
        BY <3>4 DEF OwnPage, PageOf
      <4> HIDE DEF OwnPage
      <4>2. OwnPage' \in pages' /\ OwnPage'.name = Own
        BY <3>5, <4>1
      <4> QED BY <1>2, <2>2, <4>2
    <3>7. Chunk' = Chunk
      BY <1>1, <3>2, <3>6 DEF Chunk
    <3>8. WriteInv'
      BY <1>1, <2>2, <3>2, <3>4, <3>6, <3>7 DEF WriteInv, At
    <3> QED BY <2>1, <3>3, <3>8 DEF StepKeeps
  <2> QED BY <2>3, <2>4
<1> QED BY <1>3, <1>4 DEF MakeRoom

\* The bytes are written, and fewer are left.
LEMMA AppendBytesKeeps ==
  ASSUME LogInv, AppendBytes PROVE StepKeeps
<1>1. /\ StoreInv /\ ClockInv /\ writer \in Writing /\ policy' = policy
      /\ Own # None /\ OwnPage.size < policy.file
  BY WriterTyped DEF LogInv, WriteInv, AppendBytes, MayAppend, Ready, HasRoom, At, External
<1>2. Chunk \in 1..writer.left /\ writer.left \in Nat
  BY <1>1, ChunkFits DEF Writing
<1>3. Chunk \in 0..Chunk /\ MayAppend /\ Written(Chunk)
  BY <1>2 DEF AppendBytes
<1>4. Keeping
  BY <1>1, <1>3, WrittenKeeping
<1>5. CASE writer' = Idle
  BY <1>1, <1>4, <1>5, IdleTyped, ClockStays, NoRoomNeeded DEF StepKeeps, AppendBytes
<1>6. CASE Chunk # writer.left /\ writer' = [writer EXCEPT !.pc = "page", !.left = @ - Chunk]
  <2>1. writer.left - Chunk \in Nat \ {0}
    BY <1>2, <1>6
  <2>2. writer' \in Writing /\ writer'.pc = "page"
    BY <1>1, <1>6, <2>1 DEF Writing
  <2> QED BY <1>1, <1>4, <2>2, ClockStays, NoRoomNeeded DEF StepKeeps, AppendBytes
<1> QED BY <1>5, <1>6 DEF AppendBytes

\* Some of them are, and the line is dropped.
LEMMA AppendFailsKeeps ==
  ASSUME LogInv, AppendFails PROVE StepKeeps
<1>1. /\ StoreInv /\ ClockInv /\ writer \in Writing /\ policy' = policy
      /\ Own # None /\ OwnPage.size < policy.file
  BY WriterTyped DEF LogInv, WriteInv, AppendFails, MayAppend, Ready, HasRoom, At, External
<1>2. Chunk \in Nat
  BY <1>1, ChunkFits DEF Writing
<1>3. PICK n \in 0..(Chunk - 1) : Written(n)
  BY DEF AppendFails
<1>4. n \in 0..Chunk /\ MayAppend
  BY <1>2 DEF AppendFails
<1>5. Keeping
  BY <1>1, <1>3, <1>4, WrittenKeeping
<1>6. writer' = Idle /\ UNCHANGED External /\ Fault
  BY DEF AppendFails
<1> QED BY <1>1, <1>5, <1>6, IdleTyped, ClockStays, NoRoomNeeded DEF StepKeeps

\* The ticker trims.
LEMMA TrimKeeps ==
  ASSUME LogInv, Trim PROVE StepKeeps
<1>1. /\ StoreInv /\ ClockInv /\ writer = Idle /\ writer' = writer /\ UNCHANGED External
      /\ policy' = policy /\ policy' \in Policies /\ Today = day
  BY DEF LogInv, ClockInv, Trim, External, Today, Idle
<1>2. \/ Trimmed(policy', Today, 0, {}) /\ UNCHANGED faults
      \/ TrimFails(policy', Today, 0, {})
  BY <1>1 DEF Trim
<1>3. Keeping /\ (TrimFails(policy', Today, 0, {}) => Fault)
  BY <1>1, <1>2, TrimKeeping
<1> QED BY <1>1, <1>2, <1>3, IdleTyped, ClockStays, NoRoomNeeded DEF StepKeeps

\* A new policy is in force before the trim to it.
LEMMA ConfigureKeeps ==
  ASSUME LogInv, NEW p \in Policies, Configure(p) PROVE StepKeeps
<1>1. /\ StoreInv /\ ClockInv /\ writer = Idle /\ writer' = writer
      /\ UNCHANGED <<calls, day, restarts>> /\ policy' = p /\ Today = day
  BY DEF LogInv, Configure, Today, Idle
<1>2. \/ Trimmed(policy', Today, 0, {}) /\ UNCHANGED faults
      \/ TrimFails(policy', Today, 0, {})
  BY <1>1 DEF Configure
<1>3. Keeping /\ (TrimFails(policy', Today, 0, {}) => Fault)
  BY <1>1, <1>2, TrimKeeping
<1>4. faults' \in 0..MaxFaults
  BY <1>1, <1>2, <1>3, FaultTyped
<1>5. ClockInv'
  BY <1>1, <1>4 DEF ClockInv
<1> QED BY <1>1, <1>3, <1>5, IdleTyped, NoRoomNeeded DEF StepKeeps

\* Handles are closed.
LEMMA ReleaseKeeps ==
  ASSUME LogInv, Close \/ \E i \in Ids : Release(i) PROVE StepKeeps
<1>1. /\ StoreInv /\ ClockInv /\ writer = Idle /\ writer' = writer /\ UNCHANGED <<External, faults>>
      /\ {} \in SUBSET pages /\ \E shut : RemovePages({}, shut)
  BY DEF LogInv, Close, Release
<1>2. Keeping
  BY <1>1, RemovesKeeping
<1> QED BY <1>1, <1>2, IdleTyped, ClockStays, NoRoomNeeded DEF StepKeeps

\* The process ends, wherever a write was.
LEMMA RestartKeeps ==
  ASSUME LogInv, Restart PROVE StepKeeps
<1>1. Keeping
  BY RestartKeeping DEF LogInv
<1>2. /\ writer' = [pc |-> "start"] /\ UNCHANGED <<policy, calls, day, faults>>
      /\ restarts < MaxRestarts /\ restarts' = restarts + 1
  BY DEF Restart
<1>3. restarts' \in 0..MaxRestarts
  BY <1>2, Bounds DEF LogInv, ClockInv
<1>4. ClockInv' /\ writer'.pc = "start"
  BY <1>2, <1>3 DEF LogInv, ClockInv
<1> QED BY <1>1, <1>4, NoRoomNeeded DEF StepKeeps

\* The next one trims what it found.
LEMMA StartKeeps ==
  ASSUME LogInv, Start PROVE StepKeeps
<1>1. /\ StoreInv /\ ClockInv /\ writer.pc = "start" /\ UNCHANGED External
      /\ policy' = policy /\ policy' \in Policies /\ Today = day
  BY DEF LogInv, ClockInv, Start, At, External, Today
<1>2. \/ Trimmed(policy', Today, 0, {}) /\ UNCHANGED faults /\ writer' = Idle
      \/ TrimFails(policy', Today, 0, {}) /\ UNCHANGED writer
  BY <1>1 DEF Start
<1>3. Keeping /\ (TrimFails(policy', Today, 0, {}) => Fault)
  BY <1>1, <1>2, TrimKeeping
<1>4. /\ writer' \in {Idle, [pc |-> "start"]} \cup Writing
      /\ writer'.pc \notin {"create", "append"}
  BY <1>1, <1>2, IdleTyped DEF ClockInv
<1> QED BY <1>1, <1>2, <1>3, <1>4, ClockStays, NoRoomNeeded DEF StepKeeps

\* What happens to a write from outside leaves what it holds.
LEMMA OutsideKeeps ==
  ASSUME LogInv, FileLost \/ Midnight \/ UNCHANGED vars PROVE StepKeeps
<1>1. Keeping
  BY FileLostKeeping, StaysKeeping DEF LogInv, Midnight, vars
<1>2. WriteInv'
  BY WriteStays DEF LogInv, FileLost, Midnight, vars, External, store
<1>3. faults' \in 0..MaxFaults
  BY FaultTyped DEF LogInv, FileLost, Midnight, vars
<1>4. day' \in 0..MaxDay /\ UNCHANGED <<policy, writer, calls, restarts>>
  BY Bounds DEF LogInv, ClockInv, FileLost, Midnight, vars, External
<1>5. ClockInv'
  BY <1>3, <1>4 DEF LogInv, ClockInv
<1> QED BY <1>1, <1>2, <1>5 DEF StepKeeps

\* So every step keeps what it has to.
LEMMA LogStep ==
  ASSUME LogInv, [Next]_vars PROVE StepKeeps
<1>1. ASSUME WriteStep PROVE StepKeeps
  BY <1>1, RollKeeps, RollRefusedKeeps, CreateKeeps, GivesUpKeeps, ReopenKeeps, MakeRoomKeeps,
     AppendBytesKeeps, AppendFailsKeeps DEF WriteStep
<1> QED BY <1>1, BeginKeeps, TrimKeeps, ConfigureKeeps, ReleaseKeeps, RestartKeeps, StartKeeps,
           OutsideKeeps DEF Next

-----------------------------------------------------------------------------
(* The ages of pages. What trim compares is the call that made a page, or,   *)
(* of a page that a scan found, the last that wrote to it.                   *)
IsCurrent(p) == current[p.name.id] # None /\ current[p.name.id] = p.name

\* Of two pages of which one is made and written first, that one sorts first: what a
\* scan found is older than every call since, and only pages made since are written to.
AgeInv ==
    /\ \A p \in pages : p.made <= p.created /\ p.created <= p.written /\ p.written <= calls
    /\ \A p \in pages : IsCurrent(p) =>
          p.created = p.made /\ \A q \in pages : q.created = q.made \/ q.created < p.created
    /\ \A p, q \in pages : q.made < p.made /\ q.written < p.written => q.created < p.created
    /\ writer.pc \notin {"idle", "start"} =>
          writer.now = calls /\ \A p \in pages : p.created = p.made \/ p.created < calls

\* The times of pages are numbers.
LEMMA Times ==
  ASSUME LogInv
  PROVE  /\ calls \in Nat
         /\ \A p \in pages : p.made \in Nat /\ p.created \in Nat /\ p.written \in Nat
  BY Bounds DEF LogInv, StoreInv, StoreTyped, PageRecords, ClockInv

\* What the steps that write nothing do to it: pages go, or are nobody's current one.
Ageless ==
    /\ pages' \subseteq pages /\ calls' = calls
    /\ \A i \in Ids : current'[i] \in {current[i], None}
    /\ writer'.pc \notin {"idle", "start"} =>
          writer.pc \notin {"idle", "start"} /\ writer'.now = writer.now

\* They keep the ages.
LEMMA AgelessKeeps ==
  ASSUME LogInv, AgeInv, Ageless PROVE AgeInv'
<1>1. \A p \in pages' : p \in pages /\ p.name.id \in Ids
  BY DEF Ageless, LogInv, StoreInv, StoreTyped, PageRecords, Names
<1>2. \A p \in pages' : IsCurrent(p)' => IsCurrent(p)
  BY <1>1 DEF Ageless, IsCurrent
<1> QED BY <1>1, <1>2 DEF AgeInv, Ageless

\* What removing pages does to the current ones.
LEMMA RemovesAgeless ==
  ASSUME LogInv, NEW gone, NEW shut, RemovePages(gone, shut)
  PROVE  pages' \subseteq pages /\ \A i \in Ids : current'[i] \in {current[i], None}
  BY DEF RemovePages

\* A turn of a write leaves its time.
LEMMA TurnTime ==
  ASSUME ClockInv, writer.pc \notin {"idle", "start"}, NEW pc, Goto(pc)
  PROVE  writer'.now = writer.now
  BY WriterTyped DEF Writing, Goto

\* The steps that write nothing.
LEMMA AgelessStep ==
  ASSUME LogInv,
         \/ Roll \/ RollRefused \/ CreateFails \/ Reopen \/ ReopenFails \/ MakeRoom
         \/ Trim \/ Close \/ Start \/ FileLost \/ Midnight \/ UNCHANGED vars
         \/ \E p \in Policies : Configure(p)
         \/ \E i \in Ids : Release(i)
  PROVE  Ageless
<1> DEFINE Gone == \E gone, shut : RemovePages(gone, shut)
<1>1. Gone \/ UNCHANGED <<pages, current>>
  BY DEF Roll, RollRefused, CreateFails, Reopen, ReopenFails, MakeRoom, Trim, Close, Start, FileLost,
         Midnight, Configure, Release, Trimmed, TrimFails, External, store, vars
<1>2. pages' \subseteq pages /\ \A i \in Ids : current'[i] \in {current[i], None}
  BY <1>1, RemovesAgeless
<1>3. calls' = calls
  BY DEF Roll, RollRefused, CreateFails, Reopen, ReopenFails, MakeRoom, Trim, Close, Start, FileLost,
         Midnight, Configure, Release, External, vars
<1>4. \/ writer' = writer \/ writer' = Idle
      \/ writer.pc = "page" /\ \E pc : Goto(pc)
  BY DEF Roll, RollRefused, CreateFails, Reopen, ReopenFails, MakeRoom, Trim, Close, Start, FileLost,
         Midnight, Configure, Release, External, vars, At, Ready
<1>5. writer'.pc \notin {"idle", "start"} =>
          writer.pc \notin {"idle", "start"} /\ writer'.now = writer.now
  BY <1>4, TurnTime DEF LogInv, Idle
<1> QED BY <1>2, <1>3, <1>5 DEF Ageless

\* A call is later than every page.
LEMMA BeginAges ==
  ASSUME LogInv, AgeInv, NEW i \in Ids, NEW n \in Lines, Begin(i, n) PROVE AgeInv'
<1>1. /\ pages' = pages /\ current' = current /\ calls' = calls + 1
      /\ writer' = [pc |-> "page", id |-> i, left |-> n, now |-> calls', day |-> day]
  BY DEF Begin, store
<1>2. writer'.now = calls'
  BY <1>1
<1>3. \A p \in pages : p.created < calls'
  BY <1>1, Times DEF AgeInv
<1> QED BY <1>1, <1>2, <1>3, Times DEF AgeInv, IsCurrent

\* The page that a call makes is younger than all that were made and written before.
LEMMA CreateAges ==
  ASSUME LogInv, AgeInv, Create PROVE AgeInv'
<1> DEFINE name == [id |-> writer.id, day |-> writer.day, seq |-> Min(FreeNumbers)]
           page == [name |-> name, size |-> Header[writer.id], created |-> writer.now,
                    written |-> writer.now, made |-> writer.now]
<1>1. writer \in Writing /\ writer.pc = "create"
  BY WriterTyped DEF LogInv, Create, At
<1>2. /\ pages' = pages \cup {page} /\ current' = [current EXCEPT ![writer.id] = name]
      /\ calls' = calls /\ writer' = [writer EXCEPT !.pc = "page"]
  BY DEF Create, External, Goto
<1>3. writer'.now = writer.now /\ writer.now = calls /\ writer.id \in Ids
  BY <1>1, <1>2 DEF AgeInv, Writing
<1>4. /\ page.created = calls /\ page.written = calls /\ page.made = calls
      /\ page.name.id = writer.id /\ page.name = name
  BY <1>3
<1> HIDE DEF page
<1>5. \A p \in pages' : p \in pages \/ p = page
  BY <1>2
<1>6. \A p \in pages : p.created = p.made \/ p.created < calls
  BY <1>1 DEF AgeInv
<1>7. /\ calls \in Nat
      /\ \A p \in pages : /\ p.made \in Nat /\ p.created \in Nat /\ p.written \in Nat
                          /\ p.made <= p.created /\ p.created <= p.written /\ p.written <= calls
  BY Times DEF AgeInv
<1>8. \A p \in pages : IsCurrent(p)' => IsCurrent(p) \/ p.name = name
  <2>1. current \in [Ids -> Names \cup {None}] /\ \A p \in pages : p.name.id \in Ids
    BY DEF LogInv, StoreInv, StoreTyped, PageRecords, Names
  <2> QED BY <1>2, <1>3, <1>4, <2>1 DEF IsCurrent
<1>9. \A p \in pages : p.name # name
  <2>1. Min(FreeNumbers) \in FreeNumbers
    <3>1. FreeNumbers \subseteq Nat /\ FreeNumbers # {}
      BY Bounds DEF FreeNumbers, Create
    <3>2. \E n \in FreeNumbers : \A m \in FreeNumbers : n <= m
      BY <3>1, LeastNumber
    <3> QED BY <3>2 DEF Min
  <2> QED BY <2>1 DEF FreeNumbers
<1> HIDE DEF name
<1>10. \A p \in pages' : p.made <= p.created /\ p.created <= p.written /\ p.written <= calls
  BY <1>4, <1>5, <1>7
<1>11. \A p \in pages' : IsCurrent(p)' =>
          p.created = p.made /\ \A q \in pages' : q.created = q.made \/ q.created < p.created
  BY <1>4, <1>5, <1>6, <1>8, <1>9 DEF AgeInv
<1>12. \A p, q \in pages' : q.made < p.made /\ q.written < p.written => q.created < p.created
  <2> SUFFICES ASSUME NEW p \in pages', NEW q \in pages', q.made < p.made, q.written < p.written
               PROVE  q.created < p.created
    OBVIOUS
  <2>1. CASE p = page
    BY <1>4, <1>5, <1>7, <2>1
  <2>2. CASE q = page
    BY <1>4, <1>5, <1>7, <2>2
  <2>3. CASE p \in pages /\ q \in pages
    BY <2>3 DEF AgeInv
  <2> QED BY <1>5, <2>1, <2>2, <2>3
<1>13. \A p \in pages' : p.created = p.made \/ p.created < calls
  BY <1>4, <1>5, <1>6
<1> QED BY <1>2, <1>3, <1>10, <1>11, <1>12, <1>13 DEF AgeInv

\* The page that is written to was made in this process.
LEMMA WrittenAges ==
  ASSUME LogInv, AgeInv, AppendBytes \/ AppendFails PROVE AgeInv'
<1> DEFINE Grows(n) == Grown(OwnPage, n, writer.now)
<1>1. writer \in Writing /\ Own # None /\ OwnPage.size < policy.file /\ StoreInv /\ ClockInv
  BY WriterTyped DEF LogInv, WriteInv, AppendBytes, AppendFails, MayAppend, Ready, HasRoom, At
<1>2. /\ OwnPage \in pages /\ OwnPage.name = Own /\ Own.id = writer.id /\ Chunk \in Nat
      /\ writer.id \in Ids
  BY <1>1, ChunkFits DEF Writing
<1>3. PICK n \in 0..Chunk : Written(n)
  BY <1>2 DEF AppendBytes, AppendFails
<1>4. /\ pages' = (pages \ {OwnPage}) \cup {Grows(n)}
      /\ current' = current /\ calls' = calls
  BY <1>3 DEF Written, Grown, AppendBytes, AppendFails, External
<1>5. writer.now = calls /\ (writer'.pc \notin {"idle", "start"} => writer'.now = calls)
  <2>1. writer.now = calls
    BY <1>1 DEF AgeInv, Writing
  <2>2. writer' = Idle \/ \E m : writer' = [writer EXCEPT !.pc = "page", !.left = m]
    BY DEF AppendBytes, AppendFails
  <2>3. \A m : [writer EXCEPT !.pc = "page", !.left = m].now = writer.now
    BY <1>1 DEF Writing
  <2>4. CASE writer' = Idle
    BY <2>1, <2>4 DEF Idle
  <2>5. ASSUME NEW m, writer' = [writer EXCEPT !.pc = "page", !.left = m]
        PROVE  writer'.now = writer.now
    BY <2>3, <2>5
  <2> QED BY <2>1, <2>2, <2>4, <2>5
<1>6. IsCurrent(OwnPage)
  BY <1>1, <1>2 DEF IsCurrent, Own
<1>7. Grows(n) = [OwnPage EXCEPT !.size = @ + n, !.written = calls]
  BY <1>5 DEF Grown
<1>8. /\ Grows(n).name = OwnPage.name /\ Grows(n).created = OwnPage.created
      /\ Grows(n).made = OwnPage.made /\ Grows(n).written = calls
  <2>1. OwnPage \in PageRecords
    BY <1>1, <1>2 DEF StoreInv, StoreTyped
  <2> HIDE DEF Grows, OwnPage
  <2> QED BY <1>7, <2>1 DEF PageRecords
<1> DEFINE own  == OwnPage
           grown == Grows(n)
<1> HIDE DEF own, grown
<1>9. /\ own \in pages /\ IsCurrent(own) /\ pages' = (pages \ {own}) \cup {grown}
      /\ grown.name = own.name /\ grown.created = own.created /\ grown.made = own.made
      /\ grown.written = calls
  BY <1>2, <1>4, <1>6, <1>8 DEF own, grown
<1>10. /\ calls \in Nat
       /\ \A p \in pages : /\ p.made \in Nat /\ p.created \in Nat /\ p.written \in Nat
                           /\ p.made <= p.created /\ p.created <= p.written /\ p.written <= calls
  BY Times DEF AgeInv
<1>11. /\ own.created = own.made
       /\ \A q \in pages : q.created = q.made \/ q.created < own.created
  BY <1>9 DEF AgeInv
<1>12. \A p \in pages' : p \in pages \/ p = grown
  BY <1>9
<1>13. \A p \in pages' : p.made <= p.created /\ p.created <= p.written /\ p.written <= calls
  BY <1>9, <1>10, <1>12
<1>14. \A p \in pages' : IsCurrent(p)' =>
          p.created = p.made /\ \A q \in pages' : q.created = q.made \/ q.created < p.created
  <2>1. \A p \in pages : IsCurrent(p)' => IsCurrent(p)
    BY <1>4 DEF IsCurrent
  <2>2. \A p \in pages : IsCurrent(p) =>
          p.created = p.made /\ \A q \in pages : q.created = q.made \/ q.created < p.created
    BY DEF AgeInv
  <2> QED BY <1>9, <1>11, <1>12, <2>1, <2>2
<1>15. \A p, q \in pages' : q.made < p.made /\ q.written < p.written => q.created < p.created
  <2> SUFFICES ASSUME NEW p \in pages', NEW q \in pages', q.made < p.made, q.written < p.written
               PROVE  q.created < p.created
    OBVIOUS
  <2>1. CASE p = grown
    <3>1. q \in pages /\ q.created \in Nat
      BY <1>9, <1>10, <1>12, <2>1
    <3>2. q.created = q.made \/ q.created < own.created
      BY <1>11, <3>1
    <3> QED BY <1>9, <1>11, <2>1, <3>2
  <2>2. CASE q = grown
    BY <1>9, <1>10, <1>12, <2>2
  <2>3. CASE p \in pages /\ q \in pages
    BY <2>3 DEF AgeInv
  <2> QED BY <1>12, <2>1, <2>2, <2>3
<1>16. \A p \in pages' : p.created = p.made \/ p.created < calls
  BY <1>1, <1>9, <1>12 DEF AgeInv, Writing
<1> QED BY <1>4, <1>5, <1>13, <1>14, <1>15, <1>16 DEF AgeInv

\* A scan takes a page to be as old as its file, and makes none current.
LEMMA RestartAges ==
  ASSUME LogInv, AgeInv, Restart PROVE AgeInv'
<1>1. /\ pages' = Scanned(OnDisk) /\ current' = [i \in Ids |-> None] /\ calls' = calls
      /\ writer'.pc = "start"
  BY DEF Restart, Scanned, OnDisk
<1>2. \A p \in pages' : \E q \in pages :
          /\ p.name = q.name /\ p.made = q.made /\ p.written = q.written /\ p.created = q.written
  <2>1. \A q \in PageRecords :
          /\ [q EXCEPT !.created = q.written].name = q.name
          /\ [q EXCEPT !.created = q.written].made = q.made
          /\ [q EXCEPT !.created = q.written].written = q.written
          /\ [q EXCEPT !.created = q.written].created = q.written
    BY DEF PageRecords
  <2>2. OnDisk \subseteq pages /\ pages \subseteq PageRecords
    BY DEF OnDisk, LogInv, StoreInv, StoreTyped
  <2>3. \A p \in Scanned(OnDisk) : \E q \in OnDisk : p = [q EXCEPT !.created = q.written]
    BY DEF Scanned
  <2> SUFFICES ASSUME NEW p \in Scanned(OnDisk)
               PROVE  \E q \in pages : /\ p.name = q.name /\ p.made = q.made
                                       /\ p.written = q.written /\ p.created = q.written
    BY <1>1
  <2>4. PICK q \in OnDisk : p = [q EXCEPT !.created = q.written]
    BY <2>3
  <2> QED BY <2>1, <2>2, <2>4
<1>3. /\ calls \in Nat
      /\ \A q \in pages : /\ q.made \in Nat /\ q.created \in Nat /\ q.written \in Nat
                          /\ q.made <= q.written /\ q.written <= calls
  BY Times DEF AgeInv
<1>4. \A p \in pages' : p.made <= p.created /\ p.created <= p.written /\ p.written <= calls
  BY <1>2, <1>3
<1>5. \A p \in pages' : ~IsCurrent(p)'
  <2>1. \A p \in pages' : p.name.id \in Ids
    BY <1>2 DEF LogInv, StoreInv, StoreTyped, PageRecords, Names
  <2> QED BY <1>1, <2>1 DEF IsCurrent
<1>6. \A p, q \in pages' : q.made < p.made /\ q.written < p.written => q.created < p.created
  BY <1>2
<1> QED BY <1>1, <1>4, <1>5, <1>6 DEF AgeInv

\* So every step keeps the ages.
LEMMA AgeStep ==
  ASSUME LogInv, AgeInv, [Next]_vars PROVE AgeInv'
<1>1. CASE Ageless
  BY <1>1, AgelessKeeps
<1>2. CASE Create \/ AppendBytes \/ AppendFails \/ Restart \/ \E i \in Ids, n \in Lines : Begin(i, n)
  BY <1>2, BeginAges, CreateAges, WrittenAges, RestartAges
<1> QED BY <1>1, <1>2, AgelessStep DEF Next, WriteStep

-----------------------------------------------------------------------------
(* The theorems.                                                            *)

\* The inductive invariant.
THEOREM LogInvKept == Spec => []LogInv
<1>1. Init => LogInv
  <2> SUFFICES ASSUME Init PROVE LogInv
    OBVIOUS
  <2>1. IsFiniteSet(pages) /\ Bytes(pages) = 0
    BY FS_EmptySet, BytesPicked DEF Init
  <2>2. StoreInv
    BY <2>1 DEF Init, StoreInv, StoreTyped, OneName, HandlesCurrent
  <2>3. ClockInv
    BY Bounds DEF Init, ClockInv
  <2>4. WriteInv
    BY DEF Init, WriteInv, At, Idle
  <2> QED BY <2>2, <2>3, <2>4 DEF LogInv
<1>2. LogInv /\ [Next]_vars => LogInv'
  BY LogStep DEF StepKeeps, Keeping, LogInv
<1> QED BY <1>1, <1>2, PTL DEF Spec

\* What every write trusts (Manager.total) is the sum of the pages at all times, and
\* every file of the directory is the file of a page, whatever fails or gets lost.
THEOREM AccountsKept == Spec => []Accounted
<1>1. LogInv => Accounted
  <2> SUFFICES ASSUME LogInv PROVE Accounted
    OBVIOUS
  <2>1. pages \in SUBSET pages /\ total = Bytes(pages)
    BY DEF LogInv, StoreInv
  <2>2. total \in Nat
    BY <2>1, Sums DEF LogInv
  <2>3. TypeOK
    BY <2>2 DEF LogInv, StoreInv, StoreTyped, PageRecords, ClockInv, TypeOK
  <2> QED BY <2>3 DEF LogInv, StoreInv, Accounted
<1> QED BY <1>1, LogInvKept, PTL

\* No write goes to a page that trim removed: a current page is a page of its instance,
\* and a handle that is open is that of a current page.
THEOREM HandlesKept == Spec => []HandlesCurrent
<1>1. LogInv => HandlesCurrent
  BY DEF LogInv, StoreInv
<1> QED BY <1>1, LogInvKept, PTL

\* Output takes more of the disk only within the total size in force, and a page grows
\* only within the size of a page in force.
THEOREM Budget == Spec => BudgetKept
<1>1. LogInv /\ [Next]_vars => BudgetStep
  BY LogStep DEF StepKeeps, Keeping
<1>2. LogInv /\ [Next]_vars => [BudgetStep]_vars
  BY <1>1
<1>3. Spec => [][BudgetStep]_vars
  BY <1>2, LogInvKept, PTL DEF Spec
<1> QED BY <1>3 DEF BudgetKept, BudgetStep

\* trim gives up no page for the budget while it keeps one that an earlier line made and
\* that was last written earlier, also when a scan has since taken the age of either from
\* its file.
THEOREM Oldest == Spec => OldestFirst
<1> DEFINE Step == \A p \in GivenUp, q \in pages \cap pages' :
                       ~(q.made < p.made /\ q.written < p.written)
<1>1. LogInv /\ Init => AgeInv
  BY DEF Init, AgeInv, Idle
<1>2. LogInv /\ AgeInv /\ [Next]_vars => AgeInv'
  BY AgeStep
<1>3. LogInv /\ AgeInv /\ [Next]_vars => [Step]_vars
  <2> SUFFICES ASSUME LogInv, AgeInv, [Next]_vars, NEW p \in GivenUp, NEW q \in pages \cap pages',
                      q.made < p.made, q.written < p.written
               PROVE  FALSE
    OBVIOUS
  <2>1. p \in pages /\ p.created <= q.created
    BY LogStep DEF StepKeeps, Keeping, OldestStep, GivenUp
  <2>2. q.created < p.created
    BY <2>1 DEF AgeInv
  <2> QED BY <2>1, <2>2, Times
<1>4. Spec => [][Step]_vars
  <2> HIDE DEF Step
  <2> QED BY <1>1, <1>2, <1>3, LogInvKept, PTL DEF Spec
<1> QED BY <1>4 DEF OldestFirst
=============================================================================
