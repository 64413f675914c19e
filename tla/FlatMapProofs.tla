---------------------------- MODULE FlatMapProofs ----------------------------
(***************************************************************************)
(* FlatMap for every set of keys, every hash function and every bound: the *)
(* probe of a key that is there ends at its entry, the table is a map from *)
(* keys to addresses, and only tombstones can make a probe go on for ever. *)
(*                                                                         *)
(* The invariant ties slots and live entries to each other, and keeps the  *)
(* probe path from the hash of a key to its slot free of kEmpty.           *)
(***************************************************************************)
EXTENDS FlatMap, SequenceTheorems, FiniteSetTheorems, WellFoundedInduction, TLAPS

-----------------------------------------------------------------------------
(* Numbers                                                                 *)

\* A set of naturals that is not empty has a least member.
LEMMA LeastMember ==
  ASSUME NEW S, S \subseteq Nat, S # {}
  PROVE  \E m \in S : \A n \in S : m <= n
<1>1. \E m \in S : \A n \in S : ~(<<n, m>> \in OpToRel(<, Nat))
  BY NatLessThanWellFounded, WFMin, Zenon
<1>2. \A m, n \in Nat : n < m => <<n, m>> \in OpToRel(<, Nat)
  BY DEF OpToRel
<1>3. \A m, n \in Nat : ~(n < m) => m <= n
  OBVIOUS
<1>4. QED
  BY <1>1, <1>2, <1>3, Zenon

LEMMA MinOfSet ==
  ASSUME NEW S, S \subseteq Nat, S # {}
  PROVE  Min(S) \in S /\ \A n \in S : Min(S) <= n
<1>1. \E m \in S : \A n \in S : m <= n
  BY LeastMember
<1>2. QED
  BY <1>1, Zenon DEF Min

\* Induction, over a set of naturals.
LEMMA SetInduction ==
  ASSUME NEW S, 0 \in S, \A n \in Nat : n \in S => n + 1 \in S
  PROVE  Nat \subseteq S
<1> SUFFICES ASSUME Nat \ S # {} PROVE FALSE
  OBVIOUS
<1>1. PICK m \in Nat \ S : \A n \in Nat \ S : m <= n
  <2>1. Nat \ S \subseteq Nat
    OBVIOUS
  <2>2. QED
    BY <2>1, LeastMember
<1>2. m # 0 /\ m - 1 \in Nat /\ ~(m <= m - 1) /\ (m - 1) + 1 = m
  OBVIOUS
<1>3. QED
  BY <1>1, <1>2

LEMMA DivMod ==
  ASSUME NEW C \in Nat \ {0}, NEW x \in Nat
  PROVE  x % C \in 0..(C - 1) /\ x \div C \in Nat /\ x = C * (x \div C) + (x % C)
<1>1. x % C \in 0..(C - 1)
  OBVIOUS
<1>2. x \div C \in Nat
  OBVIOUS
<1>3. x = C * (x \div C) + (x % C)
  OBVIOUS
<1>4. QED
  BY <1>1, <1>2, <1>3

\* The remainder is unique.
LEMMA SameRemainder ==
  ASSUME NEW C \in Nat \ {0}, NEW q \in Nat, NEW r \in 0..(C - 1),
         NEW p \in Nat, NEW s \in 0..(C - 1), C * q + r = C * p + s
  PROVE  r = s
<1>1. \A d \in Nat \ {0} : C * d >= C
  OBVIOUS
<1>2. CASE q > p
  <2>1. C * (q - p) >= C
    BY <1>1, <1>2
  <2>2. C * (q - p) = C * q - C * p
    OBVIOUS
  <2>3. QED
    BY <2>1, <2>2
<1>3. CASE p > q
  <2>1. C * (p - q) >= C
    BY <1>1, <1>3
  <2>2. C * (p - q) = C * p - C * q
    OBVIOUS
  <2>3. QED
    BY <2>1, <2>2
<1>4. CASE q = p
  BY <1>4
<1>5. QED
  BY <1>2, <1>3, <1>4

\* j steps from h wrap at most once ...
LEMMA ProbeWraps ==
  ASSUME NEW C \in Nat \ {0}, NEW h \in Nat, NEW j \in 0..(C - 1)
  PROVE  (h + j) % C = IF (h % C) + j < C THEN (h % C) + j ELSE (h % C) + j - C
<1> DEFINE r == h % C
           q == h \div C
           y == (h + j) % C
           p == (h + j) \div C
<1>1. r \in 0..(C - 1) /\ q \in Nat /\ h = C * q + r
  BY DivMod
<1>2. y \in 0..(C - 1) /\ p \in Nat /\ h + j = C * p + y
  <2>1. h + j \in Nat
    OBVIOUS
  <2>2. QED
    BY <2>1, DivMod, Zenon
<1> HIDE DEF r, q, y, p
<1>3. CASE r + j < C
  <2>1. r + j \in 0..(C - 1) /\ C * q + (r + j) = C * p + y
    BY <1>1, <1>2, <1>3
  <2>2. y = r + j
    BY <1>1, <1>2, <2>1, SameRemainder
  <2>3. QED
    BY <1>3, <2>2 DEF y, r
<1>4. CASE ~(r + j < C)
  <2>1. r + j - C \in 0..(C - 1) /\ q + 1 \in Nat
    BY <1>1, <1>4
  <2>2. C * (q + 1) = C * q + C
    BY <1>1
  <2>3. C * (q + 1) + (r + j - C) = C * p + y
    BY <1>1, <1>2, <2>2
  <2>4. y = r + j - C
    BY <1>2, <2>1, <2>3, SameRemainder
  <2>5. QED
    BY <1>4, <2>4 DEF y, r
<1>5. QED
  BY <1>3, <1>4

\* ... so a probe comes to every slot.
LEMMA ProbeReachesAll ==
  ASSUME NEW C \in Nat \ {0}, NEW h \in Nat, NEW s \in 0..(C - 1)
  PROVE  \E j \in 0..(C - 1) : (h + j) % C = s
<1> DEFINE r == h % C
           j == IF s >= r THEN s - r ELSE s - r + C
<1>1. r \in 0..(C - 1)
  BY DivMod
<1> HIDE DEF r
<1>2. j \in 0..(C - 1) /\ (IF r + j < C THEN r + j ELSE r + j - C) = s
  BY <1>1
<1> HIDE DEF j
<1>3. (h + j) % C = s
  BY <1>2, ProbeWraps DEF r
<1>4. QED
  BY <1>2, <1>3

-----------------------------------------------------------------------------
(* The inductive invariant                                                 *)

Entry == [key : Keys \cup {NoKey}, live : BOOLEAN, slot : Nat]
LiveOf(es) == {i \in DOMAIN es : es[i].live}

EntriesSound(es) ==
  /\ es \in Seq(Entry)
  /\ \A i \in LiveOf(es) : es[i].key \in Keys
  /\ \A i, j \in LiveOf(es) : es[i].key = es[j].key => i = j

\* The probe for k comes to slot `at' and meets no kEmpty before.
Reaches(tbl, C, k, at) ==
  \E n \in 0..(C - 1) :
    /\ (hash[k] + n) % C = at
    /\ \A m \in 0..(n - 1) : tbl[(hash[k] + m) % C] # kEmpty

\* The entries of L, and no others, have a slot of the table of C slots.
EntrySound(tbl, C, e, i) ==
  /\ e.slot \in 0..(C - 1)
  /\ tbl[e.slot] = i - 1
  /\ Reaches(tbl, C, e.key, e.slot)
SlotSound(v, es, L, s) ==
  v = kEmpty \/ v = kTomb \/ (v + 1 \in L /\ es[v + 1].slot = s)
TableSound(tbl, C, es, L) ==
  /\ tbl \in [0..(C - 1) -> Int] /\ L \subseteq Nat \ {0}
  /\ \A i \in L : EntrySound(tbl, C, es[i], i)
  /\ \A s \in 0..(C - 1) : SlotSound(tbl[s], es, L, s)

\* The free list holds dead indexes, each once.
FreeSound(fr, es) ==
  /\ fr \in Seq(Nat)
  /\ \A a \in 1..Len(fr) : fr[a] + 1 \in DOMAIN es /\ ~es[fr[a] + 1].live
  /\ \A a, b \in 1..Len(fr) : fr[a] = fr[b] => a = b

Tombs(tbl) == {s \in DOMAIN tbl : tbl[s] = kTomb}

Counted ==
  /\ size = Cardinality(LiveOf(ents))
  /\ tomb = Cardinality(Tombs(slots))
  /\ size * 10 <= Capacity * 7

Inv ==
  /\ hash \in [Keys -> Nat] /\ Capacity \in Nat
  /\ EntriesSound(ents)
  /\ TableSound(slots, Capacity, ents, LiveOf(ents))
  /\ FreeSound(free, ents)
  /\ Counted

-----------------------------------------------------------------------------
(* The table                                                               *)

\* A slot on the way of a probe is a slot.
LEMMA ProbeType ==
  ASSUME NEW C \in Nat, C # 0, NEW k \in Keys, hash \in [Keys -> Nat], NEW n \in Nat
  PROVE  (hash[k] + n) % C \in 0..(C - 1)
<1>1. hash[k] + n \in Nat /\ C \in Nat \ {0}
  OBVIOUS
<1>2. QED
  BY <1>1, DivMod, Zenon

\* Filling slots keeps every path.
LEMMA ReachesKept ==
  ASSUME NEW tbl, NEW tbl2, NEW C, NEW k, NEW at, Reaches(tbl, C, k, at),
         \A s : tbl[s] # kEmpty => tbl2[s] # kEmpty
  PROVE  Reaches(tbl2, C, k, at)
BY Zenon DEF Reaches

\* A new entry takes an empty slot or a tombstone that its probe reaches.
LEMMA EntryPlaced ==
  ASSUME NEW tbl, NEW C \in Nat, NEW es, NEW L, TableSound(tbl, C, es, L),
         NEW at \in 0..(C - 1), tbl[at] = kEmpty \/ tbl[at] = kTomb,
         NEW i \in Nat \ {0}, i \notin L,
         NEW es2, es2[i].slot = at, Reaches(tbl, C, es2[i].key, at),
         \A j \in L : es2[j].key = es[j].key /\ es2[j].slot = es[j].slot
  PROVE  TableSound([tbl EXCEPT ![at] = i - 1], C, es2, L \cup {i})
<1> DEFINE tbl2 == [tbl EXCEPT ![at] = i - 1]
<1>1. /\ tbl \in [0..(C - 1) -> Int] /\ L \subseteq Nat \ {0}
      /\ \A j \in L : EntrySound(tbl, C, es[j], j)
      /\ \A s \in 0..(C - 1) : SlotSound(tbl[s], es, L, s)
  BY DEF TableSound
<1>2. tbl2 \in [0..(C - 1) -> Int] /\ tbl2[at] = i - 1 /\ \A s : s # at => tbl2[s] = tbl[s]
  BY <1>1
<1>3. i - 1 # kEmpty /\ i - 1 # kTomb /\ (i - 1) + 1 = i
  BY DEF kEmpty, kTomb
<1> HIDE DEF tbl2
<1>4. \A s : tbl[s] # kEmpty => tbl2[s] # kEmpty
  BY <1>2, <1>3, Zenon
<1>5. \A j \in L : es[j].slot # at
  <2>1. ASSUME NEW j \in L, es[j].slot = at
        PROVE  FALSE
    <3>1. tbl[at] = j - 1 /\ j \in Nat \ {0}
      BY <1>1, <2>1 DEF EntrySound
    <3>2. QED
      BY <3>1 DEF kEmpty, kTomb
  <2>2. QED
    BY <2>1
<1>6. ASSUME NEW j \in L \cup {i}
      PROVE  EntrySound(tbl2, C, es2[j], j)
  <2>1. CASE j = i
    <3>1. Reaches(tbl2, C, es2[i].key, at)
      BY <1>4, ReachesKept
    <3>2. QED
      BY <1>2, <2>1, <3>1 DEF EntrySound
  <2>2. CASE j \in L
    <3>1. /\ es2[j].slot = es[j].slot /\ es2[j].key = es[j].key
          /\ es[j].slot \in 0..(C - 1) /\ tbl[es[j].slot] = j - 1 /\ es[j].slot # at
          /\ Reaches(tbl, C, es[j].key, es[j].slot)
      BY <1>1, <1>5, <2>2 DEF EntrySound
    <3>2. Reaches(tbl2, C, es[j].key, es[j].slot)
      BY <1>4, <3>1, ReachesKept
    <3>3. QED
      BY <1>2, <3>1, <3>2 DEF EntrySound
  <2>3. QED
    BY <2>1, <2>2
<1>7. ASSUME NEW s \in 0..(C - 1)
      PROVE  SlotSound(tbl2[s], es2, L \cup {i}, s)
  <2>1. CASE s = at
    BY <1>2, <1>3, <2>1 DEF SlotSound
  <2>2. CASE s # at
    <3>1. tbl2[s] = tbl[s] /\ SlotSound(tbl[s], es, L, s)
      BY <1>1, <1>2, <2>2
    <3>2. QED
      BY <3>1 DEF SlotSound
  <2>3. QED
    BY <2>1, <2>2
<1>8. L \cup {i} \subseteq Nat \ {0}
  BY <1>1
<1>9. TableSound(tbl2, C, es2, L \cup {i})
  BY <1>2, <1>6, <1>7, <1>8 DEF TableSound
<1>10. QED
  BY <1>9 DEF tbl2

\* An erased entry leaves a tombstone, and only in its own slot.
LEMMA EntryRemoved ==
  ASSUME NEW tbl, NEW C \in Nat, NEW es, NEW L, TableSound(tbl, C, es, L), NEW i \in L,
         NEW es2, \A j \in L \ {i} : es2[j].key = es[j].key /\ es2[j].slot = es[j].slot
  PROVE  TableSound([tbl EXCEPT ![es[i].slot] = kTomb], C, es2, L \ {i})
<1> DEFINE at == es[i].slot
           tbl2 == [tbl EXCEPT ![at] = kTomb]
<1>1. /\ tbl \in [0..(C - 1) -> Int] /\ L \subseteq Nat \ {0}
      /\ \A j \in L : EntrySound(tbl, C, es[j], j)
      /\ \A s \in 0..(C - 1) : SlotSound(tbl[s], es, L, s)
  BY DEF TableSound
<1>2. at \in 0..(C - 1) /\ tbl[at] = i - 1 /\ i \in Nat
  BY <1>1 DEF EntrySound
<1>3. /\ tbl2 \in [0..(C - 1) -> Int] /\ tbl2[at] = kTomb /\ \A s : s # at => tbl2[s] = tbl[s]
  BY <1>1, <1>2 DEF kTomb
<1>4. \A s : tbl[s] # kEmpty => tbl2[s] # kEmpty
  BY <1>3 DEF kEmpty, kTomb
<1> HIDE DEF tbl2, at
<1>5. ASSUME NEW j \in L \ {i}
      PROVE  EntrySound(tbl2, C, es2[j], j)
  <2>1. /\ es2[j].slot = es[j].slot /\ es2[j].key = es[j].key
        /\ es[j].slot \in 0..(C - 1) /\ tbl[es[j].slot] = j - 1 /\ j \in Nat
        /\ Reaches(tbl, C, es[j].key, es[j].slot)
    BY <1>1 DEF EntrySound
  <2>2. es[j].slot # at
    BY <1>2, <2>1
  <2>3. Reaches(tbl2, C, es[j].key, es[j].slot)
    BY <1>4, <2>1, ReachesKept
  <2>4. QED
    BY <1>3, <2>1, <2>2, <2>3 DEF EntrySound
<1>6. ASSUME NEW s \in 0..(C - 1)
      PROVE  SlotSound(tbl2[s], es2, L \ {i}, s)
  <2>1. CASE s = at
    BY <1>3, <2>1 DEF SlotSound
  <2>2. CASE s # at
    <3>1. tbl2[s] = tbl[s] /\ SlotSound(tbl[s], es, L, s)
      BY <1>1, <1>3, <2>2
    <3>2. tbl[s] + 1 = i => es[tbl[s] + 1].slot = at
      BY DEF at
    <3>3. QED
      BY <2>2, <3>1, <3>2 DEF SlotSound
  <2>3. QED
    BY <2>1, <2>2
<1>7. TableSound(tbl2, C, es2, L \ {i})
  BY <1>1, <1>3, <1>5, <1>6 DEF TableSound
<1>8. QED
  BY <1>7 DEF tbl2, at

-----------------------------------------------------------------------------
(* rehash()                                                                *)

PlaceStep(f, es, cap, i) ==
  IF i = 0 THEN [tbl |-> [p \in 0..(cap - 1) |-> kEmpty], ents |-> es]
  ELSE IF ~es[i].live THEN f[i - 1]
  ELSE Placed(f[i - 1], i, cap)

\* The loop over the entries is a recursion, so there is a function that
\* satisfies it.
LEMMA RehashUnfolds ==
  ASSUME NEW es, NEW cap, Len(es) \in Nat
  PROVE  \E f : /\ \A i \in 0..Len(es) : f[i] = PlaceStep(f, es, cap, i)
                /\ Rehashed(es, cap) = f[Len(es)]
<1> DEFINE M == Len(es)
           Good(f, n) == f = [i \in 0..n |-> PlaceStep(f, es, cap, i)]
           S == {n \in Nat : \E f : Good(f, n)}
<1> HIDE DEF M
<1>1. 0 \in S
  <2> DEFINE f == [i \in 0..0 |-> [tbl |-> [p \in 0..(cap - 1) |-> kEmpty], ents |-> es]]
  <2>1. \A i \in 0..0 : i = 0
    OBVIOUS
  <2>2. \A i \in 0..0 : f[i] = PlaceStep(f, es, cap, i)
    BY <2>1, Zenon DEF PlaceStep
  <2>3. f = [i \in 0..0 |-> f[i]]
    OBVIOUS
  <2> HIDE DEF f
  <2>4. Good(f, 0)
    BY <2>2, <2>3
  <2>5. QED
    BY <2>4
<1>2. ASSUME NEW n \in Nat, n \in S
      PROVE  n + 1 \in S
  <2>1. PICK g : Good(g, n)
    BY <1>2
  <2>2. \A i \in 0..n : g[i] = PlaceStep(g, es, cap, i)
    BY <2>1
  <2> DEFINE f == [i \in 0..(n + 1) |-> IF i = n + 1 THEN PlaceStep(g, es, cap, n + 1) ELSE g[i]]
  <2>3. \A i \in 0..n : f[i] = g[i]
    OBVIOUS
  <2>4. f[n + 1] = PlaceStep(g, es, cap, n + 1) /\ f = [i \in 0..(n + 1) |-> f[i]]
    OBVIOUS
  <2> HIDE DEF f
  <2>5. ASSUME NEW i \in 0..(n + 1)
        PROVE  PlaceStep(f, es, cap, i) = PlaceStep(g, es, cap, i)
    <3>1. CASE i = 0
      BY <3>1 DEF PlaceStep
    <3>2. CASE i # 0
      <4>1. i - 1 \in 0..n
        BY <3>2
      <4>2. f[i - 1] = g[i - 1]
        BY <2>3, <4>1
      <4>3. QED
        BY <4>2, Zenon DEF PlaceStep
    <3>3. QED
      BY <3>1, <3>2
  <2>6. \A i \in 0..(n + 1) : f[i] = PlaceStep(f, es, cap, i)
    <3> SUFFICES ASSUME NEW i \in 0..(n + 1) PROVE f[i] = PlaceStep(f, es, cap, i)
      OBVIOUS
    <3>1. i = n + 1 \/ i \in 0..n
      OBVIOUS
    <3>2. f[i] = PlaceStep(g, es, cap, i)
      BY <2>2, <2>3, <2>4, <3>1
    <3>3. QED
      BY <2>5, <3>2
  <2>7. Good(f, n + 1)
    BY <2>4, <2>6
  <2>8. QED
    BY <2>7
<1>3. M \in S
  <2> HIDE DEF S
  <2>1. \A n \in Nat : n \in S => n + 1 \in S
    BY <1>2
  <2>2. QED
    BY <1>1, <2>1, SetInduction DEF M
<1>4. PICK f : Good(f, M)
  BY <1>3
<1> DEFINE place == CHOOSE h : h = [i \in 0..M |-> PlaceStep(h, es, cap, i)]
<1>5. Rehashed(es, cap) = place[M]
  BY DEF Rehashed, PlaceStep, M
<1>6. place = [i \in 0..M |-> PlaceStep(place, es, cap, i)]
  BY <1>4
<1> HIDE DEF place
<1>7. \A i \in 0..M : place[i] = PlaceStep(place, es, cap, i)
  BY <1>6
<1>8. QED
  BY <1>5, <1>7 DEF M

\* A table without tombstones that has more slots than entries has an empty one.
LEMMA EmptySlotLeft ==
  ASSUME NEW tbl, NEW C \in Nat, NEW es, NEW L, TableSound(tbl, C, es, L),
         \A s \in 0..(C - 1) : tbl[s] # kTomb,
         IsFiniteSet(L), Cardinality(L) < C
  PROVE  \E s \in 0..(C - 1) : tbl[s] = kEmpty
<1> SUFFICES ASSUME \A s \in 0..(C - 1) : tbl[s] # kEmpty PROVE FALSE
  OBVIOUS
<1> DEFINE D == 0..(C - 1)
           f == [s \in D |-> tbl[s] + 1]
<1>1. \A s \in D : tbl[s] + 1 \in L /\ es[tbl[s] + 1].slot = s
  BY Zenon DEF TableSound, SlotSound
<1>2. IsFiniteSet(D) /\ Cardinality(D) = C
  <2>1. C - 1 \in Int /\ 0 \in Int /\ (IF 0 > C - 1 THEN 0 ELSE C - 1 - 0 + 1) = C
    OBVIOUS
  <2>2. QED
    BY <2>1, FS_Interval
<1> HIDE DEF D
<1>3. f \in [D -> L]
  BY <1>1
<1>4. \E x, y \in D : x # y /\ f[x] = f[y]
  <2> HIDE DEF f
  <2>1. QED
    BY <1>2, <1>3, FS_PigeonHole
<1>5. PICK x \in D, y \in D : x # y /\ f[x] = f[y]
  BY <1>4
<1>6. QED
  BY <1>1, <1>5

\* The same keys live at the same indexes.
SameEntries(es2, es) ==
  /\ es2 \in Seq(Entry) /\ Len(es2) = Len(es)
  /\ \A j \in 1..Len(es) : es2[j].key = es[j].key /\ es2[j].live = es[j].live

UpTo(es, i) == {j \in LiveOf(es) : j <= i}

\* The loop has placed the live entries up to index i.
Rebuilt(r, es, C, i) ==
  /\ TableSound(r.tbl, C, r.ents, UpTo(es, i))
  /\ \A s \in 0..(C - 1) : r.tbl[s] # kTomb
  /\ SameEntries(r.ents, es)

LEMMA LiveFacts ==
  ASSUME NEW es \in Seq(Entry)
  PROVE  /\ LiveOf(es) \subseteq 1..Len(es) /\ LiveOf(es) \subseteq Nat \ {0}
         /\ IsFiniteSet(LiveOf(es)) /\ Cardinality(LiveOf(es)) \in Nat
         /\ DOMAIN es = 1..Len(es) /\ Len(es) \in Nat
<1>1. DOMAIN es = 1..Len(es) /\ Len(es) \in Nat
  BY LenProperties
<1>2. LiveOf(es) \subseteq 1..Len(es)
  BY <1>1 DEF LiveOf
<1>3. LiveOf(es) \subseteq Nat \ {0}
  BY <1>1, <1>2
<1>4. IsFiniteSet(1..Len(es))
  BY <1>1, FS_Interval
<1>5. IsFiniteSet(LiveOf(es))
  BY <1>2, <1>4, FS_Subset
<1>6. Cardinality(LiveOf(es)) \in Nat
  BY <1>5, FS_CardinalityType
<1>7. QED
  BY <1>1, <1>2, <1>3, <1>5, <1>6

LEMMA PlacedSound ==
  ASSUME hash \in [Keys -> Nat], NEW C \in Nat \ {0}, NEW es, EntriesSound(es),
         Cardinality(LiveOf(es)) <= C,
         NEW i \in 1..Len(es), es[i].live, NEW r, Rebuilt(r, es, C, i - 1)
  PROVE  Rebuilt(Placed(r, i, C), es, C, i)
<1> DEFINE L == UpTo(es, i - 1)
           k == r.ents[i].key
           h == hash[k]
           E == {j \in 0..(C - 1) : r.tbl[(h + j) % C] = kEmpty}
           n == Min(E)
           p == (h + n) % C
           tbl2 == [r.tbl EXCEPT ![p] = i - 1]
           es2 == [r.ents EXCEPT ![i].slot = p]
<1>1. Placed(r, i, C) = [tbl |-> tbl2, ents |-> es2]
  BY DEF Placed
<1>2. /\ TableSound(r.tbl, C, r.ents, L) /\ SameEntries(r.ents, es)
      /\ \A s \in 0..(C - 1) : r.tbl[s] # kTomb
      /\ es \in Seq(Entry)
  BY DEF Rebuilt, EntriesSound
<1>3. /\ LiveOf(es) \subseteq 1..Len(es) /\ IsFiniteSet(LiveOf(es)) /\ Cardinality(LiveOf(es)) \in Nat
      /\ DOMAIN es = 1..Len(es) /\ Len(es) \in Nat
  BY <1>2, LiveFacts
<1>4. /\ i \in Nat \ {0} /\ i \in LiveOf(es) /\ i \notin L /\ L \subseteq LiveOf(es) \ {i}
      /\ UpTo(es, i) = L \cup {i}
  <2>1. i \in Nat \ {0} /\ i \in LiveOf(es)
    BY <1>3 DEF LiveOf
  <2>2. \A j \in LiveOf(es) : j \in Nat /\ (j <= i <=> j <= i - 1 \/ j = i) /\ ~(i <= i - 1)
    BY <1>3, <2>1
  <2>3. QED
    BY <2>1, <2>2 DEF UpTo
<1>5. k \in Keys /\ h \in Nat
  <2>1. k = es[i].key
    BY <1>2 DEF SameEntries
  <2>2. QED
    BY <1>4, <2>1 DEF EntriesSound
<1>6. IsFiniteSet(L) /\ Cardinality(L) < C
  <2>1. /\ IsFiniteSet(LiveOf(es) \ {i})
        /\ Cardinality(LiveOf(es) \ {i}) = Cardinality(LiveOf(es)) - 1
    BY <1>3, <1>4, FS_RemoveElement
  <2>2. IsFiniteSet(L) /\ Cardinality(L) <= Cardinality(LiveOf(es) \ {i})
    BY <1>4, <2>1, FS_Subset
  <2>3. Cardinality(L) \in Nat
    BY <2>2, FS_CardinalityType
  <2>4. QED
    BY <1>3, <2>1, <2>2, <2>3
<1> HIDE DEF L, k, h
<1>7. \E s \in 0..(C - 1) : r.tbl[s] = kEmpty
  BY <1>2, <1>6, EmptySlotLeft
<1>8. E # {} /\ E \subseteq Nat
  <2>1. PICK s \in 0..(C - 1) : r.tbl[s] = kEmpty
    BY <1>7
  <2>2. PICK j \in 0..(C - 1) : (h + j) % C = s
    BY <1>5, ProbeReachesAll
  <2>3. j \in E
    BY <2>1, <2>2
  <2>4. QED
    BY <2>3
<1>9. n \in E /\ \A m \in E : n <= m
  <2> HIDE DEF E
  <2>1. QED
    BY <1>8, MinOfSet
<1>10. n \in 0..(C - 1) /\ r.tbl[p] = kEmpty
  BY <1>9
<1>11. \A m \in 0..(n - 1) : r.tbl[(h + m) % C] # kEmpty
  <2>1. \A m \in 0..(n - 1) : m \in 0..(C - 1) /\ ~(n <= m)
    BY <1>10
  <2>2. QED
    BY <1>9, <2>1
<1> HIDE DEF n, E
<1>12. p \in 0..(C - 1)
  <2>1. n \in Nat /\ C \in Nat /\ C # 0
    BY <1>10
  <2>2. QED
    BY <1>5, <2>1, ProbeType DEF h
<1>13. Reaches(r.tbl, C, k, p)
  BY <1>10, <1>11 DEF Reaches, h
<1> HIDE DEF p
<1>14. /\ r.ents \in Seq(Entry) /\ Len(r.ents) = Len(es)
       /\ \A j \in 1..Len(es) : r.ents[j].key = es[j].key /\ r.ents[j].live = es[j].live
  BY <1>2 DEF SameEntries
<1>15. /\ r.ents[i] \in Entry /\ es2[i] = [r.ents[i] EXCEPT !.slot = p]
       /\ \A j \in 1..Len(es) : j # i => es2[j] = r.ents[j]
       /\ DOMAIN es2 = 1..Len(es)
  <2>1. i \in DOMAIN r.ents /\ DOMAIN r.ents = 1..Len(es)
    BY <1>3, <1>14, LenProperties
  <2>2. r.ents[i] \in Entry
    BY <1>14, ElementOfSeq
  <2>3. QED
    BY <2>1, <2>2
<1>16. /\ es2[i].slot = p /\ es2[i].key = k /\ es2[i].live = r.ents[i].live /\ es2[i] \in Entry
  <2>1. p \in Nat
    BY <1>12
  <2>2. QED
    BY <1>15, <2>1 DEF Entry, k
<1> HIDE DEF es2
<1>17. SameEntries(es2, es)
  <2>1. \A j \in 1..Len(es) : es2[j] \in Entry
    <3>1. \A j \in 1..Len(es) : r.ents[j] \in Entry
      BY <1>14, ElementOfSeq, Zenon
    <3>2. QED
      BY <1>15, <1>16, <3>1, Zenon
  <2>2. es2 \in [1..Len(es) -> Entry]
    <3>1. es2 = [j \in 1..Len(es) |-> es2[j]]
      BY <1>15 DEF es2
    <3>2. QED
      BY <2>1, <3>1
  <2>3. es2 \in Seq(Entry) /\ Len(es2) = Len(es)
    BY <1>3, <2>2
  <2>4. \A j \in 1..Len(es) : es2[j].key = es[j].key /\ es2[j].live = es[j].live
    <3> SUFFICES ASSUME NEW j \in 1..Len(es)
                 PROVE  es2[j].key = es[j].key /\ es2[j].live = es[j].live
      OBVIOUS
    <3>1. CASE j = i
      BY <1>14, <1>16, <3>1 DEF k
    <3>2. CASE j # i
      BY <1>14, <1>15, <3>2
    <3>3. QED
      BY <3>1, <3>2
  <2>5. QED
    BY <2>3, <2>4 DEF SameEntries
<1>18. \A j \in L : es2[j].key = r.ents[j].key /\ es2[j].slot = r.ents[j].slot
  <2>1. \A j \in L : j \in 1..Len(es) /\ j # i
    BY <1>3, <1>4
  <2>2. QED
    BY <1>15, <2>1
<1>19. TableSound(tbl2, C, es2, L \cup {i})
  <2>1. Reaches(r.tbl, C, es2[i].key, p)
    BY <1>13, <1>16
  <2>2. C \in Nat
    OBVIOUS
  <2>3. QED
    BY <1>2, <1>4, <1>10, <1>12, <1>16, <1>18, <2>1, <2>2, EntryPlaced
<1>20. \A s \in 0..(C - 1) : tbl2[s] # kTomb
  <2>1. i - 1 # kTomb
    BY <1>4 DEF kTomb
  <2>2. r.tbl \in [0..(C - 1) -> Int]
    BY <1>2 DEF TableSound
  <2>3. QED
    BY <1>2, <2>1, <2>2
<1> HIDE DEF tbl2
<1>21. QED
  BY <1>1, <1>4, <1>17, <1>19, <1>20 DEF Rebuilt

LEMMA EmptyTable ==
  ASSUME NEW C \in Nat, NEW es
  PROVE  TableSound([p \in 0..(C - 1) |-> kEmpty], C, es, {})
<1>1. kEmpty \in Int
  BY DEF kEmpty
<1>2. QED
  BY <1>1 DEF TableSound, SlotSound

\* A rehash that has room for the live entries gives each of them a slot and
\* leaves no tombstone.
LEMMA RehashSound ==
  ASSUME hash \in [Keys -> Nat], NEW C \in Nat \ {0}, NEW es, EntriesSound(es),
         Cardinality(LiveOf(es)) <= C
  PROVE  /\ TableSound(Rehashed(es, C).tbl, C, Rehashed(es, C).ents, LiveOf(es))
         /\ \A s \in 0..(C - 1) : Rehashed(es, C).tbl[s] # kTomb
         /\ SameEntries(Rehashed(es, C).ents, es)
<1> DEFINE M == Len(es)
<1>1. /\ es \in Seq(Entry) /\ M \in Nat /\ LiveOf(es) \subseteq 1..M /\ DOMAIN es = 1..M
  BY LiveFacts DEF EntriesSound
<1>2. PICK f : /\ \A i \in 0..M : f[i] = PlaceStep(f, es, C, i)
               /\ Rehashed(es, C) = f[M]
  BY <1>1, RehashUnfolds
<1> DEFINE S == {n \in Nat : n <= M => Rebuilt(f[n], es, C, n)}
<1> HIDE DEF M
<1>3. 0 \in S
  <2> DEFINE t == [p \in 0..(C - 1) |-> kEmpty]
  <2>1. f[0] = [tbl |-> t, ents |-> es]
    <3>1. 0 \in 0..M
      BY <1>1
    <3>2. QED
      BY <1>2, <3>1, Zenon DEF PlaceStep
  <2>2. UpTo(es, 0) = {}
    BY <1>1 DEF UpTo
  <2>3. TableSound(t, C, es, {})
    BY EmptyTable
  <2>4. \A s \in 0..(C - 1) : t[s] # kTomb
    BY DEF kEmpty, kTomb
  <2>5. SameEntries(es, es)
    BY <1>1 DEF SameEntries
  <2> HIDE DEF t
  <2>6. Rebuilt(f[0], es, C, 0)
    BY <2>1, <2>2, <2>3, <2>4, <2>5 DEF Rebuilt
  <2>7. QED
    BY <2>6
<1>4. ASSUME NEW n \in Nat, n \in S
      PROVE  n + 1 \in S
  <2> SUFFICES ASSUME n + 1 <= M
               PROVE  Rebuilt(f[n + 1], es, C, n + 1)
    OBVIOUS
  <2>1. /\ n + 1 \in 0..M /\ n + 1 \in 1..Len(es) /\ n + 1 # 0 /\ (n + 1) - 1 = n
        /\ Rebuilt(f[n], es, C, n)
    BY <1>1, <1>4 DEF M
  <2>2. CASE es[n + 1].live
    <3>1. f[n + 1] = Placed(f[n], n + 1, C)
      BY <1>2, <2>1, <2>2 DEF PlaceStep
    <3>2. Rebuilt(f[n], es, C, (n + 1) - 1)
      BY <2>1
    <3>3. QED
      BY <2>1, <2>2, <3>1, <3>2, PlacedSound
  <2>3. CASE ~es[n + 1].live
    <3>1. f[n + 1] = f[n]
      BY <1>2, <2>1, <2>3 DEF PlaceStep
    <3>2. UpTo(es, n + 1) = UpTo(es, n)
      <4>1. \A j \in LiveOf(es) : j \in Nat /\ j # n + 1
        BY <1>1, <2>3 DEF LiveOf
      <4>2. \A j \in Nat : j # n + 1 => (j <= n + 1 <=> j <= n)
        OBVIOUS
      <4>3. QED
        BY <4>1, <4>2 DEF UpTo
    <3>3. QED
      BY <2>1, <3>1, <3>2 DEF Rebuilt
  <2>4. QED
    BY <2>2, <2>3
<1>5. M \in S
  <2> HIDE DEF S
  <2>1. \A n \in Nat : n \in S => n + 1 \in S
    BY <1>4
  <2>2. QED
    BY <1>1, <1>3, <2>1, SetInduction
<1>6. Rebuilt(f[M], es, C, M)
  BY <1>1, <1>5
<1>7. UpTo(es, M) = LiveOf(es)
  BY <1>1 DEF UpTo
<1>8. QED
  BY <1>2, <1>6, <1>7 DEF Rebuilt

LEMMA SameEntriesSound ==
  ASSUME NEW es, NEW es2, EntriesSound(es), SameEntries(es2, es)
  PROVE  /\ EntriesSound(es2) /\ LiveOf(es2) = LiveOf(es)
         /\ \A fr : FreeSound(fr, es) => FreeSound(fr, es2)
<1>1. /\ es \in Seq(Entry) /\ es2 \in Seq(Entry) /\ Len(es2) = Len(es)
      /\ \A j \in 1..Len(es) : es2[j].key = es[j].key /\ es2[j].live = es[j].live
  BY DEF EntriesSound, SameEntries
<1>2. DOMAIN es = 1..Len(es) /\ DOMAIN es2 = 1..Len(es)
  BY <1>1, LenProperties
<1>3. LiveOf(es2) = LiveOf(es)
  BY <1>1, <1>2 DEF LiveOf
<1>4. \A j \in LiveOf(es) : es2[j].key = es[j].key
  BY <1>1, <1>2 DEF LiveOf
<1>5. EntriesSound(es2)
  BY <1>1, <1>3, <1>4 DEF EntriesSound
<1>6. ASSUME NEW fr, FreeSound(fr, es)
      PROVE  FreeSound(fr, es2)
  BY <1>1, <1>2, <1>6 DEF FreeSound
<1>7. QED
  BY <1>3, <1>5, <1>6

-----------------------------------------------------------------------------
(* The probe for a key                                                     *)

LEMMA TableDomain ==
  ASSUME NEW tbl, NEW C \in Nat, NEW es, NEW L, TableSound(tbl, C, es, L)
  PROVE  DOMAIN tbl = 0..(C - 1) /\ Cardinality(DOMAIN tbl) = C
<1>1. DOMAIN tbl = 0..(C - 1)
  BY DEF TableSound
<1>2. C - 1 \in Int /\ 0 \in Int /\ (IF 0 > C - 1 THEN 0 ELSE C - 1 - 0 + 1) = C
  OBVIOUS
<1>3. Cardinality(0..(C - 1)) = C
  BY <1>2, FS_Interval
<1>4. QED
  BY <1>1, <1>3

\* Steps before the first stop pass neither kEmpty nor the key.
LEMMA FirstStop ==
  ASSUME NEW tbl, NEW C \in Nat, NEW es, NEW L, TableSound(tbl, C, es, L), NEW k,
         Stops(tbl, k) # {}
  PROVE  LET n == Min(Stops(tbl, k))
         IN  /\ n \in 0..(C - 1) /\ Probe(tbl, k, n) = (hash[k] + n) % C
             /\ tbl[(hash[k] + n) % C] = kEmpty \/ Holds(tbl[(hash[k] + n) % C], k)
             /\ \A m \in 0..(n - 1) :
                  tbl[(hash[k] + m) % C] # kEmpty /\ ~Holds(tbl[(hash[k] + m) % C], k)
<1> DEFINE n == Min(Stops(tbl, k))
<1>1. DOMAIN tbl = 0..(C - 1) /\ \A m : Probe(tbl, k, m) = (hash[k] + m) % C
  BY TableDomain DEF Probe
<1>2. \A m : m \in Stops(tbl, k) <=>
         /\ m \in 0..(C - 1)
         /\ tbl[(hash[k] + m) % C] = kEmpty \/ Holds(tbl[(hash[k] + m) % C], k)
  BY <1>1, Zenon DEF Stops
<1>3. Stops(tbl, k) \subseteq Nat
  BY <1>2
<1>4. n \in Stops(tbl, k) /\ \A m \in Stops(tbl, k) : n <= m
  BY <1>3, MinOfSet
<1> HIDE DEF n
<1>5. \A m \in 0..(n - 1) : m \in 0..(C - 1) /\ ~(n <= m)
  BY <1>2, <1>4
<1>6. QED
  BY <1>1, <1>2, <1>4, <1>5, Zenon DEF n

\* The probe for the key of a live entry stops at this entry's slot.
LEMMA ProbeFinds ==
  ASSUME hash \in [Keys -> Nat], NEW tbl, NEW C \in Nat, EntriesSound(ents),
         TableSound(tbl, C, ents, LiveOf(ents)), NEW i \in LiveOf(ents)
  PROVE  /\ Stops(tbl, ents[i].key) # {}
         /\ tbl[Probe(tbl, ents[i].key, Min(Stops(tbl, ents[i].key)))] = i - 1
<1> DEFINE k == ents[i].key
           m == Min(Stops(tbl, k))
<1>1. /\ ents[i].slot \in 0..(C - 1) /\ tbl[ents[i].slot] = i - 1
      /\ Reaches(tbl, C, k, ents[i].slot) /\ i \in Nat \ {0}
      /\ tbl \in [0..(C - 1) -> Int]
  BY DEF TableSound, EntrySound
<1>2. ents[i].live
  BY DEF LiveOf
<1>3. Holds(i - 1, k)
  <2>1. i - 1 >= 0 /\ (i - 1) + 1 = i
    BY <1>1
  <2>2. QED
    BY <1>2, <2>1, Zenon DEF Holds
<1>4. PICK n \in 0..(C - 1) : /\ (hash[k] + n) % C = ents[i].slot
                              /\ \A q \in 0..(n - 1) : tbl[(hash[k] + q) % C] # kEmpty
  BY <1>1 DEF Reaches
<1>5. n \in Stops(tbl, k)
  <2>1. DOMAIN tbl = 0..(C - 1) /\ Probe(tbl, k, n) = (hash[k] + n) % C
    BY TableDomain DEF Probe
  <2>2. QED
    BY <1>1, <1>3, <1>4, <2>1, Zenon DEF Stops
<1> HIDE DEF k
<1>6. /\ m \in 0..(C - 1) /\ Probe(tbl, k, m) = (hash[k] + m) % C
      /\ tbl[(hash[k] + m) % C] = kEmpty \/ Holds(tbl[(hash[k] + m) % C], k)
      /\ \A q \in 0..(m - 1) : ~Holds(tbl[(hash[k] + q) % C], k)
  BY <1>5, FirstStop
<1> HIDE DEF m
<1>7. ~(n < m)
  <2>1. n < m => n \in 0..(m - 1)
    BY <1>4, <1>6
  <2>2. QED
    BY <1>1, <1>3, <1>4, <1>6, <2>1
<1> DEFINE v == tbl[(hash[k] + m) % C]
<1>8. ASSUME m = n
      PROVE  v = i - 1
  BY <1>1, <1>4, <1>8
<1>9. ASSUME m < n
      PROVE  v = i - 1
  <2>1. m \in 0..(n - 1) /\ C # 0 /\ m \in Nat
    BY <1>4, <1>6, <1>9
  <2>2. Holds(v, k)
    BY <1>4, <1>6, <2>1
  <2>3. (hash[k] + m) % C \in 0..(C - 1)
    <3>1. k \in Keys
      BY DEF EntriesSound, k
    <3>2. QED
      BY <2>1, <3>1, ProbeType
  <2>4. SlotSound(v, ents, LiveOf(ents), (hash[k] + m) % C) /\ v \in Int
    BY <2>3 DEF TableSound
  <2> HIDE DEF v
  <2>5. v >= 0 /\ ents[v + 1].key = k
    BY <2>2 DEF Holds
  <2>6. v + 1 \in LiveOf(ents)
    BY <2>4, <2>5 DEF SlotSound, kEmpty, kTomb
  <2>7. v + 1 = i
    BY <2>5, <2>6, Zenon DEF EntriesSound, k
  <2>8. QED
    BY <1>1, <2>4, <2>7 DEF v
<1>10. v = i - 1
  BY <1>4, <1>6, <1>7, <1>8, <1>9
<1>11. Stops(tbl, k) # {} /\ tbl[Probe(tbl, k, m)] = i - 1
  BY <1>5, <1>6, <1>10
<1>12. QED
  BY <1>11 DEF k, m

-----------------------------------------------------------------------------
(* acquireEntry()                                                          *)

\* One entry becomes live with a key nobody has.
LEMMA EntryAdded ==
  ASSUME NEW es, EntriesSound(es), NEW es2 \in Seq(Entry), NEW i \in DOMAIN es2, i \notin LiveOf(es),
         DOMAIN es \subseteq DOMAIN es2, DOMAIN es2 \subseteq DOMAIN es \cup {i},
         NEW k \in Keys, es2[i].key = k, es2[i].live,
         \A j \in DOMAIN es : j # i => es2[j] = es[j],
         \A j \in LiveOf(es) : es[j].key # k
  PROVE  /\ EntriesSound(es2) /\ LiveOf(es2) = LiveOf(es) \cup {i}
         /\ \A j \in LiveOf(es) : es2[j] = es[j]
<1>1. LiveOf(es2) = LiveOf(es) \cup {i}
  BY DEF LiveOf
<1>2. \A j \in LiveOf(es) : es2[j] = es[j]
  BY DEF LiveOf
<1>3. \A j \in LiveOf(es2) : es2[j].key \in Keys
  BY <1>1, <1>2 DEF EntriesSound
<1>4. ASSUME NEW a \in LiveOf(es2), NEW b \in LiveOf(es2), es2[a].key = es2[b].key
      PROVE  a = b
  BY <1>1, <1>2, <1>4 DEF EntriesSound
<1>5. QED
  BY <1>1, <1>2, <1>3, <1>4 DEF EntriesSound

\* What is left of the free list when its last index is taken.
LEMMA FrontOf ==
  ASSUME NEW s \in Seq(Nat), NEW l \in Nat \ {0}, l = Len(s)
  PROVE  /\ SubSeq(s, 1, l - 1) \in Seq(Nat) /\ Len(SubSeq(s, 1, l - 1)) = l - 1
         /\ \A a \in 1..(l - 1) : SubSeq(s, 1, l - 1)[a] = s[a]
<1>1. \A i \in 1..(l - 1) : s[i] \in Nat
  <2>1. \A i \in 1..(l - 1) : i \in 1..Len(s)
    OBVIOUS
  <2>2. QED
    BY <2>1, ElementOfSeq, Zenon
<1>2. 1 \in Int /\ l - 1 \in Int
  OBVIOUS
<1>3. /\ SubSeq(s, 1, l - 1) \in Seq(Nat)
      /\ Len(SubSeq(s, 1, l - 1)) = IF 1 <= l - 1 THEN l - 1 - 1 + 1 ELSE 0
      /\ \A i \in 1..(l - 1 - 1 + 1) : SubSeq(s, 1, l - 1)[i] = s[1 + i - 1]
  BY <1>1, <1>2, SubSeqProperties
<1>4. /\ l - 1 - 1 + 1 = l - 1 /\ (IF 1 <= l - 1 THEN l - 1 - 1 + 1 ELSE 0) = l - 1
      /\ \A i \in 1..(l - 1) : 1 + i - 1 = i
  OBVIOUS
<1>5. QED
  BY <1>3, <1>4

LEMMA AcquiredSound ==
  ASSUME EntriesSound(ents), FreeSound(free, ents), NEW k \in Keys, NEW at \in Nat,
         \A j \in LiveOf(ents) : ents[j].key # k
  PROVE  LET got == Acquired(k, at)
         IN  /\ got.idx \in Nat /\ got.idx + 1 \notin LiveOf(ents)
             /\ EntriesSound(got.ents) /\ LiveOf(got.ents) = LiveOf(ents) \cup {got.idx + 1}
             /\ got.ents[got.idx + 1].key = k /\ got.ents[got.idx + 1].slot = at
             /\ \A j \in LiveOf(ents) : got.ents[j] = ents[j]
             /\ FreeSound(got.free, got.ents)
<1> DEFINE e == [key |-> k, live |-> TRUE, slot |-> at]
           got == Acquired(k, at)
<1>1. e \in Entry /\ e.key = k /\ e.live /\ e.slot = at
  BY DEF Entry
<1>2. /\ ents \in Seq(Entry) /\ DOMAIN ents = 1..Len(ents) /\ Len(ents) \in Nat
      /\ LiveOf(ents) \subseteq 1..Len(ents)
  BY LiveFacts DEF EntriesSound
<1>3. /\ free \in Seq(Nat) /\ Len(free) \in Nat
      /\ \A a \in 1..Len(free) : free[a] + 1 \in DOMAIN ents /\ ~ents[free[a] + 1].live
      /\ \A a, b \in 1..Len(free) : free[a] = free[b] => a = b
  BY LenProperties DEF FreeSound
<1> HIDE DEF e
<1>4. CASE free # <<>>
  <2> DEFINE l == Len(free)
             x == free[l]
             es2 == [ents EXCEPT ![x + 1] = e]
             fr == SubSeq(free, 1, l - 1)
  <2>1. got = [idx |-> x, ents |-> es2, free |-> fr]
    BY <1>4 DEF Acquired, Last, Front, e
  <2>2. l \in 1..Len(free) /\ l \in Nat \ {0}
    BY <1>3, <1>4, EmptySeq
  <2>3. x \in Nat /\ x + 1 \in DOMAIN ents /\ ~ents[x + 1].live
    BY <1>3, <2>2, ElementOfSeq
  <2>4. fr \in Seq(Nat) /\ Len(fr) = l - 1 /\ \A a \in 1..(l - 1) : fr[a] = free[a]
    BY <1>3, <2>2, FrontOf
  <2> HIDE DEF l, x, fr
  <2>5. /\ es2 \in Seq(Entry) /\ DOMAIN es2 = DOMAIN ents /\ es2[x + 1] = e
        /\ \A j \in DOMAIN ents : j # x + 1 => es2[j] = ents[j]
    BY <1>1, <1>2, <2>3
  <2> HIDE DEF es2
  <2>6. x + 1 \notin LiveOf(ents)
    BY <2>3 DEF LiveOf
  <2>7. /\ EntriesSound(es2) /\ LiveOf(es2) = LiveOf(ents) \cup {x + 1}
        /\ \A j \in LiveOf(ents) : es2[j] = ents[j]
    BY <1>1, <2>3, <2>5, <2>6, EntryAdded
  <2>8. FreeSound(fr, es2)
    <3>1. ASSUME NEW a \in 1..Len(fr)
          PROVE  fr[a] + 1 \in DOMAIN es2 /\ ~es2[fr[a] + 1].live
      <4>1. a \in 1..(l - 1) /\ a \in 1..Len(free) /\ a # l
        BY <2>2, <2>4 DEF l
      <4>2. fr[a] = free[a] /\ free[a] # x /\ free[a] \in Nat
        BY <1>3, <2>2, <2>4, <4>1, ElementOfSeq DEF x
      <4>3. free[a] + 1 # x + 1
        BY <2>3, <4>2
      <4>4. QED
        BY <1>3, <2>5, <4>1, <4>2, <4>3
    <3>2. ASSUME NEW a \in 1..Len(fr), NEW b \in 1..Len(fr), fr[a] = fr[b]
          PROVE  a = b
      <4>1. a \in 1..(l - 1) /\ a \in 1..Len(free) /\ b \in 1..(l - 1) /\ b \in 1..Len(free)
        BY <2>2, <2>4 DEF l
      <4>2. free[a] = free[b]
        BY <2>4, <3>2, <4>1
      <4>3. QED
        BY <1>3, <4>1, <4>2
    <3>3. QED
      BY <2>4, <3>1, <3>2 DEF FreeSound
  <2>9. QED
    BY <1>1, <2>1, <2>3, <2>5, <2>6, <2>7, <2>8
<1>5. CASE free = <<>>
  <2> DEFINE x == Len(ents)
             es2 == Append(ents, e)
  <2>1. got = [idx |-> x, ents |-> es2, free |-> free]
    BY <1>5 DEF Acquired, e
  <2>2. /\ es2 \in Seq(Entry) /\ DOMAIN es2 = 1..(x + 1) /\ es2[x + 1] = e
        /\ \A j \in 1..x : es2[j] = ents[j]
    BY <1>1, <1>2, AppendProperties, LenProperties
  <2>3. /\ x \in Nat /\ x + 1 \in 1..(x + 1) /\ x + 1 \notin 1..x
        /\ 1..x \subseteq 1..(x + 1) /\ 1..(x + 1) \subseteq 1..x \cup {x + 1}
    BY <1>2
  <2> HIDE DEF es2
  <2>4. x + 1 \notin LiveOf(ents)
    BY <1>2, <2>3
  <2>5. /\ EntriesSound(es2) /\ LiveOf(es2) = LiveOf(ents) \cup {x + 1}
        /\ \A j \in LiveOf(ents) : es2[j] = ents[j]
    BY <1>1, <1>2, <2>2, <2>3, <2>4, EntryAdded
  <2>6. FreeSound(free, es2)
    BY <1>3, <1>5 DEF FreeSound
  <2> HIDE DEF x
  <2>7. QED
    BY <1>1, <2>1, <2>2, <2>3, <2>4, <2>5, <2>6
<1>6. QED
  BY <1>4, <1>5

-----------------------------------------------------------------------------
(* Steps                                                                   *)

\* A step that leaves sound parts leaves the invariant.
LEMMA InvAfter ==
  ASSUME hash \in [Keys -> Nat], hash' = hash, NEW C \in Nat,
         NEW tbl, NEW es, NEW fr, NEW sz, NEW tb,
         slots' = tbl, ents' = es, free' = fr, size' = sz, tomb' = tb,
         EntriesSound(es), TableSound(tbl, C, es, LiveOf(es)), FreeSound(fr, es),
         sz = Cardinality(LiveOf(es)), tb = Cardinality(Tombs(tbl)), sz * 10 <= C * 7
  PROVE  Inv'
<1>1. Capacity' = C
  BY TableDomain DEF Capacity
<1>2. TableSound(tbl, C, es, LiveOf(es))'
  <2>1. \A k, at : Reaches(tbl, C, k, at)' <=> Reaches(tbl, C, k, at)
    BY Zenon DEF Reaches
  <2>2. \A e, i : EntrySound(tbl, C, e, i)' <=> EntrySound(tbl, C, e, i)
    BY <2>1, Zenon DEF EntrySound
  <2>3. QED
    BY <2>2, Zenon DEF TableSound
<1>3. TableSound(slots, Capacity, ents, LiveOf(ents))'
  BY <1>1, <1>2, Zenon
<1>4. EntriesSound(ents)' /\ FreeSound(free, ents)'
  BY Zenon DEF EntriesSound, FreeSound, LiveOf
<1>5. Counted'
  BY <1>1 DEF Counted, LiveOf, Tombs
<1>6. QED
  BY <1>1, <1>3, <1>4, <1>5 DEF Inv

LEMMA TombsFinite ==
  ASSUME NEW tbl, NEW C \in Nat, NEW es, NEW L, TableSound(tbl, C, es, L)
  PROVE  IsFiniteSet(Tombs(tbl)) /\ Cardinality(Tombs(tbl)) \in Nat
<1>1. DOMAIN tbl = 0..(C - 1)
  BY TableDomain
<1>2. IsFiniteSet(0..(C - 1))
  BY FS_Interval
<1>3. IsFiniteSet(Tombs(tbl))
  BY <1>1, <1>2, FS_Subset DEF Tombs
<1>4. QED
  BY <1>3, FS_CardinalityType

\* A rehash that has room keeps the entries and drops the tombstones.
LEMMA RehashStep ==
  ASSUME hash \in [Keys -> Nat], hash' = hash, NEW C \in Nat \ {0}, NEW es, NEW fr,
         EntriesSound(es), FreeSound(fr, es), Cardinality(LiveOf(es)) * 10 <= C * 7,
         slots' = Rehashed(es, C).tbl, ents' = Rehashed(es, C).ents, free' = fr,
         size' = Cardinality(LiveOf(es)), tomb' = 0
  PROVE  /\ Inv'
         /\ LiveOf(ents') = LiveOf(es)
         /\ \A i \in LiveOf(es) : ents'[i].key = es[i].key
<1> DEFINE tbl == Rehashed(es, C).tbl
           es2 == Rehashed(es, C).ents
           n == Cardinality(LiveOf(es))
<1>1. n \in Nat /\ es \in Seq(Entry) /\ DOMAIN es = 1..Len(es)
  BY LiveFacts DEF EntriesSound
<1> HIDE DEF n
<1>2. n <= C /\ n * 10 <= C * 7
  BY <1>1 DEF n
<1>3. /\ TableSound(tbl, C, es2, LiveOf(es)) /\ SameEntries(es2, es)
      /\ \A s \in 0..(C - 1) : tbl[s] # kTomb
  BY <1>2, RehashSound DEF n
<1> HIDE DEF tbl, es2
<1>4. EntriesSound(es2) /\ LiveOf(es2) = LiveOf(es) /\ FreeSound(fr, es2)
  BY <1>3, SameEntriesSound
<1>5. Tombs(tbl) = {}
  <2>1. DOMAIN tbl = 0..(C - 1)
    BY <1>3, TableDomain
  <2>2. QED
    BY <1>3, <2>1 DEF Tombs
<1>6. 0 = Cardinality(Tombs(tbl))
  BY <1>5, FS_EmptySet
<1>7. \A i \in LiveOf(es) : es2[i].key = es[i].key
  BY <1>1, <1>3 DEF SameEntries, LiveOf
<1>8. Inv'
  <2>1. slots' = tbl /\ ents' = es2 /\ size' = n
    BY DEF tbl, es2, n
  <2>2. TableSound(tbl, C, es2, LiveOf(es2)) /\ n = Cardinality(LiveOf(es2)) /\ C \in Nat
    BY <1>3, <1>4 DEF n
  <2>3. QED
    BY <1>2, <1>4, <1>6, <2>1, <2>2, InvAfter
<1>9. QED
  BY <1>4, <1>7, <1>8 DEF es2

LEMMA InitInv ==
  Init => Inv
<1> SUFFICES ASSUME Init PROVE Inv
  OBVIOUS
<1>1. hash \in [Keys -> Nat] /\ slots = <<>> /\ ents = <<>> /\ free = <<>> /\ size = 0 /\ tomb = 0
  BY CapacityAssumption DEF Init
<1>2. DOMAIN slots = {} /\ 0..(0 - 1) = {}
  BY <1>1
<1>3. Capacity = 0 /\ Tombs(slots) = {} /\ Cardinality({}) = 0
  BY <1>2, FS_EmptySet DEF Capacity, Tombs
<1>4. LiveOf(ents) = {} /\ EntriesSound(ents) /\ FreeSound(free, ents)
  BY <1>1 DEF LiveOf, EntriesSound, FreeSound
<1>5. TableSound(slots, 0, ents, {})
  <2>1. slots \in [0..(0 - 1) -> Int]
    BY <1>1, <1>2
  <2>2. \A s \in 0..(0 - 1) : FALSE
    BY <1>2
  <2>3. QED
    BY <2>1, <2>2 DEF TableSound
<1>6. Counted
  <2>1. size = Cardinality(LiveOf(ents)) /\ tomb = Cardinality(Tombs(slots))
    BY <1>1, <1>3, <1>4, Zenon
  <2>2. size * 10 <= Capacity * 7
    BY <1>1, <1>3
  <2>3. QED
    BY <2>1, <2>2 DEF Counted
<1>7. QED
  BY <1>1, <1>3, <1>4, <1>5, <1>6 DEF Inv

\* The parts of the invariant, with the numbers that are counted.
LEMMA InvParts ==
  ASSUME Inv
  PROVE  /\ hash \in [Keys -> Nat] /\ Capacity \in Nat
         /\ EntriesSound(ents) /\ FreeSound(free, ents)
         /\ TableSound(slots, Capacity, ents, LiveOf(ents))
         /\ size = Cardinality(LiveOf(ents)) /\ tomb = Cardinality(Tombs(slots))
         /\ size \in Nat /\ tomb \in Nat /\ size * 10 <= Capacity * 7
         /\ IsFiniteSet(LiveOf(ents)) /\ IsFiniteSet(Tombs(slots))
         /\ ents \in Seq(Entry) /\ DOMAIN ents = 1..Len(ents) /\ Len(ents) \in Nat
         /\ LiveOf(ents) \subseteq 1..Len(ents) /\ DOMAIN slots = 0..(Capacity - 1)
<1>1. /\ hash \in [Keys -> Nat] /\ Capacity \in Nat
      /\ EntriesSound(ents) /\ FreeSound(free, ents)
      /\ TableSound(slots, Capacity, ents, LiveOf(ents))
      /\ size = Cardinality(LiveOf(ents)) /\ tomb = Cardinality(Tombs(slots))
      /\ size * 10 <= Capacity * 7
  BY DEF Inv, Counted
<1>2. ents \in Seq(Entry)
  BY <1>1 DEF EntriesSound
<1>3. /\ DOMAIN ents = 1..Len(ents) /\ Len(ents) \in Nat /\ LiveOf(ents) \subseteq 1..Len(ents)
      /\ IsFiniteSet(LiveOf(ents)) /\ Cardinality(LiveOf(ents)) \in Nat
  BY <1>2, LiveFacts
<1>4. IsFiniteSet(Tombs(slots)) /\ Cardinality(Tombs(slots)) \in Nat
  BY <1>1, TombsFinite
<1>5. DOMAIN slots = 0..(Capacity - 1)
  BY <1>1, TableDomain
<1>6. QED
  BY <1>1, <1>2, <1>3, <1>4, <1>5

\* What a step does to the live entries: nothing, one more, one less, none left.
KeepsEntries ==
  /\ LiveOf(ents') = LiveOf(ents)
  /\ \A i \in LiveOf(ents) : ents'[i].key = ents[i].key
AddsEntry(k) ==
  \E i : /\ i \notin LiveOf(ents) /\ LiveOf(ents') = LiveOf(ents) \cup {i}
         /\ ents'[i].key = k
         /\ \A j \in LiveOf(ents) : ents'[j].key = ents[j].key /\ ents[j].key # k
DropsEntry(k) ==
  \E i \in LiveOf(ents) :
     /\ LiveOf(ents') = LiveOf(ents) \ {i} /\ ents[i].key = k
     /\ \A j \in LiveOf(ents) \ {i} : ents'[j].key = ents[j].key

LEMMA ReserveKeeps ==
  ASSUME Inv, NEW cap \in {MinCapacity, MaxCapacity}, Reserve(cap)
  PROVE  Inv' /\ KeepsEntries
<1>1. /\ hash \in [Keys -> Nat] /\ Capacity \in Nat /\ EntriesSound(ents) /\ FreeSound(free, ents)
      /\ size = Cardinality(LiveOf(ents)) /\ size \in Nat /\ size * 10 <= Capacity * 7
  BY InvParts
<1>2. /\ cap > Capacity /\ slots' = Rehashed(ents, cap).tbl /\ ents' = Rehashed(ents, cap).ents
      /\ tomb' = 0 /\ hash' = hash /\ free' = free /\ size' = size
  BY DEF Reserve
<1>3. cap \in Nat
  BY CapacityAssumption
<1>4. cap \in Nat \ {0} /\ size * 10 <= cap * 7
  BY <1>1, <1>2, <1>3
<1>5. Cardinality(LiveOf(ents)) * 10 <= cap * 7 /\ size' = Cardinality(LiveOf(ents))
  BY <1>1, <1>2, <1>4
<1>6. QED
  BY <1>1, <1>2, <1>4, <1>5, RehashStep DEF KeepsEntries

LEMMA ClearKeeps ==
  ASSUME Inv, Clear
  PROVE  Inv' /\ LiveOf(ents') = {}
<1> DEFINE C == Capacity
           tbl == [p \in 0..(C - 1) |-> kEmpty]
<1>1. hash \in [Keys -> Nat] /\ C \in Nat /\ DOMAIN slots = 0..(C - 1)
  BY InvParts
<1>2. /\ slots' = tbl /\ ents' = <<>> /\ free' = <<>> /\ size' = 0 /\ tomb' = 0 /\ hash' = hash
  BY <1>1 DEF Clear
<1>3. LiveOf(<<>>) = {} /\ EntriesSound(<<>>) /\ FreeSound(<<>>, <<>>)
  BY DEF LiveOf, EntriesSound, FreeSound
<1>4. TableSound(tbl, C, <<>>, LiveOf(<<>>))
  BY <1>1, <1>3, EmptyTable
<1>5. Tombs(tbl) = {}
  BY DEF Tombs, kEmpty, kTomb
<1>6. 0 = Cardinality(LiveOf(<<>>)) /\ 0 = Cardinality(Tombs(tbl)) /\ 0 * 10 <= C * 7
  <2>1. 0 = Cardinality(LiveOf(<<>>)) /\ 0 = Cardinality(Tombs(tbl))
    BY <1>3, <1>5, FS_EmptySet, Zenon
  <2>2. 0 * 10 <= C * 7
    BY <1>1
  <2>3. QED
    BY <2>1, <2>2
<1> HIDE DEF C, tbl
<1>7. Inv'
  BY <1>1, <1>2, <1>3, <1>4, <1>6, InvAfter
<1>8. QED
  BY <1>2, <1>3, <1>7

LEMMA SameVarsKeep ==
  ASSUME Inv, UNCHANGED <<hash, slots, ents, free, size, tomb>>
  PROVE  Inv' /\ KeepsEntries
<1>1. Inv'
  BY DEF Inv, Capacity, EntriesSound, TableSound, EntrySound, SlotSound, Reaches, FreeSound,
         Counted, Tombs, LiveOf
<1>2. QED
  BY <1>1 DEF KeepsEntries

\* One entry dies and its index joins the free list.
Dropped(es, s) ==
  [es EXCEPT ![s + 1] = [key |-> NoKey, live |-> FALSE, slot |-> es[s + 1].slot]]

LEMMA EntryDropped ==
  ASSUME NEW es, EntriesSound(es), NEW s \in Nat, s + 1 \in LiveOf(es)
  PROVE  /\ EntriesSound(Dropped(es, s)) /\ LiveOf(Dropped(es, s)) = LiveOf(es) \ {s + 1}
         /\ \A j \in LiveOf(es) \ {s + 1} : Dropped(es, s)[j] = es[j]
         /\ \A fr : FreeSound(fr, es) => FreeSound(Append(fr, s), Dropped(es, s))
<1> DEFINE es2 == Dropped(es, s)
           d == [key |-> NoKey, live |-> FALSE, slot |-> es[s + 1].slot]
<1>1. es \in Seq(Entry) /\ DOMAIN es = 1..Len(es) /\ s + 1 \in DOMAIN es /\ es[s + 1].live
  BY LiveFacts DEF EntriesSound, LiveOf
<1>2. d \in Entry /\ ~d.live
  <2>1. es[s + 1] \in Entry
    BY <1>1, ElementOfSeq
  <2>2. QED
    BY <2>1 DEF Entry
<1>3. /\ es2 \in Seq(Entry) /\ DOMAIN es2 = DOMAIN es /\ es2[s + 1] = d
      /\ \A j \in DOMAIN es : j # s + 1 => es2[j] = es[j]
  <2> HIDE DEF d
  <2>1. es2 = [es EXCEPT ![s + 1] = d]
    BY DEF d, Dropped
  <2>2. QED
    BY <1>1, <1>2, <2>1
<1> HIDE DEF d, es2
<1>4. LiveOf(es2) = LiveOf(es) \ {s + 1}
  BY <1>1, <1>2, <1>3 DEF LiveOf
<1>5. \A j \in LiveOf(es) \ {s + 1} : es2[j] = es[j]
  BY <1>3 DEF LiveOf
<1>6. EntriesSound(es2)
  BY <1>3, <1>4, <1>5 DEF EntriesSound
<1>7. ASSUME NEW fr, FreeSound(fr, es)
      PROVE  FreeSound(Append(fr, s), es2)
  <2> DEFINE f2 == Append(fr, s)
             l == Len(fr)
  <2>1. /\ fr \in Seq(Nat) /\ l \in Nat
        /\ \A a \in 1..l : fr[a] + 1 \in DOMAIN es /\ ~es[fr[a] + 1].live
        /\ \A a, b \in 1..l : fr[a] = fr[b] => a = b
    BY <1>7, LenProperties DEF FreeSound
  <2>2. f2 \in Seq(Nat) /\ Len(f2) = l + 1 /\ f2[l + 1] = s /\ \A a \in 1..l : f2[a] = fr[a]
    BY <2>1, AppendProperties
  <2> HIDE DEF f2, l
  <2>3. \A a \in 1..l : fr[a] \in Nat /\ fr[a] # s /\ fr[a] + 1 # s + 1
    <3>1. \A a \in 1..l : fr[a] \in Nat
      BY <2>1, ElementOfSeq DEF l
    <3>2. \A a \in 1..l : fr[a] # s
      BY <1>1, <2>1
    <3>3. QED
      BY <3>1, <3>2
  <2>4. \A a \in 1..(l + 1) : a \in 1..l \/ a = l + 1
    BY <2>1
  <2>5. \A a \in 1..(l + 1) : f2[a] + 1 \in DOMAIN es2 /\ ~es2[f2[a] + 1].live
    <3>1. \A a \in 1..l : fr[a] + 1 \in DOMAIN es2 /\ ~es2[fr[a] + 1].live
      BY <1>3, <2>1, <2>3
    <3>2. s + 1 \in DOMAIN es2 /\ ~es2[s + 1].live
      BY <1>1, <1>2, <1>3
    <3>3. QED
      BY <2>2, <2>4, <3>1, <3>2, Zenon
  <2>6. ASSUME NEW a \in 1..(l + 1), NEW b \in 1..(l + 1), f2[a] = f2[b]
        PROVE  a = b
    BY <2>1, <2>2, <2>3, <2>4, <2>6
  <2>7. QED
    BY <2>2, <2>5, <2>6 DEF FreeSound, f2
<1>8. QED
  BY <1>4, <1>5, <1>6, <1>7 DEF es2

LEMMA EraseKeeps ==
  ASSUME Inv, NEW k \in Keys, Erase(k)
  PROVE  Inv' /\ DropsEntry(k)
<1> DEFINE C == Capacity
           n == Min(Stops(slots, k))
           p == (hash[k] + n) % C
           s == slots[p]
           es == Dropped(ents, s)
           L == LiveOf(ents)
           fr == Append(free, s)
<1>1. /\ hash \in [Keys -> Nat] /\ C \in Nat /\ EntriesSound(ents) /\ FreeSound(free, ents)
      /\ TableSound(slots, C, ents, L)
      /\ size = Cardinality(L) /\ tomb = Cardinality(Tombs(slots))
      /\ size \in Nat /\ tomb \in Nat /\ size * 10 <= C * 7
      /\ IsFiniteSet(L) /\ IsFiniteSet(Tombs(slots)) /\ DOMAIN slots = 0..(C - 1)
  BY InvParts
<1>2. C > 0 /\ Stops(slots, k) # {}
  BY DEF Erase
<1> HIDE DEF C
<1>3. /\ n \in 0..(C - 1) /\ Probe(slots, k, n) = p
      /\ slots[p] = kEmpty \/ Holds(slots[p], k)
  BY <1>1, <1>2, FirstStop
<1>4. p \in 0..(C - 1)
  <2>1. n \in Nat /\ C # 0
    BY <1>2, <1>3
  <2> HIDE DEF n
  <2>2. QED
    BY <1>1, <2>1, ProbeType
<1>5. /\ s # kEmpty /\ hash' = hash /\ free' = fr /\ size' = size - 1
      /\ slots' = IF (tomb + 1) * 2 > C THEN Rehashed(es, C).tbl
                  ELSE [slots EXCEPT ![ents[s + 1].slot] = kTomb]
      /\ ents' = IF (tomb + 1) * 2 > C THEN Rehashed(es, C).ents ELSE es
      /\ tomb' = IF (tomb + 1) * 2 > C THEN 0 ELSE tomb + 1
  BY <1>3, Zenon DEF Erase, C, Dropped
<1> HIDE DEF n, p
<1>6. s \in Int /\ SlotSound(s, ents, L, p)
  BY <1>1, <1>4 DEF TableSound
<1> HIDE DEF s
<1>7. s \in Nat /\ s + 1 \in L /\ ents[s + 1].key = k /\ ents[s + 1].slot = p
  <2>1. s >= 0 /\ ents[s + 1].key = k
    BY <1>3, <1>5 DEF Holds, s
  <2>2. QED
    BY <1>6, <2>1 DEF SlotSound, kEmpty, kTomb
<1>8. /\ EntriesSound(es) /\ LiveOf(es) = L \ {s + 1}
      /\ \A j \in L \ {s + 1} : es[j] = ents[j]
      /\ FreeSound(fr, es)
  BY <1>1, <1>7, EntryDropped
<1> HIDE DEF es, fr, L
<1>9. Cardinality(LiveOf(es)) = size - 1 /\ size - 1 \in Nat /\ (size - 1) * 10 <= C * 7
  <2>1. Cardinality(L \ {s + 1}) = Cardinality(L) - 1
    BY <1>1, <1>7, FS_RemoveElement
  <2>2. IsFiniteSet(L \ {s + 1})
    BY <1>1, FS_RemoveElement
  <2>3. Cardinality(L \ {s + 1}) \in Nat
    BY <2>2, FS_CardinalityType
  <2>4. QED
    BY <1>1, <1>8, <2>1, <2>3
<1>10. CASE (tomb + 1) * 2 > C
  <2>1. /\ slots' = Rehashed(es, C).tbl /\ ents' = Rehashed(es, C).ents /\ tomb' = 0
        /\ free' = fr /\ hash' = hash /\ size' = Cardinality(LiveOf(es))
    BY <1>5, <1>9, <1>10
  <2>2. C \in Nat \ {0} /\ Cardinality(LiveOf(es)) * 10 <= C * 7
    BY <1>1, <1>2, <1>9
  <2>3. Inv' /\ LiveOf(ents') = LiveOf(es) /\ \A i \in LiveOf(es) : ents'[i].key = es[i].key
    BY <1>1, <1>8, <2>1, <2>2, RehashStep
  <2>4. QED
    BY <1>7, <1>8, <2>3 DEF DropsEntry, L
<1>11. CASE ~((tomb + 1) * 2 > C)
  <2> DEFINE tbl == [slots EXCEPT ![p] = kTomb]
  <2>1. slots' = tbl /\ ents' = es /\ tomb' = tomb + 1 /\ free' = fr /\ hash' = hash /\ size' = size - 1
    BY <1>5, <1>7, <1>11
  <2>2. TableSound(tbl, C, es, LiveOf(es))
    <3>1. TableSound([slots EXCEPT ![ents[s + 1].slot] = kTomb], C, es, L \ {s + 1})
      BY <1>1, <1>7, <1>8, EntryRemoved
    <3>2. QED
      BY <1>7, <1>8, <3>1
  <2>3. tomb + 1 = Cardinality(Tombs(tbl))
    <3>1. p \notin Tombs(slots)
      BY <1>7 DEF Tombs, kTomb, s
    <3>2. Tombs(tbl) = Tombs(slots) \cup {p}
      BY <1>1, <1>4 DEF Tombs
    <3>3. Cardinality(Tombs(slots) \cup {p}) = Cardinality(Tombs(slots)) + 1
      BY <1>1, <3>1, FS_AddElement
    <3>4. QED
      BY <1>1, <3>2, <3>3
  <2> HIDE DEF tbl
  <2>4. Inv'
    BY <1>1, <1>8, <1>9, <2>1, <2>2, <2>3, InvAfter
  <2>5. QED
    BY <1>7, <1>8, <2>1, <2>4 DEF DropsEntry, L
<1>12. QED
  BY <1>10, <1>11

\* The table emplace() works on: the first one, or the one that is there.
TableForInsert == IF Capacity = 0 THEN [i \in 0..(MinCapacity - 1) |-> kEmpty] ELSE slots

LEMMA TableForInsertSound ==
  ASSUME Inv
  PROVE  \E C \in Nat \ {0} :
           /\ C = Cardinality(DOMAIN TableForInsert)
           /\ TableSound(TableForInsert, C, ents, LiveOf(ents))
           /\ tomb = Cardinality(Tombs(TableForInsert)) /\ IsFiniteSet(Tombs(TableForInsert))
           /\ size * 10 <= C * 7
<1>1. /\ Capacity \in Nat /\ TableSound(slots, Capacity, ents, LiveOf(ents))
      /\ size = Cardinality(LiveOf(ents)) /\ tomb = Cardinality(Tombs(slots))
      /\ size \in Nat /\ size * 10 <= Capacity * 7
      /\ IsFiniteSet(LiveOf(ents)) /\ IsFiniteSet(Tombs(slots)) /\ DOMAIN slots = 0..(Capacity - 1)
  BY InvParts
<1>2. CASE Capacity = 0
  <2> DEFINE t == [i \in 0..(MinCapacity - 1) |-> kEmpty]
  <2>1. TableForInsert = t
    BY <1>2 DEF TableForInsert
  <2>2. MinCapacity \in Nat \ {0} /\ MinCapacity \in Nat
    BY CapacityAssumption
  <2>3. size = 0
    BY <1>1, <1>2
  <2>4. LiveOf(ents) = {}
    BY <1>1, <2>3, FS_EmptySet
  <2>5. TableSound(t, MinCapacity, ents, LiveOf(ents))
    BY <2>2, <2>4, EmptyTable
  <2>6. Tombs(t) = {}
    BY DEF Tombs, kEmpty, kTomb
  <2>7. Tombs(slots) = {}
    BY <1>1, <1>2 DEF Tombs
  <2> HIDE DEF t
  <2>8. tomb = Cardinality(Tombs(t)) /\ IsFiniteSet(Tombs(t))
    BY <1>1, <2>6, <2>7, FS_EmptySet
  <2>9. MinCapacity = Cardinality(DOMAIN t)
    BY <2>2, <2>5, TableDomain
  <2>10. size * 10 <= MinCapacity * 7
    BY <2>2, <2>3
  <2>11. QED
    BY <2>1, <2>2, <2>5, <2>8, <2>9, <2>10
<1>3. CASE Capacity # 0
  <2>1. TableForInsert = slots /\ Capacity \in Nat \ {0}
    BY <1>1, <1>3 DEF TableForInsert
  <2>2. Capacity = Cardinality(DOMAIN slots)
    BY DEF Capacity
  <2>3. QED
    BY <1>1, <2>1, <2>2
<1>4. QED
  BY <1>2, <1>3

\* The slot the new entry takes is empty or a tombstone, and its probe comes to it.
LEMMA InsertSlotSound ==
  ASSUME hash \in [Keys -> Nat], NEW tbl, NEW C \in Nat \ {0}, NEW es, NEW L, TableSound(tbl, C, es, L),
         NEW k \in Keys, Stops(tbl, k) # {}, tbl[Probe(tbl, k, Min(Stops(tbl, k)))] = kEmpty
  PROVE  LET at == InsertSlot(tbl, k, Min(Stops(tbl, k)))
         IN  /\ at \in 0..(C - 1) /\ (tbl[at] = kEmpty \/ tbl[at] = kTomb)
             /\ Reaches(tbl, C, k, at)
<1> DEFINE n == Min(Stops(tbl, k))
           at == InsertSlot(tbl, k, n)
           T == {m \in 0..(n - 1) : tbl[Probe(tbl, k, m)] = kTomb}
           q == IF T = {} THEN n ELSE Min(T)
<1>1. \A m : Probe(tbl, k, m) = (hash[k] + m) % C
  BY TableDomain DEF Probe
<1>2. /\ n \in 0..(C - 1)
      /\ \A m \in 0..(n - 1) : tbl[(hash[k] + m) % C] # kEmpty
  BY FirstStop
<1>3. tbl[(hash[k] + n) % C] = kEmpty
  BY <1>1
<1> HIDE DEF n
<1>4. at = (hash[k] + q) % C
  <2>1. at = Probe(tbl, k, q)
    BY DEF InsertSlot
  <2> HIDE DEF at, q
  <2>2. QED
    BY <1>1, <2>1, Zenon
<1>5. /\ q \in 0..(C - 1) /\ (q = n \/ q \in 0..(n - 1))
      /\ tbl[(hash[k] + q) % C] = kEmpty \/ tbl[(hash[k] + q) % C] = kTomb
  <2>1. CASE T = {}
    BY <1>2, <1>3, <2>1
  <2>2. CASE T # {}
    <3>1. T \subseteq Nat
      BY <1>2
    <3>2. Min(T) \in T
      <4> HIDE DEF T
      <4>1. QED
        BY <2>2, <3>1, MinOfSet
    <3>3. q \in 0..(n - 1) /\ tbl[(hash[k] + q) % C] = kTomb
      BY <1>1, <2>2, <3>2
    <3> HIDE DEF q
    <3>4. q \in 0..(C - 1)
      BY <1>2, <3>3
    <3>5. QED
      BY <3>3, <3>4
  <2>3. QED
    BY <2>1, <2>2
<1> HIDE DEF q, at
<1>6. at \in 0..(C - 1)
  <2>1. q \in Nat /\ C # 0 /\ C \in Nat
    BY <1>5
  <2>2. QED
    BY <1>4, <2>1, ProbeType
<1>7. Reaches(tbl, C, k, at)
  <2>1. \A m \in 0..(q - 1) : m \in 0..(n - 1)
    BY <1>2, <1>5
  <2>2. \A m \in 0..(q - 1) : tbl[(hash[k] + m) % C] # kEmpty
    BY <1>2, <2>1
  <2>3. QED
    BY <1>4, <1>5, <2>2 DEF Reaches
<1>8. QED
  BY <1>4, <1>5, <1>6, <1>7 DEF at, n

LEMMA InsertKeeps ==
  ASSUME Inv, NEW k \in Keys, Insert(k)
  PROVE  Inv' /\ AddsEntry(k)
<1> DEFINE tbl == TableForInsert
           n == Min(Stops(tbl, k))
           at == InsertSlot(tbl, k, n)
           got == Acquired(k, at)
           i == got.idx + 1
           L == LiveOf(ents)
<1>1. /\ hash \in [Keys -> Nat] /\ EntriesSound(ents) /\ FreeSound(free, ents)
      /\ size = Cardinality(L) /\ size \in Nat /\ tomb \in Nat /\ IsFiniteSet(L)
  BY InvParts
<1>2. PICK C \in Nat \ {0} :
        /\ C = Cardinality(DOMAIN tbl) /\ TableSound(tbl, C, ents, L)
        /\ tomb = Cardinality(Tombs(tbl)) /\ IsFiniteSet(Tombs(tbl)) /\ size * 10 <= C * 7
  BY TableForInsertSound
<1>3. /\ Stops(tbl, k) # {} /\ tbl[Probe(tbl, k, n)] = kEmpty
      /\ slots' = IF (size + 1) * 10 > C * 7 THEN Rehashed(got.ents, 2 * C).tbl
                  ELSE [tbl EXCEPT ![at] = got.idx]
      /\ ents' = IF (size + 1) * 10 > C * 7 THEN Rehashed(got.ents, 2 * C).ents ELSE got.ents
      /\ tomb' = IF (size + 1) * 10 > C * 7 THEN 0 ELSE IF tbl[at] = kTomb THEN tomb - 1 ELSE tomb
      /\ free' = got.free /\ size' = size + 1 /\ hash' = hash
  BY <1>2, Zenon DEF Insert, TableForInsert
<1> HIDE DEF tbl
<1>4. C \in Nat
  OBVIOUS
<1>5. /\ at \in 0..(C - 1) /\ (tbl[at] = kEmpty \/ tbl[at] = kTomb)
      /\ Reaches(tbl, C, k, at)
  BY <1>1, <1>2, <1>3, InsertSlotSound
<1>6. ASSUME NEW j \in L
      PROVE  ents[j].key # k
  <2> SUFFICES ASSUME ents[j].key = k PROVE FALSE
    OBVIOUS
  <2>1. tbl[Probe(tbl, k, n)] = j - 1
    BY <1>1, <1>2, <1>4, ProbeFinds
  <2>2. j \in Nat \ {0}
    BY <1>2 DEF TableSound
  <2>3. QED
    BY <1>3, <2>1, <2>2 DEF kEmpty
<1> HIDE DEF n, at
<1>7. at \in Nat
  BY <1>5
<1>8. /\ got.idx \in Nat /\ i \notin L
      /\ EntriesSound(got.ents) /\ LiveOf(got.ents) = L \cup {i}
      /\ got.ents[i].key = k /\ got.ents[i].slot = at
      /\ \A j \in L : got.ents[j] = ents[j]
      /\ FreeSound(got.free, got.ents)
  BY <1>1, <1>6, <1>7, AcquiredSound
<1> DEFINE es == got.ents
           fr == got.free
           x == got.idx
<1> HIDE DEF got, L
<1>9. i \in Nat \ {0} /\ i - 1 = x
  BY <1>8
<1> HIDE DEF i
<1>10. Cardinality(LiveOf(es)) = size + 1
  <2>1. Cardinality(L \cup {i}) = Cardinality(L) + 1
    BY <1>1, <1>8, FS_AddElement
  <2>2. QED
    BY <1>1, <1>8, <2>1
<1> HIDE DEF es, fr, x
<1>11. /\ EntriesSound(es) /\ LiveOf(es) = L \cup {i} /\ FreeSound(fr, es)
       /\ es[i].key = k /\ es[i].slot = at /\ \A j \in L : es[j] = ents[j]
  BY <1>8 DEF es, fr
<1>12. /\ slots' = IF (size + 1) * 10 > C * 7 THEN Rehashed(es, 2 * C).tbl ELSE [tbl EXCEPT ![at] = x]
       /\ ents' = IF (size + 1) * 10 > C * 7 THEN Rehashed(es, 2 * C).ents ELSE es
       /\ free' = fr
  BY <1>3 DEF es, fr, x
<1>13. CASE (size + 1) * 10 > C * 7
  <2> DEFINE D == 2 * C
  <2>1. /\ slots' = Rehashed(es, D).tbl /\ ents' = Rehashed(es, D).ents /\ tomb' = 0
        /\ free' = fr /\ hash' = hash /\ size' = Cardinality(LiveOf(es))
    BY <1>3, <1>10, <1>12, <1>13
  <2>2. D \in Nat \ {0} /\ Cardinality(LiveOf(es)) * 10 <= D * 7
    BY <1>1, <1>2, <1>10
  <2> HIDE DEF D
  <2>3. Inv' /\ LiveOf(ents') = LiveOf(es) /\ \A j \in LiveOf(es) : ents'[j].key = es[j].key
    BY <1>1, <1>11, <2>1, <2>2, RehashStep
  <2>4. QED
    BY <1>6, <1>8, <1>11, <2>3 DEF AddsEntry, L
<1>14. CASE ~((size + 1) * 10 > C * 7)
  <2> DEFINE t2 == [tbl EXCEPT ![at] = i - 1]
             tb == IF tbl[at] = kTomb THEN tomb - 1 ELSE tomb
  <2>1. slots' = t2 /\ ents' = es /\ tomb' = tb /\ free' = fr /\ hash' = hash /\ size' = size + 1
    BY <1>3, <1>9, <1>12, <1>14
  <2>2. TableSound(t2, C, es, LiveOf(es))
    <3>1. Reaches(tbl, C, es[i].key, at)
      BY <1>5, <1>11
    <3>2. \A j \in L : es[j].key = ents[j].key /\ es[j].slot = ents[j].slot
      BY <1>11
    <3>3. /\ TableSound(tbl, C, ents, L) /\ at \in 0..(C - 1) /\ (tbl[at] = kEmpty \/ tbl[at] = kTomb)
          /\ i \in Nat \ {0} /\ i \notin L /\ es[i].slot = at
      BY <1>2, <1>5, <1>8, <1>9, <1>11
    <3>4. TableSound([tbl EXCEPT ![at] = i - 1], C, es, L \cup {i})
      BY <1>4, <3>1, <3>2, <3>3, EntryPlaced
    <3>5. QED
      BY <1>11, <3>4
  <2>3. tb = Cardinality(Tombs(t2))
    <3>1. Tombs(t2) = Tombs(tbl) \ {at}
      <4>1. tbl \in [0..(C - 1) -> Int] /\ i - 1 # kTomb
        BY <1>2, <1>9 DEF TableSound, kTomb
      <4>2. QED
        BY <1>5, <4>1 DEF Tombs
    <3>2. at \in Tombs(tbl) <=> tbl[at] = kTomb
      <4>1. DOMAIN tbl = 0..(C - 1)
        BY <1>2, <1>4, TableDomain
      <4>2. QED
        BY <1>5, <4>1 DEF Tombs
    <3>3. Cardinality(Tombs(tbl) \ {at}) =
            IF at \in Tombs(tbl) THEN Cardinality(Tombs(tbl)) - 1 ELSE Cardinality(Tombs(tbl))
      BY <1>2, FS_RemoveElement
    <3>4. QED
      BY <1>2, <3>1, <3>2, <3>3, Zenon
  <2>4. size + 1 = Cardinality(LiveOf(es)) /\ (size + 1) * 10 <= C * 7
    BY <1>1, <1>10, <1>14
  <2> HIDE DEF t2, tb
  <2>5. Inv'
    BY <1>1, <1>4, <1>11, <2>1, <2>2, <2>3, <2>4, InvAfter
  <2>6. QED
    BY <1>6, <1>8, <1>11, <2>1, <2>5 DEF AddsEntry, L
<1>15. QED
  BY <1>13, <1>14

-----------------------------------------------------------------------------
(* The theorems                                                            *)

LEMMA StepKeeps ==
  ASSUME Inv, [Next]_vars
  PROVE  /\ Inv'
         /\ \/ KeepsEntries
            \/ LiveOf(ents') = {}
            \/ \E k \in Keys : AddsEntry(k) \/ DropsEntry(k)
<1>1. ASSUME NEW k \in Keys, Insert(k)
      PROVE  Inv' /\ AddsEntry(k)
  BY <1>1, InsertKeeps
<1>2. ASSUME NEW k \in Keys, Erase(k)
      PROVE  Inv' /\ DropsEntry(k)
  BY <1>2, EraseKeeps
<1>3. ASSUME NEW k \in Keys, Spin(k)
      PROVE  Inv' /\ KeepsEntries
  BY <1>3, SameVarsKeep DEF Spin
<1>4. ASSUME NEW cap \in {MinCapacity, MaxCapacity}, Reserve(cap)
      PROVE  Inv' /\ KeepsEntries
  BY <1>4, ReserveKeeps
<1>5. ASSUME Clear
      PROVE  Inv' /\ LiveOf(ents') = {}
  BY <1>5, ClearKeeps
<1>6. ASSUME UNCHANGED vars
      PROVE  Inv' /\ KeepsEntries
  BY <1>6, SameVarsKeep DEF vars
<1>7. QED
  BY <1>1, <1>2, <1>3, <1>4, <1>5, <1>6, Zenon DEF Next

LEMMA FlatMapInvariant ==
  Spec => []Inv
<1>1. Init => Inv
  BY InitInv
<1>2. Inv /\ [Next]_vars => Inv'
  BY StepKeeps
<1>3. QED
  BY <1>1, <1>2, PTL DEF Spec

\* Tombstones, rehashes and recycled entries never hide or double a session,
\* whatever the hash function and the sizes: every live key is found by its
\* probe, and mSize and mTomb are exact (emplace, find, erase, rehash).
THEOREM KeysStayFound ==
  Spec => []EveryKeyFound
<1>1. Inv => EveryKeyFound
  <2> SUFFICES ASSUME Inv PROVE EveryKeyFound
    OBVIOUS
  <2>1. Live = LiveOf(ents)
    BY DEF Live, LiveOf
  <2>2. /\ hash \in [Keys -> Nat] /\ Capacity \in Nat /\ EntriesSound(ents)
        /\ TableSound(slots, Capacity, ents, LiveOf(ents))
        /\ size = Cardinality(LiveOf(ents)) /\ tomb = Cardinality(Tombs(slots))
    BY InvParts
  <2>3. \A i, j \in Live : ents[i].key = ents[j].key => i = j
    BY <2>1, <2>2 DEF EntriesSound
  <2>4. \A i \in Live : /\ Stops(slots, ents[i].key) # {}
                        /\ slots[Probe(slots, ents[i].key, Min(Stops(slots, ents[i].key)))] = i - 1
    BY <2>1, <2>2, ProbeFinds
  <2>5. QED
    BY <2>1, <2>2, <2>3, <2>4, Zenon DEF EveryKeyFound, Tombs
<1>2. QED
  BY <1>1, FlatMapInvariant, PTL

-----------------------------------------------------------------------------
(* The map                                                                 *)

KeysOf(es) == {es[i].key : i \in LiveOf(es)}
ContentOf(es) == [k \in KeysOf(es) |-> CHOOSE i \in LiveOf(es) : es[i].key = k]

LEMMA ContentFacts ==
  ASSUME NEW es, EntriesSound(es)
  PROVE  /\ DOMAIN ContentOf(es) = KeysOf(es)
         /\ ContentOf(es) = [k \in KeysOf(es) |-> ContentOf(es)[k]]
         /\ \A k \in KeysOf(es) : ContentOf(es)[k] \in LiveOf(es) /\ es[ContentOf(es)[k]].key = k
         /\ \A i \in LiveOf(es) : es[i].key \in KeysOf(es) /\ ContentOf(es)[es[i].key] = i
<1>1. DOMAIN ContentOf(es) = KeysOf(es) /\ ContentOf(es) = [k \in KeysOf(es) |-> ContentOf(es)[k]]
  BY DEF ContentOf
<1>2. ASSUME NEW k \in KeysOf(es)
      PROVE  ContentOf(es)[k] \in LiveOf(es) /\ es[ContentOf(es)[k]].key = k
  <2>1. \E i \in LiveOf(es) : es[i].key = k
    BY DEF KeysOf
  <2>2. ContentOf(es)[k] = CHOOSE i \in LiveOf(es) : es[i].key = k
    BY DEF ContentOf
  <2>3. QED
    BY <2>1, <2>2, Zenon
<1>3. ASSUME NEW i \in LiveOf(es)
      PROVE  es[i].key \in KeysOf(es) /\ ContentOf(es)[es[i].key] = i
  <2>1. es[i].key \in KeysOf(es)
    BY DEF KeysOf
  <2>2. QED
    BY <1>2, <2>1, Zenon DEF EntriesSound
<1>4. QED
  BY <1>1, <1>2, <1>3

LEMMA ContentKept ==
  ASSUME NEW es, NEW es2, EntriesSound(es), EntriesSound(es2), LiveOf(es2) = LiveOf(es),
         \A i \in LiveOf(es) : es2[i].key = es[i].key
  PROVE  ContentOf(es2) = ContentOf(es)
<1>1. KeysOf(es2) = KeysOf(es)
  BY DEF KeysOf
<1>2. ASSUME NEW k \in KeysOf(es)
      PROVE  ContentOf(es2)[k] = ContentOf(es)[k]
  BY <1>1, ContentFacts
<1>3. QED
  BY <1>1, <1>2, ContentFacts

LEMMA ContentAdded ==
  ASSUME NEW es, NEW es2, EntriesSound(es), EntriesSound(es2), NEW k, NEW i, i \notin LiveOf(es),
         LiveOf(es2) = LiveOf(es) \cup {i}, es2[i].key = k,
         \A j \in LiveOf(es) : es2[j].key = es[j].key /\ es[j].key # k
  PROVE  /\ k \notin KeysOf(es) /\ KeysOf(es2) = KeysOf(es) \cup {k}
         /\ \A x \in KeysOf(es) : ContentOf(es2)[x] = ContentOf(es)[x]
         /\ ContentOf(es2)[k] = i /\ \A x \in KeysOf(es) : ContentOf(es)[x] # i
<1>1. k \notin KeysOf(es)
  BY DEF KeysOf
<1>2. KeysOf(es2) = KeysOf(es) \cup {k}
  BY DEF KeysOf
<1>3. ASSUME NEW x \in KeysOf(es)
      PROVE  ContentOf(es2)[x] = ContentOf(es)[x] /\ ContentOf(es)[x] # i
  <2>1. PICK j \in LiveOf(es) : es[j].key = x
    BY DEF KeysOf
  <2>2. ContentOf(es)[x] = j
    BY <2>1, ContentFacts
  <2>3. ContentOf(es2)[x] = j
    BY <2>1, ContentFacts
  <2>4. QED
    BY <2>2, <2>3
<1>4. ContentOf(es2)[k] = i
  BY ContentFacts
<1>5. QED
  BY <1>1, <1>2, <1>3, <1>4

LEMMA ContentDropped ==
  ASSUME NEW es, NEW es2, EntriesSound(es), EntriesSound(es2), NEW k, NEW i \in LiveOf(es),
         LiveOf(es2) = LiveOf(es) \ {i}, es[i].key = k,
         \A j \in LiveOf(es) \ {i} : es2[j].key = es[j].key
  PROVE  /\ k \in KeysOf(es) /\ KeysOf(es2) = KeysOf(es) \ {k}
         /\ \A x \in KeysOf(es2) : ContentOf(es2)[x] = ContentOf(es)[x]
<1>1. k \in KeysOf(es)
  BY DEF KeysOf
<1>2. \A j \in LiveOf(es) : es[j].key = k => j = i
  BY DEF EntriesSound
<1>3. KeysOf(es2) = KeysOf(es) \ {k}
  BY <1>2 DEF KeysOf
<1>4. ASSUME NEW x \in KeysOf(es2)
      PROVE  ContentOf(es2)[x] = ContentOf(es)[x]
  <2>1. PICK j \in LiveOf(es2) : es2[j].key = x
    BY DEF KeysOf
  <2>2. j \in LiveOf(es) /\ es[j].key = x
    BY <2>1
  <2>3. QED
    BY <2>1, <2>2, ContentFacts
<1>5. QED
  BY <1>1, <1>3, <1>4

LEMMA EmptyContent ==
  ASSUME NEW es, LiveOf(es) = {}
  PROVE  ContentOf(es) = <<>>
<1>1. KeysOf(es) = {}
  BY DEF KeysOf
<1>2. QED
  BY <1>1 DEF ContentOf

\* The table is a map from keys to addresses: emplace() adds one key at an
\* address nobody has, erase() takes one away, and no step -- growth, clean-up,
\* reserve() -- moves the entry of another key.
THEOREM FlatMapIsAMap ==
  Spec => MapSpec
<1> USE DEF Map!Restrict, Map!Range
<1>1. Content = ContentOf(ents) /\ Content' = ContentOf(ents')
  BY DEF Content, ContentOf, KeysOf, Live, LiveOf
<1>2. Init => Map!Init
  <2> SUFFICES ASSUME Init PROVE Content = <<>>
    BY DEF Map!Init
  <2>1. LiveOf(ents) = {}
    BY DEF Init, LiveOf
  <2>2. QED
    BY <1>1, <2>1, EmptyContent
<1>3. ASSUME Inv, [Next]_vars
      PROVE  [Map!Next]_Content
  <2>1. /\ Inv'
        /\ \/ KeepsEntries
           \/ LiveOf(ents') = {}
           \/ \E k \in Keys : AddsEntry(k) \/ DropsEntry(k)
    BY <1>3, StepKeeps
  <2>2. EntriesSound(ents) /\ EntriesSound(ents')
    BY <1>3, <2>1 DEF Inv, EntriesSound, LiveOf
  <2>3. PICK es : es = ents'
    OBVIOUS
  <2>4. EntriesSound(es) /\ Content' = ContentOf(es)
    BY <1>1, <2>2, <2>3, Zenon
  <2>5. CASE KeepsEntries
    <3>1. ContentOf(es) = ContentOf(ents)
      BY <2>2, <2>3, <2>4, <2>5, ContentKept DEF KeepsEntries
    <3>2. QED
      BY <1>1, <2>4, <3>1
  <2>6. CASE LiveOf(ents') = {}
    <3>1. Content' = <<>>
      BY <2>3, <2>4, <2>6, EmptyContent
    <3>2. QED
      BY <3>1 DEF Map!Next, Map!Clear
  <2>7. ASSUME NEW k \in Keys, AddsEntry(k)
        PROVE  Map!Emplace(k)
    <3>1. PICK i : /\ i \notin LiveOf(ents) /\ LiveOf(es) = LiveOf(ents) \cup {i}
                   /\ es[i].key = k
                   /\ \A j \in LiveOf(ents) : es[j].key = ents[j].key /\ ents[j].key # k
      BY <2>3, <2>7, Zenon DEF AddsEntry
    <3>2. /\ k \notin KeysOf(ents) /\ KeysOf(es) = KeysOf(ents) \cup {k}
          /\ \A x \in KeysOf(ents) : ContentOf(es)[x] = ContentOf(ents)[x]
          /\ ContentOf(es)[k] = i /\ \A x \in KeysOf(ents) : ContentOf(ents)[x] # i
      BY <2>2, <2>4, <3>1, ContentAdded
    <3>3. /\ DOMAIN ContentOf(ents) = KeysOf(ents) /\ DOMAIN ContentOf(es) = KeysOf(es)
          /\ ContentOf(ents) = [x \in KeysOf(ents) |-> ContentOf(ents)[x]]
      BY <2>2, <2>4, ContentFacts
    <3>4. [x \in KeysOf(ents) |-> ContentOf(es)[x]] = ContentOf(ents)
      BY <3>2, <3>3
    <3>5. i \notin {ContentOf(ents)[x] : x \in KeysOf(ents)}
      BY <3>2
    <3>6. QED
      BY <1>1, <2>4, <3>2, <3>3, <3>4, <3>5, Zenon DEF Map!Emplace
  <2>8. ASSUME NEW k \in Keys, DropsEntry(k)
        PROVE  Map!Erase(k)
    <3>1. PICK i \in LiveOf(ents) :
            /\ LiveOf(es) = LiveOf(ents) \ {i} /\ ents[i].key = k
            /\ \A j \in LiveOf(ents) \ {i} : es[j].key = ents[j].key
      BY <2>3, <2>8, Zenon DEF DropsEntry
    <3>2. /\ k \in KeysOf(ents) /\ KeysOf(es) = KeysOf(ents) \ {k}
          /\ \A x \in KeysOf(es) : ContentOf(es)[x] = ContentOf(ents)[x]
      BY <2>2, <2>4, <3>1, ContentDropped
    <3>3. /\ DOMAIN ContentOf(ents) = KeysOf(ents)
          /\ ContentOf(es) = [x \in KeysOf(es) |-> ContentOf(es)[x]]
      BY <2>2, <2>4, ContentFacts
    <3>4. ContentOf(es) = [x \in KeysOf(ents) \ {k} |-> ContentOf(ents)[x]]
      BY <3>2, <3>3
    <3>5. QED
      BY <1>1, <2>4, <3>2, <3>3, <3>4, Zenon DEF Map!Erase
  <2>9. QED
    BY <2>1, <2>5, <2>6, <2>7, <2>8, Zenon DEF Map!Next
<1>4. QED
  BY <1>2, <1>3, FlatMapInvariant, PTL DEF Spec, MapSpec, Map!Spec

-----------------------------------------------------------------------------
(* A lookup that does not end                                              *)

NoEmptySlot == \A s \in DOMAIN slots : slots[s] # kEmpty

\* A table without kEmpty holds at least as many tombstones as the live entries
\* leave room for.
LEMMA FullTableHasTombs ==
  ASSUME Inv, NoEmptySlot
  PROVE  Capacity <= size + tomb
<1> DEFINE C == Capacity
           D == 0..(C - 1)
           T == Tombs(slots)
           R == D \ T
           L == LiveOf(ents)
           f == [s \in R |-> slots[s] + 1]
<1>1. /\ C \in Nat /\ TableSound(slots, C, ents, L) /\ size = Cardinality(L) /\ tomb = Cardinality(T)
      /\ size \in Nat /\ tomb \in Nat /\ IsFiniteSet(L) /\ IsFiniteSet(T) /\ DOMAIN slots = D
  BY InvParts
<1>2. IsFiniteSet(D) /\ Cardinality(D) = C
  <2>1. C - 1 \in Int /\ 0 \in Int /\ (IF 0 > C - 1 THEN 0 ELSE C - 1 - 0 + 1) = C
    BY <1>1
  <2>2. QED
    BY <2>1, FS_Interval
<1>3. D \cap T = T
  BY <1>1 DEF Tombs
<1>4. \A s \in R : slots[s] + 1 \in L /\ ents[slots[s] + 1].slot = s
  <2>1. \A s \in R : s \in D /\ slots[s] # kEmpty /\ slots[s] # kTomb
    BY <1>1 DEF NoEmptySlot, Tombs
  <2>2. QED
    BY <1>1, <2>1, Zenon DEF TableSound, SlotSound
<1> HIDE DEF C, D, T, L
<1>5. IsFiniteSet(R) /\ Cardinality(R) = C - tomb
  <2>1. IsFiniteSet(D \ T) /\ Cardinality(D \ T) = Cardinality(D) - Cardinality(D \cap T)
    BY <1>2, FS_Difference
  <2>2. QED
    BY <1>1, <1>2, <1>3, <2>1
<1> HIDE DEF R
<1>6. f \in [R -> L] /\ \A x, y \in R : f[x] = f[y] => x = y
  BY <1>4
<1> HIDE DEF f
<1>7. ~(Cardinality(L) < Cardinality(R))
  BY <1>1, <1>5, <1>6, FS_PigeonHole
<1>8. QED
  BY <1>1, <1>5, <1>7 DEF C

\* When a lookup hangs, the table has no kEmpty slot, and tombstones take at
\* least 30 % of it.
HangNeedsTombstones ==
  hung => NoEmptySlot /\ tomb * 10 >= Capacity * 3

\* Live entries alone never make a lookup of find(), emplace() or erase() hang,
\* thanks to the growth at 70 %: a probe that goes round for ever has met live
\* entries and tombstones only, and the tombstones are three slots in ten or more.
THEOREM OnlyTombstonesHang ==
  Spec => []HangNeedsTombstones
<1> DEFINE J == hung => NoEmptySlot
<1>1. Init => J
  BY DEF Init
<1>2. ASSUME Inv, J, [Next]_vars
      PROVE  J'
  <2>1. ASSUME NEW k \in Keys, Spin(k)
        PROVE  NoEmptySlot'
    <3> DEFINE C == Capacity
    <3>1. /\ hash \in [Keys -> Nat] /\ C \in Nat /\ DOMAIN slots = 0..(C - 1)
          /\ TableSound(slots, C, ents, LiveOf(ents))
      BY <1>2, InvParts
    <3>2. C > 0 /\ Stops(slots, k) = {} /\ slots' = slots
      BY <2>1 DEF Spin
    <3> HIDE DEF C
    <3>3. \A m : Probe(slots, k, m) = (hash[k] + m) % C
      BY <3>1, TableDomain DEF Probe
    <3>4. \A m \in 0..(C - 1) : slots[(hash[k] + m) % C] # kEmpty
      BY <3>1, <3>2, <3>3, Zenon DEF Stops
    <3>5. ASSUME NEW s \in 0..(C - 1)
          PROVE  slots[s] # kEmpty
      <4>1. C \in Nat \ {0} /\ hash[k] \in Nat
        BY <3>1, <3>2
      <4>2. PICK m \in 0..(C - 1) : (hash[k] + m) % C = s
        BY <4>1, ProbeReachesAll
      <4>3. QED
        BY <3>4, <4>2
    <3>6. QED
      BY <3>1, <3>2, <3>5 DEF NoEmptySlot
  <2>2. CASE \E k \in Keys : Spin(k)
    BY <2>1, <2>2
  <2>3. CASE UNCHANGED vars
    BY <1>2, <2>3 DEF vars, NoEmptySlot
  <2>4. CASE ~hung /\ hung' = hung
    BY <2>4
  <2>5. QED
    <3>1. \A k \in Keys : Insert(k) \/ Erase(k) => hung' = hung
      BY Zenon DEF Insert, Erase
    <3>2. \A cap : Reserve(cap) => hung' = hung
      BY Zenon DEF Reserve
    <3>3. Clear => hung' = hung
      BY Zenon DEF Clear
    <3> HIDE DEF J
    <3>4. QED
      BY <1>2, <2>2, <2>3, <2>4, <3>1, <3>2, <3>3, Zenon DEF Next
<1>3. Inv /\ J => HangNeedsTombstones
  <2> SUFFICES ASSUME Inv, J, hung PROVE NoEmptySlot /\ tomb * 10 >= Capacity * 3
    BY DEF HangNeedsTombstones
  <2>1. Capacity <= size + tomb
    BY FullTableHasTombs
  <2>2. Capacity \in Nat /\ size \in Nat /\ tomb \in Nat /\ size * 10 <= Capacity * 7
    BY InvParts
  <2>3. QED
    BY <2>1, <2>2
<1>4. QED
  BY <1>1, <1>2, <1>3, FlatMapInvariant, PTL DEF Spec

=============================================================================
