---------------------------- MODULE ExportProofs ----------------------------
(***************************************************************************)
(* Proofs about GenesisExport: the books of fee distribution through any   *)
(* number of blocks, exports and new chains, what a genesis for height     *)
(* zero contains, and when an export can fail.                             *)
(***************************************************************************)
EXTENDS GenesisExport, SumTheorems

---------------------------------------------------------------------------
(* Division. *)

\* What div gives for a positive divisor.
LEMMA Quotient ==
  ASSUME NEW a \in Int, NEW b \in Nat \ {0}
  PROVE  /\ a \div b \in Int
         /\ (a \div b) * b <= a /\ a < (a \div b + 1) * b
         /\ a >= 0 => a \div b \in Nat
OBVIOUS

\* A larger fraction has no smaller quotient.
LEMMA QuotientMono ==
  ASSUME NEW a \in Nat, NEW b \in Nat \ {0}, NEW c \in Nat, NEW d \in Nat \ {0},
         a * d <= c * b
  PROVE  a \div b <= c \div d
<1> DEFINE q == a \div b
           r == c \div d
<1>1. q \in Nat /\ r \in Nat /\ q * b <= a /\ c < (r + 1) * d
  BY Quotient
<1> HIDE DEF q, r
<1>2. \A x, y \in Nat : x >= y + 1 => x * (b * d) >= (y + 1) * (b * d)
  OBVIOUS
<1>3. (q * b) * d <= a * d /\ c * b < ((r + 1) * d) * b
  BY <1>1
<1>4. q * (b * d) < (r + 1) * (b * d)
  BY <1>1, <1>3
<1>5. q < r + 1
  BY <1>1, <1>2, <1>4
<1>6. QED
  BY <1>1, <1>5 DEF q, r

---------------------------------------------------------------------------
(* The order of a loop. *)

\* InOrder lists every element of a finite set once.
LEMMA InOrderIs ==
  ASSUME NEW S, IsFiniteSet(S)
  PROVE  /\ InOrder(S) \in Seq(S) /\ Range(InOrder(S)) = S
         /\ \A i, j \in DOMAIN InOrder(S) : InOrder(S)[i] = InOrder(S)[j] => i = j
<1> DEFINE n == Cardinality(S)
           f == InOrder(S)
<1>1. n \in Nat /\ ExistsBijection(1..n, S)
  BY FS_CardinalityType
<1>2. PICK g \in [1..n -> S] : IsInjective(g)
  <2>1. PICK g \in Bijection(1..n, S) : TRUE
    BY <1>1 DEF ExistsBijection
  <2>2. g \in [1..n -> S] /\ IsInjective(g)
    BY <2>1 DEF Bijection, Injection, IsInjective
  <2>3. QED
    BY <2>2
<1>3. f \in [1..n -> S] /\ IsInjective(f)
  BY <1>2 DEF InOrder, SetToSeq
<1> HIDE DEF f
<1>4. f \in Injection(1..n, S)
  BY <1>3 DEF Injection, IsInjective
<1>5. IsFiniteSet(1..n) /\ Cardinality(1..n) = n
  BY <1>1, FS_Interval
<1>6. f \in Surjection(1..n, S)
  BY <1>4, <1>5, FS_Injection
<1>7. Range(f) = S
  BY <1>3, <1>6 DEF Surjection, Range
<1>8. f \in Seq(S)
  BY <1>1, <1>3
<1>9. \A i, j \in DOMAIN f : f[i] = f[j] => i = j
  BY <1>3 DEF IsInjective
<1>10. QED
  BY <1>7, <1>8, <1>9 DEF f

\* A loop that visits its head leaves the rest, which the head is not in.
LEMMA HeadVisited ==
  ASSUME NEW S, NEW s \in Seq(S), s # <<>>,
         \A i, j \in DOMAIN s : s[i] = s[j] => i = j
  PROVE  /\ Head(s) \in S /\ Tail(s) \in Seq(S)
         /\ Range(Tail(s)) = Range(s) \ {Head(s)}
         /\ \A i, j \in DOMAIN Tail(s) : Tail(s)[i] = Tail(s)[j] => i = j
<1> DEFINE t == Tail(s)
<1>1. /\ Len(s) \in Nat \ {0} /\ DOMAIN s = 1..Len(s) /\ Head(s) = s[1]
      /\ t \in Seq(S) /\ Len(t) = Len(s) - 1 /\ DOMAIN t = 1..(Len(s) - 1)
      /\ \A i \in 1..(Len(s) - 1) : t[i] = s[i + 1]
  OBVIOUS
<1> HIDE DEF t
<1>2. ASSUME NEW x \in Range(t) PROVE x \in Range(s) \ {Head(s)}
  <2>1. PICK i \in 1..(Len(s) - 1) : x = s[i + 1]
    BY <1>1, <1>2 DEF Range
  <2>2. i + 1 \in DOMAIN s /\ 1 \in DOMAIN s /\ i + 1 # 1
    BY <1>1
  <2>3. QED
    BY <1>1, <2>1, <2>2 DEF Range
<1>3. ASSUME NEW x \in Range(s) \ {Head(s)} PROVE x \in Range(t)
  <2>1. PICK i \in DOMAIN s : x = s[i] /\ i # 1
    BY <1>1, <1>3 DEF Range
  <2>2. i - 1 \in 1..(Len(s) - 1) /\ (i - 1) + 1 = i
    BY <1>1, <2>1
  <2>3. t[i - 1] = x
    BY <1>1, <2>1, <2>2
  <2>4. QED
    BY <1>1, <2>2, <2>3 DEF Range
<1>4. ASSUME NEW i \in DOMAIN t, NEW j \in DOMAIN t, t[i] = t[j] PROVE i = j
  <2>1. s[i + 1] = s[j + 1] /\ i + 1 \in DOMAIN s /\ j + 1 \in DOMAIN s
    BY <1>1, <1>4
  <2>2. i + 1 = j + 1
    BY <2>1
  <2>3. QED
    BY <1>1, <2>2
<1>5. Head(s) \in S
  BY <1>1
<1>6. QED
  BY <1>1, <1>2, <1>3, <1>4, <1>5 DEF t

---------------------------------------------------------------------------
(* Reference counts. *)

Records(h) == h \in [DOMAIN h -> [ratio : Int, refs : Int]]

\* One more reference.
LEMMA IncRefIs ==
  ASSUME NEW h, Records(h), NEW p \in DOMAIN h
  PROVE  /\ Records(IncRef(h, p)) /\ DOMAIN IncRef(h, p) = DOMAIN h
         /\ \A q \in Nat : Recorded(IncRef(h, p), q)
                             = Recorded(h, q) + IF q = p THEN 1 ELSE 0
<1> DEFINE g == IncRef(h, p)
<1>1. g \in [DOMAIN h -> [ratio : Int, refs : Int]]
  BY DEF IncRef, Records
<1>2. DOMAIN g = DOMAIN h
  BY <1>1
<1>3. \A q \in DOMAIN h : g[q].refs = h[q].refs + IF q = p THEN 1 ELSE 0
  BY DEF IncRef, Records
<1> HIDE DEF g
<1>4. \A q \in Nat : Recorded(g, q) = Recorded(h, q) + IF q = p THEN 1 ELSE 0
  BY <1>2, <1>3 DEF Recorded
<1>5. QED
  BY <1>1, <1>2, <1>4 DEF g, Records

\* One reference less; a record nothing refers to any more is deleted.
LEMMA DecRefIs ==
  ASSUME NEW h, Records(h), NEW p \in DOMAIN h
  PROVE  /\ Records(DecRef(h, p)) /\ DOMAIN DecRef(h, p) \subseteq DOMAIN h
         /\ \A q \in Nat : Recorded(DecRef(h, p), q)
                             = Recorded(h, q) - IF q = p THEN 1 ELSE 0
<1> DEFINE R == [ratio : Int, refs : Int]
           g == Restrict(h, DOMAIN h \ {p})
           k == [h EXCEPT ![p].refs = @ - 1]
<1>1. CASE h[p].refs = 1
  <2>1. DecRef(h, p) = g
    BY <1>1 DEF DecRef
  <2>2. g \in [DOMAIN h \ {p} -> R] /\ \A q \in DOMAIN h \ {p} : g[q] = h[q]
    BY DEF Restrict, Records
  <2>3. DOMAIN g = DOMAIN h \ {p}
    BY <2>2
  <2> HIDE DEF g
  <2>4. ASSUME NEW q \in Nat
        PROVE  Recorded(g, q) = Recorded(h, q) - IF q = p THEN 1 ELSE 0
    <3>1. q \in DOMAIN h => h[q].refs \in Int
      BY DEF Records
    <3>2. QED
      BY <1>1, <2>2, <2>3, <3>1 DEF Recorded
  <2>5. QED
    BY <2>1, <2>2, <2>3, <2>4 DEF Records
<1>2. CASE h[p].refs # 1
  <2>1. DecRef(h, p) = k
    BY <1>2 DEF DecRef
  <2>2. k \in [DOMAIN h -> R]
    BY DEF Records
  <2>3. \A q \in DOMAIN h : k[q].refs = h[q].refs - IF q = p THEN 1 ELSE 0
    BY DEF Records
  <2>4. DOMAIN k = DOMAIN h
    BY <2>2
  <2> HIDE DEF k
  <2>5. \A q \in Nat : Recorded(k, q) = Recorded(h, q) - IF q = p THEN 1 ELSE 0
    BY <2>3, <2>4 DEF Recorded
  <2>6. QED
    BY <2>1, <2>2, <2>4, <2>5 DEF Records
<1>3. QED
  BY <1>1, <1>2

\* A new record.
LEMMA WithRecordIs ==
  ASSUME NEW h, Records(h), NEW p \in Nat, p \notin DOMAIN h,
         NEW r \in [ratio : Int, refs : Int]
  PROVE  LET g == WithRecord(h, p, r) IN
         /\ Records(g) /\ DOMAIN g = DOMAIN h \cup {p}
         /\ \A q \in Nat : Recorded(g, q) = Recorded(h, q) + IF q = p THEN r.refs ELSE 0
<1> DEFINE g == WithRecord(h, p, r)
<1>1. g \in [DOMAIN h \cup {p} -> [ratio : Int, refs : Int]]
  BY DEF WithRecord, Records
<1>2. DOMAIN g = DOMAIN h \cup {p}
  BY <1>1
<1>3. /\ \A q \in DOMAIN h : g[q] = h[q] /\ h[q].refs \in Int
      /\ g[p] = r /\ r.refs \in Int
  BY DEF WithRecord, Records
<1> HIDE DEF g
<1>4. \A q \in Nat : Recorded(g, q) = Recorded(h, q) + IF q = p THEN r.refs ELSE 0
  BY <1>2, <1>3 DEF Recorded
<1>5. QED
  BY <1>1, <1>2, <1>4 DEF g, Records

---------------------------------------------------------------------------
(* The books of fee distribution: types, the balance of the module         *)
(* account, and the reference counts for the delegations in S.             *)

Exact(D, S) ==
  /\ \A dl \in S : D.start[dl].prev < D.cur[dl[2]].period
  /\ \A v \in Validators :
       /\ \A i \in DOMAIN D.slashes[v] : D.slashes[v][i].period < D.cur[v].period
       /\ \A p \in Nat : Recorded(D.hist[v], p) = References(D, S, v, p)

Ledger(D, S) == S \subseteq Delegations /\ DistTyped(D) /\ Balanced(D) /\ Exact(D, S)

Starts(D, S, v, p) == {dl \in S : dl[2] = v /\ D.start[dl].prev = p}
Slashes(s, p) == {i \in DOMAIN s : s[i].period = p}

\* There are finitely many delegations.
LEMMA FiniteDelegations ==
  /\ IsFiniteSet(Validators) /\ IsFiniteSet(Delegations)
  /\ \A S : S \subseteq Delegations => IsFiniteSet(S)
  /\ \A v \in Validators : /\ IsFiniteSet(Delegators \X {v})
                           /\ Delegators \X {v} \subseteq Delegations
<1>1. IsFiniteSet(Validators) /\ IsFiniteSet(Delegators)
  BY ExportAssumption
<1>2. IsFiniteSet(Delegations)
  BY <1>1, FS_Product DEF Delegations
<1>3. ASSUME NEW S, S \subseteq Delegations PROVE IsFiniteSet(S)
  BY <1>2, <1>3, FS_Subset
<1>4. ASSUME NEW v \in Validators PROVE Delegators \X {v} \subseteq Delegations
  BY DEF Delegations
<1>5. QED
  BY <1>1, <1>2, <1>3, <1>4

\* How many delegations start from a period, before and after one is added.
LEMMA StartsCount ==
  ASSUME NEW D, NEW E, NEW S, S \subseteq Delegations, NEW dl \in Delegations, dl \notin S,
         \A x \in S : E.start[x] = D.start[x], NEW v, NEW p
  PROVE  /\ Cardinality(Starts(D, S, v, p)) \in Nat
         /\ Cardinality(Starts(E, S \cup {dl}, v, p)) =
              Cardinality(Starts(D, S, v, p))
                + IF dl[2] = v /\ E.start[dl].prev = p THEN 1 ELSE 0
<1> DEFINE A == Starts(D, S, v, p)
           B == Starts(E, S \cup {dl}, v, p)
<1>1. IsFiniteSet(A) /\ Cardinality(A) \in Nat /\ dl \notin A
  BY FiniteDelegations, FS_Subset, FS_CardinalityType DEF Starts
<1>2. CASE dl[2] = v /\ E.start[dl].prev = p
  <2>1. B = A \cup {dl}
    BY <1>2 DEF Starts
  <2>2. Cardinality(A \cup {dl}) = Cardinality(A) + 1
    BY <1>1, FS_AddElement
  <2>3. QED
    BY <1>1, <1>2, <2>1, <2>2
<1>3. CASE ~(dl[2] = v /\ E.start[dl].prev = p)
  <2>1. B = A
    BY <1>3 DEF Starts
  <2>2. QED
    BY <1>1, <1>3, <2>1
<1>4. QED
  BY <1>2, <1>3

\* How many slashes closed a period, before and after one more.
LEMMA SlashesCount ==
  ASSUME NEW T, NEW s \in Seq(T), NEW e \in T, NEW p
  PROVE  /\ Cardinality(Slashes(s, p)) \in Nat
         /\ Cardinality(Slashes(Append(s, e), p)) =
              Cardinality(Slashes(s, p)) + IF e.period = p THEN 1 ELSE 0
<1> DEFINE A == Slashes(s, p)
           B == Slashes(Append(s, e), p)
           n == Len(s) + 1
<1>1. DOMAIN s = 1..Len(s) /\ n \in Nat
  OBVIOUS
<1>2. IsFiniteSet(DOMAIN s)
  BY <1>1, FS_Interval
<1>3. IsFiniteSet(A) /\ Cardinality(A) \in Nat /\ n \notin A
  BY <1>1, <1>2, FS_Subset, FS_CardinalityType DEF Slashes
<1>4. /\ DOMAIN Append(s, e) = DOMAIN s \cup {n}
      /\ Append(s, e)[n] = e /\ \A i \in DOMAIN s : Append(s, e)[i] = s[i]
  OBVIOUS
<1>5. CASE e.period = p
  <2>1. B = A \cup {n}
    BY <1>1, <1>4, <1>5 DEF Slashes
  <2>2. Cardinality(A \cup {n}) = Cardinality(A) + 1
    BY <1>3, FS_AddElement
  <2>3. QED
    BY <1>3, <1>5, <2>1, <2>2
<1>6. CASE e.period # p
  <2>1. B = A
    BY <1>1, <1>4, <1>6 DEF Slashes
  <2>2. QED
    BY <1>3, <1>6, <2>1
<1>7. QED
  BY <1>5, <1>6

\* Counts are natural numbers.
LEMMA CountsType ==
  ASSUME NEW D, DistTyped(D), NEW S, S \subseteq Delegations, NEW v \in Validators, NEW p
  PROVE  /\ Cardinality(Starts(D, S, v, p)) \in Nat
         /\ Cardinality(Slashes(D.slashes[v], p)) \in Nat
         /\ \A i \in DOMAIN D.slashes[v] :
              D.slashes[v][i] \in SlashEvent /\ D.slashes[v][i].period \in Nat
<1>1. Starts(D, S, v, p) \subseteq Delegations
  BY DEF Starts
<1>2. D.slashes[v] \in Seq(SlashEvent)
  BY DEF DistTyped
<1>3. [height |-> 0, period |-> 0, fraction |-> 0] \in SlashEvent
  BY DEF SlashEvent
<1>4. \A i \in DOMAIN D.slashes[v] : D.slashes[v][i] \in SlashEvent
  BY <1>2
<1>5. \A i \in DOMAIN D.slashes[v] : D.slashes[v][i].period \in Nat
  BY <1>4 DEF SlashEvent
<1>6. Cardinality(Starts(D, S, v, p)) \in Nat
  BY <1>1, FiniteDelegations, FS_CardinalityType
<1>7. Cardinality(Slashes(D.slashes[v], p)) \in Nat
  BY <1>2, <1>3, SlashesCount
<1>8. QED
  BY <1>4, <1>5, <1>6, <1>7

\* Periods that something starts from have a record.
LEMMA ReferencesType ==
  ASSUME NEW D, NEW S, Ledger(D, S), NEW v \in Validators
  PROVE  /\ \A p \in Nat : References(D, S, v, p) \in Nat
         /\ D.cur[v].period - 1 \in DOMAIN D.hist[v]
         /\ \A dl \in S : dl[2] = v => D.start[dl].prev \in DOMAIN D.hist[v]
         /\ \A i \in DOMAIN D.slashes[v] : D.slashes[v][i].period \in DOMAIN D.hist[v]
<1> DEFINE s == D.slashes[v]
           c == D.cur[v].period - 1
<1>0. /\ S \subseteq Delegations /\ D.cur[v].period \in Nat \ {0} /\ c \in Nat
      /\ D.slashes[v] \in Seq(SlashEvent)
      /\ D.start \in [Delegations -> [prev : Nat, stake : Int, height : Nat]]
      /\ \A p \in Nat : Recorded(D.hist[v], p) = References(D, S, v, p)
  BY DEF Ledger, DistTyped, Exact
<1>1. ASSUME NEW p \in Nat
      PROVE  /\ IsFiniteSet(Starts(D, S, v, p)) /\ Cardinality(Starts(D, S, v, p)) \in Nat
             /\ IsFiniteSet(Slashes(s, p)) /\ Cardinality(Slashes(s, p)) \in Nat
             /\ References(D, S, v, p) = Cardinality(Starts(D, S, v, p))
                  + Cardinality(Slashes(s, p)) + (IF p = c THEN 1 ELSE 0)
  <2>1. IsFiniteSet(Starts(D, S, v, p))
    BY <1>0, FiniteDelegations, FS_Subset DEF Starts
  <2>2. IsFiniteSet(Slashes(s, p))
    <3>1. DOMAIN s = 1..Len(s) /\ Len(s) \in Nat
      BY <1>0
    <3>2. IsFiniteSet(DOMAIN s)
      BY <3>1, FS_Interval
    <3>3. Slashes(s, p) \subseteq DOMAIN s
      BY DEF Slashes
    <3>4. QED
      BY <3>2, <3>3, FS_Subset
  <2>3. QED
    BY <2>1, <2>2, FS_CardinalityType DEF References, Starts, Slashes
<1>2. ASSUME NEW p \in Nat, References(D, S, v, p) # 0 PROVE p \in DOMAIN D.hist[v]
  BY <1>0, <1>2 DEF Recorded
<1>3. c \in DOMAIN D.hist[v]
  <2> HIDE DEF c
  <2>1. c \in Nat
    BY <1>0
  <2>2. References(D, S, v, c) =
          Cardinality(Starts(D, S, v, c)) + Cardinality(Slashes(s, c)) + 1
    BY <1>1, <2>1
  <2>3. Cardinality(Starts(D, S, v, c)) \in Nat /\ Cardinality(Slashes(s, c)) \in Nat
    BY <1>1, <2>1
  <2>4. References(D, S, v, c) # 0
    BY <2>2, <2>3
  <2>5. QED
    BY <1>2, <2>1, <2>4
<1>4. ASSUME NEW dl \in S, dl[2] = v PROVE D.start[dl].prev \in DOMAIN D.hist[v]
  <2> DEFINE p == D.start[dl].prev
  <2>1. p \in Nat
    BY <1>0
  <2>2. dl \in Starts(D, S, v, p)
    BY <1>4 DEF Starts
  <2>3. Cardinality(Starts(D, S, v, p)) # 0
    BY <1>1, <2>1, <2>2, FS_EmptySet
  <2> HIDE DEF p
  <2>4. References(D, S, v, p) # 0
    BY <1>1, <2>1, <2>3
  <2>5. QED
    BY <1>2, <2>1, <2>4 DEF p
<1>5. ASSUME NEW i \in DOMAIN s PROVE s[i].period \in DOMAIN D.hist[v]
  <2> DEFINE p == s[i].period
  <2>1. p \in Nat
    <3>1. s \in Seq(SlashEvent)
      BY <1>0
    <3> HIDE DEF s
    <3>2. s[i] \in SlashEvent
      BY <3>1
    <3>3. QED
      BY <3>2 DEF SlashEvent
  <2>2. i \in Slashes(s, p)
    BY DEF Slashes
  <2>3. Cardinality(Slashes(s, p)) # 0
    BY <1>1, <2>1, <2>2, FS_EmptySet
  <2> HIDE DEF p
  <2>4. References(D, S, v, p) # 0
    BY <1>1, <2>1, <2>3
  <2>5. QED
    BY <1>2, <2>1, <2>4 DEF p
<1>6. QED
  BY <1>1, <1>3, <1>4, <1>5

\* Counts that are exact up to the current period are exact for all periods.
LEMMA CountedEverywhere ==
  ASSUME NEW D, DistTyped(D), NEW S, S \subseteq Delegations
  PROVE  Counted(D, S) <=> Exact(D, S)
<1>1. ASSUME Exact(D, S) PROVE Counted(D, S)
  <2>1. \A v \in Validators : 0..D.cur[v].period \subseteq Nat
    OBVIOUS
  <2>2. QED
    BY <1>1, <2>1 DEF Exact, Counted
<1>2. ASSUME Counted(D, S), NEW v \in Validators, NEW p \in Nat, p \notin 0..D.cur[v].period
      PROVE  Recorded(D.hist[v], p) = References(D, S, v, p)
  <2>1. /\ D.cur[v].period \in Nat \ {0} /\ p > D.cur[v].period
        /\ DOMAIN D.hist[v] \subseteq 0..(D.cur[v].period - 1)
    BY <1>2 DEF DistTyped
  <2>2. Recorded(D.hist[v], p) = 0
    BY <2>1 DEF Recorded
  <2>3. {dl \in S : dl[2] = v /\ D.start[dl].prev = p} = {}
    <3>1. \A dl \in S : dl[2] = v => D.start[dl].prev < D.cur[v].period
      BY <1>2 DEF Counted
    <3>2. QED
      BY <2>1, <3>1
  <2>4. {i \in DOMAIN D.slashes[v] : D.slashes[v][i].period = p} = {}
    <3>1. \A i \in DOMAIN D.slashes[v] : D.slashes[v][i].period < D.cur[v].period
      BY <1>2 DEF Counted
    <3>2. QED
      BY <2>1, <3>1
  <2>5. References(D, S, v, p) = 0
    <3>1. ~(p = D.cur[v].period - 1)
      BY <2>1
    <3>2. References(D, S, v, p) =
            Cardinality(Starts(D, S, v, p)) + Cardinality(Slashes(D.slashes[v], p)) + 0
      BY <3>1 DEF References, Starts, Slashes
    <3>3. Starts(D, S, v, p) = {} /\ Slashes(D.slashes[v], p) = {}
      BY <2>3, <2>4 DEF Starts, Slashes
    <3>4. Cardinality({}) = 0
      BY FS_EmptySet
    <3>5. QED
      BY <3>2, <3>3, <3>4
  <2>6. QED
    BY <2>2, <2>5
<1>3. ASSUME Counted(D, S) PROVE Exact(D, S)
  <2>1. ASSUME NEW v \in Validators, NEW p \in Nat
        PROVE  Recorded(D.hist[v], p) = References(D, S, v, p)
    BY <1>2, <1>3 DEF Counted
  <2>2. QED
    BY <1>3, <2>1 DEF Counted, Exact
<1>4. QED
  BY <1>1, <1>3

\* What is outstanding in all changes by what changes for one validator.
LEMMA OutstandingChange ==
  ASSUME NEW o \in [Validators -> Int], NEW q \in [Validators -> Int],
         NEW v \in Validators, \A w \in Validators \ {v} : q[w] = o[w]
  PROVE  /\ SumFunction(o) \in Int
         /\ SumFunction(q) = SumFunction(o) + (q[v] - o[v])
<1>1. DOMAIN o = Validators /\ DOMAIN q = Validators /\ IsFiniteSet(Validators)
  BY FiniteDelegations
<1>2. SumFunctionOnSet(o, Validators) \in Int
  BY <1>1, SumTake
<1>3. SumFunctionOnSet(q, Validators) = SumFunctionOnSet(o, Validators) + (q[v] - o[v])
  BY <1>1, SumChange
<1>4. QED
  BY <1>1, <1>2, <1>3 DEF SumFunction

---------------------------------------------------------------------------
(* The operations of fee distribution keep the books.                      *)

\* What closing a period leaves alone.
Closed(D, E, v) ==
  /\ E.start = D.start /\ E.slashes = D.slashes
  /\ E.commission = D.commission /\ E.balance = D.balance
  /\ E.cur[v] = [rewards |-> 0, period |-> D.cur[v].period + 1]
  /\ \A w \in Validators \ {v} : E.cur[w] = D.cur[w] /\ E.outstanding[w] = D.outstanding[w]
  /\ D.cur[v].rewards = 0 => E.outstanding[v] = D.outstanding[v]

\* Closing a period keeps the books, and changes the rest of no validator.
LEMMA IncrementKeeps ==
  ASSUME NEW D, NEW S, Ledger(D, S), NEW st, st.tokens \in [Validators -> Nat],
         NEW v \in Validators
  PROVE  /\ Ledger(IncrementPeriod(D, st, v), S)
         /\ Closed(D, IncrementPeriod(D, st, v), v)
<1> DEFINE E == IncrementPeriod(D, st, v)
           r == D.cur[v].rewards
           n == D.cur[v].period
           t == st.tokens[v]
           gain == IF t = 0 THEN 0 ELSE r \div t
           lost == IF t = 0 THEN r ELSE 0
           new == [ratio |-> D.hist[v][n - 1].ratio + gain, refs |-> 1]
           h == D.hist[v]
           g == WithRecord(DecRef(h, n - 1), n, new)
<1>1. S \subseteq Delegations /\ DistTyped(D) /\ Balanced(D) /\ Exact(D, S)
  BY DEF Ledger
<1>2. /\ r \in Int /\ n \in Nat \ {0} /\ n - 1 \in Nat /\ t \in Nat
      /\ Records(h) /\ DOMAIN h \subseteq 0..(n - 1) /\ n - 1 \in DOMAIN h
      /\ n \notin DOMAIN h
  <2>1. D.cur[v] \in [rewards : Int, period : Nat \ {0}]
    BY <1>1 DEF DistTyped
  <2>2. r \in Int /\ n \in Nat \ {0} /\ n - 1 \in Nat /\ t \in Nat
    BY <2>1
  <2>3. Records(h) /\ DOMAIN h \subseteq 0..(n - 1)
    BY <1>1 DEF DistTyped, Records
  <2>4. n - 1 \in DOMAIN h
    BY ReferencesType
  <2>5. n \notin 0..(n - 1)
    BY <2>2
  <2>6. QED
    BY <2>2, <2>3, <2>4, <2>5
<1>3. gain \in Int /\ lost \in Int /\ (r = 0 => lost = 0)
  <2>1. t # 0 => r \div t \in Int
    BY <1>2, Quotient
  <2>2. QED
    BY <1>2, <2>1
<1>4. new \in [ratio : Int, refs : Int] /\ new.refs = 1
  <2>1. h[n - 1].ratio \in Int
    BY <1>2 DEF Records
  <2> HIDE DEF gain
  <2>2. QED
    BY <1>3, <2>1
<1> HIDE DEF new
<1>5. /\ Records(g) /\ DOMAIN g \subseteq 0..n
      /\ \A q \in Nat : Recorded(g, q) = Recorded(h, q)
                          - (IF q = n - 1 THEN 1 ELSE 0) + (IF q = n THEN 1 ELSE 0)
  <2> DEFINE k == DecRef(h, n - 1)
  <2>1. /\ Records(k) /\ DOMAIN k \subseteq DOMAIN h
        /\ \A q \in Nat : Recorded(k, q) = Recorded(h, q) - IF q = n - 1 THEN 1 ELSE 0
    BY <1>2, DecRefIs
  <2>2. n \notin DOMAIN k
    BY <1>2, <2>1
  <2> HIDE DEF k
  <2>3. /\ Records(WithRecord(k, n, new)) /\ DOMAIN WithRecord(k, n, new) = DOMAIN k \cup {n}
        /\ \A q \in Nat : Recorded(WithRecord(k, n, new), q)
                            = Recorded(k, q) + IF q = n THEN new.refs ELSE 0
    <3>1. Records(k)
      BY <2>1
    <3>2. n \in Nat
      BY <1>2
    <3>3. new \in [ratio : Int, refs : Int]
      BY <1>4
    <3> HIDE DEF n
    <3>4. QED
      BY <2>2, <3>1, <3>2, <3>3, WithRecordIs
  <2>4. DOMAIN k \cup {n} \subseteq 0..n
    BY <1>2, <2>1
  <2>5. \A q \in Nat : Recorded(WithRecord(k, n, new), q) = Recorded(h, q)
                          - (IF q = n - 1 THEN 1 ELSE 0) + (IF q = n THEN 1 ELSE 0)
    BY <1>4, <2>1, <2>3
  <2>6. QED
    BY <2>3, <2>4, <2>5 DEF k
<1>6. /\ DOMAIN E = DOMAIN D
      /\ E.hist = [D.hist EXCEPT ![v] = g]
      /\ E.cur = [D.cur EXCEPT ![v] = [rewards |-> 0, period |-> n + 1]]
      /\ E.outstanding = [D.outstanding EXCEPT ![v] = @ - lost]
      /\ E.pool = D.pool + lost
      /\ E.start = D.start /\ E.slashes = D.slashes
      /\ E.commission = D.commission /\ E.balance = D.balance
  BY <1>1 DEF IncrementPeriod, DistTyped, GenesisDistribution, new
<1> HIDE DEF E, g, lost, gain
<1>7. /\ D.outstanding \in [Validators -> Int]
      /\ E.outstanding \in [Validators -> Int]
      /\ E.outstanding[v] = D.outstanding[v] - lost
      /\ \A w \in Validators \ {v} : E.outstanding[w] = D.outstanding[w]
  BY <1>1, <1>3, <1>6 DEF DistTyped
<1>8. /\ E.cur \in [Validators -> [rewards : Int, period : Nat \ {0}]]
      /\ E.cur[v] = [rewards |-> 0, period |-> n + 1]
      /\ E.cur[v].period = n + 1
      /\ \A w \in Validators \ {v} : E.cur[w] = D.cur[w]
  BY <1>1, <1>2, <1>6 DEF DistTyped
<1>9. /\ DOMAIN E.hist = Validators /\ E.hist[v] = g
      /\ \A w \in Validators \ {v} : E.hist[w] = D.hist[w]
  BY <1>1, <1>6 DEF DistTyped
<1>10. Closed(D, E, v)
  <2>1. r = 0 => E.outstanding[v] = D.outstanding[v]
    BY <1>3, <1>7
  <2>2. QED
    BY <1>6, <1>7, <1>8, <2>1 DEF Closed
<1>11. Balanced(E)
  <2>1. /\ SumFunction(D.outstanding) \in Int
        /\ SumFunction(E.outstanding) =
             SumFunction(D.outstanding) + (E.outstanding[v] - D.outstanding[v])
    BY <1>7, OutstandingChange
  <2>2. /\ D.pool \in Int /\ D.outstanding[v] \in Int
        /\ D.balance * Prec = SumFunction(D.outstanding) + D.pool
    BY <1>1, <1>7 DEF DistTyped, Balanced
  <2>3. E.balance * Prec = D.balance * Prec
    BY <1>6
  <2>4. SumFunction(E.outstanding) + E.pool = SumFunction(D.outstanding) + D.pool
    BY <1>3, <1>6, <1>7, <2>1, <2>2
  <2>5. QED
    BY <2>2, <2>3, <2>4 DEF Balanced
<1>12. DistTyped(E)
  <2>1. ASSUME NEW w \in Validators
        PROVE  /\ E.hist[w] \in [DOMAIN E.hist[w] -> [ratio : Int, refs : Int]]
               /\ DOMAIN E.hist[w] \subseteq 0..(E.cur[w].period - 1)
    <3>1. CASE w = v
      <4>1. E.cur[w].period - 1 = n
        BY <1>2, <1>8, <3>1
      <4>2. QED
        BY <1>5, <1>9, <3>1, <4>1 DEF Records
    <3>2. CASE w # v
      BY <1>1, <1>8, <1>9, <3>2 DEF DistTyped
    <3>3. QED
      BY <3>1, <3>2
  <2>2. E.pool \in Int
    BY <1>1, <1>3, <1>6 DEF DistTyped
  <2>3. QED
    BY <1>1, <1>6, <1>7, <1>8, <1>9, <2>1, <2>2 DEF DistTyped
<1>13. ASSUME NEW w \in Validators, NEW q \in Nat
       PROVE  /\ Recorded(E.hist[w], q) = References(E, S, w, q)
              /\ \A i \in DOMAIN E.slashes[w] : E.slashes[w][i].period < E.cur[w].period
  <2> DEFINE A == Cardinality(Starts(D, S, w, q)) + Cardinality(Slashes(D.slashes[w], q))
  <2>1. /\ References(D, S, w, q) = A + (IF q = D.cur[w].period - 1 THEN 1 ELSE 0)
        /\ References(E, S, w, q) = A + (IF q = E.cur[w].period - 1 THEN 1 ELSE 0)
    BY <1>6 DEF References, Starts, Slashes
  <2>2. /\ Recorded(D.hist[w], q) = References(D, S, w, q)
        /\ \A i \in DOMAIN D.slashes[w] : D.slashes[w][i].period < D.cur[w].period
    BY <1>1 DEF Exact
  <2>3. A \in Nat
    <3>1. /\ Cardinality(Starts(D, S, w, q)) \in Nat
          /\ Cardinality(Slashes(D.slashes[w], q)) \in Nat
      BY <1>1, CountsType
    <3>2. QED
      BY <3>1
  <2> HIDE DEF A
  <2>4. CASE w = v
    <3>1. E.cur[w].period = n + 1 /\ D.cur[w].period = n
      BY <1>8, <2>4
    <3>2. Recorded(E.hist[w], q) = Recorded(D.hist[w], q)
                          - (IF q = n - 1 THEN 1 ELSE 0) + (IF q = n THEN 1 ELSE 0)
      BY <1>5, <1>9, <2>4
    <3>3. (n + 1) - 1 = n
      BY <1>2
    <3>4. Recorded(E.hist[w], q) = References(E, S, w, q)
      BY <2>1, <2>2, <2>3, <3>1, <3>2, <3>3
    <3>5. \A i \in DOMAIN D.slashes[w] : D.slashes[w][i].period < n + 1
      <4>1. \A i \in DOMAIN D.slashes[w] : D.slashes[w][i].period \in Nat
        BY <1>1, CountsType
      <4>2. QED
        BY <1>2, <2>2, <3>1, <4>1
    <3>6. QED
      BY <1>6, <3>1, <3>4, <3>5
  <2>5. CASE w # v
    BY <1>6, <1>8, <1>9, <2>1, <2>2, <2>5
  <2>6. QED
    BY <2>4, <2>5
<1>14. ASSUME NEW dl \in S PROVE E.start[dl].prev < E.cur[dl[2]].period
  <2>1. dl[2] \in Validators /\ D.start[dl].prev \in Nat /\ D.cur[dl[2]].period \in Nat
    BY <1>1 DEF DistTyped, Delegations
  <2>2. D.start[dl].prev < D.cur[dl[2]].period
    BY <1>1 DEF Exact
  <2>3. QED
    BY <1>2, <1>6, <1>8, <2>1, <2>2
<1>15. Exact(E, S)
  BY <1>13, <1>14 DEF Exact
<1>16. QED
  BY <1>1, <1>10, <1>11, <1>12, <1>15 DEF Ledger, E

\* What starting a delegation changes.
Started(D, E, st, dl, h) ==
  /\ E.slashes = D.slashes /\ E.cur = D.cur /\ E.outstanding = D.outstanding
  /\ E.commission = D.commission /\ E.balance = D.balance /\ E.pool = D.pool
  /\ E.start[dl] = [prev |-> D.cur[dl[2]].period - 1,
                    stake |-> TokensFromShares(st, dl), height |-> h]
  /\ \A x \in Delegations \ {dl} : E.start[x] = D.start[x]

\* Starting a delegation adds it to those that are counted.
LEMMA InitializeKeeps ==
  ASSUME NEW D, NEW S, Ledger(D, S), NEW dl \in Delegations, dl \notin S,
         NEW st, TokensFromShares(st, dl) \in Int, NEW h \in Nat
  PROVE  /\ Ledger(InitializeDelegation(D, st, dl, h), S \cup {dl})
         /\ Started(D, InitializeDelegation(D, st, dl, h), st, dl, h)
<1> DEFINE E == InitializeDelegation(D, st, dl, h)
           v == dl[2]
           n == D.cur[v].period - 1
           new == [prev |-> n, stake |-> TokensFromShares(st, dl), height |-> h]
           g == IncRef(D.hist[v], n)
           T == S \cup {dl}
<1>1. S \subseteq Delegations /\ DistTyped(D) /\ Balanced(D) /\ Exact(D, S)
  BY DEF Ledger
<1>2. /\ v \in Validators /\ D.cur[v].period \in Nat \ {0} /\ n \in Nat
      /\ Records(D.hist[v]) /\ n \in DOMAIN D.hist[v]
  <2>1. v \in Validators
    BY DEF Delegations
  <2>2. D.cur[v] \in [rewards : Int, period : Nat \ {0}]
    BY <1>1, <2>1 DEF DistTyped
  <2>3. D.cur[v].period \in Nat \ {0} /\ n \in Nat
    BY <2>2
  <2>4. Records(D.hist[v]) /\ n \in DOMAIN D.hist[v]
    BY <1>1, <2>1, ReferencesType DEF DistTyped, Records
  <2>5. QED
    BY <2>1, <2>3, <2>4
<1>3. new \in [prev : Nat, stake : Int, height : Nat] /\ new.prev = n
  BY <1>2
<1>4. /\ DOMAIN E = DOMAIN D
      /\ E.hist = [D.hist EXCEPT ![v] = g]
      /\ E.start = [D.start EXCEPT ![dl] = new]
      /\ E.cur = D.cur /\ E.outstanding = D.outstanding
      /\ E.pool = D.pool /\ E.slashes = D.slashes
      /\ E.commission = D.commission /\ E.balance = D.balance
  BY <1>1 DEF InitializeDelegation, DistTyped, GenesisDistribution
<1>5. /\ Records(g) /\ DOMAIN g = DOMAIN D.hist[v]
      /\ \A q \in Nat : Recorded(g, q) = Recorded(D.hist[v], q) + IF q = n THEN 1 ELSE 0
  <2>1. Records(D.hist[v]) /\ n \in DOMAIN D.hist[v]
    BY <1>2
  <2>2. QED
    BY <2>1, IncRefIs
<1> HIDE DEF E, g, new
<1>6. /\ E.start \in [Delegations -> [prev : Nat, stake : Int, height : Nat]]
      /\ E.start[dl] = new /\ \A x \in Delegations \ {dl} : E.start[x] = D.start[x]
  BY <1>1, <1>3, <1>4 DEF DistTyped
<1>7. /\ DOMAIN E.hist = Validators /\ E.hist[v] = g
      /\ \A w \in Validators \ {v} : E.hist[w] = D.hist[w]
  BY <1>1, <1>2, <1>4 DEF DistTyped
<1>8. Started(D, E, st, dl, h)
  BY <1>4, <1>6 DEF Started, new
<1>9. Balanced(E)
  BY <1>1, <1>4 DEF Balanced
<1>10. DistTyped(E)
  <2>1. ASSUME NEW w \in Validators
        PROVE  /\ E.hist[w] \in [DOMAIN E.hist[w] -> [ratio : Int, refs : Int]]
               /\ DOMAIN E.hist[w] \subseteq 0..(E.cur[w].period - 1)
    <3>1. CASE w = v
      BY <1>1, <1>2, <1>4, <1>5, <1>7, <3>1 DEF Records, DistTyped
    <3>2. CASE w # v
      BY <1>1, <1>4, <1>7, <3>2 DEF DistTyped
    <3>3. QED
      BY <3>1, <3>2
  <2>2. QED
    BY <1>1, <1>4, <1>6, <1>7, <2>1 DEF DistTyped
<1>11. ASSUME NEW w \in Validators, NEW q \in Nat
       PROVE  Recorded(E.hist[w], q) = References(E, T, w, q)
  <2> DEFINE a == Cardinality(Starts(D, S, w, q))
             b == Cardinality(Slashes(D.slashes[w], q))
             c == IF q = D.cur[w].period - 1 THEN 1 ELSE 0
             e == IF dl[2] = w /\ E.start[dl].prev = q THEN 1 ELSE 0
  <2>1. /\ References(D, S, w, q) = a + b + c
        /\ References(E, T, w, q) = Cardinality(Starts(E, T, w, q)) + b + c
    BY <1>4 DEF References, Starts, Slashes
  <2>2. a \in Nat /\ b \in Nat /\ c \in Nat /\ e \in Nat
    BY <1>1, CountsType
  <2>3. Cardinality(Starts(E, T, w, q)) = a + e
    <3>1. \A x \in S : E.start[x] = D.start[x]
      BY <1>1, <1>6
    <3> HIDE DEF T, e, a
    <3>2. Cardinality(Starts(E, S \cup {dl}, w, q)) = Cardinality(Starts(D, S, w, q))
            + IF dl[2] = w /\ E.start[dl].prev = q THEN 1 ELSE 0
      BY <1>1, <3>1, StartsCount
    <3>3. QED
      BY <3>2 DEF T, e, a
  <2>4. Recorded(D.hist[w], q) = References(D, S, w, q)
    BY <1>1 DEF Exact
  <2>5. Recorded(E.hist[w], q) = Recorded(D.hist[w], q) + e
    <3>1. CASE w = v
      BY <1>3, <1>5, <1>6, <1>7, <3>1
    <3>2. CASE w # v
      <4>1. Recorded(D.hist[w], q) \in Int
        BY <2>1, <2>2, <2>4
      <4>2. e = 0 /\ E.hist[w] = D.hist[w]
        BY <1>7, <3>2
      <4> HIDE DEF e
      <4>3. QED
        BY <4>1, <4>2
    <3>3. QED
      BY <3>1, <3>2
  <2> HIDE DEF a, b, c, e
  <2>6. QED
    BY <2>1, <2>2, <2>3, <2>4, <2>5
<1>12. ASSUME NEW x \in T PROVE E.start[x].prev < E.cur[x[2]].period
  <2>1. CASE x = dl
    BY <1>2, <1>3, <1>4, <1>6, <2>1
  <2>2. CASE x # dl
    <3>1. x \in S /\ x \in Delegations \ {dl}
      BY <1>1, <2>2
    <3>2. D.start[x].prev < D.cur[x[2]].period
      BY <1>1, <3>1 DEF Exact
    <3>3. QED
      BY <1>4, <1>6, <3>1, <3>2
  <2>3. QED
    BY <2>1, <2>2
<1>13. Exact(E, T)
  <2>1. ASSUME NEW w \in Validators
        PROVE  \A i \in DOMAIN E.slashes[w] : E.slashes[w][i].period < E.cur[w].period
    BY <1>1, <1>4 DEF Exact
  <2>2. QED
    BY <1>11, <1>12, <2>1 DEF Exact
<1>14. QED
  BY <1>1, <1>8, <1>9, <1>10, <1>13 DEF Ledger, E

---------------------------------------------------------------------------
(* Rewards.                                                                *)

\* The rewards between two recorded periods are a number.
LEMMA BetweenType ==
  ASSUME NEW h, Records(h), NEW p \in DOMAIN h, NEW q \in DOMAIN h, NEW k \in Int
  PROVE  Between(h, p, q, k) \in Int
<1>1. h[p].ratio \in Int /\ h[q].ratio \in Int /\ Prec \in Nat \ {0}
  BY ExportAssumption DEF Records
<1>2. (h[q].ratio - h[p].ratio) * k \in Int
  BY <1>1
<1>3. QED
  BY <1>1, <1>2, Quotient DEF Between

\* What a delegation's rewards are calculated from.
Tracked(D, dl) ==
  LET hist == D.hist[dl[2]]
      slashes == D.slashes[dl[2]]
  IN /\ Records(hist)
     /\ D.start[dl] \in [prev : Nat, stake : Int, height : Nat]
     /\ D.start[dl].prev \in DOMAIN hist
     /\ slashes \in Seq(SlashEvent)
     /\ \A i \in DOMAIN slashes : slashes[i].period \in DOMAIN hist

\* A context height h at which the slash e counts for the start s.
Counts(s, e, h) == h > s.height /\ e.height >= s.height /\ e.height <= h

\* f[i] is what the first i slashes make of the start of dl.
Visits(f, D, dl, h) ==
  LET s == D.start[dl]
      slashes == D.slashes[dl[2]]
  IN /\ f[0] = [from |-> s.prev, stake |-> s.stake, rewards |-> 0]
     /\ \A i \in 1..Len(slashes) :
          f[i] = IF Counts(s, slashes[i], h) /\ slashes[i].period > f[i - 1].from
                 THEN AfterSlash(D.hist[dl[2]], f[i - 1], slashes[i])
                 ELSE f[i - 1]
Stages(D, dl) ==
  [0..Len(D.slashes[dl[2]]) -> [from : DOMAIN D.hist[dl[2]], stake : Int, rewards : Int]]

\* The slashes are gone through one by one.
LEMMA VisitsExist ==
  ASSUME NEW D, NEW dl, NEW h \in Nat, Tracked(D, dl)
  PROVE  \E f \in Stages(D, dl) :
           Visits(f, D, dl, h) /\ AfterSlashes(D, dl, h) = f[Len(D.slashes[dl[2]])]
<1> DEFINE s == D.start[dl]
           hist == D.hist[dl[2]]
           sl == D.slashes[dl[2]]
           n == Len(sl)
           I == 0..n
           V == [from : DOMAIN hist, stake : Int, rewards : Int]
           first == [from |-> s.prev, stake |-> s.stake, rewards |-> 0]
           Seen(e) == h > s.height /\ e.height >= s.height /\ e.height <= h
           Value(f, i) == IF i = 0 THEN first
                          ELSE IF Seen(sl[i]) /\ sl[i].period > f[i - 1].from
                          THEN AfterSlash(hist, f[i - 1], sl[i])
                          ELSE f[i - 1]
           Right(f) == [i \in 0..Len(sl) |-> Value(f, i)]
           After == CHOOSE f : f = Right(f)
           Rank == [i \in I |-> i]
           Step == [f \in [I -> V] |-> Right(f)]
<1>0. /\ Records(hist) /\ s \in [prev : Nat, stake : Int, height : Nat]
      /\ s.prev \in DOMAIN hist /\ sl \in Seq(SlashEvent)
      /\ \A i \in DOMAIN sl : sl[i].period \in DOMAIN hist
  BY DEF Tracked
<1>1. /\ n \in Nat /\ DOMAIN sl = 1..n
      /\ \A i \in 1..n : sl[i].period \in DOMAIN hist /\ sl[i] \in SlashEvent
  <2>1. sl \in Seq(SlashEvent)
    BY <1>0
  <2>2. \A i \in DOMAIN sl : sl[i].period \in DOMAIN hist
    BY <1>0
  <2> HIDE DEF sl, hist
  <2>3. n \in Nat /\ DOMAIN sl = 1..n /\ \A i \in 1..n : sl[i] \in SlashEvent
    BY <2>1
  <2>4. QED
    BY <2>2, <2>3
<1>2. first \in V
  BY <1>0
<1>3. ASSUME NEW a \in V, NEW i \in 1..n PROVE AfterSlash(hist, a, sl[i]) \in V
  <2>1. sl[i].period \in DOMAIN hist /\ sl[i].fraction \in Int
    BY <1>1 DEF SlashEvent
  <2>2. Between(hist, a.from, sl[i].period, a.stake) \in Int
    BY <1>0, <2>1, BetweenType
  <2>3. (a.stake * (Prec - sl[i].fraction)) \div Prec \in Int
    <3>0. \A x, y, z \in Int : x * (y - z) \in Int
      OBVIOUS
    <3>1. Prec \in Nat \ {0} /\ a.stake * (Prec - sl[i].fraction) \in Int
      <4>1. Prec \in Nat \ {0}
        BY ExportAssumption
      <4>2. a.stake \in Int /\ Prec \in Int
        BY <4>1
      <4> HIDE DEF V, sl
      <4>3. QED
        BY <2>1, <3>0, <4>1, <4>2
    <3>2. QED
      BY <3>1, Quotient
  <2>4. a.rewards + Between(hist, a.from, sl[i].period, a.stake) \in Int
    BY <2>2
  <2>5. QED
    BY <2>1, <2>3, <2>4 DEF AfterSlash
<1>4. \E f \in [I -> V] : f = Right(f)
  <2>1. Rank \in [I -> Nat]
    BY <1>1
  <2>2. ASSUME NEW f \in [I -> V] PROVE Right(f) \in [I -> V]
    <3> SUFFICES ASSUME NEW i \in I PROVE Value(f, i) \in V
      OBVIOUS
    <3>1. CASE i = 0
      BY <1>2, <3>1
    <3>2. CASE i # 0
      <4>1. i - 1 \in I /\ i \in 1..n
        BY <1>1, <3>2
      <4>2. f[i - 1] \in V
        BY <4>1
      <4>3. AfterSlash(hist, f[i - 1], sl[i]) \in V
        BY <1>3, <4>1, <4>2
      <4> HIDE DEF V, I, n, sl, hist, Seen, first
      <4>4. QED
        BY <3>2, <4>2, <4>3
    <3>3. QED
      BY <3>1, <3>2
  <2>3. Step \in [[I -> V] -> [I -> V]]
    <3> HIDE DEF Right
    <3> QED
      BY <2>2
  <2>4. \A f \in [I -> V] : Step[f] = Right(f)
    OBVIOUS
  <2>5. ASSUME NEW f \in [I -> V], NEW g \in [I -> V], NEW i \in I,
               \A j \in I : Rank[j] < Rank[i] => f[j] = g[j]
        PROVE  Step[f][i] = Step[g][i]
    <3>1. i # 0 => i - 1 \in I /\ i - 1 < i
      <4>1. n \in Nat
        BY <1>1
      <4> HIDE DEF n
      <4>2. QED
        BY <4>1
    <3>2. i # 0 => f[i - 1] = g[i - 1]
      BY <2>5, <3>1
    <3>3. Value(f, i) = Value(g, i)
      <4> HIDE DEF first, Seen, sl, hist
      <4> QED
        BY <3>2
    <3>4. Right(f)[i] = Value(f, i) /\ Right(g)[i] = Value(g, i)
      OBVIOUS
    <3> HIDE DEF Right, Value, Step, V, I
    <3>5. QED
      BY <2>4, <3>3, <3>4
  <2>6. V # {}
    BY <1>2
  <2> HIDE DEF Step, Right, V, I, Rank
  <2>7. \A f, g \in [I -> V] : \A i \in I :
          (\A j \in I : Rank[j] < Rank[i] => f[j] = g[j]) => Step[f][i] = Step[g][i]
    BY <2>5
  <2>8. Descends(I, V, Rank, Step)
    BY <2>1, <2>3, <2>6, <2>7 DEF Descends
  <2>9. \E f \in [I -> V] : Step[f] = f
    BY <2>8, Recursion
  <2>10. QED
    BY <2>4, <2>9
<1>5. After = Right(After)
  <2> HIDE DEF Right
  <2> QED
    BY <1>4
<1>6. AfterSlashes(D, dl, h) = After[n]
  BY DEF AfterSlashes
<1> HIDE DEF After
<1>7. After[0] = first
  BY <1>1, <1>5
<1>8. ASSUME NEW i \in 1..n PROVE After[i] = Value(After, i)
  <2>1. i \in 0..Len(sl)
    BY <1>1
  <2> HIDE DEF Value, sl, n
  <2>2. Right(After)[i] = Value(After, i)
    BY <2>1
  <2>3. QED
    BY <1>5, <2>2
<1> DEFINE N == {i \in Nat : i <= n => After[i] \in V}
<1>9. 0 \in N
  BY <1>2, <1>7
<1>10. ASSUME NEW i \in Nat, i \in N PROVE i + 1 \in N
  <2> SUFFICES ASSUME i + 1 <= n PROVE After[i + 1] \in V
    OBVIOUS
  <2>1. After[i] \in V /\ i + 1 \in 1..n /\ (i + 1) - 1 = i
    BY <1>1, <1>10
  <2>2. After[i + 1] = Value(After, i + 1)
    BY <1>8, <2>1
  <2>3. AfterSlash(hist, After[i], sl[i + 1]) \in V
    BY <1>3, <2>1
  <2>4. After[i + 1] = IF Seen(sl[i + 1]) /\ sl[i + 1].period > After[i].from
                       THEN AfterSlash(hist, After[i], sl[i + 1]) ELSE After[i]
    <3>1. i + 1 # 0
      OBVIOUS
    <3> HIDE DEF Seen, first
    <3>2. QED
      BY <2>1, <2>2, <3>1
  <2> HIDE DEF V, Seen, sl, hist, n
  <2>5. QED
    BY <2>1, <2>3, <2>4
<1>11. After \in [I -> V]
  <2>1. Nat \subseteq N
    <3> HIDE DEF N
    <3> QED
      BY <1>9, <1>10, NatInduct
  <2>2. \A i \in I : After[i] \in V
    BY <1>1, <2>1
  <2>3. After = [i \in I |-> After[i]]
    <3>1. Right(After) = [i \in I |-> Right(After)[i]]
      OBVIOUS
    <3> HIDE DEF Right
    <3>2. QED
      BY <1>5, <3>1
  <2> HIDE DEF N, V, I
  <2>4. QED
    BY <2>2, <2>3
<1>12. ASSUME NEW i \in 1..n
       PROVE  After[i] = IF Counts(s, sl[i], h) /\ sl[i].period > After[i - 1].from
                         THEN AfterSlash(hist, After[i - 1], sl[i]) ELSE After[i - 1]
  <2>1. i # 0 /\ After[i] = Value(After, i)
    BY <1>1, <1>8
  <2> HIDE DEF After, first, sl, hist, s, n
  <2>2. QED
    BY <2>1 DEF Counts
<1>13. Visits(After, D, dl, h) /\ After \in Stages(D, dl)
  BY <1>7, <1>11, <1>12 DEF Visits, Stages
<1>14. QED
  BY <1>6, <1>13

\* Going through the slashes ends at a recorded period; from a context height
\* that is not above the start no slash is visited.
LEMMA SlashesVisited ==
  ASSUME NEW D, NEW dl, NEW h \in Nat, Tracked(D, dl)
  PROVE  LET last == AfterSlashes(D, dl, h) IN
         /\ last.from \in DOMAIN D.hist[dl[2]] /\ last.stake \in Int /\ last.rewards \in Int
         /\ h <= D.start[dl].height => last.stake = D.start[dl].stake
<1> DEFINE sl == D.slashes[dl[2]]
           n == Len(sl)
<1>1. PICK f \in Stages(D, dl) : Visits(f, D, dl, h) /\ AfterSlashes(D, dl, h) = f[n]
  BY VisitsExist
<1>2. n \in Nat /\ D.start[dl].height \in Nat
  <2>1. sl \in Seq(SlashEvent) /\ D.start[dl] \in [prev : Nat, stake : Int, height : Nat]
    BY DEF Tracked
  <2> HIDE DEF sl
  <2>2. QED
    BY <2>1
<1>3. f[n] \in [from : DOMAIN D.hist[dl[2]], stake : Int, rewards : Int]
  BY <1>2 DEF Stages
<1>4. ASSUME h <= D.start[dl].height PROVE f[n].stake = D.start[dl].stake
  <2> DEFINE X == {i \in Nat : i <= n => f[i].stake = D.start[dl].stake}
  <2>1. 0 \in X
    BY <1>1 DEF Visits
  <2>2. ASSUME NEW i \in Nat, i \in X PROVE i + 1 \in X
    <3> SUFFICES ASSUME i + 1 <= n PROVE f[i + 1].stake = D.start[dl].stake
      OBVIOUS
    <3>1. i + 1 \in 1..n /\ (i + 1) - 1 = i /\ f[i].stake = D.start[dl].stake
      BY <1>2, <2>2
    <3>2. ~Counts(D.start[dl], sl[i + 1], h)
      BY <1>2, <1>4 DEF Counts
    <3>3. f[i + 1] = f[i]
      BY <1>1, <3>1, <3>2 DEF Visits
    <3>4. QED
      BY <3>1, <3>3
  <2>3. Nat \subseteq X
    <3> HIDE DEF X
    <3> QED
      BY <2>1, <2>2, NatInduct
  <2>4. QED
    BY <1>2, <2>3
<1>5. QED
  BY <1>1, <1>3, <1>4

\* Pending rewards are a number; at context height zero only a delegation of
\* a positive height that started with more than it is worth fails the check.
LEMMA PendingIs ==
  ASSUME NEW D, NEW S, Ledger(D, S), NEW dl \in S, NEW st,
         st.tokens \in [Validators -> Nat], TokensFromShares(st, dl) \in Int,
         NEW h \in Nat
  PROVE  /\ Pending(D, st, dl, h).rewards \in Int
         /\ h = 0 /\ ~Pending(D, st, dl, h).sane =>
              D.start[dl].height > 0 /\ D.start[dl].stake > TokensFromShares(st, dl)
<1> DEFINE v == dl[2]
           E == IncrementPeriod(D, st, v)
           last == AfterSlashes(E, dl, h)
           cur == TokensFromShares(st, dl)
           n == D.cur[v].period
           hist == E.hist[v]
<1>1. dl \in Delegations /\ v \in Validators
  BY DEF Ledger, Delegations
<1>2. Ledger(E, S) /\ Closed(D, E, v)
  BY <1>1, IncrementKeeps
<1>3. /\ E.start = D.start /\ E.cur[v].period - 1 = n
  <2>1. D.cur[v].period \in Nat
    BY <1>1 DEF Ledger, DistTyped
  <2>2. E.start = D.start /\ E.cur[v].period = n + 1
    BY <1>2 DEF Closed
  <2> HIDE DEF E
  <2>3. QED
    BY <2>1, <2>2
<1>4. D.start[dl] \in [prev : Nat, stake : Int, height : Nat]
  BY <1>1 DEF Ledger, DistTyped
<1> HIDE DEF E
<1>5. /\ Records(hist) /\ n \in DOMAIN hist /\ E.start[dl].prev \in DOMAIN hist
      /\ \A i \in DOMAIN E.slashes[v] : E.slashes[v][i].period \in DOMAIN hist
      /\ E.slashes[v] \in Seq(SlashEvent)
  <2>1. Records(hist) /\ E.slashes[v] \in Seq(SlashEvent)
    BY <1>1, <1>2 DEF Ledger, DistTyped, Records
  <2>2. /\ E.cur[v].period - 1 \in DOMAIN hist
        /\ \A x \in S : x[2] = v => E.start[x].prev \in DOMAIN hist
        /\ \A i \in DOMAIN E.slashes[v] : E.slashes[v][i].period \in DOMAIN hist
    BY <1>1, <1>2, ReferencesType
  <2>3. E.start[dl].prev \in DOMAIN hist
    BY <2>2
  <2>4. QED
    BY <1>3, <2>1, <2>2, <2>3
<1>6. /\ last.from \in DOMAIN hist /\ last.stake \in Int /\ last.rewards \in Int
      /\ h <= D.start[dl].height => last.stake = D.start[dl].stake
  <2>1. E.start[dl] \in [prev : Nat, stake : Int, height : Nat]
    BY <1>3, <1>4
  <2>2. /\ last.from \in DOMAIN hist /\ last.stake \in Int /\ last.rewards \in Int
        /\ h <= E.start[dl].height => last.stake = E.start[dl].stake
    <3>1. Tracked(E, dl)
      BY <1>5, <2>1 DEF Tracked
    <3>2. QED
      BY <3>1, SlashesVisited
  <2>3. QED
    BY <1>3, <2>2
<1>7. Pending(D, st, dl, h) =
        IF E.start[dl].height = h THEN [sane |-> TRUE, rewards |-> 0]
        ELSE [sane |-> last.stake <= cur + 3,
              rewards |-> last.rewards
                 + Between(hist, last.from, n, Least(last.stake, cur))]
  BY DEF Pending, DelegationRewards, E
<1> HIDE DEF last, cur, n
<1>8. Least(last.stake, cur) \in Int
  BY <1>6 DEF Least, cur
<1>9. Between(hist, last.from, n, Least(last.stake, cur)) \in Int
  BY <1>5, <1>6, <1>8, BetweenType
<1>10. Pending(D, st, dl, h).rewards \in Int
  BY <1>6, <1>7, <1>9
<1>11. ASSUME h = 0, ~Pending(D, st, dl, h).sane
       PROVE  D.start[dl].height > 0 /\ D.start[dl].stake > cur
  <2> DEFINE w == Pending(D, st, dl, h)
             x == last.rewards + Between(hist, last.from, n, Least(last.stake, cur))
             ok == last.stake <= cur + 3
  <2>0. w = IF E.start[dl].height = h THEN [sane |-> TRUE, rewards |-> 0]
            ELSE [sane |-> ok, rewards |-> x]
    BY <1>7
  <2>1. D.start[dl].height # 0 /\ ~ok
    <3>1. ~w.sane /\ h = 0
      BY <1>11
    <3> HIDE DEF w, x, ok
    <3>2. CASE E.start[dl].height = h
      <4>1. w = [sane |-> TRUE, rewards |-> 0]
        BY <2>0, <3>2
      <4>2. w.sane
        BY <4>1
      <4>3. QED
        BY <3>1, <4>2
    <3>3. CASE E.start[dl].height # h
      <4>1. w = [sane |-> ok, rewards |-> x]
        BY <2>0, <3>3
      <4>2. w.sane = ok
        BY <4>1
      <4>3. QED
        BY <1>3, <3>1, <3>3, <4>2
    <3>4. QED
      BY <3>2, <3>3
  <2>2. D.start[dl].height > 0
    BY <1>4, <2>1
  <2>3. last.stake = D.start[dl].stake
    <3>1. h <= D.start[dl].height
      BY <1>4, <1>11
    <3>2. QED
      BY <1>6, <3>1
  <2>4. last.stake > cur
    BY <1>6, <2>1 DEF cur
  <2>5. QED
    BY <2>2, <2>3, <2>4
<1>12. QED
  BY <1>10, <1>11 DEF cur

\* What paying a delegation leaves alone.
Settles(D, E, dl) ==
  /\ E.slashes = D.slashes /\ E.commission = D.commission
  /\ \A x \in Delegations \ {dl} : E.start[x] = D.start[x]

\* Paying a delegation takes it out of those that are counted.
LEMMA PayKeeps ==
  ASSUME NEW D, NEW S, Ledger(D, S), NEW dl \in S, NEW st,
         st.tokens \in [Validators -> Nat], TokensFromShares(st, dl) \in Int,
         NEW h \in Nat
  PROVE  /\ Ledger(PayRewards(D, st, dl, h), S \ {dl})
         /\ Settles(D, PayRewards(D, st, dl, h), dl)
<1> DEFINE v == dl[2]
           G == IncrementPeriod(D, st, v)
           E == PayRewards(D, st, dl, h)
           raw == Least(Pending(D, st, dl, h).rewards, G.outstanding[v])
           coins == raw \div Prec
           p == D.start[dl].prev
           g == DecRef(G.hist[v], p)
           T == S \ {dl}
<1>1. dl \in Delegations /\ v \in Validators /\ Prec \in Nat \ {0}
  BY ExportAssumption DEF Ledger, Delegations
<1>2. Ledger(G, S) /\ Closed(D, G, v)
  BY <1>1, IncrementKeeps
<1>3. S \subseteq Delegations /\ DistTyped(G) /\ Balanced(G) /\ Exact(G, S)
  BY <1>2 DEF Ledger
<1>4. G.start = D.start /\ G.slashes = D.slashes /\ G.commission = D.commission
  BY <1>2 DEF Closed
<1>5. raw \in Int /\ coins \in Int
  <2>1. Pending(D, st, dl, h).rewards \in Int
    BY PendingIs
  <2>2. G.outstanding[v] \in Int
    BY <1>1, <1>3 DEF DistTyped
  <2>3. raw \in Int
    BY <2>1, <2>2 DEF Least
  <2> HIDE DEF raw
  <2>4. QED
    BY <1>1, <2>3, Quotient
<1>6. /\ DOMAIN E = DOMAIN G
      /\ E.hist = [G.hist EXCEPT ![v] = g]
      /\ E.start = [G.start EXCEPT ![dl] = NoStart]
      /\ E.outstanding = [G.outstanding EXCEPT ![v] = @ - raw]
      /\ E.pool = G.pool + (raw - coins * Prec)
      /\ E.balance = G.balance - coins
      /\ E.cur = G.cur /\ E.slashes = G.slashes /\ E.commission = G.commission
  <2> HIDE DEF G, raw, coins
  <2>1. E = [G EXCEPT
               !.outstanding[v] = @ - raw,
               !.pool = @ + (raw - coins * Prec),
               !.balance = @ - coins,
               !.hist[v] = DecRef(@, D.start[dl].prev),
               !.start[dl] = NoStart]
    BY DEF PayRewards, G, raw, coins
  <2>2. QED
    BY <1>3, <2>1 DEF DistTyped, GenesisDistribution
<1> HIDE DEF G, E, raw, coins
<1>7. /\ Records(g) /\ DOMAIN g \subseteq DOMAIN G.hist[v]
      /\ \A q \in Nat : Recorded(g, q) = Recorded(G.hist[v], q) - IF q = p THEN 1 ELSE 0
  <2>1. Records(G.hist[v])
    BY <1>1, <1>3 DEF DistTyped, Records
  <2>2. \A x \in S : x[2] = v => G.start[x].prev \in DOMAIN G.hist[v]
    BY <1>1, <1>2, ReferencesType
  <2>3. p \in DOMAIN G.hist[v]
    BY <1>4, <2>2
  <2>4. QED
    BY <2>1, <2>3, DecRefIs
<1> HIDE DEF g
<1>8. /\ E.start \in [Delegations -> [prev : Nat, stake : Int, height : Nat]]
      /\ \A x \in Delegations \ {dl} : E.start[x] = G.start[x]
  <2>1. NoStart \in [prev : Nat, stake : Int, height : Nat]
    BY DEF NoStart
  <2>2. QED
    BY <1>1, <1>3, <1>6, <2>1 DEF DistTyped
<1>9. /\ DOMAIN E.hist = Validators /\ E.hist[v] = g
      /\ \A w \in Validators \ {v} : E.hist[w] = G.hist[w]
  BY <1>1, <1>3, <1>6 DEF DistTyped
<1>10. /\ G.outstanding \in [Validators -> Int]
       /\ E.outstanding \in [Validators -> Int]
       /\ E.outstanding[v] = G.outstanding[v] - raw
       /\ \A w \in Validators \ {v} : E.outstanding[w] = G.outstanding[w]
  <2>1. G.outstanding \in [Validators -> Int]
    BY <1>3 DEF DistTyped
  <2>2. E.outstanding = [G.outstanding EXCEPT ![v] = @ - raw]
    BY <1>6
  <2>3. raw \in Int /\ v \in Validators
    BY <1>1, <1>5
  <2>4. QED
    BY <2>1, <2>2, <2>3
<1>11. Settles(D, E, dl)
  BY <1>4, <1>6, <1>8 DEF Settles
<1>12. Balanced(E)
  <2>1. /\ SumFunction(G.outstanding) \in Int
        /\ SumFunction(E.outstanding) =
             SumFunction(G.outstanding) + (E.outstanding[v] - G.outstanding[v])
    BY <1>1, <1>10, OutstandingChange
  <2>2. /\ G.pool \in Int /\ G.outstanding[v] \in Int /\ G.balance \in Int
        /\ G.balance * Prec = SumFunction(G.outstanding) + G.pool
    BY <1>1, <1>3, <1>10 DEF DistTyped, Balanced
  <2>3. \A a, b \in Int : (a - b) * Prec = a * Prec - b * Prec
    BY <1>1
  <2>4. E.balance * Prec = G.balance * Prec - coins * Prec
    BY <1>5, <1>6, <2>2, <2>3
  <2>5. coins * Prec \in Int
    BY <1>1, <1>5
  <2>6. SumFunction(E.outstanding) + E.pool
          = (SumFunction(G.outstanding) + G.pool) - coins * Prec
    BY <1>5, <1>6, <1>10, <2>1, <2>2, <2>5
  <2>7. QED
    BY <2>2, <2>4, <2>6 DEF Balanced
<1>13. DistTyped(E)
  <2>1. ASSUME NEW w \in Validators
        PROVE  /\ E.hist[w] \in [DOMAIN E.hist[w] -> [ratio : Int, refs : Int]]
               /\ DOMAIN E.hist[w] \subseteq 0..(E.cur[w].period - 1)
    <3>1. CASE w = v
      <4>1. DOMAIN G.hist[v] \subseteq 0..(G.cur[v].period - 1)
        BY <1>1, <1>3 DEF DistTyped
      <4>2. QED
        BY <1>6, <1>7, <1>9, <3>1, <4>1 DEF Records
    <3>2. CASE w # v
      BY <1>3, <1>6, <1>9, <3>2 DEF DistTyped
    <3>3. QED
      BY <3>1, <3>2
  <2>2. E.pool \in Int /\ E.balance \in Int
    <3>1. G.pool \in Int /\ G.balance \in Int /\ coins * Prec \in Int
      BY <1>1, <1>3, <1>5 DEF DistTyped
    <3>2. QED
      BY <1>5, <1>6, <3>1
  <2>3. QED
    BY <1>3, <1>6, <1>8, <1>9, <1>10, <2>1, <2>2 DEF DistTyped
<1>14. ASSUME NEW w \in Validators, NEW q \in Nat
       PROVE  Recorded(E.hist[w], q) = References(E, T, w, q)
  <2> DEFINE a == Cardinality(Starts(E, T, w, q))
             b == Cardinality(Slashes(G.slashes[w], q))
             c == IF q = G.cur[w].period - 1 THEN 1 ELSE 0
             e == IF dl[2] = w /\ G.start[dl].prev = q THEN 1 ELSE 0
  <2>1. /\ References(E, T, w, q) = a + b + c
        /\ References(G, S, w, q) = Cardinality(Starts(G, S, w, q)) + b + c
    BY <1>6 DEF References, Starts, Slashes
  <2>2. a \in Nat /\ b \in Nat /\ c \in Nat /\ e \in Nat
    <3>1. T \subseteq Delegations
      BY <1>3
    <3> HIDE DEF T
    <3>2. a \in Nat
      BY <1>13, <3>1, CountsType
    <3>3. b \in Nat
      BY <1>3, CountsType
    <3>4. QED
      BY <3>2, <3>3
  <2>3. Cardinality(Starts(G, S, w, q)) = a + e
    <3>1. /\ T \subseteq Delegations /\ dl \notin T /\ S = T \cup {dl}
          /\ \A x \in T : G.start[x] = E.start[x]
      BY <1>3, <1>8
    <3> HIDE DEF T, e, a
    <3>2. Cardinality(Starts(G, T \cup {dl}, w, q)) = Cardinality(Starts(E, T, w, q))
            + IF dl[2] = w /\ G.start[dl].prev = q THEN 1 ELSE 0
      BY <1>1, <3>1, StartsCount
    <3>3. QED
      BY <3>1, <3>2 DEF e, a
  <2>4. Recorded(G.hist[w], q) = References(G, S, w, q)
    BY <1>3 DEF Exact
  <2>5. Recorded(E.hist[w], q) = Recorded(G.hist[w], q) - e
    <3>1. CASE w = v
      BY <1>4, <1>7, <1>9, <3>1
    <3>2. CASE w # v
      <4>1. Recorded(G.hist[w], q) \in Int
        BY <2>1, <2>2, <2>3, <2>4
      <4>2. e = 0 /\ E.hist[w] = G.hist[w]
        BY <1>9, <3>2
      <4> HIDE DEF e
      <4>3. QED
        BY <4>1, <4>2
    <3>3. QED
      BY <3>1, <3>2
  <2> HIDE DEF a, b, c, e
  <2>6. QED
    BY <2>1, <2>2, <2>3, <2>4, <2>5
<1>15. ASSUME NEW x \in T PROVE E.start[x].prev < E.cur[x[2]].period
  <2>1. G.start[x].prev < G.cur[x[2]].period
    BY <1>3 DEF Exact
  <2>2. E.start[x] = G.start[x]
    BY <1>3, <1>8
  <2>3. QED
    BY <1>6, <2>1, <2>2
<1>16. Exact(E, T)
  <2>1. ASSUME NEW w \in Validators
        PROVE  \A i \in DOMAIN E.slashes[w] : E.slashes[w][i].period < E.cur[w].period
    BY <1>3, <1>6 DEF Exact
  <2>2. QED
    BY <1>14, <1>15, <2>1 DEF Exact
<1>17. QED
  BY <1>3, <1>11, <1>12, <1>13, <1>16 DEF Ledger, E

\* What recording the slash e changes.
Slashed(D, E, v, e) ==
  /\ E.start = D.start
  /\ E.slashes[v] = Append(D.slashes[v], e)
  /\ \A w \in Validators \ {v} : E.slashes[w] = D.slashes[w]

\* A slash closes the period, and refers to it.
LEMMA RecordSlashKeeps ==
  ASSUME NEW D, NEW S, Ledger(D, S), NEW st, st.tokens \in [Validators -> Nat],
         NEW v \in Validators, NEW h \in Nat, NEW f \in Int
  PROVE  /\ Ledger(RecordSlash(D, st, v, h, f), S)
         /\ Slashed(D, RecordSlash(D, st, v, h, f), v,
                    [height |-> h, period |-> D.cur[v].period, fraction |-> f])
<1> DEFINE G == IncrementPeriod(D, st, v)
           E == RecordSlash(D, st, v, h, f)
           p == D.cur[v].period
           e == [height |-> h, period |-> p, fraction |-> f]
           g == IncRef(G.hist[v], p)
<1>1. p \in Nat \ {0} /\ e \in SlashEvent /\ e.period = p
  <2>1. D.cur[v] \in [rewards : Int, period : Nat \ {0}]
    BY DEF Ledger, DistTyped
  <2>2. p \in Nat \ {0}
    BY <2>1
  <2> HIDE DEF p
  <2>3. QED
    BY <2>2 DEF SlashEvent
<1>2. Ledger(G, S) /\ Closed(D, G, v)
  BY IncrementKeeps
<1>3. S \subseteq Delegations /\ DistTyped(G) /\ Balanced(G) /\ Exact(G, S)
  BY <1>2 DEF Ledger
<1> HIDE DEF e
<1>4. /\ G.start = D.start /\ G.slashes = D.slashes
      /\ G.cur[v].period = p + 1 /\ G.cur[v].period - 1 = p
  <2>1. G.start = D.start /\ G.slashes = D.slashes /\ G.cur[v].period = p + 1
    BY <1>2 DEF Closed
  <2> HIDE DEF G, p
  <2>2. QED
    BY <1>1, <2>1
<1>5. /\ DOMAIN E = DOMAIN G
      /\ E.hist = [G.hist EXCEPT ![v] = g]
      /\ E.slashes = [G.slashes EXCEPT ![v] = Append(@, e)]
      /\ E.cur = G.cur /\ E.start = G.start /\ E.outstanding = G.outstanding
      /\ E.commission = G.commission /\ E.pool = G.pool /\ E.balance = G.balance
  <2> HIDE DEF G
  <2>1. E = [G EXCEPT
               !.hist[v] = IncRef(@, p),
               !.slashes[v] = Append(@, [height |-> h, period |-> p, fraction |-> f])]
    BY DEF RecordSlash, G
  <2>2. QED
    BY <1>3, <2>1 DEF DistTyped, GenesisDistribution, e
<1> HIDE DEF G, E
<1>6. /\ Records(g) /\ DOMAIN g = DOMAIN G.hist[v]
      /\ \A q \in Nat : Recorded(g, q) = Recorded(G.hist[v], q) + IF q = p THEN 1 ELSE 0
  <2>1. Records(G.hist[v])
    BY <1>3 DEF DistTyped, Records
  <2>2. p \in DOMAIN G.hist[v]
    <3>1. G.cur[v].period - 1 \in DOMAIN G.hist[v]
      BY <1>2, ReferencesType
    <3>2. QED
      BY <1>4, <3>1
  <2>3. QED
    BY <2>1, <2>2, IncRefIs
<1> HIDE DEF g, p
<1>7. /\ DOMAIN E.hist = Validators /\ E.hist[v] = g
      /\ \A w \in Validators \ {v} : E.hist[w] = G.hist[w]
  BY <1>3, <1>5 DEF DistTyped
<1>8. /\ G.slashes \in [Validators -> Seq(SlashEvent)]
      /\ E.slashes \in [Validators -> Seq(SlashEvent)]
      /\ E.slashes[v] = Append(G.slashes[v], e)
      /\ \A w \in Validators \ {v} : E.slashes[w] = G.slashes[w]
  <2>1. G.slashes \in [Validators -> Seq(SlashEvent)]
    BY <1>3 DEF DistTyped
  <2>2. E.slashes = [G.slashes EXCEPT ![v] = Append(@, e)]
    BY <1>5
  <2>3. Append(G.slashes[v], e) \in Seq(SlashEvent)
    BY <1>1, <2>1
  <2>4. QED
    BY <2>1, <2>2, <2>3
<1>9. Balanced(E)
  BY <1>3, <1>5 DEF Balanced
<1>10. DistTyped(E)
  <2>1. ASSUME NEW w \in Validators
        PROVE  /\ E.hist[w] \in [DOMAIN E.hist[w] -> [ratio : Int, refs : Int]]
               /\ DOMAIN E.hist[w] \subseteq 0..(E.cur[w].period - 1)
    <3>1. CASE w = v
      <4>1. DOMAIN G.hist[v] \subseteq 0..(G.cur[v].period - 1)
        BY <1>3 DEF DistTyped
      <4>2. QED
        BY <1>5, <1>6, <1>7, <3>1, <4>1 DEF Records
    <3>2. CASE w # v
      BY <1>3, <1>5, <1>7, <3>2 DEF DistTyped
    <3>3. QED
      BY <3>1, <3>2
  <2>2. QED
    BY <1>3, <1>5, <1>7, <1>8, <2>1 DEF DistTyped
<1>11. ASSUME NEW w \in Validators, NEW q \in Nat
       PROVE  Recorded(E.hist[w], q) = References(E, S, w, q)
  <2> DEFINE a == Cardinality(Starts(G, S, w, q))
             b == Cardinality(Slashes(G.slashes[w], q))
             c == IF q = G.cur[w].period - 1 THEN 1 ELSE 0
             d == IF w = v /\ q = p THEN 1 ELSE 0
  <2>1. /\ References(G, S, w, q) = a + b + c
        /\ References(E, S, w, q) = a + Cardinality(Slashes(E.slashes[w], q)) + c
    BY <1>5 DEF References, Starts, Slashes
  <2>2. a \in Nat /\ b \in Nat /\ c \in Nat /\ d \in Nat
    BY <1>3, CountsType
  <2>3. Cardinality(Slashes(E.slashes[w], q)) = b + d
    <3>1. CASE w = v
      <4>1. G.slashes[v] \in Seq(SlashEvent)
        BY <1>8
      <4>2. Cardinality(Slashes(Append(G.slashes[v], e), q)) =
              Cardinality(Slashes(G.slashes[v], q)) + IF e.period = q THEN 1 ELSE 0
        BY <1>1, <4>1, SlashesCount
      <4>3. QED
        BY <1>1, <1>8, <3>1, <4>2
    <3>2. CASE w # v
      <4>1. d = 0 /\ E.slashes[w] = G.slashes[w]
        BY <1>8, <3>2
      <4>2. QED
        BY <2>2, <4>1
    <3>3. QED
      BY <3>1, <3>2
  <2>4. Recorded(G.hist[w], q) = References(G, S, w, q)
    BY <1>3 DEF Exact
  <2>5. Recorded(E.hist[w], q) = Recorded(G.hist[w], q) + d
    <3>1. CASE w = v
      BY <1>6, <1>7, <3>1
    <3>2. CASE w # v
      <4>1. Recorded(G.hist[w], q) \in Int
        BY <2>1, <2>2, <2>4
      <4>2. d = 0 /\ E.hist[w] = G.hist[w]
        BY <1>7, <3>2
      <4> HIDE DEF d
      <4>3. QED
        BY <4>1, <4>2
    <3>3. QED
      BY <3>1, <3>2
  <2> HIDE DEF a, b, c, d
  <2>6. QED
    BY <2>1, <2>2, <2>3, <2>4, <2>5
<1>12. ASSUME NEW w \in Validators
       PROVE  \A i \in DOMAIN E.slashes[w] : E.slashes[w][i].period < E.cur[w].period
  <2>1. \A i \in DOMAIN G.slashes[w] : G.slashes[w][i].period < G.cur[w].period
    BY <1>3 DEF Exact
  <2>2. CASE w = v
    <3>1. p < G.cur[v].period
      BY <1>1, <1>4
    <3>2. G.slashes[v] \in Seq(SlashEvent)
      BY <1>8
    <3>3. ASSUME NEW i \in DOMAIN Append(G.slashes[v], e)
          PROVE  \/ Append(G.slashes[v], e)[i] = e
                 \/ i \in DOMAIN G.slashes[v] /\ Append(G.slashes[v], e)[i] = G.slashes[v][i]
      BY <3>2
    <3>4. QED
      BY <1>1, <1>5, <1>8, <2>1, <2>2, <3>1, <3>3
  <2>3. CASE w # v
    BY <1>5, <1>8, <2>1, <2>3
  <2>4. QED
    BY <2>2, <2>3
<1>13. Exact(E, S)
  BY <1>3, <1>5, <1>11, <1>12 DEF Exact
<1>14. QED
  BY <1>3, <1>4, <1>5, <1>8, <1>9, <1>10, <1>13 DEF Ledger, Slashed, E, e, p

\* Where nothing refers to another period, counts stay exact.
LEMMA ExactSame ==
  ASSUME NEW D, NEW E, NEW S, Exact(D, S), S \subseteq Delegations,
         E.hist = D.hist, E.start = D.start, E.slashes = D.slashes,
         \A v \in Validators : E.cur[v].period = D.cur[v].period
  PROVE  Exact(E, S)
<1>1. ASSUME NEW v \in Validators, NEW p \in Nat
      PROVE  References(E, S, v, p) = References(D, S, v, p)
  BY DEF References
<1>2. \A dl \in S : dl[2] \in Validators
  BY DEF Delegations
<1>3. QED
  BY <1>1, <1>2 DEF Exact

\* Commission is paid in whole coins.
LEMMA CommissionKeeps ==
  ASSUME NEW D, DistTyped(D), Balanced(D), NEW v \in Validators
  PROVE  LET E == WithdrawCommission(D, v) IN
         /\ DistTyped(E) /\ Balanced(E)
         /\ E.hist = D.hist /\ E.start = D.start /\ E.slashes = D.slashes /\ E.cur = D.cur
<1> DEFINE E == WithdrawCommission(D, v)
           coins == D.commission[v] \div Prec
<1>1. Prec \in Nat \ {0}
  BY ExportAssumption
<1>2. coins \in Int /\ coins * Prec \in Int
  <2>1. D.commission[v] \in Int
    BY DEF DistTyped
  <2>2. coins \in Int
    BY <1>1, <2>1, Quotient
  <2> HIDE DEF coins
  <2>3. QED
    BY <1>1, <2>2
<1>3. /\ DOMAIN E = DOMAIN D
      /\ E.commission = [D.commission EXCEPT ![v] = @ - coins * Prec]
      /\ E.outstanding = [D.outstanding EXCEPT ![v] = @ - coins * Prec]
      /\ E.balance = D.balance - coins
      /\ E.hist = D.hist /\ E.start = D.start /\ E.slashes = D.slashes
      /\ E.cur = D.cur /\ E.pool = D.pool
  <2> HIDE DEF coins
  <2>1. E = [D EXCEPT
               !.commission[v] = @ - coins * Prec,
               !.outstanding[v] = @ - coins * Prec,
               !.balance = @ - coins]
    BY DEF WithdrawCommission, coins
  <2>2. QED
    BY <2>1 DEF DistTyped, GenesisDistribution
<1> HIDE DEF E, coins
<1>4. /\ D.outstanding \in [Validators -> Int] /\ D.commission \in [Validators -> Int]
      /\ D.pool \in Int /\ D.balance \in Int
      /\ D.balance * Prec = SumFunction(D.outstanding) + D.pool
  BY DEF DistTyped, Balanced
<1>5. /\ E.outstanding \in [Validators -> Int]
      /\ E.outstanding[v] = D.outstanding[v] - coins * Prec
      /\ \A w \in Validators \ {v} : E.outstanding[w] = D.outstanding[w]
      /\ E.commission \in [Validators -> Int]
  <2> DEFINE m == coins * Prec
  <2>1. m \in Int
    BY <1>2
  <2>2. /\ E.outstanding = [D.outstanding EXCEPT ![v] = @ - m]
        /\ E.commission = [D.commission EXCEPT ![v] = @ - m]
    BY <1>3
  <2> HIDE DEF m
  <2>3. /\ E.outstanding \in [Validators -> Int]
        /\ E.outstanding[v] = D.outstanding[v] - m
        /\ \A w \in Validators \ {v} : E.outstanding[w] = D.outstanding[w]
        /\ E.commission \in [Validators -> Int]
    BY <1>4, <2>1, <2>2
  <2>4. QED
    BY <2>3 DEF m
<1>6. Balanced(E)
  <2>1. /\ SumFunction(D.outstanding) \in Int
        /\ SumFunction(E.outstanding) =
             SumFunction(D.outstanding) + (E.outstanding[v] - D.outstanding[v])
    BY <1>4, <1>5, OutstandingChange
  <2>2. \A a, b \in Int : (a - b) * Prec = a * Prec - b * Prec
    BY <1>1
  <2>3. E.balance * Prec = D.balance * Prec - coins * Prec
    BY <1>2, <1>3, <1>4, <2>2
  <2>4. D.outstanding[v] \in Int
    BY <1>4
  <2>5. SumFunction(E.outstanding) + E.pool
          = (SumFunction(D.outstanding) + D.pool) - coins * Prec
    BY <1>2, <1>3, <1>4, <1>5, <2>1, <2>4
  <2>6. QED
    BY <1>4, <2>3, <2>5 DEF Balanced
<1>7. DistTyped(E)
  <2>1. E.balance \in Int
    BY <1>2, <1>3, <1>4
  <2>2. QED
    BY <1>3, <1>5, <2>1 DEF DistTyped
<1>8. QED
  BY <1>3, <1>6, <1>7 DEF E

\* Fees allocated to a validator are outstanding.
LEMMA AllocateKeeps ==
  ASSUME NEW D, NEW S, Ledger(D, S), NEW v \in Validators, NEW coins \in Nat, NEW c \in Int
  PROVE  LET E == Allocate(D, v, coins, c) IN
         Ledger(E, S) /\ E.start = D.start /\ E.slashes = D.slashes
<1> DEFINE E == Allocate(D, v, coins, c)
           m == coins * Prec
<1>1. Prec \in Nat \ {0} /\ m \in Int
  BY ExportAssumption
<1>2. S \subseteq Delegations /\ DistTyped(D) /\ Balanced(D) /\ Exact(D, S)
  BY DEF Ledger
<1>3. /\ DOMAIN E = DOMAIN D
      /\ E.cur = [D.cur EXCEPT ![v].rewards = @ + (m - c)]
      /\ E.commission = [D.commission EXCEPT ![v] = @ + c]
      /\ E.outstanding = [D.outstanding EXCEPT ![v] = @ + m]
      /\ E.balance = D.balance + coins
      /\ E.hist = D.hist /\ E.start = D.start /\ E.slashes = D.slashes
      /\ E.pool = D.pool
  BY <1>2 DEF Allocate, DistTyped, GenesisDistribution
<1> HIDE DEF E, m
<1>4. /\ D.outstanding \in [Validators -> Int] /\ D.commission \in [Validators -> Int]
      /\ D.pool \in Int /\ D.balance \in Int
      /\ D.balance * Prec = SumFunction(D.outstanding) + D.pool
      /\ D.cur \in [Validators -> [rewards : Int, period : Nat \ {0}]]
  BY <1>2 DEF DistTyped, Balanced
<1>5. /\ E.outstanding \in [Validators -> Int]
      /\ E.outstanding[v] = D.outstanding[v] + m
      /\ \A w \in Validators \ {v} : E.outstanding[w] = D.outstanding[w]
      /\ E.commission \in [Validators -> Int]
  BY <1>1, <1>3, <1>4
<1>6. /\ E.cur \in [Validators -> [rewards : Int, period : Nat \ {0}]]
      /\ \A w \in Validators : E.cur[w].period = D.cur[w].period
  <2> DEFINE x == m - c
  <2>1. x \in Int
    BY <1>1
  <2>2. E.cur = [D.cur EXCEPT ![v].rewards = @ + x]
    BY <1>3
  <2> HIDE DEF x
  <2>3. QED
    BY <1>4, <2>1, <2>2
<1>7. Balanced(E)
  <2>1. /\ SumFunction(D.outstanding) \in Int
        /\ SumFunction(E.outstanding) =
             SumFunction(D.outstanding) + (E.outstanding[v] - D.outstanding[v])
    BY <1>4, <1>5, OutstandingChange
  <2>2. \A a, b \in Int : (a + b) * Prec = a * Prec + b * Prec
    BY <1>1
  <2>3. E.balance * Prec = D.balance * Prec + m
    BY <1>3, <1>4, <2>2 DEF m
  <2>4. D.outstanding[v] \in Int
    BY <1>4
  <2>5. SumFunction(E.outstanding) + E.pool = (SumFunction(D.outstanding) + D.pool) + m
    <3> DEFINE s == SumFunction(D.outstanding)
               a == D.outstanding[v]
               p == D.pool
    <3>1. s \in Int /\ a \in Int /\ p \in Int /\ m \in Int
      BY <1>1, <1>4, <2>1, <2>4
    <3>2. SumFunction(E.outstanding) = s + ((a + m) - a)
      BY <1>5, <2>1
    <3>3. E.pool = p
      BY <1>3
    <3> HIDE DEF s, a, p
    <3>4. SumFunction(E.outstanding) + E.pool = (s + p) + m
      BY <3>1, <3>2, <3>3
    <3>5. QED
      BY <3>4 DEF s, p
  <2>6. QED
    BY <1>4, <2>3, <2>5 DEF Balanced
<1>8. DistTyped(E)
  <2>1. E.balance \in Int
    BY <1>3, <1>4
  <2>2. QED
    BY <1>2, <1>3, <1>5, <1>6, <2>1 DEF DistTyped
<1>9. Exact(E, S)
  BY <1>2, <1>3, <1>6, ExactSame
<1>10. QED
  BY <1>2, <1>3, <1>7, <1>8, <1>9 DEF Ledger, E

---------------------------------------------------------------------------
(* Staking. *)

Bonded(st) == {dl \in Delegations : st.del[dl] > 0}

\* The types of a sound staking state, and what a delegation's shares are of
\* those of its validator.
LEMMA StakeOf ==
  ASSUME NEW st, StakingSound(st), NEW dl \in Delegations
  PROVE  /\ dl[2] \in Validators /\ dl \in Delegators \X {dl[2]}
         /\ st.del[dl] \in Nat /\ st.tokens[dl[2]] \in Nat
         /\ st.shares[dl[2]] \in Nat \ {0}
         /\ TokensFromShares(st, dl) \in Nat
         /\ st.del[dl] <= st.shares[dl[2]]
         /\ \A x \in Bonded(st) : x # dl /\ x[2] = dl[2] => st.del[dl] < st.shares[dl[2]]
<1> DEFINE v == dl[2]
           S == Delegators \X {v}
           R == S \ {dl}
<1>1. v \in Validators /\ dl \in S /\ Prec \in Nat \ {0}
  BY ExportAssumption DEF Delegations
<1>2. /\ IsFiniteSet(S) /\ S \subseteq Delegations /\ IsFiniteSet(R)
      /\ R \subseteq Delegations
  BY <1>1, FiniteDelegations
<1>3. st.del \in [Delegations -> Nat] /\ st.tokens[v] \in Nat /\ st.shares[v] \in Nat \ {0}
  BY <1>1 DEF StakingSound
<1>4. st.shares[v] = SumFunctionOnSet(st.del, S)
  BY <1>1 DEF StakingSound
<1>5. st.del[dl] \in Nat
  BY <1>3
<1>6. TokensFromShares(st, dl) \in Nat
  <2> DEFINE a == st.del[dl] * st.tokens[v] * Prec
  <2>1. a \in Int /\ a >= 0
    BY <1>1, <1>3, <1>5
  <2>2. st.shares[v] \in Nat \ {0}
    BY <1>3
  <2> HIDE DEF a, v
  <2>3. a \div st.shares[v] \in Nat
    BY <2>1, <2>2, Quotient
  <2>4. QED
    BY <2>3 DEF a, v, TokensFromShares
<1>7. \A x \in S : st.del[x] \in Nat
  BY <1>2, <1>3
<1>8. SumFunctionOnSet(st.del, S) = st.del[dl] + SumFunctionOnSet(st.del, R)
  BY <1>1, <1>2, <1>7, SumTake
<1>9. /\ SumFunctionOnSet(st.del, R) \in Nat
      /\ \A x \in R : st.del[x] <= SumFunctionOnSet(st.del, R)
  BY <1>2, <1>7, SumNat
<1>10. st.del[dl] <= st.shares[v]
  BY <1>3, <1>4, <1>5, <1>8, <1>9
<1>11. ASSUME NEW x \in Bonded(st), x # dl, x[2] = v PROVE st.del[dl] < st.shares[v]
  <2>1. x \in R /\ st.del[x] > 0 /\ st.del[x] \in Nat
    BY <1>3, <1>11 DEF Bonded, Delegations
  <2>2. SumFunctionOnSet(st.del, R) > 0
    BY <1>9, <2>1
  <2> HIDE DEF v, R, S
  <2>3. QED
    BY <1>3, <1>4, <1>5, <1>8, <1>9, <2>2
<1>12. QED
  BY <1>1, <1>3, <1>5, <1>6, <1>10, <1>11

\* When the shares of one delegation change, those of its validator change by
\* as much.
LEMMA SharesChange ==
  ASSUME NEW st, StakingSound(st), NEW dl \in Delegations, NEW n \in Nat,
         NEW f \in [Delegations -> Nat], f[dl] = n,
         \A x \in Delegations \ {dl} : f[x] = st.del[x],
         NEW g, g[dl[2]] = st.shares[dl[2]] + (n - st.del[dl]),
         \A v \in Validators \ {dl[2]} : g[v] = st.shares[v]
  PROVE  \A v \in Validators : g[v] = SumFunctionOnSet(f, Delegators \X {v})
<1>1. st.del \in [Delegations -> Nat] /\ st.shares \in [Validators -> Nat \ {0}]
  BY DEF StakingSound
<1>2. dl[2] \in Validators /\ dl \in Delegators \X {dl[2]} /\ st.del[dl] \in Nat
  BY StakeOf
<1> TAKE v \in Validators
<1> DEFINE S == Delegators \X {v}
<1>3. /\ IsFiniteSet(S) /\ S \subseteq Delegations
      /\ st.shares[v] = SumFunctionOnSet(st.del, S)
  BY FiniteDelegations DEF StakingSound
<1>4. \A x \in S : st.del[x] \in Int
  BY <1>1, <1>3
<1>5. CASE v = dl[2]
  <2>1. dl \in S /\ f[dl] = n /\ n \in Int
    BY <1>1, <1>2, <1>5
  <2>2. \A x \in S \ {dl} : f[x] = st.del[x]
    BY <1>1, <1>3
  <2> DEFINE d == st.del
  <2>3. \A x \in S : d[x] \in Int
    BY <1>4
  <2>4. f[dl] \in Int
    BY <2>1
  <2>5. \A x \in S \ {dl} : f[x] = d[x]
    BY <2>2
  <2>6. IsFiniteSet(S)
    BY <1>3
  <2>10. dl \in S
    BY <2>1
  <2> HIDE DEF S, d
  <2>7. SumFunctionOnSet(f, S) = SumFunctionOnSet(d, S) + (f[dl] - d[dl])
    BY <2>3, <2>4, <2>5, <2>6, <2>10, SumChange
  <2>8. g[v] = st.shares[v] + (n - st.del[dl])
    BY <1>1, <1>2, <1>5
  <2>9. QED
    BY <1>3, <2>1, <2>7, <2>8 DEF S, d
<1>6. CASE v # dl[2]
  <2>1. \A x \in S : x # dl
    BY <1>6
  <2>2. \A x \in S : st.del[x] \in Int /\ f[x] = st.del[x]
    BY <1>1, <1>3, <1>4, <2>1
  <2> DEFINE d == st.del
  <2>3. \A x \in S : d[x] \in Int /\ f[x] = d[x]
    BY <2>2
  <2>4. IsFiniteSet(S)
    BY <1>3
  <2> HIDE DEF S, d
  <2>5. SumFunctionOnSet(f, S) = SumFunctionOnSet(d, S)
    BY <2>3, <2>4, SumSame
  <2>6. g[v] = st.shares[v]
    BY <1>1, <1>2, <1>6
  <2>7. QED
    BY <1>3, <2>5, <2>6 DEF S, d
<1>7. QED
  BY <1>5, <1>6

\* Where a share is worth no less than before, neither is a delegation.
LEMMA WorthMore ==
  ASSUME NEW st, StakingSound(st), NEW su, StakingSound(su), NEW dl \in Delegations,
         su.del[dl] = st.del[dl],
         st.tokens[dl[2]] * su.shares[dl[2]] <= su.tokens[dl[2]] * st.shares[dl[2]]
  PROVE  TokensFromShares(st, dl) <= TokensFromShares(su, dl)
<1> DEFINE t == st.tokens[dl[2]]
           u == su.tokens[dl[2]]
           s == st.shares[dl[2]]
           r == su.shares[dl[2]]
           n == st.del[dl]
           a == n * t * Prec
           c == n * u * Prec
<1>1. /\ t \in Nat /\ u \in Nat /\ s \in Nat \ {0} /\ r \in Nat \ {0} /\ n \in Nat
      /\ Prec \in Nat \ {0} /\ t * r <= u * s
  BY StakeOf, ExportAssumption
<1>2. /\ TokensFromShares(st, dl) = a \div s
      /\ TokensFromShares(su, dl) = c \div r
  BY DEF TokensFromShares
<1> HIDE DEF t, u, s, r, n
<1>3. a \in Nat /\ c \in Nat
  BY <1>1
<1>4. a * r <= c * s
  <2>1. a * r = (n * Prec) * (t * r) /\ c * s = (n * Prec) * (u * s)
    BY <1>1
  <2>2. \A x, y, k \in Nat : x <= y => k * x <= k * y
    OBVIOUS
  <2>3. n * Prec \in Nat /\ t * r \in Nat /\ u * s \in Nat
    BY <1>1
  <2>4. QED
    BY <1>1, <2>1, <2>2, <2>3
<1> HIDE DEF a, c
<1>5. a \div s <= c \div r
  BY <1>1, <1>3, <1>4, QuotientMono
<1>6. QED
  BY <1>2, <1>5

---------------------------------------------------------------------------
(* The operations of the running chain.                                    *)

Worth(D, st, dl) == D.start[dl].stake <= TokensFromShares(st, dl)
Since(D, dl) ==
  \E i \in DOMAIN D.slashes[dl[2]] : D.slashes[dl[2]][i].period > D.start[dl].prev
Kept(D, st) == \A dl \in Bonded(st) : Worth(D, st, dl) \/ Since(D, dl)
Indexed(st) == Validators \ st.jailed \subseteq st.power /\ st.power \cap st.jailed = {}

\* What holds of staking and distribution while the chain runs.
Sound(D, st) ==
  /\ StakingSound(st) /\ Ledger(D, Bonded(st)) /\ Kept(D, st) /\ Indexed(st)

\* What a delegation of "amount" makes of the staking state.
Bond(st, dl, amount, issued) ==
  [st EXCEPT !.del[dl] = @ + issued, !.tokens[dl[2]] = @ + amount,
             !.shares[dl[2]] = @ + issued]

\* Shares are issued at a rate at which no delegation loses.
LEMMA BondKeeps ==
  ASSUME NEW st, StakingSound(st), NEW dl \in Delegations, NEW amount \in Nat,
         st.tokens[dl[2]] > 0, NEW issued,
         issued = (amount * st.shares[dl[2]]) \div st.tokens[dl[2]], issued > 0
  PROVE  LET su == Bond(st, dl, amount, issued) IN
         /\ StakingSound(su) /\ Bonded(su) = Bonded(st) \cup {dl}
         /\ su.jailed = st.jailed /\ su.power = st.power
         /\ \A x \in Delegations \ {dl} :
              TokensFromShares(st, x) <= TokensFromShares(su, x)
<1> DEFINE v == dl[2]
           t == st.tokens[v]
           s == st.shares[v]
           n == st.del[dl]
           su == Bond(st, dl, amount, issued)
<1>1. v \in Validators /\ t \in Nat \ {0} /\ s \in Nat \ {0} /\ n \in Nat
  BY StakeOf
<1>2. issued \in Nat \ {0} /\ issued * t <= amount * s
  <2> DEFINE a == amount * s
  <2>1. a \in Int /\ issued = a \div t
    BY <1>1
  <2> HIDE DEF a, t
  <2>2. issued \in Int /\ issued * t <= a
    BY <1>1, <2>1, Quotient
  <2>3. QED
    BY <2>2 DEF a
<1>3. /\ DOMAIN st = DOMAIN GenesisStaking
      /\ st.del \in [Delegations -> Nat]
      /\ st.tokens \in [Validators -> Nat] /\ st.shares \in [Validators -> Nat \ {0}]
  BY DEF StakingSound
<1>4. /\ DOMAIN su = DOMAIN st
      /\ su.del = [st.del EXCEPT ![dl] = @ + issued]
      /\ su.tokens = [st.tokens EXCEPT ![v] = @ + amount]
      /\ su.shares = [st.shares EXCEPT ![v] = @ + issued]
      /\ su.jailed = st.jailed /\ su.power = st.power /\ su.unbonding = st.unbonding
      /\ su.entries = st.entries /\ su.signing = st.signing
  BY <1>3 DEF Bond, GenesisStaking
<1> HIDE DEF su
<1>5. /\ su.del \in [Delegations -> Nat] /\ su.del[dl] = n + issued
      /\ \A x \in Delegations \ {dl} : su.del[x] = st.del[x]
  BY <1>2, <1>3, <1>4
<1>6. /\ su.tokens \in [Validators -> Nat] /\ su.tokens[v] = t + amount
      /\ \A w \in Validators \ {v} : su.tokens[w] = st.tokens[w]
  BY <1>1, <1>3, <1>4
<1>7. /\ su.shares \in [Validators -> Nat \ {0}] /\ su.shares[v] = s + issued
      /\ \A w \in Validators \ {v} : su.shares[w] = st.shares[w]
  BY <1>1, <1>2, <1>3, <1>4
<1>8. \A w \in Validators : su.shares[w] = SumFunctionOnSet(su.del, Delegators \X {w})
  <2> DEFINE m == n + issued
  <2>1. m \in Nat /\ su.del[dl] = m
    BY <1>1, <1>2, <1>5
  <2>2. su.shares[v] = st.shares[v] + (m - st.del[dl])
    BY <1>1, <1>2, <1>7
  <2> HIDE DEF m
  <2>3. QED
    BY <1>5, <1>7, <2>1, <2>2, SharesChange
<1>9. StakingSound(su)
  BY <1>3, <1>4, <1>5, <1>6, <1>7, <1>8 DEF StakingSound
<1>10. Bonded(su) = Bonded(st) \cup {dl}
  <2>1. su.del[dl] > 0
    BY <1>1, <1>2, <1>5
  <2>2. QED
    BY <1>5, <2>1 DEF Bonded
<1>11. ASSUME NEW x \in Delegations \ {dl}
       PROVE  TokensFromShares(st, x) <= TokensFromShares(su, x)
  <2> DEFINE w == x[2]
  <2>1. w \in Validators /\ st.tokens[w] \in Nat /\ st.shares[w] \in Nat
    BY StakeOf
  <2>2. st.tokens[w] * su.shares[w] <= su.tokens[w] * st.shares[w]
    <3>1. CASE w = v
      <4>1. st.tokens[w] * su.shares[w] = t * (s + issued)
        BY <1>7, <3>1
      <4>2. su.tokens[w] * st.shares[w] = (t + amount) * s
        BY <1>6, <3>1
      <4>3. t * (s + issued) <= (t + amount) * s
        <5> HIDE DEF t, s
        <5>1. t * (s + issued) = t * s + issued * t /\ (t + amount) * s = t * s + amount * s
          BY <1>1, <1>2
        <5>2. t * s \in Int /\ issued * t \in Int /\ amount * s \in Int
          BY <1>1, <1>2
        <5>3. QED
          BY <1>2, <5>1, <5>2
      <4>4. QED
        BY <4>1, <4>2, <4>3
    <3>2. CASE w # v
      <4>1. su.shares[w] = st.shares[w] /\ su.tokens[w] = st.tokens[w]
        BY <1>6, <1>7, <2>1, <3>2
      <4>2. QED
        BY <2>1, <4>1
    <3>3. QED
      BY <3>1, <3>2
  <2>3. su.del[x] = st.del[x]
    BY <1>5
  <2>4. QED
    BY <1>9, <2>2, <2>3, WorthMore
<1>12. QED
  BY <1>4, <1>9, <1>10, <1>11 DEF su

\* What undelegating everything makes of the staking state.
Unbond(st, dl, h) ==
  [st EXCEPT !.del[dl] = 0,
             !.tokens[dl[2]] = @ - (TokensFromShares(st, dl) \div Prec),
             !.shares[dl[2]] = @ - st.del[dl],
             !.entries = @ \cup {[dl |-> dl, height |-> h]}]

\* Tokens are returned at a rate at which no other delegation loses.
LEMMA UnbondKeeps ==
  ASSUME NEW st, StakingSound(st), NEW dl \in Bonded(st), NEW h \in Nat,
         NEW other \in Bonded(st), other # dl, other[2] = dl[2]
  PROVE  LET su == Unbond(st, dl, h) IN
         /\ StakingSound(su) /\ Bonded(su) = Bonded(st) \ {dl}
         /\ su.jailed = st.jailed /\ su.power = st.power
         /\ \A x \in Delegations \ {dl} :
              TokensFromShares(st, x) <= TokensFromShares(su, x)
<1> DEFINE v == dl[2]
           t == st.tokens[v]
           s == st.shares[v]
           n == st.del[dl]
           y == TokensFromShares(st, dl) \div Prec
           su == Unbond(st, dl, h)
<1>1. /\ dl \in Delegations /\ v \in Validators /\ t \in Nat /\ s \in Nat \ {0} /\ n \in Nat
      /\ n < s /\ Prec \in Nat \ {0}
  <2>1. dl \in Delegations
    BY DEF Bonded
  <2>2. QED
    BY <2>1, StakeOf, ExportAssumption
<1>2. y \in Nat /\ y * s <= n * t /\ y <= t
  <2> DEFINE a == n * t * Prec
             q == TokensFromShares(st, dl)
  <2>1. a \in Int /\ a >= 0 /\ q = a \div s
    BY <1>1 DEF TokensFromShares
  <2> HIDE DEF a, s, q
  <2>2. q \in Nat /\ q * s <= a
    BY <1>1, <2>1, Quotient
  <2>3. q \div Prec \in Nat /\ (q \div Prec) * Prec <= q
    BY <1>1, <2>2, Quotient
  <2>4. y \in Nat /\ y * Prec <= q
    BY <2>3 DEF q
  <2> HIDE DEF y, t, n
  <2>5. (y * Prec) * s <= (n * t) * Prec
    <3>1. (y * Prec) * s <= q * s
      BY <1>1, <2>2, <2>4
    <3>2. (y * Prec) * s \in Int /\ q * s \in Int /\ a \in Int
      BY <1>1, <2>1, <2>2, <2>4
    <3>3. QED
      BY <2>2, <3>1, <3>2 DEF a
  <2>6. y * s <= n * t
    <3>1. (y * s) * Prec <= (n * t) * Prec /\ y * s \in Nat /\ n * t \in Nat
      BY <1>1, <2>4, <2>5
    <3>2. \A i, j \in Nat : i * Prec <= j * Prec => i <= j
      BY <1>1
    <3>3. QED
      BY <3>1, <3>2
  <2>7. y <= t
    <3>1. n * t <= t * s
      BY <1>1
    <3>2. y * s <= t * s
      BY <1>1, <2>4, <2>6, <3>1
    <3>3. \A i, j \in Nat : i * s <= j * s => i <= j
      BY <1>1
    <3>4. QED
      BY <1>1, <2>4, <3>2, <3>3
  <2>8. QED
    BY <2>4, <2>6, <2>7
<1>3. /\ DOMAIN st = DOMAIN GenesisStaking
      /\ st.del \in [Delegations -> Nat]
      /\ st.tokens \in [Validators -> Nat] /\ st.shares \in [Validators -> Nat \ {0}]
      /\ st.entries \subseteq [dl : Delegations, height : Nat]
  BY DEF StakingSound
<1> HIDE DEF y
<1>4. /\ DOMAIN su = DOMAIN st
      /\ su.del = [st.del EXCEPT ![dl] = 0]
      /\ su.tokens = [st.tokens EXCEPT ![v] = @ - y]
      /\ su.shares = [st.shares EXCEPT ![v] = @ - n]
      /\ su.jailed = st.jailed /\ su.power = st.power /\ su.unbonding = st.unbonding
      /\ su.entries = st.entries \cup {[dl |-> dl, height |-> h]}
      /\ su.signing = st.signing
  BY <1>3 DEF Unbond, GenesisStaking, y
<1> HIDE DEF su
<1>5. /\ su.del \in [Delegations -> Nat] /\ su.del[dl] = 0
      /\ \A x \in Delegations \ {dl} : su.del[x] = st.del[x]
  BY <1>1, <1>3, <1>4
<1>6. /\ su.tokens \in [Validators -> Nat] /\ su.tokens[v] = t - y
      /\ \A w \in Validators \ {v} : su.tokens[w] = st.tokens[w]
  BY <1>1, <1>2, <1>3, <1>4
<1>7. /\ su.shares \in [Validators -> Nat \ {0}] /\ su.shares[v] = s - n
      /\ \A w \in Validators \ {v} : su.shares[w] = st.shares[w]
  BY <1>1, <1>2, <1>3, <1>4
<1>8. \A w \in Validators : su.shares[w] = SumFunctionOnSet(su.del, Delegators \X {w})
  <2>1. su.shares[v] = st.shares[v] + (0 - st.del[dl])
    BY <1>1, <1>7
  <2>2. QED
    BY <1>1, <1>5, <1>7, <2>1, SharesChange
<1>9. StakingSound(su)
  <2>1. su.entries \subseteq [dl : Delegations, height : Nat]
    BY <1>1, <1>3, <1>4
  <2>2. QED
    BY <1>3, <1>4, <1>5, <1>6, <1>7, <1>8, <2>1 DEF StakingSound
<1>10. Bonded(su) = Bonded(st) \ {dl}
  BY <1>5 DEF Bonded
<1>11. ASSUME NEW x \in Delegations \ {dl}
       PROVE  TokensFromShares(st, x) <= TokensFromShares(su, x)
  <2> DEFINE w == x[2]
  <2>1. w \in Validators /\ st.tokens[w] \in Nat /\ st.shares[w] \in Nat
    BY StakeOf
  <2>2. st.tokens[w] * su.shares[w] <= su.tokens[w] * st.shares[w]
    <3>1. CASE w = v
      <4>1. st.tokens[w] * su.shares[w] = t * (s - n)
        BY <1>7, <3>1
      <4>2. su.tokens[w] * st.shares[w] = (t - y) * s
        BY <1>6, <3>1
      <4>3. t * (s - n) <= (t - y) * s
        <5> HIDE DEF t, s, n
        <5>1. t * (s - n) = t * s - n * t /\ (t - y) * s = t * s - y * s
          BY <1>1, <1>2
        <5>2. t * s \in Int /\ n * t \in Int /\ y * s \in Int
          BY <1>1, <1>2
        <5>3. QED
          BY <1>2, <5>1, <5>2
      <4>4. QED
        BY <4>1, <4>2, <4>3
    <3>2. CASE w # v
      <4>1. su.shares[w] = st.shares[w] /\ su.tokens[w] = st.tokens[w]
        BY <1>6, <1>7, <2>1, <3>2
      <4>2. QED
        BY <2>1, <4>1
    <3>3. QED
      BY <3>1, <3>2
  <2>3. su.del[x] = st.del[x]
    BY <1>5
  <2>4. QED
    BY <1>9, <2>2, <2>3, WorthMore
<1>12. QED
  BY <1>4, <1>9, <1>10, <1>11 DEF su

\* A delegation that is worth its stake, or was slashed, stays so while its
\* starting info does not change and no share loses.
LEMMA KeptOn ==
  ASSUME NEW D, DistTyped(D), NEW E, E.slashes = D.slashes,
         NEW st, StakingSound(st), NEW su, StakingSound(su),
         NEW dl \in Delegations, E.start[dl] = D.start[dl],
         TokensFromShares(st, dl) <= TokensFromShares(su, dl)
  PROVE  /\ Worth(D, st, dl) => Worth(E, su, dl)
         /\ Since(D, dl) => Since(E, dl)
<1>1. /\ D.start[dl].stake \in Int
      /\ TokensFromShares(st, dl) \in Nat /\ TokensFromShares(su, dl) \in Nat
  BY StakeOf DEF DistTyped
<1>2. Worth(D, st, dl) => Worth(E, su, dl)
  BY <1>1 DEF Worth
<1>3. QED
  BY <1>2 DEF Since

\* Withdrawing rewards keeps the books and starts the delegation anew.
LEMMA WithdrawKeeps ==
  ASSUME NEW D, NEW S, Ledger(D, S), NEW st, StakingSound(st), NEW dl \in S,
         NEW h \in Nat
  PROVE  LET E == WithdrawRewards(D, st, dl, h) IN
         /\ Ledger(E, S) /\ E.slashes = D.slashes /\ E.commission = D.commission
         /\ E.start[dl].stake = TokensFromShares(st, dl) /\ E.start[dl].height = h
         /\ \A x \in Delegations \ {dl} : E.start[x] = D.start[x]
<1> DEFINE F == PayRewards(D, st, dl, h)
           E == WithdrawRewards(D, st, dl, h)
           T == S \ {dl}
<1>1. dl \in Delegations /\ E = InitializeDelegation(F, st, dl, h)
  BY DEF Ledger, WithdrawRewards
<1>2. st.tokens \in [Validators -> Nat]
  BY DEF StakingSound
<1>3. TokensFromShares(st, dl) \in Int
  BY <1>1, StakeOf
<1>4. Ledger(F, T) /\ Settles(D, F, dl)
  BY <1>2, <1>3, PayKeeps
<1> HIDE DEF F, E
<1>5. dl \notin T /\ T \cup {dl} = S
  OBVIOUS
<1> HIDE DEF T
<1>6. dl \notin T
  BY <1>5
<1>7. Ledger(F, T)
  BY <1>4
<1>8. Ledger(E, T \cup {dl}) /\ Started(F, E, st, dl, h)
  BY <1>1, <1>3, <1>6, <1>7, InitializeKeeps
<1>9. QED
  BY <1>4, <1>5, <1>8 DEF Settles, Started, E

\* Delegating keeps everything sound.
LEMMA DelegateSound ==
  ASSUME NEW D, NEW st, Sound(D, st), NEW dl \in Delegations, NEW amount \in Nat,
         st.tokens[dl[2]] > 0, NEW issued,
         issued = (amount * st.shares[dl[2]]) \div st.tokens[dl[2]], issued > 0,
         NEW h \in Nat
  PROVE  LET before == IF dl \in Bonded(st) THEN PayRewards(D, st, dl, h)
                       ELSE IncrementPeriod(D, st, dl[2])
             after == Bond(st, dl, amount, issued)
         IN Sound(InitializeDelegation(before, after, dl, h), after)
<1> DEFINE before == IF dl \in Bonded(st) THEN PayRewards(D, st, dl, h)
                     ELSE IncrementPeriod(D, st, dl[2])
           after == Bond(st, dl, amount, issued)
           E == InitializeDelegation(before, after, dl, h)
           T == Bonded(st) \ {dl}
<1>1. StakingSound(st) /\ Ledger(D, Bonded(st)) /\ Kept(D, st) /\ Indexed(st)
  BY DEF Sound
<1>2. /\ StakingSound(after) /\ Bonded(after) = Bonded(st) \cup {dl}
      /\ after.jailed = st.jailed /\ after.power = st.power
      /\ \A x \in Delegations \ {dl} :
           TokensFromShares(st, x) <= TokensFromShares(after, x)
  BY <1>1, BondKeeps
<1> HIDE DEF after
<1>3. /\ Ledger(before, T) /\ before.slashes = D.slashes
      /\ \A x \in Delegations \ {dl} : before.start[x] = D.start[x]
  <2>1. st.tokens \in [Validators -> Nat]
    BY <1>1 DEF StakingSound
  <2>2. CASE dl \in Bonded(st)
    <3>1. TokensFromShares(st, dl) \in Int
      BY <1>1, StakeOf
    <3>2. Ledger(D, Bonded(st))
      BY <1>1
    <3>3. /\ Ledger(PayRewards(D, st, dl, h), T)
          /\ Settles(D, PayRewards(D, st, dl, h), dl)
      BY <2>1, <2>2, <3>1, <3>2, PayKeeps
    <3>4. before = PayRewards(D, st, dl, h)
      BY <2>2
    <3>5. QED
      BY <3>3, <3>4 DEF Settles
  <2>3. CASE dl \notin Bonded(st)
    <3>1. dl[2] \in Validators
      BY <1>1, StakeOf
    <3>2. Ledger(D, T)
      <4>1. T = Bonded(st)
        BY <2>3
      <4>2. QED
        BY <1>1, <4>1
    <3>3. /\ Ledger(IncrementPeriod(D, st, dl[2]), T)
          /\ Closed(D, IncrementPeriod(D, st, dl[2]), dl[2])
      BY <2>1, <3>1, <3>2, IncrementKeeps
    <3>4. before = IncrementPeriod(D, st, dl[2])
      BY <2>3
    <3>5. QED
      BY <3>3, <3>4 DEF Closed
  <2>4. QED
    BY <2>2, <2>3
<1> HIDE DEF before
<1>4. TokensFromShares(after, dl) \in Int
  BY <1>2, StakeOf
<1>5. Ledger(E, Bonded(after)) /\ Started(before, E, after, dl, h)
  <2>1. dl \notin T /\ T \cup {dl} = Bonded(after)
    BY <1>2
  <2> HIDE DEF T, E
  <2>2. dl \notin T
    BY <2>1
  <2>3. Ledger(before, T)
    BY <1>3
  <2>4. Ledger(E, T \cup {dl}) /\ Started(before, E, after, dl, h)
    BY <1>4, <2>2, <2>3, InitializeKeeps DEF E
  <2>5. QED
    BY <2>1, <2>4
<1> HIDE DEF E
<1>6. Kept(E, after)
  <2>1. TokensFromShares(after, dl) \in Nat
    BY <1>2, StakeOf
  <2>2. Worth(E, after, dl)
    BY <1>5, <2>1 DEF Started, Worth
  <2>3. ASSUME NEW x \in Bonded(after) \ {dl}
        PROVE  Worth(E, after, x) \/ Since(E, x)
    <3>1. x \in Delegations \ {dl} /\ x \in Bonded(st)
      BY <1>2, <2>3 DEF Bonded
    <3>2. E.start[x] = D.start[x] /\ E.slashes = D.slashes
      BY <1>3, <1>5, <3>1 DEF Started
    <3>3. DistTyped(D)
      BY <1>1 DEF Ledger
    <3>4. TokensFromShares(st, x) <= TokensFromShares(after, x)
      BY <1>2, <3>1
    <3>5. StakingSound(st) /\ StakingSound(after)
      BY <1>1, <1>2
    <3>6. /\ Worth(D, st, x) => Worth(E, after, x)
          /\ Since(D, x) => Since(E, x)
      BY <3>1, <3>2, <3>3, <3>4, <3>5, KeptOn
    <3>7. QED
      BY <1>1, <3>1, <3>6 DEF Kept
  <2>4. QED
    BY <2>2, <2>3 DEF Kept
<1>7. Indexed(after)
  BY <1>1, <1>2 DEF Indexed
<1>8. QED
  BY <1>2, <1>5, <1>6, <1>7 DEF Sound, E, before, after

\* Undelegating keeps everything sound.
LEMMA UndelegateSound ==
  ASSUME NEW D, NEW st, Sound(D, st), NEW dl \in Bonded(st), NEW h \in Nat,
         NEW other \in Bonded(st), other # dl, other[2] = dl[2]
  PROVE  Sound(PayRewards(D, st, dl, h), Unbond(st, dl, h))
<1> DEFINE E == PayRewards(D, st, dl, h)
           after == Unbond(st, dl, h)
<1>1. StakingSound(st) /\ Ledger(D, Bonded(st)) /\ Kept(D, st) /\ Indexed(st)
  BY DEF Sound
<1>2. /\ StakingSound(after) /\ Bonded(after) = Bonded(st) \ {dl}
      /\ after.jailed = st.jailed /\ after.power = st.power
      /\ \A x \in Delegations \ {dl} :
           TokensFromShares(st, x) <= TokensFromShares(after, x)
  BY <1>1, UnbondKeeps
<1>3. Ledger(E, Bonded(after)) /\ Settles(D, E, dl)
  <2>1. st.tokens \in [Validators -> Nat] /\ dl \in Delegations
    BY <1>1 DEF StakingSound, Bonded
  <2>2. TokensFromShares(st, dl) \in Int
    BY <1>1, <2>1, StakeOf
  <2>3. Ledger(E, Bonded(st) \ {dl}) /\ Settles(D, E, dl)
    BY <1>1, <2>1, <2>2, PayKeeps
  <2>4. QED
    BY <1>2, <2>3
<1> HIDE DEF E, after
<1>4. Kept(E, after)
  <2>1. ASSUME NEW x \in Bonded(after)
        PROVE  Worth(E, after, x) \/ Since(E, x)
    <3>1. x \in Delegations \ {dl} /\ x \in Bonded(st)
      BY <1>2, <2>1 DEF Bonded
    <3>2. E.start[x] = D.start[x] /\ E.slashes = D.slashes
      BY <1>3, <3>1 DEF Settles
    <3>3. DistTyped(D)
      BY <1>1 DEF Ledger
    <3>4. TokensFromShares(st, x) <= TokensFromShares(after, x)
      BY <1>2, <3>1
    <3>5. StakingSound(st) /\ StakingSound(after)
      BY <1>1, <1>2
    <3>6. /\ Worth(D, st, x) => Worth(E, after, x)
          /\ Since(D, x) => Since(E, x)
      BY <3>1, <3>2, <3>3, <3>4, <3>5, KeptOn
    <3>7. QED
      BY <1>1, <3>1, <3>6 DEF Kept
  <2>2. QED
    BY <2>1 DEF Kept
<1>5. Indexed(after)
  BY <1>1, <1>2 DEF Indexed
<1>6. QED
  BY <1>2, <1>3, <1>4, <1>5 DEF Sound, E, after

\* Withdrawing rewards keeps everything sound.
LEMMA WithdrawSound ==
  ASSUME NEW D, NEW st, Sound(D, st), NEW dl \in Bonded(st), NEW h \in Nat
  PROVE  Sound(WithdrawRewards(D, st, dl, h), st)
<1> DEFINE E == WithdrawRewards(D, st, dl, h)
<1>1. StakingSound(st) /\ Ledger(D, Bonded(st)) /\ Kept(D, st) /\ Indexed(st)
  BY DEF Sound
<1>2. /\ Ledger(E, Bonded(st)) /\ E.slashes = D.slashes
      /\ E.start[dl].stake = TokensFromShares(st, dl)
      /\ \A x \in Delegations \ {dl} : E.start[x] = D.start[x]
  BY <1>1, WithdrawKeeps
<1> HIDE DEF E
<1>3. ASSUME NEW x \in Bonded(st) PROVE Worth(E, st, x) \/ Since(E, x)
  <2>1. x \in Delegations
    BY DEF Bonded
  <2>2. TokensFromShares(st, x) \in Nat
    BY <1>1, <2>1, StakeOf
  <2>3. CASE x = dl
    BY <1>2, <2>2, <2>3 DEF Worth
  <2>4. CASE x # dl
    BY <1>1, <1>2, <2>1, <2>4 DEF Kept, Worth, Since
  <2>5. QED
    BY <2>3, <2>4
<1>4. QED
  BY <1>1, <1>2, <1>3 DEF Sound, Kept, E

\* What a slash burns and the fraction it records.
LEMMA SlashIs ==
  ASSUME NEW t \in Nat, NEW k \in Nat \ {0}, t \div k > 0
  PROVE  /\ t \div k \in Nat /\ t \div k <= t
         /\ ((t \div k) * Prec + t - 1) \div t \in Int
<1> DEFINE b == t \div k
<1>1. b \in Nat /\ b * k <= t
  BY Quotient
<1> HIDE DEF b
<1>2. b <= t
  <2>1. b <= b * k
    BY <1>1
  <2>2. QED
    BY <1>1, <2>1
<1>3. t \in Nat \ {0}
  BY <1>1, <1>2 DEF b
<1> DEFINE a == b * Prec + t - 1
<1>4. a \in Int
  BY <1>1, ExportAssumption
<1> HIDE DEF a
<1>5. a \div t \in Int
  BY <1>3, <1>4, Quotient
<1>6. QED
  BY <1>1, <1>2, <1>5 DEF a, b

\* What a fault makes of the staking state.
Punish(st, v, burnt, h) ==
  [st EXCEPT !.tokens[v] = @ - burnt,
             !.jailed = @ \cup {v}, !.power = @ \ {v},
             !.unbonding[v] = IF v \in st.jailed THEN @ ELSE h]

\* Punishing a fault keeps everything sound: the delegations of the validator
\* lose, but the slash is recorded after their start.
LEMMA SlashSound ==
  ASSUME NEW D, NEW st, Sound(D, st), NEW v \in Validators, NEW burnt \in Nat,
         burnt <= st.tokens[v], NEW h \in Nat, NEW f \in Int
  PROVE  Sound(RecordSlash(D, st, v, h, f), Punish(st, v, burnt, h))
<1> DEFINE E == RecordSlash(D, st, v, h, f)
           su == Punish(st, v, burnt, h)
           t == st.tokens[v]
           n == D.cur[v].period
           e == [height |-> h, period |-> n, fraction |-> f]
<1>1. StakingSound(st) /\ Ledger(D, Bonded(st)) /\ Kept(D, st) /\ Indexed(st)
  BY DEF Sound
<1>2. /\ DOMAIN st = DOMAIN GenesisStaking
      /\ st.tokens \in [Validators -> Nat] /\ t \in Nat
      /\ st.unbonding \in [Validators -> Nat]
      /\ st.jailed \subseteq Validators /\ st.power \subseteq Validators
  BY <1>1 DEF StakingSound
<1>3. burnt <= t
  OBVIOUS
<1>5. Ledger(E, Bonded(st)) /\ Slashed(D, E, v, e)
  <2>1. Ledger(D, Bonded(st))
    BY <1>1
  <2>2. st.tokens \in [Validators -> Nat]
    BY <1>2
  <2>3. QED
    BY <2>1, <2>2, RecordSlashKeeps
<1>6. /\ DOMAIN su = DOMAIN st /\ su.del = st.del /\ su.shares = st.shares
      /\ su.tokens = [st.tokens EXCEPT ![v] = @ - burnt]
      /\ su.jailed = st.jailed \cup {v} /\ su.power = st.power \ {v}
      /\ su.unbonding = [st.unbonding EXCEPT ![v] = IF v \in st.jailed THEN @ ELSE h]
      /\ su.entries = st.entries /\ su.signing = st.signing
  BY <1>2 DEF Punish, GenesisStaking
<1> HIDE DEF E, su
<1>7. StakingSound(su)
  <2>1. /\ su.tokens \in [Validators -> Nat] /\ su.unbonding \in [Validators -> Nat]
        /\ su.jailed \subseteq Validators /\ su.power \subseteq Validators
    BY <1>2, <1>3, <1>6
  <2>2. QED
    BY <1>1, <1>6, <2>1 DEF StakingSound
<1>8. Bonded(su) = Bonded(st)
  BY <1>6 DEF Bonded
<1>9. ASSUME NEW x \in Bonded(su) PROVE Worth(E, su, x) \/ Since(E, x)
  <2>1. x \in Delegations /\ x \in Bonded(st) /\ x[2] \in Validators
    BY <1>1, <1>8, StakeOf DEF Bonded
  <2>2. CASE x[2] = v
    <3> DEFINE s == D.slashes[v]
               i == Len(s) + 1
    <3>1. D.start[x].prev < n
      BY <1>1, <2>1, <2>2 DEF Ledger, Exact
    <3>2. n \in Int /\ D.start[x].prev \in Int /\ s \in Seq(SlashEvent)
      <4>1. /\ D.cur \in [Validators -> [rewards : Int, period : Nat \ {0}]]
            /\ D.start \in [Delegations -> [prev : Nat, stake : Int, height : Nat]]
            /\ D.slashes \in [Validators -> Seq(SlashEvent)]
        BY <1>1 DEF Ledger, DistTyped
      <4> HIDE DEF su, E
      <4>2. D.cur[v] \in [rewards : Int, period : Nat \ {0}]
        BY <4>1
      <4>3. D.start[x] \in [prev : Nat, stake : Int, height : Nat]
        BY <2>1, <4>1
      <4>4. D.cur[v].period \in Nat /\ D.start[x].prev \in Nat
        BY <4>2, <4>3
      <4>5. D.slashes[v] \in Seq(SlashEvent)
        BY <4>1
      <4>6. n \in Int /\ D.start[x].prev \in Int
        BY <4>4
      <4>7. QED
        BY <4>5, <4>6
    <3>3. E.slashes[v] = Append(s, e)
      BY <1>5 DEF Slashed
    <3>4. e.period = n
      OBVIOUS
    <3> HIDE DEF e, s, n
    <3>5. i \in DOMAIN Append(s, e) /\ Append(s, e)[i] = e
      BY <3>2
    <3>6. E.slashes[x[2]][i].period > E.start[x].prev /\ i \in DOMAIN E.slashes[x[2]]
      BY <1>5, <2>2, <3>1, <3>2, <3>3, <3>4, <3>5 DEF Slashed
    <3>7. QED
      BY <3>6 DEF Since
  <2>3. CASE x[2] # v
    <3>1. su.tokens[x[2]] = st.tokens[x[2]]
      BY <1>2, <1>6, <2>1, <2>3
    <3>2. TokensFromShares(su, x) = TokensFromShares(st, x)
      BY <1>6, <3>1 DEF TokensFromShares
    <3>3. E.slashes[x[2]] = D.slashes[x[2]]
      BY <1>5, <2>1, <2>3 DEF Slashed
    <3>4. QED
      BY <1>1, <1>5, <2>1, <3>2, <3>3 DEF Slashed, Kept, Worth, Since
  <2>4. QED
    BY <2>2, <2>3
<1>10. Indexed(su)
  BY <1>1, <1>6 DEF Indexed
<1>11. QED
  BY <1>5, <1>7, <1>8, <1>9, <1>10 DEF Sound, Kept, E, su

\* What unjailing makes of the staking state.
Pardon(st, v, h) ==
  [st EXCEPT !.jailed = @ \ {v}, !.power = @ \cup {v}, !.signing[v] = h]

\* Unjailing a validator keeps everything sound.
LEMMA UnjailSound ==
  ASSUME NEW D, NEW st, Sound(D, st), NEW v \in Validators, NEW h \in Nat
  PROVE  Sound(D, Pardon(st, v, h))
<1> DEFINE su == Pardon(st, v, h)
<1>1. StakingSound(st) /\ Ledger(D, Bonded(st)) /\ Kept(D, st) /\ Indexed(st)
  BY DEF Sound
<1>2. /\ DOMAIN st = DOMAIN GenesisStaking /\ st.signing \in [Validators -> Nat]
      /\ st.jailed \subseteq Validators /\ st.power \subseteq Validators
  BY <1>1 DEF StakingSound
<1>3. /\ DOMAIN su = DOMAIN st /\ su.del = st.del /\ su.shares = st.shares
      /\ su.tokens = st.tokens /\ su.unbonding = st.unbonding
      /\ su.jailed = st.jailed \ {v} /\ su.power = st.power \cup {v}
      /\ su.signing = [st.signing EXCEPT ![v] = h]
      /\ su.entries = st.entries
  BY <1>2 DEF Pardon, GenesisStaking
<1> HIDE DEF su
<1>4. StakingSound(su)
  <2>1. /\ su.signing \in [Validators -> Nat]
        /\ su.jailed \subseteq Validators /\ su.power \subseteq Validators
    BY <1>2, <1>3
  <2>2. QED
    BY <1>1, <1>3, <2>1 DEF StakingSound
<1>5. Bonded(su) = Bonded(st)
  BY <1>3 DEF Bonded
<1>6. \A x : TokensFromShares(su, x) = TokensFromShares(st, x)
  BY <1>3 DEF TokensFromShares
<1>7. Kept(D, su)
  BY <1>1, <1>5, <1>6 DEF Kept, Worth
<1>8. Indexed(su)
  BY <1>1, <1>3 DEF Indexed
<1>9. QED
  BY <1>1, <1>4, <1>5, <1>7, <1>8 DEF Sound, su

\* Allocating fees keeps everything sound.
LEMMA AllocateSound ==
  ASSUME NEW D, NEW st, Sound(D, st), NEW v \in Validators, NEW coins \in Nat,
         NEW c \in Int
  PROVE  Sound(Allocate(D, v, coins, c), st)
<1> DEFINE E == Allocate(D, v, coins, c)
<1>1. Ledger(D, Bonded(st))
  BY DEF Sound
<1>2. Ledger(E, Bonded(st)) /\ E.start = D.start /\ E.slashes = D.slashes
  BY <1>1, AllocateKeeps
<1> HIDE DEF E
<1>3. QED
  BY <1>2 DEF Sound, Kept, Worth, Since, E

---------------------------------------------------------------------------
(* The invariant while the chain runs.                                     *)

Runs == pc \in Running \/ (pc = "exported" /\ ~Rewritten)
RunningInv ==
  height \in Nat /\ genesis \in Nat /\ todo = <<>> /\ Sound(dist, stk)

\* A loop over nothing has nothing to visit.
LEMMA NoEntries ==
  ASSUME NEW s PROVE s \in Seq({}) <=> s = <<>>
<1>1. ASSUME s \in Seq({}) PROVE s = <<>>
  <2>1. Len(s) = 0
    <3> SUFFICES ASSUME Len(s) # 0 PROVE FALSE
      OBVIOUS
    <3>1. Len(s) \in Nat /\ s \in [1..Len(s) -> {}]
      BY <1>1
    <3>2. 1 \in 1..Len(s)
      BY <3>1
    <3>3. QED
      BY <3>1, <3>2
  <2>2. QED
    BY <1>1, <2>1
<1>2. <<>> \in Seq({})
  OBVIOUS
<1>3. QED
  BY <1>1, <1>2

\* Nothing is left of an empty loop.
LEMMA NothingLeft == todo = <<>> => Left = {}
BY DEF Left, Range

\* Until an export clears the history, the invariant says that staking and
\* distribution are sound.
EarlyInv ==
  /\ height \in Nat /\ genesis \in Nat /\ VisitsOnce /\ Sound(dist, stk)
  /\ \A dl \in Restarted : dist.start[dl].height = 0 /\ Worth(dist, stk, dl)
  /\ pc = "panic" =>
       \E dl \in Bonded(stk) : dist.start[dl].height > 0 /\ Since(dist, dl)

\* Until then ExportInv and EarlyInv say the same.
LEMMA EarlyIs == ~Cleared => (ExportInv <=> EarlyInv)
<1> SUFFICES ASSUME ~Cleared PROVE ExportInv <=> EarlyInv
  OBVIOUS
<1>1. /\ pc \notin {"validators", "delegations", "unbonding", "jailing", "apply",
                    "slashing", "fatal"}
      /\ ~Rewritten
  BY DEF Cleared
<1>2. Delegated = Bonded(stk) /\ Bonded(stk) \subseteq Delegations
  BY DEF Delegated, Bonded
<1>3. CountsKept <=> Counted(dist, Bonded(stk))
  <2>1. Delegated \ Ahead("delegations") = Delegated
    BY <1>1 DEF Ahead
  <2>2. QED
    BY <1>1, <1>2, <2>1 DEF CountsKept
<1>4. DistTyped(dist) => (Counted(dist, Bonded(stk)) <=> Exact(dist, Bonded(stk)))
  BY <1>2, CountedEverywhere
<1>5. /\ DistTyped(dist) /\ Balanced(dist) /\ CountsKept
      <=> Ledger(dist, Bonded(stk))
  BY <1>2, <1>3, <1>4 DEF Ledger
<1>6. ClearedSoFar <=> \A dl \in Restarted : dist.start[dl].height = 0
  BY DEF ClearedSoFar
<1>7. ResetSoFar
  BY <1>1 DEF ResetSoFar
<1>8. StakesKept <=>
        /\ Kept(dist, stk)
        /\ \A dl \in Restarted : Worth(dist, stk, dl)
        /\ pc = "panic" =>
             \E dl \in Bonded(stk) : dist.start[dl].height > 0 /\ Since(dist, dl)
  BY <1>2 DEF StakesKept, Kept, WorthTheStake, SlashedSince, Worth, Since
<1>9. PowerKept <=> Indexed(stk)
  BY <1>1 DEF PowerKept, Indexed
<1>10. QED
  BY <1>5, <1>6, <1>7, <1>8, <1>9 DEF ExportInv, EarlyInv, Sound

\* From there on, delegations start at height zero with what they are worth,
\* no slash is left, and nothing is outstanding to a validator that has been
\* initialised again.
LateInv ==
  /\ height \in Nat /\ genesis \in Nat /\ VisitsOnce
  /\ StakingSound(stk) /\ DistTyped(dist) /\ Balanced(dist) /\ CountsKept
  /\ \A dl \in Bonded(stk) : dist.start[dl].height = 0 /\ Worth(dist, stk, dl)
  /\ \A v \in Validators : dist.slashes[v] = <<>>
  /\ \A v \in Validators \ Ahead("validators") :
       dist.outstanding[v] = 0 /\ dist.commission[v] = 0 /\ dist.cur[v].rewards = 0
  /\ ResetSoFar /\ PowerKept

\* From then on ExportInv and LateInv say the same.
LEMMA LateIs == Cleared => (ExportInv <=> LateInv)
<1> SUFFICES ASSUME Cleared PROVE ExportInv <=> LateInv
  OBVIOUS
<1>1. pc # "rewards" /\ pc # "panic"
  BY DEF Cleared, Rewritten
<1>2. Delegated = Bonded(stk)
  BY DEF Delegated, Bonded
<1>3. Restarted = Bonded(stk)
  BY <1>1, <1>2 DEF Restarted
<1>4. ClearedSoFar <=>
        /\ \A dl \in Bonded(stk) : dist.start[dl].height = 0
        /\ \A v \in Validators : dist.slashes[v] = <<>>
        /\ \A v \in Validators \ Ahead("validators") :
             dist.outstanding[v] = 0 /\ dist.commission[v] = 0 /\ dist.cur[v].rewards = 0
  BY <1>3 DEF ClearedSoFar
<1>5. StakesKept <=> \A dl \in Bonded(stk) : Worth(dist, stk, dl)
  BY <1>1, <1>2, <1>3 DEF StakesKept, WorthTheStake, Worth
<1>6. QED
  BY <1>4, <1>5 DEF ExportInv, LateInv

\* The running chain and an exported genesis are sound, and visit nothing.
LEMMA QuietIs ==
  (ExportInv /\ pc \in Running \cup {"exported"}) => RunningInv
<1> SUFFICES ASSUME ExportInv, pc \in Running \cup {"exported"} PROVE RunningInv
  OBVIOUS
<1>1. pc \notin {"commission", "validators", "jailing", "rewards", "delegations",
                 "unbonding", "apply", "slashing", "fatal"}
  BY DEF Running
<1>2. height \in Nat /\ genesis \in Nat /\ VisitsOnce
  BY DEF ExportInv
<1>3. todo = <<>>
  <2>1. Entries = {}
    BY <1>1 DEF Entries
  <2>2. QED
    BY <1>2, <2>1, NoEntries DEF VisitsOnce
<1>4. Sound(dist, stk)
  <2>1. CASE ~Cleared
    BY <2>1, EarlyIs DEF EarlyInv
  <2>2. CASE Cleared
    <3>1. LateInv
      BY <2>2, LateIs
    <3>2. Delegated = Bonded(stk) /\ Bonded(stk) \subseteq Delegations
      BY DEF Delegated, Bonded
    <3>3. Counted(dist, Bonded(stk))
      <4>1. Delegated \ Ahead("delegations") = Delegated
        BY <1>1 DEF Ahead
      <4>2. QED
        BY <1>1, <3>1, <3>2, <4>1 DEF LateInv, CountsKept
    <3>4. Ledger(dist, Bonded(stk))
      BY <3>1, <3>2, <3>3, CountedEverywhere DEF LateInv, Ledger
    <3>5. Indexed(stk)
      BY <1>1, <3>1 DEF LateInv, PowerKept, Indexed
    <3>6. QED
      BY <3>1, <3>4, <3>5 DEF LateInv, Sound, Kept
  <2>3. QED
    BY <2>1, <2>2
<1>5. QED
  BY <1>2, <1>3, <1>4 DEF RunningInv

\* The converse, but for a genesis for height zero.
LEMMA RunningIs == (RunningInv /\ Runs) => ExportInv
<1> SUFFICES ASSUME RunningInv, Runs PROVE ExportInv
  OBVIOUS
<1>1. /\ pc \notin {"commission", "rewards", "clear", "panic", "validators",
                    "delegations", "unbonding", "jailing", "apply", "slashing", "fatal"}
      /\ ~Rewritten
  BY DEF Runs, Running, Rewritten
<1>2. ~Cleared /\ Restarted = {}
  BY <1>1 DEF Cleared, Restarted
<1>3. VisitsOnce
  <2>1. Entries = {}
    BY <1>1 DEF Entries
  <2>2. QED
    BY <2>1, NoEntries DEF VisitsOnce, RunningInv
<1>4. EarlyInv
  BY <1>1, <1>2, <1>3 DEF EarlyInv, RunningInv
<1>5. QED
  BY <1>2, <1>4, EarlyIs

\* Every operation of the running chain keeps the invariant.
LEMMA RunningStep ==
  ASSUME ExportInv, Runs', pc \in Running \cup {"exported"},
         height' \in Nat, genesis' \in Nat, todo' = todo, Sound(dist', stk')
  PROVE  ExportInv'
<1>1. RunningInv
  BY QuietIs
<1>2. RunningInv'
  BY <1>1 DEF RunningInv
<1>3. (RunningInv /\ Runs)' => ExportInv'
  BY RunningIs, PTL
<1>4. QED
  BY <1>2, <1>3

\* Initially the invariant holds.
LEMMA ExportInitially == Init => ExportInv
<1> SUFFICES ASSUME Init PROVE ExportInv
  OBVIOUS
<1>1. /\ height = 0 /\ genesis = 0 /\ todo = <<>> /\ pc = "fees"
      /\ stk = GenesisStaking /\ dist = GenesisDistribution
  BY DEF Init
<1>2. GenesisDels \subseteq Delegations /\ Prec \in Nat \ {0} /\ GenesisBond = 4
  BY ExportAssumption DEF GenesisBond
<1>3. Bonded(stk) = GenesisDels
  BY <1>1, <1>2 DEF Bonded, GenesisStaking
<1>4. \A v \in Validators : \E x \in GenesisDels :
        x[2] = v /\ \A y \in GenesisDels : y[2] = v => y = x
  <2> TAKE v \in Validators
  <2> DEFINE S == {dl \in GenesisDels : dl[2] = v}
  <2>1. IsFiniteSet(S) /\ Cardinality(S) = 1
    <3>1. S \subseteq Delegations
      BY <1>2
    <3>2. QED
      BY <3>1, FiniteDelegations, ExportAssumption
  <2>2. PICK x : S = {x}
    BY <2>1, FS_Singleton
  <2>3. QED
    BY <2>2
<1>5. StakingSound(stk)
  <2>1. /\ stk.del = [dl \in Delegations |-> IF dl \in GenesisDels THEN 4 ELSE 0]
        /\ stk.shares = [v \in Validators |-> 4]
    BY <1>1, <1>2 DEF GenesisStaking
  <2>2. ASSUME NEW v \in Validators
        PROVE  stk.shares[v] = SumFunctionOnSet(stk.del, Delegators \X {v})
    <3> DEFINE S == Delegators \X {v}
               d == stk.del
    <3>1. PICK x \in GenesisDels :
            x[2] = v /\ \A y \in GenesisDels : y[2] = v => y = x
      BY <1>4
    <3>2. x \in S /\ S \subseteq Delegations
      BY <1>2, <3>1 DEF Delegations
    <3>3. d[x] = 4 /\ \A y \in S : d[y] \in Int
      BY <2>1, <3>1, <3>2
    <3>4. \A y \in S \ {x} : d[y] = 0
      BY <2>1, <3>1, <3>2 DEF Delegations
    <3>5. IsFiniteSet(S) /\ IsFiniteSet(S \ {x})
      BY FiniteDelegations, FS_Subset
    <3> HIDE DEF S, d
    <3>6. SumFunctionOnSet(d, S) = d[x] + SumFunctionOnSet(d, S \ {x})
      BY <3>2, <3>3, <3>5, SumTake
    <3>7. SumFunctionOnSet(d, S \ {x}) = 0
      BY <3>4, <3>5, SumZero
    <3>8. SumFunctionOnSet(d, S) = 4
      BY <3>3, <3>6, <3>7
    <3>9. QED
      BY <2>1, <3>8 DEF S, d
  <2>3. QED
    BY <1>1, <1>2, <2>2 DEF StakingSound, GenesisStaking
<1>6. DistTyped(dist)
  BY <1>1, <1>2 DEF DistTyped, GenesisDistribution, NoStart
<1>7. Balanced(dist)
  <2> DEFINE o == [v \in Validators |-> 0]
  <2>1. SumFunctionOnSet(o, Validators) = 0
    BY FiniteDelegations, SumZero
  <2>2. SumFunction(o) = 0
    BY <2>1 DEF SumFunction
  <2>3. dist.outstanding = o /\ dist.pool = 0 /\ dist.balance = 0
    BY <1>1 DEF GenesisDistribution
  <2> HIDE DEF o
  <2>4. QED
    BY <1>2, <2>2, <2>3 DEF Balanced
<1>8. Exact(dist, GenesisDels)
  <2>1. /\ \A dl \in GenesisDels : dist.start[dl].prev = 1
        /\ \A v \in Validators : dist.slashes[v] = <<>> /\ dist.cur[v].period = 2
        /\ \A v \in Validators : DOMAIN dist.hist[v] = {1} /\ dist.hist[v][1].refs = 2
    BY <1>1, <1>2 DEF GenesisDistribution
  <2>2. ASSUME NEW v \in Validators, NEW p \in Nat
        PROVE  Recorded(dist.hist[v], p) = References(dist, GenesisDels, v, p)
    <3>1. Slashes(dist.slashes[v], p) = {}
      BY <2>1 DEF Slashes
    <3>2. Cardinality(Slashes(dist.slashes[v], p)) = 0
      BY <3>1, FS_EmptySet
    <3>3. Cardinality(Starts(dist, GenesisDels, v, p)) = IF p = 1 THEN 1 ELSE 0
      <4>1. CASE p = 1
        <5>1. Starts(dist, GenesisDels, v, p) = {dl \in GenesisDels : dl[2] = v}
          BY <2>1, <4>1 DEF Starts
        <5>2. QED
          BY <4>1, <5>1, ExportAssumption
      <4>2. CASE p # 1
        <5>1. Starts(dist, GenesisDels, v, p) = {}
          BY <2>1, <4>2 DEF Starts
        <5>2. QED
          BY <4>2, <5>1, FS_EmptySet
      <4>3. QED
        BY <4>1, <4>2
    <3>4. References(dist, GenesisDels, v, p)
            = Cardinality(Starts(dist, GenesisDels, v, p))
              + Cardinality(Slashes(dist.slashes[v], p))
              + (IF p = 1 THEN 1 ELSE 0)
      <4>1. dist.cur[v].period - 1 = 1
        BY <2>1
      <4>2. QED
        BY <4>1 DEF References, Starts, Slashes
    <3>5. Recorded(dist.hist[v], p) = IF p = 1 THEN 2 ELSE 0
      BY <2>1 DEF Recorded
    <3>6. QED
      BY <3>2, <3>3, <3>4, <3>5
  <2>3. GenesisDels \subseteq Delegations /\ \A dl \in Delegations : dl[2] \in Validators
    BY <1>2 DEF Delegations
  <2>4. \A dl \in GenesisDels : dist.start[dl].prev < dist.cur[dl[2]].period
    BY <2>1, <2>3
  <2>5. QED
    BY <2>1, <2>2, <2>4 DEF Exact
<1>9. Kept(dist, stk)
  <2>1. SUFFICES ASSUME NEW dl \in GenesisDels PROVE Worth(dist, stk, dl)
    BY <1>3 DEF Kept
  <2>2. dl \in Delegations /\ dl[2] \in Validators
    BY <1>2 DEF Delegations
  <2>3. dist.start[dl].stake = 4 * Prec
    BY <1>1, <1>2, <2>2 DEF GenesisDistribution
  <2>4. TokensFromShares(stk, dl) = (4 * 4 * Prec) \div 4
    BY <1>1, <1>2, <2>2 DEF TokensFromShares, GenesisStaking
  <2>5. (4 * 4 * Prec) \div 4 = 4 * Prec
    BY <1>2
  <2>6. QED
    BY <1>2, <2>3, <2>4, <2>5 DEF Worth
<1>10. Indexed(stk)
  BY <1>1 DEF Indexed, GenesisStaking
<1>11. RunningInv
  BY <1>1, <1>2, <1>3, <1>5, <1>6, <1>7, <1>8, <1>9, <1>10 DEF RunningInv, Sound, Ledger
<1>12. QED
  BY <1>1, <1>11, RunningIs DEF Runs, Running

\* Operations of a block keep the invariant if staking and distribution stay
\* sound.
LEMMA OperateKeeps ==
  ASSUME ExportInv, NEW before, before \in {{"committed"}, InBeginBlock, InTxs},
         NEW at \in {"fees", "faults", "txs"}, Operate(before, at),
         Sound(dist, stk) => Sound(dist', stk')
  PROVE  ExportInv'
<1>1. pc \in Running
  BY DEF Operate, InBeginBlock, InTxs, Running
<1>2. RunningInv
  BY <1>1, QuietIs
<1>3. Runs'
  BY DEF Operate, Runs, Running
<1>4. height' \in Nat /\ genesis' \in Nat /\ todo' = todo
  BY <1>2 DEF Operate, RunningInv
<1>5. Sound(dist', stk')
  BY <1>2 DEF RunningInv
<1>6. QED
  BY <1>1, <1>3, <1>4, <1>5, RunningStep

\* The height of the running block.
LEMMA NowIs == ASSUME ExportInv PROVE Now \in Nat
BY DEF ExportInv, Now

\* Ending a block.
LEMMA EndBlockKeeps == ASSUME ExportInv, EndBlock PROVE ExportInv'
<1>1. pc \in Running /\ Runs'
  BY DEF EndBlock, Runs, Running
<1>2. RunningInv
  BY <1>1, QuietIs
<1>3. height' \in Nat /\ genesis' \in Nat /\ todo' = todo /\ Sound(dist', stk')
  BY <1>2, NowIs DEF EndBlock, RunningInv
<1>4. QED
  BY <1>1, <1>3, RunningStep

\* Allocating fees.
LEMMA AllocateFeesKeeps ==
  ASSUME ExportInv, NEW v \in Validators, NEW coins \in Fees, AllocateFees(v, coins)
  PROVE  ExportInv'
<1> DEFINE c == (coins * Prec) \div 10
<1>1. coins \in Nat /\ c \in Int
  <2> DEFINE a == coins * Prec
  <2>1. coins \in Nat /\ a \in Int
    BY ExportAssumption
  <2> HIDE DEF a
  <2>2. a \div 10 \in Int
    BY <2>1, Quotient
  <2>3. QED
    BY <2>1, <2>2 DEF a
<1>2. Operate({"committed"}, "fees") /\ dist' = Allocate(dist, v, coins, c) /\ stk' = stk
  BY DEF AllocateFees
<1> HIDE DEF c
<1>3. ASSUME Sound(dist, stk) PROVE Sound(dist', stk')
  BY <1>1, <1>2, <1>3, AllocateSound
<1>4. QED
  BY <1>2, <1>3, OperateKeeps

\* Delegating.
LEMMA DelegateKeeps ==
  ASSUME ExportInv, NEW dl \in Delegations, NEW amount \in Bonds, Delegate(dl, amount)
  PROVE  ExportInv'
<1> DEFINE v == dl[2]
           issued == (amount * stk.shares[v]) \div stk.tokens[v]
           after == Bond(stk, dl, amount, issued)
           before == IF dl \in Bonded(stk) THEN PayRewards(dist, stk, dl, Now)
                     ELSE IncrementPeriod(dist, stk, v)
<1>1. amount \in Nat /\ Now \in Nat
  BY NowIs, ExportAssumption
<1>2. Operate(InTxs, "txs") /\ stk.tokens[v] > 0 /\ issued > 0
  BY DEF Delegate
<1>3. stk' = after /\ dist' = InitializeDelegation(before, after, dl, Now)
  <2>1. Bonded(stk) = Delegated
    BY DEF Delegated, Bonded
  <2>2. QED
    BY <2>1 DEF Delegate, Bond
<1>4. ASSUME Sound(dist, stk) PROVE Sound(dist', stk')
  BY <1>1, <1>2, <1>3, <1>4, DelegateSound
<1> HIDE DEF before, after, issued, v
<1>5. QED
  BY <1>2, <1>4, OperateKeeps

\* Undelegating.
LEMMA UndelegateKeeps ==
  ASSUME ExportInv, NEW dl \in Delegations, Undelegate(dl)
  PROVE  ExportInv'
<1>1. Now \in Nat /\ Delegated = Bonded(stk)
  BY NowIs DEF Delegated, Bonded
<1>2. /\ Operate(InTxs, "txs") /\ dl \in Bonded(stk)
      /\ \E other \in Bonded(stk) : other # dl /\ other[2] = dl[2]
      /\ dist' = PayRewards(dist, stk, dl, Now)
      /\ stk' = Unbond(stk, dl, Now)
  BY <1>1 DEF Undelegate, Unbond
<1>3. ASSUME Sound(dist, stk) PROVE Sound(dist', stk')
  BY <1>1, <1>2, <1>3, UndelegateSound
<1>4. QED
  BY <1>2, <1>3, OperateKeeps

\* Withdrawing rewards.
LEMMA WithdrawStep ==
  ASSUME ExportInv, NEW dl \in Delegations, Withdraw(dl)
  PROVE  ExportInv'
<1>1. Now \in Nat /\ Delegated = Bonded(stk)
  BY NowIs DEF Delegated, Bonded
<1>2. /\ Operate(InTxs, "txs") /\ dl \in Bonded(stk) /\ stk' = stk
      /\ dist' = WithdrawRewards(dist, stk, dl, Now)
  BY <1>1 DEF Withdraw
<1>3. ASSUME Sound(dist, stk) PROVE Sound(dist', stk')
  BY <1>1, <1>2, <1>3, WithdrawSound
<1>4. QED
  BY <1>2, <1>3, OperateKeeps

\* Punishing a fault.
LEMMA SlashKeeps ==
  ASSUME ExportInv, NEW v \in Validators, NEW k \in SlashDivs, Slash(v, k)
  PROVE  ExportInv'
<1> DEFINE t == stk.tokens[v]
           burnt == t \div k
           fraction == (burnt * Prec + t - 1) \div t
<1>1. Now \in Nat /\ k \in Nat \ {0} /\ t \in Nat
  BY NowIs, ExportAssumption DEF ExportInv, StakingSound
<1>2. /\ Operate(InBeginBlock, "faults") /\ burnt > 0
      /\ dist' = RecordSlash(dist, stk, v, Now, fraction)
      /\ stk' = Punish(stk, v, burnt, Now)
  BY DEF Slash, Punish
<1>3. burnt \in Nat /\ burnt <= t /\ fraction \in Int
  <2> HIDE DEF t
  <2>1. t \div k > 0
    BY <1>2
  <2>2. QED
    BY <1>1, <2>1, SlashIs
<1> HIDE DEF burnt, fraction
<1>4. ASSUME Sound(dist, stk) PROVE Sound(dist', stk')
  <2>1. burnt <= stk.tokens[v]
    BY <1>3
  <2>2. burnt \in Nat /\ fraction \in Int
    BY <1>3
  <2>3. QED
    BY <1>1, <1>2, <1>4, <2>1, <2>2, SlashSound
<1>5. QED
  BY <1>2, <1>4, OperateKeeps

\* Unjailing.
LEMMA UnjailKeeps ==
  ASSUME ExportInv, NEW v \in Validators, Unjail(v)
  PROVE  ExportInv'
<1>1. Now \in Nat
  BY NowIs
<1>2. Operate(InTxs, "txs") /\ dist' = dist /\ stk' = Pardon(stk, v, Now)
  BY DEF Unjail, Pardon
<1>3. ASSUME Sound(dist, stk) PROVE Sound(dist', stk')
  BY <1>1, <1>2, <1>3, UnjailSound
<1>4. QED
  BY <1>2, <1>3, OperateKeeps

\* Starting a chain from an exported genesis.
LEMMA InitChainKeeps == ASSUME ExportInv, InitChain PROVE ExportInv'
<1>1. RunningInv
  BY QuietIs DEF InitChain
<1>2. Runs' /\ pc \in Running \cup {"exported"}
  BY DEF InitChain, Runs, Running
<1>3. height' \in Nat
  BY <1>1 DEF InitChain, RunningInv
<1>4. genesis' \in Nat /\ todo' = todo /\ Sound(dist', stk')
  BY <1>1 DEF InitChain, RunningInv
<1>5. QED
  BY <1>2, <1>3, <1>4, RunningStep

---------------------------------------------------------------------------
(* The export.                                                             *)

\* A loop that starts over S has all of S to visit; one that ends nothing.
LEMMA GotoKeeps ==
  ASSUME VisitsOnce, NEW from, NEW to, NEW S, IsFiniteSet(S),
         Goto(from, to, InOrder(S)), Entries' = S
  PROVE  VisitsOnce' /\ Left' = S /\ Left = {}
<1>1. todo = <<>> /\ todo' = InOrder(S)
  BY DEF Goto
<1>2. /\ InOrder(S) \in Seq(S) /\ Range(InOrder(S)) = S
      /\ \A i, j \in DOMAIN InOrder(S) : InOrder(S)[i] = InOrder(S)[j] => i = j
  BY InOrderIs
<1>3. VisitsOnce' /\ Left' = S
  BY <1>1, <1>2 DEF VisitsOnce, Left
<1>4. QED
  BY <1>1, <1>3, NothingLeft

\* A step without a loop has nothing to visit.
LEMMA GotoNone ==
  ASSUME NEW from, NEW to, Goto(from, to, <<>>), Entries' = {}
  PROVE  VisitsOnce' /\ Left' = {} /\ Left = {}
<1>1. todo = <<>> /\ todo' = <<>>
  BY DEF Goto
<1>2. VisitsOnce'
  BY <1>1, NoEntries DEF VisitsOnce
<1>3. QED
  BY <1>1, <1>2 DEF Left, Range

\* A visit leaves the rest.
LEMMA VisitKeeps ==
  ASSUME VisitsOnce, NEW step, NEW x, Visit(step, x), todo' = Tail(todo),
         Entries' = Entries
  PROVE  VisitsOnce' /\ x \in Left /\ x \in Entries /\ Left' = Left \ {x}
<1>1. /\ todo \in Seq(Entries) /\ todo # <<>> /\ Head(todo) = x
      /\ \A i, j \in DOMAIN todo : todo[i] = todo[j] => i = j
  BY DEF VisitsOnce, Visit
<1>2. /\ Head(todo) \in Entries /\ Tail(todo) \in Seq(Entries)
      /\ Range(Tail(todo)) = Range(todo) \ {Head(todo)}
      /\ \A i, j \in DOMAIN Tail(todo) : Tail(todo)[i] = Tail(todo)[j] => i = j
  BY <1>1, HeadVisited
<1>3. x \in Left
  <2>1. 1 \in DOMAIN todo /\ Head(todo) = todo[1]
    BY <1>1
  <2>2. QED
    BY <1>1, <2>1 DEF Left, Range
<1>4. VisitsOnce' /\ Left' = Left \ {x}
  BY <1>1, <1>2 DEF VisitsOnce, Left
<1>5. QED
  BY <1>1, <1>2, <1>3, <1>4

\* Exporting at a height.
LEMMA ExportAtHeightKeeps == ASSUME ExportInv, ExportAtHeight PROVE ExportInv'
<1>1. pc \in Running
  BY DEF ExportAtHeight, Running
<1>2. RunningInv
  BY <1>1, QuietIs
<1>3. height' \in Nat /\ genesis' \in Nat /\ genesis' # 0 /\ todo' = todo
  BY <1>2 DEF ExportAtHeight, RunningInv, Chain
<1>4. Runs'
  BY <1>3 DEF ExportAtHeight, Runs, Rewritten
<1>5. Sound(dist', stk')
  BY <1>2 DEF ExportAtHeight, RunningInv, Chain
<1>6. QED
  BY <1>1, <1>3, <1>4, <1>5, RunningStep

\* A step to before the history is cleared.
LEMMA EarlyStep ==
  ASSUME EarlyInv', pc' \in {"commission", "rewards", "clear", "panic", "refused"}
  PROVE  ExportInv'
<1>1. ~Cleared'
  BY DEF Cleared, Rewritten
<1>2. (~Cleared)' => (ExportInv' <=> EarlyInv')
  BY EarlyIs, PTL
<1>3. QED
  BY <1>1, <1>2

\* What holds before the history is cleared.
LEMMA EarlyHas ==
  ASSUME ExportInv, pc \in {"commission", "rewards", "clear"}
  PROVE  /\ EarlyInv /\ Delegated = Bonded(stk) /\ Bonded(stk) \subseteq Delegations
         /\ height \in Nat /\ genesis \in Nat /\ VisitsOnce
         /\ StakingSound(stk) /\ Ledger(dist, Bonded(stk))
         /\ Kept(dist, stk) /\ Indexed(stk)
<1>1. ~Cleared
  BY DEF Cleared, Rewritten
<1>2. EarlyInv
  BY <1>1, EarlyIs
<1>3. QED
  BY <1>2 DEF EarlyInv, Sound, Delegated, Bonded

\* Beginning an export for zero height.
LEMMA ExportForZeroHeightKeeps ==
  ASSUME ExportInv, NEW list, ExportForZeroHeight(list) PROVE ExportInv'
<1>1. RunningInv
  BY QuietIs DEF ExportForZeroHeight, Running
<1>2. /\ pc' = "commission" /\ todo' = InOrder(Validators) /\ genesis' = 0
      /\ height' = height /\ stk' = stk /\ dist' = dist
  BY DEF ExportForZeroHeight, Chain
<1>3. VisitsOnce'
  <2>1. /\ InOrder(Validators) \in Seq(Validators)
        /\ \A i, j \in DOMAIN InOrder(Validators) :
             InOrder(Validators)[i] = InOrder(Validators)[j] => i = j
    BY FiniteDelegations, InOrderIs
  <2>2. Entries' = Validators
    BY <1>2 DEF Entries
  <2>3. QED
    BY <1>2, <2>1, <2>2 DEF VisitsOnce
<1>4. Restarted' = {}
  BY <1>2 DEF Restarted, Cleared, Rewritten
<1>5. EarlyInv'
  BY <1>1, <1>2, <1>3, <1>4 DEF EarlyInv, RunningInv
<1>6. QED
  BY <1>2, <1>5, EarlyStep

\* Refusing an allow list.
LEMMA RefuseAllowListKeeps ==
  ASSUME ExportInv, NEW list, RefuseAllowList(list) PROVE ExportInv'
<1>1. RunningInv
  BY QuietIs DEF RefuseAllowList, Running
<1>2. /\ pc = "committed" /\ pc' = "refused" /\ todo' = todo /\ genesis' = 0
      /\ height' = height /\ stk' = stk /\ dist' = dist
  BY DEF RefuseAllowList, Chain
<1>3. VisitsOnce'
  <2>1. VisitsOnce /\ Entries' = Entries
    BY <1>2 DEF ExportInv, Entries
  <2>2. QED
    BY <1>2, <2>1 DEF VisitsOnce
<1>4. Restarted' = {}
  BY <1>2 DEF Restarted, Cleared, Rewritten
<1>5. EarlyInv'
  BY <1>1, <1>2, <1>3, <1>4 DEF EarlyInv, RunningInv
<1>6. QED
  BY <1>2, <1>5, EarlyStep

\* Paying a commission.
LEMMA PayCommissionKeeps ==
  ASSUME ExportInv, NEW v \in Validators, PayCommission(v) PROVE ExportInv'
<1>1. /\ pc = "commission" /\ pc' = "commission" /\ Visit("commission", v)
      /\ todo' = Tail(todo) /\ height' = height /\ genesis' = genesis
      /\ dist' = WithdrawCommission(dist, v) /\ stk' = stk
  BY DEF PayCommission, Visit, Paused, Chain
<1>2. /\ height \in Nat /\ genesis \in Nat /\ VisitsOnce /\ Bonded(stk) \subseteq Delegations
      /\ StakingSound(stk) /\ Ledger(dist, Bonded(stk)) /\ Kept(dist, stk) /\ Indexed(stk)
  BY <1>1, EarlyHas
<1>3. VisitsOnce'
  <2>1. Entries' = Entries
    BY <1>1 DEF Entries
  <2>2. QED
    BY <1>1, <1>2, <2>1, VisitKeeps
<1>4. /\ Ledger(dist', Bonded(stk)) /\ dist'.start = dist.start
      /\ dist'.slashes = dist.slashes
  <2>1. DistTyped(dist) /\ Balanced(dist) /\ Exact(dist, Bonded(stk))
    BY <1>2 DEF Ledger
  <2> DEFINE E == WithdrawCommission(dist, v)
  <2>2. /\ DistTyped(E) /\ Balanced(E) /\ E.hist = dist.hist /\ E.start = dist.start
        /\ E.slashes = dist.slashes /\ E.cur = dist.cur
    BY <2>1, CommissionKeeps
  <2> HIDE DEF E
  <2>3. \A w \in Validators : E.cur[w].period = dist.cur[w].period
    BY <2>2
  <2>4. Exact(E, Bonded(stk))
    BY <1>2, <2>1, <2>2, <2>3, ExactSame
  <2>5. QED
    BY <1>1, <1>2, <2>2, <2>4 DEF Ledger, E
<1>5. Sound(dist', stk')
  BY <1>1, <1>2, <1>4 DEF Sound, Kept, Worth, Since
<1>6. Restarted' = {}
  BY <1>1 DEF Restarted, Cleared, Rewritten
<1>7. EarlyInv'
  BY <1>1, <1>2, <1>3, <1>5, <1>6 DEF EarlyInv
<1>8. QED
  BY <1>1, <1>7, EarlyStep

\* From the commissions to the rewards.
LEMMA CommissionPaidKeeps == ASSUME ExportInv, CommissionPaid PROVE ExportInv'
<1>1. /\ pc = "commission" /\ pc' = "rewards"
      /\ Goto("commission", "rewards", InOrder(Delegated))
      /\ height' = height /\ genesis' = genesis /\ dist' = dist /\ stk' = stk
  BY DEF CommissionPaid, Goto, Paused, Chain
<1>2. /\ EarlyInv /\ VisitsOnce /\ Delegated = Bonded(stk)
      /\ Bonded(stk) \subseteq Delegations
  BY <1>1, EarlyHas
<1>3. Entries' = Delegated /\ Delegated' = Delegated
  BY <1>1 DEF Entries, Delegated
<1>4. VisitsOnce' /\ Left' = Delegated
  <2>1. IsFiniteSet(Delegated)
    BY <1>2, FiniteDelegations
  <2>2. QED
    BY <1>1, <1>2, <1>3, <2>1, GotoKeeps
<1>5. Restarted' = {}
  BY <1>1, <1>3, <1>4 DEF Restarted
<1>6. EarlyInv'
  BY <1>1, <1>2, <1>4, <1>5 DEF EarlyInv
<1>7. QED
  BY <1>1, <1>6, EarlyStep

\* Paying a delegation.
LEMMA PayDelegationKeeps ==
  ASSUME ExportInv, NEW dl \in Delegations, PayDelegation(dl) PROVE ExportInv'
<1>1. /\ pc = "rewards" /\ pc' = "rewards" /\ Visit("rewards", dl)
      /\ todo' = Tail(todo) /\ height' = height /\ genesis' = genesis
      /\ dist' = WithdrawRewards(dist, stk, dl, 0) /\ stk' = stk
  BY DEF PayDelegation, Visit, Paused, Chain, ExportHeight
<1>2. /\ EarlyInv /\ height \in Nat /\ genesis \in Nat /\ VisitsOnce
      /\ Delegated = Bonded(stk)
      /\ StakingSound(stk) /\ Ledger(dist, Bonded(stk)) /\ Kept(dist, stk) /\ Indexed(stk)
  BY <1>1, EarlyHas
<1>3. Entries = Delegated /\ Entries' = Entries /\ Delegated' = Delegated
  BY <1>1 DEF Entries, Delegated
<1>4. VisitsOnce' /\ dl \in Left /\ dl \in Delegated /\ Left' = Left \ {dl}
  BY <1>1, <1>2, <1>3, VisitKeeps
<1>5. Sound(dist', stk')
  <2>1. Sound(dist, stk) /\ dl \in Bonded(stk)
    BY <1>2, <1>4 DEF Sound
  <2>2. Sound(WithdrawRewards(dist, stk, dl, 0), stk)
    BY <2>1, WithdrawSound
  <2>3. QED
    BY <1>1, <2>2
<1>6. /\ dist'.start[dl].stake = TokensFromShares(stk, dl)
      /\ dist'.start[dl].height = 0
      /\ \A x \in Delegations \ {dl} : dist'.start[x] = dist.start[x]
  <2>1. dl \in Bonded(stk)
    BY <1>2, <1>4
  <2>2. Ledger(dist, Bonded(stk)) /\ StakingSound(stk)
    BY <1>2
  <2>3. QED
    BY <1>1, <2>1, <2>2, WithdrawKeeps
<1>7. Restarted = Delegated \ Left /\ Restarted' = Delegated \ Left'
  BY <1>1, <1>3 DEF Restarted
<1>8. ASSUME NEW x \in Restarted'
      PROVE  dist'.start[x].height = 0 /\ Worth(dist', stk', x)
  <2>1. CASE x = dl
    <3>1. TokensFromShares(stk, dl) \in Nat
      BY <1>2, StakeOf
    <3>2. QED
      BY <1>1, <1>6, <2>1, <3>1 DEF Worth
  <2>2. CASE x # dl
    <3>1. x \in Restarted /\ x \in Delegations
      BY <1>4, <1>7, <1>8, <2>2 DEF Delegated
    <3>2. dist.start[x].height = 0 /\ Worth(dist, stk, x)
      BY <1>2, <3>1 DEF EarlyInv
    <3>3. dist'.start[x] = dist.start[x]
      BY <1>6, <2>2, <3>1
    <3>4. QED
      BY <1>1, <3>2, <3>3 DEF Worth
  <2>3. QED
    BY <2>1, <2>2
<1>9. EarlyInv'
  BY <1>1, <1>2, <1>4, <1>5, <1>8 DEF EarlyInv
<1>10. QED
  BY <1>1, <1>9, EarlyStep

\* A delegation whose stake check fails.
LEMMA RewardsPanicKeeps ==
  ASSUME ExportInv, NEW dl \in Delegations, RewardsPanic(dl) PROVE ExportInv'
<1>1. /\ pc = "rewards" /\ pc' = "panic" /\ Visit("rewards", dl) /\ todo' = <<>>
      /\ height' = height /\ genesis' = genesis /\ dist' = dist /\ stk' = stk
      /\ ~Pending(dist, stk, dl, 0).sane
  BY DEF RewardsPanic, Visit, Paused, Chain, ExportHeight
<1>2. /\ EarlyInv /\ VisitsOnce /\ Delegated = Bonded(stk)
      /\ StakingSound(stk) /\ Ledger(dist, Bonded(stk)) /\ Kept(dist, stk)
  BY <1>1, EarlyHas
<1>3. dl \in Bonded(stk)
  <2>1. todo \in Seq(Bonded(stk)) /\ todo # <<>> /\ Head(todo) = dl
    BY <1>1, <1>2 DEF VisitsOnce, Entries, Visit
  <2>2. QED
    BY <2>1
<1>4. TokensFromShares(stk, dl) \in Int /\ dist.start[dl].stake \in Int
  BY <1>2, StakeOf DEF Ledger, DistTyped
<1>5. dist.start[dl].height > 0 /\ dist.start[dl].stake > TokensFromShares(stk, dl)
  <2>1. stk.tokens \in [Validators -> Nat]
    BY <1>2 DEF StakingSound
  <2>2. QED
    BY <1>1, <1>2, <1>3, <1>4, <2>1, PendingIs
<1>6. Since(dist, dl)
  <2>1. ~Worth(dist, stk, dl)
    BY <1>4, <1>5 DEF Worth
  <2>2. QED
    BY <1>2, <1>3, <2>1 DEF Kept
<1>7. VisitsOnce'
  <2>1. Entries' = {}
    BY <1>1 DEF Entries
  <2>2. QED
    BY <1>1, <2>1, NoEntries DEF VisitsOnce
<1>8. Restarted' = {}
  BY <1>1 DEF Restarted, Cleared, Rewritten
<1>9. EarlyInv'
  BY <1>1, <1>2, <1>3, <1>5, <1>6, <1>7, <1>8 DEF EarlyInv
<1>10. QED
  BY <1>1, <1>9, EarlyStep

\* From the rewards to the history.
LEMMA RewardsPaidKeeps == ASSUME ExportInv, RewardsPaid PROVE ExportInv'
<1>1. /\ pc = "rewards" /\ pc' = "clear" /\ Goto("rewards", "clear", <<>>)
      /\ height' = height /\ genesis' = genesis /\ dist' = dist /\ stk' = stk
  BY DEF RewardsPaid, Goto, Paused, Chain
<1>2. EarlyInv
  BY <1>1, EarlyHas
<1>3. Entries' = {}
  BY <1>1 DEF Entries
<1>4. VisitsOnce' /\ Left = {}
  BY <1>1, <1>3, GotoNone
<1>5. Restarted' = Restarted
  BY <1>1, <1>4 DEF Restarted, Delegated
<1>6. EarlyInv'
  BY <1>1, <1>2, <1>4, <1>5 DEF EarlyInv
<1>7. QED
  BY <1>1, <1>6, EarlyStep

\* A step after the history is cleared.
LEMMA LateStep ==
  ASSUME LateInv', pc' \in {"validators", "delegations", "unbonding", "jailing",
                            "apply", "slashing", "fatal"}
  PROVE  ExportInv'
<1>1. Cleared'
  BY DEF Cleared
<1>2. Cleared' => (ExportInv' <=> LateInv')
  BY LateIs, PTL
<1>3. QED
  BY <1>1, <1>2

\* What holds after the history is cleared.
LEMMA LateHas ==
  ASSUME ExportInv, pc \in {"validators", "delegations", "unbonding", "jailing",
                            "apply", "slashing", "fatal"}
  PROVE  /\ LateInv /\ Delegated = Bonded(stk) /\ Bonded(stk) \subseteq Delegations
         /\ height \in Nat /\ genesis \in Nat /\ VisitsOnce
         /\ StakingSound(stk) /\ DistTyped(dist) /\ Balanced(dist)
         /\ \A dl \in Bonded(stk) : dist.start[dl].height = 0 /\ Worth(dist, stk, dl)
         /\ \A v \in Validators : dist.slashes[v] = <<>>
<1>1. LateInv
  BY LateIs DEF Cleared
<1>2. QED
  BY <1>1 DEF LateInv, Delegated, Bonded

\* Clearing slash events and historical rewards.
LEMMA ClearHistoryKeeps == ASSUME ExportInv, ClearHistory PROVE ExportInv'
<1>1. /\ pc = "clear" /\ pc' = "validators"
      /\ Goto("clear", "validators", InOrder(Validators))
      /\ height' = height /\ genesis' = genesis /\ stk' = stk
      /\ dist' = [dist EXCEPT !.slashes = [v \in Validators |-> <<>>],
                              !.hist = [v \in Validators |-> <<>>]]
  BY DEF ClearHistory, Goto, Paused, Chain
<1>2. /\ EarlyInv /\ height \in Nat /\ genesis \in Nat /\ VisitsOnce
      /\ Delegated = Bonded(stk) /\ StakingSound(stk) /\ Indexed(stk)
      /\ Ledger(dist, Bonded(stk))
  BY <1>1, EarlyHas
<1>3. /\ DOMAIN dist' = DOMAIN dist
      /\ dist'.slashes = [v \in Validators |-> <<>>]
      /\ dist'.hist = [v \in Validators |-> <<>>]
      /\ dist'.cur = dist.cur /\ dist'.start = dist.start
      /\ dist'.outstanding = dist.outstanding /\ dist'.commission = dist.commission
      /\ dist'.pool = dist.pool /\ dist'.balance = dist.balance
  BY <1>1, <1>2 DEF Ledger, DistTyped, GenesisDistribution
<1>4. VisitsOnce' /\ Left' = Validators
  <2>1. Entries' = Validators
    BY <1>1 DEF Entries
  <2>2. QED
    BY <1>1, <1>2, <2>1, FiniteDelegations, GotoKeeps
<1>5. DistTyped(dist')
  <2>1. DistTyped(dist)
    BY <1>2 DEF Ledger
  <2>2. dist'.slashes \in [Validators -> Seq(SlashEvent)]
    BY <1>3
  <2>3. /\ DOMAIN dist'.hist = Validators
        /\ \A v \in Validators :
             /\ DOMAIN dist'.hist[v] = {}
             /\ dist'.hist[v] \in [DOMAIN dist'.hist[v] -> [ratio : Int, refs : Int]]
    BY <1>3
  <2>4. QED
    BY <1>3, <2>1, <2>2, <2>3 DEF DistTyped
<1>6. Balanced(dist')
  BY <1>2, <1>3 DEF Ledger, Balanced
<1>7. CountsKept'
  BY <1>1, <1>3, <1>4 DEF CountsKept
<1>8. \A dl \in Bonded(stk') : dist'.start[dl].height = 0 /\ Worth(dist', stk', dl)
  <2>1. Restarted = Bonded(stk)
    BY <1>1, <1>2 DEF Restarted
  <2>2. QED
    BY <1>1, <1>2, <1>3, <2>1 DEF EarlyInv, Worth
<1>9. ResetSoFar' /\ Ahead("validators")' = Validators
  BY <1>1, <1>4 DEF ResetSoFar, Rewritten, Ahead
<1>10. PowerKept'
  BY <1>1, <1>2 DEF Indexed, PowerKept
<1>11. LateInv'
  BY <1>1, <1>2, <1>3, <1>4, <1>5, <1>6, <1>7, <1>8, <1>9, <1>10 DEF LateInv
<1>12. QED
  BY <1>1, <1>11, LateStep

\* Initialising a validator again.
LEMMA ReinitValidatorKeeps ==
  ASSUME ExportInv, NEW v \in Validators, ReinitValidator(v) PROVE ExportInv'
<1> DEFINE first == [ratio |-> 0, refs |-> 1]
<1>1. /\ pc = "validators" /\ pc' = "validators" /\ Visit("validators", v)
      /\ todo' = Tail(todo) /\ height' = height /\ genesis' = genesis /\ stk' = stk
      /\ dist' = InitializeValidator([dist EXCEPT !.pool = @ + dist.outstanding[v]], v)
  BY DEF ReinitValidator, Visit, Paused, Chain
<1>2. /\ LateInv /\ height \in Nat /\ genesis \in Nat /\ VisitsOnce
      /\ StakingSound(stk) /\ DistTyped(dist) /\ Balanced(dist)
  BY <1>1, LateHas
<1>3. /\ DOMAIN dist' = DOMAIN dist
      /\ dist'.hist = [dist.hist EXCEPT ![v] = WithRecord(@, 0, first)]
      /\ dist'.cur = [dist.cur EXCEPT ![v] = [rewards |-> 0, period |-> 1]]
      /\ dist'.commission = [dist.commission EXCEPT ![v] = 0]
      /\ dist'.outstanding = [dist.outstanding EXCEPT ![v] = 0]
      /\ dist'.pool = dist.pool + dist.outstanding[v]
      /\ dist'.slashes = dist.slashes /\ dist'.start = dist.start
      /\ dist'.balance = dist.balance
  BY <1>1, <1>2 DEF InitializeValidator, DistTyped, GenesisDistribution
<1>4. /\ Left' = Left \ {v} /\ VisitsOnce' /\ v \in Left
  <2>1. Entries' = Entries
    BY <1>1 DEF Entries
  <2>2. QED
    BY <1>1, <1>2, <2>1, VisitKeeps
<1>5. /\ dist.outstanding \in [Validators -> Int] /\ dist.commission \in [Validators -> Int]
      /\ dist.pool \in Int /\ dist.balance \in Int
      /\ dist.cur \in [Validators -> [rewards : Int, period : Nat \ {0}]]
      /\ DOMAIN dist.hist = Validators
      /\ dist.balance * Prec = SumFunction(dist.outstanding) + dist.pool
  BY <1>2 DEF DistTyped, Balanced
<1>6. /\ dist'.hist[v] = [p \in {0} |-> first]
      /\ \A w \in Validators \ {v} : dist'.hist[w] = dist.hist[w]
      /\ DOMAIN dist'.hist = Validators
  <2>1. DOMAIN dist.hist[v] = {}
    BY <1>1, <1>2, <1>4 DEF LateInv, CountsKept
  <2>2. WithRecord(dist.hist[v], 0, first) = [p \in {0} |-> first]
    BY <2>1 DEF WithRecord
  <2> HIDE DEF first
  <2>3. QED
    BY <1>3, <1>5, <2>2
<1>7. /\ dist'.cur[v] = [rewards |-> 0, period |-> 1]
      /\ \A w \in Validators \ {v} : dist'.cur[w] = dist.cur[w]
      /\ dist'.cur \in [Validators -> [rewards : Int, period : Nat \ {0}]]
  BY <1>3, <1>5
<1>8. /\ dist'.outstanding[v] = 0 /\ dist'.commission[v] = 0
      /\ \A w \in Validators \ {v} : dist'.outstanding[w] = dist.outstanding[w]
      /\ \A w \in Validators \ {v} : dist'.commission[w] = dist.commission[w]
      /\ dist'.outstanding \in [Validators -> Int]
      /\ dist'.commission \in [Validators -> Int]
  BY <1>3, <1>5
<1>9. DistTyped(dist')
  <2>1. ASSUME NEW w \in Validators
        PROVE  /\ dist'.hist[w] \in [DOMAIN dist'.hist[w] -> [ratio : Int, refs : Int]]
               /\ DOMAIN dist'.hist[w] \subseteq 0..(dist'.cur[w].period - 1)
    <3>1. CASE w = v
      <4>1. first \in [ratio : Int, refs : Int]
        OBVIOUS
      <4>2. dist'.cur[v].period - 1 = 0
        BY <1>7
      <4> HIDE DEF first
      <4>3. QED
        BY <1>6, <3>1, <4>1, <4>2
    <3>2. CASE w # v
      BY <1>2, <1>6, <1>7, <3>2 DEF DistTyped
    <3>3. QED
      BY <3>1, <3>2
  <2>2. dist'.pool \in Int
    BY <1>3, <1>5
  <2>3. QED
    BY <1>2, <1>3, <1>6, <1>7, <1>8, <2>1, <2>2 DEF DistTyped
<1>10. Balanced(dist')
  <2> DEFINE s == SumFunction(dist.outstanding)
             a == dist.outstanding[v]
             p == dist.pool
  <2>1. s \in Int /\ SumFunction(dist'.outstanding) = s + (dist'.outstanding[v] - a)
    BY <1>5, <1>8, OutstandingChange
  <2>2. a \in Int /\ p \in Int /\ dist'.pool = p + a /\ dist'.outstanding[v] = 0
    BY <1>3, <1>5, <1>8
  <2>3. dist'.balance * Prec = s + p
    BY <1>3, <1>5
  <2> HIDE DEF s, a, p
  <2>4. SumFunction(dist'.outstanding) + dist'.pool = s + p
    BY <2>1, <2>2
  <2>5. QED
    BY <2>3, <2>4 DEF Balanced
<1>11. CountsKept'
  <2>1. \A w \in Left' : DOMAIN dist'.hist[w] = {}
    <3>1. \A w \in Left' : w \in Validators \ {v} /\ DOMAIN dist.hist[w] = {}
      <4>1. Left \subseteq Validators
        BY <1>1, <1>2 DEF VisitsOnce, Entries, Left, Range
      <4>2. QED
        BY <1>1, <1>2, <1>4, <4>1 DEF LateInv, CountsKept
    <3>2. QED
      BY <1>6, <3>1
  <2>2. ASSUME NEW w \in Validators \ Left'
        PROVE  /\ dist'.hist[w] = [p \in {0} |-> first]
               /\ dist'.cur[w] = [rewards |-> 0, period |-> 1]
    <3>1. CASE w = v
      <4> HIDE DEF first
      <4>1. QED
        BY <1>6, <1>7, <3>1
    <3>2. CASE w # v
      <4>1. /\ dist.hist[w] = [p \in {0} |-> first]
            /\ dist.cur[w] = [rewards |-> 0, period |-> 1]
        BY <1>1, <1>2, <1>4, <3>2 DEF LateInv, CountsKept
      <4> HIDE DEF first
      <4>2. QED
        BY <1>6, <1>7, <3>2, <4>1
    <3>3. QED
      BY <3>1, <3>2
  <2>3. QED
    BY <1>1, <2>1, <2>2 DEF CountsKept
<1>12. \A dl \in Bonded(stk') : dist'.start[dl].height = 0 /\ Worth(dist', stk', dl)
  BY <1>1, <1>2, <1>3 DEF LateInv, Worth
<1>13. ASSUME NEW w \in Validators \ Ahead("validators")'
       PROVE  dist'.outstanding[w] = 0 /\ dist'.commission[w] = 0 /\ dist'.cur[w].rewards = 0
  <2>1. CASE w = v
    BY <1>7, <1>8, <2>1
  <2>2. CASE w # v
    <3>1. w \in Validators \ Ahead("validators")
      BY <1>1, <1>4, <1>13, <2>2 DEF Ahead
    <3>2. QED
      BY <1>2, <1>7, <1>8, <2>2, <3>1 DEF LateInv
  <2>3. QED
    BY <2>1, <2>2
<1>14. ResetSoFar' /\ PowerKept'
  BY <1>1, <1>2 DEF LateInv, ResetSoFar, Rewritten, PowerKept
<1>15. LateInv'
  BY <1>1, <1>2, <1>3, <1>4, <1>9, <1>10, <1>11, <1>12, <1>13, <1>14 DEF LateInv
<1>16. QED
  BY <1>1, <1>15, LateStep

\* From the validators to the delegations: every validator has the one record
\* of its current period, and nothing else refers to it.
LEMMA ValidatorsReadyKeeps == ASSUME ExportInv, ValidatorsReady PROVE ExportInv'
<1>1. /\ pc = "validators" /\ pc' = "delegations"
      /\ Goto("validators", "delegations", InOrder(Delegated))
      /\ height' = height /\ genesis' = genesis /\ dist' = dist /\ stk' = stk
  BY DEF ValidatorsReady, Goto, Paused, Chain
<1>2. /\ LateInv /\ VisitsOnce /\ Delegated = Bonded(stk)
      /\ Bonded(stk) \subseteq Delegations /\ DistTyped(dist)
      /\ \A v \in Validators : dist.slashes[v] = <<>>
  BY <1>1, LateHas
<1>3. Entries' = Delegated /\ Delegated' = Delegated
  BY <1>1 DEF Entries, Delegated
<1>4. VisitsOnce' /\ Left' = Delegated /\ Left = {}
  <2>1. IsFiniteSet(Delegated)
    BY <1>2, FiniteDelegations
  <2>2. QED
    BY <1>1, <1>2, <1>3, <2>1, GotoKeeps
<1>5. Exact(dist, {})
  <2>1. \A v \in Validators :
          /\ dist.hist[v] = [p \in {0} |-> [ratio |-> 0, refs |-> 1]]
          /\ dist.cur[v].period = 1
    BY <1>1, <1>2, <1>4 DEF LateInv, CountsKept
  <2>2. ASSUME NEW v \in Validators, NEW p \in Nat
        PROVE  Recorded(dist.hist[v], p) = References(dist, {}, v, p)
    <3>1. Slashes(dist.slashes[v], p) = {} /\ Starts(dist, {}, v, p) = {}
      BY <1>2 DEF Slashes, Starts
    <3>2. Cardinality({}) = 0
      BY FS_EmptySet
    <3>3. dist.cur[v].period - 1 = 0
      BY <2>1
    <3>4. References(dist, {}, v, p)
            = Cardinality(Starts(dist, {}, v, p))
              + Cardinality(Slashes(dist.slashes[v], p))
              + (IF p = 0 THEN 1 ELSE 0)
      BY <3>3 DEF References, Starts, Slashes
    <3>5. Recorded(dist.hist[v], p) = IF p = 0 THEN 1 ELSE 0
      BY <2>1 DEF Recorded
    <3>6. QED
      BY <3>1, <3>2, <3>4, <3>5
  <2>3. QED
    BY <1>2, <2>2 DEF Exact
<1>6. CountsKept'
  <2>1. Counted(dist, {})
    BY <1>2, <1>5, CountedEverywhere
  <2>2. Delegated' \ Ahead("delegations")' = {}
    BY <1>1, <1>3, <1>4 DEF Ahead
  <2>3. QED
    BY <1>1, <2>1, <2>2 DEF CountsKept
<1>7. Validators \ Ahead("validators") = Validators
  BY <1>4 DEF Ahead
<1>8. ResetSoFar' /\ PowerKept'
  BY <1>1, <1>2 DEF LateInv, ResetSoFar, Rewritten, PowerKept
<1>9. LateInv'
  BY <1>1, <1>2, <1>4, <1>6, <1>7, <1>8 DEF LateInv
<1>10. QED
  BY <1>1, <1>9, LateStep

\* Initialising a delegation again.
LEMMA ReinitDelegationKeeps ==
  ASSUME ExportInv, NEW dl \in Delegations, ReinitDelegation(dl) PROVE ExportInv'
<1> DEFINE v == dl[2]
           F == IncrementPeriod(dist, stk, v)
           S == Bonded(stk) \ Left
<1>1. /\ pc = "delegations" /\ pc' = "delegations" /\ Visit("delegations", dl)
      /\ todo' = Tail(todo) /\ height' = height /\ genesis' = genesis /\ stk' = stk
      /\ dist' = InitializeDelegation(F, stk, dl, 0)
  BY DEF ReinitDelegation, Visit, Paused, Chain, ExportHeight
<1>2. /\ LateInv /\ height \in Nat /\ genesis \in Nat /\ VisitsOnce
      /\ Delegated = Bonded(stk) /\ Bonded(stk) \subseteq Delegations
      /\ StakingSound(stk) /\ DistTyped(dist) /\ Balanced(dist)
      /\ \A x \in Bonded(stk) : dist.start[x].height = 0 /\ Worth(dist, stk, x)
      /\ \A w \in Validators : dist.slashes[w] = <<>>
  BY <1>1, LateHas
<1>3. Entries = Delegated /\ Entries' = Entries /\ Delegated' = Delegated
  BY <1>1 DEF Entries, Delegated
<1>4. VisitsOnce' /\ dl \in Left /\ dl \in Delegated /\ Left' = Left \ {dl}
  BY <1>1, <1>2, <1>3, VisitKeeps
<1>5. Ledger(dist, S)
  <2>1. Delegated \ Ahead("delegations") = S
    BY <1>1, <1>2 DEF Ahead
  <2>2. Counted(dist, S)
    BY <1>1, <1>2, <2>1 DEF LateInv, CountsKept
  <2>3. S \subseteq Delegations
    BY <1>2
  <2> HIDE DEF S
  <2>4. Exact(dist, S)
    BY <1>2, <2>2, <2>3, CountedEverywhere
  <2>5. QED
    BY <1>2, <2>3, <2>4 DEF Ledger
<1>6. v \in Validators /\ TokensFromShares(stk, dl) \in Nat
  BY <1>2, StakeOf
<1> HIDE DEF S
<1>7. Ledger(F, S) /\ Closed(dist, F, v)
  <2>1. stk.tokens \in [Validators -> Nat]
    BY <1>2 DEF StakingSound
  <2>2. v \in Validators
    BY <1>6
  <2> HIDE DEF v
  <2>3. QED
    BY <1>5, <2>1, <2>2, IncrementKeeps
<1> HIDE DEF F
<1>8. Ledger(dist', S \cup {dl}) /\ Started(F, dist', stk, dl, 0)
  <2>1. dl \notin S
    BY <1>4 DEF S
  <2>2. Ledger(F, S)
    BY <1>7
  <2>3. TokensFromShares(stk, dl) \in Int
    BY <1>6
  <2>4. QED
    BY <1>1, <2>1, <2>2, <2>3, InitializeKeeps
<1>9. CountsKept'
  <2>1. S \cup {dl} = Delegated' \ Ahead("delegations")'
    BY <1>1, <1>2, <1>3, <1>4 DEF Ahead, S
  <2>2. Counted(dist', S \cup {dl})
    BY <1>8, CountedEverywhere DEF Ledger
  <2>3. QED
    BY <1>1, <2>1, <2>2 DEF CountsKept
<1>10. ASSUME NEW x \in Bonded(stk')
       PROVE  dist'.start[x].height = 0 /\ Worth(dist', stk', x)
  <2>1. CASE x = dl
    BY <1>1, <1>6, <1>8, <2>1 DEF Started, Worth
  <2>2. CASE x # dl
    <3>1. x \in Bonded(stk) /\ x \in Delegations \ {dl}
      BY <1>1, <1>2, <2>2
    <3>2. dist'.start[x] = dist.start[x]
      BY <1>7, <1>8, <3>1 DEF Started, Closed
    <3>3. QED
      BY <1>1, <1>2, <3>1, <3>2 DEF Worth
  <2>3. QED
    BY <2>1, <2>2
<1>11. ASSUME NEW w \in Validators
       PROVE  /\ dist'.outstanding[w] = 0 /\ dist'.commission[w] = 0
              /\ dist'.cur[w].rewards = 0
  <2>1. dist.outstanding[w] = 0 /\ dist.commission[w] = 0 /\ dist.cur[w].rewards = 0
    BY <1>1, <1>2 DEF LateInv, Ahead
  <2>2. dist'.commission[w] = 0
    BY <1>7, <1>8, <2>1 DEF Started, Closed
  <2>3. dist'.outstanding[w] = 0 /\ dist'.cur[w].rewards = 0
    <3>1. CASE w = v
      <4>1. F.outstanding[v] = 0 /\ F.cur[v].rewards = 0
        BY <1>7, <2>1, <3>1 DEF Closed
      <4>2. QED
        BY <1>8, <3>1, <4>1 DEF Started
    <3>2. CASE w # v
      BY <1>7, <1>8, <2>1, <3>2 DEF Started, Closed
    <3>3. QED
      BY <3>1, <3>2
  <2>4. QED
    BY <2>2, <2>3
<1>12. \A w \in Validators : dist'.slashes[w] = <<>>
  BY <1>2, <1>7, <1>8 DEF Started, Closed
<1>13. ResetSoFar' /\ PowerKept'
  BY <1>1, <1>2 DEF LateInv, ResetSoFar, Rewritten, PowerKept
<1>14. LateInv'
  BY <1>1, <1>2, <1>4, <1>8, <1>9, <1>10, <1>11, <1>12, <1>13 DEF LateInv, Ledger
<1>15. QED
  BY <1>1, <1>14, LateStep

\* A late step that changes no book.
LEMMA BooksStay ==
  ASSUME ExportInv,
         pc \in {"delegations", "unbonding", "jailing", "apply", "slashing"},
         pc' \in {"unbonding", "jailing", "apply", "slashing", "fatal"},
         pc = "delegations" => Left = {},
         dist' = dist, height' = height, genesis' = genesis,
         stk'.del = stk.del, stk'.tokens = stk.tokens, stk'.shares = stk.shares,
         StakingSound(stk'), VisitsOnce', ResetSoFar', PowerKept'
  PROVE  ExportInv'
<1>1. /\ LateInv /\ height \in Nat /\ genesis \in Nat /\ Delegated = Bonded(stk)
      /\ DistTyped(dist) /\ Balanced(dist)
      /\ \A x \in Bonded(stk) : dist.start[x].height = 0 /\ Worth(dist, stk, x)
      /\ \A w \in Validators : dist.slashes[w] = <<>>
  BY LateHas
<1>2. Bonded(stk') = Bonded(stk) /\ Delegated' = Bonded(stk)
  BY DEF Bonded, Delegated
<1>3. \A x : TokensFromShares(stk', x) = TokensFromShares(stk, x)
  BY DEF TokensFromShares
<1>4. CountsKept'
  <2>1. Delegated \ Ahead("delegations") = Bonded(stk)
    BY <1>1 DEF Ahead
  <2>2. Counted(dist, Bonded(stk))
    BY <1>1, <2>1 DEF LateInv, CountsKept
  <2>3. Delegated' \ Ahead("delegations")' = Bonded(stk)
    BY <1>2 DEF Ahead
  <2>4. QED
    BY <2>2, <2>3 DEF CountsKept
<1>5. \A w \in Validators :
        dist'.outstanding[w] = 0 /\ dist'.commission[w] = 0 /\ dist'.cur[w].rewards = 0
  BY <1>1 DEF LateInv, Ahead
<1>6. LateInv'
  BY <1>1, <1>2, <1>3, <1>4, <1>5 DEF LateInv, Worth
<1>7. QED
  BY <1>6, LateStep

\* From the delegations to the unbonding entries.
LEMMA DelegationsReadyKeeps == ASSUME ExportInv, DelegationsReady PROVE ExportInv'
<1>1. /\ pc = "delegations" /\ pc' = "unbonding" /\ Goto("delegations", "unbonding", <<>>)
      /\ height' = height /\ genesis' = genesis /\ dist' = dist /\ stk' = stk
  BY DEF DelegationsReady, Goto, Paused, Chain
<1>2. LateInv /\ StakingSound(stk)
  BY <1>1, LateHas
<1>3. VisitsOnce' /\ Left = {}
  <2>1. Entries' = {}
    BY <1>1 DEF Entries
  <2>2. QED
    BY <1>1, <2>1, GotoNone
<1>4. ResetSoFar' /\ PowerKept'
  BY <1>1, <1>2 DEF LateInv, ResetSoFar, Rewritten, PowerKept
<1>5. QED
  BY <1>1, <1>2, <1>3, <1>4, BooksStay

\* Rewriting the unbonding entries.
LEMMA ResetEntriesKeeps == ASSUME ExportInv, ResetEntries PROVE ExportInv'
<1> DEFINE fresh == {[e EXCEPT !.height = 0] : e \in stk.entries}
<1>1. /\ pc = "unbonding" /\ pc' = "jailing"
      /\ Goto("unbonding", "jailing", InOrder(Validators))
      /\ height' = height /\ genesis' = genesis /\ dist' = dist
      /\ stk' = [stk EXCEPT !.entries = fresh]
  BY DEF ResetEntries, Goto, Paused, Chain
<1>2. LateInv /\ StakingSound(stk) /\ VisitsOnce
  BY <1>1, LateHas
<1>3. /\ fresh \subseteq [dl : Delegations, height : Nat]
      /\ \A e \in fresh : e.height = 0
  <2>1. stk.entries \subseteq [dl : Delegations, height : Nat]
    BY <1>2 DEF StakingSound
  <2>2. QED
    BY <2>1
<1> HIDE DEF fresh
<1>4. /\ DOMAIN stk' = DOMAIN stk /\ stk'.entries = fresh
      /\ stk'.del = stk.del /\ stk'.tokens = stk.tokens /\ stk'.shares = stk.shares
      /\ stk'.jailed = stk.jailed /\ stk'.power = stk.power
      /\ stk'.unbonding = stk.unbonding /\ stk'.signing = stk.signing
  BY <1>1, <1>2 DEF StakingSound, GenesisStaking
<1>5. StakingSound(stk')
  BY <1>2, <1>3, <1>4 DEF StakingSound
<1>6. VisitsOnce' /\ Left' = Validators
  <2>1. Entries' = Validators
    BY <1>1 DEF Entries
  <2>2. QED
    BY <1>1, <1>2, <2>1, FiniteDelegations, GotoKeeps
<1>7. ResetSoFar'
  <2>1. Validators \ Ahead("jailing")' = {}
    BY <1>1, <1>6 DEF Ahead
  <2>2. QED
    BY <1>1, <1>3, <1>4, <2>1 DEF ResetSoFar, Rewritten
<1>8. PowerKept'
  BY <1>1, <1>2, <1>4 DEF LateInv, PowerKept
<1>9. QED
  BY <1>1, <1>4, <1>5, <1>6, <1>7, <1>8, BooksStay

\* Rewriting a validator.
LEMMA ResetValidatorKeeps ==
  ASSUME ExportInv, NEW v \in Validators, ResetValidator(v) PROVE ExportInv'
<1> DEFINE jailed == IF allowed # {} /\ v \notin allowed THEN stk.jailed \cup {v}
                     ELSE stk.jailed
<1>1. /\ pc = "jailing" /\ pc' = "jailing" /\ Visit("jailing", v) /\ todo' = Tail(todo)
      /\ height' = height /\ genesis' = genesis /\ dist' = dist /\ allowed' = allowed
      /\ stk' = [stk EXCEPT !.unbonding[v] = 0, !.jailed = jailed]
  BY DEF ResetValidator, Visit, Paused, Chain
<1>2. LateInv /\ StakingSound(stk) /\ VisitsOnce
  BY <1>1, LateHas
<1>3. /\ DOMAIN stk' = DOMAIN stk /\ stk'.jailed = jailed
      /\ stk'.unbonding = [stk.unbonding EXCEPT ![v] = 0]
      /\ stk'.del = stk.del /\ stk'.tokens = stk.tokens /\ stk'.shares = stk.shares
      /\ stk'.power = stk.power /\ stk'.entries = stk.entries
      /\ stk'.signing = stk.signing
  <2> HIDE DEF jailed
  <2>1. QED
    BY <1>1, <1>2 DEF StakingSound, GenesisStaking
<1>4. /\ stk'.unbonding \in [Validators -> Nat] /\ stk'.unbonding[v] = 0
      /\ \A w \in Validators \ {v} : stk'.unbonding[w] = stk.unbonding[w]
  <2>1. stk.unbonding \in [Validators -> Nat]
    BY <1>2 DEF StakingSound
  <2>2. QED
    BY <1>3, <2>1
<1>5. StakingSound(stk')
  <2>1. jailed \subseteq Validators
    BY <1>2 DEF StakingSound
  <2> HIDE DEF jailed
  <2>2. QED
    BY <1>2, <1>3, <1>4, <2>1 DEF StakingSound
<1>6. VisitsOnce' /\ v \in Left /\ Left' = Left \ {v}
  <2>1. Entries' = Entries
    BY <1>1 DEF Entries
  <2>2. QED
    BY <1>1, <1>2, <2>1, VisitKeeps
<1>7. ResetSoFar'
  <2>1. /\ \A e \in stk.entries : e.height = 0
        /\ \A w \in Validators \ Left : stk.unbonding[w] = 0
    BY <1>1, <1>2 DEF LateInv, ResetSoFar, Ahead
  <2>2. \A w \in Validators \ Left' : stk'.unbonding[w] = 0
    BY <1>4, <1>6, <2>1
  <2>3. QED
    BY <1>1, <1>3, <2>1, <2>2 DEF ResetSoFar, Rewritten, Ahead
<1>8. PowerKept'
  <2>1. /\ Validators \ stk.jailed \subseteq stk.power
        /\ \A w \in stk.power \cap stk.jailed : allowed # {} /\ w \notin allowed
    BY <1>1, <1>2 DEF LateInv, PowerKept
  <2>2. Validators \ stk'.jailed \subseteq stk'.power
    BY <1>3, <2>1
  <2>3. \A w \in stk'.power \cap stk'.jailed : allowed # {} /\ w \notin allowed
    BY <1>3, <2>1
  <2>4. QED
    BY <1>1, <2>2, <2>3 DEF PowerKept
<1>9. QED
  BY <1>1, <1>3, <1>5, <1>6, <1>7, <1>8, BooksStay

\* From the validators to the validator set.
LEMMA ValidatorsResetKeeps == ASSUME ExportInv, ValidatorsReset PROVE ExportInv'
<1>1. /\ pc = "jailing" /\ pc' = "apply" /\ Goto("jailing", "apply", <<>>)
      /\ height' = height /\ genesis' = genesis /\ dist' = dist /\ stk' = stk
      /\ allowed' = allowed
  BY DEF ValidatorsReset, Goto, Paused, Chain
<1>2. LateInv /\ StakingSound(stk)
  BY <1>1, LateHas
<1>3. VisitsOnce' /\ Left = {}
  <2>1. Entries' = {}
    BY <1>1 DEF Entries
  <2>2. QED
    BY <1>1, <2>1, GotoNone
<1>4. ResetSoFar'
  BY <1>1, <1>2, <1>3 DEF LateInv, ResetSoFar, Rewritten, Ahead
<1>5. PowerKept'
  BY <1>1, <1>2 DEF LateInv, PowerKept
<1>6. QED
  BY <1>1, <1>2, <1>3, <1>4, <1>5, BooksStay

\* Applying the validator set.
LEMMA ApplyValidatorSetKeeps == ASSUME ExportInv, ApplyValidatorSet PROVE ExportInv'
<1> DEFINE to == IF stk.power \cap stk.jailed = {} THEN "slashing" ELSE "fatal"
<1>1. /\ pc = "apply" /\ pc' = to /\ Goto("apply", to, <<>>)
      /\ height' = height /\ genesis' = genesis /\ dist' = dist /\ stk' = stk
      /\ allowed' = allowed
  BY DEF ApplyValidatorSet, Goto, Paused, Chain
<1>2. pc' \in {"slashing", "fatal"} /\ (pc' = "slashing" <=> stk.power \cap stk.jailed = {})
  BY <1>1
<1> HIDE DEF to
<1>3. LateInv /\ StakingSound(stk)
  BY <1>1, LateHas
<1>4. VisitsOnce'
  <2>1. Entries' = {}
    BY <1>2 DEF Entries
  <2>2. QED
    BY <1>1, <2>1, GotoNone
<1>5. ResetSoFar'
  BY <1>1, <1>2, <1>3 DEF LateInv, ResetSoFar, Rewritten, Ahead
<1>6. PowerKept'
  BY <1>1, <1>2, <1>3 DEF LateInv, PowerKept
<1>7. QED
  BY <1>1, <1>2, <1>3, <1>4, <1>5, <1>6, BooksStay

\* Rewriting the signing infos, the last step.
LEMMA ResetSigningInfosKeeps == ASSUME ExportInv, ResetSigningInfos PROVE ExportInv'
<1>1. /\ pc = "slashing" /\ pc' = "exported" /\ todo' = <<>>
      /\ height' = height /\ genesis' = genesis /\ dist' = dist
      /\ stk' = [stk EXCEPT !.signing = [v \in Validators |-> 0]]
  BY DEF ResetSigningInfos, Goto, Paused, Chain
<1>2. /\ LateInv /\ height \in Nat /\ genesis \in Nat /\ StakingSound(stk)
      /\ Delegated = Bonded(stk) /\ DistTyped(dist) /\ Balanced(dist)
      /\ \A x \in Bonded(stk) : dist.start[x].height = 0 /\ Worth(dist, stk, x)
      /\ \A w \in Validators : dist.slashes[w] = <<>>
  BY <1>1, LateHas
<1>3. /\ DOMAIN stk' = DOMAIN stk /\ stk'.signing = [v \in Validators |-> 0]
      /\ stk'.del = stk.del /\ stk'.tokens = stk.tokens /\ stk'.shares = stk.shares
      /\ stk'.jailed = stk.jailed /\ stk'.power = stk.power
      /\ stk'.unbonding = stk.unbonding /\ stk'.entries = stk.entries
  BY <1>1, <1>2 DEF StakingSound, GenesisStaking
<1>4. StakingSound(stk')
  BY <1>2, <1>3 DEF StakingSound
<1>5. VisitsOnce'
  <2>1. Entries' = {}
    BY <1>1 DEF Entries
  <2>2. QED
    BY <1>1, <2>1, NoEntries DEF VisitsOnce
<1>6. Bonded(stk') = Bonded(stk) /\ Delegated' = Bonded(stk) /\ Delegated' = Delegated
  BY <1>2, <1>3 DEF Bonded, Delegated
<1>7. CountsKept'
  <2>1. Counted(dist, Bonded(stk))
    <3>1. Delegated \ Ahead("delegations") = Bonded(stk)
      BY <1>1, <1>2 DEF Ahead
    <3>2. QED
      BY <1>1, <1>2, <3>1 DEF LateInv, CountsKept
  <2>2. Delegated' \ Ahead("delegations")' = Bonded(stk)
    BY <1>1, <1>6 DEF Ahead
  <2>3. QED
    BY <1>1, <2>1, <2>2 DEF CountsKept
<1>8. \A x : TokensFromShares(stk', x) = TokensFromShares(stk, x)
  BY <1>3 DEF TokensFromShares
<1>9. \A w \in Validators :
        dist'.outstanding[w] = 0 /\ dist'.commission[w] = 0 /\ dist'.cur[w].rewards = 0
  BY <1>1, <1>2 DEF LateInv, Ahead
<1>10. Restarted' \subseteq Bonded(stk)
  BY <1>1, <1>6 DEF Restarted
<1>11. ClearedSoFar'
  BY <1>1, <1>2, <1>9, <1>10 DEF ClearedSoFar
<1>12. ResetSoFar'
  BY <1>1, <1>2, <1>3 DEF LateInv, ResetSoFar, Rewritten, Ahead
<1>13. StakesKept'
  BY <1>1, <1>2, <1>6, <1>8, <1>10 DEF StakesKept, WorthTheStake, Worth
<1>14. PowerKept'
  BY <1>1, <1>2, <1>3 DEF LateInv, PowerKept
<1>15. QED
  BY <1>1, <1>2, <1>4, <1>5, <1>7, <1>11, <1>12, <1>13, <1>14 DEF ExportInv

---------------------------------------------------------------------------
(* The theorems.                                                           *)

\* Every step keeps the invariant.
LEMMA ExportStepKeeps == ExportInv /\ [Next]_vars => ExportInv'
<1> SUFFICES ASSUME ExportInv, [Next]_vars PROVE ExportInv'
  OBVIOUS
<1>1. CASE EndBlock
  BY <1>1, EndBlockKeeps
<1>2. ASSUME NEW v \in Validators, NEW coins \in Fees, AllocateFees(v, coins)
      PROVE  ExportInv'
  BY <1>2, AllocateFeesKeeps
<1>3. ASSUME NEW dl \in Delegations, NEW amount \in Bonds, Delegate(dl, amount)
      PROVE  ExportInv'
  BY <1>3, DelegateKeeps
<1>4. ASSUME NEW dl \in Delegations, Undelegate(dl) \/ Withdraw(dl) PROVE ExportInv'
  BY <1>4, UndelegateKeeps, WithdrawStep
<1>5. ASSUME NEW v \in Validators, NEW k \in SlashDivs, Slash(v, k) PROVE ExportInv'
  BY <1>5, SlashKeeps
<1>6. ASSUME NEW v \in Validators, Unjail(v) PROVE ExportInv'
  BY <1>6, UnjailKeeps
<1>7. CASE ExportAtHeight
  BY <1>7, ExportAtHeightKeeps
<1>8. ASSUME NEW list \in AllowLists, ExportForZeroHeight(list) \/ RefuseAllowList(list)
      PROVE  ExportInv'
  BY <1>8, ExportForZeroHeightKeeps, RefuseAllowListKeeps
<1>9. CASE ExportStep
  <2>1. ASSUME NEW v \in Validators,
               PayCommission(v) \/ ReinitValidator(v) \/ ResetValidator(v)
        PROVE  ExportInv'
    BY <2>1, PayCommissionKeeps, ReinitValidatorKeeps, ResetValidatorKeeps
  <2>2. ASSUME NEW dl \in Delegations,
               PayDelegation(dl) \/ RewardsPanic(dl) \/ ReinitDelegation(dl)
        PROVE  ExportInv'
    BY <2>2, PayDelegationKeeps, RewardsPanicKeeps, ReinitDelegationKeeps
  <2>3. CASE CommissionPaid \/ RewardsPaid \/ ClearHistory \/ ValidatorsReady
    BY <2>3, CommissionPaidKeeps, RewardsPaidKeeps, ClearHistoryKeeps, ValidatorsReadyKeeps
  <2>4. CASE DelegationsReady \/ ResetEntries \/ ValidatorsReset
    BY <2>4, DelegationsReadyKeeps, ResetEntriesKeeps, ValidatorsResetKeeps
  <2>5. CASE ApplyValidatorSet \/ ResetSigningInfos
    BY <2>5, ApplyValidatorSetKeeps, ResetSigningInfosKeeps
  <2>6. QED
    BY <1>9, <2>1, <2>2, <2>3, <2>4, <2>5 DEF ExportStep
<1>10. CASE InitChain
  BY <1>10, InitChainKeeps
<1>11. CASE UNCHANGED vars
  <2>1. ~Cleared => EarlyInv
    BY EarlyIs
  <2>2. Cleared => LateInv
    BY LateIs
  <2> USE <1>11 DEF vars
  <2>3. Cleared' <=> Cleared
    BY DEF Cleared, Rewritten
  <2>4. VisitsOnce' <=> VisitsOnce
    BY DEF VisitsOnce, Entries, Delegated
  <2>5. EarlyInv' <=> EarlyInv
    BY <2>4 DEF EarlyInv, Restarted, Cleared, Rewritten, Delegated, Left
  <2>6. LateInv' <=> LateInv
    BY <2>4 DEF LateInv, CountsKept, Delegated, Ahead, Left, ResetSoFar, Rewritten, PowerKept
  <2>7. (~Cleared)' => (ExportInv' <=> EarlyInv')
    BY EarlyIs, PTL
  <2>8. Cleared' => (ExportInv' <=> LateInv')
    BY LateIs, PTL
  <2>9. QED
    BY <2>1, <2>2, <2>3, <2>5, <2>6, <2>7, <2>8
<1>12. QED
  BY <1>1, <1>2, <1>3, <1>4, <1>5, <1>6, <1>7, <1>8, <1>9, <1>10, <1>11 DEF Next

\* ExportInv holds at every step of every block and export, on every chain of
\* any number of chains that start from each other's genesis.
THEOREM ExportInvariance == Spec => []ExportInv
<1>1. Init => ExportInv
  BY ExportInitially
<1>2. ExportInv /\ [Next]_vars => ExportInv'
  BY ExportStepKeeps
<1>3. QED
  BY <1>1, <1>2, PTL DEF Spec

\* The distribution account is worth what is outstanding and the community
\* pool: withdrawals, donated scraps and initialisations of
\* prepForZeroHeightGenesis neither lose nor invent a coin.
THEOREM BooksBalance == Spec => []AccountBacked
<1>1. ExportInv => AccountBacked
  BY DEF ExportInv, Balanced, AccountBacked
<1>2. QED
  BY <1>1, ExportInvariance, PTL

\* While a chain runs and in a genesis it exports, every record of historical
\* rewards is referenced as often as its count says.
THEOREM CountsAreExact == Spec => []ReferencesExact
<1>1. ExportInv => ReferencesExact
  <2> SUFFICES ASSUME ExportInv, Settled PROVE Counted(dist, Delegated)
    BY DEF ReferencesExact, Counted
  <2>1. RunningInv
    BY QuietIs DEF Settled
  <2>2. Delegated = Bonded(stk)
    BY DEF Delegated, Bonded
  <2>3. QED
    BY <2>1, <2>2, CountedEverywhere DEF RunningInv, Sound, Ledger
<1>2. QED
  BY <1>1, ExportInvariance, PTL

\* A genesis exported for height zero refers to no height of the old chain,
\* owes nothing from it and has no jailed validator in its power index.
THEOREM GenesisIsFresh == Spec => []ZeroHeightGenesis
<1>1. ExportInv => ZeroHeightGenesis
  <2> SUFFICES ASSUME ExportInv, Rewritten PROVE ZeroHeightGenesis
    BY DEF ZeroHeightGenesis, Rewritten
  <2>1. pc = "exported" /\ genesis = 0
    BY DEF Rewritten
  <2>2. LateInv
    BY LateIs DEF Cleared
  <2>3. Delegated = Bonded(stk)
    BY DEF Delegated, Bonded
  <2>4. Ahead("validators") = {} /\ Ahead("jailing") = {}
    BY <2>1 DEF Ahead
  <2>5. \A v \in Validators :
          /\ stk.unbonding[v] = 0 /\ stk.signing[v] = 0
          /\ dist.slashes[v] = <<>> /\ dist.outstanding[v] = 0
          /\ dist.commission[v] = 0 /\ dist.cur[v].rewards = 0
    BY <2>2, <2>4 DEF LateInv, ResetSoFar
  <2>6. stk.power = Validators \ stk.jailed
    <3>1. stk.power \subseteq Validators
      BY <2>2 DEF LateInv, StakingSound
    <3>2. QED
      BY <2>1, <2>2, <3>1 DEF LateInv, PowerKept
  <2>7. QED
    BY <2>2, <2>3, <2>5, <2>6 DEF LateInv, ResetSoFar, ZeroHeightGenesis
<1>2. QED
  BY <1>1, ExportInvariance, PTL

\* An allow list with an entry that cannot be read ends the export before its
\* first step, and nothing else ends it there.
THEOREM ListIsRead == Spec => []ListRead
<1>1. Init => ListRead
  BY DEF Init, ListRead, Readable
<1>2. ASSUME ListRead, [Next]_vars PROVE ListRead'
  <2>1. ASSUME allowed' = allowed, pc' # "refused", pc # "refused" PROVE ListRead'
    BY <1>2, <2>1 DEF ListRead, Readable
  <2>2. ASSUME NEW list, ExportForZeroHeight(list) \/ RefuseAllowList(list)
        PROVE  ListRead'
    BY <2>2 DEF ExportForZeroHeight, RefuseAllowList, ListRead, Readable
  <2>3. ASSUME \/ Operate({"committed"}, "fees") \/ Operate(InBeginBlock, "faults")
               \/ Operate(InTxs, "txs")
        PROVE  ListRead'
    BY <2>1, <2>3 DEF Operate, InBeginBlock, InTxs
  <2>4. ASSUME NEW v \in Validators, NEW coins \in Fees, AllocateFees(v, coins)
        PROVE  ListRead'
    BY <2>3, <2>4 DEF AllocateFees
  <2>5. ASSUME NEW dl \in Delegations, NEW amount \in Bonds, Delegate(dl, amount)
        PROVE  ListRead'
    <3>1. Operate(InTxs, "txs")
      BY <2>5 DEF Delegate
    <3>2. QED
      BY <2>3, <3>1
  <2>6. ASSUME NEW dl \in Delegations, Undelegate(dl) \/ Withdraw(dl) PROVE ListRead'
    <3>1. Operate(InTxs, "txs")
      BY <2>6 DEF Undelegate, Withdraw
    <3>2. QED
      BY <2>3, <3>1
  <2>7. ASSUME NEW v \in Validators, NEW k \in SlashDivs, Slash(v, k) PROVE ListRead'
    <3>1. Operate(InBeginBlock, "faults")
      BY <2>7 DEF Slash
    <3>2. QED
      BY <2>3, <3>1
  <2>8. ASSUME NEW v \in Validators, Unjail(v) PROVE ListRead'
    BY <2>3, <2>8 DEF Unjail
  <2>9. CASE EndBlock \/ ExportAtHeight
    BY <2>1, <2>9 DEF EndBlock, ExportAtHeight, Running
  <2>10. ASSUME NEW v \in Validators,
                PayCommission(v) \/ ReinitValidator(v) \/ ResetValidator(v)
         PROVE  ListRead'
    BY <2>1, <2>10 DEF PayCommission, ReinitValidator, ResetValidator, Visit, Paused
  <2>11. ASSUME NEW dl \in Delegations,
                PayDelegation(dl) \/ RewardsPanic(dl) \/ ReinitDelegation(dl)
         PROVE  ListRead'
    BY <2>1, <2>11
       DEF PayDelegation, RewardsPanic, ReinitDelegation, Visit, Paused
  <2>12. CASE \/ CommissionPaid \/ RewardsPaid \/ ClearHistory \/ ValidatorsReady
              \/ DelegationsReady \/ ResetEntries \/ ValidatorsReset
              \/ ApplyValidatorSet \/ ResetSigningInfos
    BY <2>1, <2>12 DEF CommissionPaid, RewardsPaid, ClearHistory, ValidatorsReady,
       DelegationsReady, ResetEntries, ValidatorsReset, ApplyValidatorSet,
       ResetSigningInfos, Goto, Paused
  <2>13. CASE InitChain
    BY <2>13 DEF InitChain, ListRead, Readable
  <2>14. CASE UNCHANGED vars
    BY <1>2, <2>14 DEF vars, ListRead
  <2>15. QED
    BY <1>2, <2>2, <2>4, <2>5, <2>6, <2>7, <2>8, <2>9, <2>10, <2>11, <2>12, <2>13,
       <2>14 DEF Next, ExportStep
<1>3. QED
  BY <1>1, <1>2, PTL DEF Spec

\* An export that reaches no store error is refused only for an unreadable
\* allow list, panics only on a delegation that started after genesis and was
\* slashed since, and dies in its validator-set step only on a readable list
\* that leaves out a validator of the power index.
THEOREM FailuresExplained == Spec => []FailsOnlyWhen
<1>1. ASSUME ExportInv, ListRead PROVE FailsOnlyWhen
  <2>1. pc = "panic" =>
          \E dl \in Delegated : dist.start[dl].height > 0 /\ SlashedSince(dl)
    BY <1>1 DEF ExportInv, StakesKept
  <2>2. pc = "fatal" => allowed # {} /\ ~(stk.power \subseteq allowed)
    BY <1>1 DEF ExportInv, PowerKept
  <2>3. pc = "refused" <=> ~Readable(allowed)
    BY <1>1 DEF ListRead
  <2>4. QED
    BY <2>1, <2>2, <2>3 DEF FailsOnlyWhen, SlashedSince
<1>2. QED
  BY <1>1, ExportInvariance, ListIsRead, PTL
=============================================================================
