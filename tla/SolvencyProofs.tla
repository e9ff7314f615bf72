--------------------------- MODULE SolvencyProofs ---------------------------
(***************************************************************************)
(* Proofs about GenesisExport: what is outstanding to a validator covers   *)
(* its commission and all its delegators could withdraw, whatever blocks,  *)
(* slashes, exports and new chains there were; and the types of the state. *)
(***************************************************************************)
EXTENDS ExportProofs

---------------------------------------------------------------------------
(* Arithmetic.                                                             *)

\* Multiplication is monotone.
LEMMA TimesMono ==
  ASSUME NEW a \in Int, NEW b \in Int, NEW c \in Nat, a <= b
  PROVE  c * a <= c * b /\ a * c <= b * c /\ c * a \in Int /\ c * b \in Int
<1> DEFINE n == b - a
<1>1. n \in Nat /\ b = a + n
  OBVIOUS
<1> HIDE DEF n
<1>2. c * (a + n) = c * a + c * n /\ c * n \in Nat /\ c * a \in Int /\ c * b \in Int
  BY <1>1
<1>3. c * a <= c * b
  BY <1>1, <1>2
<1>4. a * c = c * a /\ b * c = c * b
  OBVIOUS
<1>5. QED
  BY <1>2, <1>3, <1>4

\* A common factor can be taken away.
LEMMA TimesLess ==
  ASSUME NEW a \in Int, NEW b \in Int, NEW c \in Nat \ {0}, c * a <= c * b
  PROVE  a <= b
<1> SUFFICES ASSUME b + 1 <= a PROVE FALSE
  OBVIOUS
<1>1. c * (b + 1) <= c * a
  BY TimesMono
<1>2. c * (b + 1) = c * b + c /\ c * b \in Int /\ c * a \in Int
  OBVIOUS
<1>3. QED
  BY <1>1, <1>2

---------------------------------------------------------------------------
(* What delegations are worth.                                             *)

\* The delegations of a validator are worth no more than its tokens.
LEMMA WorthOfAll ==
  ASSUME NEW st, StakingSound(st), NEW v \in Validators,
         NEW S, S \subseteq Delegators \X {v},
         NEW w, \A x \in S : w[x] = TokensFromShares(st, x)
  PROVE  SumFunctionOnSet(w, S) <= st.tokens[v] * Prec
<1> DEFINE A == Delegators \X {v}
           t == st.tokens[v] * Prec
           s == st.shares[v]
           d == st.del
           zero == [x \in A |-> 0]
           f == [x \in A |-> t * d[x]]
<1>1. /\ IsFiniteSet(A) /\ A \subseteq Delegations /\ IsFiniteSet(S)
      /\ IsFiniteSet(A \ S) /\ S \cap (A \ S) = {} /\ S \cup (A \ S) = A
  BY FiniteDelegations, FS_Subset
<1>2. t \in Nat /\ s \in Nat \ {0} /\ s = SumFunctionOnSet(d, A)
  <2>1. st.tokens[v] \in Nat /\ Prec \in Nat /\ s \in Nat \ {0}
    BY ExportAssumption DEF StakingSound
  <2>2. QED
    BY <2>1 DEF StakingSound
<1>3. ASSUME NEW x \in A
      PROVE  d[x] \in Nat /\ TokensFromShares(st, x) \in Nat
             /\ s * TokensFromShares(st, x) <= t * d[x]
  <2> DEFINE a == d[x] * st.tokens[v] * Prec
             q == a \div s
  <2>1. x \in Delegations /\ x[2] = v
    BY <1>1
  <2>2. d[x] \in Nat /\ st.tokens[v] \in Nat /\ Prec \in Nat \ {0}
    BY <2>1, StakeOf, ExportAssumption
  <2>3. TokensFromShares(st, x) = q
    BY <2>1 DEF TokensFromShares
  <2>4. a \in Int /\ a >= 0 /\ a = t * d[x]
    BY <2>2
  <2> HIDE DEF a, s
  <2>5. q \in Nat /\ q * s <= a
    BY <1>2, <2>4, Quotient
  <2> HIDE DEF q
  <2>6. s * q <= a
    BY <1>2, <2>5
  <2>7. QED
    BY <2>2, <2>3, <2>4, <2>5, <2>6
<1> HIDE DEF A, t, s, d
<1>4. \A x \in S : x \in A
  BY DEF A
<1>5. SumFunctionOnSet(zero, S) = 0
  BY <1>1, <1>4, SumZero
<1>6. /\ SumFunctionOnSet(d, S) \in Nat /\ SumFunctionOnSet(d, A \ S) \in Nat
      /\ s = SumFunctionOnSet(d, S) + SumFunctionOnSet(d, A \ S)
  <2>1. /\ \A x \in S : d[x] \in Nat
        /\ \A x \in A \ S : d[x] \in Nat
        /\ \A x \in S \cup (A \ S) : d[x] \in Int
    BY <1>3, <1>4
  <2>2. SumFunctionOnSet(d, S) \in Nat /\ SumFunctionOnSet(d, A \ S) \in Nat
    BY <1>1, <2>1, SumNat
  <2>3. SumFunctionOnSet(d, S \cup (A \ S)) =
          SumFunctionOnSet(d, S) + SumFunctionOnSet(d, A \ S)
    BY <1>1, <2>1, SumUnion
  <2>4. QED
    BY <1>1, <1>2, <2>2, <2>3
<1>7. SumFunctionOnSet(f, S) <= t * SumFunctionOnSet(d, S)
  <2>1. \A x \in S : /\ zero[x] \in Int /\ f[x] \in Int /\ d[x] \in Int
                     /\ f[x] <= zero[x] + t * d[x]
    BY <1>2, <1>3, <1>4
  <2>2. t \in Int
    BY <1>2
  <2> HIDE DEF f, zero
  <2>3. SumFunctionOnSet(f, S) <= SumFunctionOnSet(zero, S) + t * SumFunctionOnSet(d, S)
    BY <1>1, <2>1, <2>2, SumScaled
  <2>4. t * SumFunctionOnSet(d, S) \in Int
    BY <1>2, <1>6
  <2>5. QED
    BY <1>5, <2>3, <2>4
<1>8. /\ SumFunctionOnSet(f, S) \in Int /\ SumFunctionOnSet(w, S) \in Int
      /\ 0 <= SumFunctionOnSet(f, S) + (-s) * SumFunctionOnSet(w, S)
  <2>1. ASSUME NEW x \in S
        PROVE  /\ f[x] \in Int /\ zero[x] \in Int /\ w[x] \in Int
               /\ zero[x] <= f[x] + (-s) * w[x]
    <3>1. /\ f[x] = t * d[x] /\ zero[x] = 0 /\ w[x] = TokensFromShares(st, x)
          /\ d[x] \in Nat /\ w[x] \in Nat /\ s * w[x] <= t * d[x]
      BY <1>3, <1>4
    <3>2. (-s) * w[x] = -(s * w[x]) /\ s * w[x] \in Int /\ t * d[x] \in Int
      BY <1>2, <3>1
    <3>3. QED
      BY <3>1, <3>2
  <2>2. -s \in Int
    BY <1>2
  <2> HIDE DEF f, zero
  <2>3. SumFunctionOnSet(f, S) \in Int /\ SumFunctionOnSet(w, S) \in Int
    BY <1>1, <2>1, SumTake
  <2>4. SumFunctionOnSet(zero, S)
          <= SumFunctionOnSet(f, S) + (-s) * SumFunctionOnSet(w, S)
    BY <1>1, <2>1, <2>2, SumScaled
  <2>5. QED
    BY <1>5, <2>3, <2>4
<1>9. SumFunctionOnSet(w, S) <= t
  <2> DEFINE F == SumFunctionOnSet(f, S)
             W == SumFunctionOnSet(w, S)
             B == SumFunctionOnSet(d, S)
  <2>1. /\ F \in Int /\ W \in Int /\ B \in Nat /\ B <= s /\ F <= t * B
        /\ 0 <= F + (-s) * W
    BY <1>6, <1>7, <1>8
  <2> HIDE DEF F, W, B
  <2>2. t * B <= t * s
    BY <1>2, <2>1
  <2>3. s * W <= s * t
    <3>1. (-s) * W = -(s * W) /\ s * W \in Int /\ t * B \in Int /\ t * s = s * t
      BY <1>2, <2>1
    <3>2. QED
      BY <1>2, <2>1, <2>2, <3>1
  <2>4. W <= t
    BY <1>2, <2>1, <2>3, TimesLess
  <2>5. QED
    BY <2>4 DEF W
<1>10. QED
  BY <1>9 DEF t

---------------------------------------------------------------------------
(* Going through the slashes in two states.                                *)

\* The periods a calculation for dl looks at.
Looked(D, dl) ==
  LET slashes == D.slashes[dl[2]]
  IN {D.start[dl].prev} \cup {slashes[i].period : i \in DOMAIN slashes}

\* E begins with the slashes of D, and has the same start and the same ratios
\* at the periods that count.
Extends(D, E, dl) ==
  LET slashes == D.slashes[dl[2]]
      more == E.slashes[dl[2]]
  IN /\ E.start[dl] = D.start[dl]
     /\ Len(slashes) <= Len(more)
     /\ \A i \in 1..Len(slashes) : more[i] = slashes[i]
     /\ \A p \in Looked(D, dl) : E.hist[dl[2]][p].ratio = D.hist[dl[2]][p].ratio

\* Context heights h and k at which the same slashes count.
SameCount(D, dl, h, k) ==
  LET s == D.start[dl]
      slashes == D.slashes[dl[2]]
  IN \A i \in DOMAIN slashes :
       slashes[i].period > s.prev => (Counts(s, slashes[i], h) <=> Counts(s, slashes[i], k))

\* Then the slashes of D make the same of a start in both states.
LEMMA VisitsAgree ==
  ASSUME NEW D, NEW E, NEW dl, NEW h, NEW k, Tracked(D, dl),
         NEW f \in Stages(D, dl), Visits(f, D, dl, h), NEW g, Visits(g, E, dl, k),
         Extends(D, E, dl), SameCount(D, dl, h, k)
  PROVE  \A i \in 0..Len(D.slashes[dl[2]]) : g[i] = f[i] /\ f[i].from \in Looked(D, dl)
<1> DEFINE v == dl[2]
           s == D.start[dl]
           sl == D.slashes[v]
           n == Len(sl)
           Good(i) == g[i] = f[i] /\ f[i].from \in Looked(D, dl) /\ f[i].from >= s.prev
           X == {i \in Nat : i <= n => Good(i)}
<1>1. /\ s \in [prev : Nat, stake : Int, height : Nat] /\ sl \in Seq(SlashEvent)
      /\ Records(D.hist[v]) /\ \A i \in DOMAIN sl : sl[i].period \in DOMAIN D.hist[v]
  BY DEF Tracked
<1>2. /\ n \in Nat /\ DOMAIN sl = 1..n /\ s.prev \in Nat
      /\ \A i \in 1..n : sl[i].period \in Nat
  <2> HIDE DEF sl
  <2>1. \A i \in 1..n : sl[i] \in SlashEvent
    BY <1>1
  <2>2. n \in Nat /\ DOMAIN sl = 1..n /\ s.prev \in Nat
    BY <1>1
  <2>3. QED
    BY <2>1, <2>2 DEF SlashEvent
<1>3. /\ E.start[dl] = s /\ n <= Len(E.slashes[v])
      /\ \A i \in 1..n : E.slashes[v][i] = sl[i]
      /\ \A p \in Looked(D, dl) : E.hist[v][p].ratio = D.hist[v][p].ratio
  BY DEF Extends
<1>4. s.prev \in Looked(D, dl) /\ \A i \in 1..n : sl[i].period \in Looked(D, dl)
  BY <1>2 DEF Looked
<1>5. f[0] = [from |-> s.prev, stake |-> s.stake, rewards |-> 0] /\ g[0] = f[0]
  BY <1>3 DEF Visits
<1>6. ASSUME NEW i \in 1..n
      PROVE  /\ f[i] = IF Counts(s, sl[i], h) /\ sl[i].period > f[i - 1].from
                       THEN AfterSlash(D.hist[v], f[i - 1], sl[i]) ELSE f[i - 1]
             /\ g[i] = IF Counts(s, sl[i], k) /\ sl[i].period > g[i - 1].from
                       THEN AfterSlash(E.hist[v], g[i - 1], sl[i]) ELSE g[i - 1]
  <2>1. i \in 1..Len(E.slashes[v]) /\ E.slashes[v][i] = sl[i]
    BY <1>2, <1>3
  <2>2. QED
    BY <1>3, <2>1 DEF Visits
<1>7. 0 \in X
  BY <1>2, <1>4, <1>5
<1>8. ASSUME NEW i \in Nat, i \in X PROVE i + 1 \in X
  <2> SUFFICES ASSUME i + 1 <= n PROVE Good(i + 1)
    OBVIOUS
  <2> DEFINE a == f[i]
             e == sl[i + 1]
  <2>1. /\ i + 1 \in 1..n /\ (i + 1) - 1 = i /\ i + 1 \in DOMAIN sl
        /\ g[i] = a /\ a.from \in Looked(D, dl) /\ a.from >= s.prev
    BY <1>2, <1>8
  <2>2. e.period \in Nat /\ s.prev \in Nat /\ e.period \in Looked(D, dl)
    BY <1>2, <1>4, <2>1
  <2>3. /\ f[i + 1] = IF Counts(s, e, h) /\ e.period > a.from
                      THEN AfterSlash(D.hist[v], a, e) ELSE a
        /\ g[i + 1] = IF Counts(s, e, k) /\ e.period > a.from
                      THEN AfterSlash(E.hist[v], a, e) ELSE a
    BY <1>6, <2>1
  <2>4. a.from \in Nat
    BY <1>2, <2>1 DEF Looked
  <2>5. e.period > s.prev => (Counts(s, e, h) <=> Counts(s, e, k))
    BY <2>1 DEF SameCount
  <2>6. AfterSlash(E.hist[v], a, e) = AfterSlash(D.hist[v], a, e)
    BY <1>3, <2>1, <2>2 DEF AfterSlash, Between
  <2>7. AfterSlash(D.hist[v], a, e).from = e.period
    BY DEF AfterSlash
  <2> HIDE DEF a, e, sl, s
  <2>8. CASE Counts(s, e, h) /\ e.period > a.from
    <3>1. Counts(s, e, k) /\ e.period >= s.prev
      BY <2>1, <2>2, <2>4, <2>5, <2>8
    <3>2. f[i + 1] = AfterSlash(D.hist[v], a, e) /\ g[i + 1] = f[i + 1]
      BY <2>3, <2>6, <2>8, <3>1
    <3>3. QED
      BY <2>2, <2>7, <3>1, <3>2
  <2>9. CASE ~(Counts(s, e, h) /\ e.period > a.from)
    <3>1. ~(Counts(s, e, k) /\ e.period > a.from)
      BY <2>1, <2>2, <2>4, <2>5, <2>9
    <3>2. f[i + 1] = a /\ g[i + 1] = a
      BY <2>3, <2>9, <3>1
    <3>3. QED
      BY <2>1, <3>2 DEF a
  <2>10. QED
    BY <2>8, <2>9
<1>9. Nat \subseteq X
  <2> HIDE DEF X
  <2> QED
    BY <1>7, <1>8, NatInduct
<1>10. QED
  BY <1>2, <1>9

\* In books that are kept, what a counted delegation's rewards are calculated
\* from is recorded.
LEMMA TrackedIn ==
  ASSUME NEW D, NEW S, Ledger(D, S), NEW dl \in S
  PROVE  LET v == dl[2]
             last == D.cur[v].period - 1
         IN /\ dl \in Delegations /\ v \in Validators /\ Tracked(D, dl)
            /\ D.start[dl].prev <= last /\ last \in Nat
            /\ Records(D.hist[v]) /\ last \in DOMAIN D.hist[v]
            /\ \A p \in DOMAIN D.hist[v] : p \in Nat /\ p <= last
            /\ Looked(D, dl) \subseteq DOMAIN D.hist[v]
            /\ \A i \in DOMAIN D.slashes[v] :
                 D.slashes[v][i].period <= last /\ D.slashes[v][i] \in SlashEvent
<1> DEFINE v == dl[2]
           last == D.cur[v].period - 1
<1>1. S \subseteq Delegations /\ DistTyped(D) /\ Exact(D, S)
  BY DEF Ledger
<1>2. dl \in Delegations /\ v \in Validators
  BY <1>1 DEF Delegations
<1>3. /\ last \in DOMAIN D.hist[v] /\ D.start[dl].prev \in DOMAIN D.hist[v]
      /\ \A i \in DOMAIN D.slashes[v] : D.slashes[v][i].period \in DOMAIN D.hist[v]
  BY <1>2, ReferencesType
<1>4. /\ D.start[dl] \in [prev : Nat, stake : Int, height : Nat]
      /\ D.slashes[v] \in Seq(SlashEvent)
      /\ D.cur[v].period \in Nat \ {0}
      /\ Records(D.hist[v]) /\ DOMAIN D.hist[v] \subseteq 0..last
  BY <1>1, <1>2 DEF DistTyped, Records
<1>5. Tracked(D, dl)
  BY <1>3, <1>4 DEF Tracked
<1>6. Looked(D, dl) \subseteq DOMAIN D.hist[v]
  BY <1>3 DEF Looked
<1>7. \A p \in DOMAIN D.hist[v] : p \in Nat /\ p <= last
  BY <1>4
<1>8. \A i \in DOMAIN D.slashes[v] :
        D.slashes[v][i].period <= last /\ D.slashes[v][i] \in SlashEvent
  BY <1>3, <1>4, <1>7
<1>9. QED
  BY <1>2, <1>3, <1>4, <1>5, <1>6, <1>7, <1>8

\* With the same slashes, the calculation comes to the same.
LEMMA SameAccrual ==
  ASSUME NEW D, NEW E, NEW dl, NEW h \in Nat, NEW k \in Nat,
         Tracked(D, dl), Tracked(E, dl), Extends(D, E, dl), SameCount(D, dl, h, k),
         E.slashes[dl[2]] = D.slashes[dl[2]]
  PROVE  /\ AfterSlashes(E, dl, k) = AfterSlashes(D, dl, h)
         /\ AfterSlashes(D, dl, h).from \in Looked(D, dl)
<1> DEFINE n == Len(D.slashes[dl[2]])
<1>1. PICK f \in Stages(D, dl) : Visits(f, D, dl, h) /\ AfterSlashes(D, dl, h) = f[n]
  BY VisitsExist
<1>2. PICK g \in Stages(E, dl) : Visits(g, E, dl, k) /\ AfterSlashes(E, dl, k) = g[n]
  BY VisitsExist
<1>3. \A i \in 0..n : g[i] = f[i] /\ f[i].from \in Looked(D, dl)
  BY <1>1, <1>2, VisitsAgree
<1>4. n \in 0..n
  <2>1. D.slashes[dl[2]] \in Seq(SlashEvent)
    BY DEF Tracked
  <2>2. QED
    BY <2>1
<1>5. QED
  BY <1>1, <1>2, <1>3, <1>4

\* Every state agrees with itself.
LEMMA ExtendsSelf ==
  ASSUME NEW D, NEW dl, Tracked(D, dl), NEW h
  PROVE  Extends(D, D, dl) /\ SameCount(D, dl, h, h)
<1>1. D.slashes[dl[2]] \in Seq(SlashEvent)
  BY DEF Tracked
<1>2. QED
  BY <1>1 DEF Extends, SameCount

\* A calculation ends at the start or at a slash; its result is typed.
LEMMA LastLooked ==
  ASSUME NEW D, NEW dl, NEW h \in Nat, Tracked(D, dl)
  PROVE  LET last == AfterSlashes(D, dl, h) IN
         last.from \in Looked(D, dl) /\ last.stake \in Int /\ last.rewards \in Int
<1>1. AfterSlashes(D, dl, h).from \in Looked(D, dl)
  BY ExtendsSelf, SameAccrual
<1>2. QED
  BY <1>1, SlashesVisited

\* One more slash comes on top.
LEMMA OneMoreSlash ==
  ASSUME NEW D, NEW E, NEW dl, NEW h \in Nat, Tracked(D, dl), Tracked(E, dl),
         Extends(D, E, dl), NEW e \in SlashEvent,
         E.slashes[dl[2]] = Append(D.slashes[dl[2]], e)
  PROVE  LET last == AfterSlashes(D, dl, h) IN
         AfterSlashes(E, dl, h) =
           IF Counts(D.start[dl], e, h) /\ e.period > last.from
           THEN AfterSlash(E.hist[dl[2]], last, e) ELSE last
<1> DEFINE sl == D.slashes[dl[2]]
           n == Len(sl)
<1>1. /\ sl \in Seq(SlashEvent) /\ n \in Nat /\ Len(E.slashes[dl[2]]) = n + 1
      /\ E.slashes[dl[2]][n + 1] = e
  <2>1. sl \in Seq(SlashEvent)
    BY DEF Tracked
  <2>2. E.slashes[dl[2]] = Append(sl, e)
    OBVIOUS
  <2> HIDE DEF sl
  <2>3. QED
    BY <2>1, <2>2
<1>2. PICK f \in Stages(D, dl) : Visits(f, D, dl, h) /\ AfterSlashes(D, dl, h) = f[n]
  BY VisitsExist
<1>3. PICK g \in Stages(E, dl) : Visits(g, E, dl, h) /\ AfterSlashes(E, dl, h) = g[n + 1]
  <2>1. PICK g \in Stages(E, dl) :
          Visits(g, E, dl, h) /\ AfterSlashes(E, dl, h) = g[Len(E.slashes[dl[2]])]
    BY VisitsExist
  <2>2. QED
    BY <1>1, <2>1
<1>4. g[n] = f[n]
  <2>1. SameCount(D, dl, h, h)
    BY DEF SameCount
  <2>2. \A i \in 0..n : g[i] = f[i]
    BY <1>2, <1>3, <2>1, VisitsAgree
  <2> HIDE DEF n
  <2>3. n \in 0..n
    BY <1>1
  <2>4. QED
    BY <2>2, <2>3
<1>5. E.start[dl] = D.start[dl]
  BY DEF Extends
<1>6. g[n + 1] = IF Counts(D.start[dl], e, h) /\ e.period > g[n].from
                 THEN AfterSlash(E.hist[dl[2]], g[n], e) ELSE g[n]
  <2>1. n + 1 \in 1..Len(E.slashes[dl[2]]) /\ (n + 1) - 1 = n
    BY <1>1
  <2> HIDE DEF n
  <2>2. QED
    BY <1>1, <1>3, <1>5, <2>1 DEF Visits
<1>7. QED
  BY <1>2, <1>3, <1>4, <1>6

\* Without a slash that counts since the start, the start is all there is.
LEMMA NoSlash ==
  ASSUME NEW D, NEW dl, NEW h \in Nat, Tracked(D, dl),
         \A i \in DOMAIN D.slashes[dl[2]] :
           D.slashes[dl[2]][i].period <= D.start[dl].prev
  PROVE  AfterSlashes(D, dl, h) =
           [from |-> D.start[dl].prev, stake |-> D.start[dl].stake, rewards |-> 0]
<1> DEFINE s == D.start[dl]
           sl == D.slashes[dl[2]]
           n == Len(sl)
           first == [from |-> s.prev, stake |-> s.stake, rewards |-> 0]
<1>1. PICK f \in Stages(D, dl) : Visits(f, D, dl, h) /\ AfterSlashes(D, dl, h) = f[n]
  BY VisitsExist
<1> DEFINE X == {i \in Nat : i <= n => f[i] = first}
<1>2. /\ n \in Nat /\ s.prev \in Nat
      /\ \A i \in 1..n : sl[i].period \in Nat /\ sl[i].period <= s.prev
  <2>1. sl \in Seq(SlashEvent) /\ s \in [prev : Nat, stake : Int, height : Nat]
    BY DEF Tracked
  <2>2. \A i \in DOMAIN sl : sl[i].period <= s.prev
    OBVIOUS
  <2> HIDE DEF sl, s
  <2>3. \A i \in 1..n : sl[i] \in SlashEvent /\ i \in DOMAIN sl
    BY <2>1
  <2>4. QED
    BY <2>1, <2>2, <2>3 DEF SlashEvent
<1>3. 0 \in X
  BY <1>1 DEF Visits
<1>4. ASSUME NEW i \in Nat, i \in X PROVE i + 1 \in X
  <2> SUFFICES ASSUME i + 1 <= n PROVE f[i + 1] = first
    OBVIOUS
  <2>1. i + 1 \in 1..n /\ (i + 1) - 1 = i /\ f[i] = first
    BY <1>2, <1>4
  <2>2. f[i].from = s.prev /\ ~(sl[i + 1].period > s.prev)
    BY <1>2, <2>1
  <2>3. f[i + 1] = f[i]
    BY <1>1, <2>1, <2>2 DEF Visits
  <2>4. QED
    BY <2>1, <2>3
<1>5. Nat \subseteq X
  <2> HIDE DEF X
  <2> QED
    BY <1>3, <1>4, NatInduct
<1>6. QED
  BY <1>1, <1>2, <1>5

---------------------------------------------------------------------------
(* Claims on what is outstanding.                                          *)

Claimants(S, v) == {dl \in S : dl[2] = v}
Earns(D) == [dl \in Delegations |-> Earned(D, dl)]

\* The two numbers claims are calculated with.
LEMMA HorizonIs == Horizon \in Nat /\ Prec \in Nat \ {0}
BY ExportAssumption DEF Horizon

\* What a counted delegation has earned is a number, and not negative.
LEMMA EarnedIs ==
  ASSUME NEW D, NEW S, Ledger(D, S), NEW dl \in S
  PROVE  LET v == dl[2]
             last == AfterSlashes(D, dl, Horizon)
             hist == D.hist[v]
             now == hist[D.cur[v].period - 1].ratio
         IN /\ Earned(D, dl) = last.rewards * Prec + (now - hist[last.from].ratio) * last.stake
            /\ Earned(D, dl) \in Int /\ last.rewards \in Int /\ last.stake \in Int
            /\ last.from \in DOMAIN hist /\ now \in Int /\ hist[last.from].ratio \in Int
            /\ RecordsSound(D, v) /\ last.rewards >= 0 /\ last.stake >= 0 =>
                 /\ Earned(D, dl) >= 0 /\ now - hist[last.from].ratio >= 0
                 /\ Earned(D, dl) >= last.rewards * Prec
<1> DEFINE v == dl[2]
           last == AfterSlashes(D, dl, Horizon)
           hist == D.hist[v]
           c == D.cur[v].period - 1
           now == hist[c].ratio
           then == hist[last.from].ratio
<1>1. /\ Tracked(D, dl) /\ Records(hist) /\ c \in DOMAIN hist
      /\ Looked(D, dl) \subseteq DOMAIN hist
  BY TrackedIn
<1>2. last.from \in DOMAIN hist /\ last.stake \in Int /\ last.rewards \in Int
  BY <1>1, HorizonIs, LastLooked
<1>3. now \in Int /\ then \in Int
  BY <1>1, <1>2 DEF Records
<1>4. Earned(D, dl) = last.rewards * Prec + (now - then) * last.stake
  BY DEF Earned
<1>5. RecordsSound(D, v) => now - then \in Nat
  BY <1>2, <1>3 DEF RecordsSound
<1> DEFINE r == last.rewards
           k == last.stake
           d == now - then
<1>6. r \in Int /\ k \in Int /\ d \in Int /\ Prec \in Nat
  BY <1>2, <1>3, HorizonIs
<1> HIDE DEF r, k, d
<1>7. /\ r * Prec + d * k \in Int
      /\ r >= 0 /\ k >= 0 /\ d >= 0 => r * Prec >= 0 /\ d * k >= 0
  BY <1>6
<1>8. r * Prec \in Int /\ d * k \in Int
  BY <1>6
<1>9. r >= 0 /\ k >= 0 /\ d >= 0 => r * Prec + d * k >= 0 /\ r * Prec + d * k >= r * Prec
  BY <1>7, <1>8
<1>10. Earned(D, dl) = r * Prec + d * k
  BY <1>4 DEF r, k, d
<1>11. Earned(D, dl) \in Int
  BY <1>7, <1>10
<1>12. ASSUME RecordsSound(D, v), last.rewards >= 0, last.stake >= 0
       PROVE  /\ Earned(D, dl) >= 0 /\ now - then >= 0
              /\ Earned(D, dl) >= last.rewards * Prec
  <2>1. r >= 0 /\ k >= 0 /\ d >= 0
    BY <1>5, <1>12 DEF r, k, d
  <2>2. Earned(D, dl) >= 0 /\ Earned(D, dl) >= r * Prec
    BY <1>9, <1>10, <2>1
  <2>3. QED
    BY <2>1, <2>2 DEF r, d
<1>13. QED
  BY <1>2, <1>3, <1>4, <1>11, <1>12

\* Claims are numbers.
LEMMA ClaimsType ==
  ASSUME NEW D, NEW S, Ledger(D, S), NEW U, U \subseteq S, NEW v \in Validators
  PROVE  /\ IsFiniteSet(Claimants(U, v))
         /\ \A dl \in Claimants(U, v) :
              dl \in S /\ dl \in Delegations /\ dl[2] = v
              /\ Earns(D)[dl] = Earned(D, dl) /\ Earns(D)[dl] \in Int
         /\ SumFunctionOnSet(Earns(D), Claimants(U, v)) \in Int
         /\ Claims(D, U, v) = (D.commission[v] + D.cur[v].rewards) * Prec
                              + SumFunctionOnSet(Earns(D), Claimants(U, v))
         /\ D.commission[v] \in Int /\ D.cur[v].rewards \in Int /\ D.outstanding[v] \in Int
         /\ D.cur[v].period \in Nat \ {0} /\ Claims(D, U, v) \in Int
<1>1. S \subseteq Delegations /\ DistTyped(D)
  BY DEF Ledger
<1>2. IsFiniteSet(Claimants(U, v))
  BY <1>1, FiniteDelegations DEF Claimants
<1>3. ASSUME NEW dl \in Claimants(U, v)
      PROVE  dl \in S /\ dl \in Delegations /\ dl[2] = v
             /\ Earns(D)[dl] = Earned(D, dl) /\ Earns(D)[dl] \in Int
  <2>1. dl \in S /\ dl \in Delegations /\ dl[2] = v
    BY <1>1 DEF Claimants
  <2>2. Earned(D, dl) \in Int
    BY <2>1, EarnedIs
  <2>3. QED
    BY <2>1, <2>2 DEF Earns
<1>4. SumFunctionOnSet(Earns(D), Claimants(U, v)) \in Int
  BY <1>2, <1>3, SumTake
<1>5. D.commission[v] \in Int /\ D.cur[v] \in [rewards : Int, period : Nat \ {0}]
      /\ D.outstanding[v] \in Int
  BY <1>1 DEF DistTyped
<1>6. Claims(D, U, v) = (D.commission[v] + D.cur[v].rewards) * Prec
                        + SumFunctionOnSet(Earns(D), Claimants(U, v))
  BY DEF Claims, Earns, Claimants
<1>7. D.cur[v].rewards \in Int /\ D.cur[v].period \in Nat \ {0}
  BY <1>5
<1>8. (D.commission[v] + D.cur[v].rewards) * Prec \in Int
  BY <1>5, <1>7, HorizonIs
<1>9. Claims(D, U, v) \in Int
  BY <1>4, <1>6, <1>8
<1>10. QED
  BY <1>2, <1>3, <1>4, <1>5, <1>6, <1>7, <1>9

\* The ratios of the records that two states share.
RatiosKept(D, E, v) ==
  \A p \in DOMAIN D.hist[v] \cap DOMAIN E.hist[v] :
    E.hist[v][p].ratio = D.hist[v][p].ratio

\* A delegation whose start does not change earns on from where it was.
LEMMA AccrualKept ==
  ASSUME NEW D, NEW S, Ledger(D, S), NEW E, NEW T, Ledger(E, T),
         NEW dl, dl \in S, dl \in T, E.start[dl] = D.start[dl],
         E.slashes[dl[2]] = D.slashes[dl[2]], RatiosKept(D, E, dl[2])
  PROVE  LET last == AfterSlashes(D, dl, Horizon) IN
         /\ AfterSlashes(E, dl, Horizon) = last
         /\ last.from \in DOMAIN D.hist[dl[2]] /\ last.from \in DOMAIN E.hist[dl[2]]
         /\ E.hist[dl[2]][last.from].ratio = D.hist[dl[2]][last.from].ratio
<1> DEFINE v == dl[2]
           last == AfterSlashes(D, dl, Horizon)
<1>1. Tracked(D, dl) /\ Looked(D, dl) \subseteq DOMAIN D.hist[v]
  BY TrackedIn
<1>2. Tracked(E, dl) /\ Looked(E, dl) \subseteq DOMAIN E.hist[v]
  BY TrackedIn
<1>3. Looked(E, dl) = Looked(D, dl)
  BY DEF Looked
<1>4. \A p \in Looked(D, dl) : E.hist[v][p].ratio = D.hist[v][p].ratio
  BY <1>1, <1>2, <1>3 DEF RatiosKept
<1>5. Extends(D, E, dl) /\ SameCount(D, dl, Horizon, Horizon)
  <2>1. D.slashes[v] \in Seq(SlashEvent)
    BY <1>1 DEF Tracked
  <2>2. QED
    BY <1>4, <2>1 DEF Extends, SameCount
<1>6. AfterSlashes(E, dl, Horizon) = last /\ last.from \in Looked(D, dl)
  BY <1>1, <1>2, <1>5, HorizonIs, SameAccrual
<1>7. QED
  BY <1>1, <1>2, <1>3, <1>4, <1>6

\* A step that leaves the records of v and the starts of the delegations in U
\* alone keeps v solvent for U, if what is outstanding covers what the step
\* adds to the claims.
LEMMA StaysSolvent ==
  ASSUME NEW D, NEW S, Ledger(D, S), NEW E, NEW T, Ledger(E, T),
         NEW U, U \subseteq S, U \subseteq T, NEW v \in Validators,
         NEW st, StakingSound(st), NEW su, StakingSound(su), NEW h \in Nat, NEW k \in Nat,
         h <= k,
         RecordsSound(D, v),
         \A i \in DOMAIN D.slashes[v] : D.slashes[v][i].height <= h,
         \A dl \in U : dl[2] = v => InStep(D, st, dl, h),
         \A dl \in U : dl[2] = v =>
           /\ E.start[dl] = D.start[dl]
           /\ TokensFromShares(st, dl) <= TokensFromShares(su, dl),
         E.slashes[v] = D.slashes[v], E.cur[v].period = D.cur[v].period,
         RatiosKept(D, E, v), DOMAIN E.hist[v] \subseteq DOMAIN D.hist[v],
         E.commission[v] >= 0, E.cur[v].rewards >= 0, E.outstanding[v] >= 0,
         Claims(D, U, v) + ((E.commission[v] + E.cur[v].rewards)
                            - (D.commission[v] + D.cur[v].rewards)) * Prec
           <= E.outstanding[v] * Prec
  PROVE  SolventAt(E, su, U, k, v)
<1> DEFINE c == D.cur[v].period - 1
<1>1. c \in DOMAIN D.hist[v] /\ c \in DOMAIN E.hist[v]
  <2>1. D.cur[v].period - 1 \in DOMAIN D.hist[v]
    BY ReferencesType
  <2>2. E.cur[v].period - 1 \in DOMAIN E.hist[v]
    BY ReferencesType
  <2>3. QED
    BY <2>1, <2>2
<1>2. RecordsSound(E, v)
  <2>1. \A p \in DOMAIN E.hist[v] : E.hist[v][p].ratio = D.hist[v][p].ratio
    BY DEF RatiosKept
  <2>2. E.cur[v].period - 1 = c
    OBVIOUS
  <2> HIDE DEF c
  <2>3. \A p \in DOMAIN E.hist[v] : E.hist[v][p].ratio <= E.hist[v][c].ratio
    BY <1>1, <2>1 DEF RecordsSound, c
  <2>4. QED
    BY <2>2, <2>3 DEF RecordsSound
<1>3. ASSUME NEW i \in DOMAIN E.slashes[v] PROVE E.slashes[v][i].height <= k
  <2>1. D.slashes[v] \in Seq(SlashEvent)
    BY DEF Ledger, DistTyped
  <2> DEFINE sl == D.slashes[v]
  <2>2. sl[i].height <= h /\ i \in DOMAIN sl /\ E.slashes[v][i] = sl[i]
    OBVIOUS
  <2> HIDE DEF sl
  <2>3. sl[i] \in SlashEvent
    BY <2>1, <2>2 DEF sl
  <2>4. sl[i].height \in Nat
    BY <2>3 DEF SlashEvent
  <2>5. QED
    BY <2>2, <2>4
<1>4. ASSUME NEW dl \in U, dl[2] = v
      PROVE  InStep(E, su, dl, k) /\ Earned(E, dl) = Earned(D, dl)
  <2> DEFINE last == AfterSlashes(D, dl, Horizon)
  <2>1. /\ AfterSlashes(E, dl, Horizon) = last
        /\ E.hist[v][last.from].ratio = D.hist[v][last.from].ratio
    BY <1>4, AccrualKept
  <2>2. E.hist[v][c].ratio = D.hist[v][c].ratio
    BY <1>1 DEF RatiosKept
  <2>3. dl \in Delegations
    BY DEF Ledger
  <2>4. TokensFromShares(st, dl) \in Nat /\ TokensFromShares(su, dl) \in Nat
    BY <2>3, StakeOf
  <2>5. D.start[dl].height \in Nat /\ last.stake \in Int /\ E.start[dl] = D.start[dl]
    <3>1. D.start[dl] \in [prev : Nat, stake : Int, height : Nat]
      BY <2>3 DEF Ledger, DistTyped
    <3>2. last.stake \in Int
      BY EarnedIs
    <3>3. QED
      BY <1>4, <3>1, <3>2
  <2>6. InStep(D, st, dl, h)
    BY <1>4
  <2> HIDE DEF last
  <2>7. /\ D.start[dl].height <= h
        /\ \A i \in DOMAIN D.slashes[v] : D.slashes[v][i].period > D.start[dl].prev =>
             D.slashes[v][i].height >= D.start[dl].height
        /\ last.rewards >= 0 /\ 0 <= last.stake /\ last.stake <= TokensFromShares(st, dl)
    BY <1>4, <2>6 DEF InStep, last
  <2>8. E.start[dl].height <= k /\ last.stake <= TokensFromShares(su, dl)
    BY <1>4, <2>4, <2>5, <2>7
  <2>9. InStep(E, su, dl, k)
    BY <1>4, <2>1, <2>5, <2>7, <2>8 DEF InStep
  <2>10. Earned(E, dl) = Earned(D, dl)
    BY <1>4, <2>1, <2>2 DEF Earned, last
  <2>11. QED
    BY <2>9, <2>10
<1>5. Claims(E, U, v) <= E.outstanding[v] * Prec
  <2> DEFINE sum(X) == SumFunctionOnSet(Earns(X), Claimants(U, v))
             a == D.commission[v] + D.cur[v].rewards
             b == E.commission[v] + E.cur[v].rewards
             o == E.outstanding[v] * Prec
  <2>1. /\ IsFiniteSet(Claimants(U, v)) /\ sum(D) \in Int /\ Claims(D, U, v) = a * Prec + sum(D)
        /\ \A dl \in Claimants(U, v) : Earns(D)[dl] = Earned(D, dl) /\ Earns(D)[dl] \in Int
        /\ a \in Int
    BY ClaimsType
  <2>2. /\ Claims(E, U, v) = b * Prec + sum(E) /\ b \in Int /\ E.outstanding[v] \in Int
        /\ \A dl \in Claimants(U, v) : Earns(E)[dl] = Earned(E, dl)
    BY ClaimsType
  <2>3. sum(E) = sum(D)
    <3>1. \A dl \in Claimants(U, v) : Earns(D)[dl] \in Int /\ Earns(E)[dl] = Earns(D)[dl]
      BY <1>4, <2>1, <2>2 DEF Claimants
    <3>2. QED
      BY <2>1, <3>1, SumSame
  <2>4. Claims(D, U, v) + (b - a) * Prec <= o
    OBVIOUS
  <2> HIDE DEF sum, a, b, o
  <2>5. (b - a) * Prec = b * Prec - a * Prec /\ a * Prec \in Int /\ b * Prec \in Int
    BY <2>1, <2>2, HorizonIs
  <2>6. o \in Int
    BY <2>2, HorizonIs DEF o
  <2>7. b * Prec + sum(D) <= o
    BY <2>1, <2>4, <2>5, <2>6
  <2>8. QED
    BY <2>2, <2>3, <2>7 DEF o
<1>6. QED
  BY <1>2, <1>3, <1>4, <1>5 DEF SolventAt

\* A validator that a step does not touch stays solvent.
LEMMA OthersSolvent ==
  ASSUME NEW D, NEW S, Ledger(D, S), NEW E, NEW T, Ledger(E, T), NEW w \in Validators,
         NEW st, StakingSound(st), NEW su, StakingSound(su), NEW h \in Nat, NEW k \in Nat,
         h <= k, SolventAt(D, st, S, h, w),
         Claimants(T, w) = Claimants(S, w),
         \A dl \in Claimants(S, w) :
           /\ E.start[dl] = D.start[dl]
           /\ TokensFromShares(st, dl) <= TokensFromShares(su, dl),
         E.hist[w] = D.hist[w], E.cur[w] = D.cur[w], E.slashes[w] = D.slashes[w],
         E.outstanding[w] = D.outstanding[w], E.commission[w] = D.commission[w]
  PROVE  SolventAt(E, su, T, k, w)
<1> DEFINE U == Claimants(S, w)
           x == D.commission[w] + D.cur[w].rewards
<1>1. U \subseteq S /\ U \subseteq T /\ Claimants(U, w) = U
  BY DEF Claimants
<1>2. \A dl \in S : dl \in U <=> dl[2] = w
  BY DEF Claimants
<1>3. \A dl \in T : dl[2] = w => dl \in U
  BY DEF Claimants
<1>4. Claims(D, U, w) = Claims(D, S, w) /\ Claims(E, T, w) = Claims(E, U, w)
  <2>1. /\ {dl \in U : dl[2] = w} = {dl \in S : dl[2] = w}
        /\ {dl \in T : dl[2] = w} = {dl \in U : dl[2] = w}
    BY <1>1 DEF Claimants
  <2>2. QED
    BY <2>1 DEF Claims
<1>5. RecordsSound(D, w) /\ \A i \in DOMAIN D.slashes[w] : D.slashes[w][i].height <= h
  BY DEF SolventAt
<1>6. \A dl \in U : dl[2] = w => InStep(D, st, dl, h)
  BY <1>1 DEF SolventAt
<1>7. \A dl \in U : dl[2] = w =>
        /\ E.start[dl] = D.start[dl]
        /\ TokensFromShares(st, dl) <= TokensFromShares(su, dl)
  OBVIOUS
<1>8. /\ RatiosKept(D, E, w) /\ DOMAIN E.hist[w] \subseteq DOMAIN D.hist[w]
      /\ E.cur[w].period = D.cur[w].period
      /\ E.commission[w] >= 0 /\ E.cur[w].rewards >= 0 /\ E.outstanding[w] >= 0
  BY <1>5 DEF RatiosKept, RecordsSound
<1>9. Claims(D, U, w) + ((E.commission[w] + E.cur[w].rewards)
                         - (D.commission[w] + D.cur[w].rewards)) * Prec
        <= E.outstanding[w] * Prec
  <2>1. x \in Int /\ D.outstanding[w] \in Int /\ Claims(D, U, w) \in Int
    BY <1>1, ClaimsType
  <2>2. E.commission[w] + E.cur[w].rewards = x
    OBVIOUS
  <2> HIDE DEF x
  <2>3. (x - x) * Prec = 0
    BY <2>1, HorizonIs
  <2>4. Claims(D, U, w) <= D.outstanding[w] * Prec
    BY <1>4 DEF SolventAt
  <2>5. QED
    BY <2>1, <2>2, <2>3, <2>4 DEF x
<1> HIDE DEF U, x
<1>10. SolventAt(E, su, U, k, w)
  BY <1>1, <1>5, <1>6, <1>7, <1>8, <1>9, StaysSolvent
<1>11. QED
  BY <1>3, <1>4, <1>10 DEF SolventAt

---------------------------------------------------------------------------
(* Closing a period.                                                       *)

\* Counting references changes no ratio.
LEMMA DecRefRatio ==
  ASSUME NEW h, Records(h), NEW p \in DOMAIN h
  PROVE  /\ DOMAIN DecRef(h, p) \subseteq DOMAIN h
         /\ \A q \in DOMAIN DecRef(h, p) : DecRef(h, p)[q].ratio = h[q].ratio
<1>1. CASE h[p].refs = 1
  <2>1. DecRef(h, p) = [q \in DOMAIN h \ {p} |-> h[q]]
    BY <1>1 DEF DecRef, Restrict
  <2>2. QED
    BY <2>1
<1>2. CASE h[p].refs # 1
  <2>1. DecRef(h, p) = [h EXCEPT ![p].refs = @ - 1]
    BY <1>2 DEF DecRef
  <2>2. QED
    BY <2>1 DEF Records
<1>3. QED
  BY <1>1, <1>2

\* One more reference.
LEMMA IncRefRatio ==
  ASSUME NEW h, Records(h), NEW p
  PROVE  /\ DOMAIN IncRef(h, p) = DOMAIN h
         /\ \A q \in DOMAIN h : IncRef(h, p)[q].ratio = h[q].ratio
BY DEF IncRef, Records

\* What closing a period of v makes of its records: the last ratio grows by
\* what its current rewards are per token, which a validator without tokens
\* gives to the community pool.
ClosedBy(D, E, st, v, gain, lost) ==
  LET n == D.cur[v].period
      t == st.tokens[v]
      r == D.cur[v].rewards
  IN /\ t = 0 => gain = 0 /\ lost = r
     /\ t # 0 => lost = 0 /\ gain * t <= r
     /\ r >= 0 => gain >= 0 /\ lost >= 0
     /\ E.hist[v][n].ratio = D.hist[v][n - 1].ratio + gain
     /\ \A p \in DOMAIN E.hist[v] \ {n} :
          p \in DOMAIN D.hist[v] /\ E.hist[v][p].ratio = D.hist[v][p].ratio
     /\ E.outstanding[v] = D.outstanding[v] - lost /\ E.pool = D.pool + lost
     /\ \A w \in Validators \ {v} : E.hist[w] = D.hist[w]

\* Closing a period does that.
LEMMA IncrementIs ==
  ASSUME NEW D, NEW S, Ledger(D, S), NEW st, st.tokens \in [Validators -> Nat],
         NEW v \in Validators
  PROVE  \E gain, lost \in Int : ClosedBy(D, IncrementPeriod(D, st, v), st, v, gain, lost)
<1> DEFINE E == IncrementPeriod(D, st, v)
           r == D.cur[v].rewards
           n == D.cur[v].period
           t == st.tokens[v]
           gain == IF t = 0 THEN 0 ELSE r \div t
           lost == IF t = 0 THEN r ELSE 0
           h == D.hist[v]
           new == [ratio |-> h[n - 1].ratio + gain, refs |-> 1]
           g == DecRef(h, n - 1)
<1>1. DistTyped(D) /\ n - 1 \in DOMAIN h
  BY ReferencesType DEF Ledger
<1>2. r \in Int /\ n \in Nat \ {0} /\ t \in Nat /\ Records(h)
  <2>1. D.cur[v] \in [rewards : Int, period : Nat \ {0}]
    BY <1>1 DEF DistTyped
  <2>2. QED
    BY <1>1, <2>1 DEF DistTyped, Records
<1>3. /\ DOMAIN g \subseteq DOMAIN h /\ \A q \in DOMAIN g : g[q].ratio = h[q].ratio
  BY <1>1, <1>2, DecRefRatio
<1>4. /\ gain \in Int /\ lost \in Int
      /\ t = 0 => gain = 0 /\ lost = r
      /\ t # 0 => lost = 0 /\ gain * t <= r
      /\ r >= 0 => gain >= 0 /\ lost >= 0
  <2> HIDE DEF r, t
  <2>1. t # 0 => r \div t \in Int /\ (r \div t) * t <= r /\ (r >= 0 => r \div t \in Nat)
    BY <1>2, Quotient
  <2>2. QED
    BY <1>2, <2>1
<1>5. /\ E.hist = [D.hist EXCEPT ![v] = WithRecord(g, n, new)]
      /\ E.outstanding = [D.outstanding EXCEPT ![v] = @ - lost]
      /\ E.pool = D.pool + lost
  BY <1>1 DEF IncrementPeriod, DistTyped, GenesisDistribution
<1> HIDE DEF E, g, lost, gain
<1>6. /\ D.outstanding \in [Validators -> Int] /\ DOMAIN D.hist = Validators
  BY <1>1 DEF DistTyped
<1>7. /\ E.hist[v] = WithRecord(g, n, new)
      /\ \A w \in Validators \ {v} : E.hist[w] = D.hist[w]
      /\ E.outstanding[v] = D.outstanding[v] - lost
  BY <1>5, <1>6
<1> HIDE DEF new
<1>8. /\ DOMAIN E.hist[v] = DOMAIN g \cup {n} /\ E.hist[v][n] = new
      /\ \A p \in DOMAIN g : p # n => E.hist[v][p] = g[p]
  BY <1>7 DEF WithRecord
<1>9. E.hist[v][n].ratio = h[n - 1].ratio + gain
  BY <1>8 DEF new
<1>10. \A p \in DOMAIN E.hist[v] \ {n} : p \in DOMAIN h /\ E.hist[v][p].ratio = h[p].ratio
  BY <1>3, <1>8
<1>11. ClosedBy(D, E, st, v, gain, lost)
  BY <1>4, <1>5, <1>7, <1>9, <1>10 DEF ClosedBy
<1>12. QED
  BY <1>4, <1>11 DEF E

\* Closing a period of a solvent validator keeps it solvent.
LEMMA IncrementSolventAt ==
  ASSUME NEW D, NEW S, Ledger(D, S), NEW st, StakingSound(st), NEW v \in Validators,
         NEW h \in Nat, SolventAt(D, st, S, h, v)
  PROVE  LET E == IncrementPeriod(D, st, v) IN
         /\ Ledger(E, S) /\ Closed(D, E, v) /\ SolventAt(E, st, S, h, v)
         /\ E.pool >= D.pool /\ E.outstanding[v] <= D.outstanding[v]
<1> DEFINE E == IncrementPeriod(D, st, v)
           n == D.cur[v].period
           A == Claimants(S, v)
           t == st.tokens[v]
           r == D.cur[v].rewards
<1>1. Ledger(E, S) /\ Closed(D, E, v)
  BY IncrementKeeps DEF StakingSound
<1>2. PICK gain, lost \in Int : ClosedBy(D, E, st, v, gain, lost)
  <2>1. st.tokens \in [Validators -> Nat]
    BY DEF StakingSound
  <2>2. QED
    BY <2>1, IncrementIs
<1> HIDE DEF E
<1>3. SolventAt(D, st, S, h, v)
  OBVIOUS
<1>4. /\ IsFiniteSet(A)
      /\ \A dl \in A : /\ dl \in S /\ dl \in Delegations /\ dl[2] = v
                       /\ Earns(D)[dl] = Earned(D, dl) /\ Earns(D)[dl] \in Int
      /\ SumFunctionOnSet(Earns(D), A) \in Int
      /\ Claims(D, S, v) = (D.commission[v] + r) * Prec + SumFunctionOnSet(Earns(D), A)
      /\ D.commission[v] \in Int /\ r \in Int /\ D.outstanding[v] \in Int
      /\ n \in Nat \ {0}
  BY ClaimsType
<1>5. /\ SumFunctionOnSet(Earns(E), A) \in Int
      /\ Claims(E, S, v) = (E.commission[v] + E.cur[v].rewards) * Prec
                           + SumFunctionOnSet(Earns(E), A)
      /\ \A dl \in A : Earns(E)[dl] = Earned(E, dl) /\ Earns(E)[dl] \in Int
  BY <1>1, ClaimsType
<1>6. /\ t \in Nat /\ E.start = D.start /\ E.slashes = D.slashes
      /\ E.commission = D.commission
      /\ E.cur[v].rewards = 0 /\ E.cur[v].period = n + 1
      /\ E.outstanding[v] = D.outstanding[v] - lost /\ E.pool = D.pool + lost
  BY <1>1, <1>2 DEF Closed, ClosedBy, StakingSound
<1>7. /\ D.commission[v] >= 0 /\ r >= 0 /\ D.outstanding[v] >= 0
      /\ \A p \in DOMAIN D.hist[v] : D.hist[v][p].ratio <= D.hist[v][n - 1].ratio
      /\ Claims(D, S, v) <= D.outstanding[v] * Prec
      /\ \A dl \in A : InStep(D, st, dl, h)
  BY <1>3 DEF SolventAt, RecordsSound, Claimants
<1>8. gain >= 0 /\ lost >= 0 /\ lost <= r
      /\ (t # 0 => gain * t <= r) /\ (t = 0 => gain = 0 /\ lost = r)
      /\ (t # 0 => lost = 0)
  <2>1. /\ t = 0 => gain = 0 /\ lost = r
        /\ t # 0 => lost = 0 /\ gain * t <= r
        /\ r >= 0 => gain >= 0 /\ lost >= 0
    BY <1>2 DEF ClosedBy
  <2>2. r \in Int /\ r >= 0 /\ lost \in Int
    BY <1>4, <1>7
  <2> HIDE DEF r, t
  <2>3. QED
    BY <2>1, <2>2
<1>9. /\ D.pool \in Int
  BY DEF Ledger, DistTyped
<1>10. /\ n \in DOMAIN E.hist[v] /\ n \notin DOMAIN D.hist[v] /\ n - 1 \in DOMAIN D.hist[v]
       /\ Records(D.hist[v]) /\ (n + 1) - 1 = n
  <2>1. E.cur[v].period - 1 \in DOMAIN E.hist[v] /\ n - 1 \in DOMAIN D.hist[v]
    BY <1>1, ReferencesType
  <2>2. Records(D.hist[v]) /\ DOMAIN D.hist[v] \subseteq 0..(n - 1)
    BY DEF Ledger, DistTyped, Records
  <2>3. (n + 1) - 1 = n /\ n \notin 0..(n - 1)
    BY <1>4
  <2>4. QED
    BY <1>6, <2>1, <2>2, <2>3
<1>11. RatiosKept(D, E, v)
  <2>1. \A p \in DOMAIN D.hist[v] \cap DOMAIN E.hist[v] : p \in DOMAIN E.hist[v] \ {n}
    BY <1>10
  <2>2. QED
    BY <1>2, <2>1 DEF RatiosKept, ClosedBy
<1>12. E.hist[v][n].ratio = D.hist[v][n - 1].ratio + gain /\ D.hist[v][n - 1].ratio \in Int
  BY <1>2, <1>10 DEF ClosedBy, Records
<1>13. ASSUME NEW dl \in A
       PROVE  /\ InStep(E, st, dl, h)
              /\ Earned(E, dl) <= Earned(D, dl) + gain * TokensFromShares(st, dl)
              /\ TokensFromShares(st, dl) \in Nat
  <2> DEFINE last == AfterSlashes(D, dl, Horizon)
             w == TokensFromShares(st, dl)
  <2>1. dl \in S /\ dl \in Delegations /\ dl[2] = v /\ InStep(D, st, dl, h)
    BY <1>4, <1>7
  <2>2. /\ AfterSlashes(E, dl, Horizon) = last
        /\ last.from \in DOMAIN D.hist[v]
        /\ E.hist[v][last.from].ratio = D.hist[v][last.from].ratio
    BY <1>1, <1>6, <1>11, <2>1, AccrualKept
  <2>3. /\ Earned(D, dl) = last.rewards * Prec
                           + (D.hist[v][n - 1].ratio - D.hist[v][last.from].ratio) * last.stake
        /\ last.rewards \in Int /\ last.stake \in Int /\ D.hist[v][last.from].ratio \in Int
    BY <2>1, EarnedIs
  <2>4. Earned(E, dl) = last.rewards * Prec
          + ((D.hist[v][n - 1].ratio + gain) - D.hist[v][last.from].ratio) * last.stake
    BY <1>6, <1>10, <1>12, <2>1, <2>2 DEF Earned
  <2>5. w \in Nat
    BY <2>1, StakeOf
  <2> HIDE DEF last, w
  <2>6. 0 <= last.stake /\ last.stake <= w
    BY <2>1 DEF InStep, last, w
  <2>7. gain * last.stake <= gain * w /\ gain * last.stake \in Int /\ gain * w \in Int
    BY <1>8, <2>3, <2>5, <2>6, TimesMono
  <2> DEFINE a == last.rewards * Prec
             b == D.hist[v][n - 1].ratio
             c == D.hist[v][last.from].ratio
             k == last.stake
  <2>8. a \in Int /\ b \in Int /\ c \in Int /\ k \in Int
    <3>1. b \in Int /\ c \in Int /\ k \in Int
      BY <1>12, <2>3
    <3> DEFINE x == last.rewards
    <3>2. x \in Int /\ a = x * Prec
      BY <2>3
    <3> HIDE DEF x, a
    <3>3. a \in Int
      BY <3>2, HorizonIs
    <3>4. QED
      BY <3>1, <3>3
  <2>9. Earned(D, dl) = a + (b - c) * k /\ Earned(E, dl) = a + ((b + gain) - c) * k
    BY <2>3, <2>4
  <2>10. gain * k <= gain * w /\ gain * k \in Int /\ gain * w \in Int
    BY <2>7
  <2> HIDE DEF a, b, c, k
  <2>11. ((b + gain) - c) * k = (b - c) * k + gain * k /\ (b - c) * k \in Int
    BY <2>8
  <2>12. Earned(E, dl) <= Earned(D, dl) + gain * w
    BY <2>8, <2>9, <2>10, <2>11
  <2>13. InStep(E, st, dl, h)
    BY <1>6, <2>1, <2>2 DEF InStep, last
  <2>14. QED
    BY <2>5, <2>12, <2>13 DEF w
<1>14. RecordsSound(E, v)
  <2>1. ASSUME NEW p \in DOMAIN E.hist[v] PROVE E.hist[v][p].ratio <= E.hist[v][n].ratio
    <3>1. CASE p = n
      BY <1>12, <3>1
    <3>2. CASE p # n
      <4>1. p \in DOMAIN D.hist[v] /\ E.hist[v][p].ratio = D.hist[v][p].ratio
        BY <1>2, <3>2 DEF ClosedBy
      <4>2. D.hist[v][p].ratio <= D.hist[v][n - 1].ratio /\ D.hist[v][p].ratio \in Int
        BY <1>7, <1>10, <4>1 DEF Records
      <4>3. QED
        BY <1>8, <1>12, <4>1, <4>2
    <3>3. QED
      BY <3>1, <3>2
  <2>2. E.outstanding[v] >= 0
    <3>1. CASE t # 0
      BY <1>4, <1>6, <1>7, <1>8, <3>1
    <3>2. CASE t = 0
      <4>1. \A dl \in A : Earns(D)[dl] \in Nat
        <5> SUFFICES ASSUME NEW dl \in A PROVE Earns(D)[dl] \in Nat
          OBVIOUS
        <5>1. RecordsSound(D, v) /\ InStep(D, st, dl, h) /\ dl[2] = v /\ dl \in S
          BY <1>3, <1>4, <1>7 DEF SolventAt
        <5>2. Earned(D, dl) >= 0
          BY <5>1, EarnedIs DEF InStep
        <5>3. QED
          BY <1>4, <5>2
      <4>2. SumFunctionOnSet(Earns(D), A) \in Nat
        BY <1>4, <4>1, SumNat
      <4> DEFINE s == SumFunctionOnSet(Earns(D), A)
                 cm == D.commission[v]
                 o == D.outstanding[v]
      <4>3. (cm + r) * Prec + s <= o * Prec /\ s \in Nat /\ cm \in Nat /\ r \in Nat /\ o \in Int
        BY <1>4, <1>7, <4>2
      <4> HIDE DEF s, cm, o, r
      <4>4. Prec * (cm + r) <= Prec * o
        BY <4>3, HorizonIs
      <4>5. cm + r <= o
        BY <4>3, <4>4, HorizonIs, TimesLess
      <4>6. o - r >= 0
        BY <4>3, <4>5
      <4>7. QED
        BY <1>6, <1>8, <3>2, <4>6 DEF o, r
    <3>3. QED
      BY <3>1, <3>2
  <2>3. QED
    BY <1>6, <1>7, <1>10, <2>1, <2>2 DEF RecordsSound
<1>15. Claims(E, S, v) <= E.outstanding[v] * Prec
  <2> DEFINE w == [dl \in Delegations |-> TokensFromShares(st, dl)]
             sd == SumFunctionOnSet(Earns(D), A)
             se == SumFunctionOnSet(Earns(E), A)
             sw == SumFunctionOnSet(w, A)
             cm == D.commission[v]
             o == D.outstanding[v]
  <2>1. \A dl \in A : /\ Earns(D)[dl] \in Int /\ Earns(E)[dl] \in Int /\ w[dl] \in Int
                      /\ Earns(E)[dl] <= Earns(D)[dl] + gain * w[dl]
    BY <1>4, <1>5, <1>13
  <2>2. sw <= t * Prec /\ sw \in Int
    <3>1. A \subseteq Delegators \X {v}
      BY <1>4 DEF Delegations
    <3>2. \A dl \in A : w[dl] = TokensFromShares(st, dl)
      BY <1>4
    <3> HIDE DEF w
    <3>3. sw <= t * Prec
      BY <3>1, <3>2, WorthOfAll
    <3>4. sw \in Int
      BY <1>4, <2>1, SumTake
    <3>5. QED
      BY <3>3, <3>4
  <2>3. se <= sd + gain * sw
    <3> HIDE DEF w
    <3>1. QED
      BY <1>4, <2>1, SumScaled
  <2>4. /\ sd \in Int /\ se \in Int /\ (cm + r) * Prec + sd <= o * Prec
        /\ Claims(E, S, v) = (cm + 0) * Prec + se
        /\ cm \in Int /\ r \in Int /\ o \in Int
    BY <1>4, <1>5, <1>6, <1>7
  <2> HIDE DEF w, sd, se, sw, cm, o, r, t
  <2>5. gain * sw <= gain * (t * Prec) /\ gain * sw \in Int
    <3>1. t * Prec \in Int
      BY <1>6, HorizonIs
    <3>2. QED
      BY <1>8, <2>2, <3>1, TimesMono
  <2>6. gain * (t * Prec) <= (r - lost) * Prec
    <3>1. CASE t = 0
      BY <1>8, <2>4, <3>1, HorizonIs
    <3>2. CASE t # 0
      <4>1. gain * t <= r /\ gain * t \in Int /\ lost = 0
        BY <1>6, <1>8, <3>2
      <4>2. (gain * t) * Prec <= r * Prec
        BY <2>4, <4>1, HorizonIs, TimesMono
      <4>3. gain * (t * Prec) = (gain * t) * Prec
        BY <1>6, HorizonIs
      <4>4. r - lost = r
        BY <2>4, <4>1
      <4>5. QED
        BY <4>2, <4>3, <4>4
    <3>3. QED
      BY <3>1, <3>2
  <2>7. /\ (cm + r) * Prec = cm * Prec + r * Prec /\ (cm + 0) * Prec = cm * Prec
        /\ (r - lost) * Prec = r * Prec - lost * Prec
        /\ (o - lost) * Prec = o * Prec - lost * Prec
        /\ cm * Prec \in Int /\ r * Prec \in Int /\ lost * Prec \in Int /\ o * Prec \in Int
        /\ gain * (t * Prec) \in Int
    BY <1>6, <2>4, HorizonIs
  <2>8. (cm + 0) * Prec + se <= (o - lost) * Prec
    BY <2>3, <2>4, <2>5, <2>6, <2>7
  <2>9. QED
    BY <1>6, <2>4, <2>8 DEF o
<1>16. SolventAt(E, st, S, h, v)
  <2>1. \A i \in DOMAIN E.slashes[v] : E.slashes[v][i].height <= h
    BY <1>3, <1>6 DEF SolventAt
  <2>2. \A dl \in S : dl[2] = v => InStep(E, st, dl, h)
    BY <1>13 DEF Claimants
  <2>3. QED
    BY <1>14, <1>15, <2>1, <2>2 DEF SolventAt
<1>17. E.pool >= D.pool /\ E.outstanding[v] <= D.outstanding[v]
  BY <1>4, <1>6, <1>8, <1>9
<1>18. QED
  BY <1>1, <1>16, <1>17 DEF E

\* Closing a period of v leaves the other validators as solvent as they were.
LEMMA IncrementOthers ==
  ASSUME NEW D, NEW S, Ledger(D, S), NEW st, StakingSound(st), NEW v \in Validators,
         NEW h \in Nat, NEW w \in Validators \ {v}, SolventAt(D, st, S, h, w)
  PROVE  SolventAt(IncrementPeriod(D, st, v), st, S, h, w)
<1> DEFINE E == IncrementPeriod(D, st, v)
<1>1. Ledger(E, S) /\ Closed(D, E, v)
  BY IncrementKeeps DEF StakingSound
<1>2. PICK gain, lost \in Int : ClosedBy(D, E, st, v, gain, lost)
  <2>1. st.tokens \in [Validators -> Nat]
    BY DEF StakingSound
  <2>2. QED
    BY <2>1, IncrementIs
<1> HIDE DEF E
<1>3. /\ E.hist[w] = D.hist[w] /\ E.cur[w] = D.cur[w]
      /\ E.outstanding[w] = D.outstanding[w] /\ E.commission[w] = D.commission[w]
      /\ E.start = D.start /\ E.slashes[w] = D.slashes[w]
  BY <1>1, <1>2 DEF Closed, ClosedBy
<1>4. \A dl \in Claimants(S, w) : TokensFromShares(st, dl) <= TokensFromShares(st, dl)
  <2>1. \A dl \in Claimants(S, w) : TokensFromShares(st, dl) \in Nat
    BY StakeOf DEF Ledger, Claimants
  <2>2. QED
    BY <2>1
<1>5. SolventAt(E, st, S, h, w)
  BY <1>1, <1>3, <1>4, OthersSolvent
<1>6. QED
  BY <1>5 DEF E

\* Closing a period keeps every validator solvent.
LEMMA IncrementSolvent ==
  ASSUME NEW D, NEW S, Ledger(D, S), NEW st, StakingSound(st), NEW v \in Validators,
         NEW h \in Nat, Solvent(D, st, S, h)
  PROVE  LET E == IncrementPeriod(D, st, v) IN
         /\ Ledger(E, S) /\ Closed(D, E, v) /\ Solvent(E, st, S, h)
         /\ E.pool >= D.pool /\ E.outstanding[v] <= D.outstanding[v]
<1> DEFINE E == IncrementPeriod(D, st, v)
<1>1. \A w \in Validators : SolventAt(D, st, S, h, w)
  BY DEF Solvent
<1>2. /\ Ledger(E, S) /\ Closed(D, E, v) /\ SolventAt(E, st, S, h, v)
      /\ E.pool >= D.pool /\ E.outstanding[v] <= D.outstanding[v]
  BY <1>1, IncrementSolventAt
<1>3. \A w \in Validators \ {v} : SolventAt(E, st, S, h, w)
  BY <1>1, IncrementOthers
<1> HIDE DEF E
<1>4. Solvent(E, st, S, h)
  BY <1>2, <1>3 DEF Solvent
<1>5. QED
  BY <1>2, <1>4 DEF E

\* It is enough that time passes and delegations are worth more.
LEMMA LaterSolvent ==
  ASSUME NEW D, NEW S, Ledger(D, S), NEW st, StakingSound(st), NEW su, StakingSound(su),
         NEW h \in Nat, NEW k \in Nat, h <= k, Solvent(D, st, S, h),
         \A dl \in S : TokensFromShares(st, dl) <= TokensFromShares(su, dl)
  PROVE  Solvent(D, su, S, k)
<1> SUFFICES ASSUME NEW w \in Validators PROVE SolventAt(D, su, S, k, w)
  BY DEF Solvent
<1>1. SolventAt(D, st, S, h, w)
  BY DEF Solvent
<1>2. \A dl \in Claimants(S, w) : TokensFromShares(st, dl) <= TokensFromShares(su, dl)
  BY DEF Claimants
<1>3. QED
  BY <1>1, <1>2, OthersSolvent

---------------------------------------------------------------------------
(* Starting a delegation.                                                  *)

\* The rewards calculated for a delegation start from nothing.
LEMMA NothingEarned ==
  ASSUME NEW D, NEW S, Ledger(D, S), NEW st, StakingSound(st), NEW dl \in S,
         NEW k \in Nat, NEW h \in Nat, k <= h,
         D.start[dl] = [prev |-> D.cur[dl[2]].period - 1,
                        stake |-> TokensFromShares(st, dl), height |-> k]
  PROVE  InStep(D, st, dl, h) /\ Earned(D, dl) = 0
<1> DEFINE v == dl[2]
           last == AfterSlashes(D, dl, Horizon)
           n == D.cur[v].period - 1
           w == TokensFromShares(st, dl)
<1>1. /\ Tracked(D, dl) /\ D.start[dl].prev = n /\ n \in Nat /\ dl \in Delegations
      /\ \A i \in DOMAIN D.slashes[v] :
           D.slashes[v][i].period <= n /\ D.slashes[v][i] \in SlashEvent
  BY TrackedIn
<1>2. D.start[dl].stake = w /\ D.start[dl].height = k /\ w \in Nat
  BY <1>1, StakeOf
<1>3. last = [from |-> n, stake |-> w, rewards |-> 0]
  BY <1>1, <1>2, HorizonIs, NoSlash
<1>4. /\ Earned(D, dl) = last.rewards * Prec
                         + (D.hist[v][n].ratio - D.hist[v][last.from].ratio) * last.stake
      /\ D.hist[v][n].ratio \in Int
  BY EarnedIs
<1> DEFINE r == D.hist[v][n].ratio
<1>5. last.from = n /\ last.stake = w /\ last.rewards = 0
  BY <1>3
<1>6. Earned(D, dl) = 0 * Prec + (r - r) * w /\ r \in Int
  BY <1>4, <1>5
<1> HIDE DEF r, last
<1>7. Earned(D, dl) = 0
  <2> HIDE DEF w
  <2> QED
    BY <1>2, <1>6, HorizonIs
<1>8. \A i \in DOMAIN D.slashes[v] : ~(D.slashes[v][i].period > n)
  BY <1>1 DEF SlashEvent
<1>9. InStep(D, st, dl, h)
  BY <1>1, <1>2, <1>5, <1>8 DEF InStep, last
<1>10. QED
  BY <1>7, <1>9

\* A delegation that starts at context height k keeps its validator solvent.
LEMMA InitializeSolventAt ==
  ASSUME NEW D, NEW S, Ledger(D, S), NEW dl \in Delegations, dl \notin S,
         NEW st, StakingSound(st), NEW k \in Nat, NEW h \in Nat, k <= h,
         SolventAt(D, st, S, h, dl[2])
  PROVE  LET E == InitializeDelegation(D, st, dl, k) IN
         /\ Ledger(E, S \cup {dl}) /\ SolventAt(E, st, S \cup {dl}, h, dl[2])
         /\ E.pool = D.pool /\ E.outstanding = D.outstanding
         /\ E.commission = D.commission
<1> DEFINE E == InitializeDelegation(D, st, dl, k)
           v == dl[2]
           n == D.cur[v].period - 1
           T == S \cup {dl}
<1>1. v \in Validators /\ TokensFromShares(st, dl) \in Nat
  BY StakeOf
<1>2. Ledger(E, T) /\ Started(D, E, st, dl, k)
  BY <1>1, InitializeKeeps
<1>3. DistTyped(D) /\ DistTyped(E) /\ S \subseteq Delegations
  BY <1>2 DEF Ledger
<1>4. E.hist = [D.hist EXCEPT ![v] = IncRef(@, n)]
  BY <1>3 DEF InitializeDelegation, DistTyped, GenesisDistribution
<1> HIDE DEF E
<1>5. /\ E.hist[v] = IncRef(D.hist[v], n) /\ Records(D.hist[v])
      /\ \A w \in Validators \ {v} : E.hist[w] = D.hist[w]
  BY <1>1, <1>3, <1>4 DEF DistTyped, Records
<1>6. RatiosKept(D, E, v) /\ DOMAIN E.hist[v] \subseteq DOMAIN D.hist[v]
  <2>1. /\ DOMAIN E.hist[v] = DOMAIN D.hist[v]
        /\ \A q \in DOMAIN D.hist[v] : E.hist[v][q].ratio = D.hist[v][q].ratio
    BY <1>5, IncRefRatio
  <2>2. QED
    BY <2>1 DEF RatiosKept
<1>7. /\ E.slashes = D.slashes /\ E.cur = D.cur /\ E.outstanding = D.outstanding
      /\ E.commission = D.commission /\ E.pool = D.pool
      /\ E.start[dl] = [prev |-> n, stake |-> TokensFromShares(st, dl), height |-> k]
      /\ \A x \in S : E.start[x] = D.start[x]
  BY <1>2, <1>3 DEF Started
<1>8. \A x \in S : TokensFromShares(st, x) <= TokensFromShares(st, x)
  <2>1. \A x \in S : TokensFromShares(st, x) \in Nat
    BY <1>3, StakeOf
  <2>2. QED
    BY <2>1
<1>9. SolventAt(D, st, S, h, v)
  OBVIOUS
<1>10. SolventAt(E, st, S, h, v)
  <2> DEFINE x == D.commission[v] + D.cur[v].rewards
  <2>1. x \in Int /\ D.outstanding[v] \in Int /\ Claims(D, S, v) \in Int
    <3>1. ASSUME NEW y \in Validators
          PROVE  /\ D.commission[y] \in Int /\ D.cur[y].rewards \in Int
                 /\ D.outstanding[y] \in Int /\ Claims(D, S, y) \in Int
      BY ClaimsType
    <3>2. QED
      BY <1>1, <3>1
  <2>2. Claims(D, S, v) <= D.outstanding[v] * Prec /\ RecordsSound(D, v)
    BY <1>9 DEF SolventAt
  <2>3. Claims(D, S, v) + (x - x) * Prec <= D.outstanding[v] * Prec
    <3> HIDE DEF x
    <3>1. (x - x) * Prec = 0
      BY <2>1, HorizonIs
    <3>2. QED
      BY <2>1, <2>2, <3>1
  <2>4. Claims(D, S, v) + ((E.commission[v] + E.cur[v].rewards)
                           - (D.commission[v] + D.cur[v].rewards)) * Prec
          <= E.outstanding[v] * Prec
    BY <1>7, <2>3
  <2>5. E.commission[v] >= 0 /\ E.cur[v].rewards >= 0 /\ E.outstanding[v] >= 0
    BY <1>7, <2>2 DEF RecordsSound
  <2>6. /\ \A i \in DOMAIN D.slashes[v] : D.slashes[v][i].height <= h
        /\ \A y \in S : y[2] = v => InStep(D, st, y, h)
    BY <1>9 DEF SolventAt
  <2>7. \A y \in S : y[2] = v =>
          E.start[y] = D.start[y] /\ TokensFromShares(st, y) <= TokensFromShares(st, y)
    BY <1>7, <1>8
  <2>8. /\ E.slashes[v] = D.slashes[v] /\ E.cur[v].period = D.cur[v].period
        /\ S \subseteq T /\ h <= h
    BY <1>7
  <2> HIDE DEF T
  <2>9. QED
    BY <1>1, <1>2, <1>6, <2>2, <2>4, <2>5, <2>6, <2>7, <2>8, StaysSolvent
<1>11. InStep(E, st, dl, h) /\ Earned(E, dl) = 0
  <2>1. E.start[dl] = [prev |-> E.cur[dl[2]].period - 1,
                       stake |-> TokensFromShares(st, dl), height |-> k]
    BY <1>7
  <2>2. dl \in T
    OBVIOUS
  <2> HIDE DEF T
  <2>3. QED
    BY <1>2, <2>1, <2>2, NothingEarned
<1>12. Claims(E, T, v) = Claims(E, S, v)
  <2> DEFINE A == Claimants(S, v)
             a == (E.commission[v] + E.cur[v].rewards) * Prec
  <2>1. S \subseteq T /\ T \subseteq T /\ Claimants(T, v) = A \cup {dl} /\ dl \notin A
    BY DEF Claimants
  <2> HIDE DEF T
  <2>2. /\ IsFiniteSet(A) /\ \A x \in A : Earns(E)[x] \in Int
        /\ Claims(E, S, v) = a + SumFunctionOnSet(Earns(E), A)
        /\ SumFunctionOnSet(Earns(E), A) \in Int
    BY <1>1, <1>2, <2>1, ClaimsType
  <2>3. Claims(E, T, v) = a + SumFunctionOnSet(Earns(E), A \cup {dl})
    <3>1. Claims(E, T, v) = a + SumFunctionOnSet(Earns(E), Claimants(T, v))
      BY DEF Claims, Earns, Claimants
    <3>2. QED
      BY <2>1, <3>1
  <2>4. Earns(E)[dl] = 0
    BY <1>11 DEF Earns
  <2> HIDE DEF A, a
  <2>5. SumFunctionOnSet(Earns(E), A \cup {dl}) = SumFunctionOnSet(Earns(E), A) + 0
    BY <2>1, <2>2, <2>4, SumAdd
  <2>6. QED
    BY <2>2, <2>3, <2>5
<1>13. SolventAt(E, st, T, h, v)
  <2>1. /\ RecordsSound(E, v) /\ \A i \in DOMAIN E.slashes[v] : E.slashes[v][i].height <= h
        /\ \A x \in S : x[2] = v => InStep(E, st, x, h)
        /\ Claims(E, S, v) <= E.outstanding[v] * Prec
    BY <1>10 DEF SolventAt
  <2>2. \A x \in T : x[2] = v => InStep(E, st, x, h)
    BY <1>11, <2>1
  <2> HIDE DEF T
  <2>3. QED
    BY <1>12, <2>1, <2>2 DEF SolventAt
<1>14. QED
  BY <1>2, <1>7, <1>13 DEF E

\* It leaves the other validators as solvent as they were.
LEMMA InitializeOthers ==
  ASSUME NEW D, NEW S, Ledger(D, S), NEW dl \in Delegations, dl \notin S,
         NEW st, StakingSound(st), NEW k \in Nat, NEW h \in Nat,
         NEW w \in Validators \ {dl[2]}, SolventAt(D, st, S, h, w)
  PROVE  SolventAt(InitializeDelegation(D, st, dl, k), st, S \cup {dl}, h, w)
<1> DEFINE E == InitializeDelegation(D, st, dl, k)
           v == dl[2]
           n == D.cur[v].period - 1
           T == S \cup {dl}
<1>1. v \in Validators /\ TokensFromShares(st, dl) \in Nat
  BY StakeOf
<1>2. Ledger(E, T) /\ Started(D, E, st, dl, k)
  BY <1>1, InitializeKeeps
<1>3. DistTyped(D) /\ S \subseteq Delegations
  BY <1>2 DEF Ledger
<1>4. E.hist = [D.hist EXCEPT ![v] = IncRef(@, n)]
  BY <1>3 DEF InitializeDelegation, DistTyped, GenesisDistribution
<1> HIDE DEF E
<1>5. /\ E.hist[w] = D.hist[w] /\ E.slashes = D.slashes /\ E.cur = D.cur
      /\ E.outstanding = D.outstanding /\ E.commission = D.commission
      /\ \A x \in S : E.start[x] = D.start[x]
  BY <1>1, <1>2, <1>3, <1>4 DEF Started, DistTyped
<1>6. Claimants(T, w) = Claimants(S, w)
  BY DEF Claimants
<1>7. \A x \in Claimants(S, w) :
        E.start[x] = D.start[x] /\ TokensFromShares(st, x) <= TokensFromShares(st, x)
  <2>1. \A x \in S : TokensFromShares(st, x) \in Nat
    BY <1>3, StakeOf
  <2>2. QED
    BY <1>5, <2>1 DEF Claimants
<1> HIDE DEF T
<1>8. SolventAt(E, st, T, h, w)
  BY <1>2, <1>5, <1>6, <1>7, OthersSolvent
<1>9. QED
  BY <1>8 DEF E, T

\* A delegation that starts at context height k keeps every validator solvent.
LEMMA InitializeSolvent ==
  ASSUME NEW D, NEW S, Ledger(D, S), NEW dl \in Delegations, dl \notin S,
         NEW st, StakingSound(st), NEW k \in Nat, NEW h \in Nat, k <= h,
         Solvent(D, st, S, h)
  PROVE  LET E == InitializeDelegation(D, st, dl, k) IN
         /\ Ledger(E, S \cup {dl}) /\ Solvent(E, st, S \cup {dl}, h)
         /\ E.pool = D.pool /\ E.outstanding = D.outstanding
         /\ E.commission = D.commission
<1> DEFINE E == InitializeDelegation(D, st, dl, k)
           T == S \cup {dl}
<1>1. dl[2] \in Validators /\ \A w \in Validators : SolventAt(D, st, S, h, w)
  BY DEF Solvent, Delegations
<1>2. /\ Ledger(E, T) /\ SolventAt(E, st, T, h, dl[2])
      /\ E.pool = D.pool /\ E.outstanding = D.outstanding
      /\ E.commission = D.commission
  BY <1>1, InitializeSolventAt
<1>3. \A w \in Validators \ {dl[2]} : SolventAt(E, st, T, h, w)
  BY <1>1, InitializeOthers
<1> HIDE DEF E, T
<1>4. Solvent(E, st, T, h)
  BY <1>2, <1>3 DEF Solvent
<1>5. QED
  BY <1>2, <1>4 DEF E, T

---------------------------------------------------------------------------
(* Paying a delegation.                                                    *)

\* At a height all starts and slashes are within, every slash since the start
\* of a delegation is visited: the calculation is the one of what is earned.
LEMMA AllVisited ==
  ASSUME NEW D, NEW S, Ledger(D, S), NEW st, NEW dl \in S, NEW h \in Nat, h <= Horizon,
         InStep(D, st, dl, h), D.start[dl].height # h,
         \A i \in DOMAIN D.slashes[dl[2]] : D.slashes[dl[2]][i].height <= h
  PROVE  AfterSlashes(D, dl, h) = AfterSlashes(D, dl, Horizon)
<1> DEFINE s == D.start[dl]
           sl == D.slashes[dl[2]]
<1>1. /\ Tracked(D, dl) /\ \A i \in DOMAIN sl : sl[i] \in SlashEvent
      /\ dl \in Delegations
  BY TrackedIn
<1>2. s \in [prev : Nat, stake : Int, height : Nat]
  BY <1>1 DEF Tracked
<1>3. s.height <= h /\ \A i \in DOMAIN sl : sl[i].period > s.prev => sl[i].height >= s.height
  BY DEF InStep
<1>4. s.height \in Nat /\ s.height < h /\ s.height < Horizon
  BY <1>2, <1>3, HorizonIs
<1>5. ASSUME NEW i \in DOMAIN sl, sl[i].period > s.prev
      PROVE  Counts(s, sl[i], h) /\ Counts(s, sl[i], Horizon)
  <2>1. sl[i].height \in Nat /\ sl[i].height <= h /\ sl[i].height >= s.height
    BY <1>1, <1>3, <1>5 DEF SlashEvent
  <2>2. sl[i].height <= Horizon
    BY <2>1, HorizonIs
  <2>3. QED
    BY <1>4, <2>1, <2>2 DEF Counts
<1>6. SameCount(D, dl, Horizon, h)
  BY <1>5 DEF SameCount
<1>7. Extends(D, D, dl)
  BY <1>1, ExtendsSelf
<1>8. QED
  BY <1>1, <1>6, <1>7, HorizonIs, SameAccrual

\* The calculated rewards of a delegation to a solvent validator are sane, and
\* they are what it has earned, rounded down.
LEMMA PendingCoveredAt ==
  ASSUME NEW D, NEW S, Ledger(D, S), NEW st, StakingSound(st), NEW dl \in S,
         NEW h \in Nat, h <= Horizon, SolventAt(D, st, S, h, dl[2])
  PROVE  LET P == Pending(D, st, dl, h)
             G == IncrementPeriod(D, st, dl[2])
         IN /\ P.sane /\ P.rewards \in Int /\ P.rewards >= 0
            /\ P.rewards * Prec <= Earned(G, dl) /\ Earned(G, dl) \in Nat
<1> DEFINE v == dl[2]
           G == IncrementPeriod(D, st, v)
           P == Pending(D, st, dl, h)
           last == AfterSlashes(G, dl, Horizon)
           w == TokensFromShares(st, dl)
           n == D.cur[v].period
           now == G.hist[v][n].ratio
           then == G.hist[v][last.from].ratio
<1>1. dl \in Delegations /\ v \in Validators /\ w \in Nat
  BY StakeOf DEF Ledger
<1>2. Ledger(G, S) /\ Closed(D, G, v)
  BY <1>1, IncrementSolventAt
<1>3. SolventAt(G, st, S, h, v)
  BY <1>1, IncrementSolventAt
<1>4. P = DelegationRewards(G, st, dl, n, h)
  BY DEF Pending
<1>5. n \in Nat /\ G.cur[v].period - 1 = n
  <2>1. n \in Nat
    BY <1>1 DEF Ledger, DistTyped
  <2>2. G.cur[v].period = n + 1
    BY <1>2 DEF Closed
  <2> HIDE DEF G
  <2>3. QED
    BY <2>1, <2>2
<1> HIDE DEF G, P
<1>6. /\ RecordsSound(G, v) /\ InStep(G, st, dl, h)
      /\ \A i \in DOMAIN G.slashes[v] : G.slashes[v][i].height <= h
  BY <1>3 DEF SolventAt
<1>7. last.rewards >= 0 /\ 0 <= last.stake /\ last.stake <= w
  BY <1>6 DEF InStep
<1>8. /\ Earned(G, dl) = last.rewards * Prec + (now - then) * last.stake
      /\ Earned(G, dl) \in Int /\ last.rewards \in Int /\ last.stake \in Int
      /\ now \in Int /\ then \in Int /\ Earned(G, dl) >= 0 /\ now - then >= 0
  <2>1. \A k : k = G.cur[v].period - 1 => G.hist[v][k].ratio = now
    BY <1>5
  <2>2. last.stake >= 0
    BY <1>2, <1>7, EarnedIs
  <2>3. QED
    BY <1>2, <1>5, <1>6, <1>7, <2>2, EarnedIs
<1>9. CASE G.start[dl].height = h
  <2>1. P = [sane |-> TRUE, rewards |-> 0]
    BY <1>4, <1>9 DEF DelegationRewards
  <2>2. P.sane /\ P.rewards = 0
    BY <2>1
  <2> DEFINE x == P.rewards
             e == Earned(G, dl)
  <2>3. x = 0 /\ e \in Int /\ e >= 0
    BY <1>8, <2>2
  <2>4. x \in Int /\ x >= 0 /\ x * Prec <= e /\ e \in Nat
    <3> HIDE DEF x, e
    <3>1. QED
      BY <2>3, HorizonIs
  <2>5. QED
    BY <2>2, <2>4 DEF P, G
<1>10. CASE G.start[dl].height # h
  <2>1. AfterSlashes(G, dl, h) = last
    BY <1>2, <1>6, <1>10, AllVisited
  <2> DEFINE r == last.rewards
             d == now - then
             k == last.stake
             a == d * k
             q == a \div Prec
             e == Earned(G, dl)
  <2>2. r \in Int /\ r >= 0 /\ d \in Nat /\ k \in Nat /\ k <= w
    <3> HIDE DEF last, w
    <3>1. r \in Int /\ r >= 0 /\ k \in Int /\ 0 <= k /\ k <= w
      BY <1>7, <1>8
    <3>2. now \in Int /\ then \in Int /\ now - then >= 0
      BY <1>8
    <3> HIDE DEF now, then
    <3>3. d \in Nat
      BY <3>2
    <3>4. QED
      BY <3>1, <3>3
  <2>3. e = r * Prec + a /\ e \in Int /\ e >= 0
    BY <1>8
  <2>4. P = [sane |-> k <= w + 3,
             rewards |-> r + Between(G.hist[v], last.from, n, Least(k, w))]
    BY <1>4, <1>10, <2>1 DEF DelegationRewards
  <2>5. Between(G.hist[v], last.from, n, k) = q
    BY DEF Between
  <2>6. w \in Nat
    BY <1>1
  <2> HIDE DEF last, w, r, d, k, a, q, e
  <2>7. Least(k, w) = k /\ k <= w + 3
    BY <2>2, <2>6 DEF Least
  <2>8. P.sane /\ P.rewards = r + q
    <3>1. P = [sane |-> k <= w + 3, rewards |-> r + q]
      BY <2>4, <2>5, <2>7
    <3>2. P.sane = (k <= w + 3)
      BY <3>1
    <3>3. P.rewards = r + q
      BY <3>1
    <3>4. QED
      BY <2>7, <3>2, <3>3
  <2>9. a \in Nat
    BY <2>2 DEF a
  <2>10. q \in Nat /\ q * Prec <= a
    BY <2>9, HorizonIs, Quotient DEF q
  <2>11. (r + q) * Prec = r * Prec + q * Prec /\ r * Prec \in Int /\ q * Prec \in Int
    BY <2>2, <2>10, HorizonIs
  <2> DEFINE x == P.rewards
  <2>12. x * Prec <= e /\ x \in Int /\ x >= 0 /\ e \in Nat
    <3>1. x = r + q
      BY <2>8
    <3> HIDE DEF x
    <3>2. QED
      BY <2>2, <2>3, <2>9, <2>10, <2>11, <3>1
  <2>13. QED
    BY <2>8, <2>12 DEF P, G, e
<1>11. QED
  BY <1>9, <1>10

\* So they are in a solvent state.
LEMMA PendingCovered ==
  ASSUME NEW D, NEW S, Ledger(D, S), NEW st, StakingSound(st), NEW dl \in S,
         NEW h \in Nat, h <= Horizon, Solvent(D, st, S, h)
  PROVE  LET P == Pending(D, st, dl, h)
             G == IncrementPeriod(D, st, dl[2])
         IN /\ P.sane /\ P.rewards \in Int /\ P.rewards >= 0
            /\ P.rewards * Prec <= Earned(G, dl) /\ Earned(G, dl) \in Nat
<1>1. SolventAt(D, st, S, h, dl[2])
  BY DEF Solvent, Ledger, Delegations
<1>2. QED
  BY <1>1, PendingCoveredAt

\* A balance after rewards were paid in whole coins.
LessCoins(balance, r) == balance - (r \div Prec)

\* What a payment at context height k leaves covers the others: if no more is
\* calculated than was earned, it is paid in full.
LEMMA PaySolventAt ==
  ASSUME NEW D, NEW S, Ledger(D, S), NEW st, StakingSound(st), NEW dl \in S,
         NEW h \in Nat, NEW k \in Nat, SolventAt(D, st, S, h, dl[2]),
         Pending(D, st, dl, k).rewards \in Nat,
         Earned(IncrementPeriod(D, st, dl[2]), dl) \in Nat,
         Pending(D, st, dl, k).rewards * Prec <= Earned(IncrementPeriod(D, st, dl[2]), dl)
  PROVE  LET E == PayRewards(D, st, dl, k) IN
         /\ Ledger(E, S \ {dl}) /\ SolventAt(E, st, S \ {dl}, h, dl[2])
         /\ E.pool >= D.pool
         /\ E.balance = LessCoins(D.balance, Pending(D, st, dl, k).rewards)
<1> DEFINE v == dl[2]
           G == IncrementPeriod(D, st, v)
           E == PayRewards(D, st, dl, k)
           P == Pending(D, st, dl, k)
           raw == Least(P.rewards, G.outstanding[v])
           coins == raw \div Prec
           T == S \ {dl}
           p == D.start[dl].prev
<1>1. dl \in Delegations /\ v \in Validators /\ S \subseteq Delegations
      /\ st.tokens \in [Validators -> Nat]
      /\ \A x \in S : TokensFromShares(st, x) \in Nat
  BY StakeOf DEF Ledger, StakingSound
<1>2. /\ Ledger(G, S) /\ Closed(D, G, v) /\ SolventAt(G, st, S, h, v)
      /\ G.pool >= D.pool /\ G.balance = D.balance
  <2>1. Ledger(G, S) /\ Closed(D, G, v) /\ SolventAt(G, st, S, h, v) /\ G.pool >= D.pool
    BY <1>1, IncrementSolventAt
  <2>2. QED
    BY <2>1 DEF Closed
<1>3. Ledger(E, T) /\ Settles(D, E, dl)
  BY <1>1, PayKeeps
<1>4. P.rewards \in Int /\ P.rewards >= 0 /\ P.rewards * Prec <= Earned(G, dl)
      /\ Earned(G, dl) \in Nat
  OBVIOUS
<1>5. /\ DOMAIN G = DOMAIN GenesisDistribution /\ G.outstanding \in [Validators -> Int]
      /\ G.pool \in Int /\ D.pool \in Int /\ DOMAIN G.hist = Validators
      /\ Records(G.hist[v])
  BY <1>1, <1>2 DEF Ledger, DistTyped, Records
<1>6. /\ E.hist = [G.hist EXCEPT ![v] = DecRef(@, p)]
      /\ E.outstanding = [G.outstanding EXCEPT ![v] = @ - raw]
      /\ E.pool = G.pool + (raw - coins * Prec)
      /\ E.cur = G.cur /\ E.commission = G.commission
      /\ E.balance = G.balance - coins
  <2> HIDE DEF G, raw, coins
  <2>1. E = [G EXCEPT
               !.outstanding[v] = @ - raw,
               !.pool = @ + (raw - coins * Prec),
               !.balance = @ - coins,
               !.hist[v] = DecRef(@, D.start[dl].prev),
               !.start[dl] = NoStart]
    BY DEF PayRewards, G, raw, coins
  <2>2. QED
    BY <1>5, <2>1 DEF GenesisDistribution
<1>7. /\ E.slashes = G.slashes /\ \A x \in T : E.start[x] = G.start[x]
      /\ G.start[dl] = D.start[dl]
  BY <1>1, <1>2, <1>3 DEF Settles, Closed
<1> HIDE DEF G, E, P, raw
<1> DEFINE g == G.outstanding[v]
           c == SumFunctionOnSet(Earns(G), Claimants(S, v))
           d == SumFunctionOnSet(Earns(G), Claimants(T, v))
           a == G.commission[v] + G.cur[v].rewards
<1>8. SolventAt(G, st, S, h, v)
  BY <1>2
<1>9. /\ RecordsSound(G, v) /\ a * Prec + c <= g * Prec
      /\ G.commission[v] >= 0 /\ G.cur[v].rewards >= 0 /\ g >= 0
  <2>1. Claims(G, S, v) = a * Prec + c
    BY DEF Claims, Claimants, Earns
  <2>2. QED
    BY <1>8, <2>1 DEF SolventAt, RecordsSound
<1>10. a \in Int /\ a >= 0 /\ g \in Int
  <2>1. ASSUME NEW w \in Validators PROVE G.commission[w] \in Int /\ G.cur[w].rewards \in Int
    BY <1>2, ClaimsType
  <2>2. G.commission[v] \in Int /\ G.cur[v].rewards \in Int
    BY <1>1, <2>1
  <2>3. QED
    BY <1>1, <1>5, <1>9, <2>2
<1>11. c = d + Earned(G, dl) /\ d \in Nat
  <2> DEFINE A == Claimants(S, v)
  <2>1. ASSUME NEW x \in A PROVE Earns(G)[x] \in Nat /\ Earns(G)[x] = Earned(G, x)
    <3>1. x \in S /\ x[2] = v /\ x \in Delegations
      BY <1>1 DEF Claimants
    <3>2. InStep(G, st, x, h) /\ RecordsSound(G, x[2])
      BY <1>8, <1>9, <3>1 DEF SolventAt
    <3>3. Earned(G, x) \in Int /\ Earned(G, x) >= 0
      BY <1>2, <3>1, <3>2, EarnedIs DEF InStep
    <3>4. QED
      BY <3>1, <3>3 DEF Earns
  <2>2. IsFiniteSet(A) /\ dl \in A /\ A \ {dl} = Claimants(T, v) /\ IsFiniteSet(A \ {dl})
    <3>1. A \subseteq Delegations /\ A \ {dl} \subseteq Delegations
      BY <1>1 DEF Claimants
    <3> HIDE DEF A
    <3>2. IsFiniteSet(A) /\ IsFiniteSet(A \ {dl})
      BY <3>1, FiniteDelegations
    <3>3. QED
      BY <3>2 DEF A, Claimants
  <2> HIDE DEF A
  <2>3. \A x \in A : Earns(G)[x] \in Int
    BY <2>1
  <2>4. SumFunctionOnSet(Earns(G), A) = Earns(G)[dl] + SumFunctionOnSet(Earns(G), A \ {dl})
    BY <2>2, <2>3, SumTake
  <2>5. SumFunctionOnSet(Earns(G), A \ {dl}) \in Nat
    <3>1. \A x \in A \ {dl} : Earns(G)[x] \in Nat
      BY <2>1
    <3>2. QED
      BY <2>2, <3>1, SumNat
  <2>6. Earns(G)[dl] = Earned(G, dl)
    BY <2>1, <2>2
  <2>7. c = Earned(G, dl) + d
    BY <2>2, <2>4, <2>6 DEF A
  <2>8. d \in Nat
    BY <2>2, <2>5
  <2> HIDE DEF c, d
  <2>9. QED
    BY <1>4, <2>7, <2>8
<1> DEFINE r == P.rewards
           e == Earned(G, dl)
<1>12. /\ a * Prec \in Nat /\ r \in Nat /\ e \in Nat /\ r * Prec <= e
       /\ a * Prec + (d + e) <= g * Prec /\ g * Prec \in Int
  <2>1. a * Prec + c <= g * Prec /\ c = d + e /\ r \in Nat /\ e \in Nat /\ r * Prec <= e
    BY <1>4, <1>9, <1>11
  <2> HIDE DEF a, c, d, g, r, e
  <2>2. a * Prec \in Nat /\ g * Prec \in Int
    BY <1>10, HorizonIs
  <2>3. QED
    BY <2>1, <2>2
<1>13. d \in Nat /\ a \in Nat /\ g \in Int
  BY <1>10, <1>11
<1>14. raw = r
  <2>1. raw = Least(r, g)
    BY DEF raw
  <2> HIDE DEF a, c, d, g, r, e
  <2>2. r * Prec <= g * Prec
    <3>1. r * Prec \in Int
      BY <1>12, HorizonIs
    <3>2. QED
      BY <1>12, <1>13, <3>1
  <2>3. Prec * r <= Prec * g
    BY <1>12, <1>13, <2>2, HorizonIs
  <2>4. r <= g
    BY <1>12, <1>13, <2>3, HorizonIs, TimesLess
  <2>5. QED
    BY <1>12, <1>13, <2>1, <2>4 DEF Least
<1>15. /\ E.outstanding[v] = g - r /\ g - r >= 0 /\ E.pool >= D.pool
       /\ a * Prec + d <= (g - r) * Prec
  <2>1. E.outstanding[v] = g - raw /\ E.pool = G.pool + (raw - coins * Prec)
    BY <1>1, <1>5, <1>6
  <2> HIDE DEF a, c, d, g, r, e
  <2>2. coins \in Int /\ coins * Prec <= raw
    BY <1>12, <1>14, HorizonIs, Quotient
  <2> HIDE DEF coins
  <2>3. coins * Prec \in Int
    BY <2>2, HorizonIs
  <2>4. E.pool >= D.pool
    BY <1>2, <1>5, <1>12, <1>14, <2>1, <2>2, <2>3
  <2>5. (g - r) * Prec = g * Prec - r * Prec /\ r * Prec \in Int
    BY <1>12, <1>13, HorizonIs
  <2>6. a * Prec + d <= (g - r) * Prec
    BY <1>12, <1>13, <2>5
  <2>7. Prec * 0 <= Prec * (g - r)
    BY <1>12, <1>13, <2>6, HorizonIs
  <2>8. 0 <= g - r
    BY <1>12, <1>13, <2>7, HorizonIs, TimesLess
  <2>9. QED
    BY <1>14, <2>1, <2>4, <2>6, <2>8
<1>16. \A x \in T : TokensFromShares(st, x) <= TokensFromShares(st, x)
  <2>1. \A x \in T : TokensFromShares(st, x) \in Nat
    BY <1>1
  <2>2. QED
    BY <2>1
<1>17. /\ RatiosKept(G, E, v) /\ DOMAIN E.hist[v] \subseteq DOMAIN G.hist[v]
       /\ \A w \in Validators \ {v} : E.hist[w] = G.hist[w]
  <2>1. E.hist[v] = DecRef(G.hist[v], p) /\ \A w \in Validators \ {v} : E.hist[w] = G.hist[w]
    BY <1>1, <1>5, <1>6
  <2>2. p \in DOMAIN G.hist[v]
    <3>1. G.start[dl].prev \in DOMAIN G.hist[dl[2]]
      BY <1>1, <1>2, ReferencesType
    <3>2. QED
      BY <1>7, <3>1
  <2>3. /\ DOMAIN E.hist[v] \subseteq DOMAIN G.hist[v]
        /\ \A q \in DOMAIN E.hist[v] : E.hist[v][q].ratio = G.hist[v][q].ratio
    BY <1>5, <2>1, <2>2, DecRefRatio
  <2>4. QED
    BY <2>1, <2>3 DEF RatiosKept
<1>18. SolventAt(E, st, T, h, v)
  <2>1. Claims(G, T, v) + ((E.commission[v] + E.cur[v].rewards)
                           - (G.commission[v] + G.cur[v].rewards)) * Prec
          <= E.outstanding[v] * Prec
    <3>1. Claims(G, T, v) = a * Prec + d
      BY DEF Claims, Claimants, Earns
    <3>2. E.commission[v] + E.cur[v].rewards = a
      BY <1>6
    <3> HIDE DEF a, d, g, r
    <3>3. (a - a) * Prec = 0 /\ a * Prec + d \in Int
      BY <1>12, <1>13, HorizonIs
    <3>4. QED
      BY <1>15, <3>1, <3>2, <3>3 DEF a
  <2>2. E.commission[v] >= 0 /\ E.cur[v].rewards >= 0 /\ E.outstanding[v] >= 0
    BY <1>6, <1>9, <1>15
  <2>3. /\ \A i \in DOMAIN G.slashes[v] : G.slashes[v][i].height <= h
        /\ \A y \in T : y[2] = v => InStep(G, st, y, h)
    BY <1>8 DEF SolventAt
  <2>4. \A y \in T : y[2] = v =>
          E.start[y] = G.start[y] /\ TokensFromShares(st, y) <= TokensFromShares(st, y)
    BY <1>7, <1>16
  <2>5. /\ E.slashes[v] = G.slashes[v] /\ E.cur[v].period = G.cur[v].period
        /\ T \subseteq S /\ T \subseteq T /\ h <= h
    BY <1>6, <1>7
  <2> HIDE DEF T
  <2>6. QED
    BY <1>1, <1>2, <1>3, <1>9, <1>17, <2>1, <2>2, <2>3, <2>4, <2>5, StaysSolvent
<1>19. E.balance = LessCoins(D.balance, r)
  BY <1>2, <1>6, <1>14 DEF LessCoins
<1>20. QED
  BY <1>3, <1>15, <1>18, <1>19 DEF E, P

\* A payment at any context height leaves the other validators as solvent as
\* they were.
LEMMA PayOthers ==
  ASSUME NEW D, NEW S, Ledger(D, S), NEW st, StakingSound(st), NEW dl \in S,
         NEW h \in Nat, NEW k \in Nat,
         NEW w \in Validators \ {dl[2]}, SolventAt(D, st, S, h, w)
  PROVE  SolventAt(PayRewards(D, st, dl, k), st, S \ {dl}, h, w)
<1> DEFINE v == dl[2]
           G == IncrementPeriod(D, st, v)
           E == PayRewards(D, st, dl, k)
           raw == Least(Pending(D, st, dl, k).rewards, G.outstanding[v])
           coins == raw \div Prec
           T == S \ {dl}
<1>1. dl \in Delegations /\ v \in Validators /\ S \subseteq Delegations
      /\ st.tokens \in [Validators -> Nat]
      /\ \A x \in S : TokensFromShares(st, x) \in Nat
  BY StakeOf DEF Ledger, StakingSound
<1>2. Ledger(G, S) /\ Closed(D, G, v) /\ SolventAt(G, st, S, h, w)
  BY <1>1, IncrementKeeps, IncrementOthers
<1>3. Ledger(E, T) /\ Settles(D, E, dl)
  BY <1>1, PayKeeps
<1>4. /\ DOMAIN G = DOMAIN GenesisDistribution /\ G.outstanding \in [Validators -> Int]
      /\ DOMAIN G.hist = Validators
  BY <1>2 DEF Ledger, DistTyped
<1>5. /\ E.hist = [G.hist EXCEPT ![v] = DecRef(@, D.start[dl].prev)]
      /\ E.outstanding = [G.outstanding EXCEPT ![v] = @ - raw]
      /\ E.cur = G.cur /\ E.commission = G.commission
  <2> HIDE DEF G, raw, coins
  <2>1. E = [G EXCEPT
               !.outstanding[v] = @ - raw,
               !.pool = @ + (raw - coins * Prec),
               !.balance = @ - coins,
               !.hist[v] = DecRef(@, D.start[dl].prev),
               !.start[dl] = NoStart]
    BY DEF PayRewards, G, raw, coins
  <2>2. QED
    BY <1>4, <2>1 DEF GenesisDistribution
<1>6. E.slashes = G.slashes /\ \A x \in T : E.start[x] = G.start[x]
  BY <1>1, <1>2, <1>3 DEF Settles, Closed
<1> HIDE DEF G, E, raw
<1>7. /\ E.hist[w] = G.hist[w] /\ E.outstanding[w] = G.outstanding[w]
      /\ E.cur[w] = G.cur[w] /\ E.commission[w] = G.commission[w]
      /\ E.slashes[w] = G.slashes[w]
  BY <1>1, <1>4, <1>5, <1>6
<1>8. Claimants(T, w) = Claimants(S, w)
  BY DEF Claimants
<1>9. \A x \in Claimants(S, w) :
        E.start[x] = G.start[x] /\ TokensFromShares(st, x) <= TokensFromShares(st, x)
  <2>1. \A x \in Claimants(S, w) : x \in T /\ TokensFromShares(st, x) \in Nat
    BY <1>1 DEF Claimants
  <2>2. QED
    BY <1>6, <2>1
<1> HIDE DEF T
<1>10. SolventAt(E, st, T, h, w)
  BY <1>2, <1>3, <1>7, <1>8, <1>9, OthersSolvent
<1>11. QED
  BY <1>10 DEF E, T

\* A payment keeps every validator solvent: a delegation is paid no more than
\* it has earned.
LEMMA PaySolvent ==
  ASSUME NEW D, NEW S, Ledger(D, S), NEW st, StakingSound(st), NEW dl \in S,
         NEW h \in Nat, h <= Horizon, Solvent(D, st, S, h)
  PROVE  LET E == PayRewards(D, st, dl, h) IN
         Ledger(E, S \ {dl}) /\ Solvent(E, st, S \ {dl}, h) /\ E.pool >= D.pool
<1> DEFINE v == dl[2]
           E == PayRewards(D, st, dl, h)
           T == S \ {dl}
<1>1. v \in Validators /\ \A w \in Validators : SolventAt(D, st, S, h, w)
  BY DEF Solvent, Ledger, Delegations
<1>2. LET P == Pending(D, st, dl, h)
          G == IncrementPeriod(D, st, dl[2])
      IN /\ P.rewards \in Int /\ P.rewards >= 0
         /\ P.rewards * Prec <= Earned(G, dl) /\ Earned(G, dl) \in Nat
  BY PendingCovered
<1>3. Pending(D, st, dl, h).rewards \in Nat
  BY <1>2
<1>4. Ledger(E, T) /\ SolventAt(E, st, T, h, v) /\ E.pool >= D.pool
  BY <1>1, <1>2, <1>3, PaySolventAt
<1>5. \A w \in Validators \ {v} : SolventAt(E, st, T, h, w)
  BY <1>1, PayOthers
<1> HIDE DEF E, T
<1>6. Solvent(E, st, T, h)
  BY <1>4, <1>5 DEF Solvent
<1>7. QED
  BY <1>4, <1>6 DEF E, T

\* A withdrawal keeps every validator solvent.
LEMMA WithdrawSolvent ==
  ASSUME NEW D, NEW S, Ledger(D, S), NEW st, StakingSound(st), NEW dl \in S,
         NEW h \in Nat, h <= Horizon, Solvent(D, st, S, h)
  PROVE  LET E == WithdrawRewards(D, st, dl, h) IN
         Ledger(E, S) /\ Solvent(E, st, S, h) /\ E.pool >= D.pool
<1> DEFINE G == PayRewards(D, st, dl, h)
           E == WithdrawRewards(D, st, dl, h)
           T == S \ {dl}
<1>1. Ledger(G, T) /\ Solvent(G, st, T, h) /\ G.pool >= D.pool
  BY PaySolvent
<1>2. dl \in Delegations /\ dl \notin T /\ S = T \cup {dl} /\ h <= h
  BY DEF Ledger
<1>3. E = InitializeDelegation(G, st, dl, h)
  BY DEF WithdrawRewards
<1> HIDE DEF G, T, E
<1>4. Ledger(E, T \cup {dl}) /\ Solvent(E, st, T \cup {dl}, h) /\ E.pool = G.pool
  BY <1>1, <1>2, <1>3, InitializeSolvent
<1>5. QED
  BY <1>1, <1>2, <1>4 DEF E

---------------------------------------------------------------------------
(* Commission, fees and slashes.                                           *)

\* Nothing a validator owes is negative; what is outstanding covers its
\* commission and the rewards of the current period.
LEMMA ClaimsCover ==
  ASSUME NEW D, NEW S, Ledger(D, S), NEW st, NEW h, NEW v \in Validators,
         SolventAt(D, st, S, h, v)
  PROVE  /\ \A dl \in Claimants(S, v) : Earned(D, dl) \in Nat
         /\ SumFunctionOnSet(Earns(D), Claimants(S, v)) \in Nat
         /\ (D.commission[v] + D.cur[v].rewards) * Prec
              + SumFunctionOnSet(Earns(D), Claimants(S, v)) <= D.outstanding[v] * Prec
         /\ D.commission[v] \in Nat /\ D.cur[v].rewards \in Nat
         /\ D.outstanding[v] \in Nat
         /\ D.commission[v] + D.cur[v].rewards <= D.outstanding[v]
<1> DEFINE A == Claimants(S, v)
           a == D.commission[v]
           b == D.cur[v].rewards
           o == D.outstanding[v]
           s == SumFunctionOnSet(Earns(D), A)
<1>1. S \subseteq S
  OBVIOUS
<1>2. /\ IsFiniteSet(A) /\ a \in Int /\ b \in Int /\ o \in Int
      /\ Claims(D, S, v) = (a + b) * Prec + s
      /\ \A x \in A : x \in S /\ x[2] = v /\ Earns(D)[x] = Earned(D, x)
  BY <1>1, ClaimsType
<1>3. a >= 0 /\ b >= 0 /\ o >= 0 /\ Claims(D, S, v) <= o * Prec
  BY DEF SolventAt, RecordsSound
<1>4. ASSUME NEW x \in A PROVE Earned(D, x) \in Nat
  <2>1. x \in S /\ x[2] = v
    BY <1>2
  <2>2. InStep(D, st, x, h) /\ RecordsSound(D, x[2])
    BY <2>1 DEF SolventAt
  <2>3. Earned(D, x) \in Int /\ Earned(D, x) >= 0
    BY <2>1, <2>2, EarnedIs DEF InStep
  <2>4. QED
    BY <2>3
<1>5. s \in Nat
  <2>1. \A x \in A : Earns(D)[x] \in Nat
    BY <1>2, <1>4
  <2>2. QED
    BY <1>2, <2>1, SumNat
<1>6. /\ a \in Nat /\ b \in Nat /\ o \in Nat /\ (a + b) * Prec + s <= o * Prec
      /\ a + b <= o
  <2> HIDE DEF a, b, o, s
  <2>1. a \in Nat /\ b \in Nat /\ o \in Nat /\ (a + b) * Prec + s <= o * Prec
    BY <1>2, <1>3
  <2>2. (a + b) * Prec \in Int /\ o * Prec \in Int
    BY <2>1, HorizonIs
  <2>3. Prec * (a + b) <= Prec * o
    BY <1>5, <2>1, <2>2, HorizonIs
  <2>4. a + b <= o
    BY <2>1, <2>3, HorizonIs, TimesLess
  <2>5. QED
    BY <2>1, <2>4
<1>7. QED
  BY <1>4, <1>5, <1>6

\* A change of the books of v alone, neither of its records nor of a start,
\* keeps every validator solvent if the claims grow by no more than what is
\* outstanding.
LEMMA BookSolvent ==
  ASSUME NEW D, NEW S, Ledger(D, S), NEW E, Ledger(E, S), NEW v \in Validators,
         NEW st, StakingSound(st), NEW h \in Nat, Solvent(D, st, S, h),
         E.hist = D.hist, E.start = D.start, E.slashes = D.slashes,
         \A w \in Validators \ {v} :
           /\ E.cur[w] = D.cur[w] /\ E.outstanding[w] = D.outstanding[w]
           /\ E.commission[w] = D.commission[w],
         E.cur[v].period = D.cur[v].period,
         E.commission[v] >= 0, E.cur[v].rewards >= 0, E.outstanding[v] >= 0,
         NEW more \in Int, E.outstanding[v] = D.outstanding[v] + more,
         E.commission[v] + E.cur[v].rewards
           = D.commission[v] + D.cur[v].rewards + more
  PROVE  Solvent(E, st, S, h)
<1>1. \A x \in S : TokensFromShares(st, x) <= TokensFromShares(st, x)
  <2>1. \A x \in S : TokensFromShares(st, x) \in Nat
    BY StakeOf DEF Ledger
  <2>2. QED
    BY <2>1
<1>2. ASSUME NEW w \in Validators \ {v} PROVE SolventAt(E, st, S, h, w)
  <2>1. SolventAt(D, st, S, h, w)
    BY DEF Solvent
  <2>2. \A x \in Claimants(S, w) :
          E.start[x] = D.start[x] /\ TokensFromShares(st, x) <= TokensFromShares(st, x)
    BY <1>1 DEF Claimants
  <2>3. /\ E.hist[w] = D.hist[w] /\ E.cur[w] = D.cur[w] /\ E.slashes[w] = D.slashes[w]
        /\ E.outstanding[w] = D.outstanding[w] /\ E.commission[w] = D.commission[w]
        /\ h <= h
    OBVIOUS
  <2>4. QED
    BY <2>1, <2>2, <2>3, OthersSolvent
<1>3. SolventAt(E, st, S, h, v)
  <2>1. SolventAt(D, st, S, h, v)
    BY DEF Solvent
  <2> DEFINE a == D.commission[v] + D.cur[v].rewards
             b == E.commission[v] + E.cur[v].rewards
             o == D.outstanding[v]
             c == Claims(D, S, v)
  <2>2. a \in Int /\ o \in Int /\ c \in Int
    <3>1. S \subseteq S
      OBVIOUS
    <3>2. QED
      BY <3>1, ClaimsType
  <2>3. c <= o * Prec /\ b = a + more /\ E.outstanding[v] = o + more
    BY <2>1 DEF SolventAt
  <2>4. c + (b - a) * Prec <= E.outstanding[v] * Prec
    <3> HIDE DEF a, b, c, o
    <3>1. b - a = more
      BY <2>2, <2>3
    <3>2. (o + more) * Prec = o * Prec + more * Prec /\ o * Prec \in Int /\ more * Prec \in Int
      BY <2>2, HorizonIs
    <3>3. QED
      BY <2>2, <2>3, <3>1, <3>2
  <2>5. RecordsSound(D, v) /\ RatiosKept(D, E, v) /\ DOMAIN E.hist[v] \subseteq DOMAIN D.hist[v]
    BY <2>1 DEF SolventAt, RatiosKept
  <2>6. /\ \A i \in DOMAIN D.slashes[v] : D.slashes[v][i].height <= h
        /\ \A y \in S : y[2] = v => InStep(D, st, y, h)
        /\ \A y \in S : y[2] = v =>
             E.start[y] = D.start[y] /\ TokensFromShares(st, y) <= TokensFromShares(st, y)
        /\ E.slashes[v] = D.slashes[v] /\ S \subseteq S /\ h <= h
    BY <1>1, <2>1 DEF SolventAt
  <2>7. QED
    BY <2>4, <2>5, <2>6, StaysSolvent
<1>4. QED
  BY <1>2, <1>3 DEF Solvent

\* A commission is paid in whole coins, from what is outstanding.
LEMMA CommissionSolvent ==
  ASSUME NEW D, NEW S, Ledger(D, S), NEW v \in Validators,
         NEW st, StakingSound(st), NEW h \in Nat, Solvent(D, st, S, h)
  PROVE  LET E == WithdrawCommission(D, v) IN
         Ledger(E, S) /\ Solvent(E, st, S, h) /\ E.pool = D.pool
<1> DEFINE E == WithdrawCommission(D, v)
           coins == D.commission[v] \div Prec
           c == D.commission[v]
           o == D.outstanding[v]
           less == coins * Prec
<1>1. DistTyped(D) /\ Balanced(D) /\ S \subseteq Delegations /\ Exact(D, S)
  BY DEF Ledger
<1>2. /\ DistTyped(E) /\ Balanced(E)
      /\ E.hist = D.hist /\ E.start = D.start /\ E.slashes = D.slashes /\ E.cur = D.cur
  BY <1>1, CommissionKeeps
<1>3. Ledger(E, S)
  <2> HIDE DEF E
  <2>1. Exact(E, S)
    BY <1>1, <1>2, ExactSame
  <2>2. QED
    BY <1>1, <1>2, <2>1 DEF Ledger
<1>4. /\ E.commission = [D.commission EXCEPT ![v] = @ - less]
      /\ E.outstanding = [D.outstanding EXCEPT ![v] = @ - less]
      /\ E.pool = D.pool
  BY <1>1 DEF WithdrawCommission, DistTyped, GenesisDistribution
<1> HIDE DEF E
<1>5. /\ D.commission \in [Validators -> Int] /\ D.outstanding \in [Validators -> Int]
  BY <1>1 DEF DistTyped
<1>6. /\ E.commission[v] = c - less /\ E.outstanding[v] = o - less
      /\ \A w \in Validators \ {v} : /\ E.commission[w] = D.commission[w]
                                     /\ E.outstanding[w] = D.outstanding[w]
  BY <1>4, <1>5
<1>7. SolventAt(D, st, S, h, v)
  BY DEF Solvent
<1>8. c \in Nat /\ D.cur[v].rewards \in Nat /\ o \in Nat /\ c + D.cur[v].rewards <= o
  BY <1>7, ClaimsCover
<1>9. less \in Int /\ less <= c
  <2> HIDE DEF c
  <2>1. coins \in Int /\ coins * Prec <= c
    BY <1>8, HorizonIs, Quotient DEF c
  <2> HIDE DEF coins
  <2>2. QED
    BY <2>1, HorizonIs
<1> HIDE DEF less
<1>10. /\ E.commission[v] >= 0 /\ E.outstanding[v] >= 0 /\ E.cur[v].rewards >= 0
       /\ -less \in Int /\ E.outstanding[v] = o + (-less)
       /\ E.commission[v] + E.cur[v].rewards = c + D.cur[v].rewards + (-less)
  BY <1>2, <1>6, <1>8, <1>9
<1>11. Solvent(E, st, S, h)
  <2>1. \A w \in Validators \ {v} :
          /\ E.cur[w] = D.cur[w] /\ E.outstanding[w] = D.outstanding[w]
          /\ E.commission[w] = D.commission[w]
    BY <1>2, <1>6
  <2>2. E.cur[v].period = D.cur[v].period
    BY <1>2
  <2>3. QED
    BY <1>2, <1>3, <1>10, <2>1, <2>2, BookSolvent
<1>12. QED
  BY <1>3, <1>4, <1>11 DEF E

\* The fees of a block are outstanding as soon as they are claimed.
LEMMA AllocateSolvent ==
  ASSUME NEW D, NEW S, Ledger(D, S), NEW v \in Validators, NEW coins \in Nat,
         NEW c \in Nat, c <= coins * Prec,
         NEW st, StakingSound(st), NEW h \in Nat, Solvent(D, st, S, h)
  PROVE  LET E == Allocate(D, v, coins, c) IN
         Ledger(E, S) /\ Solvent(E, st, S, h) /\ E.pool = D.pool
<1> DEFINE E == Allocate(D, v, coins, c)
           more == coins * Prec
<1>1. DistTyped(D)
  BY DEF Ledger
<1>2. Ledger(E, S) /\ E.start = D.start /\ E.slashes = D.slashes
  BY AllocateKeeps
<1>3. /\ E.cur = [D.cur EXCEPT ![v].rewards = @ + (more - c)]
      /\ E.commission = [D.commission EXCEPT ![v] = @ + c]
      /\ E.outstanding = [D.outstanding EXCEPT ![v] = @ + more]
      /\ E.pool = D.pool /\ E.hist = D.hist
  BY <1>1 DEF Allocate, DistTyped, GenesisDistribution
<1> HIDE DEF E
<1>4. /\ D.commission \in [Validators -> Int] /\ D.outstanding \in [Validators -> Int]
      /\ D.cur \in [Validators -> [rewards : Int, period : Nat \ {0}]]
  BY <1>1 DEF DistTyped
<1>5. more \in Nat /\ c <= more
  BY HorizonIs
<1> HIDE DEF more
<1>6. /\ E.commission[v] = D.commission[v] + c /\ E.outstanding[v] = D.outstanding[v] + more
      /\ E.cur[v] = [D.cur[v] EXCEPT !.rewards = @ + (more - c)]
      /\ \A w \in Validators \ {v} : /\ E.commission[w] = D.commission[w]
                                     /\ E.outstanding[w] = D.outstanding[w]
                                     /\ E.cur[w] = D.cur[w]
  BY <1>3, <1>4
<1>7. E.cur[v].rewards = D.cur[v].rewards + (more - c) /\ E.cur[v].period = D.cur[v].period
  <2>1. D.cur[v] \in [rewards : Int, period : Nat \ {0}]
    BY <1>4
  <2>2. QED
    BY <1>6, <2>1
<1>8. SolventAt(D, st, S, h, v)
  BY DEF Solvent
<1>9. D.commission[v] \in Nat /\ D.cur[v].rewards \in Nat /\ D.outstanding[v] \in Nat
  BY <1>8, ClaimsCover
<1>10. /\ E.commission[v] >= 0 /\ E.outstanding[v] >= 0 /\ E.cur[v].rewards >= 0
       /\ E.commission[v] + E.cur[v].rewards
            = D.commission[v] + D.cur[v].rewards + more
  BY <1>5, <1>6, <1>7, <1>9
<1>11. Solvent(E, st, S, h)
  <2>1. more \in Int /\ E.outstanding[v] = D.outstanding[v] + more /\ E.hist = D.hist
    BY <1>3, <1>5, <1>6
  <2>2. \A w \in Validators \ {v} :
          /\ E.cur[w] = D.cur[w] /\ E.outstanding[w] = D.outstanding[w]
          /\ E.commission[w] = D.commission[w]
    BY <1>6
  <2>3. QED
    BY <1>2, <1>7, <1>10, <2>1, <2>2, BookSolvent
<1>12. QED
  BY <1>2, <1>3, <1>11 DEF E

\* A slash takes at least as large a part of a stake as of what the stake is
\* worth: the fraction is rounded up.
LEMMA SlashedWorth ==
  ASSUME NEW d \in Nat, NEW t \in Nat \ {0}, NEW p \in Nat \ {0}, NEW b \in Nat, b <= t,
         NEW s \in Nat \ {0}, NEW k \in Nat, k <= (d * t * p) \div s,
         NEW f, f = (b * p + t - 1) \div t
  PROVE  /\ f \in Nat /\ f <= p
         /\ (k * (p - f)) \div p <= (d * (t - b) * p) \div s
         /\ (k * (p - f)) \div p \in Nat
<1> DEFINE a == b * p + t - 1
           left == p - f
           w == (d * t * p) \div s
<1>1. a \in Nat /\ b * p \in Nat /\ b * p <= t * p /\ t * p \in Nat
  <2>1. b * p <= t * p /\ b * p \in Int /\ t * p \in Int
    BY TimesMono
  <2>2. b * p \in Nat
    OBVIOUS
  <2>3. QED
    BY <2>1, <2>2
<1>2. f \in Nat /\ f * t <= a /\ a < (f + 1) * t
  <2> HIDE DEF a
  <2>1. f = a \div t
    BY DEF a
  <2>2. QED
    BY <1>1, <2>1, Quotient
<1>3. (f + 1) * t = f * t + t /\ f * t \in Int
  BY <1>2
<1>4. b * p <= f * t
  BY <1>1, <1>2, <1>3
<1>5. f <= p
  <2> SUFFICES ASSUME p + 1 <= f PROVE FALSE
    BY <1>2
  <2>1. (p + 1) * t <= f * t
    BY <1>2, TimesMono
  <2>2. (p + 1) * t = t * p + t
    OBVIOUS
  <2>3. QED
    BY <1>1, <1>2, <1>3, <2>1, <2>2
<1>6. left \in Nat
  BY <1>2, <1>5
<1>7. left * t <= (t - b) * p
  <2>1. left * t = t * p - f * t /\ (t - b) * p = t * p - b * p
    BY <1>2
  <2>2. QED
    BY <1>1, <1>3, <1>4, <2>1
<1>8. d * t * p \in Nat /\ k * s <= d * t * p
  <2>1. d * t * p \in Nat
    <3>1. d * t \in Nat
      OBVIOUS
    <3>2. QED
      BY <3>1
  <2>2. w \in Int /\ w * s <= d * t * p
    BY <2>1, Quotient
  <2>3. k * s <= w * s
    <3> HIDE DEF w
    <3>1. k <= w
      BY DEF w
    <3>2. QED
      BY <2>2, <3>1, TimesMono
  <2> HIDE DEF w
  <2>4. w * s \in Int /\ k * s \in Int
    BY <2>2
  <2>5. QED
    BY <2>1, <2>2, <2>3, <2>4
<1> HIDE DEF left
<1>9. (k * left) * s <= (d * (t - b) * p) * p
  <2> DEFINE x == k * s
             y == d * t * p
             z == d * p
             u == left * t
             r == (t - b) * p
  <2>1. x \in Int /\ y \in Int /\ z \in Nat /\ u \in Int /\ r \in Int
    BY <1>6, <1>8
  <2>2. left * x <= left * y
    BY <1>6, <1>8, <2>1, TimesMono
  <2>3. left * y = z * u
    <3>1. \A m \in Int : m * (d * t * p) = (d * p) * (m * t)
      OBVIOUS
    <3>2. QED
      BY <1>6, <3>1
  <2>4. z * u <= z * r
    BY <1>7, <2>1, TimesMono
  <2>5. (k * left) * s = left * x
    BY <1>6
  <2>6. z * r = (d * (t - b) * p) * p
    <3>1. \A m \in Int : (d * p) * (m * p) = (d * m * p) * p
      OBVIOUS
    <3>2. t - b \in Int
      OBVIOUS
    <3>3. QED
      BY <3>1, <3>2
  <2> HIDE DEF x, y, z, u, r
  <2>7. left * x \in Int /\ z * u \in Int /\ z * r \in Int /\ left * y \in Int
    BY <1>6, <2>1
  <2>8. left * x <= z * r
    BY <2>2, <2>3, <2>4, <2>7
  <2>9. QED
    BY <2>5, <2>6, <2>8
<1>10. k * left \in Nat /\ d * (t - b) * p \in Nat
  <2>1. t - b \in Nat
    OBVIOUS
  <2>2. d * (t - b) \in Nat
    BY <2>1
  <2>3. d * (t - b) * p \in Nat
    BY <2>2
  <2>4. k * left \in Nat
    BY <1>6
  <2>5. QED
    BY <2>3, <2>4
<1> DEFINE x == k * left
           y == d * (t - b) * p
<1>11. x \in Nat /\ y \in Nat /\ x * s <= y * p
  BY <1>9, <1>10
<1> HIDE DEF x, y
<1>12. x \div p <= y \div s
  BY <1>11, QuotientMono
<1>13. x \div p \in Nat
  BY <1>11, Quotient
<1>14. QED
  BY <1>2, <1>5, <1>12, <1>13 DEF x, y, left

\* A slash takes nothing of what a delegation has earned before, and leaves
\* it a stake it is still worth.
LEMMA SlashedEarns ==
  ASSUME NEW G, NEW S, Ledger(G, S), NEW E, Ledger(E, S), NEW dl \in S,
         NEW st, StakingSound(st), NEW su, StakingSound(su), NEW h \in Nat, h < Horizon,
         NEW b \in Nat, b <= st.tokens[dl[2]], 0 < st.tokens[dl[2]],
         su.tokens[dl[2]] = st.tokens[dl[2]] - b,
         su.del[dl] = st.del[dl], su.shares[dl[2]] = st.shares[dl[2]],
         NEW e \in SlashEvent, e.height = h, e.period = G.cur[dl[2]].period - 1,
         e.fraction = (b * Prec + st.tokens[dl[2]] - 1) \div st.tokens[dl[2]],
         InStep(G, st, dl, h), RecordsSound(G, dl[2]),
         \A p \in Looked(G, dl) : p < e.period,
         E.start[dl] = G.start[dl], E.cur[dl[2]] = G.cur[dl[2]],
         E.slashes[dl[2]] = Append(G.slashes[dl[2]], e),
         \A p \in DOMAIN G.hist[dl[2]] : E.hist[dl[2]][p].ratio = G.hist[dl[2]][p].ratio
  PROVE  InStep(E, su, dl, h) /\ Earned(E, dl) <= Earned(G, dl)
<1> DEFINE v == dl[2]
           s == G.start[dl]
           sl == G.slashes[v]
           n == G.cur[v].period - 1
           last == AfterSlashes(G, dl, Horizon)
           now == G.hist[v][n].ratio
           then == G.hist[v][last.from].ratio
           k == last.stake
           r == last.rewards
           f == e.fraction
           d == now - then
           q == (d * k) \div Prec
           new == AfterSlashes(E, dl, Horizon)
           stake == (k * (Prec - f)) \div Prec
<1>1. /\ Tracked(G, dl) /\ Looked(G, dl) \subseteq DOMAIN G.hist[v] /\ dl \in Delegations
      /\ n \in DOMAIN G.hist[v]
  BY TrackedIn
<1>2. Tracked(E, dl) /\ n \in DOMAIN E.hist[v]
  <2>1. Tracked(E, dl) /\ E.cur[v].period - 1 \in DOMAIN E.hist[v]
    BY TrackedIn
  <2>2. QED
    BY <2>1
<1>3. /\ sl \in Seq(SlashEvent) /\ s \in [prev : Nat, stake : Int, height : Nat]
  BY <1>1 DEF Tracked
<1>4. Extends(G, E, dl)
  <2>1. Len(sl) <= Len(Append(sl, e)) /\ \A i \in 1..Len(sl) : Append(sl, e)[i] = sl[i]
    <3> HIDE DEF sl
    <3> QED
      BY <1>3
  <2>2. \A p \in Looked(G, dl) : E.hist[v][p].ratio = G.hist[v][p].ratio
    BY <1>1
  <2>3. QED
    BY <2>1, <2>2 DEF Extends
<1>5. /\ s.height <= h /\ \A i \in DOMAIN sl : sl[i].period > s.prev => sl[i].height >= s.height
      /\ r >= 0 /\ 0 <= k /\ k <= TokensFromShares(st, dl)
  BY DEF InStep
<1>6. Counts(s, e, Horizon)
  <2>1. s.height \in Nat
    BY <1>3
  <2>2. Horizon > s.height /\ e.height >= s.height /\ e.height <= Horizon
    BY <1>5, <2>1, HorizonIs
  <2>3. QED
    BY <2>2 DEF Counts
<1>7. last.from \in Looked(G, dl)
  BY <1>1, HorizonIs, LastLooked
<1>8. e.period > last.from
  <2> HIDE DEF last
  <2>1. last.from \in Nat
    <3>1. \A p \in Looked(G, dl) : p \in Nat
      BY <1>1, TrackedIn
    <3>2. QED
      BY <1>7, <3>1
  <2>2. e.period \in Nat
    BY DEF SlashEvent
  <2>3. QED
    BY <1>7, <2>1, <2>2
<1>9. new = AfterSlash(E.hist[v], last, e)
  <2>1. new = IF Counts(s, e, Horizon) /\ e.period > last.from
              THEN AfterSlash(E.hist[v], last, e) ELSE last
    BY <1>1, <1>2, <1>4, HorizonIs, OneMoreSlash
  <2>2. QED
    BY <1>6, <1>8, <2>1
<1>10. /\ r \in Int /\ k \in Int /\ now \in Int /\ then \in Int /\ d >= 0
       /\ Earned(G, dl) = r * Prec + d * k
  <2>1. k >= 0 /\ r >= 0
    <3>1. k \in Int /\ r \in Int
      BY EarnedIs
    <3> HIDE DEF k, r
    <3>2. QED
      BY <1>5, <3>1
  <2>2. QED
    BY <2>1, EarnedIs
<1>11. /\ new.from = n /\ new.stake = stake /\ new.rewards = r + q
  <2>1. Between(E.hist[v], last.from, n, k) = q
    <3>1. E.hist[v][n].ratio = now /\ E.hist[v][last.from].ratio = then
      BY <1>1, <1>7
    <3> HIDE DEF n, now, then, k, last
    <3>2. QED
      BY <3>1 DEF Between
  <2>2. new = [from |-> n, stake |-> stake, rewards |-> r + Between(E.hist[v], last.from, n, k)]
    BY <1>9 DEF AfterSlash
  <2> HIDE DEF n, stake, r, q, new, k
  <2>3. new = [from |-> n, stake |-> stake, rewards |-> r + q]
    BY <2>1, <2>2
  <2>4. QED
    BY <2>3
<1>12. Earned(E, dl) = (r + q) * Prec + (E.hist[v][n].ratio - E.hist[v][n].ratio) * stake
  <2>1. Earned(E, dl) = new.rewards * Prec
                        + (E.hist[v][n].ratio - E.hist[v][new.from].ratio) * new.stake
    BY DEF Earned
  <2> HIDE DEF n, stake, r, q, new, k
  <2>2. QED
    BY <1>11, <2>1
<1>13. /\ f \in Nat /\ f <= Prec /\ stake <= TokensFromShares(su, dl) /\ stake \in Nat
  <2> DEFINE t == st.tokens[v]
             x == st.del[dl]
             y == st.shares[v]
  <2>1. /\ x \in Nat /\ t \in Nat \ {0} /\ y \in Nat \ {0} /\ b <= t /\ Prec \in Nat \ {0}
    BY <1>1, StakeOf, HorizonIs
  <2>2. TokensFromShares(st, dl) = (x * t * Prec) \div y
    BY DEF TokensFromShares
  <2>3. TokensFromShares(su, dl) = (x * (t - b) * Prec) \div y
    BY DEF TokensFromShares
  <2>4. k \in Int /\ 0 <= k /\ k <= TokensFromShares(st, dl)
    <3> HIDE DEF k, now, then, r
    <3> QED
      BY <1>5, <1>10
  <2>5. f = (b * Prec + t - 1) \div t
    OBVIOUS
  <2> HIDE DEF t, x, y, k, f
  <2>6. k \in Nat /\ k <= (x * t * Prec) \div y
    BY <2>2, <2>4
  <2>7. /\ f \in Nat /\ f <= Prec
        /\ (k * (Prec - f)) \div Prec <= (x * (t - b) * Prec) \div y
        /\ (k * (Prec - f)) \div Prec \in Nat
    BY ONLY <2>1, <2>5, <2>6, b \in Nat, SlashedWorth
  <2>8. QED
    BY <2>3, <2>7
<1>14. q \in Nat /\ q * Prec <= d * k
  <2>1. d \in Int /\ d >= 0 /\ k \in Int /\ k >= 0
    <3> HIDE DEF now, then, k
    <3>1. QED
      BY <1>5, <1>10
  <2> DEFINE a == d * k
  <2>2. a \in Nat
    <3> HIDE DEF d, k
    <3> QED
      BY <2>1
  <2>3. q = a \div Prec
    OBVIOUS
  <2> HIDE DEF a, q
  <2>4. q \in Nat /\ q * Prec <= a
    BY ONLY <2>2, <2>3, HorizonIs, Quotient
  <2>5. QED
    BY <2>4 DEF a
<1>15. Earned(E, dl) <= Earned(G, dl)
  <2>1. E.hist[v][n].ratio \in Int
    BY <1>2 DEF Tracked, Records
  <2> DEFINE z == E.hist[v][n].ratio
             a == d * k
  <2>2. z \in Int /\ r \in Int /\ stake \in Nat /\ q \in Nat /\ q * Prec <= a
        /\ Earned(E, dl) = (r + q) * Prec + (z - z) * stake
        /\ Earned(G, dl) = r * Prec + a
    BY <1>10, <1>12, <1>13, <1>14, <2>1
  <2>3. a \in Int
    <3>1. d \in Int /\ k \in Int
      <4> HIDE DEF now, then, k
      <4> QED
        BY <1>10
    <3> HIDE DEF d, k
    <3>2. QED
      BY <3>1
  <2> HIDE DEF z, a, r, stake, q
  <2>4. (z - z) * stake = 0 /\ (r + q) * Prec = r * Prec + q * Prec
        /\ r * Prec \in Int /\ q * Prec \in Int
    BY <2>2, HorizonIs
  <2>5. QED
    BY <2>2, <2>3, <2>4
<1>16. InStep(E, su, dl, h)
  <2>1. ASSUME NEW i \in DOMAIN E.slashes[v], E.slashes[v][i].period > s.prev
        PROVE  E.slashes[v][i].height >= s.height
    <3>1. E.slashes[v] = Append(sl, e)
      OBVIOUS
    <3> HIDE DEF sl
    <3>2. (i \in DOMAIN sl /\ E.slashes[v][i] = sl[i]) \/ E.slashes[v][i] = e
      BY <1>3, <2>1, <3>1
    <3>3. QED
      BY <1>5, <2>1, <3>2
  <2>2. new.rewards >= 0
    <3>1. new.rewards = r + q
      BY <1>11
    <3> HIDE DEF new, r, q, k, now, then
    <3>2. r >= 0 /\ r \in Int /\ q \in Nat
      BY <1>5, <1>10, <1>14
    <3> QED
      BY <3>1, <3>2
  <2>3. 0 <= new.stake /\ new.stake <= TokensFromShares(su, dl)
    <3>1. new.stake = stake
      BY <1>11
    <3> HIDE DEF new, stake, f
    <3>2. 0 <= stake /\ stake <= TokensFromShares(su, dl)
      BY <1>13
    <3> QED
      BY <3>1, <3>2
  <2>4. E.start[dl] = s /\ s.height <= h
    BY <1>5
  <2> HIDE DEF s
  <2>5. QED
    BY <2>1, <2>2, <2>3, <2>4 DEF InStep
<1>17. QED
  BY <1>15, <1>16

\* A fault keeps every validator solvent: what its delegations had earned is
\* theirs, and they earn on with a stake that is no more than they are worth.
LEMMA SlashSolvent ==
  ASSUME NEW D, NEW S, Ledger(D, S), NEW v \in Validators,
         NEW st, StakingSound(st), NEW h \in Nat, h < Horizon, Solvent(D, st, S, h),
         NEW b \in Nat, b <= st.tokens[v], 0 < st.tokens[v],
         NEW f \in Int, f = (b * Prec + st.tokens[v] - 1) \div st.tokens[v],
         NEW su, StakingSound(su), su.del = st.del, su.shares = st.shares,
         su.tokens = [st.tokens EXCEPT ![v] = @ - b]
  PROVE  LET E == RecordSlash(D, st, v, h, f) IN
         Ledger(E, S) /\ Solvent(E, su, S, h) /\ E.pool >= D.pool
<1> DEFINE G == IncrementPeriod(D, st, v)
           E == RecordSlash(D, st, v, h, f)
           p == D.cur[v].period
           e == [height |-> h, period |-> p, fraction |-> f]
<1>1. st.tokens \in [Validators -> Nat] /\ S \subseteq Delegations
  BY DEF StakingSound, Ledger
<1>2. Ledger(G, S) /\ Closed(D, G, v) /\ Solvent(G, st, S, h) /\ G.pool >= D.pool
  BY IncrementSolvent
<1>3. Ledger(E, S) /\ Slashed(D, E, v, e)
  BY <1>1, RecordSlashKeeps
<1>4. p \in Nat /\ e \in SlashEvent /\ e.height = h /\ e.period = p /\ e.fraction = f
  <2>1. D.cur[v] \in [rewards : Int, period : Nat \ {0}]
    BY DEF Ledger, DistTyped
  <2>2. p \in Nat
    BY <2>1
  <2> HIDE DEF p
  <2>3. QED
    BY <2>2 DEF SlashEvent
<1>5. DistTyped(G)
  BY <1>2 DEF Ledger
<1> HIDE DEF e
<1>6. /\ E.hist = [G.hist EXCEPT ![v] = IncRef(@, p)]
      /\ E.cur = G.cur /\ E.outstanding = G.outstanding
      /\ E.commission = G.commission /\ E.pool = G.pool
  <2> HIDE DEF G
  <2>1. E = [G EXCEPT
               !.hist[v] = IncRef(@, p),
               !.slashes[v] = Append(@, [height |-> h, period |-> p, fraction |-> f])]
    BY DEF RecordSlash, G
  <2>2. QED
    BY <1>5, <2>1 DEF DistTyped, GenesisDistribution
<1>7. /\ G.start = D.start /\ G.slashes = D.slashes /\ G.cur[v].period - 1 = p
  <2>1. G.start = D.start /\ G.slashes = D.slashes /\ G.cur[v].period = p + 1
    BY <1>2 DEF Closed
  <2> HIDE DEF G, p
  <2>2. QED
    BY <1>4, <2>1
<1> HIDE DEF G, E, p
<1>8. /\ E.start = G.start /\ E.slashes[v] = Append(G.slashes[v], e)
      /\ \A w \in Validators \ {v} : E.slashes[w] = G.slashes[w]
  BY <1>3, <1>7 DEF Slashed
<1>9. /\ DOMAIN E.hist[v] = DOMAIN G.hist[v]
      /\ \A q \in DOMAIN G.hist[v] : E.hist[v][q].ratio = G.hist[v][q].ratio
      /\ \A w \in Validators \ {v} : E.hist[w] = G.hist[w]
  <2>1. /\ E.hist[v] = IncRef(G.hist[v], p) /\ Records(G.hist[v])
        /\ \A w \in Validators \ {v} : E.hist[w] = G.hist[w]
    BY <1>5, <1>6 DEF DistTyped, Records
  <2>2. /\ DOMAIN E.hist[v] = DOMAIN G.hist[v]
        /\ \A q \in DOMAIN G.hist[v] : E.hist[v][q].ratio = G.hist[v][q].ratio
    BY <2>1, IncRefRatio
  <2>3. QED
    BY <2>1, <2>2
<1>10. su.tokens[v] = st.tokens[v] - b /\ \A w \in Validators \ {v} : su.tokens[w] = st.tokens[w]
  BY <1>1
<1>11. SolventAt(G, st, S, h, v)
  BY <1>2 DEF Solvent
<1>12. ASSUME NEW dl \in S, dl[2] = v
       PROVE  InStep(E, su, dl, h) /\ Earned(E, dl) <= Earned(G, dl)
  <2>1. InStep(G, st, dl, h) /\ RecordsSound(G, v)
    BY <1>11, <1>12 DEF SolventAt
  <2>2. \A q \in Looked(G, dl) : q < p
    <3>1. Looked(G, dl) = Looked(D, dl)
      BY <1>7 DEF Looked
    <3>2. Looked(D, dl) \subseteq DOMAIN D.hist[v]
          /\ \A q \in DOMAIN D.hist[v] : q \in Nat /\ q <= p - 1
      BY <1>12, TrackedIn DEF p
    <3>3. QED
      BY <1>4, <3>1, <3>2
  <2>3. /\ b <= st.tokens[dl[2]] /\ 0 < st.tokens[dl[2]]
        /\ su.tokens[dl[2]] = st.tokens[dl[2]] - b
        /\ su.del[dl] = st.del[dl] /\ su.shares[dl[2]] = st.shares[dl[2]]
        /\ e.fraction = (b * Prec + st.tokens[dl[2]] - 1) \div st.tokens[dl[2]]
    BY <1>4, <1>10, <1>12
  <2>4. /\ e.height = h /\ e.period = G.cur[dl[2]].period - 1
        /\ \A q \in Looked(G, dl) : q < e.period
    BY <1>4, <1>7, <1>12, <2>2
  <2>5. /\ E.start[dl] = G.start[dl] /\ E.cur[dl[2]] = G.cur[dl[2]]
        /\ E.slashes[dl[2]] = Append(G.slashes[dl[2]], e)
        /\ \A q \in DOMAIN G.hist[dl[2]] : E.hist[dl[2]][q].ratio = G.hist[dl[2]][q].ratio
    BY <1>6, <1>8, <1>9, <1>12
  <2>6. InStep(G, st, dl, h) /\ RecordsSound(G, dl[2])
    BY <1>12, <2>1
  <2>7. e \in SlashEvent /\ Ledger(G, S) /\ Ledger(E, S) /\ dl \in S
    BY <1>2, <1>3, <1>4
  <2>8. QED
    BY ONLY <2>3, <2>4, <2>5, <2>6, <2>7, StakingSound(st), StakingSound(su),
            h \in Nat, h < Horizon, b \in Nat, SlashedEarns
<1>13. SolventAt(E, su, S, h, v)
  <2>1. RecordsSound(E, v)
    <3>1. RecordsSound(G, v) /\ G.cur[v].period - 1 \in DOMAIN G.hist[v]
      BY <1>2, <1>11, ReferencesType DEF SolventAt
    <3>2. E.cur[v] = G.cur[v]
      BY <1>6
    <3>3. \A q \in DOMAIN E.hist[v] :
            E.hist[v][q].ratio <= E.hist[v][E.cur[v].period - 1].ratio
      BY <1>9, <3>1, <3>2 DEF RecordsSound
    <3>4. QED
      BY <1>6, <3>1, <3>3 DEF RecordsSound
  <2>2. ASSUME NEW i \in DOMAIN E.slashes[v] PROVE E.slashes[v][i].height <= h
    <3> DEFINE sl == G.slashes[v]
    <3>1. sl \in Seq(SlashEvent) /\ \A j \in DOMAIN sl : sl[j].height <= h
      BY <1>5, <1>11 DEF SolventAt, DistTyped
    <3>2. E.slashes[v] = Append(sl, e)
      BY <1>8
    <3> HIDE DEF sl
    <3>3. (i \in DOMAIN sl /\ E.slashes[v][i] = sl[i]) \/ E.slashes[v][i] = e
      BY <2>2, <3>1, <3>2
    <3>4. QED
      BY <1>4, <3>1, <3>3
  <2>3. Claims(E, S, v) <= E.outstanding[v] * Prec
    <3> DEFINE A == Claimants(S, v)
               a == (G.commission[v] + G.cur[v].rewards) * Prec
               x == SumFunctionOnSet(Earns(G), A)
               y == SumFunctionOnSet(Earns(E), A)
    <3>1. S \subseteq S
      OBVIOUS
    <3>2. /\ IsFiniteSet(A) /\ \A dl \in A : Earns(G)[dl] \in Int /\ Earns(G)[dl] = Earned(G, dl)
          /\ x \in Int /\ Claims(G, S, v) = a + x
          /\ G.commission[v] \in Int /\ G.cur[v].rewards \in Int
      BY <1>2, <3>1, ClaimsType
    <3>3. /\ \A dl \in A : Earns(E)[dl] \in Int /\ Earns(E)[dl] = Earned(E, dl)
          /\ y \in Int
          /\ Claims(E, S, v) = (E.commission[v] + E.cur[v].rewards) * Prec + y
      BY <1>3, <3>1, ClaimsType
    <3>4. \A dl \in A : Earns(E)[dl] <= Earns(G)[dl]
      <4>1. ASSUME NEW dl \in A PROVE Earns(E)[dl] <= Earns(G)[dl]
        <5>1. dl \in S /\ dl[2] = v
          BY DEF Claimants
        <5>2. QED
          BY <1>12, <3>2, <3>3, <5>1
      <4>2. QED
        BY <4>1
    <3>5. y <= x
      BY <3>2, <3>3, <3>4, SumMono
    <3>6. Claims(E, S, v) = a + y
      BY <1>6, <3>3
    <3>7. a + x <= G.outstanding[v] * Prec /\ E.outstanding = G.outstanding
      BY <1>6, <1>11, <3>2 DEF SolventAt
    <3>8. a \in Int /\ G.outstanding[v] * Prec \in Int
      <4>1. G.outstanding[v] \in Int
        BY <1>5 DEF DistTyped
      <4>2. QED
        BY <3>2, <4>1, HorizonIs
    <3> HIDE DEF a, x, y
    <3>9. QED
      BY <3>2, <3>3, <3>5, <3>6, <3>7, <3>8
  <2>4. QED
    BY <1>12, <2>1, <2>2, <2>3 DEF SolventAt
<1>14. ASSUME NEW w \in Validators \ {v} PROVE SolventAt(E, su, S, h, w)
  <2>1. SolventAt(G, st, S, h, w)
    BY <1>2 DEF Solvent
  <2>2. \A x \in Claimants(S, w) :
          E.start[x] = G.start[x] /\ TokensFromShares(st, x) <= TokensFromShares(su, x)
    <3>1. ASSUME NEW x \in Claimants(S, w)
          PROVE  TokensFromShares(st, x) <= TokensFromShares(su, x)
      <4>1. x \in S /\ x[2] = w /\ x \in Delegations
        BY <1>1 DEF Claimants
      <4>2. TokensFromShares(su, x) = TokensFromShares(st, x)
        BY <1>10, <4>1 DEF TokensFromShares
      <4>3. TokensFromShares(st, x) \in Nat
        BY <4>1, StakeOf
      <4>4. QED
        BY <4>2, <4>3
    <3>2. QED
      BY <1>8, <3>1
  <2>3. /\ E.hist[w] = G.hist[w] /\ E.cur[w] = G.cur[w] /\ E.slashes[w] = G.slashes[w]
        /\ E.outstanding[w] = G.outstanding[w] /\ E.commission[w] = G.commission[w]
        /\ h <= h
    BY <1>6, <1>8, <1>9
  <2>4. QED
    BY <1>2, <1>3, <2>1, <2>2, <2>3, OthersSolvent
<1>15. Solvent(E, su, S, h)
  BY <1>13, <1>14 DEF Solvent
<1>16. QED
  BY <1>2, <1>3, <1>6, <1>15 DEF E

\* A delegation keeps distribution solvent: an old one is paid first, the
\* others are worth no less afterwards, and it starts at what it is worth.
LEMMA DelegateSolvent ==
  ASSUME NEW D, NEW st, StakingSound(st), Ledger(D, Bonded(st)),
         NEW dl \in Delegations, NEW amount \in Nat,
         st.tokens[dl[2]] > 0, NEW issued,
         issued = (amount * st.shares[dl[2]]) \div st.tokens[dl[2]], issued > 0,
         NEW h \in Nat, h <= Horizon, Solvent(D, st, Bonded(st), h)
  PROVE  LET before == IF dl \in Bonded(st) THEN PayRewards(D, st, dl, h)
                       ELSE IncrementPeriod(D, st, dl[2])
             su == Bond(st, dl, amount, issued)
             E == InitializeDelegation(before, su, dl, h)
         IN Solvent(E, su, Bonded(su), h) /\ E.pool >= D.pool
<1> DEFINE S == Bonded(st)
           R == S \ {dl}
           before == IF dl \in S THEN PayRewards(D, st, dl, h)
                     ELSE IncrementPeriod(D, st, dl[2])
           su == Bond(st, dl, amount, issued)
<1>1. /\ StakingSound(su) /\ Bonded(su) = S \cup {dl}
      /\ \A x \in Delegations \ {dl} :
           TokensFromShares(st, x) <= TokensFromShares(su, x)
  BY BondKeeps
<1>2. dl[2] \in Validators /\ R \subseteq Delegations
  BY StakeOf DEF Bonded
<1>3. Ledger(before, R) /\ Solvent(before, st, R, h) /\ before.pool >= D.pool
  <2>1. CASE dl \in S
    BY <2>1, PaySolvent
  <2>2. CASE dl \notin S
    BY <2>2, <1>2, IncrementSolvent
  <2> QED BY <2>1, <2>2
<1>4. \A x \in R : TokensFromShares(st, x) <= TokensFromShares(su, x)
  BY <1>1, <1>2
<1> HIDE DEF before, su, R
<1>5. Solvent(before, su, R, h)
  BY <1>1, <1>3, <1>4, LaterSolvent
<1>6. dl \notin R /\ R \cup {dl} = S \cup {dl}
  BY DEF R
<1>7. LET E == InitializeDelegation(before, su, dl, h) IN
      Solvent(E, su, R \cup {dl}, h) /\ E.pool = before.pool
  BY <1>1, <1>3, <1>5, <1>6, InitializeSolvent
<1> QED BY <1>1, <1>3, <1>6, <1>7 DEF before, su

\* So does undelegating everything.
LEMMA UndelegateSolvent ==
  ASSUME NEW D, NEW st, StakingSound(st), Ledger(D, Bonded(st)),
         NEW dl \in Bonded(st), NEW other \in Bonded(st), other # dl, other[2] = dl[2],
         NEW h \in Nat, h <= Horizon, Solvent(D, st, Bonded(st), h)
  PROVE  LET su == Unbond(st, dl, h)
             E == PayRewards(D, st, dl, h)
         IN Solvent(E, su, Bonded(su), h) /\ E.pool >= D.pool
<1> DEFINE R == Bonded(st) \ {dl}
           su == Unbond(st, dl, h)
           E == PayRewards(D, st, dl, h)
<1>1. /\ StakingSound(su) /\ Bonded(su) = R
      /\ \A x \in Delegations \ {dl} :
           TokensFromShares(st, x) <= TokensFromShares(su, x)
  BY UnbondKeeps
<1>2. Ledger(E, R) /\ Solvent(E, st, R, h) /\ E.pool >= D.pool
  BY PaySolvent
<1>3. \A x \in R : TokensFromShares(st, x) <= TokensFromShares(su, x)
  BY <1>1 DEF Bonded
<1> HIDE DEF su, R, E
<1>4. Solvent(E, su, R, h)
  BY <1>1, <1>2, <1>3, LaterSolvent
<1> QED BY <1>1, <1>2, <1>4 DEF su, E

(***************************************************************************)
(* The steps of a running chain.                                           *)
(***************************************************************************)
\* Where nothing is owed ahead of its turn, solvency is all there is to keep.
LEMMA SolvencyStep ==
  ASSUME height' \in 0..MaxHeight, dist'.pool >= 0,
         pc' \notin {"rewards", "clear", "panic", "validators", "delegations"},
         pc' \in Running \/ genesis' = 0 \/ (pc' = "exported" /\ genesis' = Now'),
         Solvent(dist', stk', Bonded(stk'), Now')
  PROVE  SolvencyInv'
<1>1. Delegated' = Bonded(stk')
  BY DEF Delegated, Bonded
<1>2. Ahead("delegations")' = {}
  BY DEF Ahead
<1>3. \A v \in Validators : dist'.outstanding[v] >= 0 /\ dist'.commission[v] >= 0
  BY DEF Solvent, SolventAt, RecordsSound
<1>4. Solvent(dist', stk', (Delegated \ Ahead("delegations"))', Now')
  BY <1>1, <1>2
<1>5. Solvent(dist, stk, Delegated \ Ahead("delegations"), Now)'
  BY <1>4
<1> QED BY <1>3, <1>5 DEF SolvencyInv

\* What solvency says of a chain that runs, and of one that was exported.
LEMMA SolvencyHas ==
  ASSUME ExportInv, SolvencyInv, pc \in Running \cup {"exported"}
  PROVE  /\ height \in 0..MaxHeight /\ Now \in Nat /\ Now < Horizon
         /\ dist.pool >= 0 /\ dist.pool \in Int
         /\ StakingSound(stk) /\ Ledger(dist, Bonded(stk)) /\ Sound(dist, stk)
         /\ Delegated = Bonded(stk) /\ todo = <<>>
         /\ Solvent(dist, stk, Bonded(stk), Now)
<1>1. Delegated = Bonded(stk)
  BY DEF Delegated, Bonded
<1>2. Ahead("delegations") = {}
  BY DEF Ahead, Running
<1>3. RunningInv
  BY QuietIs
<1>4. /\ todo = <<>> /\ Sound(dist, stk) /\ StakingSound(stk)
      /\ Ledger(dist, Bonded(stk)) /\ dist.pool \in Int
  BY <1>3 DEF RunningInv, Sound, Ledger, DistTyped
<1>5. height \in 0..MaxHeight /\ dist.pool >= 0 /\ Solvent(dist, stk, Bonded(stk), Now)
  BY <1>1, <1>2 DEF SolvencyInv, Running
<1>6. Now \in Nat /\ Now < Horizon
  BY <1>5, ExportAssumption DEF Now, Horizon
<1> QED BY <1>1, <1>4, <1>5, <1>6

\* An operation of a block happens below its horizon and keeps its height.
LEMMA OperateSolvent ==
  ASSUME ExportInv, SolvencyInv,
         NEW before, before \in {{"committed"}, InBeginBlock, InTxs},
         NEW at \in {"fees", "faults", "txs"}, Operate(before, at),
         dist'.pool \in Int, dist'.pool >= dist.pool,
         Solvent(dist', stk', Bonded(stk'), Now)
  PROVE  SolvencyInv'
<1>1. pc \in Running /\ pc' \in Running /\ height' = height
  BY DEF Operate, Running, InBeginBlock, InTxs
<1>2. height \in 0..MaxHeight /\ dist.pool >= 0 /\ dist.pool \in Int
  BY <1>1, SolvencyHas
<1>3. Now' = Now
  BY <1>1 DEF Now
<1>4. dist'.pool >= 0
  BY <1>2
<1> QED BY <1>1, <1>2, <1>3, <1>4, SolvencyStep DEF Running

\* Where the stake of nobody changes, nobody is worth less.
LEMMA SameWorth ==
  ASSUME NEW st, StakingSound(st), NEW su, su.del = st.del, su.tokens = st.tokens,
         su.shares = st.shares
  PROVE  \A dl \in Delegations : TokensFromShares(st, dl) <= TokensFromShares(su, dl)
<1> SUFFICES ASSUME NEW dl \in Delegations
             PROVE  TokensFromShares(st, dl) <= TokensFromShares(su, dl)
  OBVIOUS
<1>1. TokensFromShares(st, dl) \in Nat
  BY StakeOf
<1>2. TokensFromShares(su, dl) = TokensFromShares(st, dl)
  BY DEF TokensFromShares
<1> QED BY <1>1, <1>2

\* Ending a block.
LEMMA EndBlockSolvent ==
  ASSUME ExportInv, SolvencyInv, EndBlock PROVE SolvencyInv'
<1>1. /\ pc \in Running /\ height < MaxHeight /\ pc' = "committed"
      /\ height' = height + 1 /\ stk' = stk /\ dist' = dist
  BY DEF EndBlock, Now
<1>2. /\ height \in 0..MaxHeight /\ Now \in Nat /\ dist.pool >= 0
      /\ StakingSound(stk) /\ Ledger(dist, Bonded(stk))
      /\ Solvent(dist, stk, Bonded(stk), Now)
  BY <1>1, SolvencyHas
<1>3. height' \in 0..MaxHeight /\ Now' \in Nat /\ Now <= Now'
  BY <1>1, <1>2, ExportAssumption DEF Now
<1>4. \A dl \in Bonded(stk) : TokensFromShares(stk, dl) <= TokensFromShares(stk, dl)
  BY <1>2, SameWorth DEF Bonded
<1>5. Solvent(dist, stk, Bonded(stk), Now')
  BY <1>2, <1>3, <1>4, LaterSolvent
<1> QED BY <1>1, <1>2, <1>3, <1>5, SolvencyStep DEF Running

\* Allocating fees.
LEMMA AllocateFeesSolvent ==
  ASSUME ExportInv, SolvencyInv, NEW v \in Validators, NEW coins \in Fees,
         AllocateFees(v, coins)
  PROVE  SolvencyInv'
<1> DEFINE c == (coins * Prec) \div 10
<1>1. coins \in Nat /\ c \in Nat /\ c <= coins * Prec
  <2> DEFINE a == coins * Prec
  <2>1. coins \in Nat /\ a \in Nat
    BY ExportAssumption
  <2> HIDE DEF a
  <2>2. a \div 10 \in Nat /\ (a \div 10) * 10 <= a
    BY <2>1, Quotient
  <2>3. a \div 10 <= a
    BY <2>1, <2>2
  <2> QED BY <2>1, <2>2, <2>3 DEF a
<1>2. Operate({"committed"}, "fees") /\ dist' = Allocate(dist, v, coins, c) /\ stk' = stk
  BY DEF AllocateFees
<1> HIDE DEF c
<1>3. pc \in Running
  BY <1>2 DEF Operate, Running
<1>4. /\ Now \in Nat /\ dist.pool \in Int /\ StakingSound(stk)
      /\ Ledger(dist, Bonded(stk)) /\ Solvent(dist, stk, Bonded(stk), Now)
  BY <1>3, SolvencyHas
<1>5. Solvent(dist', stk, Bonded(stk), Now) /\ dist'.pool = dist.pool
  BY <1>1, <1>2, <1>4, AllocateSolvent
<1> QED BY <1>2, <1>4, <1>5, OperateSolvent

\* Delegating.
LEMMA DelegateKeepsSolvent ==
  ASSUME ExportInv, SolvencyInv, NEW dl \in Delegations, NEW amount \in Bonds,
         Delegate(dl, amount)
  PROVE  SolvencyInv'
<1> DEFINE v == dl[2]
           issued == (amount * stk.shares[v]) \div stk.tokens[v]
           after == Bond(stk, dl, amount, issued)
           before == IF dl \in Bonded(stk) THEN PayRewards(dist, stk, dl, Now)
                     ELSE IncrementPeriod(dist, stk, v)
<1>1. amount \in Nat
  BY ExportAssumption
<1>2. Operate(InTxs, "txs") /\ stk.tokens[v] > 0 /\ issued > 0
  BY DEF Delegate
<1>3. pc \in Running
  BY <1>2 DEF Operate, Running, InTxs
<1>4. /\ Now \in Nat /\ Now <= Horizon /\ dist.pool \in Int /\ StakingSound(stk)
      /\ Ledger(dist, Bonded(stk)) /\ Solvent(dist, stk, Bonded(stk), Now)
      /\ Delegated = Bonded(stk)
  BY <1>3, SolvencyHas, HorizonIs
<1>5. stk' = after /\ dist' = InitializeDelegation(before, after, dl, Now)
  BY <1>4 DEF Delegate, Bond
<1>6. Solvent(dist', stk', Bonded(stk'), Now) /\ dist'.pool >= dist.pool
  BY <1>1, <1>2, <1>4, <1>5, DelegateSolvent
<1>7. dist'.pool \in Int
  <2>1. ExportInv'
    BY DelegateKeeps
  <2> QED BY <2>1 DEF ExportInv, DistTyped
<1> QED BY <1>2, <1>6, <1>7, OperateSolvent

\* Undelegating.
LEMMA UndelegateKeepsSolvent ==
  ASSUME ExportInv, SolvencyInv, NEW dl \in Delegations, Undelegate(dl)
  PROVE  SolvencyInv'
<1>1. Operate(InTxs, "txs")
  BY DEF Undelegate
<1>2. pc \in Running
  BY <1>1 DEF Operate, Running, InTxs
<1>3. /\ Now \in Nat /\ Now <= Horizon /\ dist.pool \in Int /\ StakingSound(stk)
      /\ Ledger(dist, Bonded(stk)) /\ Solvent(dist, stk, Bonded(stk), Now)
      /\ Delegated = Bonded(stk)
  BY <1>2, SolvencyHas, HorizonIs
<1>4. /\ dl \in Bonded(stk)
      /\ \E other \in Bonded(stk) : other # dl /\ other[2] = dl[2]
      /\ dist' = PayRewards(dist, stk, dl, Now)
      /\ stk' = Unbond(stk, dl, Now)
  BY <1>3 DEF Undelegate, Unbond
<1>5. Solvent(dist', stk', Bonded(stk'), Now) /\ dist'.pool >= dist.pool
  BY <1>3, <1>4, UndelegateSolvent
<1>6. dist'.pool \in Int
  <2>1. ExportInv'
    BY UndelegateKeeps
  <2> QED BY <2>1 DEF ExportInv, DistTyped
<1> QED BY <1>1, <1>5, <1>6, OperateSolvent

\* Withdrawing rewards.
LEMMA WithdrawKeepsSolvent ==
  ASSUME ExportInv, SolvencyInv, NEW dl \in Delegations, Withdraw(dl)
  PROVE  SolvencyInv'
<1>1. Operate(InTxs, "txs")
  BY DEF Withdraw
<1>2. pc \in Running
  BY <1>1 DEF Operate, Running, InTxs
<1>3. /\ Now \in Nat /\ Now <= Horizon /\ dist.pool \in Int /\ StakingSound(stk)
      /\ Ledger(dist, Bonded(stk)) /\ Solvent(dist, stk, Bonded(stk), Now)
      /\ Delegated = Bonded(stk)
  BY <1>2, SolvencyHas, HorizonIs
<1>4. dl \in Bonded(stk) /\ stk' = stk /\ dist' = WithdrawRewards(dist, stk, dl, Now)
  BY <1>3 DEF Withdraw
<1>5. Solvent(dist', stk, Bonded(stk), Now) /\ dist'.pool >= dist.pool
      /\ Ledger(dist', Bonded(stk))
  BY <1>3, <1>4, WithdrawSolvent
<1>6. dist'.pool \in Int
  BY <1>5 DEF Ledger, DistTyped
<1> QED BY <1>1, <1>4, <1>5, <1>6, OperateSolvent

\* Punishing a fault.
LEMMA SlashKeepsSolvent ==
  ASSUME ExportInv, SolvencyInv, NEW v \in Validators, NEW k \in SlashDivs, Slash(v, k)
  PROVE  SolvencyInv'
<1> DEFINE t == stk.tokens[v]
           burnt == t \div k
           fraction == (burnt * Prec + t - 1) \div t
<1>1. /\ Operate(InBeginBlock, "faults") /\ burnt > 0
      /\ dist' = RecordSlash(dist, stk, v, Now, fraction)
      /\ stk' = Punish(stk, v, burnt, Now)
  BY DEF Slash, Punish
<1>2. pc \in Running
  BY <1>1 DEF Operate, Running, InBeginBlock
<1>3. /\ Now \in Nat /\ Now < Horizon /\ dist.pool \in Int /\ StakingSound(stk)
      /\ Ledger(dist, Bonded(stk)) /\ Solvent(dist, stk, Bonded(stk), Now)
      /\ Sound(dist, stk)
  BY <1>2, SolvencyHas
<1>4. k \in Nat \ {0} /\ t \in Nat
  BY <1>3, ExportAssumption DEF StakingSound
<1>5. burnt \in Nat /\ burnt <= t /\ fraction \in Int /\ 0 < t
  <2> HIDE DEF t
  <2>1. t \div k > 0
    BY <1>1
  <2>2. t \div k \in Nat /\ t \div k <= t /\ ((t \div k) * Prec + t - 1) \div t \in Int
    BY <1>4, <2>1, SlashIs
  <2> QED BY <1>4, <2>1, <2>2
<1>6. Sound(RecordSlash(dist, stk, v, Now, fraction), Punish(stk, v, burnt, Now))
  BY <1>3, <1>5, SlashSound
<1>7. StakingSound(stk')
  BY <1>1, <1>6 DEF Sound
<1>8. /\ stk'.del = stk.del /\ stk'.shares = stk.shares
      /\ stk'.tokens = [stk.tokens EXCEPT ![v] = @ - burnt]
  BY <1>1, <1>3 DEF Punish, StakingSound, GenesisStaking
<1>9. fraction = (burnt * Prec + stk.tokens[v] - 1) \div stk.tokens[v]
  OBVIOUS
<1>10. burnt <= stk.tokens[v] /\ 0 < stk.tokens[v]
  BY <1>5
<1> HIDE DEF burnt, fraction
<1>11. /\ Solvent(dist', stk', Bonded(stk), Now) /\ dist'.pool >= dist.pool
       /\ Ledger(dist', Bonded(stk))
  BY <1>1, <1>3, <1>5, <1>7, <1>8, <1>9, <1>10, SlashSolvent
<1>12. Bonded(stk') = Bonded(stk) /\ dist'.pool \in Int
  BY <1>8, <1>11 DEF Bonded, Ledger, DistTyped
<1> QED BY <1>1, <1>11, <1>12, OperateSolvent

\* Unjailing.
LEMMA UnjailKeepsSolvent ==
  ASSUME ExportInv, SolvencyInv, NEW v \in Validators, Unjail(v) PROVE SolvencyInv'
<1>1. Operate(InTxs, "txs") /\ dist' = dist
  BY DEF Unjail
<1>2. pc \in Running
  BY <1>1 DEF Operate, Running, InTxs
<1>3. /\ Now \in Nat /\ dist.pool \in Int /\ StakingSound(stk)
      /\ Ledger(dist, Bonded(stk)) /\ Solvent(dist, stk, Bonded(stk), Now)
  BY <1>2, SolvencyHas
<1>4. ExportInv'
  BY UnjailKeeps
<1>5. StakingSound(stk')
  BY <1>4 DEF ExportInv
<1>6. stk'.del = stk.del /\ stk'.tokens = stk.tokens /\ stk'.shares = stk.shares
  BY <1>3 DEF Unjail, StakingSound, GenesisStaking
<1>7. \A dl \in Bonded(stk) : TokensFromShares(stk, dl) <= TokensFromShares(stk', dl)
  BY <1>3, <1>6, SameWorth DEF Bonded
<1>8. Solvent(dist, stk', Bonded(stk), Now)
  BY <1>3, <1>5, <1>7, LaterSolvent
<1>9. Bonded(stk') = Bonded(stk)
  BY <1>6 DEF Bonded
<1> QED BY <1>1, <1>3, <1>8, <1>9, OperateSolvent

(***************************************************************************)
(* The steps of an export and of a new chain.                              *)
(***************************************************************************)
\* With starts at height zero and no slashes, any height will do.
LEMMA RestartedSolvent ==
  ASSUME NEW D, NEW st, NEW S, NEW h, Solvent(D, st, S, h), NEW k \in Nat,
         \A dl \in S : D.start[dl].height = 0,
         \A v \in Validators : D.slashes[v] = <<>>
  PROVE  Solvent(D, st, S, k)
<1> SUFFICES ASSUME NEW v \in Validators PROVE SolventAt(D, st, S, k, v)
  BY DEF Solvent
<1>1. SolventAt(D, st, S, h, v) /\ D.slashes[v] = <<>>
  BY DEF Solvent
<1>2. ASSUME NEW dl \in S, dl[2] = v PROVE InStep(D, st, dl, k)
  BY <1>1, <1>2 DEF SolventAt, InStep
<1> QED BY <1>1, <1>2 DEF SolventAt

\* Starting a chain from an exported genesis.
LEMMA InitChainSolvent ==
  ASSUME ExportInv, SolvencyInv, InitChain PROVE SolvencyInv'
<1>1. /\ pc = "exported" /\ pc' = "fees" /\ stk' = stk /\ dist' = dist
      /\ height' = IF genesis = 0 THEN 0 ELSE genesis - 1
  BY DEF InitChain
<1>2. /\ height \in 0..MaxHeight /\ Now \in Nat /\ dist.pool >= 0
      /\ Solvent(dist, stk, Bonded(stk), Now) /\ Delegated = Bonded(stk)
  BY <1>1, SolvencyHas
<1>3. genesis = 0 \/ genesis = Now
  BY <1>1 DEF SolvencyInv, Running
<1>4. CASE genesis = 0
  <2>1. Cleared /\ Restarted = Bonded(stk)
    BY <1>1, <1>2, <1>4 DEF Cleared, Rewritten, Restarted
  <2>2. /\ \A dl \in Bonded(stk) : dist.start[dl].height = 0
        /\ \A v \in Validators : dist.slashes[v] = <<>>
    BY <2>1 DEF ExportInv, ClearedSoFar
  <2>3. height' = 0 /\ Now' = 1 /\ 0 \in 0..MaxHeight
    BY <1>1, <1>2, <1>4, ExportAssumption DEF Now
  <2>4. Solvent(dist, stk, Bonded(stk), 1)
    BY <1>2, <2>2, RestartedSolvent
  <2> QED BY <1>1, <1>2, <2>3, <2>4, SolvencyStep DEF Running
<1>5. CASE genesis # 0
  <2>1. height' = height /\ Now' = Now
    BY <1>1, <1>2, <1>3, <1>5 DEF Now
  <2> QED BY <1>1, <1>2, <2>1, SolvencyStep DEF Running
<1> QED BY <1>4, <1>5

\* Exporting at a height.
LEMMA ExportAtHeightSolvent ==
  ASSUME ExportInv, SolvencyInv, ExportAtHeight PROVE SolvencyInv'
<1>1. /\ pc \in Running /\ pc' = "exported" /\ genesis' = height + 1
      /\ height' = height /\ stk' = stk /\ dist' = dist
  BY DEF ExportAtHeight, Running, Chain
<1>2. /\ height \in 0..MaxHeight /\ dist.pool >= 0
      /\ Solvent(dist, stk, Bonded(stk), Now)
  BY <1>1, SolvencyHas
<1>3. Now' = Now /\ genesis' = Now'
  BY <1>1 DEF Now
<1> QED BY <1>1, <1>2, <1>3, SolvencyStep

\* Beginning an export for zero height.
LEMMA ExportForZeroHeightSolvent ==
  ASSUME ExportInv, SolvencyInv, NEW list, ExportForZeroHeight(list) PROVE SolvencyInv'
<1>1. /\ pc \in Running /\ pc' = "commission" /\ genesis' = 0
      /\ height' = height /\ stk' = stk /\ dist' = dist
  BY DEF ExportForZeroHeight, Running, Chain
<1>2. /\ height \in 0..MaxHeight /\ dist.pool >= 0
      /\ Solvent(dist, stk, Bonded(stk), Now)
  BY <1>1, SolvencyHas
<1>3. Now' = Now
  BY <1>1 DEF Now
<1> QED BY <1>1, <1>2, <1>3, SolvencyStep

\* Refusing an allow list.
LEMMA RefuseAllowListSolvent ==
  ASSUME ExportInv, SolvencyInv, NEW list, RefuseAllowList(list) PROVE SolvencyInv'
<1>1. /\ pc \in Running /\ pc' = "refused" /\ genesis' = 0
      /\ height' = height /\ stk' = stk /\ dist' = dist
  BY DEF RefuseAllowList, Running, Chain
<1>2. /\ height \in 0..MaxHeight /\ dist.pool >= 0
      /\ Solvent(dist, stk, Bonded(stk), Now)
  BY <1>1, SolvencyHas
<1>3. Now' = Now
  BY <1>1 DEF Now
<1> QED BY <1>1, <1>2, <1>3, SolvencyStep

\* Until its commissions are paid, an export leaves the chain solvent.
LEMMA CommissionHas ==
  ASSUME ExportInv, SolvencyInv, pc = "commission"
  PROVE  /\ height \in 0..MaxHeight /\ Now \in Nat /\ genesis = 0
         /\ dist.pool >= 0 /\ StakingSound(stk) /\ Ledger(dist, Bonded(stk))
         /\ Solvent(dist, stk, Bonded(stk), Now)
<1>1. /\ Delegated = Bonded(stk) /\ StakingSound(stk) /\ Ledger(dist, Bonded(stk))
  BY EarlyHas
<1>2. Ahead("delegations") = {}
  BY DEF Ahead
<1>3. /\ height \in 0..MaxHeight /\ dist.pool >= 0 /\ genesis = 0
      /\ Solvent(dist, stk, Bonded(stk), Now)
  BY <1>1, <1>2 DEF SolvencyInv, Running
<1> QED BY <1>1, <1>3, NowIs

\* Paying a commission.
LEMMA PayCommissionSolvent ==
  ASSUME ExportInv, SolvencyInv, NEW v \in Validators, PayCommission(v)
  PROVE  SolvencyInv'
<1>1. /\ pc = "commission" /\ pc' = "commission" /\ height' = height /\ genesis' = genesis
      /\ dist' = WithdrawCommission(dist, v) /\ stk' = stk
  BY DEF PayCommission, Visit, Paused, Chain
<1>2. /\ height \in 0..MaxHeight /\ Now \in Nat /\ genesis = 0
      /\ dist.pool >= 0 /\ StakingSound(stk) /\ Ledger(dist, Bonded(stk))
      /\ Solvent(dist, stk, Bonded(stk), Now)
  BY <1>1, CommissionHas
<1>3. Solvent(dist', stk, Bonded(stk), Now) /\ dist'.pool = dist.pool
  BY <1>1, <1>2, CommissionSolvent
<1>4. Now' = Now
  BY <1>1 DEF Now
<1> QED BY <1>1, <1>2, <1>3, <1>4, SolvencyStep

\* Once the commissions are paid, what is outstanding covers the rewards of
\* the current periods.
LEMMA CommissionPaidSolvent ==
  ASSUME ExportInv, SolvencyInv, CommissionPaid PROVE SolvencyInv'
<1>1. /\ pc = "commission" /\ pc' = "rewards" /\ height' = height /\ genesis' = genesis
      /\ dist' = dist /\ stk' = stk
  BY DEF CommissionPaid, Goto, Paused, Chain
<1>2. /\ height \in 0..MaxHeight /\ Now \in Nat /\ genesis = 0
      /\ dist.pool >= 0 /\ StakingSound(stk) /\ Ledger(dist, Bonded(stk))
      /\ Solvent(dist, stk, Bonded(stk), Now)
  BY <1>1, CommissionHas
<1>3. ASSUME NEW v \in Validators
      PROVE  /\ dist.outstanding[v] >= 0 /\ dist.commission[v] >= 0
             /\ dist.cur[v].rewards >= 0 /\ dist.cur[v].rewards <= dist.outstanding[v]
  <2>1. SolventAt(dist, stk, Bonded(stk), Now, v)
    BY <1>2 DEF Solvent
  <2>2. /\ dist.commission[v] \in Nat /\ dist.cur[v].rewards \in Nat
        /\ dist.outstanding[v] \in Nat
        /\ dist.commission[v] + dist.cur[v].rewards <= dist.outstanding[v]
    BY <1>2, <2>1, ClaimsCover
  <2> QED BY <2>2
<1>4. StillCovered'
  BY <1>1, <1>3 DEF StillCovered
<1> QED BY <1>1, <1>2, <1>3, <1>4 DEF SolvencyInv

\* What a withdrawal needs not to overdraw validator v: it pays at most what
\* is outstanding.
CoveredAt(D, st, v) ==
  /\ D.outstanding[v] >= 0 /\ D.commission[v] >= 0 /\ D.cur[v].rewards >= 0
  /\ st.tokens[v] = 0 => D.cur[v].rewards <= D.outstanding[v]

\* A withdrawal, at whatever height, leaves that so.
LEMMA WithdrawCovered ==
  ASSUME NEW D, NEW S, Ledger(D, S), NEW st, StakingSound(st), NEW dl \in S,
         NEW h \in Nat, \A v \in Validators : CoveredAt(D, st, v)
  PROVE  LET E == WithdrawRewards(D, st, dl, h) IN
         E.pool >= D.pool /\ \A v \in Validators : CoveredAt(E, st, v)
<1> DEFINE v == dl[2]
           G == IncrementPeriod(D, st, v)
           F == PayRewards(D, st, dl, h)
           E == WithdrawRewards(D, st, dl, h)
           r == Pending(D, st, dl, h).rewards
           raw == Least(r, G.outstanding[v])
           coins == raw \div Prec
           T == S \ {dl}
           p == D.start[dl].prev
<1>1. dl \in Delegations /\ v \in Validators /\ st.tokens \in [Validators -> Nat]
      /\ TokensFromShares(st, dl) \in Int
  BY StakeOf DEF Ledger, StakingSound
<1>2. Ledger(G, S) /\ Closed(D, G, v)
  BY <1>1, IncrementKeeps
<1>3. Ledger(F, T) /\ Settles(D, F, dl)
  BY <1>1, PayKeeps
<1>4. r \in Int
  BY <1>1, PendingIs
<1>5. /\ DOMAIN G = DOMAIN GenesisDistribution /\ G.outstanding \in [Validators -> Int]
      /\ D.outstanding \in [Validators -> Int]
      /\ G.pool \in Int /\ D.pool \in Int
      /\ \A w \in Validators : D.cur[w].rewards \in Int
  BY <1>2 DEF Ledger, DistTyped
<1>6. /\ F.outstanding = [G.outstanding EXCEPT ![v] = @ - raw]
      /\ F.pool = G.pool + (raw - coins * Prec)
      /\ F.cur = G.cur /\ F.commission = G.commission
  <2> HIDE DEF G, raw, coins
  <2>1. F = [G EXCEPT
               !.outstanding[v] = @ - raw,
               !.pool = @ + (raw - coins * Prec),
               !.balance = @ - coins,
               !.hist[v] = DecRef(@, D.start[dl].prev),
               !.start[dl] = NoStart]
    BY DEF PayRewards, G, raw, coins
  <2> QED BY <1>5, <2>1 DEF GenesisDistribution
<1>7. Started(F, E, st, dl, h)
  <2>1. dl \notin T /\ E = InitializeDelegation(F, st, dl, h)
    BY DEF WithdrawRewards
  <2> HIDE DEF E, F, T
  <2> QED BY <1>1, <1>3, <2>1, InitializeKeeps
<1>8. PICK gain \in Int, lost \in Int : ClosedBy(D, G, st, v, gain, lost)
  BY <1>1, IncrementIs
<1> HIDE DEF G, F, E, r, raw
<1>9. CoveredAt(D, st, v)
  BY <1>1
<1>10. /\ lost >= 0 /\ G.outstanding[v] = D.outstanding[v] - lost
       /\ G.pool = D.pool + lost /\ G.outstanding[v] >= 0
  <2> DEFINE t == st.tokens[v]
             u == D.cur[v].rewards
             o == D.outstanding[v]
  <2>1. /\ t = 0 => lost = u
        /\ t # 0 => lost = 0
        /\ G.outstanding[v] = o - lost /\ G.pool = D.pool + lost
    BY <1>8 DEF ClosedBy
  <2>2. o >= 0 /\ u >= 0 /\ (t = 0 => u <= o)
    BY <1>9 DEF CoveredAt
  <2>3. o \in Int /\ u \in Int
    BY <1>1, <1>5
  <2> HIDE DEF t, u, o
  <2>4. lost >= 0 /\ o - lost >= 0
    BY <2>1, <2>2, <2>3
  <2> QED BY <2>1, <2>4 DEF o
<1>11. raw \in Int /\ raw <= G.outstanding[v]
  BY <1>1, <1>4, <1>5 DEF raw, Least
<1>12. coins * Prec \in Int /\ coins * Prec <= raw
  <2>1. coins \in Int /\ coins * Prec <= raw
    BY <1>11, HorizonIs, Quotient
  <2> HIDE DEF coins
  <2> QED BY <2>1, HorizonIs
<1> HIDE DEF coins
<1>13. E.pool >= D.pool
  BY <1>5, <1>6, <1>7, <1>10, <1>11, <1>12 DEF Started
<1>14. CoveredAt(E, st, v)
  <2>1. /\ E.outstanding[v] = G.outstanding[v] - raw /\ E.cur[v].rewards = 0
        /\ E.commission[v] = D.commission[v]
    BY <1>1, <1>2, <1>5, <1>6, <1>7 DEF Started, Closed
  <2>2. E.outstanding[v] >= 0
    BY <1>1, <1>5, <1>11, <2>1
  <2> QED BY <1>9, <2>1, <2>2 DEF CoveredAt
<1>15. ASSUME NEW w \in Validators \ {v} PROVE CoveredAt(E, st, w)
  <2>1. /\ E.outstanding[w] = D.outstanding[w] /\ E.cur[w] = D.cur[w]
        /\ E.commission[w] = D.commission[w]
    BY <1>1, <1>2, <1>5, <1>6, <1>7 DEF Started, Closed
  <2> QED BY <2>1 DEF CoveredAt
<1> QED BY <1>13, <1>14, <1>15 DEF E

\* Paying a delegation.
LEMMA PayDelegationSolvent ==
  ASSUME ExportInv, SolvencyInv, NEW dl \in Delegations, PayDelegation(dl)
  PROVE  SolvencyInv'
<1>1. /\ pc = "rewards" /\ pc' = "rewards" /\ Visit("rewards", dl)
      /\ height' = height /\ genesis' = genesis
      /\ dist' = WithdrawRewards(dist, stk, dl, 0) /\ stk' = stk
  BY DEF PayDelegation, Visit, Paused, Chain, ExportHeight
<1>2. /\ VisitsOnce /\ Delegated = Bonded(stk) /\ StakingSound(stk)
      /\ Ledger(dist, Bonded(stk))
  BY <1>1, EarlyHas
<1>3. dl \in Bonded(stk)
  <2>1. todo \in Seq(Bonded(stk)) /\ todo # <<>> /\ Head(todo) = dl
    BY <1>1, <1>2 DEF VisitsOnce, Entries, Visit
  <2> QED BY <2>1
<1>4. \A v \in Validators : CoveredAt(dist, stk, v)
  BY <1>1 DEF SolvencyInv, StillCovered, CoveredAt
<1>5. dist'.pool >= dist.pool /\ \A v \in Validators : CoveredAt(dist', stk, v)
  BY <1>1, <1>2, <1>3, <1>4, WithdrawCovered
<1>6. dist.pool >= 0 /\ dist.pool \in Int /\ dist'.pool \in Int
  <2>1. ExportInv'
    BY PayDelegationKeeps
  <2> QED BY <2>1 DEF ExportInv, DistTyped, SolvencyInv
<1>7. dist'.pool >= 0
  BY <1>5, <1>6
<1>8. StillCovered'
  BY <1>1, <1>5 DEF StillCovered, CoveredAt
<1>9. genesis' = 0
  BY <1>1 DEF SolvencyInv, Running
<1> QED BY <1>1, <1>5, <1>7, <1>8, <1>9 DEF SolvencyInv, CoveredAt

\* Where the export need not cover anything, nothing is overdrawn.
LEMMA NotOverdrawn ==
  ASSUME SolvencyInv, pc \in {"rewards", "clear", "validators"},
         pc' \in {"clear", "panic", "validators"},
         height' = height, genesis' = genesis,
         dist'.pool >= 0,
         \A v \in Validators : dist'.outstanding[v] >= 0 /\ dist'.commission[v] >= 0
  PROVE  SolvencyInv'
BY DEF SolvencyInv, Running

\* A delegation whose stake check fails.
LEMMA RewardsPanicSolvent ==
  ASSUME SolvencyInv, NEW dl \in Delegations, RewardsPanic(dl) PROVE SolvencyInv'
<1>1. /\ pc = "rewards" /\ pc' = "panic" /\ dist' = dist
      /\ height' = height /\ genesis' = genesis
  BY DEF RewardsPanic, Visit, Paused, Chain
<1> QED BY <1>1, NotOverdrawn DEF SolvencyInv

\* From the rewards to the history.
LEMMA RewardsPaidSolvent ==
  ASSUME SolvencyInv, RewardsPaid PROVE SolvencyInv'
<1>1. /\ pc = "rewards" /\ pc' = "clear" /\ dist' = dist
      /\ height' = height /\ genesis' = genesis
  BY DEF RewardsPaid, Goto, Paused, Chain
<1> QED BY <1>1, NotOverdrawn DEF SolvencyInv

\* Clearing slash events and historical rewards.
LEMMA ClearHistorySolvent ==
  ASSUME ExportInv, SolvencyInv, ClearHistory PROVE SolvencyInv'
<1>1. /\ pc = "clear" /\ pc' = "validators"
      /\ height' = height /\ genesis' = genesis
      /\ dist' = [dist EXCEPT !.slashes = [v \in Validators |-> <<>>],
                              !.hist = [v \in Validators |-> <<>>]]
  BY DEF ClearHistory, Goto, Paused, Chain
<1>2. /\ dist'.pool = dist.pool /\ dist'.outstanding = dist.outstanding
      /\ dist'.commission = dist.commission
  BY <1>1 DEF ExportInv, DistTyped, GenesisDistribution
<1> QED BY <1>1, <1>2, NotOverdrawn DEF SolvencyInv

\* Initialising a validator again: what was outstanding goes to the pool.
LEMMA ReinitValidatorSolvent ==
  ASSUME ExportInv, SolvencyInv, NEW v \in Validators, ReinitValidator(v)
  PROVE  SolvencyInv'
<1>1. /\ pc = "validators" /\ pc' = "validators"
      /\ height' = height /\ genesis' = genesis
      /\ dist' = InitializeValidator([dist EXCEPT !.pool = @ + dist.outstanding[v]], v)
  BY DEF ReinitValidator, Visit, Paused, Chain
<1>2. /\ DOMAIN dist = DOMAIN GenesisDistribution /\ dist.pool \in Int
      /\ dist.outstanding \in [Validators -> Int] /\ dist.commission \in [Validators -> Int]
  BY DEF ExportInv, DistTyped
<1>3. /\ dist'.pool = dist.pool + dist.outstanding[v]
      /\ dist'.outstanding = [dist.outstanding EXCEPT ![v] = 0]
      /\ dist'.commission = [dist.commission EXCEPT ![v] = 0]
  BY <1>1, <1>2 DEF InitializeValidator, GenesisDistribution
<1>4. /\ dist.pool >= 0
      /\ \A w \in Validators : dist.outstanding[w] >= 0 /\ dist.commission[w] >= 0
  BY DEF SolvencyInv
<1>5. dist'.pool >= 0
  <2>1. dist.outstanding[v] \in Int /\ dist.outstanding[v] >= 0
    BY <1>2, <1>4
  <2> QED BY <1>2, <1>3, <1>4, <2>1
<1>6. \A w \in Validators : dist'.outstanding[w] >= 0 /\ dist'.commission[w] >= 0
  BY <1>2, <1>3, <1>4
<1> QED BY <1>1, <1>5, <1>6, NotOverdrawn

\* The step of the loop that starts the delegations again.
LEMMA AheadStep ==
  ASSUME height' \in 0..MaxHeight, genesis' = 0, dist'.pool >= 0, pc' = "delegations",
         NEW S, S = Bonded(stk') \ Left', Solvent(dist', stk', S, Now')
  PROVE  SolvencyInv'
<1>1. Delegated' = Bonded(stk')
  BY DEF Delegated, Bonded
<1>2. Ahead("delegations")' = Left'
  BY DEF Ahead
<1>3. \A v \in Validators : dist'.outstanding[v] >= 0 /\ dist'.commission[v] >= 0
  BY DEF Solvent, SolventAt, RecordsSound
<1>4. Solvent(dist', stk', (Delegated \ Ahead("delegations"))', Now')
  BY <1>1, <1>2
<1>5. Solvent(dist, stk, Delegated \ Ahead("delegations"), Now)'
  BY <1>4
<1> QED BY <1>3, <1>5 DEF SolvencyInv

\* Initialised validators owe nothing.
LEMMA ValidatorsReadySolvent ==
  ASSUME ExportInv, SolvencyInv, ValidatorsReady PROVE SolvencyInv'
<1>1. /\ pc = "validators" /\ pc' = "delegations"
      /\ Goto("validators", "delegations", InOrder(Delegated))
      /\ height' = height /\ genesis' = genesis /\ dist' = dist /\ stk' = stk
  BY DEF ValidatorsReady, Goto, Paused, Chain
<1>2. /\ LateInv /\ VisitsOnce /\ Delegated = Bonded(stk)
      /\ Bonded(stk) \subseteq Delegations
      /\ \A v \in Validators : dist.slashes[v] = <<>>
  BY <1>1, LateHas
<1>3. Left' = Delegated /\ Left = {}
  <2>1. Entries' = Delegated /\ Delegated' = Delegated
    BY <1>1 DEF Entries, Delegated
  <2>2. IsFiniteSet(Delegated)
    BY <1>2, FiniteDelegations
  <2> QED BY <1>1, <1>2, <2>1, <2>2, GotoKeeps
<1>4. ASSUME NEW v \in Validators
      PROVE  /\ dist.hist[v] = [p \in {0} |-> [ratio |-> 0, refs |-> 1]]
             /\ dist.cur[v] = [rewards |-> 0, period |-> 1]
             /\ dist.outstanding[v] = 0 /\ dist.commission[v] = 0
  <2>1. v \in Validators \ Left /\ v \in Validators \ Ahead("validators")
    BY <1>1, <1>3 DEF Ahead
  <2> QED BY <1>1, <1>2, <2>1 DEF LateInv, CountsKept
<1>5. ASSUME NEW v \in Validators PROVE SolventAt(dist, stk, {}, Now, v)
  <2>1. RecordsSound(dist, v)
    BY <1>4 DEF RecordsSound
  <2>2. Claims(dist, {}, v) = 0
    <3>1. {dl \in {} : dl[2] = v} = {}
      OBVIOUS
    <3>2. SumFunctionOnSet([dl \in Delegations |-> Earned(dist, dl)], {}) = 0
      BY SumEmpty
    <3>3. dist.commission[v] = 0 /\ dist.cur[v].rewards = 0 /\ (0 + 0) * Prec = 0
      BY <1>4, HorizonIs
    <3> QED BY <3>1, <3>2, <3>3 DEF Claims
  <2>3. 0 <= dist.outstanding[v] * Prec
    BY <1>4, HorizonIs
  <2>4. dist.slashes[v] = <<>>
    BY <1>2
  <2> QED BY <2>1, <2>2, <2>3, <2>4 DEF SolventAt
<1>6. Solvent(dist, stk, {}, Now)
  BY <1>5 DEF Solvent
<1>7. /\ height \in 0..MaxHeight /\ genesis = 0 /\ dist.pool >= 0
  BY <1>1 DEF SolvencyInv, Running
<1>8. {} = Bonded(stk') \ Left' /\ Now' = Now
  BY <1>1, <1>2, <1>3 DEF Now
<1> QED BY <1>1, <1>6, <1>7, <1>8, AheadStep

\* Initialising a delegation again: it has earned nothing yet.
LEMMA ReinitDelegationSolvent ==
  ASSUME ExportInv, SolvencyInv, NEW dl \in Delegations, ReinitDelegation(dl)
  PROVE  SolvencyInv'
<1> DEFINE v == dl[2]
           F == IncrementPeriod(dist, stk, v)
           S == Bonded(stk) \ Left
<1>1. /\ pc = "delegations" /\ pc' = "delegations" /\ Visit("delegations", dl)
      /\ todo' = Tail(todo) /\ height' = height /\ genesis' = genesis /\ stk' = stk
      /\ dist' = InitializeDelegation(F, stk, dl, 0)
  BY DEF ReinitDelegation, Visit, Paused, Chain, ExportHeight
<1>2. /\ LateInv /\ VisitsOnce /\ Delegated = Bonded(stk)
      /\ Bonded(stk) \subseteq Delegations /\ StakingSound(stk)
      /\ DistTyped(dist) /\ Balanced(dist)
  BY <1>1, LateHas
<1>3. Entries = Delegated /\ Entries' = Entries
  BY <1>1 DEF Entries, Delegated
<1>4. dl \in Left /\ dl \in Bonded(stk) /\ Left' = Left \ {dl}
  BY <1>1, <1>2, <1>3, VisitKeeps
<1>5. Delegated \ Ahead("delegations") = S
  BY <1>1, <1>2 DEF Ahead
<1>6. Ledger(dist, S)
  <2>1. Counted(dist, S)
    BY <1>1, <1>2, <1>5 DEF LateInv, CountsKept
  <2>2. S \subseteq Delegations
    BY <1>2
  <2> HIDE DEF S
  <2>3. Exact(dist, S)
    BY <1>2, <2>1, <2>2, CountedEverywhere
  <2> QED BY <1>2, <2>2, <2>3 DEF Ledger
<1>7. /\ height \in 0..MaxHeight /\ genesis = 0 /\ dist.pool >= 0
      /\ Solvent(dist, stk, S, Now)
  BY <1>1, <1>5 DEF SolvencyInv, Running
<1>8. Now \in Nat /\ Now' = Now /\ v \in Validators /\ dl \notin S
  BY <1>1, <1>4, NowIs, StakeOf, <1>2 DEF Now
<1>9. S \cup {dl} = Bonded(stk') \ Left'
  BY <1>1, <1>4
<1> HIDE DEF S, F, v
<1>10. Ledger(F, S) /\ Solvent(F, stk, S, Now) /\ F.pool >= dist.pool
  BY <1>2, <1>6, <1>7, <1>8, IncrementSolvent DEF F
<1>11. /\ Ledger(dist', S \cup {dl}) /\ Solvent(dist', stk, S \cup {dl}, Now)
       /\ dist'.pool = F.pool
  <2>1. 0 \in Nat /\ 0 <= Now
    BY <1>8
  <2> QED BY <1>1, <1>2, <1>8, <1>10, <2>1, InitializeSolvent
<1>12. dist'.pool >= 0
  <2>1. F.pool \in Int /\ dist.pool \in Int
    BY <1>2, <1>10 DEF Ledger, DistTyped
  <2> QED BY <1>7, <1>10, <1>11, <2>1
<1> QED BY <1>1, <1>7, <1>8, <1>9, <1>11, <1>12, AheadStep

\* A late step that changes no book.
LEMMA BooksStaySolvent ==
  ASSUME ExportInv, SolvencyInv, ExportInv',
         pc \in {"delegations", "unbonding", "jailing", "apply", "slashing"},
         pc' \in {"unbonding", "jailing", "apply", "slashing", "fatal", "exported"},
         pc = "delegations" => Left = {},
         dist' = dist, height' = height, genesis' = genesis,
         stk'.del = stk.del, stk'.tokens = stk.tokens, stk'.shares = stk.shares
  PROVE  SolvencyInv'
<1>1. /\ LateInv /\ Delegated = Bonded(stk) /\ Bonded(stk) \subseteq Delegations
      /\ StakingSound(stk) /\ DistTyped(dist) /\ Balanced(dist)
  BY LateHas
<1>2. Delegated \ Ahead("delegations") = Bonded(stk)
  BY <1>1 DEF Ahead
<1>3. Ledger(dist, Bonded(stk))
  <2>1. Counted(dist, Bonded(stk))
    BY <1>1, <1>2 DEF LateInv, CountsKept
  <2>2. Exact(dist, Bonded(stk))
    BY <1>1, <2>1, CountedEverywhere
  <2> QED BY <1>1, <2>2 DEF Ledger
<1>4. /\ height \in 0..MaxHeight /\ genesis = 0 /\ dist.pool >= 0
      /\ Solvent(dist, stk, Bonded(stk), Now)
  BY <1>2 DEF SolvencyInv, Running
<1>5. StakingSound(stk')
  BY DEF ExportInv
<1>6. \A dl \in Bonded(stk) : TokensFromShares(stk, dl) <= TokensFromShares(stk', dl)
  BY <1>1, SameWorth
<1>7. Now \in Nat /\ Now <= Now /\ Now' = Now
  BY NowIs DEF Now
<1>8. Solvent(dist, stk', Bonded(stk), Now)
  BY <1>1, <1>3, <1>4, <1>5, <1>6, <1>7, LaterSolvent
<1>9. Bonded(stk') = Bonded(stk)
  BY DEF Bonded
<1> QED BY <1>4, <1>7, <1>8, <1>9, SolvencyStep

\* From the delegations to the unbonding entries.
LEMMA DelegationsReadySolvent ==
  ASSUME ExportInv, SolvencyInv, DelegationsReady PROVE SolvencyInv'
<1>1. /\ pc = "delegations" /\ pc' = "unbonding" /\ todo = <<>>
      /\ height' = height /\ genesis' = genesis /\ dist' = dist /\ stk' = stk
  BY DEF DelegationsReady, Goto, Paused, Chain
<1> QED BY <1>1, DelegationsReadyKeeps, NothingLeft, BooksStaySolvent

\* Rewriting the unbonding entries.
LEMMA ResetEntriesSolvent ==
  ASSUME ExportInv, SolvencyInv, ResetEntries PROVE SolvencyInv'
<1>1. /\ pc = "unbonding" /\ pc' = "jailing"
      /\ height' = height /\ genesis' = genesis /\ dist' = dist
  BY DEF ResetEntries, Goto, Paused, Chain
<1>2. stk'.del = stk.del /\ stk'.tokens = stk.tokens /\ stk'.shares = stk.shares
  BY DEF ResetEntries, ExportInv, StakingSound, GenesisStaking
<1> QED BY <1>1, <1>2, ResetEntriesKeeps, BooksStaySolvent

\* Rewriting a validator.
LEMMA ResetValidatorSolvent ==
  ASSUME ExportInv, SolvencyInv, NEW v \in Validators, ResetValidator(v)
  PROVE  SolvencyInv'
<1>1. /\ pc = "jailing" /\ pc' = "jailing"
      /\ height' = height /\ genesis' = genesis /\ dist' = dist
  BY DEF ResetValidator, Visit, Paused, Chain
<1>2. stk'.del = stk.del /\ stk'.tokens = stk.tokens /\ stk'.shares = stk.shares
  BY DEF ResetValidator, ExportInv, StakingSound, GenesisStaking
<1> QED BY <1>1, <1>2, ResetValidatorKeeps, BooksStaySolvent

\* From the validators to the validator set.
LEMMA ValidatorsResetSolvent ==
  ASSUME ExportInv, SolvencyInv, ValidatorsReset PROVE SolvencyInv'
<1>1. /\ pc = "jailing" /\ pc' = "apply"
      /\ height' = height /\ genesis' = genesis /\ dist' = dist /\ stk' = stk
  BY DEF ValidatorsReset, Goto, Paused, Chain
<1> QED BY <1>1, ValidatorsResetKeeps, BooksStaySolvent

\* Applying the validator set.
LEMMA ApplyValidatorSetSolvent ==
  ASSUME ExportInv, SolvencyInv, ApplyValidatorSet PROVE SolvencyInv'
<1>1. /\ pc = "apply" /\ pc' \in {"slashing", "fatal"}
      /\ height' = height /\ genesis' = genesis /\ dist' = dist /\ stk' = stk
  BY DEF ApplyValidatorSet, Goto, Paused, Chain
<1> QED BY <1>1, ApplyValidatorSetKeeps, BooksStaySolvent

\* Rewriting the signing infos, the last step.
LEMMA ResetSigningInfosSolvent ==
  ASSUME ExportInv, SolvencyInv, ResetSigningInfos PROVE SolvencyInv'
<1>1. /\ pc = "slashing" /\ pc' = "exported"
      /\ height' = height /\ genesis' = genesis /\ dist' = dist
  BY DEF ResetSigningInfos, Goto, Paused, Chain
<1>2. stk'.del = stk.del /\ stk'.tokens = stk.tokens /\ stk'.shares = stk.shares
  BY DEF ResetSigningInfos, ExportInv, StakingSound, GenesisStaking
<1> QED BY <1>1, <1>2, ResetSigningInfosKeeps, BooksStaySolvent

(***************************************************************************)
(* The theorems.                                                           *)
(***************************************************************************)
\* At genesis nobody has earned anything.
LEMMA SolvencyInitially == Init => SolvencyInv
<1> SUFFICES ASSUME Init PROVE SolvencyInv
  OBVIOUS
<1> DEFINE S == Bonded(stk)
<1>1. /\ height = 0 /\ genesis = 0 /\ todo = <<>> /\ pc = "fees"
      /\ stk = GenesisStaking /\ dist = GenesisDistribution
  BY DEF Init
<1>2. /\ GenesisDels \subseteq Delegations /\ Prec \in Nat \ {0} /\ GenesisBond = 4
      /\ MaxHeight \in Nat
  BY ExportAssumption DEF GenesisBond
<1>3. S = GenesisDels /\ Delegated = S
  BY <1>1, <1>2 DEF Bonded, Delegated, GenesisStaking
<1>4. StakingSound(stk) /\ Ledger(dist, S)
  <2>1. RunningInv
    BY <1>1, ExportInitially, QuietIs DEF Running
  <2> QED BY <2>1 DEF RunningInv, Sound
<1>5. Now = 1
  BY <1>1 DEF Now
<1>6. ASSUME NEW v \in Validators
      PROVE  /\ DOMAIN dist.hist[v] = {1} /\ dist.hist[v][1].ratio = 0
             /\ dist.cur[v] = [rewards |-> 0, period |-> 2]
             /\ dist.slashes[v] = <<>> /\ dist.outstanding[v] = 0 /\ dist.commission[v] = 0
  BY <1>1 DEF GenesisDistribution
<1>7. ASSUME NEW dl \in S PROVE InStep(dist, stk, dl, 1) /\ Earned(dist, dl) = 0
  <2>1. dl \in GenesisDels /\ dl \in Delegations /\ dl[2] \in Validators
    BY <1>2, <1>3 DEF Delegations
  <2>2. dist.start[dl] = [prev |-> 1, stake |-> 4 * Prec, height |-> 0]
    BY <1>1, <1>2, <2>1 DEF GenesisDistribution
  <2>3. TokensFromShares(stk, dl) = (4 * 4 * Prec) \div 4
    BY <1>1, <1>2, <2>1 DEF TokensFromShares, GenesisStaking
  <2>4. (4 * 4 * Prec) \div 4 = 4 * Prec
    BY <1>2
  <2>5. dist.cur[dl[2]].period - 1 = 1
    BY <1>6, <2>1
  <2>6. dist.start[dl] = [prev |-> dist.cur[dl[2]].period - 1,
                          stake |-> TokensFromShares(stk, dl), height |-> 0]
    BY <2>2, <2>3, <2>4, <2>5
  <2>7. 0 \in Nat /\ 1 \in Nat /\ 0 <= 1
    OBVIOUS
  <2> HIDE DEF S
  <2> QED BY <1>4, <2>6, <2>7, NothingEarned
<1>8. ASSUME NEW v \in Validators PROVE SolventAt(dist, stk, S, 1, v)
  <2>1. RecordsSound(dist, v)
    BY <1>6 DEF RecordsSound
  <2> DEFINE e == [dl \in Delegations |-> Earned(dist, dl)]
             C == {dl \in S : dl[2] = v}
  <2>2. SumFunctionOnSet(e, C) = 0
    <3>1. C \subseteq Delegations /\ C \subseteq S
      BY <1>2, <1>3
    <3>2. \A dl \in C : e[dl] = 0
      BY <1>7, <3>1
    <3> HIDE DEF e, C
    <3> QED BY <3>1, <3>2, FiniteDelegations, SumZero
  <2>3. Claims(dist, S, v) = 0
    <3>1. Claims(dist, S, v)
            = (dist.commission[v] + dist.cur[v].rewards) * Prec + SumFunctionOnSet(e, C)
      BY DEF Claims
    <3> HIDE DEF e, C
    <3>2. dist.commission[v] = 0 /\ dist.cur[v].rewards = 0 /\ (0 + 0) * Prec = 0
      BY <1>2, <1>6
    <3> QED BY <2>2, <3>1, <3>2
  <2>4. 0 <= dist.outstanding[v] * Prec
    BY <1>2, <1>6
  <2>5. dist.slashes[v] = <<>>
    BY <1>6
  <2> QED BY <1>7, <2>1, <2>3, <2>4, <2>5 DEF SolventAt
<1>9. Solvent(dist, stk, Delegated \ Ahead("delegations"), Now)
  <2>1. Ahead("delegations") = {}
    BY <1>1 DEF Ahead
  <2>2. Solvent(dist, stk, S, 1)
    BY <1>8 DEF Solvent
  <2> HIDE DEF S
  <2> QED BY <1>3, <1>5, <2>1, <2>2
<1>10. dist.pool = 0
  BY <1>1 DEF GenesisDistribution
<1> QED BY <1>1, <1>2, <1>6, <1>9, <1>10 DEF SolvencyInv

\* Every step keeps the chain solvent.
LEMMA SolvencyStepKeeps == ExportInv /\ SolvencyInv /\ [Next]_vars => SolvencyInv'
<1> SUFFICES ASSUME ExportInv, SolvencyInv, [Next]_vars PROVE SolvencyInv'
  OBVIOUS
<1>1. CASE EndBlock
  BY <1>1, EndBlockSolvent
<1>2. ASSUME NEW v \in Validators, NEW coins \in Fees, AllocateFees(v, coins)
      PROVE  SolvencyInv'
  BY <1>2, AllocateFeesSolvent
<1>3. ASSUME NEW dl \in Delegations, NEW amount \in Bonds, Delegate(dl, amount)
      PROVE  SolvencyInv'
  BY <1>3, DelegateKeepsSolvent
<1>4. ASSUME NEW dl \in Delegations, Undelegate(dl) \/ Withdraw(dl) PROVE SolvencyInv'
  BY <1>4, UndelegateKeepsSolvent, WithdrawKeepsSolvent
<1>5. ASSUME NEW v \in Validators, NEW k \in SlashDivs, Slash(v, k) PROVE SolvencyInv'
  BY <1>5, SlashKeepsSolvent
<1>6. ASSUME NEW v \in Validators, Unjail(v) PROVE SolvencyInv'
  BY <1>6, UnjailKeepsSolvent
<1>7. CASE ExportAtHeight
  BY <1>7, ExportAtHeightSolvent
<1>8. ASSUME NEW list \in AllowLists, ExportForZeroHeight(list) \/ RefuseAllowList(list)
      PROVE  SolvencyInv'
  BY <1>8, ExportForZeroHeightSolvent, RefuseAllowListSolvent
<1>9. CASE ExportStep
  <2>1. ASSUME NEW v \in Validators,
               PayCommission(v) \/ ReinitValidator(v) \/ ResetValidator(v)
        PROVE  SolvencyInv'
    BY <2>1, PayCommissionSolvent, ReinitValidatorSolvent, ResetValidatorSolvent
  <2>2. ASSUME NEW dl \in Delegations,
               PayDelegation(dl) \/ RewardsPanic(dl) \/ ReinitDelegation(dl)
        PROVE  SolvencyInv'
    BY <2>2, PayDelegationSolvent, RewardsPanicSolvent, ReinitDelegationSolvent
  <2>3. CASE CommissionPaid \/ RewardsPaid \/ ClearHistory \/ ValidatorsReady
    BY <2>3, CommissionPaidSolvent, RewardsPaidSolvent, ClearHistorySolvent,
       ValidatorsReadySolvent
  <2>4. CASE DelegationsReady \/ ResetEntries \/ ValidatorsReset
    BY <2>4, DelegationsReadySolvent, ResetEntriesSolvent, ValidatorsResetSolvent
  <2>5. CASE ApplyValidatorSet \/ ResetSigningInfos
    BY <2>5, ApplyValidatorSetSolvent, ResetSigningInfosSolvent
  <2> QED BY <1>9, <2>1, <2>2, <2>3, <2>4, <2>5 DEF ExportStep
<1>10. CASE InitChain
  BY <1>10, InitChainSolvent
<1>11. CASE UNCHANGED vars
  BY <1>11 DEF vars, SolvencyInv, StillCovered, Delegated, Ahead, Left, Now
<1> QED BY <1>1, <1>2, <1>3, <1>4, <1>5, <1>6, <1>7, <1>8, <1>9, <1>10, <1>11 DEF Next

\* SolvencyInv holds at every step of every block and export, on every chain:
\* outside the steps of prepForZeroHeightGenesis that rewrite the records,
\* what is outstanding to a validator covers what everybody has earned.
THEOREM SolvencyInvariance == Spec => []SolvencyInv
<1>1. Init => SolvencyInv
  BY SolvencyInitially
<1>2. ExportInv /\ SolvencyInv /\ [Next]_vars => SolvencyInv'
  BY SolvencyStepKeeps
<1> QED BY <1>1, <1>2, ExportInvariance, PTL DEF Spec

\* What the delegators of v could withdraw, and its commission, are covered.
LEMMA PendingsCovered ==
  ASSUME NEW D, NEW S, Ledger(D, S), NEW st, StakingSound(st), NEW v \in Validators,
         NEW h \in Nat, h <= Horizon, Solvent(D, st, S, h)
  PROVE  LET C == Claimants(S, v) IN
         D.outstanding[v] >= D.commission[v]
           + SumFunctionOnSet([dl \in C |-> Pending(D, st, dl, h).rewards], C)
<1> DEFINE G == IncrementPeriod(D, st, v)
           C == Claimants(S, v)
           p == [dl \in C |-> Pending(D, st, dl, h).rewards]
           none == [dl \in C |-> 0]
           e == Earns(G)
<1>1. /\ Ledger(G, S) /\ Closed(D, G, v) /\ Solvent(G, st, S, h)
      /\ G.outstanding[v] <= D.outstanding[v]
  BY IncrementSolvent
<1>2. D.outstanding[v] \in Int
  BY DEF Ledger, DistTyped
<1>3. ASSUME NEW dl \in C
      PROVE  /\ Pending(D, st, dl, h).rewards \in Nat /\ Earned(G, dl) \in Nat
             /\ Pending(D, st, dl, h).rewards * Prec <= Earned(G, dl)
             /\ e[dl] = Earned(G, dl)
  <2>1. dl \in S /\ dl[2] = v /\ dl \in Delegations
    BY DEF Claimants, Ledger
  <2>2. LET P == Pending(D, st, dl, h)
            H == IncrementPeriod(D, st, dl[2])
        IN /\ P.rewards \in Int /\ P.rewards >= 0
           /\ P.rewards * Prec <= Earned(H, dl) /\ Earned(H, dl) \in Nat
    BY <2>1, PendingCovered
  <2>3. e[dl] = Earned(G, dl)
    BY <2>1 DEF Earns
  <2> HIDE DEF e
  <2> QED BY <2>1, <2>2, <2>3
<1>4. IsFiniteSet(C)
  <2>1. C \subseteq Delegations
    BY DEF Claimants, Ledger
  <2> HIDE DEF C
  <2> QED BY <2>1, FiniteDelegations
<1>5. SolventAt(G, st, S, h, v)
  BY <1>1 DEF Solvent
<1>6. /\ SumFunctionOnSet(e, C) \in Nat
      /\ (G.commission[v] + G.cur[v].rewards) * Prec + SumFunctionOnSet(e, C)
           <= G.outstanding[v] * Prec
      /\ G.commission[v] \in Nat /\ G.outstanding[v] \in Nat
  BY <1>1, <1>5, ClaimsCover
<1>7. G.cur[v].rewards = 0 /\ G.commission = D.commission
  BY <1>1 DEF Closed
<1>8. \A dl \in C : p[dl] = Pending(D, st, dl, h).rewards /\ none[dl] = 0
  OBVIOUS
<1> HIDE DEF G, C, p, none, e
<1>9. ASSUME NEW dl \in C
      PROVE  /\ e[dl] \in Int /\ none[dl] \in Int /\ p[dl] \in Nat
             /\ none[dl] <= e[dl] + (0 - Prec) * p[dl]
  <2> DEFINE r == Pending(D, st, dl, h).rewards
  <2>1. r \in Nat /\ e[dl] \in Nat /\ r * Prec <= e[dl] /\ p[dl] = r /\ none[dl] = 0
    BY <1>3, <1>8
  <2> HIDE DEF r
  <2>2. (0 - Prec) * r = 0 - r * Prec /\ r * Prec \in Int
    BY <2>1, HorizonIs
  <2> QED BY <2>1, <2>2
<1> DEFINE su == SumFunctionOnSet(p, C)
           se == SumFunctionOnSet(e, C)
<1>10. SumFunctionOnSet(none, C) <= se + (0 - Prec) * su
  <2>1. 0 - Prec \in Int
    BY HorizonIs
  <2>2. \A x \in C : /\ e[x] \in Int /\ none[x] \in Int /\ p[x] \in Int
                     /\ none[x] <= e[x] + (0 - Prec) * p[x]
    BY <1>9
  <2> QED BY <1>4, <2>1, <2>2, SumScaled
<1>11. SumFunctionOnSet(none, C) = 0
  BY <1>4, <1>8, SumZero
<1>12. su \in Nat
  BY <1>4, <1>9, SumNat
<1> DEFINE c == D.commission[v]
           g == G.outstanding[v]
<1>13. /\ c \in Nat /\ g \in Nat /\ se \in Nat /\ (c + 0) * Prec + se <= g * Prec
  BY <1>6, <1>7
<1> HIDE DEF su, se, c, g
<1>14. c + su <= g
  <2>1. /\ (0 - Prec) * su = 0 - su * Prec /\ su * Prec \in Int
        /\ (c + su) * Prec = c * Prec + su * Prec /\ (c + 0) * Prec = c * Prec
        /\ c * Prec \in Int /\ g * Prec \in Int
    BY <1>12, <1>13, HorizonIs
  <2>2. (c + su) * Prec <= g * Prec
    BY <1>10, <1>11, <1>12, <1>13, <2>1
  <2>3. Prec * (c + su) <= Prec * g
    BY <1>12, <1>13, <2>2, HorizonIs
  <2> QED BY <1>12, <1>13, <2>3, HorizonIs, TimesLess
<1>15. g <= D.outstanding[v]
  BY <1>1 DEF g
<1>16. D.outstanding[v] >= c + su
  BY <1>2, <1>12, <1>13, <1>14, <1>15
<1> QED BY <1>16 DEF c, su, p, C

\* Whenever a withdrawal can run, on a running chain or one started from an
\* exported genesis, the stake check of calculateDelegationRewards holds and
\* what is outstanding to a validator covers its commission and all that its
\* delegators could withdraw: none is cut short.
THEOREM RewardsAreCovered == Spec => []RewardsCovered
<1>1. ASSUME ExportInv, SolvencyInv PROVE RewardsCovered
  <2> SUFFICES ASSUME Settled, NEW v \in Validators
               PROVE  /\ \A dl \in Of(v) : Pending(dist, stk, dl, Now).sane
                      /\ dist.outstanding[v] >=
                           dist.commission[v]
                           + SumFunction([dl \in Of(v) |->
                                            Pending(dist, stk, dl, Now).rewards])
    BY DEF RewardsCovered
  <2>1. /\ Now \in Nat /\ Now <= Horizon /\ StakingSound(stk)
        /\ Ledger(dist, Bonded(stk)) /\ Delegated = Bonded(stk)
        /\ Solvent(dist, stk, Bonded(stk), Now)
    BY <1>1, SolvencyHas, HorizonIs DEF Settled
  <2>2. Of(v) = Claimants(Bonded(stk), v)
    BY <2>1 DEF Of, Claimants
  <2>3. \A dl \in Of(v) : Pending(dist, stk, dl, Now).sane
    BY <2>1, PendingCovered DEF Of
  <2> DEFINE C == Claimants(Bonded(stk), v)
             p == [dl \in C |-> Pending(dist, stk, dl, Now).rewards]
  <2>4. dist.outstanding[v] >= dist.commission[v] + SumFunctionOnSet(p, C)
    BY <2>1, PendingsCovered
  <2>5. SumFunction(p) = SumFunctionOnSet(p, C)
    BY DEF SumFunction
  <2>6. dist.outstanding[v] >= dist.commission[v] + SumFunction(p)
    BY <2>4, <2>5
  <2> QED BY <2>2, <2>3, <2>6
<1> QED BY <1>1, ExportInvariance, SolvencyInvariance, PTL

\* What the export owes is counted in whole coins.
LEMMA OwedIsInt ==
  ASSUME ExportInv, SolvencyInv, pc = "committed"
  PROVE  \A dl \in Delegations : OwedNow(dl) \in Int
<1> TAKE dl \in Delegations
<1>1. /\ Now \in Nat /\ Now <= Horizon /\ StakingSound(stk)
      /\ Ledger(dist, Bonded(stk)) /\ Delegated = Bonded(stk)
      /\ Solvent(dist, stk, Bonded(stk), Now)
  BY SolvencyHas, HorizonIs DEF Running
<1> DEFINE r == Pending(dist, stk, dl, Now).rewards
<1>2. CASE dl \in Bonded(stk)
  <2>1. r \in Int
    BY <1>1, <1>2, PendingCovered
  <2>2. OwedNow(dl) = IF Pending(dist, stk, dl, Now).sane THEN r \div Prec ELSE 0
    BY <1>1, <1>2 DEF OwedNow
  <2> HIDE DEF r
  <2>3. r \div Prec \in Int
    BY <2>1, HorizonIs, Quotient
  <2> QED BY <2>2, <2>3
<1>3. CASE dl \notin Bonded(stk)
  BY <1>1, <1>3 DEF OwedNow
<1> QED BY <1>2, <1>3

\* Every step keeps the counters within their bounds.
LEMMA CountersStepKeeps ==
  ExportInv /\ ExportInv' /\ SolvencyInv /\ CountersInv /\ [Next]_vars => CountersInv'
<1> SUFFICES ASSUME ExportInv, ExportInv', SolvencyInv, CountersInv, [Next]_vars
             PROVE  CountersInv'
  OBVIOUS
<1>1. /\ genesis \in 0..(MaxHeight + 1) /\ ops \in 0..MaxOps /\ chain \in 1..MaxChains
      /\ pc \in Steps /\ allowed \subseteq Words /\ owed \in [Delegations -> Int]
      /\ height \in 0..MaxHeight
  BY DEF CountersInv, SolvencyInv
<1>2. MaxHeight \in Nat /\ MaxOps \in Nat /\ MaxChains \in Nat \ {0}
  BY ExportAssumption
<1>3. ASSUME NEW before, NEW at \in Running, Operate(before, at) PROVE CountersInv'
  BY <1>1, <1>2, <1>3 DEF Operate, CountersInv, Steps
<1>4. ASSUME Paused, ops' = ops, chain' = chain, pc' \in Steps, owed' = owed
      PROVE  CountersInv'
  BY <1>1, <1>4 DEF Paused, CountersInv
<1>5. CASE EndBlock
  BY <1>1, <1>5 DEF EndBlock, CountersInv, Steps, Running
<1>6. ASSUME NEW v \in Validators, NEW coins \in Fees, AllocateFees(v, coins)
      PROVE  CountersInv'
  BY <1>3, <1>6 DEF AllocateFees, Running
<1>7. ASSUME NEW dl \in Delegations, NEW amount \in Bonds, Delegate(dl, amount)
      PROVE  CountersInv'
  BY <1>3, <1>7 DEF Delegate, Running
<1>8. ASSUME NEW dl \in Delegations, Undelegate(dl) \/ Withdraw(dl) PROVE CountersInv'
  BY <1>3, <1>8 DEF Undelegate, Withdraw, Running
<1>9. ASSUME NEW v \in Validators, NEW k \in SlashDivs, Slash(v, k) PROVE CountersInv'
  BY <1>3, <1>9 DEF Slash, Running
<1>10. ASSUME NEW v \in Validators, Unjail(v) PROVE CountersInv'
  BY <1>3, <1>10 DEF Unjail, Running
<1>11. CASE ExportAtHeight
  BY <1>1, <1>2, <1>11 DEF ExportAtHeight, Chain, CountersInv, Steps, Running
<1>12. ASSUME NEW list \in AllowLists, ExportForZeroHeight(list) \/ RefuseAllowList(list)
       PROVE  CountersInv'
  <2>1. /\ pc = "committed" /\ pc' \in {"commission", "refused"}
        /\ allowed' = list /\ genesis' = 0
        /\ owed' \in {owed, [dl \in Delegations |-> OwedNow(dl)]}
        /\ ops' = ops /\ chain' = chain
    BY <1>12 DEF ExportForZeroHeight, RefuseAllowList, Chain
  <2>2. owed' \in [Delegations -> Int]
    BY <1>1, <2>1, OwedIsInt
  <2>3. list \subseteq Words
    BY ExportAssumption
  <2> QED BY <1>1, <1>2, <2>1, <2>2, <2>3 DEF CountersInv, Steps
<1>13. CASE ExportStep
  <2>1. ASSUME NEW v \in Validators,
               PayCommission(v) \/ ReinitValidator(v) \/ ResetValidator(v)
        PROVE  CountersInv'
    <3>1. Paused /\ ops' = ops /\ chain' = chain /\ pc' = pc /\ owed' = owed
      BY <2>1 DEF PayCommission, ReinitValidator, ResetValidator, Paused, Chain
    <3> QED BY <1>1, <1>4, <3>1
  <2>2. ASSUME NEW dl \in Delegations, PayDelegation(dl) PROVE CountersInv'
    <3>1. /\ ops' = ops /\ chain' = chain /\ pc' = pc /\ allowed' = allowed
          /\ genesis' = genesis
          /\ owed' = [owed EXCEPT ![dl] = @ - (dist.balance - dist'.balance)]
      BY <2>2 DEF PayDelegation, Paused, Chain
    <3>2. dist.balance \in Int /\ dist'.balance \in Int
      BY DEF ExportInv, DistTyped
    <3>3. owed' \in [Delegations -> Int]
      BY <1>1, <3>1, <3>2
    <3> QED BY <1>1, <3>1, <3>3 DEF CountersInv
  <2>3. ASSUME NEW dl \in Delegations, RewardsPanic(dl) \/ ReinitDelegation(dl)
        PROVE  CountersInv'
    <3>1. Paused /\ ops' = ops /\ chain' = chain /\ pc' \in {pc, "panic"} /\ owed' = owed
      BY <2>3 DEF RewardsPanic, ReinitDelegation, Paused, Chain
    <3> QED BY <1>1, <1>4, <3>1 DEF Steps
  <2>4. CASE \/ CommissionPaid \/ RewardsPaid \/ ClearHistory \/ ValidatorsReady
             \/ DelegationsReady \/ ResetEntries \/ ValidatorsReset
             \/ ApplyValidatorSet \/ ResetSigningInfos
    <3>1. /\ Paused /\ ops' = ops /\ chain' = chain /\ owed' = owed
          /\ pc' \in {"rewards", "clear", "validators", "delegations", "unbonding",
                      "jailing", "apply", "slashing", "fatal", "exported"}
      BY <2>4 DEF CommissionPaid, RewardsPaid, ClearHistory, ValidatorsReady,
         DelegationsReady, ResetEntries, ValidatorsReset, ApplyValidatorSet,
         ResetSigningInfos, Goto, Paused, Chain
    <3> QED BY <1>4, <3>1 DEF Steps
  <2> QED BY <1>13, <2>1, <2>2, <2>3, <2>4 DEF ExportStep
<1>14. CASE InitChain
  BY <1>1, <1>2, <1>14 DEF InitChain, CountersInv, Steps, Running
<1>15. CASE UNCHANGED vars
  BY <1>15 DEF vars, CountersInv
<1> QED
  BY <1>5, <1>6, <1>7, <1>8, <1>9, <1>10, <1>11, <1>12, <1>13, <1>14, <1>15 DEF Next

\* CountersInv holds at every step: an export stays within its steps, and
\* heights, operations and chains within their bounds.
THEOREM CountersInvariance == Spec => []CountersInv
<1>1. Init => CountersInv
  BY ExportAssumption DEF Init, CountersInv, Steps, Running
<1>2. ExportInv /\ ExportInv' /\ SolvencyInv /\ CountersInv /\ [Next]_vars => CountersInv'
  BY CountersStepKeeps
<1> QED BY <1>1, <1>2, ExportInvariance, SolvencyInvariance, PTL DEF Spec

\* Every variable has its type: no amount the distribution module keeps, its
\* account, the community pool, what is outstanding and the commissions, is
\* ever negative, not even halfway through an export.
THEOREM ExportTypes == Spec => []TypeOK
<1>1. ASSUME ExportInv, SolvencyInv, CountersInv PROVE TypeOK
  <2>1. /\ height \in 0..MaxHeight /\ genesis \in 0..(MaxHeight + 1)
        /\ ops \in 0..MaxOps /\ chain \in 1..MaxChains
        /\ pc \in Steps /\ allowed \subseteq Words /\ owed \in [Delegations -> Int]
    BY <1>1 DEF SolvencyInv, CountersInv
  <2>2. todo \in Seq(Validators) \cup Seq(Delegations)
    <3>1. Entries \subseteq Validators \/ Entries \subseteq Delegations
      BY DEF Entries, Delegated
    <3>2. todo \in Seq(Entries)
      BY <1>1 DEF ExportInv, VisitsOnce
    <3> QED BY <3>1, <3>2
  <2>3. /\ stk.del \in [Delegations -> Nat] /\ stk.tokens \in [Validators -> Nat]
        /\ stk.shares \in [Validators -> Nat]
        /\ stk.jailed \subseteq Validators /\ stk.power \subseteq Validators
    BY <1>1 DEF ExportInv, StakingSound
  <2>4. /\ dist.balance \in Int /\ dist.pool \in Int
        /\ dist.outstanding \in [Validators -> Int]
        /\ dist.commission \in [Validators -> Int]
        /\ dist.balance * Prec = SumFunction(dist.outstanding) + dist.pool
    BY <1>1 DEF ExportInv, DistTyped, Balanced
  <2>5. /\ dist.pool \in Nat
        /\ dist.outstanding \in [Validators -> Nat]
        /\ dist.commission \in [Validators -> Nat]
    BY <1>1, <2>4 DEF SolvencyInv
  <2>6. dist.balance \in Nat
    <3> DEFINE s == SumFunction(dist.outstanding)
               b == dist.balance
    <3>1. s \in Nat
      <4>1. \A v \in Validators : dist.outstanding[v] \in Nat
        BY <2>5
      <4>2. SumFunctionOnSet(dist.outstanding, Validators) \in Nat
        BY <4>1, FiniteDelegations, SumNat
      <4> QED BY <2>5, <4>2 DEF SumFunction
    <3>2. b \in Int /\ b * Prec = s + dist.pool
      BY <2>4
    <3> HIDE DEF s, b
    <3>3. Prec * 0 <= Prec * b
      BY <2>5, <3>1, <3>2, HorizonIs
    <3>4. 0 <= b
      BY <3>2, <3>3, HorizonIs, TimesLess
    <3> QED BY <3>2, <3>4 DEF b
  <2> QED BY <2>1, <2>2, <2>3, <2>5, <2>6 DEF TypeOK
<1> QED BY <1>1, ExportInvariance, SolvencyInvariance, CountersInvariance, PTL

---------------------------------------------------------------------------
(* Later delegations.                                                      *)

\* The ratio that closing the current period of v records.
Closing(D, st, v) ==
  D.hist[v][D.cur[v].period - 1].ratio
  + (IF st.tokens[v] = 0 THEN 0 ELSE D.cur[v].rewards \div st.tokens[v])

\* Closing the period records it.
LEMMA ClosingIs ==
  ASSUME NEW D, NEW S, Ledger(D, S), NEW st, StakingSound(st), NEW v \in Validators
  PROVE  /\ IncrementPeriod(D, st, v).hist[v][D.cur[v].period].ratio = Closing(D, st, v)
         /\ Closing(D, st, v) \in Int
<1> DEFINE E == IncrementPeriod(D, st, v)
           r == D.cur[v].rewards
           n == D.cur[v].period
           t == st.tokens[v]
           h == D.hist[v]
           gain == IF t = 0 THEN 0 ELSE r \div t
           new == [ratio |-> h[n - 1].ratio + gain, refs |-> 1]
           g == DecRef(h, n - 1)
<1>1. DistTyped(D) /\ n - 1 \in DOMAIN h
  BY ReferencesType DEF Ledger
<1>2. /\ r \in Int /\ t \in Nat /\ DOMAIN D.hist = Validators /\ h[n - 1].ratio \in Int
  <2>1. D.cur[v] \in [rewards : Int, period : Nat \ {0}]
    BY <1>1 DEF DistTyped
  <2>2. DOMAIN D.hist = Validators /\ Records(h)
    BY <1>1 DEF DistTyped, Records
  <2> QED BY <1>1, <2>1, <2>2 DEF StakingSound, Records
<1>3. E.hist = [D.hist EXCEPT ![v] = WithRecord(g, n, new)]
  BY <1>1 DEF IncrementPeriod, DistTyped, GenesisDistribution
<1>4. gain \in Int
  <2> HIDE DEF r, t
  <2> QED BY <1>2, Quotient
<1> HIDE DEF E, g, gain, r, t
<1>5. E.hist[v] = WithRecord(g, n, new)
  BY <1>2, <1>3
<1>6. E.hist[v][n] = new
  BY <1>5 DEF WithRecord
<1>7. Closing(D, st, v) = h[n - 1].ratio + gain
  BY DEF Closing, gain, r, t
<1>8. E.hist[v][n].ratio = h[n - 1].ratio + gain /\ h[n - 1].ratio + gain \in Int
  BY <1>2, <1>4, <1>6
<1> QED BY <1>7, <1>8 DEF E

\* The rewards of its whole stake since the start of dl.
Unreduced(D, st, dl) ==
  LET s == D.start[dl]
      w == TokensFromShares(st, dl)
  IN [sane |-> s.stake <= w + 3,
      rewards |-> ((Closing(D, st, dl[2]) - D.hist[dl[2]][s.prev].ratio)
                   * Least(s.stake, w)) \div Prec]

\* Where no slash was recorded, these are its rewards, at whatever context
\* height other than that of the start they are calculated.
LEMMA UnslashedPending ==
  ASSUME NEW D, NEW S, Ledger(D, S), NEW st, StakingSound(st), NEW dl \in S,
         NEW h \in Nat, D.slashes[dl[2]] = <<>>, D.start[dl].height # h
  PROVE  Pending(D, st, dl, h) = Unreduced(D, st, dl)
<1> DEFINE v == dl[2]
           s == D.start[dl]
           w == TokensFromShares(st, dl)
           n == D.cur[v].period
           G == IncrementPeriod(D, st, v)
           x == Closing(D, st, v)
           y == D.hist[v][s.prev].ratio
           q == ((x - y) * Least(s.stake, w)) \div Prec
<1>1. dl \in Delegations /\ v \in Validators /\ w \in Nat
      /\ st.tokens \in [Validators -> Nat]
  BY StakeOf DEF Ledger, StakingSound
<1>2. Ledger(G, S) /\ Closed(D, G, v)
  BY <1>1, IncrementKeeps
<1>3. PICK gain \in Int, lost \in Int : ClosedBy(D, G, st, v, gain, lost)
  BY <1>1, IncrementIs
<1>4. G.hist[v][n].ratio = x /\ x \in Int
  BY <1>1, ClosingIs
<1>5. Pending(D, st, dl, h) = DelegationRewards(G, st, dl, n, h)
  BY DEF Pending
<1> HIDE DEF G, x
<1>6. Tracked(G, dl) /\ G.start[dl] = s /\ G.slashes[v] = <<>>
  BY <1>2, TrackedIn DEF Closed
<1>7. AfterSlashes(G, dl, h) = [from |-> s.prev, stake |-> s.stake, rewards |-> 0]
  <2>1. \A i \in DOMAIN G.slashes[dl[2]] : G.slashes[dl[2]][i].period <= G.start[dl].prev
    BY <1>6
  <2>2. AfterSlashes(G, dl, h) =
          [from |-> G.start[dl].prev, stake |-> G.start[dl].stake, rewards |-> 0]
    BY <1>6, <2>1, NoSlash
  <2> QED BY <1>6, <2>2
<1>8. G.hist[v][s.prev].ratio = y /\ y \in Int /\ s.stake \in Int
  <2>1. s \in [prev : Nat, stake : Int, height : Nat]
    BY <1>1 DEF Ledger, DistTyped
  <2>2. s.prev <= n - 1 /\ n - 1 \in Nat /\ s.prev \in DOMAIN D.hist[v] /\ Records(D.hist[v])
    <3>1. D.start[dl].prev <= n - 1 /\ n - 1 \in Nat /\ Records(D.hist[v])
      BY TrackedIn
    <3>2. D.start[dl].prev \in DOMAIN D.hist[v]
      BY <1>1, ReferencesType
    <3> QED BY <3>1, <3>2
  <2>3. s.prev \in DOMAIN G.hist[v]
    <3>1. G.start[dl].prev \in DOMAIN G.hist[dl[2]]
      BY <1>1, <1>2, ReferencesType
    <3> QED BY <1>6, <3>1
  <2>4. n \in Nat
    BY <1>1 DEF Ledger, DistTyped
  <2>5. s.prev # n
    BY <2>1, <2>2, <2>4
  <2>6. G.hist[v][s.prev].ratio = y
    BY <1>3, <2>3, <2>5 DEF ClosedBy
  <2>7. y \in Int
    BY <2>2 DEF Records
  <2> QED BY <2>1, <2>6, <2>7
<1>9. q \in Int
  <2> DEFINE k == s.stake
             l == Least(k, w)
  <2>1. k \in Int
    BY <1>8
  <2> HIDE DEF k, y, w
  <2>2. l \in Int
    BY <1>1, <2>1 DEF Least
  <2> HIDE DEF l
  <2>3. (x - y) * l \in Int
    BY <1>4, <1>8, <2>2
  <2> DEFINE z == (x - y) * l
  <2>4. z \in Int
    BY <2>3
  <2> HIDE DEF z
  <2>5. z \div Prec \in Int
    BY <2>4, HorizonIs, Quotient
  <2> QED BY <2>5 DEF z, l, k
<1>10. Between(G.hist[v], s.prev, n, Least(s.stake, w)) = q
  BY <1>4, <1>8 DEF Between
<1> HIDE DEF q, y
<1>11. DelegationRewards(G, st, dl, n, h)
         = [sane |-> s.stake <= w + 3, rewards |-> 0 + q]
  BY <1>6, <1>7, <1>10 DEF DelegationRewards
<1>12. 0 + q = q
  BY <1>9
<1>13. Unreduced(D, st, dl) = [sane |-> s.stake <= w + 3, rewards |-> q]
  BY DEF Unreduced, q, x, y
<1> QED BY <1>5, <1>11, <1>12, <1>13

\* Two states that agree on them calculate the same.
LEMMA PendingStays ==
  ASSUME NEW D, NEW S, Ledger(D, S), NEW E, NEW T, Ledger(E, T),
         NEW st, StakingSound(st), NEW dl, dl \in S, dl \in T, NEW h \in Nat,
         D.slashes[dl[2]] = <<>>, E.slashes[dl[2]] = <<>>,
         E.start[dl] = D.start[dl], D.start[dl].height # h,
         Closing(E, st, dl[2]) = Closing(D, st, dl[2]), RatiosKept(D, E, dl[2])
  PROVE  Pending(E, st, dl, h) = Pending(D, st, dl, h)
<1> DEFINE v == dl[2]
           p == D.start[dl].prev
<1>1. v \in Validators
  BY DEF Ledger, Delegations
<1>2. p \in DOMAIN D.hist[v]
  BY <1>1, ReferencesType
<1>3. p \in DOMAIN E.hist[v]
  <2>1. E.start[dl].prev \in DOMAIN E.hist[dl[2]]
    BY <1>1, ReferencesType
  <2> QED BY <2>1
<1>4. E.hist[v][p].ratio = D.hist[v][p].ratio
  BY <1>2, <1>3 DEF RatiosKept
<1>5. Pending(D, st, dl, h) = Unreduced(D, st, dl)
  BY UnslashedPending
<1>6. Pending(E, st, dl, h) = Unreduced(E, st, dl)
  <2>1. E.start[dl].height # h
    OBVIOUS
  <2> QED BY <2>1, UnslashedPending
<1>7. Unreduced(E, st, dl) = Unreduced(D, st, dl)
  BY <1>4 DEF Unreduced
<1> QED BY <1>5, <1>6, <1>7

\* What a withdrawal at context height k leaves as it was: the slashes, the
\* ratio that closing a period would record, the ratios of the records, and
\* the starts of the other delegations.
LEMMA WithdrawLeaves ==
  ASSUME NEW D, NEW S, Ledger(D, S), NEW st, StakingSound(st), NEW dl \in S,
         NEW k \in Nat
  PROVE  LET E == WithdrawRewards(D, st, dl, k) IN
         /\ Ledger(E, S) /\ E.slashes = D.slashes /\ E.start[dl].height = k
         /\ \A x \in Delegations \ {dl} : E.start[x] = D.start[x]
         /\ \A w \in Validators :
              Closing(E, st, w) = Closing(D, st, w) /\ RatiosKept(D, E, w)
<1> DEFINE v == dl[2]
           G == IncrementPeriod(D, st, v)
           F == PayRewards(D, st, dl, k)
           E == WithdrawRewards(D, st, dl, k)
           T == S \ {dl}
           n == D.cur[v].period
           p == D.start[dl].prev
           raw == Least(Pending(D, st, dl, k).rewards, G.outstanding[v])
           coins == raw \div Prec
<1>1. dl \in Delegations /\ v \in Validators /\ TokensFromShares(st, dl) \in Int
      /\ st.tokens \in [Validators -> Nat] /\ DistTyped(D)
  BY StakeOf DEF Ledger, StakingSound
<1>2. Ledger(G, S) /\ Closed(D, G, v)
  BY <1>1, IncrementKeeps
<1>3. Ledger(F, T) /\ Settles(D, F, dl)
  BY <1>1, PayKeeps
<1>4. Ledger(E, T \cup {dl}) /\ Started(F, E, st, dl, k)
      /\ E = InitializeDelegation(F, st, dl, k)
  <2>1. dl \notin T /\ E = InitializeDelegation(F, st, dl, k)
    BY DEF WithdrawRewards
  <2> HIDE DEF E, F, T
  <2> QED BY <1>1, <1>3, <2>1, InitializeKeeps
<1>5. PICK gain \in Int, lost \in Int : ClosedBy(D, G, st, v, gain, lost)
  BY <1>1, IncrementIs
<1>6. G.hist[v][n].ratio = Closing(D, st, v) /\ Closing(D, st, v) \in Int
  BY <1>1, ClosingIs
<1>7. /\ DOMAIN G = DOMAIN GenesisDistribution /\ DOMAIN G.hist = Validators
      /\ Records(G.hist[v]) /\ DOMAIN F = DOMAIN GenesisDistribution
      /\ DOMAIN F.hist = Validators /\ Records(F.hist[v])
      /\ F.cur[v].period \in Nat \ {0}
  BY <1>1, <1>2, <1>3 DEF Ledger, DistTyped, Records
<1>8. F.hist = [G.hist EXCEPT ![v] = DecRef(@, p)] /\ F.cur = G.cur
  <2> HIDE DEF G, raw, coins
  <2>1. F = [G EXCEPT
               !.outstanding[v] = @ - raw,
               !.pool = @ + (raw - coins * Prec),
               !.balance = @ - coins,
               !.hist[v] = DecRef(@, D.start[dl].prev),
               !.start[dl] = NoStart]
    BY DEF PayRewards, G, raw, coins
  <2> QED BY <1>7, <2>1 DEF GenesisDistribution
<1> HIDE DEF G, F, E
<1>9. E.hist = [F.hist EXCEPT ![v] = IncRef(@, F.cur[v].period - 1)]
  BY <1>4, <1>7 DEF InitializeDelegation, GenesisDistribution
<1>10. n \in Nat \ {0} /\ DOMAIN D.hist[v] \subseteq 0..(n - 1)
  BY <1>1 DEF DistTyped
<1>11. E.cur[v] = [rewards |-> 0, period |-> n + 1]
       /\ \A w \in Validators \ {v} : E.cur[w] = D.cur[w]
  BY <1>1, <1>2, <1>4, <1>8 DEF Closed, Started
<1>12. /\ DOMAIN E.hist[v] \subseteq DOMAIN G.hist[v]
       /\ \A q \in DOMAIN E.hist[v] : E.hist[v][q].ratio = G.hist[v][q].ratio
  <2>1. p \in DOMAIN G.hist[v]
    <3>1. G.start[dl].prev \in DOMAIN G.hist[dl[2]]
      BY <1>1, <1>2, ReferencesType
    <3> QED BY <1>2, <3>1 DEF Closed
  <2>2. F.hist[v] = DecRef(G.hist[v], p)
    BY <1>1, <1>7, <1>8
  <2>3. /\ DOMAIN F.hist[v] \subseteq DOMAIN G.hist[v]
        /\ \A q \in DOMAIN F.hist[v] : F.hist[v][q].ratio = G.hist[v][q].ratio
    BY <1>7, <2>1, <2>2, DecRefRatio
  <2>4. E.hist[v] = IncRef(F.hist[v], F.cur[v].period - 1)
    BY <1>1, <1>7, <1>9
  <2>5. /\ DOMAIN E.hist[v] = DOMAIN F.hist[v]
        /\ \A q \in DOMAIN F.hist[v] : E.hist[v][q].ratio = F.hist[v][q].ratio
    BY <1>7, <2>4, IncRefRatio
  <2> QED BY <2>3, <2>5
<1>13. \A w \in Validators \ {v} : E.hist[w] = D.hist[w]
  <2>1. \A w \in Validators \ {v} : E.hist[w] = F.hist[w] /\ F.hist[w] = G.hist[w]
    BY <1>7, <1>8, <1>9
  <2>2. \A w \in Validators \ {v} : G.hist[w] = D.hist[w]
    BY <1>5 DEF ClosedBy
  <2> QED BY <2>1, <2>2
<1>14. Ledger(E, S)
  <2>1. T \cup {dl} = S
    OBVIOUS
  <2> HIDE DEF T
  <2> QED BY <1>4, <2>1
<1>15. RatiosKept(D, E, v)
  <2> SUFFICES ASSUME NEW q \in DOMAIN D.hist[v], q \in DOMAIN E.hist[v]
               PROVE  E.hist[v][q].ratio = D.hist[v][q].ratio
    BY DEF RatiosKept
  <2>1. q # n
    BY <1>10
  <2>2. G.hist[v][q].ratio = D.hist[v][q].ratio
    BY <1>5, <1>12, <2>1 DEF ClosedBy
  <2> QED BY <1>12, <2>2
<1>16. Closing(E, st, v) = Closing(D, st, v)
  <2> DEFINE t == st.tokens[v]
             c == Closing(D, st, v)
  <2>1. n \in DOMAIN E.hist[v] /\ E.cur[v].period - 1 = n /\ E.cur[v].rewards = 0
    <3>1. E.cur[v].period - 1 \in DOMAIN E.hist[v]
      BY <1>1, <1>14, ReferencesType
    <3>2. E.cur[v].period - 1 = n
      BY <1>10, <1>11
    <3> QED BY <1>11, <3>1, <3>2
  <2>2. E.hist[v][n].ratio = c
    BY <1>6, <1>12, <2>1
  <2>3. Closing(E, st, v) = c + (IF t = 0 THEN 0 ELSE 0 \div t)
    BY <2>1, <2>2 DEF Closing
  <2>4. t \in Nat /\ c \in Int
    BY <1>1, <1>6
  <2> HIDE DEF t, c
  <2>5. t # 0 => 0 \div t = 0
    BY <2>4
  <2>6. c + (IF t = 0 THEN 0 ELSE 0 \div t) = c
    BY <2>4, <2>5
  <2> QED BY <2>3, <2>6 DEF c
<1>17. ASSUME NEW w \in Validators \ {v}
       PROVE  Closing(E, st, w) = Closing(D, st, w) /\ RatiosKept(D, E, w)
  BY <1>11, <1>13 DEF Closing, RatiosKept
<1>18. \A w \in Validators : Closing(E, st, w) = Closing(D, st, w) /\ RatiosKept(D, E, w)
  BY <1>15, <1>16, <1>17
<1>19. /\ E.slashes = D.slashes /\ E.start[dl].height = k
       /\ \A x \in Delegations \ {dl} : E.start[x] = D.start[x]
  <2>1. E.start[dl].height = k
    BY <1>4 DEF Started
  <2>2. E.slashes = D.slashes /\ \A x \in Delegations \ {dl} : E.start[x] = D.start[x]
    BY <1>3, <1>4 DEF Started, Settles
  <2> QED BY <2>1, <2>2
<1> QED BY <1>14, <1>18, <1>19 DEF E

\* A withdrawal at whatever context height leaves the other validators as
\* solvent as they were.
LEMMA WithdrawOthers ==
  ASSUME NEW D, NEW S, Ledger(D, S), NEW st, StakingSound(st), NEW dl \in S,
         NEW h \in Nat, NEW k \in Nat,
         NEW w \in Validators \ {dl[2]}, SolventAt(D, st, S, h, w)
  PROVE  SolventAt(WithdrawRewards(D, st, dl, k), st, S, h, w)
<1> DEFINE F == PayRewards(D, st, dl, k)
           T == S \ {dl}
<1>1. SolventAt(F, st, T, h, w)
  BY PayOthers
<1>2. Ledger(F, T)
  <2>1. st.tokens \in [Validators -> Nat] /\ TokensFromShares(st, dl) \in Int
    BY StakeOf DEF Ledger, StakingSound
  <2> QED BY <2>1, PayKeeps
<1>3. dl \in Delegations /\ dl \notin T /\ T \cup {dl} = S
  BY DEF Ledger
<1>4. WithdrawRewards(D, st, dl, k) = InitializeDelegation(F, st, dl, k)
  BY DEF WithdrawRewards
<1> HIDE DEF F, T
<1>5. SolventAt(InitializeDelegation(F, st, dl, k), st, T \cup {dl}, h, w)
  BY <1>1, <1>2, <1>3, InitializeOthers
<1> QED BY <1>3, <1>4, <1>5

\* From a validator that was never slashed, a delegation that started after
\* genesis withdraws at context height zero what it could have withdrawn at
\* height h; one that started at genesis withdraws nothing. Either way the
\* validator stays solvent.
LEMMA UnslashedWithdraw ==
  ASSUME NEW D, NEW S, Ledger(D, S), NEW st, StakingSound(st), NEW dl \in S,
         NEW h \in Nat, h <= Horizon, D.slashes[dl[2]] = <<>>,
         SolventAt(D, st, S, h, dl[2]), D.start[dl].height < h
  PROVE  LET E == WithdrawRewards(D, st, dl, 0)
             P == Pending(D, st, dl, h)
         IN /\ SolventAt(E, st, S, h, dl[2]) /\ P.sane /\ P.rewards \in Nat
            /\ D.start[dl].height > 0 => E.balance = LessCoins(D.balance, P.rewards)
<1> DEFINE v == dl[2]
           G == IncrementPeriod(D, st, v)
           F == PayRewards(D, st, dl, 0)
           E == WithdrawRewards(D, st, dl, 0)
           T == S \ {dl}
           P == Pending(D, st, dl, h)
           Q == Pending(D, st, dl, 0)
           e == Earned(G, dl)
<1>1. dl \in Delegations /\ v \in Validators /\ dl \notin T /\ T \cup {dl} = S
      /\ 0 \in Nat /\ 0 <= h /\ D.start[dl].height \in Nat
  <2>1. dl \in Delegations /\ v \in Validators
    BY DEF Ledger, Delegations
  <2>2. D.start[dl] \in [prev : Nat, stake : Int, height : Nat]
    BY <2>1 DEF Ledger, DistTyped
  <2> QED BY <2>1, <2>2
<1>2. /\ P.sane /\ P.rewards \in Int /\ P.rewards >= 0
      /\ P.rewards * Prec <= e /\ e \in Nat
  BY PendingCoveredAt
<1>3. CASE D.start[dl].height = 0
  <2>1. Q.rewards = 0
    <3>1. st.tokens \in [Validators -> Nat]
      BY DEF StakingSound
    <3>2. Closed(D, G, v)
      BY <1>1, <3>1, IncrementKeeps
    <3>3. Q = DelegationRewards(G, st, dl, D.cur[v].period, 0)
      BY DEF Pending
    <3> HIDE DEF G, Q
    <3>4. G.start = D.start
      BY <3>2 DEF Closed
    <3>5. Q = [sane |-> TRUE, rewards |-> 0]
      BY <1>3, <3>3, <3>4 DEF DelegationRewards
    <3> QED BY <3>5
  <2> DEFINE r == Q.rewards
  <2>2. r \in Nat /\ r * Prec <= e
    <3>1. r = 0 /\ e \in Nat
      BY <1>2, <2>1
    <3> HIDE DEF r, e
    <3> QED BY <3>1, HorizonIs
  <2>3. Ledger(F, T) /\ SolventAt(F, st, T, h, v)
    BY <1>1, <1>2, <2>2, PaySolventAt
  <2>4. E = InitializeDelegation(F, st, dl, 0)
    BY DEF WithdrawRewards
  <2> HIDE DEF F, E, T
  <2>5. SolventAt(InitializeDelegation(F, st, dl, 0), st, T \cup {dl}, h, dl[2])
    BY <1>1, <2>3, InitializeSolventAt
  <2>6. SolventAt(E, st, S, h, v)
    BY <1>1, <2>4, <2>5
  <2> QED BY <1>2, <1>3, <2>6 DEF E
<1>4. CASE D.start[dl].height # 0
  <2>1. Q = P
    <3>1. Pending(D, st, dl, 0) = Unreduced(D, st, dl)
      BY <1>1, <1>4, UnslashedPending
    <3>2. Pending(D, st, dl, h) = Unreduced(D, st, dl)
      BY <1>1, UnslashedPending
    <3> QED BY <3>1, <3>2
  <2> DEFINE r == Q.rewards
  <2>2. r \in Nat /\ r * Prec <= e /\ r = P.rewards
    BY <1>2, <2>1
  <2>3. /\ Ledger(F, T) /\ SolventAt(F, st, T, h, v)
        /\ F.balance = LessCoins(D.balance, r)
    <3>1. /\ Q.rewards \in Nat
          /\ Earned(IncrementPeriod(D, st, dl[2]), dl) \in Nat
          /\ Q.rewards * Prec <= Earned(IncrementPeriod(D, st, dl[2]), dl)
      BY <1>2, <2>2
    <3> HIDE DEF G, P, e, r
    <3>2. LET A == PayRewards(D, st, dl, 0) IN
          /\ Ledger(A, S \ {dl}) /\ SolventAt(A, st, S \ {dl}, h, dl[2])
          /\ A.pool >= D.pool /\ A.balance = LessCoins(D.balance, Q.rewards)
      BY <1>1, <3>1, PaySolventAt
    <3> QED BY <3>2 DEF r
  <2>4. E = InitializeDelegation(F, st, dl, 0)
    BY DEF WithdrawRewards
  <2>5. TokensFromShares(st, dl) \in Int
    BY <1>1, StakeOf
  <2> HIDE DEF F, E, T
  <2>6. SolventAt(InitializeDelegation(F, st, dl, 0), st, T \cup {dl}, h, dl[2])
    BY <1>1, <2>3, InitializeSolventAt
  <2>7. Started(F, InitializeDelegation(F, st, dl, 0), st, dl, 0)
    BY <1>1, <2>3, <2>5, InitializeKeeps
  <2>8. SolventAt(E, st, S, h, v) /\ E.balance = F.balance
    BY <1>1, <2>4, <2>6, <2>7 DEF Started
  <2> HIDE DEF P, r
  <2>9. E.balance = LessCoins(D.balance, P.rewards) /\ P.rewards \in Nat
    BY <2>2, <2>3, <2>8
  <2> QED BY <1>2, <2>8, <2>9 DEF E, P
<1> QED BY <1>3, <1>4

\* An unslashed delegation can withdraw what it could, after a step that
\* leaves what its rewards are calculated from.
LEMMA OwedStays ==
  ASSUME NEW S, S = Bonded(stk), Ledger(dist, S), Ledger(dist', S), StakingSound(stk),
         stk' = stk, height' = height, height \in Nat, NEW dl \in S,
         dist.slashes[dl[2]] = <<>>, dist'.slashes[dl[2]] = <<>>,
         dist'.start[dl] = dist.start[dl], dist.start[dl].height <= height,
         Closing(dist', stk, dl[2]) = Closing(dist, stk, dl[2]),
         RatiosKept(dist, dist', dl[2])
  PROVE  OwedNow(dl)' = OwedNow(dl)
<1>1. dist.start[dl].height # Now /\ Now \in Nat /\ Now' = Now
  <2>1. dl \in Delegations
    BY DEF Ledger
  <2>2. dist.start[dl] \in [prev : Nat, stake : Int, height : Nat]
    BY <2>1 DEF Ledger, DistTyped
  <2> QED BY <2>2 DEF Now
<1>2. Pending(dist', stk, dl, Now) = Pending(dist, stk, dl, Now)
  BY <1>1, PendingStays
<1>3. dl \in Delegated /\ Delegated' = Delegated
  BY DEF Delegated, Bonded
<1>4. Pending(dist', stk', dl, Now') = Pending(dist, stk, dl, Now)
  BY <1>1, <1>2
<1> QED BY <1>3, <1>4 DEF OwedNow

\* Elsewhere there is nothing to keep.
LEMMA PaidElsewhere ==
  ASSUME pc' \notin {"committed", "commission", "rewards"} PROVE PaidInv'
BY DEF PaidInv

\* A block commits: no delegation started after it.
LEMMA EndBlockPaid ==
  ASSUME ExportInv, SolvencyInv, EndBlock PROVE PaidInv'
<1>1. /\ pc \in Running /\ pc' = "committed" /\ height' = Now
      /\ stk' = stk /\ dist' = dist
  BY DEF EndBlock
<1>2. Delegated = Bonded(stk) /\ Solvent(dist, stk, Bonded(stk), Now)
      /\ Ledger(dist, Bonded(stk))
  BY <1>1, SolvencyHas
<1>3. ASSUME NEW dl \in Delegated' PROVE dist'.start[dl].height <= height'
  <2>1. dl \in Bonded(stk) /\ dl[2] \in Validators
    BY <1>1, <1>2 DEF Delegated, Ledger, Delegations
  <2>2. SolventAt(dist, stk, Bonded(stk), Now, dl[2])
    BY <1>2, <2>1 DEF Solvent
  <2>3. InStep(dist, stk, dl, Now)
    BY <2>1, <2>2 DEF SolventAt
  <2> QED BY <1>1, <2>3 DEF InStep
<1> QED BY <1>1, <1>3 DEF PaidInv

\* The export notes what it owes.
LEMMA ExportForZeroHeightPaid ==
  ASSUME PaidInv, NEW list, ExportForZeroHeight(list) PROVE PaidInv'
<1>1. /\ pc = "committed" /\ pc' = "commission" /\ height' = height
      /\ stk' = stk /\ dist' = dist
      /\ owed' = [dl \in Delegations |-> OwedNow(dl)]
  BY DEF ExportForZeroHeight, Chain
<1>2. Delegated' = Delegated /\ Delegated \subseteq Delegations
  BY <1>1 DEF Delegated
<1>3. \A dl \in Delegated' : dist'.start[dl].height <= height'
  BY <1>1, <1>2 DEF PaidInv
<1>4. ASSUME NEW dl \in Waiting' PROVE owed'[dl] = OwedNow(dl)'
  <2>1. dl \in Delegations
    BY <1>1, <1>2, <1>4 DEF Waiting
  <2>2. OwedNow(dl)' = OwedNow(dl)
    BY <1>1, <1>2 DEF OwedNow, Now
  <2> QED BY <1>1, <2>1, <2>2
<1> QED BY <1>1, <1>3, <1>4 DEF PaidInv

\* A commission is paid from what is outstanding, and from no claim.
LEMMA PayCommissionPaid ==
  ASSUME ExportInv, ExportInv', SolvencyInv, PaidInv, NEW v \in Validators,
         PayCommission(v)
  PROVE  PaidInv'
<1> DEFINE S == Bonded(stk)
<1>1. /\ pc = "commission" /\ pc' = "commission" /\ height' = height /\ stk' = stk
      /\ dist' = WithdrawCommission(dist, v) /\ owed' = owed
  BY DEF PayCommission, Visit, Paused, Chain
<1>2. /\ Delegated = S /\ StakingSound(stk) /\ Ledger(dist, S) /\ height \in Nat
      /\ Delegated' = S /\ Ledger(dist', S)
  <2>1. Delegated = S /\ StakingSound(stk) /\ Ledger(dist, S) /\ height \in Nat
    BY <1>1, EarlyHas
  <2>2. Solvent(dist, stk, S, Now) /\ Now \in Nat
    BY <1>1, CommissionHas
  <2>3. Ledger(dist', S)
    BY <1>1, <2>1, <2>2, CommissionSolvent
  <2>4. Delegated' = Delegated
    BY <1>1 DEF Delegated
  <2> QED BY <2>1, <2>3, <2>4
<1>3. /\ dist'.hist = dist.hist /\ dist'.start = dist.start
      /\ dist'.slashes = dist.slashes /\ dist'.cur = dist.cur
  BY <1>1, <1>2, CommissionKeeps DEF Ledger
<1>4. \A w \in Validators : Closing(dist', stk, w) = Closing(dist, stk, w)
                            /\ RatiosKept(dist, dist', w)
  BY <1>3 DEF Closing, RatiosKept
<1>5. \A dl \in S : dist.start[dl].height <= height
  BY <1>1, <1>2 DEF PaidInv
<1> HIDE DEF S
<1>6. ASSUME NEW dl \in Waiting', Unslashed(dl[2])' PROVE owed'[dl] = OwedNow(dl)'
  <2>1. dl \in S /\ dl \in Waiting /\ dl[2] \in Validators
    BY <1>1, <1>2 DEF Waiting, Ledger, Delegations
  <2>2. dist.slashes[dl[2]] = <<>> /\ dist'.slashes[dl[2]] = <<>> /\ Unslashed(dl[2])
    BY <1>3, <1>6 DEF Unslashed
  <2>3. owed[dl] = OwedNow(dl)
    BY <1>1, <2>1, <2>2 DEF PaidInv
  <2>4. OwedNow(dl)' = OwedNow(dl)
    BY <1>1, <1>2, <1>3, <1>4, <1>5, <2>1, <2>2, OwedStays DEF S
  <2> QED BY <1>1, <2>3, <2>4
<1>7. \A dl \in Delegated' : dist'.start[dl].height <= height'
  BY <1>1, <1>2, <1>3, <1>5
<1> QED BY <1>1, <1>6, <1>7 DEF PaidInv

\* When withdrawals begin, every delegation waits.
LEMMA CommissionPaidPaid ==
  ASSUME ExportInv, ExportInv', SolvencyInv, PaidInv, CommissionPaid PROVE PaidInv'
<1>1. /\ pc = "commission" /\ pc' = "rewards" /\ height' = height /\ stk' = stk
      /\ dist' = dist /\ owed' = owed
  BY DEF CommissionPaid, Goto, Paused, Chain
<1>2. /\ Delegated = Bonded(stk) /\ Solvent(dist, stk, Bonded(stk), Now)
      /\ Delegated' = Delegated /\ Now' = Now
  BY <1>1, EarlyHas, CommissionHas DEF Delegated, Now
<1>3. Left' \subseteq Delegated
  <2>1. todo' \in Seq(Entries')
    BY DEF ExportInv, VisitsOnce
  <2>2. Entries' = Delegated'
    BY <1>1 DEF Entries
  <2>3. todo' \in Seq(Delegated)
    BY <1>2, <2>1, <2>2
  <2> QED BY <2>3 DEF Left, Range
<1>4. ASSUME NEW dl \in Waiting', Unslashed(dl[2])' PROVE owed'[dl] = OwedNow(dl)'
  <2>1. dl \in Waiting /\ Unslashed(dl[2])
    BY <1>1, <1>3, <1>4 DEF Waiting, Unslashed
  <2>2. owed[dl] = OwedNow(dl)
    BY <1>1, <2>1 DEF PaidInv
  <2>3. OwedNow(dl)' = OwedNow(dl)
    BY <1>1, <1>2 DEF OwedNow
  <2> QED BY <1>1, <2>2, <2>3
<1>5. \A v \in Validators : SolventAt(dist', stk', Delegated', Now', v)
  BY <1>1, <1>2 DEF Solvent
<1>6. \A dl \in Delegated' : dist'.start[dl].height <= height'
  BY <1>1, <1>2 DEF PaidInv
<1> QED BY <1>1, <1>4, <1>5, <1>6 DEF PaidInv

\* Where a withdrawal of the export happens.
LEMMA PayDelegationHas ==
  ASSUME ExportInv, SolvencyInv, PaidInv, NEW dl \in Delegations, PayDelegation(dl)
  PROVE  /\ pc = "rewards" /\ pc' = "rewards" /\ height' = height /\ stk' = stk
         /\ dist' = WithdrawRewards(dist, stk, dl, 0)
         /\ owed' = [owed EXCEPT ![dl] = @ - (dist.balance - dist'.balance)]
         /\ dl \in Left /\ Left' = Left \ {dl} /\ Left \subseteq Bonded(stk)
         /\ Delegated = Bonded(stk) /\ Delegated' = Bonded(stk)
         /\ StakingSound(stk) /\ Ledger(dist, Bonded(stk))
         /\ height \in Nat /\ Now \in Nat /\ Now <= Horizon /\ Now' = Now
         /\ \A x \in Bonded(stk) :
              x[2] \in Validators /\ dist.start[x].height <= height
              /\ dist.start[x].height < Now
<1>1. /\ pc = "rewards" /\ pc' = "rewards" /\ Visit("rewards", dl)
      /\ height' = height /\ stk' = stk
      /\ dist' = WithdrawRewards(dist, stk, dl, 0) /\ todo' = Tail(todo)
      /\ owed' = [owed EXCEPT ![dl] = @ - (dist.balance - dist'.balance)]
  BY DEF PayDelegation, Visit, Paused, Chain, ExportHeight
<1>2. /\ VisitsOnce /\ Delegated = Bonded(stk) /\ StakingSound(stk)
      /\ Ledger(dist, Bonded(stk)) /\ height \in Nat
  BY <1>1, EarlyHas
<1>3. Delegated' = Delegated /\ Entries = Delegated /\ Entries' = Entries /\ Now' = Now
  BY <1>1 DEF Delegated, Entries, Now
<1>4. dl \in Left /\ Left' = Left \ {dl}
  BY <1>1, <1>2, <1>3, VisitKeeps
<1>5. Left \subseteq Bonded(stk)
  <2>1. todo \in Seq(Bonded(stk))
    BY <1>2, <1>3 DEF VisitsOnce
  <2> QED BY <2>1 DEF Left, Range
<1>6. Now \in Nat /\ Now <= Horizon
  <2>1. height \in 0..MaxHeight
    BY DEF SolvencyInv
  <2> QED BY <2>1, ExportAssumption DEF Now, Horizon
<1>7. ASSUME NEW x \in Bonded(stk)
      PROVE  x[2] \in Validators /\ dist.start[x].height <= height
             /\ dist.start[x].height < Now
  <2>1. x[2] \in Validators /\ x \in Delegations
    BY <1>2 DEF Ledger, Delegations
  <2>2. dist.start[x].height <= height
    BY <1>1, <1>2 DEF PaidInv
  <2>3. dist.start[x] \in [prev : Nat, stake : Int, height : Nat]
    BY <1>2, <2>1 DEF Ledger, DistTyped
  <2> QED BY <1>2, <2>1, <2>2, <2>3 DEF Now
<1> QED BY <1>1, <1>2, <1>3, <1>4, <1>5, <1>6, <1>7

\* A withdrawal of the export changes nothing for the delegations that wait.
LEMMA PayDelegationPaid ==
  ASSUME ExportInv, SolvencyInv, CountersInv, PaidInv,
         NEW dl \in Delegations, PayDelegation(dl)
  PROVE  PaidInv'
<1> DEFINE S == Bonded(stk)
<1>1. /\ pc = "rewards" /\ pc' = "rewards" /\ height' = height /\ stk' = stk
      /\ dist' = WithdrawRewards(dist, stk, dl, 0)
      /\ owed' = [owed EXCEPT ![dl] = @ - (dist.balance - dist'.balance)]
      /\ dl \in Left /\ Left' = Left \ {dl} /\ Left \subseteq S
      /\ Delegated = S /\ Delegated' = S
      /\ StakingSound(stk) /\ Ledger(dist, S)
      /\ height \in Nat /\ Now \in Nat /\ Now <= Horizon /\ Now' = Now
      /\ \A x \in S : x[2] \in Validators /\ dist.start[x].height <= height
                      /\ dist.start[x].height < Now
  BY PayDelegationHas
<1> HIDE DEF S
<1>2. dl \in S /\ S \subseteq Delegations /\ 0 \in Nat
  BY <1>1 DEF Ledger
<1>3. /\ Ledger(dist', S) /\ dist'.slashes = dist.slashes /\ dist'.start[dl].height = 0
      /\ \A x \in Delegations \ {dl} : dist'.start[x] = dist.start[x]
      /\ \A w \in Validators : Closing(dist', stk, w) = Closing(dist, stk, w)
                               /\ RatiosKept(dist, dist', w)
  BY <1>1, <1>2, WithdrawLeaves
<1>4. ASSUME NEW x \in S PROVE dist'.start[x].height <= height
  <2>1. CASE x = dl
    BY <1>1, <1>3, <2>1
  <2>2. CASE x # dl
    BY <1>1, <1>2, <1>3, <2>2
  <2> QED BY <2>1, <2>2
<1>5. ASSUME NEW x \in Waiting', Unslashed(x[2])' PROVE owed'[x] = OwedNow(x)'
  <2>1. /\ x \in Left /\ x # dl /\ x \in S /\ x \in Delegations /\ x[2] \in Validators
        /\ x \in Waiting
    BY <1>1, <1>2, <1>5 DEF Waiting
  <2>2. dist.slashes[x[2]] = <<>> /\ dist'.slashes[x[2]] = <<>> /\ Unslashed(x[2])
    BY <1>3, <1>5 DEF Unslashed
  <2>3. owed[x] = OwedNow(x)
    BY <1>1, <2>1, <2>2 DEF PaidInv
  <2>4. owed'[x] = owed[x]
    <3>1. owed \in [Delegations -> Int]
      BY DEF CountersInv
    <3> QED BY <1>1, <2>1, <3>1
  <2>5. dist'.start[x] = dist.start[x]
    BY <1>3, <2>1
  <2>6. OwedNow(x)' = OwedNow(x)
    BY <1>1, <1>3, <2>1, <2>2, <2>5, OwedStays DEF S
  <2> QED BY <2>3, <2>4, <2>6
<1>6. ASSUME NEW w \in Validators, Unslashed(w)'
      PROVE  SolventAt(dist', stk', Delegated', Now', w)
  <2>1. dist.slashes[w] = <<>> /\ Unslashed(w)
    BY <1>3, <1>6 DEF Unslashed
  <2>2. SolventAt(dist, stk, S, Now, w)
    BY <1>1, <2>1 DEF PaidInv
  <2>3. CASE w = dl[2]
    <3>1. SolventAt(WithdrawRewards(dist, stk, dl, 0), stk, S, Now, dl[2])
      BY <1>1, <1>2, <2>1, <2>2, <2>3, UnslashedWithdraw
    <3> QED BY <1>1, <2>3, <3>1
  <2>4. CASE w # dl[2]
    <3>1. SolventAt(WithdrawRewards(dist, stk, dl, 0), stk, S, Now, w)
      BY <1>1, <1>2, <2>2, <2>4, WithdrawOthers
    <3> QED BY <1>1, <3>1
  <2> QED BY <2>3, <2>4
<1>7. \A x \in Delegated' : dist'.start[x].height <= height'
  BY <1>1, <1>4
<1> QED BY <1>1, <1>5, <1>6, <1>7 DEF PaidInv

\* Every step keeps PaidInv.
LEMMA PaidStepKeeps ==
  ExportInv /\ ExportInv' /\ SolvencyInv /\ CountersInv /\ PaidInv /\ [Next]_vars
    => PaidInv'
<1> SUFFICES ASSUME ExportInv, ExportInv', SolvencyInv, CountersInv, PaidInv, [Next]_vars
             PROVE  PaidInv'
  OBVIOUS
<1>1. CASE EndBlock
  BY <1>1, EndBlockPaid
<1>2. ASSUME NEW v \in Validators, NEW coins \in Fees, AllocateFees(v, coins)
      PROVE  PaidInv'
  BY <1>2, PaidElsewhere DEF AllocateFees, Operate
<1>3. ASSUME NEW dl \in Delegations, NEW amount \in Bonds, Delegate(dl, amount)
      PROVE  PaidInv'
  BY <1>3, PaidElsewhere DEF Delegate, Operate
<1>4. ASSUME NEW dl \in Delegations, Undelegate(dl) \/ Withdraw(dl) PROVE PaidInv'
  BY <1>4, PaidElsewhere DEF Undelegate, Withdraw, Operate
<1>5. ASSUME NEW v \in Validators, NEW k \in SlashDivs, Slash(v, k) PROVE PaidInv'
  BY <1>5, PaidElsewhere DEF Slash, Operate
<1>6. ASSUME NEW v \in Validators, Unjail(v) PROVE PaidInv'
  BY <1>6, PaidElsewhere DEF Unjail, Operate
<1>7. CASE ExportAtHeight
  BY <1>7, PaidElsewhere DEF ExportAtHeight
<1>8. ASSUME NEW list \in AllowLists, ExportForZeroHeight(list) \/ RefuseAllowList(list)
      PROVE  PaidInv'
  BY <1>8, ExportForZeroHeightPaid, PaidElsewhere DEF RefuseAllowList
<1>9. CASE ExportStep
  <2>1. ASSUME NEW v \in Validators, PayCommission(v) PROVE PaidInv'
    BY <2>1, PayCommissionPaid
  <2>2. ASSUME NEW v \in Validators, ReinitValidator(v) \/ ResetValidator(v) PROVE PaidInv'
    BY <2>2, PaidElsewhere DEF ReinitValidator, ResetValidator, Visit
  <2>3. ASSUME NEW dl \in Delegations, PayDelegation(dl) PROVE PaidInv'
    BY <2>3, PayDelegationPaid
  <2>4. ASSUME NEW dl \in Delegations, RewardsPanic(dl) \/ ReinitDelegation(dl)
        PROVE  PaidInv'
    BY <2>4, PaidElsewhere DEF RewardsPanic, ReinitDelegation, Visit
  <2>5. CASE CommissionPaid
    BY <2>5, CommissionPaidPaid
  <2>6. CASE \/ RewardsPaid \/ ClearHistory \/ ValidatorsReady
             \/ DelegationsReady \/ ResetEntries \/ ValidatorsReset
             \/ ApplyValidatorSet \/ ResetSigningInfos
    BY <2>6, PaidElsewhere DEF RewardsPaid, ClearHistory, ValidatorsReady,
       DelegationsReady, ResetEntries, ValidatorsReset, ApplyValidatorSet,
       ResetSigningInfos, Goto
  <2> QED BY <1>9, <2>1, <2>2, <2>3, <2>4, <2>5, <2>6 DEF ExportStep
<1>10. CASE InitChain
  BY <1>10, PaidElsewhere DEF InitChain
<1>11. CASE UNCHANGED vars
  BY <1>11 DEF vars, PaidInv, Waiting, Left, Unslashed, OwedNow, Delegated, Now
<1> QED
  BY <1>1, <1>2, <1>3, <1>4, <1>5, <1>6, <1>7, <1>8, <1>9, <1>10, <1>11 DEF Next

\* What waits can be withdrawn: while an export withdraws rewards, with the
\* context height at zero, a validator that was never slashed still covers
\* all claims on it, and a delegation to it that waits for its turn can
\* withdraw what it could when the export began.
THEOREM PaidInvariance == Spec => []PaidInv
<1>1. Init => PaidInv
  BY DEF Init, PaidInv
<1>2. ExportInv /\ ExportInv' /\ SolvencyInv /\ CountersInv /\ PaidInv /\ [Next]_vars
        => PaidInv'
  BY PaidStepKeeps
<1> QED
  BY <1>1, <1>2, ExportInvariance, SolvencyInvariance, CountersInvariance, PTL DEF Spec

\* An export for zero height pays a delegation that started after genesis, on
\* a validator that was never slashed, exactly what it could withdraw when the
\* export began: neither the order of the withdrawals nor the context height
\* of zero they run at costs it a coin.
THEOREM LaterDelegationsArePaid == Spec => LaterDelegationsPaid
<1> DEFINE A(dl) == PayDelegation(dl) /\ dist.start[dl].height > 0
                    /\ dist.slashes[dl[2]] = <<>> => owed'[dl] = 0
<1>1. ASSUME ExportInv, SolvencyInv, CountersInv, PaidInv
      PROVE  \A dl \in Delegations : A(dl)
  <2> SUFFICES ASSUME NEW dl \in Delegations, PayDelegation(dl),
                      dist.start[dl].height > 0, dist.slashes[dl[2]] = <<>>
               PROVE  owed'[dl] = 0
    OBVIOUS
  <2> DEFINE S == Bonded(stk)
             P == Pending(dist, stk, dl, Now)
             E == WithdrawRewards(dist, stk, dl, 0)
  <2>1. /\ pc = "rewards" /\ dist' = E
        /\ owed' = [owed EXCEPT ![dl] = @ - (dist.balance - dist'.balance)]
        /\ dl \in Left /\ dl \in S /\ Delegated = S
        /\ StakingSound(stk) /\ Ledger(dist, S)
        /\ Now \in Nat /\ Now <= Horizon
        /\ dl[2] \in Validators /\ dist.start[dl].height < Now
    BY <1>1, PayDelegationHas
  <2>2. /\ SolventAt(dist, stk, S, Now, dl[2]) /\ owed[dl] = OwedNow(dl)
    BY <1>1, <2>1 DEF PaidInv, Unslashed, Waiting
  <2>3. P.sane /\ P.rewards \in Nat /\ E.balance = LessCoins(dist.balance, P.rewards)
    BY <2>1, <2>2, UnslashedWithdraw
  <2>4. OwedNow(dl) = P.rewards \div Prec
    BY <2>1, <2>3 DEF OwedNow
  <2>5. owed'[dl] = owed[dl] - (dist.balance - dist'.balance)
    BY <1>1, <2>1 DEF CountersInv
  <2> DEFINE b == dist.balance
             q == P.rewards \div Prec
  <2>6. b \in Int /\ q \in Int
    <3>1. b \in Int
      BY <2>1 DEF Ledger, DistTyped
    <3> DEFINE r == P.rewards
    <3>2. r \in Int
      BY <2>3
    <3> HIDE DEF r
    <3>3. r \div Prec \in Int
      BY <3>2, HorizonIs, Quotient
    <3> QED BY <3>1, <3>3 DEF r
  <2>7. dist'.balance = b - q /\ owed[dl] = q
    BY <2>1, <2>2, <2>3, <2>4 DEF LessCoins
  <2> HIDE DEF b, q, E, P
  <2>8. q - (b - (b - q)) = 0
    BY <2>6
  <2> QED BY <2>5, <2>7, <2>8 DEF b
<1>2. ASSUME ExportInv, SolvencyInv, CountersInv, PaidInv, [Next]_vars
      PROVE  [\A dl \in Delegations : A(dl)]_vars
  BY <1>1, <1>2
<1> QED
  BY <1>2, ExportInvariance, SolvencyInvariance, CountersInvariance, PaidInvariance, PTL
  DEF Spec, LaterDelegationsPaid

=============================================================================
