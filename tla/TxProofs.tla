------------------------------ MODULE TxProofs ------------------------------
(***************************************************************************)
(* Proofs about TxPipeline and MsgFilter: the books of the transaction     *)
(* pipeline balance, and the filter finds what a transaction executes.     *)
(***************************************************************************)
EXTENDS TxPipeline, SumTheorems

---------------------------------------------------------------------------
(* The messages of a body.                                                 *)

Occurs(x, s) == \E j \in DOMAIN s : s[j] = x

\* FlattenSeq joins sequences: its result has their elements and no others.
LEMMA Flattened ==
  ASSUME NEW S, NEW ss \in Seq(Seq(S))
  PROVE  /\ FlattenSeq(ss) \in Seq(S)
         /\ \A x : Occurs(x, FlattenSeq(ss)) <=> \E i \in DOMAIN ss : Occurs(x, ss[i])
<1>1. CASE Len(ss) = 0
  <2>1. ss = << >>
    BY <1>1
  <2>2. FlattenSeq(ss) = << >>
    BY <2>1 DEF FlattenSeq
  <2>3. DOMAIN ss = {} /\ << >> \in Seq(S) /\ \A x : ~Occurs(x, << >>)
    BY <2>1 DEF Occurs
  <2>4. QED
    BY <2>1, <2>2, <2>3
<1>2. CASE Len(ss) # 0
  <2> DEFINE n == Len(ss)
             D == 1..n
             Body0(f) == [i \in 1..Len(ss) |-> IF i = 1 THEN ss[i] ELSE f[i-1] \o ss[i]]
             flatten == CHOOSE f : f = Body0(f)
             Rank == [i \in D |-> i]
             Step == [f \in [D -> Seq(S)] |-> Body0(f)]
  <2>1. n \in Nat /\ n >= 1 /\ DOMAIN ss = D
    BY <1>2
  <2>2. \A f \in [D -> Seq(S)] : Body0(f) \in [D -> Seq(S)]
    <3> SUFFICES ASSUME NEW f \in [D -> Seq(S)], NEW i \in D
                 PROVE  (IF i = 1 THEN ss[i] ELSE f[i-1] \o ss[i]) \in Seq(S)
      OBVIOUS
    <3>1. ss[i] \in Seq(S)
      BY <2>1
    <3>2. CASE i # 1
      <4>1. i - 1 \in D
        BY <2>1, <3>2
      <4>2. f[i-1] \in Seq(S)
        BY <4>1
      <4>3. f[i-1] \o ss[i] \in Seq(S)
        BY <3>1, <4>2
      <4>4. QED
        BY <3>2, <4>3
    <3>3. QED
      BY <3>1, <3>2
  <2>3. \E f \in [D -> Seq(S)] : f = Body0(f)
    <3>1. Rank \in [D -> Nat]
      BY <2>1
    <3>2. Step \in [[D -> Seq(S)] -> [D -> Seq(S)]]
      BY <2>2
    <3>3. ASSUME NEW g \in [D -> Seq(S)], NEW h \in [D -> Seq(S)], NEW i \in D,
                 \A y \in D : Rank[y] < Rank[i] => g[y] = h[y]
          PROVE  Step[g][i] = Step[h][i]
      <4>1. i # 1 => g[i - 1] = h[i - 1]
        <5>1. i # 1 => i - 1 \in D /\ i - 1 < i
          BY <2>1
        <5>2. QED
          BY <3>3, <5>1
      <4>2. Step[g][i] = IF i = 1 THEN ss[i] ELSE g[i-1] \o ss[i]
        OBVIOUS
      <4>3. Step[h][i] = IF i = 1 THEN ss[i] ELSE h[i-1] \o ss[i]
        OBVIOUS
      <4>4. QED
        BY <4>1, <4>2, <4>3
    <3>4. Seq(S) # {}
      OBVIOUS
    <3>5. \A f \in [D -> Seq(S)] : Step[f] = Body0(f)
      OBVIOUS
    <3> HIDE DEF Step, Rank, D, Body0
    <3>6. \A g, h \in [D -> Seq(S)] : \A i \in D :
            (\A y \in D : Rank[y] < Rank[i] => g[y] = h[y]) => Step[g][i] = Step[h][i]
      BY <3>3
    <3>7. Descends(D, Seq(S), Rank, Step)
      BY <3>1, <3>2, <3>4, <3>6 DEF Descends
    <3>8. \E f \in [D -> Seq(S)] : Step[f] = f
      BY <3>7, Recursion
    <3>9. QED
      BY <3>5, <3>8
  <2>4. flatten = Body0(flatten)
    BY <2>3
  <2>5. FlattenSeq(ss) = flatten[n]
    BY <1>2 DEF FlattenSeq
  <2> HIDE DEF flatten
  <2>6. \A i \in D : flatten[i] = IF i = 1 THEN ss[i] ELSE flatten[i-1] \o ss[i]
    BY <2>4
  <2> DEFINE Good(i) == /\ flatten[i] \in Seq(S)
                        /\ \A x : Occurs(x, flatten[i]) <=> \E k \in 1..i : Occurs(x, ss[k])
             N == {m \in Nat : m \in D => Good(m)}
  <2>7. 0 \in N
    <3> HIDE DEF Good
    <3> QED
      BY <2>1
  <2>8. ASSUME NEW m \in Nat, m \in N PROVE m + 1 \in N
    <3> SUFFICES ASSUME m + 1 \in D PROVE Good(m + 1)
      <4> HIDE DEF Good
      <4> QED
        OBVIOUS
    <3>1. ss[m + 1] \in Seq(S)
      BY <2>1
    <3>2. CASE m = 0
      <4>1. flatten[1] = ss[1]
        BY <2>1, <2>6
      <4>2. 1..1 = {1}
        OBVIOUS
      <4>3. QED
        BY <3>1, <3>2, <4>1, <4>2
    <3>3. CASE m # 0
      <4>1. m \in D /\ m + 1 # 1 /\ (m + 1) - 1 = m
        BY <2>1, <3>3
      <4>2. Good(m)
        BY <2>8, <4>1
      <4>3. flatten[m + 1] = flatten[m] \o ss[m + 1]
        BY <2>6, <4>1
      <4>4. flatten[m + 1] \in Seq(S)
        BY <3>1, <4>2, <4>3
      <4>5. \A x : Occurs(x, flatten[m + 1]) <=> Occurs(x, flatten[m]) \/ Occurs(x, ss[m + 1])
        <5> HIDE DEF D
        <5>1. ASSUME NEW s \in Seq(S), NEW t \in Seq(S), NEW x
              PROVE  Occurs(x, s \o t) <=> Occurs(x, s) \/ Occurs(x, t)
          <6> USE DEF Occurs
          <6>1. /\ DOMAIN (s \o t) = 1..(Len(s) + Len(t))
                /\ DOMAIN s = 1..Len(s) /\ DOMAIN t = 1..Len(t)
                /\ Len(s) \in Nat /\ Len(t) \in Nat
            OBVIOUS
          <6>2. ASSUME NEW j \in DOMAIN (s \o t), (s \o t)[j] = x
                PROVE  Occurs(x, s) \/ Occurs(x, t)
            <7>1. CASE j <= Len(s)
              <8>1. j \in DOMAIN s /\ s[j] = x
                BY <6>1, <6>2, <7>1
              <8>2. QED
                BY <8>1
            <7>2. CASE j > Len(s)
              <8>1. j - Len(s) \in DOMAIN t /\ t[j - Len(s)] = x
                BY <6>1, <6>2, <7>2
              <8>2. QED
                BY <8>1
            <7>3. QED
              BY <6>1, <7>1, <7>2
          <6>3. ASSUME NEW j \in DOMAIN s, s[j] = x PROVE Occurs(x, s \o t)
            <7>1. j \in DOMAIN (s \o t) /\ (s \o t)[j] = x
              BY <6>1, <6>3
            <7>2. QED
              BY <7>1
          <6>4. ASSUME NEW j \in DOMAIN t, t[j] = x PROVE Occurs(x, s \o t)
            <7>1. Len(s) + j \in DOMAIN (s \o t) /\ (s \o t)[Len(s) + j] = x
              BY <6>1, <6>4
            <7>2. QED
              BY <7>1
          <6>5. QED
            BY <6>2, <6>3, <6>4
        <5>2. QED
          BY <3>1, <4>2, <4>3, <5>1
      <4>6. 1..(m + 1) = (1..m) \cup {m + 1}
        OBVIOUS
      <4> HIDE DEF D
      <4>7. QED
        BY <4>2, <4>4, <4>5, <4>6
    <3>4. QED
      BY <3>2, <3>3
  <2>9. Nat \subseteq N
    <3> HIDE DEF N
    <3> QED
      BY <2>7, <2>8, NatInduct
  <2>10. Good(n)
    <3> HIDE DEF Good
    <3> QED
      BY <2>1, <2>9
  <2>11. QED
    BY <2>1, <2>5, <2>10
<1>3. QED
  BY <1>1, <1>2

\* The messages that bodies are made of: a send names an account, any other
\* message moves nothing.
WellFormed ==
  {m \in Message : IF m.type = "send" THEN m.to \in Accounts
                   ELSE m.to = None /\ m.amount = 0}

\* The contents of bodies are well formed, and the bodies inside are bodies.
LEMMA Contents ==
  ASSUME NEW b \in Body
  PROVE  /\ Content[b] \in Seq(WellFormed)
         /\ \A i \in DOMAIN Content[b] :
              /\ Content[b][i] \in WellFormed
              /\ Content[b][i].inner # None => Content[b][i].inner \in Body
<1>1. Content[b] \in Seq(Message)
  BY MessagesAssumption
<1>2. ASSUME NEW i \in DOMAIN Content[b]
      PROVE  Content[b][i] \in WellFormed /\ Content[b][i] \in Message
  <2>1. Content[b][i] \in Message
    BY <1>1
  <2>2. QED
    BY <2>1, MessagesAssumption DEF WellFormed
<1>3. Content[b] \in Seq(WellFormed)
  <2>1. /\ Len(Content[b]) \in Nat
        /\ Content[b] = [i \in 1..Len(Content[b]) |-> Content[b][i]]
        /\ DOMAIN Content[b] = 1..Len(Content[b])
    BY <1>1
  <2>2. QED
    BY <1>2, <2>1
<1>4. QED
  BY <1>2, <1>3 DEF Message

\* What a body executes are its messages and, for each exec among them, what
\* the body inside executes.
LEMMA UnfoldedFacts ==
  /\ Unfolded \in [Body -> Seq(WellFormed)]
  /\ \A b \in Body : \A x :
       Occurs(x, Unfolded[b]) <=>
         \E i \in DOMAIN Content[b] :
           LET m == Content[b][i] IN
           \/ x = m
           \/ m.type = "exec" /\ m.inner # None /\ Occurs(x, Unfolded[m.inner])
<1> DEFINE Piece(f, m) ==
             IF m.type = "exec" /\ m.inner # None THEN <<m>> \o f[m.inner] ELSE <<m>>
           Pieces(f, b) == [i \in DOMAIN Content[b] |-> Piece(f, Content[b][i])]
           Right(f) == [b \in Body |-> FlattenSeq(Pieces(f, b))]
           V == Seq(WellFormed)
           Step == [f \in [Body -> V] |-> Right(f)]
           Unfold == CHOOSE f : f = Right(f)
<1>1. ASSUME NEW f \in [Body -> V], NEW b \in Body
      PROVE  /\ Pieces(f, b) \in Seq(V)
             /\ \A x : \A i \in DOMAIN Content[b] :
                  LET m == Content[b][i] IN
                  Occurs(x, Pieces(f, b)[i]) <=>
                    \/ x = m
                    \/ m.type = "exec" /\ m.inner # None /\ Occurs(x, f[m.inner])
  <2>1. ASSUME NEW i \in DOMAIN Content[b]
        PROVE  /\ Piece(f, Content[b][i]) \in V
               /\ \A x : Occurs(x, Piece(f, Content[b][i])) <=>
                    \/ x = Content[b][i]
                    \/ /\ Content[b][i].type = "exec" /\ Content[b][i].inner # None
                       /\ Occurs(x, f[Content[b][i].inner])
    <3> DEFINE m == Content[b][i]
    <3>1. m \in WellFormed /\ (m.inner # None => m.inner \in Body)
      BY Contents
    <3> HIDE DEF m
    <3>2. <<m>> \in V /\ DOMAIN <<m>> = {1} /\ <<m>>[1] = m
      BY <3>1
    <3>3. CASE m.type = "exec" /\ m.inner # None
      <4> DEFINE t == f[m.inner]
      <4>1. t \in V
        BY <3>1, <3>3
      <4> HIDE DEF t, V
      <4>2. V = Seq(WellFormed)
        BY DEF V
      <4>3. /\ <<m>> \o t \in Seq(WellFormed) /\ Len(t) \in Nat
            /\ DOMAIN (<<m>> \o t) = 1..(1 + Len(t)) /\ DOMAIN t = 1..Len(t)
            /\ (<<m>> \o t)[1] = m
            /\ \A j \in 1..Len(t) : (<<m>> \o t)[j + 1] = t[j]
        BY <3>1, <4>1, <4>2
      <4>4. \A j \in 1..(1 + Len(t)) : j = 1 \/ (j - 1 \in 1..Len(t) /\ j = (j - 1) + 1)
        BY <4>3
      <4>5. \A j \in 1..Len(t) : j + 1 \in 1..(1 + Len(t))
        BY <4>3
      <4>6. ASSUME NEW x PROVE Occurs(x, <<m>> \o t) <=> x = m \/ Occurs(x, t)
        <5>1. Occurs(x, <<m>> \o t) => x = m \/ Occurs(x, t)
          BY <4>3, <4>4 DEF Occurs
        <5>2. x = m => Occurs(x, <<m>> \o t)
          BY <4>3 DEF Occurs
        <5>3. Occurs(x, t) => Occurs(x, <<m>> \o t)
          BY <4>3, <4>5 DEF Occurs
        <5>4. QED
          BY <5>1, <5>2, <5>3
      <4>7. Piece(f, m) = <<m>> \o t
        BY <3>3 DEF t
      <4>8. QED
        BY <3>3, <4>2, <4>3, <4>6, <4>7 DEF t, m
    <3>4. CASE ~(m.type = "exec" /\ m.inner # None)
      <4>1. Piece(f, m) = <<m>>
        BY <3>4
      <4>2. \A x : Occurs(x, <<m>>) <=> x = m
        BY <3>2 DEF Occurs
      <4>3. QED
        BY <3>2, <3>4, <4>1, <4>2 DEF m
    <3>5. QED
      BY <3>3, <3>4
  <2>2. /\ Len(Content[b]) \in Nat
        /\ DOMAIN Content[b] = 1..Len(Content[b])
    BY Contents
  <2> HIDE DEF Piece, V
  <2>3. Pieces(f, b) \in Seq(V)
    BY <2>1, <2>2
  <2>4. QED
    BY <2>1, <2>3
<1>2. ASSUME NEW f \in [Body -> V] PROVE Right(f) \in [Body -> V]
  <2> SUFFICES ASSUME NEW b \in Body PROVE FlattenSeq(Pieces(f, b)) \in V
    OBVIOUS
  <2>1. Pieces(f, b) \in Seq(Seq(WellFormed))
    BY <1>1
  <2> HIDE DEF Pieces
  <2>2. QED
    BY <2>1, Flattened
<1>3. \E f \in [Body -> V] : f = Right(f)
  <2>1. Depth \in [Body -> Nat]
    BY NestingAssumption
  <2>2. Step \in [[Body -> V] -> [Body -> V]]
    <3> HIDE DEF Right
    <3> QED
      BY <1>2
  <2>3. \A f \in [Body -> V] : Step[f] = Right(f)
    OBVIOUS
  <2>4. ASSUME NEW g \in [Body -> V], NEW h \in [Body -> V], NEW b \in Body,
               \A c \in Body : Depth[c] < Depth[b] => g[c] = h[c]
        PROVE  Step[g][b] = Step[h][b]
    <3>1. ASSUME NEW i \in DOMAIN Content[b]
          PROVE  Piece(g, Content[b][i]) = Piece(h, Content[b][i])
      <4>1. Content[b][i].type = "exec" /\ Content[b][i].inner # None
              => g[Content[b][i].inner] = h[Content[b][i].inner]
        BY <2>4, Contents, NestingAssumption
      <4>2. QED
        BY <4>1
    <3> HIDE DEF Piece
    <3>2. Pieces(g, b) = Pieces(h, b)
      BY <3>1
    <3>3. Step[g][b] = FlattenSeq(Pieces(g, b)) /\ Step[h][b] = FlattenSeq(Pieces(h, b))
      BY <2>3
    <3>4. QED
      BY <3>2, <3>3
  <2>5. V # {}
    <3>1. << >> \in Seq(WellFormed)
      OBVIOUS
    <3>2. QED
      BY <3>1
  <2> HIDE DEF Step, V, Right
  <2>6. \A g, h \in [Body -> V] : \A b \in Body :
          (\A c \in Body : Depth[c] < Depth[b] => g[c] = h[c]) => Step[g][b] = Step[h][b]
    BY <2>4
  <2>7. Descends(Body, V, Depth, Step)
    BY <2>1, <2>2, <2>5, <2>6 DEF Descends
  <2>8. \E f \in [Body -> V] : Step[f] = f
    BY <2>7, Recursion
  <2>9. QED
    BY <2>3, <2>8
<1>4. Unfold = Right(Unfold)
  <2> HIDE DEF Right
  <2> QED
    BY <1>3
<1>5. Unfolded = [b \in Body |-> Unfold[b]]
  BY DEF Unfolded
<1> HIDE DEF Unfold
<1>6. Unfolded = Unfold
  BY <1>4, <1>5
<1>7. Unfolded = [b \in Body |-> FlattenSeq(Pieces(Unfolded, b))]
  BY <1>4, <1>6
<1>8. Unfolded \in [Body -> V]
  <2> DEFINE f == [c \in Body |-> IF Unfolded[c] \in V THEN Unfolded[c] ELSE << >>]
             N == {n \in Nat : \A b \in Body : Depth[b] < n => Unfolded[b] \in V}
  <2>1. f \in [Body -> V]
    <3>1. << >> \in Seq(WellFormed)
      OBVIOUS
    <3>2. QED
      BY <3>1
  <2>2. 0 \in N
    BY NestingAssumption
  <2>3. ASSUME NEW n \in Nat, n \in N PROVE n + 1 \in N
    <3>1. SUFFICES ASSUME NEW b \in Body, Depth[b] < n + 1 PROVE Unfolded[b] \in V
      <4> HIDE DEF V
      <4> QED
        OBVIOUS
    <3>2. ASSUME NEW i \in DOMAIN Content[b]
          PROVE  Piece(Unfolded, Content[b][i]) = Piece(f, Content[b][i])
      <4> DEFINE m == Content[b][i]
      <4>1. m.type = "exec" /\ m.inner # None => m.inner \in Body /\ Depth[m.inner] < n
        <5>1. m.type = "exec" /\ m.inner # None => m.inner \in Body /\ Depth[m.inner] < Depth[b]
          BY Contents, NestingAssumption
        <5> HIDE DEF m
        <5>2. QED
          BY <3>1, <5>1, NestingAssumption
      <4> HIDE DEF m, V
      <4>2. m.type = "exec" /\ m.inner # None => Unfolded[m.inner] = f[m.inner]
        BY <2>3, <4>1
      <4> HIDE DEF f
      <4>3. Piece(Unfolded, m) = Piece(f, m)
        BY <4>2
      <4>4. QED
        BY <4>3 DEF m
    <3> HIDE DEF Piece, f, V
    <3>3. Pieces(Unfolded, b) = Pieces(f, b)
      BY <3>2
    <3>4. Right(f)[b] \in V
      BY <1>2, <2>1
    <3> HIDE DEF Pieces
    <3>5. Unfolded[b] = FlattenSeq(Pieces(Unfolded, b))
      BY <1>7
    <3>6. QED
      BY <3>3, <3>4, <3>5
  <2>4. Nat \subseteq N
    <3> HIDE DEF N
    <3> QED
      BY <2>2, <2>3, NatInduct
  <2>5. ASSUME NEW b \in Body PROVE Unfolded[b] \in V
    <3>1. Depth[b] + 1 \in Nat /\ Depth[b] < Depth[b] + 1
      BY NestingAssumption
    <3> HIDE DEF V
    <3>2. QED
      BY <2>4, <3>1
  <2> HIDE DEF V, Pieces
  <2>6. QED
    BY <1>7, <2>5
<1>9. ASSUME NEW b \in Body, NEW x
      PROVE  Occurs(x, Unfolded[b]) <=>
               \E i \in DOMAIN Content[b] :
                 LET m == Content[b][i] IN
                 \/ x = m
                 \/ m.type = "exec" /\ m.inner # None /\ Occurs(x, Unfolded[m.inner])
  <2>1. /\ Pieces(Unfolded, b) \in Seq(V)
        /\ \A y : \A i \in DOMAIN Content[b] :
             LET m == Content[b][i] IN
             Occurs(y, Pieces(Unfolded, b)[i]) <=>
               \/ y = m
               \/ m.type = "exec" /\ m.inner # None /\ Occurs(y, Unfolded[m.inner])
    <3> HIDE DEF V, Pieces
    <3> QED
      BY <1>1, <1>8
  <2>2. DOMAIN Pieces(Unfolded, b) = DOMAIN Content[b]
    OBVIOUS
  <2>3. Unfolded[b] = FlattenSeq(Pieces(Unfolded, b))
    <3> HIDE DEF Pieces
    <3> QED
      BY <1>7
  <2> HIDE DEF Pieces
  <2>4. Occurs(x, Unfolded[b]) <=>
          \E i \in DOMAIN Content[b] : Occurs(x, Pieces(Unfolded, b)[i])
    <3> DEFINE ss == Pieces(Unfolded, b)
    <3>1. ss \in Seq(Seq(WellFormed))
      BY <2>1
    <3> HIDE DEF ss
    <3>2. Occurs(x, FlattenSeq(ss)) <=> \E i \in DOMAIN ss : Occurs(x, ss[i])
      BY <3>1, Flattened
    <3>3. QED
      BY <2>2, <2>3, <3>2 DEF ss
  <2>5. QED
    BY <2>1, <2>4
<1>10. QED
  BY <1>8, <1>9

---------------------------------------------------------------------------
(* The filter.                                                             *)

\* HasDisallowedMessage(blocked, b) holds exactly when b executes a message of
\* a blocked type or an exec of something that is no message, at any depth.
LEMMA FilterExact ==
  ASSUME NEW blocked, NEW b \in Body
  PROVE  HasDisallowedMessage(blocked, b) <=>
           \E x : /\ Occurs(x, Unfolded[b])
                  /\ x.type \in blocked \/ (x.type = "exec" /\ x.inner = None)
<1> DEFINE Right(f) ==
             [c \in Body |->
               \E i \in DOMAIN Content[c] :
                 LET m == Content[c][i] IN
                 \/ m.type = "exec" /\ (m.inner = None \/ f[m.inner])
                 \/ m.type \in blocked]
           Step == [f \in [Body -> BOOLEAN] |-> Right(f)]
           Found == CHOOSE f : f = Right(f)
           Bad(x) == x.type \in blocked \/ (x.type = "exec" /\ x.inner = None)
           Has(c) == \E x : Occurs(x, Unfolded[c]) /\ Bad(x)
<1>1. \A f : Right(f) \in [Body -> BOOLEAN]
  OBVIOUS
<1>2. \E f \in [Body -> BOOLEAN] : f = Right(f)
  <2>1. Depth \in [Body -> Nat]
    BY NestingAssumption
  <2>2. Step \in [[Body -> BOOLEAN] -> [Body -> BOOLEAN]]
    BY <1>1
  <2>3. \A f \in [Body -> BOOLEAN] : Step[f] = Right(f)
    OBVIOUS
  <2>4. ASSUME NEW g \in [Body -> BOOLEAN], NEW h \in [Body -> BOOLEAN], NEW c \in Body,
               \A d \in Body : Depth[d] < Depth[c] => g[d] = h[d]
        PROVE  Step[g][c] = Step[h][c]
    <3>1. ASSUME NEW i \in DOMAIN Content[c],
                 Content[c][i].type = "exec", Content[c][i].inner # None
          PROVE  g[Content[c][i].inner] = h[Content[c][i].inner]
      BY <2>4, <3>1, Contents, NestingAssumption
    <3>2. Right(g)[c] = Right(h)[c]
      BY <3>1
    <3> HIDE DEF Right, Step
    <3>3. QED
      BY <2>3, <3>2
  <2> HIDE DEF Step, Right
  <2>5. \A g, h \in [Body -> BOOLEAN] : \A c \in Body :
          (\A d \in Body : Depth[d] < Depth[c] => g[d] = h[d]) => Step[g][c] = Step[h][c]
    BY <2>4
  <2>6. BOOLEAN # {}
    OBVIOUS
  <2>7. Descends(Body, BOOLEAN, Depth, Step)
    BY <2>1, <2>2, <2>5, <2>6 DEF Descends
  <2>8. \E f \in [Body -> BOOLEAN] : Step[f] = f
    BY <2>7, Recursion
  <2>9. QED
    BY <2>3, <2>8
<1>3. Found = Right(Found)
  <2> HIDE DEF Right
  <2> QED
    BY <1>2
<1>4. HasDisallowedMessage(blocked, b) <=> Found[b]
  BY DEF HasDisallowedMessage
<1> HIDE DEF Found
<1>5. \A c \in Body : Found[c] <=>
        \E i \in DOMAIN Content[c] :
          LET m == Content[c][i] IN
          \/ m.type = "exec" /\ (m.inner = None \/ Found[m.inner])
          \/ m.type \in blocked
  BY <1>3
<1> DEFINE N == {n \in Nat : \A c \in Body : Depth[c] < n => (Found[c] <=> Has(c))}
<1>6. 0 \in N
  BY NestingAssumption
<1>7. ASSUME NEW n \in Nat, n \in N PROVE n + 1 \in N
  <2>1. SUFFICES ASSUME NEW c \in Body, Depth[c] < n + 1 PROVE Found[c] <=> Has(c)
    <3> HIDE DEF Has
    <3> QED
      OBVIOUS
  <2>2. Has(c) <=>
          \E i \in DOMAIN Content[c] :
            LET m == Content[c][i] IN
            Bad(m) \/ (m.type = "exec" /\ m.inner # None /\ Has(m.inner))
    <3> HIDE DEF Bad
    <3>1. \A x : Occurs(x, Unfolded[c]) <=>
            \E i \in DOMAIN Content[c] :
              LET m == Content[c][i] IN
              \/ x = m
              \/ m.type = "exec" /\ m.inner # None /\ Occurs(x, Unfolded[m.inner])
      BY UnfoldedFacts
    <3>2. QED
      BY <3>1
  <2>3. ASSUME NEW i \in DOMAIN Content[c],
               Content[c][i].type = "exec", Content[c][i].inner # None
        PROVE  Found[Content[c][i].inner] <=> Has(Content[c][i].inner)
    <3> DEFINE d == Content[c][i].inner
    <3>1. d \in Body /\ Depth[d] < Depth[c]
      BY <2>3, Contents, NestingAssumption
    <3> HIDE DEF d, Has
    <3>2. Depth[d] < n
      BY <2>1, <3>1, NestingAssumption
    <3>3. Found[d] <=> Has(d)
      BY <1>7, <3>1, <3>2
    <3>4. QED
      BY <3>3 DEF d
  <2>4. Found[c] <=>
          \E i \in DOMAIN Content[c] :
            LET m == Content[c][i] IN
            \/ m.type = "exec" /\ (m.inner = None \/ Found[m.inner])
            \/ m.type \in blocked
    BY <1>5
  <2> HIDE DEF Has
  <2>5. QED
    BY <2>2, <2>3, <2>4
<1>8. Nat \subseteq N
  <2> HIDE DEF N
  <2> QED
    BY <1>6, <1>7, NatInduct
<1>9. Found[b] <=> Has(b)
  <2>1. Depth[b] + 1 \in Nat /\ Depth[b] < Depth[b] + 1
    BY NestingAssumption
  <2> HIDE DEF Has
  <2>2. QED
    BY <1>8, <2>1
<1>10. QED
  BY <1>4, <1>9

---------------------------------------------------------------------------
(* Coins.                                                                  *)

Delta(a, from, to, n) == (IF a = to THEN n ELSE 0) - (IF a = from THEN n ELSE 0)

\* What a move of coins does to each account, the two ends possibly the same.
LEMMA Moved ==
  ASSUME NEW b \in [Accounts -> Int], NEW from \in Accounts, NEW to \in Accounts,
         NEW n \in Int
  PROVE  /\ Move(b, from, to, n) \in [Accounts -> Int]
         /\ \A a \in Accounts : Move(b, from, to, n)[a] = b[a] + Delta(a, from, to, n)
<1> DEFINE c == [b EXCEPT ![from] = @ - n]
<1>1. c \in [Accounts -> Int]
  OBVIOUS
<1>2. \A a \in Accounts : c[a] = b[a] - (IF a = from THEN n ELSE 0)
  OBVIOUS
<1>3. Move(b, from, to, n) = [c EXCEPT ![to] = @ + n]
  BY DEF Move
<1> HIDE DEF c
<1>4. QED
  BY <1>1, <1>2, <1>3 DEF Delta

\* The coins that messages move are natural numbers.
LEMMA AmountsType ==
  ASSUME NEW b \in Body
  PROVE  /\ Unfolded[b] \in Seq(WellFormed)
         /\ DOMAIN Unfolded[b] = 1..Len(Unfolded[b]) /\ Len(Unfolded[b]) \in Nat
         /\ IsFiniteSet(DOMAIN Unfolded[b])
         /\ \A i \in DOMAIN Unfolded[b] :
              Unfolded[b][i] \in WellFormed /\ Amounts(b)[i] \in Nat
         /\ SentAway(b) \in Nat
         /\ \A a : Sent(b, a) \in Nat
<1>1. Unfolded[b] \in Seq(WellFormed)
  BY UnfoldedFacts
<1>2. DOMAIN Unfolded[b] = 1..Len(Unfolded[b]) /\ Len(Unfolded[b]) \in Nat
  BY <1>1
<1>3. IsFiniteSet(DOMAIN Unfolded[b])
  BY <1>2, FS_Interval
<1>4. ASSUME NEW i \in DOMAIN Unfolded[b]
      PROVE  Unfolded[b][i] \in WellFormed /\ Amounts(b)[i] \in Nat
  <2>1. Unfolded[b][i] \in WellFormed
    BY <1>1
  <2>2. QED
    BY <2>1 DEF Amounts, WellFormed, Message
<1>5. SentAway(b) \in Nat
  <2>1. DOMAIN Amounts(b) = DOMAIN Unfolded[b]
    BY DEF Amounts
  <2>2. QED
    BY <1>3, <1>4, <2>1, SumNat DEF SentAway, SumFunction
<1>6. ASSUME NEW a PROVE Sent(b, a) \in Nat
  <2> DEFINE T == {i \in DOMAIN Unfolded[b] : Unfolded[b][i].to = a}
  <2>1. T \subseteq DOMAIN Unfolded[b]
    OBVIOUS
  <2>2. IsFiniteSet(T)
    BY <1>3, <2>1, FS_Subset
  <2>3. Sent(b, a) = SumFunctionOnSet(Amounts(b), T)
    BY DEF Sent
  <2> HIDE DEF T
  <2>4. QED
    BY <1>4, <2>1, <2>2, <2>3, SumNat
<1>7. QED
  BY <1>1, <1>2, <1>3, <1>4, <1>5, <1>6

\* Messages that all run move what they say, from the signer, and nothing to
\* a blocked address; whatever becomes of them, nobody's balance is negative.
LEMMA MessagesMove ==
  ASSUME NEW b \in [Accounts -> Nat], NEW tx \in Tx
  PROVE  LET r == RunMsgs(b, tx) IN
         /\ r.bank \in [Accounts -> Nat]
         /\ r.ok =>
              /\ \A a \in Accounts :
                   r.bank[a] = b[a] - (IF a = tx.signer THEN SentAway(tx.body) ELSE 0)
                                 + Sent(tx.body, a)
              /\ \A a \in BlockedAddresses : Sent(tx.body, a) = 0
<1> DEFINE ms == Unfolded[tx.body]
           n == Len(ms)
           D == 0..n
           V == [ok : BOOLEAN, bank : [Accounts -> Int]]
           Value(f, i) == IF i = 0 THEN [ok |-> TRUE, bank |-> b]
                          ELSE RunMsg(f[i - 1], ms[i], tx.signer)
           Right(f) == [i \in 0..Len(ms) |-> Value(f, i)]
           After == CHOOSE f : f = Right(f)
           Rank == [i \in D |-> i]
           Step == [f \in [D -> V] |-> Right(f)]
           A == Amounts(tx.body)
           Upto(i) == SumFunctionOnSet(A, 1..i)
           To(i, a) == {j \in 1..i : ms[j].to = a}
           UptoTo(i, a) == SumFunctionOnSet(A, To(i, a))
<1>1. tx.body \in Body /\ tx.signer \in Users /\ tx.signer \in Accounts
      /\ tx.signer \notin BlockedAddresses
  BY PipelineAssumption DEF Tx, BlockedAddresses, maccPerms
<1>2. /\ n \in Nat /\ DOMAIN ms = 1..n
      /\ \A i \in 1..n : /\ ms[i] \in WellFormed
                         /\ A[i] = ms[i].amount /\ A[i] \in Nat
  BY <1>1, AmountsType DEF Amounts
<1>3. \A i \in 1..n : ms[i].type = "send" => ms[i].to \in Accounts
  BY <1>2 DEF WellFormed
<1>4. ASSUME NEW r \in V, NEW i \in 1..n PROVE RunMsg(r, ms[i], tx.signer) \in V
  <2> HIDE DEF ms, n, A
  <2>1. ms[i].amount \in Int /\ r.bank \in [Accounts -> Int]
    BY <1>2
  <2>2. ms[i].type = "send" => Move(r.bank, tx.signer, ms[i].to, ms[i].amount) \in [Accounts -> Int]
    BY <1>1, <1>3, <2>1, Moved
  <2>3. QED
    BY <2>2 DEF RunMsg
<1>5. \E f \in [D -> V] : f = Right(f)
  <2>1. Rank \in [D -> Nat]
    BY <1>2
  <2>2. ASSUME NEW f \in [D -> V] PROVE Right(f) \in [D -> V]
    <3> SUFFICES ASSUME NEW i \in D PROVE Value(f, i) \in V
      OBVIOUS
    <3>1. CASE i = 0
      <4>1. b \in [Accounts -> Int]
        OBVIOUS
      <4>2. QED
        BY <3>1, <4>1
    <3>2. CASE i # 0
      <4>1. i - 1 \in D /\ i \in 1..n
        BY <1>2, <3>2
      <4> HIDE DEF V, D, n, ms
      <4>2. QED
        BY <1>4, <3>2, <4>1
    <3>3. QED
      BY <3>1, <3>2
  <2>3. Step \in [[D -> V] -> [D -> V]]
    <3> HIDE DEF Right
    <3> QED
      BY <2>2
  <2>4. \A f \in [D -> V] : Step[f] = Right(f)
    OBVIOUS
  <2>5. ASSUME NEW g \in [D -> V], NEW h \in [D -> V], NEW i \in D,
               \A j \in D : Rank[j] < Rank[i] => g[j] = h[j]
        PROVE  Step[g][i] = Step[h][i]
    <3>1. i # 0 => i - 1 \in D /\ i - 1 < i
      BY <1>2
    <3>2. i # 0 => g[i - 1] = h[i - 1]
      BY <2>5, <3>1
    <3>3. Value(g, i) = Value(h, i)
      BY <3>2
    <3>4. Right(g)[i] = Value(g, i) /\ Right(h)[i] = Value(h, i)
      OBVIOUS
    <3> HIDE DEF Right, Value, Step, V, D
    <3>5. QED
      BY <2>4, <3>3, <3>4
  <2>6. V # {}
    <3>1. [ok |-> TRUE, bank |-> b] \in V
      OBVIOUS
    <3>2. QED
      BY <3>1
  <2> HIDE DEF Step, Right, V, D, Rank
  <2>7. \A g, h \in [D -> V] : \A i \in D :
          (\A j \in D : Rank[j] < Rank[i] => g[j] = h[j]) => Step[g][i] = Step[h][i]
    BY <2>5
  <2>8. Descends(D, V, Rank, Step)
    BY <2>1, <2>3, <2>6, <2>7 DEF Descends
  <2>9. \E f \in [D -> V] : Step[f] = f
    BY <2>8, Recursion
  <2>10. QED
    BY <2>4, <2>9
<1>6. After = Right(After)
  <2> HIDE DEF Right
  <2> QED
    BY <1>5
<1>7. RunMsgs(b, tx) = After[n]
  BY DEF RunMsgs
<1> HIDE DEF After
<1>8. After[0] = [ok |-> TRUE, bank |-> b]
  BY <1>2, <1>6
<1>9. ASSUME NEW i \in 1..n PROVE After[i] = RunMsg(After[i - 1], ms[i], tx.signer)
  <2>1. i \in 0..Len(ms) /\ i # 0
    BY <1>2
  <2> HIDE DEF ms, n
  <2>2. Right(After)[i] = Value(After, i)
    BY <2>1
  <2>3. QED
    BY <1>6, <2>1, <2>2
<1> DEFINE Good(i) ==
             /\ After[i].bank \in [Accounts -> Nat]
             /\ After[i].ok =>
                  /\ \A a \in Accounts :
                       After[i].bank[a] =
                         b[a] - (IF a = tx.signer THEN Upto(i) ELSE 0) + UptoTo(i, a)
                  /\ \A a \in BlockedAddresses : UptoTo(i, a) = 0
           N == {i \in Nat : i <= n => Good(i)}
<1>10. ASSUME NEW i \in Nat, i + 1 <= n
       PROVE  /\ Upto(i) \in Nat /\ Upto(i + 1) = Upto(i) + ms[i + 1].amount
              /\ \A a : /\ UptoTo(i, a) \in Nat
                        /\ UptoTo(i + 1, a) =
                             UptoTo(i, a) + (IF ms[i + 1].to = a THEN ms[i + 1].amount ELSE 0)
  <2> HIDE DEF A, ms, n
  <2>1. /\ 1..(i + 1) = (1..i) \cup {i + 1} /\ i + 1 \notin 1..i
        /\ 1..i \subseteq 1..n /\ i + 1 \in 1..n
    BY <1>2, <1>10
  <2>2. IsFiniteSet(1..i)
    BY FS_Interval
  <2>3. A[i + 1] \in Nat /\ A[i + 1] = ms[i + 1].amount /\ \A j \in 1..i : A[j] \in Nat
    BY <1>2, <2>1
  <2>4. Upto(i) \in Nat
    BY <2>2, <2>3, SumNat
  <2>5. Upto(i + 1) = Upto(i) + A[i + 1]
    <3> DEFINE R == 1..i
    <3>1. /\ IsFiniteSet(R) /\ i + 1 \notin R /\ A[i + 1] \in Int
          /\ \A j \in R : A[j] \in Int
      BY <2>1, <2>2, <2>3
    <3> HIDE DEF R
    <3>2. SumFunctionOnSet(A, R \cup {i + 1}) = SumFunctionOnSet(A, R) + A[i + 1]
      BY <3>1, SumAdd
    <3>3. QED
      BY <2>1, <3>2 DEF R
  <2>6. ASSUME NEW a
        PROVE  /\ UptoTo(i, a) \in Nat
               /\ UptoTo(i + 1, a) =
                    UptoTo(i, a) + (IF ms[i + 1].to = a THEN ms[i + 1].amount ELSE 0)
    <3>1. To(i, a) \subseteq 1..i /\ i + 1 \notin To(i, a)
      BY <2>1
    <3>2. To(i + 1, a) = IF ms[i + 1].to = a THEN To(i, a) \cup {i + 1} ELSE To(i, a)
      BY <2>1
    <3> HIDE DEF To
    <3>3. IsFiniteSet(To(i, a)) /\ \A j \in To(i, a) : A[j] \in Nat
      BY <2>2, <2>3, <3>1, FS_Subset
    <3>4. UptoTo(i, a) \in Nat
      BY <3>3, SumNat
    <3>5. SumFunctionOnSet(A, To(i, a) \cup {i + 1}) = UptoTo(i, a) + A[i + 1]
      BY <2>3, <3>1, <3>3, SumAdd
    <3>6. CASE ms[i + 1].to = a
      BY <2>3, <3>2, <3>4, <3>5, <3>6
    <3>7. CASE ms[i + 1].to # a
      BY <3>2, <3>4, <3>7
    <3>8. QED
      BY <3>6, <3>7
  <2>7. QED
    BY <2>3, <2>4, <2>5, <2>6
<1>11. 0 \in N
  <2>1. 1..0 = {}
    OBVIOUS
  <2>2. Upto(0) = 0 /\ \A a : UptoTo(0, a) = 0
    BY <2>1, SumEmpty
  <2> HIDE DEF Upto, UptoTo, n
  <2>3. Good(0)
    BY <1>8, <2>2
  <2> HIDE DEF Good
  <2>4. QED
    BY <2>3
<1>12. ASSUME NEW i \in Nat, i \in N PROVE i + 1 \in N
  <2>1. SUFFICES ASSUME i + 1 <= n PROVE Good(i + 1)
    <3> HIDE DEF Good, n
    <3> QED
      OBVIOUS
  <2> DEFINE r == After[i]
             m == ms[i + 1]
             u == tx.signer
  <2>2. Good(i)
    <3> HIDE DEF Good, n
    <3> QED
      BY <1>2, <1>12, <2>1
  <2>3. i + 1 \in 1..n /\ (i + 1) - 1 = i
    BY <1>2, <2>1
  <2>4. After[i + 1] = RunMsg(r, m, u)
    <3> HIDE DEF ms, n
    <3> QED
      BY <1>9, <2>3
  <2>5. /\ m.type = "send" => m.to \in Accounts
        /\ m.type # "send" => m.amount = 0
        /\ m.amount \in Nat
    <3> HIDE DEF ms, n, A
    <3> QED
      BY <1>2, <2>3 DEF WellFormed
  <2>6. /\ Upto(i) \in Nat /\ Upto(i + 1) = Upto(i) + m.amount
        /\ \A a : /\ UptoTo(i, a) \in Nat
                  /\ UptoTo(i + 1, a) = UptoTo(i, a) + (IF m.to = a THEN m.amount ELSE 0)
    <3> HIDE DEF Upto, UptoTo, n, ms
    <3> QED
      BY <1>10, <2>1
  <2>7. /\ r.bank \in [Accounts -> Nat]
        /\ r.ok =>
             /\ \A a \in Accounts :
                  r.bank[a] = b[a] - (IF a = u THEN Upto(i) ELSE 0) + UptoTo(i, a)
             /\ \A a \in BlockedAddresses : UptoTo(i, a) = 0
    BY <2>2
  <2> HIDE DEF r, m, u, ms, n, A, Upto, UptoTo, N
  <2>8. CASE m.type # "send"
    <3>1. After[i + 1] = r
      BY <2>4, <2>8 DEF RunMsg
    <3>2. Upto(i + 1) = Upto(i) /\ \A a : UptoTo(i + 1, a) = UptoTo(i, a)
      BY <2>5, <2>6, <2>8
    <3>3. QED
      BY <2>7, <3>1, <3>2 DEF u
  <2>9. CASE m.type = "send" /\ r.ok /\ m.to \notin BlockedAddresses /\ r.bank[u] >= m.amount
    <3> DEFINE c == Move(r.bank, u, m.to, m.amount)
    <3>1. After[i + 1] = [ok |-> TRUE, bank |-> c]
      BY <2>4, <2>9 DEF RunMsg
    <3>2. u \in Accounts /\ m.to \in Accounts /\ m.amount \in Int
          /\ r.bank \in [Accounts -> Int]
      BY <1>1, <2>5, <2>7, <2>9 DEF u
    <3>3. /\ c \in [Accounts -> Int]
          /\ \A a \in Accounts :
               c[a] = r.bank[a] - (IF a = u THEN m.amount ELSE 0)
                                + (IF a = m.to THEN m.amount ELSE 0)
      <4> DEFINE q == r.bank
                 t == m.to
                 k == m.amount
      <4>1. u \in Accounts /\ t \in Accounts /\ k \in Int /\ q \in [Accounts -> Int]
        BY <3>2
      <4> HIDE DEF q, t, k
      <4>2. /\ Move(q, u, t, k) \in [Accounts -> Int]
            /\ \A a \in Accounts : Move(q, u, t, k)[a] = q[a] + Delta(a, u, t, k)
        BY <4>1, Moved
      <4>3. \A a \in Accounts :
              Move(q, u, t, k)[a] =
                q[a] - (IF a = u THEN k ELSE 0) + (IF a = t THEN k ELSE 0)
        BY <4>1, <4>2 DEF Delta
      <4>4. QED
        BY <4>2, <4>3 DEF q, t, k
    <3> HIDE DEF c
    <3>4. \A a \in Accounts : c[a] \in Nat
      BY <2>5, <2>7, <2>9, <3>3
    <3>5. c \in [Accounts -> Nat]
      BY <3>3, <3>4
    <3>6. ASSUME NEW a \in Accounts
          PROVE  c[a] = b[a] - (IF a = u THEN Upto(i + 1) ELSE 0) + UptoTo(i + 1, a)
      <4>1. r.bank[a] = b[a] - (IF a = u THEN Upto(i) ELSE 0) + UptoTo(i, a)
        BY <2>7, <2>9
      <4>2. b[a] \in Nat /\ UptoTo(i, a) \in Nat
        BY <2>6
      <4>3. QED
        BY <2>5, <2>6, <3>3, <4>1, <4>2
    <3>7. \A a \in BlockedAddresses : UptoTo(i + 1, a) = 0
      BY <2>5, <2>6, <2>7, <2>9
    <3>8. QED
      BY <3>1, <3>5, <3>6, <3>7 DEF u
  <2>10. CASE m.type = "send" /\ ~(r.ok /\ m.to \notin BlockedAddresses /\ r.bank[u] >= m.amount)
    <3>1. After[i + 1] = [ok |-> FALSE, bank |-> r.bank]
      BY <2>4, <2>10 DEF RunMsg
    <3>2. QED
      BY <2>7, <3>1
  <2>11. QED
    BY <2>8, <2>9, <2>10
<1>13. Good(n)
  <2> HIDE DEF Good, n
  <2>1. Nat \subseteq N
    <3> HIDE DEF N
    <3> QED
      BY <1>11, <1>12, NatInduct
  <2>2. QED
    BY <1>2, <2>1
<1>14. Upto(n) = SentAway(tx.body) /\ \A a : UptoTo(n, a) = Sent(tx.body, a)
  <2>1. DOMAIN A = 1..n
    BY <1>2 DEF Amounts
  <2>2. \A a : To(n, a) = {i \in DOMAIN Unfolded[tx.body] : Unfolded[tx.body][i].to = a}
    BY <1>2
  <2>3. QED
    BY <2>1, <2>2 DEF SentAway, Sent, SumFunction
<1>15. QED
  <2> HIDE DEF n, Upto, UptoTo
  <2>1. QED
    BY <1>7, <1>13, <1>14

---------------------------------------------------------------------------
(* The books.                                                              *)

\* g has one summand more than f, at x.
OneMore(g, f, S, x) ==
  /\ IsFiniteSet(S) /\ x \notin S /\ DOMAIN f = S /\ DOMAIN g = S \cup {x}
  /\ \A y \in S : f[y] \in Int /\ g[y] = f[y]
  /\ g[x] \in Int

\* A sum over a set with one element more.
LEMMA SumInsert ==
  ASSUME NEW S, NEW x, NEW f, NEW g, OneMore(g, f, S, x)
  PROVE  SumFunction(f) \in Int /\ SumFunction(g) = SumFunction(f) + g[x]
<1> USE DEF OneMore
<1>1. SumFunctionOnSet(g, S \cup {x}) = SumFunctionOnSet(g, S) + g[x]
  <2>1. \A y \in S : g[y] \in Int
    OBVIOUS
  <2>2. QED
    BY <2>1, SumAdd
<1>2. SumFunctionOnSet(g, S) = SumFunctionOnSet(f, S)
  BY SumSame
<1>3. SumFunctionOnSet(f, S) \in Int
  BY SumTake
<1>4. QED
  BY <1>1, <1>2, <1>3 DEF SumFunction

\* What one entry adds to each sum.
Adds(S, e) ==
  /\ Fees(S) \in Int /\ Charges(S) \in Int /\ Spent(S) \in Int
  /\ Fees(S \cup {e}) = Fees(S) + e.tx.fee
  /\ Charges(S \cup {e}) = Charges(S) + e.price * e.used
  /\ Spent(S \cup {e}) = Spent(S) + (IF e.ok THEN SentAway(e.tx.body) ELSE 0)
  /\ \A a : /\ Received(S, a) \in Int
            /\ Received(S \cup {e}, a) =
                 Received(S, a) + (IF e.ok THEN Sent(e.tx.body, a) ELSE 0)

\* The parts of an entry that are summed are natural numbers.
LEMMA EntryTypes ==
  ASSUME NEW e \in Entry
  PROVE  /\ e.tx.fee \in Nat /\ e.price * e.used \in Nat /\ e.tx.body \in Body
         /\ e.tx.signer \in Users /\ e.tx.seq \in Nat /\ e.ok \in BOOLEAN
         /\ SentAway(e.tx.body) \in Nat /\ \A a : Sent(e.tx.body, a) \in Nat
<1>1. e.tx \in Tx /\ e.price \in Nat /\ e.used \in Nat /\ e.ok \in BOOLEAN
  BY PipelineAssumption DEF Entry
<1>2. e.tx.fee \in Nat /\ e.tx.body \in Body /\ e.tx.signer \in Users /\ e.tx.seq \in Nat
  BY <1>1 DEF Tx
<1>3. SentAway(e.tx.body) \in Nat /\ \A a : Sent(e.tx.body, a) \in Nat
  BY <1>2, AmountsType
<1>4. \A p, u \in Nat : p * u \in Nat
  OBVIOUS
<1>5. QED
  BY <1>1, <1>2, <1>3, <1>4

\* An entry that a set of entries lacks adds its share to each sum.
LEMMA EntryAdds ==
  ASSUME NEW S \in SUBSET Entry, IsFiniteSet(S), NEW e \in Entry, e \notin S
  PROVE  Adds(S, e)
<1> DEFINE T == S \cup {e}
<1>1. \A x \in T : x \in Entry
  OBVIOUS
<1>2. Fees(S) \in Int /\ Fees(T) = Fees(S) + e.tx.fee
  <2> DEFINE f == [x \in S |-> x.tx.fee]
             g == [x \in T |-> x.tx.fee]
  <2>1. \A x \in T : g[x] \in Int
    BY <1>1, EntryTypes
  <2>2. OneMore(g, f, S, e) /\ g[e] = e.tx.fee
    BY <2>1 DEF OneMore
  <2>3. Fees(S) = SumFunction(f) /\ Fees(T) = SumFunction(g)
    BY DEF Fees
  <2> HIDE DEF f, g, T
  <2>4. SumFunction(f) \in Int /\ SumFunction(g) = SumFunction(f) + g[e]
    BY <2>2, SumInsert
  <2>5. QED
    BY <2>2, <2>3, <2>4
<1>3. Charges(S) \in Int /\ Charges(T) = Charges(S) + e.price * e.used
  <2> DEFINE f == [x \in S |-> x.price * x.used]
             g == [x \in T |-> x.price * x.used]
  <2>1. \A x \in T : g[x] \in Int
    <3> SUFFICES ASSUME NEW x \in T PROVE x.price * x.used \in Int
      OBVIOUS
    <3>1. x.price * x.used \in Nat
      BY <1>1, EntryTypes
    <3>2. QED
      BY <3>1
  <2>2. OneMore(g, f, S, e) /\ g[e] = e.price * e.used
    BY <2>1 DEF OneMore
  <2>3. Charges(S) = SumFunction(f) /\ Charges(T) = SumFunction(g)
    BY DEF Charges
  <2> HIDE DEF f, g, T
  <2>4. SumFunction(f) \in Int /\ SumFunction(g) = SumFunction(f) + g[e]
    BY <2>2, SumInsert
  <2>5. QED
    BY <2>2, <2>3, <2>4
<1>4. /\ Spent(S) \in Int
      /\ Spent(T) = Spent(S) + (IF e.ok THEN SentAway(e.tx.body) ELSE 0)
  <2> DEFINE f == [x \in S |-> IF x.ok THEN SentAway(x.tx.body) ELSE 0]
             g == [x \in T |-> IF x.ok THEN SentAway(x.tx.body) ELSE 0]
  <2>1. \A x \in T : g[x] \in Int
    <3> SUFFICES ASSUME NEW x \in T PROVE SentAway(x.tx.body) \in Int
      OBVIOUS
    <3>1. SentAway(x.tx.body) \in Nat
      BY <1>1, EntryTypes
    <3>2. QED
      BY <3>1
  <2>2. OneMore(g, f, S, e) /\ g[e] = IF e.ok THEN SentAway(e.tx.body) ELSE 0
    BY <2>1 DEF OneMore
  <2>3. Spent(S) = SumFunction(f) /\ Spent(T) = SumFunction(g)
    BY DEF Spent
  <2> HIDE DEF f, g, T
  <2>4. SumFunction(f) \in Int /\ SumFunction(g) = SumFunction(f) + g[e]
    BY <2>2, SumInsert
  <2>5. QED
    BY <2>2, <2>3, <2>4
<1>5. ASSUME NEW a
      PROVE  /\ Received(S, a) \in Int
             /\ Received(T, a) = Received(S, a) + (IF e.ok THEN Sent(e.tx.body, a) ELSE 0)
  <2> DEFINE f == [x \in S |-> IF x.ok THEN Sent(x.tx.body, a) ELSE 0]
             g == [x \in T |-> IF x.ok THEN Sent(x.tx.body, a) ELSE 0]
  <2>1. \A x \in T : g[x] \in Int
    <3> SUFFICES ASSUME NEW x \in T PROVE Sent(x.tx.body, a) \in Int
      OBVIOUS
    <3>1. Sent(x.tx.body, a) \in Nat
      BY <1>1, EntryTypes
    <3>2. QED
      BY <3>1
  <2>2. OneMore(g, f, S, e) /\ g[e] = IF e.ok THEN Sent(e.tx.body, a) ELSE 0
    BY <2>1 DEF OneMore
  <2>3. Received(S, a) = SumFunction(f) /\ Received(T, a) = SumFunction(g)
    BY DEF Received
  <2> HIDE DEF f, g, T
  <2>4. SumFunction(f) \in Int /\ SumFunction(g) = SumFunction(f) + g[e]
    BY <2>2, SumInsert
  <2>5. QED
    BY <2>2, <2>3, <2>4
<1>6. QED
  BY <1>2, <1>3, <1>4, <1>5 DEF Adds

\* Nothing is booked in the empty set of entries.
LEMMA NothingBooked ==
  Fees({}) = 0 /\ Charges({}) = 0 /\ Spent({}) = 0 /\ \A a : Received({}, a) = 0
<1>1. \A f : DOMAIN f = {} => SumFunction(f) = 0
  BY SumEmpty DEF SumFunction
<1>2. QED
  BY <1>1 DEF Fees, Charges, Spent, Received

\* The books after a transaction: what the new entry e adds to each of the sums
\* that the properties are about.
Booked(e) ==
  /\ Fees(Market' \ Settled') =
       Fees(Market \ Settled) + (IF e.params.enabled /\ ~e.ok THEN e.tx.fee ELSE 0)
  /\ Charges(Settled' \ Shared') =
       Charges(Settled \ Shared)
         + (IF (e.params.enabled /\ e.ok) /\ ~e.params.distribute
            THEN e.price * e.used ELSE 0)
  /\ Fees(ledger' \ Market') =
       Fees(ledger \ Market) + (IF ~e.params.enabled THEN e.tx.fee ELSE 0)
  /\ Charges(Shared') =
       Charges(Shared)
         + (IF (e.params.enabled /\ e.ok) /\ e.params.distribute
            THEN e.price * e.used ELSE 0)
  /\ Fees(Settled') = Fees(Settled) + (IF e.params.enabled /\ e.ok THEN e.tx.fee ELSE 0)
  /\ Charges(Settled') =
       Charges(Settled) + (IF e.params.enabled /\ e.ok THEN e.price * e.used ELSE 0)
  /\ \A a : Received(ledger', a) =
              Received(ledger, a) + (IF e.ok THEN Sent(e.tx.body, a) ELSE 0)
  /\ \A a : /\ Fees({x \in ledger' : x.tx.signer = a}) =
                 Fees({x \in ledger : x.tx.signer = a})
                   + (IF e.tx.signer = a THEN e.tx.fee ELSE 0)
            /\ Spent({x \in ledger' : x.tx.signer = a}) =
                 Spent({x \in ledger : x.tx.signer = a})
                   + (IF e.tx.signer = a /\ e.ok THEN SentAway(e.tx.body) ELSE 0)

\* All these sums are integers.
SumsAreInts ==
  /\ Fees(Market \ Settled) \in Int /\ Charges(Settled \ Shared) \in Int
  /\ Fees(ledger \ Market) \in Int /\ Charges(Shared) \in Int
  /\ Fees(Settled) \in Int /\ Charges(Settled) \in Int
  /\ \A a : /\ Received(ledger, a) \in Int
            /\ Fees({x \in ledger : x.tx.signer = a}) \in Int
            /\ Spent({x \in ledger : x.tx.signer = a}) \in Int

\* A new entry is booked once in each of the sums it belongs to.
LEMMA BooksAdd ==
  ASSUME ledger \subseteq Entry, IsFiniteSet(ledger), NEW e \in Entry, e \notin ledger,
         ledger' = ledger \cup {e}
  PROVE  Booked(e) /\ SumsAreInts
<1> DEFINE Own(a) == {x \in ledger : x.tx.signer = a}
           NewOwn(a) == {x \in ledger' : x.tx.signer = a}
<1>1. ASSUME NEW S \in SUBSET ledger PROVE Adds(S, e)
  BY <1>1, FS_Subset, EntryAdds
<1>2. ASSUME NEW S \in SUBSET ledger, NEW T, NEW p \in BOOLEAN,
             T = IF p THEN S \cup {e} ELSE S
      PROVE  /\ Fees(T) = Fees(S) + (IF p THEN e.tx.fee ELSE 0)
             /\ Charges(T) = Charges(S) + (IF p THEN e.price * e.used ELSE 0)
             /\ Spent(T) = Spent(S) + (IF p /\ e.ok THEN SentAway(e.tx.body) ELSE 0)
             /\ Fees(S) \in Int /\ Charges(S) \in Int /\ Spent(S) \in Int
  <2>1. Adds(S, e)
    BY <1>1
  <2>2. QED
    BY <1>2, <2>1 DEF Adds
<1>3. e.params.enabled \in BOOLEAN /\ e.ok \in BOOLEAN /\ e.params.distribute \in BOOLEAN
  BY DEF Entry, Params
<1>4. Market' \ Settled' = IF e.params.enabled /\ ~e.ok
                           THEN (Market \ Settled) \cup {e} ELSE Market \ Settled
  BY DEF Market, Settled
<1>5. Settled' \ Shared' = IF (e.params.enabled /\ e.ok) /\ ~e.params.distribute
                           THEN (Settled \ Shared) \cup {e} ELSE Settled \ Shared
  BY DEF Market, Settled, Shared
<1>6. ledger' \ Market' = IF ~e.params.enabled
                          THEN (ledger \ Market) \cup {e} ELSE ledger \ Market
  BY DEF Market
<1>7. Shared' = IF (e.params.enabled /\ e.ok) /\ e.params.distribute
                THEN Shared \cup {e} ELSE Shared
  BY DEF Market, Settled, Shared
<1>8. Settled' = IF e.params.enabled /\ e.ok THEN Settled \cup {e} ELSE Settled
  BY DEF Market, Settled
<1>9. /\ Market \ Settled \in SUBSET ledger /\ Settled \ Shared \in SUBSET ledger
      /\ ledger \ Market \in SUBSET ledger /\ Shared \in SUBSET ledger
      /\ Settled \in SUBSET ledger
  BY DEF Market, Settled, Shared
<1>10. ASSUME NEW a
       PROVE  /\ Own(a) \in SUBSET ledger
              /\ NewOwn(a) = IF e.tx.signer = a THEN Own(a) \cup {e} ELSE Own(a)
  OBVIOUS
<1> HIDE DEF Own, NewOwn
<1>11. /\ Fees(Market' \ Settled') =
            Fees(Market \ Settled) + (IF e.params.enabled /\ ~e.ok THEN e.tx.fee ELSE 0)
       /\ Fees(Market \ Settled) \in Int
  BY <1>2, <1>3, <1>4, <1>9
<1>12. /\ Charges(Settled' \ Shared') =
            Charges(Settled \ Shared)
              + (IF (e.params.enabled /\ e.ok) /\ ~e.params.distribute
                 THEN e.price * e.used ELSE 0)
       /\ Charges(Settled \ Shared) \in Int
  BY <1>2, <1>3, <1>5, <1>9
<1>13. /\ Fees(ledger' \ Market') =
            Fees(ledger \ Market) + (IF ~e.params.enabled THEN e.tx.fee ELSE 0)
       /\ Fees(ledger \ Market) \in Int
  BY <1>2, <1>3, <1>6, <1>9
<1>14. /\ Charges(Shared') =
            Charges(Shared)
              + (IF (e.params.enabled /\ e.ok) /\ e.params.distribute
                 THEN e.price * e.used ELSE 0)
       /\ Charges(Shared) \in Int
  BY <1>2, <1>3, <1>7, <1>9
<1>15. /\ Fees(Settled') =
            Fees(Settled) + (IF e.params.enabled /\ e.ok THEN e.tx.fee ELSE 0)
       /\ Charges(Settled') =
            Charges(Settled) + (IF e.params.enabled /\ e.ok THEN e.price * e.used ELSE 0)
       /\ Fees(Settled) \in Int /\ Charges(Settled) \in Int
  BY <1>2, <1>3, <1>8, <1>9
<1>16. ASSUME NEW a
       PROVE  /\ Received(ledger, a) \in Int
              /\ Received(ledger', a) =
                   Received(ledger, a) + (IF e.ok THEN Sent(e.tx.body, a) ELSE 0)
  <2>1. Adds(ledger, e)
    BY <1>1
  <2>2. QED
    BY <2>1 DEF Adds
<1>17. ASSUME NEW a
       PROVE  /\ Fees(Own(a)) \in Int /\ Spent(Own(a)) \in Int
              /\ Fees(NewOwn(a)) = Fees(Own(a)) + (IF e.tx.signer = a THEN e.tx.fee ELSE 0)
              /\ Spent(NewOwn(a)) =
                   Spent(Own(a))
                     + (IF e.tx.signer = a /\ e.ok THEN SentAway(e.tx.body) ELSE 0)
  <2> DEFINE p == e.tx.signer = a
  <2>1. p \in BOOLEAN /\ Own(a) \in SUBSET ledger
        /\ NewOwn(a) = IF p THEN Own(a) \cup {e} ELSE Own(a)
    BY <1>10
  <2> HIDE DEF p
  <2>2. /\ Fees(NewOwn(a)) = Fees(Own(a)) + (IF p THEN e.tx.fee ELSE 0)
        /\ Spent(NewOwn(a)) =
             Spent(Own(a)) + (IF p /\ e.ok THEN SentAway(e.tx.body) ELSE 0)
        /\ Fees(Own(a)) \in Int /\ Spent(Own(a)) \in Int
    BY <1>2, <2>1
  <2>3. QED
    BY <2>2 DEF p
<1>18. QED
  BY <1>11, <1>12, <1>13, <1>14, <1>15, <1>16, <1>17
  DEF Own, NewOwn, Booked, SumsAreInts

---------------------------------------------------------------------------
(* One transaction.                                                        *)

\* The accounts that fees pass through are distinct and none of a user.
LEMMA SpecialAccounts ==
  /\ Proposer \in Accounts /\ "feemarket-fee-collector" \in Accounts
  /\ "fee_collector" \in Accounts /\ "distribution" \in Accounts /\ "gov" \in Accounts
  /\ Users \subseteq Accounts
  /\ Proposer \notin Users \cup maccPerms /\ Users \cap maccPerms = {}
  /\ BlockedAddresses = {"fee_collector", "feemarket-fee-collector", "distribution"}
BY PipelineAssumption DEF maccPerms, BlockedAddresses

\* What the ante handler takes from the signer, and where it puts it.
LEMMA CheckedMoves ==
  ASSUME TypeOK, NEW tx \in Txs, AntePasses(tx)
  PROVE  /\ tx \in Tx /\ tx.fee \in Nat /\ tx.gas \in Nat /\ tx.body \in Body
         /\ tx.signer \in Users /\ tx.seq \in Nat
         /\ CheckedBank(tx) \in [Accounts -> Nat]
         /\ \A a \in Accounts :
              CheckedBank(tx)[a] =
                bank[a] - (IF a = tx.signer THEN tx.fee ELSE 0)
                  + (IF params.enabled /\ a = "feemarket-fee-collector" THEN tx.fee ELSE 0)
                  + (IF ~params.enabled /\ a = "fee_collector" THEN tx.fee ELSE 0)
<1>1. /\ tx \in Tx /\ tx.fee \in Nat /\ tx.gas \in Nat /\ tx.body \in Body
      /\ tx.signer \in Users /\ tx.seq \in Nat
  BY PipelineAssumption DEF Tx
<1> DEFINE to == IF params.enabled THEN "feemarket-fee-collector" ELSE "fee_collector"
           u == tx.signer
           n == tx.fee
           c == Move(bank, u, to, n)
<1>2. /\ bank \in [Accounts -> Int] /\ bank \in [Accounts -> Nat]
      /\ u \in Accounts /\ to \in Accounts /\ n \in Int /\ n \in Nat
      /\ to # u /\ bank[u] >= n
  BY <1>1, SpecialAccounts DEF TypeOK, AntePasses, maccPerms
<1>3. CheckedBank(tx) = c
  BY DEF CheckedBank
<1> HIDE DEF u, n
<1>4. to = IF params.enabled THEN "feemarket-fee-collector" ELSE "fee_collector"
  OBVIOUS
<1> HIDE DEF to
<1>5. /\ c \in [Accounts -> Int]
      /\ \A a \in Accounts : c[a] = bank[a] + Delta(a, u, to, n)
  BY <1>2, Moved
<1> HIDE DEF c
<1>6. ASSUME NEW a \in Accounts
      PROVE  c[a] = bank[a] - (IF a = u THEN n ELSE 0) + (IF a = to THEN n ELSE 0)
  <2>1. bank[a] \in Nat
    BY <1>2
  <2>2. QED
    BY <1>2, <1>5, <2>1 DEF Delta
<1>7. \A a \in Accounts : c[a] \in Nat
  BY <1>2, <1>5, <1>6
<1>8. c \in [Accounts -> Nat]
  BY <1>5, <1>7
<1>9. ASSUME NEW a \in Accounts
      PROVE  c[a] =
               bank[a] - (IF a = u THEN n ELSE 0)
                 + (IF params.enabled /\ a = "feemarket-fee-collector" THEN n ELSE 0)
                 + (IF ~params.enabled /\ a = "fee_collector" THEN n ELSE 0)
  <2>1. bank[a] \in Nat
    BY <1>2
  <2>2. QED
    BY <1>2, <1>4, <1>6, <2>1
<1>10. QED
  BY <1>1, <1>3, <1>8, <1>9 DEF u, n

\* What an accepted transaction leaves in the ledger: a new entry, and the
\* signer's sequence counts it.
LEMMA Recorded ==
  ASSUME PipelineInv, NEW tx \in Txs, NEW used \in 1..MaxGas, AntePasses(tx),
         NEW ok \in BOOLEAN, Record(tx, used, ok), sequence' = IncrementSequence(tx)
  PROVE  /\ \E e \in Entry :
              /\ e \notin ledger /\ ledger' = ledger \cup {e}
              /\ e.tx = tx /\ e.ok = ok /\ e.used = used
              /\ e.params = params /\ e.price = price
         /\ ledger' \subseteq Entry /\ sequence' \in [Users -> Nat]
         /\ EntriesExact' /\ SequencesExact'
<1> DEFINE types == {m.type : m \in ToSet(Unfolded[tx.body])}
           ran == IF ok THEN types ELSE {}
           e == [tx |-> tx, ok |-> ok, used |-> used, height |-> height,
                 ran |-> ran, params |-> params, price |-> price]
           u == tx.signer
<1>1. /\ tx \in Tx /\ tx.body \in Body /\ u \in Users /\ tx.seq \in Nat
  BY CheckedMoves DEF PipelineInv
<1>2. ledger' = ledger \cup {e}
  BY DEF Record
<1>3. types \subseteq MsgTypes
  <2>1. Unfolded[tx.body] \in Seq(WellFormed)
    BY <1>1, AmountsType
  <2>2. ToSet(Unfolded[tx.body]) \subseteq WellFormed
    BY <2>1 DEF ToSet
  <2>3. QED
    BY <2>2 DEF WellFormed, Message
<1>4. e \in Entry
  <2>1. used \in Nat /\ height \in Nat /\ params \in Params /\ price \in Prices
    BY PipelineAssumption DEF PipelineInv, TypeOK
  <2>2. ran \in SUBSET MsgTypes
    BY <1>3
  <2> HIDE DEF ran
  <2>3. QED
    BY <1>1, <2>1, <2>2 DEF Entry
<1>5. /\ e.tx = tx /\ e.ok = ok /\ e.used = used /\ e.ran = ran
      /\ e.params = params /\ e.price = price
  OBVIOUS
<1>6. /\ ledger \subseteq Entry /\ IsFiniteSet(ledger) /\ sequence \in [Users -> Nat]
      /\ tx.seq = sequence[u] /\ Decodes(tx.body)
      /\ \A v \in Users :
           {x.tx.seq : x \in {x \in ledger : x.tx.signer = v}} = 0..(sequence[v] - 1)
  BY DEF PipelineInv, TypeOK, EntriesExact, AntePasses, SequencesExact
<1>7. sequence' = [sequence EXCEPT ![u] = @ + 1]
  BY DEF IncrementSequence
<1> HIDE DEF e, ran, types
<1>8. e \notin ledger
  <2> SUFFICES ASSUME e \in ledger PROVE FALSE
    OBVIOUS
  <2>1. e.tx.seq \in 0..(sequence[u] - 1)
    BY <1>1, <1>5, <1>6
  <2>2. QED
    BY <1>1, <1>5, <1>6, <2>1
<1>9. EntriesExact'
  <2>1. IsFiniteSet(ledger')
    BY <1>2, <1>6, FS_AddElement
  <2>2. ASSUME NEW x \in ledger'
        PROVE  /\ Decodes(x.tx.body)
               /\ x.ok => x.ran = {m.type : m \in ToSet(Unfolded[x.tx.body])}
    <3>1. CASE x \in ledger
      BY <3>1 DEF PipelineInv, EntriesExact
    <3>2. CASE x = e
      BY <1>5, <1>6, <3>2 DEF ran, types
    <3>3. QED
      BY <1>2, <3>1, <3>2
  <2>3. QED
    BY <2>1, <2>2 DEF EntriesExact, Decodes
<1>10. SequencesExact'
  <2>1. SUFFICES ASSUME NEW v \in Users
                 PROVE  {x.tx.seq : x \in {x \in ledger' : x.tx.signer = v}}
                          = 0..(sequence'[v] - 1)
    BY DEF SequencesExact
  <2> DEFINE S == {x.tx.seq : x \in {x \in ledger : x.tx.signer = v}}
             T == {x.tx.seq : x \in {x \in ledger' : x.tx.signer = v}}
  <2> SUFFICES T = 0..(sequence'[v] - 1)
    OBVIOUS
  <2>2. S = 0..(sequence[v] - 1) /\ sequence[v] \in Nat
    BY <1>6
  <2>3. CASE v = u
    <3>1. T = S \cup {tx.seq}
      BY <1>2, <1>5, <2>3
    <3>2. sequence'[v] = sequence[v] + 1
      BY <1>6, <1>7, <2>3
    <3> HIDE DEF S, T
    <3>3. \A n \in Nat : 0..((n + 1) - 1) = (0..(n - 1)) \cup {n}
      OBVIOUS
    <3>4. QED
      BY <1>6, <2>2, <2>3, <3>1, <3>2, <3>3
  <2>4. CASE v # u
    <3>1. T = S
      BY <1>2, <1>5, <2>4
    <3>2. sequence'[v] = sequence[v]
      BY <1>6, <1>7, <2>4
    <3> HIDE DEF S, T
    <3>3. QED
      BY <2>2, <3>1, <3>2
  <2>5. QED
    BY <2>3, <2>4
<1>11. ledger' \subseteq Entry /\ sequence' \in [Users -> Nat]
  BY <1>1, <1>2, <1>4, <1>6, <1>7
<1>12. QED
  BY <1>2, <1>4, <1>5, <1>8, <1>9, <1>10, <1>11

\* The price of the gas that was used is part of the fee that was offered.
LEMMA PriceWithinFee ==
  ASSUME NEW p \in Nat, NEW u \in Nat, NEW g \in Nat, NEW f \in Nat,
         u <= g, f >= p * g
  PROVE  p * u \in Nat /\ p * u <= f
<1>1. PICK d \in Nat : g = u + d
  <2>1. g - u \in Nat /\ g = u + (g - u)
    OBVIOUS
  <2>2. QED
    BY <2>1
<1>2. p * g = p * u + p * d
  BY <1>1
<1>3. p * u \in Nat /\ p * d \in Nat
  OBVIOUS
<1> DEFINE x == p * u
           y == p * d
           z == p * g
<1>4. x \in Nat /\ y \in Nat /\ z = x + y /\ f >= z
  BY <1>2, <1>3
<1> HIDE DEF x, y, z
<1>5. x <= f
  BY <1>4
<1>6. QED
  BY <1>3, <1>5 DEF x

\* What the post handler moves: the price of the gas to the stakers when it is
\* distributed, the rest of the fee to the proposer.
LEMMA PostMoves ==
  ASSUME NEW b \in [Accounts -> Nat], NEW tx \in Tx, NEW used \in Nat, price \in Nat,
         params \in Params,
         Settles => price * used <= tx.fee /\ b["feemarket-fee-collector"] >= tx.fee
  PROVE  LET c == price * used IN
         /\ PostHandler(b, tx, used) \in [Accounts -> Nat]
         /\ \A a \in Accounts :
              PostHandler(b, tx, used)[a] =
                b[a] + (IF Settles /\ a = Proposer THEN tx.fee - c ELSE 0)
                     + (IF Settles /\ params.distribute /\ a = "fee_collector" THEN c ELSE 0)
                     - (IF Settles /\ a = "feemarket-fee-collector"
                        THEN (tx.fee - c) + (IF params.distribute THEN c ELSE 0) ELSE 0)
<1> DEFINE c == price * used
           P == "feemarket-fee-collector"
           F == "fee_collector"
           f == tx.fee
           tip == tx.fee - c
           paid == IF params.distribute THEN Move(b, P, F, c) ELSE b
           done == Move(paid, P, Proposer, tip)
           R == PostHandler(b, tx, used)
<1>1. c \in Nat
  OBVIOUS
<1>2. f \in Nat /\ P \in Accounts /\ F \in Accounts /\ Proposer \in Accounts
      /\ Proposer # P /\ Proposer # F /\ params.distribute \in BOOLEAN
      /\ tip = f - c
  BY SpecialAccounts DEF Tx, Params, maccPerms
<1>3. CASE ~Settles
  BY <1>3 DEF PostHandler
<1>4. CASE Settles
  <2>1. c <= f /\ b[P] >= f
    BY <1>4
  <2>2. R = done
    BY <1>4 DEF PostHandler
  <2>3. F # P /\ b \in [Accounts -> Int]
    OBVIOUS
  <2> HIDE DEF c, P, F, tip, f
  <2>4. /\ Move(b, P, F, c) \in [Accounts -> Int]
        /\ \A a \in Accounts : Move(b, P, F, c)[a] = b[a] + Delta(a, P, F, c)
    <3>1. b \in [Accounts -> Int] /\ P \in Accounts /\ F \in Accounts /\ c \in Int
      BY <1>1, <1>2, <2>3
    <3>2. Move(b, P, F, c) \in [Accounts -> Int]
      BY <3>1, Moved
    <3>3. \A a \in Accounts : Move(b, P, F, c)[a] = b[a] + Delta(a, P, F, c)
      BY <3>1, Moved
    <3>4. QED
      BY <3>2, <3>3
  <2>5. /\ paid \in [Accounts -> Int]
        /\ \A a \in Accounts :
             paid[a] = b[a] + (IF params.distribute /\ a = F THEN c ELSE 0)
                            - (IF params.distribute /\ a = P THEN c ELSE 0)
    <3>1. CASE params.distribute
      <4>1. \A a \in Accounts : b[a] \in Nat
        OBVIOUS
      <4>2. paid = Move(b, P, F, c)
        BY <3>1
      <4> HIDE DEF paid
      <4>3. QED
        BY <1>1, <1>2, <2>3, <2>4, <3>1, <4>1, <4>2 DEF Delta
    <3>2. CASE ~params.distribute
      <4>1. \A a \in Accounts : b[a] \in Nat
        OBVIOUS
      <4>2. QED
        BY <2>3, <3>2, <4>1
    <3>3. QED
      BY <3>1, <3>2
  <2> HIDE DEF paid
  <2>6. tip \in Int
    BY <1>1, <1>2
  <2>7. /\ done \in [Accounts -> Int]
        /\ \A a \in Accounts : done[a] = paid[a] + Delta(a, P, Proposer, tip)
    <3>1. paid \in [Accounts -> Int] /\ P \in Accounts /\ Proposer \in Accounts
      BY <1>2, <2>5
    <3>2. done \in [Accounts -> Int]
      BY <3>1, <2>6, Moved
    <3>3. \A a \in Accounts : done[a] = paid[a] + Delta(a, P, Proposer, tip)
      BY <3>1, <2>6, Moved
    <3>4. QED
      BY <3>2, <3>3
  <2> HIDE DEF done
  <2>8. ASSUME NEW a \in Accounts
        PROVE  /\ done[a] =
                    b[a] + (IF a = Proposer THEN tip ELSE 0)
                         + (IF params.distribute /\ a = F THEN c ELSE 0)
                         - (IF a = P THEN tip + (IF params.distribute THEN c ELSE 0) ELSE 0)
               /\ done[a] \in Nat
    <3>1. b[a] \in Nat
      OBVIOUS
    <3>2. done[a] = paid[a] + (IF a = Proposer THEN tip ELSE 0) - (IF a = P THEN tip ELSE 0)
      BY <1>2, <2>5, <2>6, <2>7 DEF Delta
    <3>3. paid[a] = b[a] + (IF params.distribute /\ a = F THEN c ELSE 0)
                         - (IF params.distribute /\ a = P THEN c ELSE 0)
      BY <2>5
    <3>4. QED
      BY <1>1, <1>2, <2>1, <2>3, <2>6, <3>1, <3>2, <3>3
  <2>9. done \in [Accounts -> Nat]
    BY <2>7, <2>8
  <2> HIDE DEF R
  <2>10. QED
    BY <1>4, <2>2, <2>8, <2>9 DEF R, P, F, c, tip
<1>5. QED
  BY <1>3, <1>4

---------------------------------------------------------------------------
(* The steps.                                                              *)

\* Nothing is booked before the first transaction.
LEMMA PipelineInit ==
  ASSUME Init PROVE PipelineInv
<1> USE DEF Init
<1>1. \E x \in Prices : \A y \in Prices : x <= y
  <2>1. PICK x \in Prices : \A y \in Prices : ~(<<y, x>> \in OpToRel(<, Nat))
    BY PipelineAssumption, NatLessThanWellFounded, WFMin
  <2>2. \A y \in Prices : y \in Nat /\ x \in Nat
    BY PipelineAssumption
  <2>3. \A y \in Prices : ~(y < x)
    BY <2>1, <2>2 DEF OpToRel
  <2>4. QED
    BY <2>2, <2>3
<1>2. Min(Prices) \in Prices
  BY <1>1 DEF Min
<1>3. TypeOK
  BY <1>2, PipelineAssumption DEF TypeOK, Params
<1>4. EntriesExact
  BY FS_EmptySet DEF EntriesExact
<1>5. MarketInEffect
  BY DEF MarketInEffect
<1>6. SequencesExact
  <2> SUFFICES ASSUME NEW u \in Users
               PROVE  {e.tx.seq : e \in {e \in ledger : e.tx.signer = u}} = 0..(sequence[u] - 1)
    BY DEF SequencesExact
  <2>1. 0..(0 - 1) = {}
    OBVIOUS
  <2>2. QED
    BY <2>1
<1>7. FeesExact
  <2>1. /\ Market \ Settled = {} /\ Settled \ Shared = {} /\ ledger \ Market = {}
        /\ Shared = {} /\ Settled = {} /\ ledger = {}
    BY DEF Market, Settled, Shared
  <2>2. /\ bank["feemarket-fee-collector"] = 0 /\ bank["fee_collector"] = 0
        /\ bank["distribution"] = 0 /\ bank[Proposer] = 0
    BY SpecialAccounts DEF maccPerms
  <2>3. QED
    BY <2>1, <2>2, NothingBooked DEF FeesExact
<1>8. UsersExact
  <2> SUFFICES ASSUME NEW a \in Users \cup {"gov"}
               PROVE  bank[a] = (IF a \in Users THEN Funds ELSE 0)
                        - Fees({e \in ledger : e.tx.signer = a})
                        - Spent({e \in ledger : e.tx.signer = a}) + Received(ledger, a)
    BY DEF UsersExact
  <2>1. {e \in ledger : e.tx.signer = a} = {} /\ ledger = {}
    OBVIOUS
  <2>2. bank[a] = IF a \in Users THEN Funds ELSE 0
    BY SpecialAccounts
  <2>3. Funds \in Nat
    BY PipelineAssumption
  <2>4. QED
    BY <2>1, <2>2, <2>3, NothingBooked
<1>9. QED
  BY <1>3, <1>4, <1>5, <1>6, <1>7, <1>8 DEF PipelineInv

\* A transaction that fails is charged its whole fee and does nothing else.
LEMMA FailingStep ==
  ASSUME PipelineInv, NEW tx \in Txs, NEW used \in 1..MaxGas, DeliverFailingTx(tx, used)
  PROVE  PipelineInv'
<1>1. /\ AntePasses(tx) /\ Record(tx, used, FALSE) /\ sequence' = IncrementSequence(tx)
      /\ bank' = CheckedBank(tx)
      /\ UNCHANGED <<params, since, price, window, height>>
  BY DEF DeliverFailingTx
<1>2. TypeOK /\ ledger \subseteq Entry /\ IsFiniteSet(ledger) /\ FeesExact /\ UsersExact
      /\ bank \in [Accounts -> Nat] /\ params.enabled \in BOOLEAN
  BY DEF PipelineInv, TypeOK, EntriesExact, Params
<1>3. PICK e \in Entry :
        /\ e \notin ledger /\ ledger' = ledger \cup {e}
        /\ e.tx = tx /\ e.ok = FALSE /\ e.used = used
        /\ e.params = params /\ e.price = price
  BY <1>1, Recorded
<1>4. ledger' \subseteq Entry /\ sequence' \in [Users -> Nat] /\ EntriesExact' /\ SequencesExact'
  BY <1>1, Recorded
<1> DEFINE f == tx.fee
           u == tx.signer
<1>5. /\ f \in Nat /\ u \in Users /\ bank' \in [Accounts -> Nat]
      /\ \A a \in Accounts :
           bank'[a] =
             bank[a] - (IF a = u THEN f ELSE 0)
               + (IF params.enabled /\ a = "feemarket-fee-collector" THEN f ELSE 0)
               + (IF ~params.enabled /\ a = "fee_collector" THEN f ELSE 0)
  BY <1>1, <1>2, CheckedMoves
<1>6. Booked(e) /\ SumsAreInts
  BY <1>2, <1>3, BooksAdd
<1>7. TypeOK' /\ MarketInEffect'
  BY <1>1, <1>2, <1>4, <1>5 DEF PipelineInv, TypeOK, MarketInEffect
<1>8. FeesExact'
  <2>1. /\ bank["feemarket-fee-collector"] =
             Fees(Market \ Settled) + Charges(Settled \ Shared)
        /\ bank["fee_collector"] + bank["distribution"] =
             Fees(ledger \ Market) + Charges(Shared)
        /\ bank[Proposer] = Fees(Settled) - Charges(Settled) + Received(ledger, Proposer)
    BY <1>2 DEF FeesExact
  <2> DEFINE m == IF params.enabled THEN f ELSE 0
             d == IF ~params.enabled THEN f ELSE 0
  <2>2. /\ bank'["feemarket-fee-collector"] = bank["feemarket-fee-collector"] + m
        /\ bank'["fee_collector"] = bank["fee_collector"] + d
        /\ m \in Nat /\ d \in Nat
        /\ bank'["distribution"] = bank["distribution"]
        /\ bank'[Proposer] = bank[Proposer]
    BY <1>2, <1>5, SpecialAccounts DEF maccPerms
  <2>3. /\ bank["feemarket-fee-collector"] \in Nat /\ bank["fee_collector"] \in Nat
        /\ bank["distribution"] \in Nat
    BY <1>2, SpecialAccounts
  <2>4. /\ Fees(Market' \ Settled') = Fees(Market \ Settled) + m
        /\ Charges(Settled' \ Shared') = Charges(Settled \ Shared) + 0
        /\ Fees(ledger' \ Market') = Fees(ledger \ Market) + d
        /\ Charges(Shared') = Charges(Shared) + 0
        /\ Fees(Settled') = Fees(Settled) + 0 /\ Charges(Settled') = Charges(Settled) + 0
        /\ Received(ledger', Proposer) = Received(ledger, Proposer) + 0
    BY <1>3, <1>6 DEF Booked
  <2>5. /\ Fees(Market \ Settled) \in Int /\ Charges(Settled \ Shared) \in Int
        /\ Fees(ledger \ Market) \in Int /\ Charges(Shared) \in Int
        /\ Fees(Settled) \in Int /\ Charges(Settled) \in Int
        /\ Received(ledger, Proposer) \in Int
    BY <1>6 DEF SumsAreInts
  <2> HIDE DEF m, d
  <2>6. /\ bank'["feemarket-fee-collector"] =
             Fees(Market' \ Settled') + Charges(Settled' \ Shared')
        /\ bank'["fee_collector"] + bank'["distribution"] =
             Fees(ledger' \ Market') + Charges(Shared')
    BY <2>1, <2>2, <2>3, <2>4, <2>5
  <2>7. bank'[Proposer] = Fees(Settled') - Charges(Settled') + Received(ledger', Proposer)
    BY <2>1, <2>2, <2>4, <2>5
  <2>8. QED
    BY <2>6, <2>7 DEF FeesExact
<1>9. UsersExact'
  <2> DEFINE Own(a) == {x \in ledger : x.tx.signer = a}
             NewOwn(a) == {x \in ledger' : x.tx.signer = a}
  <2>1. SUFFICES ASSUME NEW a \in Users \cup {"gov"}
                 PROVE  bank'[a] = (IF a \in Users THEN Funds ELSE 0)
                          - Fees(NewOwn(a)) - Spent(NewOwn(a)) + Received(ledger', a)
    BY DEF UsersExact
  <2> DEFINE k == IF a \in Users THEN Funds ELSE 0
  <2>2. bank[a] = k - Fees(Own(a)) - Spent(Own(a)) + Received(ledger, a)
    BY <1>2 DEF UsersExact
  <2>3. bank'[a] = bank[a] - (IF a = u THEN f ELSE 0) /\ bank[a] \in Nat
    BY <1>2, <1>5, SpecialAccounts DEF maccPerms
  <2>4. k \in Int
    BY PipelineAssumption
  <2>5. /\ Fees(NewOwn(a)) = Fees(Own(a)) + (IF u = a THEN f ELSE 0)
        /\ Spent(NewOwn(a)) = Spent(Own(a)) + 0
        /\ Received(ledger', a) = Received(ledger, a) + 0
    BY <1>3, <1>6 DEF Booked
  <2>6. Fees(Own(a)) \in Int /\ Spent(Own(a)) \in Int /\ Received(ledger, a) \in Int
    BY <1>6 DEF SumsAreInts
  <2> HIDE DEF f, u, Own, NewOwn, k
  <2>7. bank'[a] = k - Fees(NewOwn(a)) - Spent(NewOwn(a)) + Received(ledger', a)
    BY <1>5, <2>2, <2>3, <2>4, <2>5, <2>6
  <2>8. QED
    BY <2>7 DEF k
<1>10. QED
  BY <1>4, <1>7, <1>8, <1>9 DEF PipelineInv

\* A transaction that succeeds is charged its fee, which is settled, and all
\* its messages move what they say.
LEMMA DeliverStep ==
  ASSUME PipelineInv, NEW tx \in Txs, NEW used \in 1..MaxGas, DeliverTx(tx, used)
  PROVE  PipelineInv'
<1> DEFINE B == CheckedBank(tx)
           M == RunMsgs(B, tx).bank
           f == tx.fee
           u == tx.signer
           c == price * used
           away == SentAway(tx.body)
           P == "feemarket-fee-collector"
           F == "fee_collector"
           on == params.enabled
           share == params.distribute
           got(a) == Sent(tx.body, a)
<1>1. /\ AntePasses(tx) /\ Record(tx, used, TRUE) /\ sequence' = IncrementSequence(tx)
      /\ RunMsgs(B, tx).ok /\ used <= tx.gas /\ PostPasses(used)
      /\ bank' = PostHandler(M, tx, used)
      /\ window' = IF Settles THEN window + used ELSE window
      /\ UNCHANGED <<params, since, price, height>>
  BY DEF DeliverTx, Succeeds
<1>2. TypeOK /\ ledger \subseteq Entry /\ IsFiniteSet(ledger) /\ FeesExact /\ UsersExact
      /\ bank \in [Accounts -> Nat] /\ params \in Params /\ price \in Nat /\ used \in Nat
      /\ on \in BOOLEAN /\ share \in BOOLEAN
  BY PipelineAssumption DEF PipelineInv, TypeOK, EntriesExact, Params
<1>3. PICK e \in Entry :
        /\ e \notin ledger /\ ledger' = ledger \cup {e}
        /\ e.tx = tx /\ e.ok = TRUE /\ e.used = used
        /\ e.params = params /\ e.price = price
  BY <1>1, Recorded
<1>4. ledger' \subseteq Entry /\ sequence' \in [Users -> Nat] /\ EntriesExact' /\ SequencesExact'
  BY <1>1, Recorded
<1>5. /\ tx \in Tx /\ f \in Nat /\ tx.gas \in Nat /\ u \in Users /\ tx.body \in Body
      /\ B \in [Accounts -> Nat]
      /\ \A a \in Accounts :
           B[a] = bank[a] - (IF a = u THEN f ELSE 0)
                    + (IF on /\ a = P THEN f ELSE 0) + (IF ~on /\ a = F THEN f ELSE 0)
  BY <1>1, <1>2, CheckedMoves
<1>6. away \in Nat /\ \A a : got(a) \in Nat
  BY <1>5, AmountsType
<1>7. /\ M \in [Accounts -> Nat]
      /\ \A a \in Accounts : M[a] = B[a] - (IF a = u THEN away ELSE 0) + got(a)
      /\ \A a \in BlockedAddresses : got(a) = 0
  <2> HIDE DEF B
  <2>1. QED
    BY <1>1, <1>5, MessagesMove
<1>8. Settles <=> on
  BY <1>2 DEF PipelineInv, MarketInEffect, Settles, TypeOK
<1>9. on => c \in Nat /\ c <= f
  <2>1. on => f >= price * tx.gas
    BY <1>1 DEF AntePasses
  <2>2. QED
    BY <1>1, <1>2, <1>5, <2>1, PriceWithinFee
<1>10. M[P] \in Nat /\ (on => M[P] >= f)
  <2>1. P \in Accounts /\ P # u /\ P # F /\ got(P) = 0
    BY <1>5, <1>7, SpecialAccounts DEF maccPerms
  <2>2. bank[P] \in Nat /\ B[P] = bank[P] + (IF on THEN f ELSE 0)
    BY <1>2, <1>5, <2>1
  <2>3. M[P] = B[P]
    BY <1>5, <1>7, <2>1
  <2> HIDE DEF M, B, P
  <2>4. QED
    BY <1>5, <2>2, <2>3
<1>11. /\ bank' \in [Accounts -> Nat]
       /\ \A a \in Accounts :
            bank'[a] = M[a] + (IF on /\ a = Proposer THEN f - c ELSE 0)
                            + (IF on /\ share /\ a = F THEN c ELSE 0)
                            - (IF on /\ a = P THEN (f - c) + (IF share THEN c ELSE 0) ELSE 0)
  <2>1. Settles => price * used <= tx.fee /\ M["feemarket-fee-collector"] >= tx.fee
    BY <1>8, <1>9, <1>10
  <2> DEFINE b == M
  <2>2. b \in [Accounts -> Nat] /\ (Settles => price * used <= tx.fee /\ b["feemarket-fee-collector"] >= tx.fee)
    BY <1>7, <2>1
  <2> HIDE DEF b, M
  <2>3. /\ PostHandler(b, tx, used) \in [Accounts -> Nat]
        /\ \A a \in Accounts :
             PostHandler(b, tx, used)[a] =
               b[a] + (IF Settles /\ a = Proposer THEN tx.fee - price * used ELSE 0)
                    + (IF Settles /\ params.distribute /\ a = "fee_collector"
                       THEN price * used ELSE 0)
                    - (IF Settles /\ a = "feemarket-fee-collector"
                       THEN (tx.fee - price * used)
                              + (IF params.distribute THEN price * used ELSE 0) ELSE 0)
    BY <1>2, <1>5, <2>2, PostMoves
  <2>4. QED
    BY <1>1, <1>8, <2>3 DEF b
<1>12. Booked(e) /\ SumsAreInts
  BY <1>2, <1>3, BooksAdd
<1>13. TypeOK' /\ MarketInEffect'
  <2>1. window' \in 0..MaxUtil
    <3>1. window \in 0..MaxUtil /\ MaxUtil \in Nat /\ (Settles => window + used <= MaxUtil)
      BY <1>1, PipelineAssumption DEF PipelineInv, TypeOK, PostPasses
    <3>2. QED
      BY <1>1, <1>2, <3>1
  <2>2. QED
    BY <1>1, <1>2, <1>4, <1>11, <2>1 DEF PipelineInv, TypeOK, MarketInEffect
<1> HIDE DEF B, M, c
<1>14. ASSUME NEW a \in Accounts
       PROVE  bank'[a] =
                bank[a] - (IF a = u THEN f + away ELSE 0) + got(a)
                  + (IF ~on /\ a = F THEN f ELSE 0)
                  + (IF on /\ a = Proposer THEN f - c ELSE 0)
                  + (IF on /\ share /\ a = F THEN c ELSE 0)
                  + (IF on /\ ~share /\ a = P THEN c ELSE 0)
  <2>1. bank[a] \in Nat /\ B[a] \in Nat /\ M[a] \in Nat /\ got(a) \in Nat
    BY <1>2, <1>5, <1>6, <1>7
  <2>2. M[a] = B[a] - (IF a = u THEN away ELSE 0) + got(a)
    BY <1>7
  <2>3. B[a] = bank[a] - (IF a = u THEN f ELSE 0)
                 + (IF on /\ a = P THEN f ELSE 0) + (IF ~on /\ a = F THEN f ELSE 0)
    BY <1>5
  <2>4. bank'[a] = M[a] + (IF on /\ a = Proposer THEN f - c ELSE 0)
                        + (IF on /\ share /\ a = F THEN c ELSE 0)
                        - (IF on /\ a = P THEN (f - c) + (IF share THEN c ELSE 0) ELSE 0)
    BY <1>11
  <2>5. P # F /\ Proposer # P /\ Proposer # F /\ u # P /\ u # F /\ u # Proposer
    BY <1>5, SpecialAccounts DEF maccPerms
  <2> HIDE DEF got, away, f, u, P, F, on, share
  <2>6. CASE on
    BY <1>2, <1>5, <1>6, <1>9, <2>1, <2>2, <2>3, <2>4, <2>5, <2>6
  <2>7. CASE ~on
    BY <1>2, <1>5, <1>6, <2>1, <2>2, <2>3, <2>4, <2>5, <2>7
  <2>8. QED
    BY <2>6, <2>7
<1>15. FeesExact'
  <2> DEFINE D == "distribution"
             i == IF ~on THEN f ELSE 0
             j == IF on THEN f - c ELSE 0
             k == IF on /\ share THEN c ELSE 0
             l == IF on /\ ~share THEN c ELSE 0
             m == IF on THEN f ELSE 0
             n == IF on THEN c ELSE 0
  <2>1. /\ bank[P] = Fees(Market \ Settled) + Charges(Settled \ Shared)
        /\ bank[F] + bank[D] = Fees(ledger \ Market) + Charges(Shared)
        /\ bank[Proposer] = Fees(Settled) - Charges(Settled) + Received(ledger, Proposer)
    BY <1>2 DEF FeesExact
  <2>2. /\ P # F /\ D # F /\ D # P /\ Proposer # P /\ Proposer # F /\ Proposer # D
        /\ u # P /\ u # F /\ u # D /\ u # Proposer
        /\ P \in Accounts /\ F \in Accounts /\ D \in Accounts /\ Proposer \in Accounts
        /\ got(P) = 0 /\ got(F) = 0 /\ got(D) = 0
    BY <1>5, <1>7, SpecialAccounts DEF maccPerms
  <2>3. /\ bank[P] \in Nat /\ bank[F] \in Nat /\ bank[D] \in Nat /\ bank[Proposer] \in Nat
        /\ i \in Nat /\ k \in Nat /\ l \in Nat /\ m \in Nat /\ n \in Nat /\ j \in Int
        /\ j = m - n /\ got(Proposer) \in Nat
    BY <1>2, <1>5, <1>6, <1>9, <2>2
  <2>4. bank'[P] = bank[P] + l
    <3> HIDE DEF P, F, D, f, u, got, away, on, share
    <3>1. QED
      BY <1>14, <2>2, <2>3
  <2>5. bank'[F] = bank[F] + i + k
    <3> HIDE DEF P, F, D, f, u, got, away, on, share
    <3>1. QED
      BY <1>14, <2>2, <2>3
  <2>6. bank'[D] = bank[D]
    <3> HIDE DEF P, F, D, f, u, got, away, on, share
    <3>1. QED
      BY <1>14, <2>2, <2>3
  <2>7. bank'[Proposer] = bank[Proposer] + got(Proposer) + j
    <3> HIDE DEF P, F, D, f, u, got, away, on, share
    <3>1. QED
      BY <1>14, <2>2, <2>3
  <2>8. /\ Fees(Market' \ Settled') = Fees(Market \ Settled) + 0
        /\ Charges(Settled' \ Shared') = Charges(Settled \ Shared) + l
        /\ Fees(ledger' \ Market') = Fees(ledger \ Market) + i
        /\ Charges(Shared') = Charges(Shared) + k
        /\ Fees(Settled') = Fees(Settled) + m
        /\ Charges(Settled') = Charges(Settled) + n
        /\ Received(ledger', Proposer) = Received(ledger, Proposer) + got(Proposer)
    BY <1>3, <1>12 DEF Booked, c
  <2>9. /\ Fees(Market \ Settled) \in Int /\ Charges(Settled \ Shared) \in Int
        /\ Fees(ledger \ Market) \in Int /\ Charges(Shared) \in Int
        /\ Fees(Settled) \in Int /\ Charges(Settled) \in Int
        /\ Received(ledger, Proposer) \in Int
    BY <1>12 DEF SumsAreInts
  <2> HIDE DEF got, i, j, k, l, m, n
  <2>10. /\ bank'[P] = Fees(Market' \ Settled') + Charges(Settled' \ Shared')
         /\ bank'[F] + bank'[D] = Fees(ledger' \ Market') + Charges(Shared')
    BY <2>1, <2>3, <2>4, <2>5, <2>6, <2>8, <2>9
  <2>11. bank'[Proposer] = Fees(Settled') - Charges(Settled') + Received(ledger', Proposer)
    BY <2>1, <2>3, <2>7, <2>8, <2>9
  <2>12. QED
    BY <2>10, <2>11 DEF FeesExact
<1>16. UsersExact'
  <2> DEFINE Own(a) == {x \in ledger : x.tx.signer = a}
             NewOwn(a) == {x \in ledger' : x.tx.signer = a}
  <2>1. SUFFICES ASSUME NEW a \in Users \cup {"gov"}
                 PROVE  bank'[a] = (IF a \in Users THEN Funds ELSE 0)
                          - Fees(NewOwn(a)) - Spent(NewOwn(a)) + Received(ledger', a)
    BY DEF UsersExact
  <2> DEFINE k == IF a \in Users THEN Funds ELSE 0
             m == IF u = a THEN f ELSE 0
             n == IF u = a THEN away ELSE 0
             g == got(a)
  <2>2. bank[a] = k - Fees(Own(a)) - Spent(Own(a)) + Received(ledger, a)
    BY <1>2 DEF UsersExact
  <2>3. a \in Accounts /\ a # P /\ a # F /\ a # Proposer /\ bank[a] \in Nat /\ g \in Nat
        /\ m \in Nat /\ n \in Nat
    BY <1>2, <1>5, <1>6, SpecialAccounts DEF maccPerms
  <2>4. bank'[a] = bank[a] - (m + n) + g
    <3> HIDE DEF f, u, P, F, got, away, on, share
    <3>1. QED
      BY <1>5, <1>6, <1>14, <2>3
  <2>5. k \in Int
    BY PipelineAssumption
  <2>6. /\ Fees(NewOwn(a)) = Fees(Own(a)) + m
        /\ Spent(NewOwn(a)) = Spent(Own(a)) + n
        /\ Received(ledger', a) = Received(ledger, a) + g
    BY <1>3, <1>12 DEF Booked
  <2>7. Fees(Own(a)) \in Int /\ Spent(Own(a)) \in Int /\ Received(ledger, a) \in Int
    BY <1>12 DEF SumsAreInts
  <2> HIDE DEF g, m, n, Own, NewOwn, k
  <2>8. bank'[a] = k - Fees(NewOwn(a)) - Spent(NewOwn(a)) + Received(ledger', a)
    BY <2>2, <2>3, <2>4, <2>5, <2>6, <2>7
  <2>9. QED
    BY <2>8 DEF k
<1>17. QED
  BY <1>4, <1>13, <1>15, <1>16 DEF PipelineInv

\* Between blocks the collected fees go to the stakers, and no other account of
\* the books changes.
LEMMA AllocateStep ==
  ASSUME PipelineInv, AllocateTokens, UNCHANGED <<sequence, ledger>>
  PROVE  /\ bank' \in [Accounts -> Nat]
         /\ EntriesExact' /\ SequencesExact' /\ FeesExact' /\ UsersExact'
<1> DEFINE F == "fee_collector"
           D == "distribution"
           P == "feemarket-fee-collector"
           n == bank[F]
           b == Move(bank, F, D, n)
<1>1. /\ TypeOK /\ FeesExact /\ UsersExact /\ EntriesExact /\ SequencesExact
      /\ bank \in [Accounts -> Nat] /\ bank \in [Accounts -> Int]
  BY DEF PipelineInv, TypeOK
<1>2. /\ P \in Accounts /\ F \in Accounts /\ D \in Accounts /\ Proposer \in Accounts
      /\ F # D /\ P # F /\ P # D /\ Proposer # F /\ Proposer # D
      /\ F \notin Users /\ D \notin Users /\ F # "gov" /\ D # "gov"
      /\ Users \cup {"gov"} \subseteq Accounts
  BY SpecialAccounts DEF maccPerms
<1>3. n \in Nat /\ n \in Int
  BY <1>1, <1>2
<1>4. bank' = b
  BY DEF AllocateTokens
<1> HIDE DEF n
<1>5. /\ b \in [Accounts -> Int]
      /\ \A a \in Accounts : b[a] = bank[a] + Delta(a, F, D, n)
  <2> HIDE DEF F, D
  <2>1. b \in [Accounts -> Int]
    BY <1>1, <1>2, <1>3, Moved
  <2>2. \A a \in Accounts : b[a] = bank[a] + Delta(a, F, D, n)
    BY <1>1, <1>2, <1>3, Moved
  <2>3. QED
    BY <2>1, <2>2
<1> HIDE DEF b
<1>6. ASSUME NEW a \in Accounts
      PROVE  /\ b[a] = bank[a] + (IF a = D THEN n ELSE 0) - (IF a = F THEN n ELSE 0)
             /\ b[a] \in Nat
  <2>1. bank[a] \in Nat
    BY <1>1
  <2>2. b[a] = bank[a] + (IF a = D THEN n ELSE 0) - (IF a = F THEN n ELSE 0)
    BY <1>3, <1>5, <2>1 DEF Delta
  <2>3. b[a] \in Nat
    BY <1>3, <2>1, <2>2 DEF n
  <2>4. QED
    BY <2>2, <2>3
<1>7. bank' \in [Accounts -> Nat]
  BY <1>4, <1>5, <1>6
<1>8. EntriesExact' /\ SequencesExact'
  BY <1>1 DEF EntriesExact, SequencesExact, Decodes
<1>9. FeesExact'
  <2>1. Market' = Market /\ Settled' = Settled /\ Shared' = Shared /\ ledger' = ledger
    BY DEF Market, Settled, Shared
  <2>2. /\ bank[P] \in Nat /\ bank[F] \in Nat /\ bank[D] \in Nat /\ bank[Proposer] \in Nat
    BY <1>1, <1>2
  <2>3. /\ bank'[P] = bank[P] /\ bank'[F] = bank[F] - n /\ bank'[D] = bank[D] + n
        /\ bank'[Proposer] = bank[Proposer]
    BY <1>2, <1>3, <1>4, <1>6, <2>2
  <2>4. bank'[F] + bank'[D] = bank[F] + bank[D]
    BY <1>3, <2>2, <2>3
  <2>5. /\ bank[P] = Fees(Market \ Settled) + Charges(Settled \ Shared)
        /\ bank[F] + bank[D] = Fees(ledger \ Market) + Charges(Shared)
        /\ bank[Proposer] = Fees(Settled) - Charges(Settled) + Received(ledger, Proposer)
    BY <1>1 DEF FeesExact
  <2> HIDE DEF P, F, D
  <2>6. /\ bank'[P] = Fees(Market' \ Settled') + Charges(Settled' \ Shared')
        /\ bank'[F] + bank'[D] = Fees(ledger' \ Market') + Charges(Shared')
        /\ bank'[Proposer] = Fees(Settled') - Charges(Settled') + Received(ledger', Proposer)
    BY <2>1, <2>3, <2>4, <2>5
  <2>7. QED
    BY <2>6 DEF FeesExact, P, F, D
<1>10. UsersExact'
  <2>1. \A a \in Users \cup {"gov"} : bank'[a] = bank[a]
    <3> SUFFICES ASSUME NEW a \in Users \cup {"gov"} PROVE bank'[a] = bank[a]
      OBVIOUS
    <3>1. a \in Accounts /\ a # F /\ a # D /\ bank[a] \in Nat
      BY <1>1, <1>2
    <3>2. QED
      BY <1>4, <1>6, <3>1
  <2>2. QED
    BY <1>1, <2>1 DEF UsersExact
<1>11. QED
  BY <1>7, <1>8, <1>9, <1>10

\* Every step keeps the books.
LEMMA PipelineNext ==
  ASSUME PipelineInv, [Next]_vars
  PROVE  PipelineInv'
<1>1. ASSUME NEW tx \in Txs, NEW used \in 1..MaxGas, DeliverTx(tx, used)
      PROVE  PipelineInv'
  BY <1>1, DeliverStep
<1>2. ASSUME NEW tx \in Txs, NEW used \in 1..MaxGas, DeliverFailingTx(tx, used)
      PROVE  PipelineInv'
  BY <1>2, FailingStep
<1>3. ASSUME NEW p \in Params, NextBlockSetParams(p)
      PROVE  PipelineInv'
  <2> USE <1>3 DEF NextBlockSetParams
  <2>1. /\ bank' \in [Accounts -> Nat]
        /\ EntriesExact' /\ SequencesExact' /\ FeesExact' /\ UsersExact'
    BY AllocateStep
  <2>2. Min(Prices) \in Prices
    <3>1. PICK x \in Prices : \A y \in Prices : ~(<<y, x>> \in OpToRel(<, Nat))
      BY PipelineAssumption, NatLessThanWellFounded, WFMin
    <3>2. \A y \in Prices : y \in Nat /\ x \in Nat
      BY PipelineAssumption
    <3>3. \A y \in Prices : ~(y < x)
      BY <3>1, <3>2 DEF OpToRel
    <3>4. \E z \in Prices : \A y \in Prices : z <= y
      BY <3>2, <3>3
    <3>5. QED
      BY <3>4 DEF Min
  <2>3. /\ TypeOK /\ height \in 1..MaxHeight /\ MaxHeight \in Nat /\ since \in -1..MaxHeight
        /\ since < height
    BY PipelineAssumption DEF PipelineInv, TypeOK, MarketInEffect
  <2>4. height' \in 1..MaxHeight /\ since' \in -1..MaxHeight /\ since' < height'
    BY <2>3
  <2>5. TypeOK'
    BY <2>1, <2>2, <2>3, <2>4, PipelineAssumption DEF TypeOK
  <2>6. QED
    BY <2>1, <2>4, <2>5 DEF PipelineInv, MarketInEffect
<1>4. ASSUME NEW q \in Prices, NextBlock(q)
      PROVE  PipelineInv'
  <2> USE <1>4 DEF NextBlock
  <2>1. /\ bank' \in [Accounts -> Nat]
        /\ EntriesExact' /\ SequencesExact' /\ FeesExact' /\ UsersExact'
    BY AllocateStep
  <2>2. /\ TypeOK /\ height \in 1..MaxHeight /\ MaxHeight \in Nat /\ since \in -1..MaxHeight
        /\ since < height
    BY PipelineAssumption DEF PipelineInv, TypeOK, MarketInEffect
  <2>3. height' \in 1..MaxHeight /\ since' < height'
    BY <2>2
  <2>4. TypeOK'
    BY <2>1, <2>2, <2>3, PipelineAssumption DEF TypeOK
  <2>5. QED
    BY <2>1, <2>3, <2>4 DEF PipelineInv, MarketInEffect
<1>5. CASE UNCHANGED vars
  <2>1. UNCHANGED <<bank, sequence, params, since, price, window, height, ledger>>
    BY <1>5 DEF vars
  <2>2. Market' = Market /\ Settled' = Settled /\ Shared' = Shared
    BY <2>1 DEF Market, Settled, Shared
  <2>3. QED
    BY <2>1, <2>2 DEF PipelineInv, TypeOK, EntriesExact, MarketInEffect, SequencesExact,
       FeesExact, UsersExact, Decodes
<1>6. QED
  BY <1>1, <1>2, <1>3, <1>4, <1>5 DEF Next

---------------------------------------------------------------------------
(* The theorems.                                                           *)

\* The inductive invariant of the transaction pipeline.
THEOREM PipelineInvariance == Spec => []PipelineInv
<1>1. Init => PipelineInv
  BY PipelineInit
<1>2. PipelineInv /\ [Next]_vars => PipelineInv'
  BY PipelineNext
<1>3. QED
  BY <1>1, <1>2, PTL DEF Spec

\* The pipeline's state is of its type: no balance ever becomes negative, and
\* the fee market never counts more than a block's utilization.
THEOREM PipelineTypes == Spec => []TypeOK
<1>1. PipelineInv => TypeOK
  BY DEF PipelineInv
<1>2. QED
  BY <1>1, PipelineInvariance, PTL

\* A transaction is charged exactly once, whatever the proposers do.
THEOREM ChargedOnce == Spec => []SequencesExact
<1>1. PipelineInv => SequencesExact
  BY DEF PipelineInv
<1>2. QED
  BY <1>1, PipelineInvariance, PTL

\* Every fee is where the ante handler, the post handler and the begin-blockers
\* must bring it.
THEOREM FeesAreAccounted == Spec => []FeesExact
<1>1. PipelineInv => FeesExact
  BY DEF PipelineInv
<1>2. QED
  BY <1>1, PipelineInvariance, PTL

\* What a user owns is explained by the fees and the messages of the accepted
\* transactions, and a failed one leaves no message behind.
THEOREM UsersAreAccounted == Spec => []UsersExact
<1>1. PipelineInv => UsersExact
  BY DEF PipelineInv
<1>2. QED
  BY <1>1, PipelineInvariance, PTL

\* The filter of app/decorators refuses exactly the transactions that execute a
\* blocked message at some depth of nesting, and those that do not decode.
THEOREM FilterIsSound == Spec => []FilterSound
<1>1. ASSUME PipelineInv PROVE FilterSound
  <2> SUFFICES ASSUME NEW blocked \in SUBSET MsgTypes
               PROVE  /\ \A e \in ledger : e.ok =>
                           (HasDisallowedMessage(blocked, e.tx.body)
                              <=> e.ran \cap blocked # {})
                      /\ \A tx \in Txs :
                           ~Decodes(tx.body) => HasDisallowedMessage(blocked, tx.body)
    BY DEF FilterSound
  <2>1. ASSUME NEW e \in ledger, e.ok
        PROVE  HasDisallowedMessage(blocked, e.tx.body) <=> e.ran \cap blocked # {}
    <3> DEFINE s == Unfolded[e.tx.body]
    <3>1. e.tx.body \in Body
      <4>1. e \in Entry
        BY <1>1 DEF PipelineInv, TypeOK
      <4>2. QED
        BY <4>1, EntryTypes
    <3>2. \A i \in DOMAIN s : s[i].type = "exec" => s[i].inner # None
      BY <1>1 DEF PipelineInv, EntriesExact, Decodes
    <3>3. e.ran = {m.type : m \in {s[i] : i \in DOMAIN s}}
      BY <1>1, <2>1 DEF PipelineInv, EntriesExact, ToSet
    <3>4. HasDisallowedMessage(blocked, e.tx.body) <=>
            \E x : /\ Occurs(x, s)
                   /\ x.type \in blocked \/ (x.type = "exec" /\ x.inner = None)
      BY <3>1, FilterExact
    <3> HIDE DEF s
    <3>5. HasDisallowedMessage(blocked, e.tx.body) <=>
            \E i \in DOMAIN s : s[i].type \in blocked
      BY <3>2, <3>4 DEF Occurs
    <3>6. QED
      BY <3>3, <3>5
  <2>2. ASSUME NEW tx \in Txs, ~Decodes(tx.body)
        PROVE  HasDisallowedMessage(blocked, tx.body)
    <3>1. tx.body \in Body
      BY PipelineAssumption DEF Tx
    <3>2. PICK i \in DOMAIN Unfolded[tx.body] :
            Unfolded[tx.body][i].type = "exec" /\ Unfolded[tx.body][i].inner = None
      BY <2>2 DEF Decodes
    <3>3. Occurs(Unfolded[tx.body][i], Unfolded[tx.body])
      BY DEF Occurs
    <3>4. QED
      BY <3>1, <3>2, <3>3, FilterExact
  <2>3. QED
    BY <2>1, <2>2
<1>2. QED
  BY <1>1, PipelineInvariance, PTL
=============================================================================
