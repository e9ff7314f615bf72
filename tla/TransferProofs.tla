--------------------------- MODULE TransferProofs ---------------------------
(***************************************************************************)
(* Proofs about TransferStack, for any number of channels, packets,        *)
(* retries and windows of the rate limit.                                  *)
(***************************************************************************)
EXTENDS TransferStack, SumTheorems

---------------------------------------------------------------------------
(* Totals of sets of packets. *)

Amount == [x \in Packet |-> x.amount]

\* Amounts are natural numbers.
LEMMA AmountType ==
  ASSUME NEW x \in Packet
  PROVE  x.amount \in Nat /\ Amount[x] = x.amount
BY TransferAssumption DEF Amount, Packet

\* A total is the sum of one function, whatever the set.
LEMMA TotalIs ==
  ASSUME NEW S, S \subseteq Packet, IsFiniteSet(S)
  PROVE  /\ Total(S) = SumFunctionOnSet(Amount, S)
         /\ Total(S) \in Nat
<1> DEFINE f == [x \in S |-> x.amount]
<1>1. \A x \in S : Amount[x] \in Nat /\ f[x] = Amount[x]
  BY AmountType
<1>2. Total(S) = SumFunctionOnSet(f, S)
  BY DEF Total, SumFunction
<1>3. SumFunctionOnSet(f, S) = SumFunctionOnSet(Amount, S)
  <2> HIDE DEF f
  <2>1. QED
    BY <1>1, SumSame
<1>4. SumFunctionOnSet(Amount, S) \in Nat
  BY <1>1, SumNat
<1>5. QED
  BY <1>2, <1>3, <1>4

\* A packet more.
LEMMA TotalAdd ==
  ASSUME NEW S, S \subseteq Packet, IsFiniteSet(S), NEW x \in Packet, x \notin S
  PROVE  Total(S \cup {x}) = Total(S) + x.amount
<1>1. IsFiniteSet(S \cup {x}) /\ S \cup {x} \subseteq Packet
  BY FS_AddElement
<1>2. \A y \in Packet : Amount[y] \in Int
  BY AmountType
<1>3. SumFunctionOnSet(Amount, S \cup {x}) = SumFunctionOnSet(Amount, S) + Amount[x]
  BY <1>2, SumAdd
<1>4. Amount[x] = x.amount
  BY DEF Amount
<1>5. Total(S) = SumFunctionOnSet(Amount, S)
  BY TotalIs
<1>6. Total(S \cup {x}) = SumFunctionOnSet(Amount, S \cup {x})
  BY <1>1, TotalIs
<1>7. QED
  BY <1>3, <1>4, <1>5, <1>6

\* What packet x counts for among those of channel c and token d that are
\* under way.
Weight(x, c, d) ==
  IF x.chan = c /\ x.denom = d /\ x.status \in {"sent", "error"}
  THEN x.amount ELSE 0

UnderWay(S, c, d) == Total(Under(S, c, d))

\* What is under way is a natural number, counted over finitely many packets.
LEMMA UnderType ==
  ASSUME NEW S, S \subseteq Packet, IsFiniteSet(S), NEW c, NEW d
  PROVE  /\ Under(S, c, d) \subseteq Packet /\ IsFiniteSet(Under(S, c, d))
         /\ UnderWay(S, c, d) \in Nat
<1>1. Under(S, c, d) \subseteq S
  BY DEF Under
<1>2. IsFiniteSet(Under(S, c, d))
  BY <1>1, FS_Subset
<1>3. QED
  BY <1>1, <1>2, TotalIs DEF UnderWay

\* A packet counts with a natural number.
LEMMA WeightType ==
  ASSUME NEW x \in Packet, NEW c, NEW d
  PROVE  Weight(x, c, d) \in Nat
BY TransferAssumption DEF Weight, Packet

\* A packet is sent.
LEMMA UnderAdd ==
  ASSUME NEW S, S \subseteq Packet, IsFiniteSet(S), NEW x \in Packet, x \notin S,
         NEW c, NEW d
  PROVE  UnderWay(S \cup {x}, c, d) = UnderWay(S, c, d) + Weight(x, c, d)
<1> DEFINE U == Under(S, c, d)
<1>1. U \subseteq Packet /\ IsFiniteSet(U) /\ Total(U) \in Nat
  BY UnderType DEF UnderWay
<1> x \notin U
  BY DEF Under
<1>2. CASE x.chan = c /\ x.denom = d /\ x.status \in {"sent", "error"}
  <2>1. Under(S \cup {x}, c, d) = U \cup {x}
    BY <1>2 DEF Under
  <2>2. Total(U \cup {x}) = Total(U) + x.amount
    BY <1>1, TotalAdd
  <2>3. QED
    BY <1>2, <2>1, <2>2 DEF UnderWay, Weight
<1>3. CASE ~(x.chan = c /\ x.denom = d /\ x.status \in {"sent", "error"})
  <2>1. Under(S \cup {x}, c, d) = U
    BY <1>3 DEF Under
  <2>2. Weight(x, c, d) = 0
    BY <1>3 DEF Weight
  <2>3. QED
    BY <1>1, <2>1, <2>2 DEF UnderWay
<1>4. QED
  BY <1>2, <1>3

\* A packet is gone.
LEMMA UnderRemove ==
  ASSUME NEW S, S \subseteq Packet, IsFiniteSet(S), NEW x \in S, NEW c, NEW d
  PROVE  UnderWay(S \ {x}, c, d) = UnderWay(S, c, d) - Weight(x, c, d)
<1> DEFINE R == S \ {x}
<1>1. R \subseteq Packet /\ IsFiniteSet(R) /\ x \in Packet /\ x \notin R
  BY FS_Subset
<1>2. R \cup {x} = S
  OBVIOUS
<1>3. UnderWay(S, c, d) = UnderWay(R, c, d) + Weight(x, c, d)
  BY <1>1, <1>2, UnderAdd
<1>4. UnderWay(R, c, d) \in Nat /\ Weight(x, c, d) \in Nat
  BY <1>1, UnderType, WeightType
<1>5. QED
  BY <1>3, <1>4

\* A packet changes its status.
LEMMA UnderReplace ==
  ASSUME NEW S, S \subseteq Packet, IsFiniteSet(S), NEW x \in S,
         NEW y \in Packet, y \notin S \ {x}, NEW c, NEW d
  PROVE  UnderWay((S \ {x}) \cup {y}, c, d) =
           UnderWay(S, c, d) - Weight(x, c, d) + Weight(y, c, d)
<1>1. S \ {x} \subseteq Packet /\ IsFiniteSet(S \ {x})
  BY FS_Subset
<1>2. UnderWay((S \ {x}) \cup {y}, c, d) = UnderWay(S \ {x}, c, d) + Weight(y, c, d)
  BY <1>1, UnderAdd
<1>3. QED
  BY <1>2, UnderRemove

\* The packets that may be undone have a total.
LEMMA UndoableType ==
  ASSUME NEW S, S \subseteq Packet, IsFiniteSet(S), NEW L, NEW c
  PROVE  /\ Undoable(S, L, c) \subseteq Packet /\ IsFiniteSet(Undoable(S, L, c))
         /\ Total(Undoable(S, L, c)) \in Nat
<1>1. Undoable(S, L, c) \subseteq S
  BY DEF Undoable
<1>2. IsFiniteSet(Undoable(S, L, c))
  BY <1>1, FS_Subset
<1>3. QED
  BY <1>1, <1>2, TotalIs

---------------------------------------------------------------------------
(* The bank of Enoki. *)

\* The banks reached in the middle of a step, before the books are known to
\* balance.
Bank == [held : [Denoms -> Int], escrow : [Channels -> [Denoms -> Int]]]

\* Moving "a" tokens from Enoki's users to the other side of channel c.
LEMMA SentIs ==
  ASSUME NEW b \in Bank, NEW c \in Channels, NEW d \in Denoms, NEW a \in Nat
  PROVE  /\ Sent(b, c, d, a) \in Bank
         /\ \A x \in Denoms :
              Sent(b, c, d, a).held[x] = b.held[x] - (IF x = d THEN a ELSE 0)
         /\ \A e \in Channels, x \in Denoms :
              Sent(b, c, d, a).escrow[e][x] =
                b.escrow[e][x] + (IF e = c /\ x = d /\ d # c THEN a ELSE 0)
<1> DEFINE H == [b.held EXCEPT ![d] = @ - a]
           R == [b.escrow[c] EXCEPT ![d] = IF d = c THEN @ ELSE @ + a]
           E == [b.escrow EXCEPT ![c] = R]
<1>1. Sent(b, c, d, a) = [held |-> H, escrow |-> E]
  BY DEF Sent, Bank
<1>2. b.held \in [Denoms -> Int] /\ b.escrow \in [Channels -> [Denoms -> Int]]
  BY DEF Bank
<1>3. H \in [Denoms -> Int]
  BY <1>2
<1>4. R \in [Denoms -> Int]
  BY <1>2
<1>5. E \in [Channels -> [Denoms -> Int]]
  BY <1>2, <1>4
<1>6. \A x \in Denoms : H[x] = b.held[x] - (IF x = d THEN a ELSE 0)
  BY <1>2
<1>7. \A x \in Denoms :
        R[x] = b.escrow[c][x] + (IF x = d /\ d # c THEN a ELSE 0)
  BY <1>2
<1>8. ASSUME NEW e \in Channels, NEW x \in Denoms
      PROVE  E[e][x] = b.escrow[e][x] + (IF e = c /\ x = d /\ d # c THEN a ELSE 0)
  <2>1. E[e] = IF e = c THEN R ELSE b.escrow[e]
    BY <1>2
  <2>2. b.escrow[e][x] \in Int
    BY <1>2
  <2> HIDE DEF R, E
  <2>3. CASE e = c
    BY <1>7, <2>1, <2>3
  <2>4. CASE e # c
    BY <2>1, <2>2, <2>4
  <2>5. QED
    BY <2>3, <2>4
<1> HIDE DEF H, R, E
<1>9. QED
  BY <1>1, <1>3, <1>5, <1>6, <1>8 DEF Bank

\* Moving them back.
LEMMA ReceivedIs ==
  ASSUME NEW b \in Bank, NEW c \in Channels, NEW d \in Denoms, NEW a \in Nat
  PROVE  /\ Received(b, c, d, a) \in Bank
         /\ \A x \in Denoms :
              Received(b, c, d, a).held[x] = b.held[x] + (IF x = d THEN a ELSE 0)
         /\ \A e \in Channels, x \in Denoms :
              Received(b, c, d, a).escrow[e][x] =
                b.escrow[e][x] - (IF e = c /\ x = d /\ d # c THEN a ELSE 0)
<1> DEFINE H == [b.held EXCEPT ![d] = @ + a]
           R == [b.escrow[c] EXCEPT ![d] = IF d = c THEN @ ELSE @ - a]
           E == [b.escrow EXCEPT ![c] = R]
<1>1. Received(b, c, d, a) = [held |-> H, escrow |-> E]
  BY DEF Received, Bank
<1>2. b.held \in [Denoms -> Int] /\ b.escrow \in [Channels -> [Denoms -> Int]]
  BY DEF Bank
<1>3. H \in [Denoms -> Int]
  BY <1>2
<1>4. R \in [Denoms -> Int]
  BY <1>2
<1>5. E \in [Channels -> [Denoms -> Int]]
  BY <1>2, <1>4
<1>6. \A x \in Denoms : H[x] = b.held[x] + (IF x = d THEN a ELSE 0)
  BY <1>2
<1>7. \A x \in Denoms :
        R[x] = b.escrow[c][x] - (IF x = d /\ d # c THEN a ELSE 0)
  BY <1>2
<1>8. ASSUME NEW e \in Channels, NEW x \in Denoms
      PROVE  E[e][x] = b.escrow[e][x] - (IF e = c /\ x = d /\ d # c THEN a ELSE 0)
  <2>1. E[e] = IF e = c THEN R ELSE b.escrow[e]
    BY <1>2
  <2>2. b.escrow[e][x] \in Int
    BY <1>2
  <2> HIDE DEF R, E
  <2>3. CASE e = c
    BY <1>7, <2>1, <2>3
  <2>4. CASE e # c
    BY <2>1, <2>2, <2>4
  <2>5. QED
    BY <2>3, <2>4
<1> HIDE DEF H, R, E
<1>9. QED
  BY <1>1, <1>3, <1>5, <1>6, <1>8 DEF Bank

\* One escrow account changes.
LEMMA InEscrowChange ==
  ASSUME NEW b \in Bank, NEW b2 \in Bank, NEW c \in Channels, NEW d \in Denoms,
         \A e \in Channels \ {c} : b2.escrow[e][d] = b.escrow[e][d]
  PROVE  /\ InEscrow(b, d) \in Int
         /\ InEscrow(b2, d) = InEscrow(b, d) + (b2.escrow[c][d] - b.escrow[c][d])
<1> DEFINE f == [e \in Channels |-> b.escrow[e][d]]
           g == [e \in Channels |-> b2.escrow[e][d]]
<1>1. \A e \in Channels : f[e] \in Int /\ g[e] \in Int
  BY DEF Bank
<1>2. \A e \in Channels \ {c} : g[e] = f[e]
  OBVIOUS
<1>3. IsFiniteSet(Channels)
  BY TransferAssumption
<1>4. f[c] = b.escrow[c][d] /\ g[c] = b2.escrow[c][d]
  OBVIOUS
<1>5. /\ InEscrow(b, d) = SumFunctionOnSet(f, Channels)
      /\ InEscrow(b2, d) = SumFunctionOnSet(g, Channels)
  BY DEF InEscrow, SumFunction
<1> HIDE DEF f, g
<1>6. SumFunctionOnSet(f, Channels) \in Int
  BY <1>1, <1>3, SumTake
<1>7. SumFunctionOnSet(g, Channels) = SumFunctionOnSet(f, Channels) + (g[c] - f[c])
  BY <1>1, <1>2, <1>3, SumChange
<1>8. QED
  BY <1>4, <1>5, <1>6, <1>7

\* The same accounts hold the same.
LEMMA InEscrowSame ==
  ASSUME NEW b \in Bank, NEW b2 \in Bank, NEW d \in Denoms,
         \A e \in Channels : b2.escrow[e][d] = b.escrow[e][d]
  PROVE  InEscrow(b2, d) = InEscrow(b, d)
<1>1. [e \in Channels |-> b2.escrow[e][d]] = [e \in Channels |-> b.escrow[e][d]]
  OBVIOUS
<1>2. QED
  BY <1>1 DEF InEscrow

\* What has left Enoki through channel c of token d, net, by its own books:
\* a token that came through the channel was burnt, so that what is left of
\* it counts against what the other chain has locked.
Gone(b, c, d) ==
  IF d = c THEN -(b.held[c] + InEscrow(b, c)) ELSE b.escrow[c][d]

\* What has gone over a channel is a number.
LEMMA GoneType ==
  ASSUME NEW b \in Bank, NEW c \in Channels, NEW d \in Denoms
  PROVE  Gone(b, c, d) \in Int
<1>1. c \in Denoms
  BY DEF Denoms
<1>2. InEscrow(b, c) \in Int
  BY <1>1, InEscrowChange
<1>3. b.held[c] \in Int /\ b.escrow[c][d] \in Int
  BY <1>1 DEF Bank
<1>4. QED
  BY <1>2, <1>3 DEF Gone

\* A transfer through channel c changes what has left by that channel of that
\* token, and nothing else.
Move(x, y, c, d, a) == IF x = c /\ y = d THEN a ELSE 0

\* A packet sent moves its amount over its channel, and nothing else.
LEMMA GoneSent ==
  ASSUME NEW b \in Bank, NEW c \in Channels, NEW d \in Denoms, NEW a \in Nat,
         NEW x \in Channels, NEW y \in Denoms
  PROVE  Gone(Sent(b, c, d, a), x, y) = Gone(b, x, y) + Move(x, y, c, d, a)
<1> DEFINE b2 == Sent(b, c, d, a)
<1>1. /\ b2 \in Bank
      /\ \A z \in Denoms : b2.held[z] = b.held[z] - (IF z = d THEN a ELSE 0)
      /\ \A e \in Channels, z \in Denoms :
           b2.escrow[e][z] =
             b.escrow[e][z] + (IF e = c /\ z = d /\ d # c THEN a ELSE 0)
  BY SentIs
<1> HIDE DEF b2
<1>2. x \in Denoms
  BY DEF Denoms
<1>3. /\ b.held[x] \in Int /\ b.escrow[x][y] \in Int /\ b.escrow[c][x] \in Int
      /\ b2.held[x] \in Int /\ b2.escrow[c][x] \in Int
  BY <1>1, <1>2 DEF Bank
<1>4. CASE y # x
  <2>1. Gone(b2, x, y) = b2.escrow[x][y] /\ Gone(b, x, y) = b.escrow[x][y]
    BY <1>4 DEF Gone
  <2>2. b2.escrow[x][y] = b.escrow[x][y] + Move(x, y, c, d, a)
    BY <1>1, <1>3, <1>4 DEF Move
  <2>3. QED
    BY <2>1, <2>2 DEF b2
<1>5. CASE y = x
  <2>1. \A e \in Channels \ {c} : b2.escrow[e][x] = b.escrow[e][x]
    <3>1. TAKE e \in Channels \ {c}
    <3>2. b.escrow[e][x] \in Int
      BY <1>2 DEF Bank
    <3>3. QED
      BY <1>1, <1>2, <3>2
  <2>2. /\ InEscrow(b, x) \in Int
        /\ InEscrow(b2, x) = InEscrow(b, x) + (b2.escrow[c][x] - b.escrow[c][x])
    BY <1>1, <1>2, <2>1, InEscrowChange
  <2>3. b2.escrow[c][x] - b.escrow[c][x] = IF x = d /\ d # c THEN a ELSE 0
    BY <1>1, <1>2, <1>3
  <2>4. b2.held[x] = b.held[x] - (IF x = d THEN a ELSE 0)
    BY <1>1, <1>2
  <2>5. b2.held[x] + InEscrow(b2, x) =
          (b.held[x] + InEscrow(b, x)) - Move(x, y, c, d, a)
    BY <1>3, <1>5, <2>2, <2>3, <2>4 DEF Move
  <2>6. Move(x, y, c, d, a) \in Nat
    BY DEF Move
  <2>7. QED
    BY <1>3, <1>5, <2>2, <2>5, <2>6 DEF Gone, b2
<1>6. QED
  BY <1>4, <1>5

\* Sending what was received gives the bank from before.
LEMMA SentBack ==
  ASSUME NEW b \in Bank, NEW b2 \in Bank,
         NEW c \in Channels, NEW d \in Denoms, NEW a \in Nat,
         \A x \in Denoms : b2.held[x] = b.held[x] + (IF x = d THEN a ELSE 0),
         \A e \in Channels, x \in Denoms :
           b2.escrow[e][x] = b.escrow[e][x] - (IF e = c /\ x = d /\ d # c THEN a ELSE 0)
  PROVE  Sent(b2, c, d, a) = b
<1> DEFINE b3 == Sent(b2, c, d, a)
<1>1. /\ b3 \in Bank
      /\ \A x \in Denoms : b3.held[x] = b2.held[x] - (IF x = d THEN a ELSE 0)
      /\ \A e \in Channels, x \in Denoms :
           b3.escrow[e][x] =
             b2.escrow[e][x] + (IF e = c /\ x = d /\ d # c THEN a ELSE 0)
  BY SentIs
<1> HIDE DEF b3
<1>2. \A x \in Denoms : b3.held[x] = b.held[x]
  <2>1. \A x \in Denoms : b.held[x] \in Int
    BY DEF Bank
  <2>2. QED
    BY <1>1, <2>1
<1>3. \A e \in Channels, x \in Denoms : b3.escrow[e][x] = b.escrow[e][x]
  <2>1. \A e \in Channels, x \in Denoms : b.escrow[e][x] \in Int
    BY DEF Bank
  <2>2. QED
    BY <1>1, <2>1
<1>4. b3.held = b.held
  BY <1>1, <1>2 DEF Bank
<1>5. \A e \in Channels : b3.escrow[e] = b.escrow[e]
  BY <1>1, <1>3 DEF Bank
<1>6. b3.escrow = b.escrow
  BY <1>1, <1>5 DEF Bank
<1>7. QED
  BY <1>1, <1>4, <1>6 DEF Bank, b3

\* Receiving is undoing a send.
LEMMA GoneReceived ==
  ASSUME NEW b \in Bank, NEW c \in Channels, NEW d \in Denoms, NEW a \in Nat,
         NEW x \in Channels, NEW y \in Denoms
  PROVE  Gone(Received(b, c, d, a), x, y) = Gone(b, x, y) - Move(x, y, c, d, a)
<1> DEFINE b2 == Received(b, c, d, a)
<1>1. /\ b2 \in Bank
      /\ \A z \in Denoms : b2.held[z] = b.held[z] + (IF z = d THEN a ELSE 0)
      /\ \A e \in Channels, z \in Denoms :
           b2.escrow[e][z] =
             b.escrow[e][z] - (IF e = c /\ z = d /\ d # c THEN a ELSE 0)
  BY ReceivedIs
<1>2. Sent(b2, c, d, a) = b
  BY <1>1, SentBack
<1>3. Gone(Sent(b2, c, d, a), x, y) = Gone(b2, x, y) + Move(x, y, c, d, a)
  BY <1>1, GoneSent
<1>4. Gone(b2, x, y) \in Int /\ Move(x, y, c, d, a) \in Nat
  BY <1>1, GoneType DEF Move
<1> HIDE DEF b2
<1>5. QED
  BY <1>2, <1>3, <1>4 DEF b2

---------------------------------------------------------------------------
(* Sets of numbered packets. *)

Numbered(S, n) ==
  /\ S \subseteq Packet /\ IsFiniteSet(S)
  /\ \A x \in S : x.id < n
  /\ \A x, y \in S : x.id = y.id => x = y

\* A new packet takes the next number.
LEMMA NumberedAdd ==
  ASSUME NEW S, NEW n \in Nat, Numbered(S, n), NEW x \in Packet, x.id = n
  PROVE  Numbered(S \cup {x}, n + 1) /\ x \notin S
<1>1. \A y \in S : y.id \in Nat /\ y.id < n
  BY DEF Numbered, Packet
<1>2. IsFiniteSet(S \cup {x})
  BY FS_AddElement DEF Numbered
<1>3. QED
  BY <1>1, <1>2 DEF Numbered

\* A number nobody took on this side.
LEMMA NumberedLater ==
  ASSUME NEW S, NEW n \in Nat, Numbered(S, n)
  PROVE  Numbered(S, n + 1)
<1>1. \A y \in S : y.id \in Nat /\ y.id < n
  BY DEF Numbered, Packet
<1>2. QED
  BY <1>1 DEF Numbered

\* A packet is gone.
LEMMA NumberedRemove ==
  ASSUME NEW S, NEW n, Numbered(S, n), NEW x
  PROVE  Numbered(S \ {x}, n)
BY FS_Subset DEF Numbered

\* y is packet x, up to its status.
Restated(x, y) ==
  /\ y \in Packet
  /\ y.id = x.id /\ y.chan = x.chan /\ y.denom = x.denom
  /\ y.amount = x.amount /\ y.to = x.to /\ y.retries = x.retries

\* A packet changes its status.
LEMMA StatusIs ==
  ASSUME NEW x \in Packet, NEW s \in {"sent", "waiting", "ok", "error"}
  PROVE  Restated(x, [x EXCEPT !.status = s]) /\ [x EXCEPT !.status = s].status = s
BY DEF Packet, Restated

\* A packet whose status changes keeps its place among the numbered ones.
LEMMA NumberedStatus ==
  ASSUME NEW S, NEW n, Numbered(S, n), NEW x \in S, NEW y, Restated(x, y)
  PROVE  y \notin S \ {x} /\ Numbered((S \ {x}) \cup {y}, n)
<1>2. y \in Packet /\ y.id = x.id
  BY DEF Restated
<1>3. y \notin S \ {x}
  BY <1>2 DEF Numbered
<1>4. IsFiniteSet(S \ {x})
  BY FS_Subset DEF Numbered
<1>5. IsFiniteSet((S \ {x}) \cup {y})
  BY <1>4, FS_AddElement
<1> DEFINE T == (S \ {x}) \cup {y}
<1>6. T \subseteq Packet /\ \A z \in T : z.id < n
  BY <1>2 DEF Numbered
<1>7. \A z, w \in T : z.id = w.id => z = w
  <2>1. \A z, w \in S : z.id = w.id => z = w
    BY DEF Numbered
  <2>2. \A z \in S \ {x} : z.id # y.id
    BY <1>2, <2>1
  <2>3. QED
    BY <2>1, <2>2
<1>8. Numbered(T, n)
  BY <1>5, <1>6, <1>7 DEF Numbered
<1>9. QED
  BY <1>2, <1>3, <1>8

---------------------------------------------------------------------------
(* The rate limit. *)

LimitOK(L, n) ==
  /\ L \in [in : [Channels -> Nat], out : [Channels -> Nat],
            pending : [Channels -> SUBSET Nat]]
  /\ \A c \in Channels : \A i \in L.pending[c] : i < n /\ c \in Limited

UndoOK(S, L) == \A c \in Limited : Total(Undoable(S, L, c)) <= L.out[c]

\* A packet that the rate limit did not see.
LEMMA NotCounted ==
  ASSUME NEW L, NEW n \in Nat, LimitOK(L, n), NEW S, Numbered(S, n), UndoOK(S, L),
         NEW x \in Packet, x.id = n
  PROVE  LimitOK(L, n + 1) /\ UndoOK(S \cup {x}, L)
<1>1. \A c \in Channels : \A i \in L.pending[c] : i \in Nat /\ i < n
  BY DEF LimitOK
<1>2. LimitOK(L, n + 1)
  BY <1>1 DEF LimitOK
<1>3. ASSUME NEW c \in Limited
      PROVE  Undoable(S \cup {x}, L, c) = Undoable(S, L, c)
  <2>1. x.id \notin L.pending[c]
    BY <1>1, TransferAssumption
  <2>2. QED
    BY <2>1 DEF Undoable
<1>4. QED
  BY <1>2, <1>3 DEF UndoOK

\* A packet that it saw.
LEMMA Counted ==
  ASSUME NEW L, nextId \in Nat, LimitOK(L, nextId),
         NEW S, Numbered(S, nextId), UndoOK(S, L),
         NEW x \in Packet, x.id = nextId
  PROVE  /\ LimitOK(CountOut(L, x.chan, x.denom, x.amount), nextId + 1)
         /\ UndoOK(S \cup {x}, CountOut(L, x.chan, x.denom, x.amount))
<1> DEFINE c == x.chan
           M == CountOut(L, c, x.denom, x.amount)
<1>1. CASE ~HasLimit(c, x.denom)
  BY <1>1, NotCounted DEF CountOut
<1>2. CASE HasLimit(c, x.denom)
  <2>1. /\ M = [in |-> L.in, out |-> [L.out EXCEPT ![c] = @ + x.amount],
                pending |-> [L.pending EXCEPT ![c] = @ \cup {nextId}]]
        /\ c \in Limited /\ c \in Channels /\ x.amount \in Nat
    BY <1>2, TransferAssumption, AmountType DEF CountOut, HasLimit
  <2>2. /\ M.in = L.in
        /\ M.out = [L.out EXCEPT ![c] = @ + x.amount]
        /\ M.pending = [L.pending EXCEPT ![c] = @ \cup {nextId}]
    BY <2>1
  <2>3. /\ L.out \in [Channels -> Nat] /\ L.in \in [Channels -> Nat]
        /\ L.pending \in [Channels -> SUBSET Nat]
        /\ \A e \in Channels : \A i \in L.pending[e] : i < nextId /\ e \in Limited
    BY DEF LimitOK
  <2>4. M.out \in [Channels -> Nat] /\ M.pending \in [Channels -> SUBSET Nat]
    BY <2>1, <2>2, <2>3
  <2>5. \A e \in Channels : \A i \in M.pending[e] : i < nextId + 1 /\ e \in Limited
    BY <2>1, <2>2, <2>3
  <2>6. LimitOK(M, nextId + 1)
    BY <2>1, <2>3, <2>4, <2>5 DEF LimitOK
  <2>7. \A y \in S : y.id < nextId /\ y.id \in Nat
    BY DEF Numbered, Packet
  <2>8. ASSUME NEW e \in Limited
        PROVE  Total(Undoable(S \cup {x}, M, e)) <= M.out[e]
    <3>1. e \in Channels
      BY TransferAssumption
    <3>2. Total(Undoable(S, L, e)) <= L.out[e]
      BY DEF UndoOK
    <3>3. CASE e # c
      <4>1. M.pending[e] = L.pending[e] /\ M.out[e] = L.out[e]
        BY <2>2, <2>3, <3>1, <3>3
      <4>2. Undoable(S \cup {x}, M, e) = Undoable(S, L, e)
        BY <3>3, <4>1 DEF Undoable
      <4>3. QED
        BY <3>2, <4>1, <4>2
    <3>4. CASE e = c
      <4>1. M.pending[e] = L.pending[e] \cup {nextId}
        BY <2>2, <2>3, <3>1, <3>4
      <4>2. Undoable(S \cup {x}, M, e) = Undoable(S, L, e) \cup {x}
        BY <2>7, <3>4, <4>1 DEF Undoable
      <4>3. x \notin S
        BY <2>7
      <4>4. /\ Undoable(S, L, e) \subseteq Packet /\ IsFiniteSet(Undoable(S, L, e))
            /\ Total(Undoable(S, L, e)) \in Nat
        BY UndoableType DEF Numbered
      <4> x \notin Undoable(S, L, e)
        BY <4>3 DEF Undoable
      <4>5. Total(Undoable(S \cup {x}, M, e)) = Total(Undoable(S, L, e)) + x.amount
        BY <4>2, <4>4, TotalAdd
      <4>6. M.out[e] = L.out[e] + x.amount /\ L.out[e] \in Nat
        BY <2>2, <2>3, <3>1, <3>4
      <4>7. QED
        BY <2>1, <3>2, <4>4, <4>5, <4>6
    <3>5. QED
      BY <3>3, <3>4
  <2>9. QED
    BY <2>6, <2>8 DEF UndoOK
<1>3. QED
  BY <1>1, <1>2

\* A packet is settled.
LEMMA SettledOK ==
  ASSUME NEW L, NEW n \in Nat, LimitOK(L, n), NEW S, Numbered(S, n), UndoOK(S, L),
         NEW o \in S, NEW failed \in BOOLEAN
  PROVE  /\ LimitOK(Settled(L, o, failed), n)
         /\ UndoOK(S \ {o}, Settled(L, o, failed))
         /\ Settled(L, o, failed).in = L.in
         /\ \A c \in Channels :
              Settled(L, o, failed).out[c] <= L.out[c]
<1> DEFINE k == o.chan
           M == Settled(L, o, failed)
           undone == IF failed /\ o.id \in L.pending[k] THEN o.amount ELSE 0
<1>1. k \in Channels /\ o \in Packet /\ o.amount \in Nat /\ undone \in Nat
  BY AmountType DEF Numbered, Packet
<1>2. /\ L.out \in [Channels -> Nat] /\ L.in \in [Channels -> Nat]
      /\ L.pending \in [Channels -> SUBSET Nat]
      /\ \A e \in Channels : \A i \in L.pending[e] : i < n /\ e \in Limited
  BY DEF LimitOK
<1>3. /\ M.in = L.in
      /\ M.out = [L.out EXCEPT ![k] = @ - undone]
      /\ M.pending = [L.pending EXCEPT ![k] = @ \ {o.id}]
      /\ M = [in |-> M.in, out |-> M.out, pending |-> M.pending]
  BY <1>1, <1>2 DEF Settled
<1> HIDE DEF M
<1>4. ASSUME NEW e \in Channels, e \in Limited
      PROVE  /\ Total(Undoable(S, L, e)) \in Nat
             /\ Total(Undoable(S, L, e)) <= L.out[e]
             /\ Undoable(S, L, e) \subseteq Packet /\ IsFiniteSet(Undoable(S, L, e))
  BY <1>4, UndoableType DEF UndoOK, Numbered
<1>5. undone # 0 => k \in Limited /\ o \in Undoable(S, L, k)
  BY <1>1, <1>2 DEF Undoable
<1>6. ASSUME NEW e \in Channels, NEW o2 \in Undoable(S, L, e)
      PROVE  /\ Undoable(S, L, e) \ {o2} \subseteq Packet
             /\ IsFiniteSet(Undoable(S, L, e) \ {o2})
             /\ Total(Undoable(S, L, e) \ {o2}) \in Nat
             /\ o2 \in Packet /\ o2.amount \in Nat
             /\ Total(Undoable(S, L, e)) =
                  Total(Undoable(S, L, e) \ {o2}) + o2.amount
  <2> DEFINE U == Undoable(S, L, e)
             V == U \ {o2}
  <2>1. U \subseteq Packet /\ IsFiniteSet(U)
    BY UndoableType DEF Numbered
  <2>2. V \subseteq Packet /\ IsFiniteSet(V) /\ o2 \in Packet /\ o2 \notin V
    BY <2>1, FS_Subset
  <2>3. V \cup {o2} = U
    OBVIOUS
  <2> HIDE DEF U, V
  <2>4. Total(U) = Total(V) + o2.amount /\ Total(V) \in Nat
    BY <2>2, <2>3, TotalAdd, TotalIs
  <2>5. QED
    BY <2>2, <2>4, AmountType DEF U, V
<1>7. L.out[k] - undone \in Nat
  <2>1. CASE undone = 0
    BY <1>1, <1>2, <2>1
  <2>2. CASE undone # 0
    <3>1. /\ Total(Undoable(S, L, k)) <= L.out[k]
          /\ Total(Undoable(S, L, k)) = Total(Undoable(S, L, k) \ {o}) + o.amount
          /\ Total(Undoable(S, L, k) \ {o}) \in Nat
      BY <1>1, <1>4, <1>5, <1>6, <2>2
    <3>2. undone = o.amount /\ L.out[k] \in Nat
      BY <1>1, <1>2, <2>2
    <3> HIDE DEF undone
    <3>3. QED
      BY <1>1, <3>1, <3>2
  <2>3. QED
    BY <2>1, <2>2
<1>8. M.out \in [Channels -> Nat] /\ M.pending \in [Channels -> SUBSET Nat]
  BY <1>1, <1>2, <1>3, <1>7
<1>9. \A e \in Channels : \A i \in M.pending[e] : i < n /\ e \in Limited
  BY <1>1, <1>2, <1>3
<1>10. LimitOK(M, n)
  BY <1>2, <1>3, <1>8, <1>9 DEF LimitOK
<1>11. \A c \in Channels : M.out[c] <= L.out[c]
  BY <1>1, <1>2, <1>3
<1>12. ASSUME NEW e \in Limited
       PROVE  Total(Undoable(S \ {o}, M, e)) <= M.out[e]
  <2>1. e \in Channels
    BY TransferAssumption
  <2>2. Total(Undoable(S, L, e)) <= L.out[e] /\ Total(Undoable(S, L, e)) \in Nat
    BY <1>4, <2>1
  <2>3. L.out[e] \in Nat
    BY <1>2, <2>1
  <2>4. CASE e # k
    <3>1. M.pending[e] = L.pending[e] /\ M.out[e] = L.out[e]
      BY <1>1, <1>2, <1>3, <2>1, <2>4
    <3>2. Undoable(S \ {o}, M, e) = Undoable(S, L, e)
      BY <2>4, <3>1 DEF Undoable
    <3>3. QED
      BY <2>2, <3>1, <3>2
  <2>5. CASE e = k
    <3>0. /\ k \in Limited /\ L.out[k] \in Nat
          /\ Total(Undoable(S, L, k)) <= L.out[k] /\ Total(Undoable(S, L, k)) \in Nat
      BY <2>2, <2>3, <2>5
    <3> SUFFICES Total(Undoable(S \ {o}, M, k)) <= M.out[k]
      BY <2>5
    <3>1. M.pending[k] = L.pending[k] \ {o.id} /\ M.out[k] = L.out[k] - undone
      BY <1>1, <1>2, <1>3
    <3>2. \A x \in S : x.id = o.id => x = o
      BY DEF Numbered
    <3>3. Undoable(S \ {o}, M, k) = Undoable(S, L, k) \ {o}
      BY <3>1, <3>2 DEF Undoable
    <3>4. CASE o \in Undoable(S, L, k)
      <4>1. /\ Total(Undoable(S, L, k)) = Total(Undoable(S, L, k) \ {o}) + o.amount
            /\ Total(Undoable(S, L, k) \ {o}) \in Nat
        BY <1>1, <1>6, <3>4
      <4>2. undone <= o.amount
        BY <1>1
      <4> DEFINE t == Total(Undoable(S, L, k))
                 r == Total(Undoable(S, L, k) \ {o})
                 q == L.out[k]
      <4>3. t = r + o.amount /\ r \in Nat /\ t <= q /\ q \in Nat
        BY <3>0, <4>1
      <4>4. M.out[k] = q - undone /\ Total(Undoable(S \ {o}, M, k)) = r
        BY <3>1, <3>3
      <4> HIDE DEF undone, t, r, q
      <4>5. r <= q - undone
        BY <1>1, <4>2, <4>3
      <4>6. QED
        BY <4>4, <4>5
    <3>5. CASE o \notin Undoable(S, L, k)
      <4>1. undone = 0 /\ Undoable(S, L, k) \ {o} = Undoable(S, L, k)
        BY <1>5, <3>5
      <4>2. M.out[k] = L.out[k]
        BY <3>0, <3>1, <4>1
      <4>3. QED
        BY <3>0, <3>3, <4>1, <4>2
    <3>6. QED
      BY <3>4, <3>5
  <2>6. QED
    BY <2>4, <2>5
<1>13. QED
  BY <1>3, <1>10, <1>11, <1>12 DEF UndoOK, M

\* What comes in is not undone.
LEMMA CountInOK ==
  ASSUME NEW L, NEW n \in Nat, LimitOK(L, n), NEW S, UndoOK(S, L),
         NEW c \in Channels, NEW d, NEW a \in Nat
  PROVE  LimitOK(CountIn(L, c, d, a), n) /\ UndoOK(S, CountIn(L, c, d, a))
<1> DEFINE M == CountIn(L, c, d, a)
<1>1. L.in \in [Channels -> Nat]
  BY DEF LimitOK
<1>2. /\ M.out = L.out /\ M.pending = L.pending
      /\ M.in \in [Channels -> Nat]
      /\ M = [in |-> M.in, out |-> M.out, pending |-> M.pending]
  BY <1>1 DEF CountIn, LimitOK
<1> HIDE DEF M
<1>3. LimitOK(M, n)
  BY <1>2 DEF LimitOK
<1>4. \A e : Undoable(S, M, e) = Undoable(S, L, e)
  BY <1>2 DEF Undoable
<1>5. UndoOK(S, M)
  BY <1>2, <1>4 DEF UndoOK
<1>6. QED
  BY <1>3, <1>5 DEF M

\* A new window forgets what may be undone.
LEMMA NewWindowOK ==
  ASSUME NEW L, NEW n, LimitOK(L, n), NEW S, UndoOK(S, L), NEW c \in Limited
  PROVE  LimitOK(NewWindow(L, c), n) /\ UndoOK(S, NewWindow(L, c))
<1> DEFINE M == NewWindow(L, c)
<1>1. c \in Channels
  BY TransferAssumption
<1>2. /\ L.out \in [Channels -> Nat] /\ L.in \in [Channels -> Nat]
      /\ L.pending \in [Channels -> SUBSET Nat]
      /\ \A e \in Channels : \A i \in L.pending[e] : i < n /\ e \in Limited
  BY DEF LimitOK
<1>3. /\ M.in = [L.in EXCEPT ![c] = 0] /\ M.out = [L.out EXCEPT ![c] = 0]
      /\ M.pending = [L.pending EXCEPT ![c] = {}]
      /\ M = [in |-> M.in, out |-> M.out, pending |-> M.pending]
  BY DEF NewWindow
<1> HIDE DEF M
<1>4. LimitOK(M, n)
  BY <1>1, <1>2, <1>3 DEF LimitOK
<1>5. ASSUME NEW e \in Limited PROVE Total(Undoable(S, M, e)) <= M.out[e]
  <2>1. e \in Channels
    BY TransferAssumption
  <2>2. CASE e # c
    <3>1. M.pending[e] = L.pending[e] /\ M.out[e] = L.out[e]
      BY <1>2, <1>3, <2>1, <2>2
    <3>2. Undoable(S, M, e) = Undoable(S, L, e)
      BY <3>1 DEF Undoable
    <3>3. QED
      BY <3>1, <3>2 DEF UndoOK
  <2>3. CASE e = c
    <3>1. M.pending[e] = {} /\ M.out[e] = 0
      BY <1>2, <1>3, <2>1, <2>3
    <3>2. Undoable(S, M, e) = {}
      BY <3>1 DEF Undoable
    <3>3. Total({}) = 0
      BY TotalIs, SumEmpty, FS_EmptySet
    <3>4. QED
      BY <3>1, <3>2, <3>3
  <2>4. QED
    BY <2>2, <2>3
<1>6. QED
  BY <1>4, <1>5 DEF UndoOK, M

\* A packet that changes its status may be undone as before.
LEMMA UndoStatus ==
  ASSUME NEW S, NEW n, Numbered(S, n), NEW L, UndoOK(S, L), NEW x \in S,
         NEW y, Restated(x, y)
  PROVE  UndoOK((S \ {x}) \cup {y}, L)
<1> DEFINE T == (S \ {x}) \cup {y}
<1>1. /\ y \in Packet /\ y.id = x.id /\ y.chan = x.chan /\ y.amount = x.amount
      /\ y \notin S \ {x} /\ x \in Packet /\ S \subseteq Packet
  <2>1. S \subseteq Packet
    BY DEF Numbered
  <2>2. /\ y \in Packet /\ y.id = x.id /\ y.chan = x.chan /\ y.amount = x.amount
        /\ y \notin S \ {x}
    BY NumberedStatus DEF Restated
  <2>3. QED
    BY <2>1, <2>2
<1>2. ASSUME NEW c \in Limited
      PROVE  Total(Undoable(T, L, c)) = Total(Undoable(S, L, c))
  <2> DEFINE V == Undoable(S \ {x}, L, c)
  <2>1. IsFiniteSet(S \ {x}) /\ S \ {x} \subseteq Packet
    BY <1>1, FS_Subset DEF Numbered
  <2>2. V \subseteq Packet /\ IsFiniteSet(V) /\ Total(V) \in Nat
    BY <2>1, UndoableType
  <2>3. x \notin V /\ y \notin V
    BY <1>1 DEF Undoable
  <2>4. CASE x.chan = c /\ x.id \in L.pending[c]
    <3>1. Undoable(S, L, c) = V \cup {x} /\ Undoable(T, L, c) = V \cup {y}
      BY <1>1, <2>4 DEF Undoable
    <3> HIDE DEF V
    <3>2. Total(V \cup {x}) = Total(V) + x.amount
      BY <1>1, <2>2, <2>3, TotalAdd
    <3>3. Total(V \cup {y}) = Total(V) + y.amount
      BY <1>1, <2>2, <2>3, TotalAdd
    <3>4. QED
      BY <1>1, <3>1, <3>2, <3>3
  <2>5. CASE ~(x.chan = c /\ x.id \in L.pending[c])
    <3>1. Undoable(S, L, c) = V /\ Undoable(T, L, c) = V
      BY <1>1, <2>5 DEF Undoable
    <3>2. QED
      BY <3>1
  <2>6. QED
    BY <2>4, <2>5
<1>3. QED
  BY <1>2 DEF UndoOK

---------------------------------------------------------------------------
(* The books of both sides. *)

\* What is beyond channel c of token d, net, by the other chain's books.
Beyond(ab, lk, c, d) == IF d = c THEN -lk[c] ELSE ab[c][d]

Books(b, ab, lk, O, R) ==
  \A c \in Channels, d \in Denoms :
    Gone(b, c, d) = Beyond(ab, lk, c, d) + UnderWay(O, c, d) + UnderWay(R, c, d)

\* The books of the other chain, in the middle of a step.
Remote(ab, lk) == ab \in [Channels -> [Denoms -> Int]] /\ lk \in [Channels -> Int]

\* What the other chains hold is a number.
LEMMA BeyondType ==
  ASSUME NEW ab, NEW lk, Remote(ab, lk), NEW c \in Channels, NEW d \in Denoms
  PROVE  Beyond(ab, lk, c, d) \in Int
BY DEF Beyond, Remote

\* The other chain's side of a transfer.
LEMMA BeyondSent ==
  ASSUME Remote(abroad, locked), NEW c \in Channels, NEW d \in Denoms,
         NEW a \in Nat, RemoteSent(c, d, a)
  PROVE  /\ Remote(abroad', locked')
         /\ \A x \in Channels, y \in Denoms :
              /\ Beyond(abroad', locked', x, y) = Beyond(abroad, locked, x, y) - Move(x, y, c, d, a)
              /\ abroad'[x][y] = abroad[x][y] - Move(x, y, c, d, a)
<1> DEFINE R == [abroad[c] EXCEPT ![d] = @ - a]
<1>1. abroad \in [Channels -> [Denoms -> Int]] /\ locked \in [Channels -> Int]
  BY DEF Remote
<1>2. R \in [Denoms -> Int] /\ abroad' = [abroad EXCEPT ![c] = R]
  BY <1>1 DEF RemoteSent
<1>3. \A y \in Denoms : R[y] = abroad[c][y] - (IF y = d THEN a ELSE 0)
  BY <1>1
<1> HIDE DEF R
<1>4. Remote(abroad', locked')
  BY <1>1, <1>2 DEF Remote, RemoteSent
<1>5. ASSUME NEW x \in Channels, NEW y \in Denoms
      PROVE  abroad'[x][y] = abroad[x][y] - Move(x, y, c, d, a)
  <2>1. abroad[x][y] \in Int /\ abroad'[x] = IF x = c THEN R ELSE abroad[x]
    BY <1>1, <1>2
  <2>2. CASE x = c
    <3>1. abroad'[c] = R /\ abroad[c][y] \in Int
      BY <2>1, <2>2
    <3>2. abroad'[c][y] = abroad[c][y] - Move(c, y, c, d, a)
      BY <1>3, <3>1 DEF Move
    <3>3. QED
      BY <2>2, <3>2
  <2>3. CASE x # c
    <3>1. abroad'[x][y] = abroad[x][y] /\ Move(x, y, c, d, a) = 0
      BY <2>1, <2>3 DEF Move
    <3>2. QED
      BY <2>1, <3>1
  <2>4. QED
    BY <2>2, <2>3
<1>6. ASSUME NEW x \in Channels, NEW y \in Denoms
      PROVE  Beyond(abroad', locked', x, y) = Beyond(abroad, locked, x, y) - Move(x, y, c, d, a)
  <2>1. locked[x] \in Int
    BY <1>1
  <2>2. locked'[x] = IF x = c /\ d = c THEN locked[x] + a ELSE locked[x]
    BY <1>1 DEF RemoteSent
  <2>3. CASE y = x
    <3>1. Beyond(abroad', locked', x, y) = -locked'[x] /\ Beyond(abroad, locked, x, y) = -locked[x]
      BY <2>3 DEF Beyond
    <3>2. QED
      BY <2>1, <2>2, <2>3, <3>1 DEF Move
  <2>4. CASE y # x
    BY <1>5, <2>4 DEF Beyond
  <2>5. QED
    BY <2>3, <2>4
<1>7. QED
  BY <1>4, <1>5, <1>6

\* The other chain's side of an arrival.
LEMMA BeyondReceived ==
  ASSUME Remote(abroad, locked), NEW c \in Channels, NEW d \in Denoms,
         NEW a \in Nat, RemoteReceived(c, d, a)
  PROVE  /\ Remote(abroad', locked')
         /\ \A x \in Channels, y \in Denoms :
              /\ Beyond(abroad', locked', x, y) = Beyond(abroad, locked, x, y) + Move(x, y, c, d, a)
              /\ abroad'[x][y] = abroad[x][y] + Move(x, y, c, d, a)
<1> DEFINE R == [abroad[c] EXCEPT ![d] = @ + a]
<1>1. abroad \in [Channels -> [Denoms -> Int]] /\ locked \in [Channels -> Int]
  BY DEF Remote
<1>2. R \in [Denoms -> Int] /\ abroad' = [abroad EXCEPT ![c] = R]
  BY <1>1 DEF RemoteReceived
<1>3. \A y \in Denoms : R[y] = abroad[c][y] + (IF y = d THEN a ELSE 0)
  BY <1>1
<1> HIDE DEF R
<1>4. Remote(abroad', locked')
  BY <1>1, <1>2 DEF Remote, RemoteReceived
<1>5. ASSUME NEW x \in Channels, NEW y \in Denoms
      PROVE  abroad'[x][y] = abroad[x][y] + Move(x, y, c, d, a)
  <2>1. abroad[x][y] \in Int /\ abroad'[x] = IF x = c THEN R ELSE abroad[x]
    BY <1>1, <1>2
  <2>2. CASE x = c
    <3>1. abroad'[c] = R /\ abroad[c][y] \in Int
      BY <2>1, <2>2
    <3>2. abroad'[c][y] = abroad[c][y] + Move(c, y, c, d, a)
      BY <1>3, <3>1 DEF Move
    <3>3. QED
      BY <2>2, <3>2
  <2>3. CASE x # c
    <3>1. abroad'[x][y] = abroad[x][y] /\ Move(x, y, c, d, a) = 0
      BY <2>1, <2>3 DEF Move
    <3>2. QED
      BY <2>1, <3>1
  <2>4. QED
    BY <2>2, <2>3
<1>6. ASSUME NEW x \in Channels, NEW y \in Denoms
      PROVE  Beyond(abroad', locked', x, y) = Beyond(abroad, locked, x, y) + Move(x, y, c, d, a)
  <2>1. locked[x] \in Int
    BY <1>1
  <2>2. locked'[x] = IF x = c /\ d = c THEN locked[x] - a ELSE locked[x]
    BY <1>1 DEF RemoteReceived
  <2>3. CASE y = x
    <3>1. Beyond(abroad', locked', x, y) = -locked'[x] /\ Beyond(abroad, locked, x, y) = -locked[x]
      BY <2>3 DEF Beyond
    <3>2. QED
      BY <2>1, <2>2, <2>3, <3>1 DEF Move
  <2>4. CASE y # x
    BY <1>5, <2>4 DEF Beyond
  <2>5. QED
    BY <2>3, <2>4
<1>7. QED
  BY <1>4, <1>5, <1>6

\* Balanced books are what VouchersBacked says.
Backed(b, ab, lk, O, R) ==
  \A c \in Channels :
    /\ \A d \in Denoms \ {c} :
         b.escrow[c][d] = ab[c][d] + UnderWay(O, c, d) + UnderWay(R, c, d)
    /\ lk[c] = b.held[c] + InEscrow(b, c) + UnderWay(O, c, c) + UnderWay(R, c, c)

\* Books in terms of what has gone and what is beyond say the same as the
\* balance of escrow and vouchers, denomination by denomination.
LEMMA BooksBacked ==
  ASSUME NEW b \in Bank, NEW ab, NEW lk, Remote(ab, lk),
         NEW O, O \subseteq Packet, IsFiniteSet(O),
         NEW R, R \subseteq Packet, IsFiniteSet(R)
  PROVE  Books(b, ab, lk, O, R) <=> Backed(b, ab, lk, O, R)
<1>1. ASSUME NEW c \in Channels, NEW d \in Denoms \ {c}
      PROVE  Gone(b, c, d) = b.escrow[c][d] /\ Beyond(ab, lk, c, d) = ab[c][d]
  BY DEF Gone, Beyond
<1>2. ASSUME NEW c \in Channels
      PROVE  /\ c \in Denoms
             /\ (Gone(b, c, c) =
                   Beyond(ab, lk, c, c) + UnderWay(O, c, c) + UnderWay(R, c, c))
                <=> (lk[c] = b.held[c] + InEscrow(b, c)
                             + UnderWay(O, c, c) + UnderWay(R, c, c))
  <2>1. c \in Denoms
    BY DEF Denoms
  <2>2. b.held[c] \in Int /\ lk[c] \in Int
    BY <2>1 DEF Bank, Remote
  <2>3. InEscrow(b, c) \in Int
    BY <2>1, InEscrowChange
  <2>4. UnderWay(O, c, c) \in Nat /\ UnderWay(R, c, c) \in Nat
    BY UnderType
  <2>5. /\ Gone(b, c, c) = -(b.held[c] + InEscrow(b, c))
        /\ Beyond(ab, lk, c, c) = -lk[c]
    BY DEF Gone, Beyond
  <2> DEFINE h == b.held[c]
             e == InEscrow(b, c)
             l == lk[c]
             u == UnderWay(O, c, c)
             v == UnderWay(R, c, c)
  <2>6. h \in Int /\ e \in Int /\ l \in Int /\ u \in Int /\ v \in Int
    BY <2>2, <2>3, <2>4
  <2>7. Gone(b, c, c) = -(h + e) /\ Beyond(ab, lk, c, c) = -l
    BY <2>5
  <2> HIDE DEF h, e, l, u, v
  <2>8. (-(h + e) = -l + u + v) <=> (l = h + e + u + v)
    BY <2>6
  <2>9. QED
    BY <2>1, <2>7, <2>8 DEF h, e, l, u, v
<1>3. Books(b, ab, lk, O, R) => Backed(b, ab, lk, O, R)
  BY <1>1, <1>2 DEF Books, Backed
<1>4. Backed(b, ab, lk, O, R) => Books(b, ab, lk, O, R)
  <2>1. SUFFICES ASSUME Backed(b, ab, lk, O, R), NEW c \in Channels, NEW d \in Denoms
                 PROVE  Gone(b, c, d) = Beyond(ab, lk, c, d)
                          + UnderWay(O, c, d) + UnderWay(R, c, d)
    BY DEF Books
  <2>2. CASE d = c
    BY <1>2, <2>1, <2>2 DEF Backed
  <2>3. CASE d # c
    BY <1>1, <2>1, <2>3 DEF Backed
  <2>4. QED
    BY <2>2, <2>3
<1>5. QED
  BY <1>3, <1>4

\* Balanced books leave no account in debt.
LEMMA BooksSolvent ==
  ASSUME NEW b \in Bank, NEW ab \in [Channels -> [Denoms -> Nat]],
         NEW lk \in [Channels -> Int],
         NEW O, O \subseteq Packet, IsFiniteSet(O),
         NEW R, R \subseteq Packet, IsFiniteSet(R),
         Backed(b, ab, lk, O, R),
         \A d \in Denoms : b.held[d] \in Nat,
         \A c \in Channels : b.escrow[c][c] \in Nat
  PROVE  /\ b \in [held : [Denoms -> Nat], escrow : [Channels -> [Denoms -> Nat]]]
         /\ lk \in [Channels -> Nat]
<1>1. ASSUME NEW c \in Channels, NEW d \in Denoms PROVE b.escrow[c][d] \in Nat
  <2>1. CASE d = c
    BY <2>1
  <2>2. CASE d # c
    <3>1. b.escrow[c][d] = ab[c][d] + UnderWay(O, c, d) + UnderWay(R, c, d)
      BY <2>2 DEF Backed
    <3>2. ab[c][d] \in Nat /\ UnderWay(O, c, d) \in Nat /\ UnderWay(R, c, d) \in Nat
      BY UnderType
    <3>3. QED
      BY <3>1, <3>2
  <2>3. QED
    BY <2>1, <2>2
<1>2. b.escrow \in [Channels -> [Denoms -> Nat]]
  <2>1. \A c \in Channels : b.escrow[c] \in [Denoms -> Nat]
    BY <1>1 DEF Bank
  <2>2. QED
    BY <2>1 DEF Bank
<1>3. b.held \in [Denoms -> Nat]
  BY DEF Bank
<1>4. b \in [held : [Denoms -> Nat], escrow : [Channels -> [Denoms -> Nat]]]
  BY <1>2, <1>3 DEF Bank
<1>5. ASSUME NEW c \in Channels PROVE lk[c] \in Nat
  <2>1. c \in Denoms
    BY DEF Denoms
  <2>2. InEscrow(b, c) \in Nat
    <3> DEFINE f == [e \in Channels |-> b.escrow[e][c]]
    <3>1. \A e \in Channels : f[e] \in Nat
      BY <1>1, <2>1
    <3>2. InEscrow(b, c) = SumFunctionOnSet(f, Channels)
      BY DEF InEscrow, SumFunction
    <3> HIDE DEF f
    <3>3. QED
      BY <3>1, <3>2, SumNat, TransferAssumption
  <2>3. UnderWay(O, c, c) \in Nat /\ UnderWay(R, c, c) \in Nat
    BY UnderType
  <2>4. lk[c] = b.held[c] + InEscrow(b, c) + UnderWay(O, c, c) + UnderWay(R, c, c)
    BY DEF Backed
  <2>5. b.held[c] \in Nat
    BY <2>1
  <2>6. QED
    BY <2>2, <2>3, <2>4, <2>5
<1>6. QED
  BY <1>4, <1>5

---------------------------------------------------------------------------
(* The inductive invariant, in parts. *)

Counting ==
  /\ nextId \in Nat /\ users \in Nat /\ resets \in Nat
  /\ start \in [Channels -> Nat]
  /\ Numbered(out, nextId) /\ Numbered(recv, nextId)
  /\ LimitOK(limit, nextId) /\ UndoOK(out, limit)

Forwarding ==
  inflight \subseteq [out : Nat, in : Nat, retries : Nat] /\ ForwardsExact

BankOK(b) ==
  /\ b \in Bank
  /\ \A d \in Denoms : b.held[d] \in Nat
  /\ \A c \in Channels : b.escrow[c][c] \in Nat

Money ==
  /\ BankOK(bank)
  /\ abroad \in [Channels -> [Denoms -> Nat]] /\ locked \in [Channels -> Int]
  /\ Books(bank, abroad, locked, out, recv)

Parts == Counting /\ Forwarding /\ Money

\* The books that balance are those of VouchersBacked.
LEMMA BackedMeans == Backed(bank, abroad, locked, out, recv) <=> VouchersBacked
BY DEF Backed, VouchersBacked, UnderWay

\* The parts make up the invariant.
LEMMA PartsMeaning == Parts <=> TransferInv
<1>1. ASSUME Parts PROVE TransferInv
  <2> USE <1>1 DEF Parts
  <2>1. /\ out \subseteq Packet /\ IsFiniteSet(out)
        /\ recv \subseteq Packet /\ IsFiniteSet(recv)
    BY DEF Counting, Numbered
  <2>2. /\ bank \in Bank /\ Remote(abroad, locked)
        /\ abroad \in [Channels -> [Denoms -> Nat]] /\ locked \in [Channels -> Int]
    BY DEF Money, BankOK, Remote
  <2>3. Backed(bank, abroad, locked, out, recv)
    BY <2>1, <2>2, BooksBacked DEF Money
  <2>4. /\ bank \in [held : [Denoms -> Nat], escrow : [Channels -> [Denoms -> Nat]]]
        /\ locked \in [Channels -> Nat]
    BY <2>1, <2>2, <2>3, BooksSolvent DEF Money, BankOK
  <2>5. TypeOK
    BY <2>1, <2>2, <2>4 DEF TypeOK, Counting, Forwarding, LimitOK
  <2>6. Identified
    BY <2>1 DEF Identified, Counting, Numbered, LimitOK
  <2>7. UndoCovered
    BY DEF UndoCovered, UndoOK, Counting
  <2>8. VouchersBacked
    BY <2>3, BackedMeans
  <2>9. QED
    BY <2>5, <2>6, <2>7, <2>8 DEF TransferInv, Forwarding
<1>2. ASSUME TransferInv PROVE Parts
  <2> USE <1>2 DEF TransferInv
  <2>1. /\ out \subseteq Packet /\ IsFiniteSet(out)
        /\ recv \subseteq Packet /\ IsFiniteSet(recv)
    BY DEF TypeOK, Identified
  <2>2. Counting
    <3>1. Numbered(out, nextId) /\ Numbered(recv, nextId)
      BY <2>1 DEF Identified, Numbered
    <3>2. LimitOK(limit, nextId)
      BY DEF TypeOK, Identified, LimitOK
    <3>3. UndoOK(out, limit)
      BY DEF UndoCovered, UndoOK
    <3>4. QED
      BY <3>1, <3>2, <3>3 DEF TypeOK, Counting
  <2>3. BankOK(bank)
    <3>1. Channels \subseteq Denoms
      BY DEF Denoms
    <3>2. /\ bank.held \in [Denoms -> Nat]
          /\ bank.escrow \in [Channels -> [Denoms -> Nat]]
          /\ bank = [held |-> bank.held, escrow |-> bank.escrow]
      BY DEF TypeOK
    <3>3. bank.held \in [Denoms -> Int] /\ bank.escrow \in [Channels -> [Denoms -> Int]]
      BY <3>2
    <3>4. QED
      BY <3>1, <3>2, <3>3 DEF BankOK, Bank
  <2>4. abroad \in [Channels -> [Denoms -> Nat]] /\ locked \in [Channels -> Int]
    BY DEF TypeOK
  <2>5. Remote(abroad, locked)
    BY <2>4 DEF Remote
  <2>6. Books(bank, abroad, locked, out, recv)
    BY <2>1, <2>3, <2>5, BackedMeans, BooksBacked DEF BankOK
  <2>7. QED
    BY <2>2, <2>3, <2>4, <2>6 DEF Parts, Money, Forwarding, TypeOK
<1>3. QED
  BY <1>1, <1>2

\* What balanced books say of one channel and one token.
LEMMA MoneyIs ==
  ASSUME Counting, Money, NEW x \in Channels, NEW y \in Denoms
  PROVE  /\ Gone(bank, x, y) \in Int /\ Beyond(abroad, locked, x, y) \in Int
         /\ UnderWay(out, x, y) \in Int /\ UnderWay(recv, x, y) \in Int
         /\ Gone(bank, x, y) = Beyond(abroad, locked, x, y)
              + UnderWay(out, x, y) + UnderWay(recv, x, y)
<1>1. bank \in Bank /\ Remote(abroad, locked)
  BY DEF Money, BankOK, Remote
<1>2. Gone(bank, x, y) \in Int /\ Beyond(abroad, locked, x, y) \in Int
  BY <1>1, GoneType, BeyondType
<1>3. UnderWay(out, x, y) \in Int /\ UnderWay(recv, x, y) \in Int
  BY UnderType DEF Counting, Numbered
<1>4. QED
  BY <1>2, <1>3 DEF Money, Books

\* A packet under way weighs what it moves, another one nothing.
LEMMA WeightIs ==
  ASSUME NEW p \in Packet, NEW x, NEW y
  PROVE  /\ Move(x, y, p.chan, p.denom, p.amount) \in Int
         /\ Weight(p, x, y) =
              IF p.status \in {"sent", "error"}
              THEN Move(x, y, p.chan, p.denom, p.amount) ELSE 0
BY AmountType DEF Move, Weight

\* A packet Enoki sends: it has a new number, and the rate limit that counted
\* it can undo it.
LEMMA SendCounting ==
  ASSUME nextId \in Nat, NEW L, LimitOK(L, nextId),
         NEW S, Numbered(S, nextId), UndoOK(S, L), NEW sender,
         NEW c \in Channels, NEW d \in Denoms, NEW a \in Amounts,
         SendPacket(sender, L, c, d, a)
  PROVE  LET x == OutPacket(c, d, a) IN
           /\ x \in Packet /\ x \notin S /\ x.id = nextId /\ x.status = "sent"
           /\ x.chan = c /\ x.denom = d /\ x.amount = a
           /\ nextId' = nextId + 1
           /\ Numbered(S \cup {x}, nextId') /\ LimitOK(limit', nextId')
           /\ UndoOK(S \cup {x}, limit')
<1> DEFINE x == OutPacket(c, d, a)
<1>1. /\ x \in Packet /\ x.id = nextId /\ x.status = "sent"
      /\ x.chan = c /\ x.denom = d /\ x.amount = a
  BY DEF OutPacket, Packet
<1> HIDE DEF x
<1>2. /\ nextId' = nextId + 1
      /\ limit' = IF LimitedFor(sender) THEN CountOut(L, c, d, a) ELSE L
  BY DEF SendPacket
<1>3. Numbered(S \cup {x}, nextId + 1) /\ x \notin S
  BY <1>1, NumberedAdd
<1>4. LimitOK(L, nextId + 1) /\ UndoOK(S \cup {x}, L)
  BY <1>1, NotCounted
<1>5. /\ LimitOK(CountOut(L, c, d, a), nextId + 1)
      /\ UndoOK(S \cup {x}, CountOut(L, c, d, a))
  BY <1>1, Counted
<1>6. QED
  BY <1>1, <1>2, <1>3, <1>4, <1>5 DEF x

\* Users never owe tokens, and no escrow account holds its channel's own.
LEMMA SentOK ==
  ASSUME NEW b, BankOK(b), NEW c \in Channels, NEW d \in Denoms, NEW a \in Nat,
         b.held[d] >= a
  PROVE  BankOK(Sent(b, c, d, a))
<1> DEFINE b2 == Sent(b, c, d, a)
<1> b \in Bank
  BY DEF BankOK
<1>1. Channels \subseteq Denoms
  BY DEF Denoms
<1>2. /\ b2 \in Bank
      /\ \A x \in Denoms : b2.held[x] = b.held[x] - (IF x = d THEN a ELSE 0)
      /\ \A e \in Channels, x \in Denoms :
           b2.escrow[e][x] = b.escrow[e][x] + (IF e = c /\ x = d /\ d # c THEN a ELSE 0)
  BY SentIs
<1> HIDE DEF b2
<1>3. \A x \in Denoms : b2.held[x] \in Nat
  BY <1>2 DEF BankOK
<1>4. \A e \in Channels : b2.escrow[e][e] \in Nat
  <2>1. TAKE e \in Channels
  <2>2. b2.escrow[e][e] = b.escrow[e][e] + 0
    BY <1>1, <1>2
  <2>3. QED
    BY <2>2 DEF BankOK
<1>5. QED
  BY <1>2, <1>3, <1>4 DEF BankOK, b2

\* A receipt overdraws no account, and leaves its amount with the receiver.
LEMMA ReceivedOK ==
  ASSUME NEW b, BankOK(b), NEW c \in Channels, NEW d \in Denoms, NEW a \in Nat
  PROVE  BankOK(Received(b, c, d, a)) /\ Received(b, c, d, a).held[d] >= a
<1> DEFINE b2 == Received(b, c, d, a)
<1> b \in Bank
  BY DEF BankOK
<1>1. Channels \subseteq Denoms
  BY DEF Denoms
<1>2. /\ b2 \in Bank
      /\ \A x \in Denoms : b2.held[x] = b.held[x] + (IF x = d THEN a ELSE 0)
      /\ \A e \in Channels, x \in Denoms :
           b2.escrow[e][x] = b.escrow[e][x] - (IF e = c /\ x = d /\ d # c THEN a ELSE 0)
  BY ReceivedIs
<1> HIDE DEF b2
<1>3. \A x \in Denoms : b2.held[x] \in Nat
  BY <1>2 DEF BankOK
<1>4. \A e \in Channels : b2.escrow[e][e] \in Nat
  <2>1. TAKE e \in Channels
  <2>2. b2.escrow[e][e] = b.escrow[e][e] - 0
    BY <1>1, <1>2
  <2>3. QED
    BY <2>2 DEF BankOK
<1>5. b2.held[d] = b.held[d] + a /\ b.held[d] \in Nat
  BY <1>2 DEF BankOK
<1>6. QED
  BY <1>2, <1>3, <1>4, <1>5 DEF BankOK, b2

\* Tokens that come in through one channel and leave through another.
LEMMA PassedOn ==
  ASSUME NEW b, BankOK(b), NEW c \in Channels, NEW e \in Channels,
         NEW d \in Denoms, NEW a \in Nat
  PROVE  BankOK(Sent(Received(b, c, d, a), e, d, a))
<1> DEFINE r == Received(b, c, d, a)
<1>1. BankOK(r) /\ r.held[d] >= a
  BY ReceivedOK
<1> HIDE DEF r
<1>2. BankOK(Sent(r, e, d, a))
  BY <1>1, SentOK
<1>3. QED
  BY <1>2 DEF r

\* A forward takes from the first channel what it moves over the second.
LEMMA GonePassedOn ==
  ASSUME NEW b \in Bank, NEW c \in Channels, NEW e \in Channels,
         NEW d \in Denoms, NEW a \in Nat, NEW x \in Channels, NEW y \in Denoms
  PROVE  Gone(Sent(Received(b, c, d, a), e, d, a), x, y) =
           Gone(b, x, y) - Move(x, y, c, d, a) + Move(x, y, e, d, a)
<1> DEFINE r == Received(b, c, d, a)
<1>1. r \in Bank
  BY ReceivedIs
<1>2. Gone(r, x, y) = Gone(b, x, y) - Move(x, y, c, d, a)
  BY GoneReceived
<1> HIDE DEF r
<1>3. Gone(Sent(r, e, d, a), x, y) = Gone(r, x, y) + Move(x, y, e, d, a)
  BY <1>1, GoneSent
<1>4. QED
  BY <1>2, <1>3 DEF r

---------------------------------------------------------------------------
(* Every action keeps the parts. *)

\* MsgTransfer.
LEMMA TransferStep ==
  ASSUME Parts, NEW c \in Channels, NEW d \in Denoms, NEW a \in Amounts,
         Transfer(c, d, a)
  PROVE  Parts'
<1> DEFINE x == OutPacket(c, d, a)
<1> USE DEF Parts
<1>0. a \in Nat
  BY TransferAssumption
<1>1. /\ SendPacket("msgServer", limit, c, d, a)
      /\ bank.held[d] >= a /\ bank' = Sent(bank, c, d, a) /\ out' = out \cup {x}
      /\ users' = users + 1
      /\ UNCHANGED <<abroad, locked, recv, inflight, start, resets>>
  BY DEF Transfer
<1>2. /\ x \in Packet /\ x \notin out /\ x.id = nextId /\ x.status = "sent"
      /\ x.chan = c /\ x.denom = d /\ x.amount = a
      /\ nextId' = nextId + 1
      /\ Numbered(out', nextId') /\ LimitOK(limit', nextId') /\ UndoOK(out', limit')
  BY <1>1, SendCounting DEF Counting
<1> HIDE DEF x
<1>3. Counting'
  <2>1. Numbered(recv, nextId + 1)
    BY NumberedLater DEF Counting
  <2>2. QED
    BY <1>1, <1>2, <2>1 DEF Counting
<1>4. Forwarding'
  <2>1. out \subseteq out'
    BY <1>1
  <2>2. QED
    BY <1>1, <2>1 DEF Forwarding, ForwardsExact, Original
<1>5. Money'
  <2>1. BankOK(bank')
    BY <1>0, <1>1, SentOK DEF Money
  <2>2. ASSUME NEW e \in Channels, NEW y \in Denoms
        PROVE  Gone(bank', e, y) = Beyond(abroad', locked', e, y)
                 + UnderWay(out', e, y) + UnderWay(recv', e, y)
    <3>1. Gone(bank', e, y) = Gone(bank, e, y) + Move(e, y, c, d, a)
      BY <1>0, <1>1, GoneSent DEF Money, BankOK
    <3>2. UnderWay(out', e, y) = UnderWay(out, e, y) + Weight(x, e, y)
      BY <1>1, <1>2, UnderAdd DEF Counting, Numbered
    <3>3. Weight(x, e, y) = Move(e, y, c, d, a) /\ Move(e, y, c, d, a) \in Int
      BY <1>2, WeightIs
    <3>4. QED
      BY <1>1, <3>1, <3>2, <3>3, MoneyIs
  <2>3. QED
    BY <1>1, <2>1, <2>2 DEF Money, Books
<1>6. QED
  BY <1>3, <1>4, <1>5

\* The original of a forward waits for its acknowledgement, and was to go
\* where the forward went.
LEMMA OriginalIs ==
  ASSUME Parts, NEW o \in out, NEW f \in Forwards(o), NEW p \in Original(f)
  PROVE  /\ f \in inflight /\ f.out = o.id
         /\ p \in recv /\ p.id = f.in /\ p.status = "waiting"
         /\ o.chan = p.to /\ o.denom = p.denom /\ o.amount = p.amount
<1>1. f \in inflight /\ f.out = o.id /\ p \in recv /\ p.id = f.in
  BY DEF Forwards, Original
<1>2. PICK q \in Original(f), u \in out :
        /\ q.status = "waiting" /\ u.id = f.out
        /\ <<u.chan, u.denom, u.amount>> = <<q.to, q.denom, q.amount>>
  BY <1>1 DEF Parts, Forwarding, ForwardsExact
<1>3. q = p /\ u = o
  BY <1>1, <1>2 DEF Parts, Counting, Numbered, Original
<1>4. QED
  BY <1>1, <1>2, <1>3

\* An answer, or a timeout that is not tried again.
LEMMA SettleStep ==
  ASSUME Parts, NEW o \in out, NEW failed \in BOOLEAN,
         failed <=> o.status \in {"sent", "error"}, Settle(o, failed)
  PROVE  Parts'
<1> USE DEF Parts
<1>1. /\ limit' = Settled(limit, o, failed) /\ out' = out \ {o}
      /\ UNCHANGED <<abroad, locked, start, nextId, users, resets>>
  BY DEF Settle
<1>2. /\ o \in Packet /\ o.chan \in Channels /\ o.denom \in Denoms
      /\ o.amount \in Nat
  BY AmountType DEF Counting, Numbered, Packet
<1>3. Numbered(out', nextId) /\ LimitOK(limit', nextId) /\ UndoOK(out', limit')
  BY <1>1, NumberedRemove, SettledOK DEF Counting
<1>4. ASSUME NEW x \in Channels, NEW y \in Denoms
      PROVE  /\ UnderWay(out', x, y) = UnderWay(out, x, y)
                  - (IF failed THEN Move(x, y, o.chan, o.denom, o.amount) ELSE 0)
             /\ Move(x, y, o.chan, o.denom, o.amount) \in Int
  BY <1>1, <1>2, UnderRemove, WeightIs DEF Counting, Numbered
<1>5. CASE SettleTransfer(o, failed)
  <2>1. /\ Forwards(o) = {} /\ recv' = recv /\ inflight' = inflight
        /\ bank' = IF failed THEN Received(bank, o.chan, o.denom, o.amount) ELSE bank
    BY <1>5 DEF SettleTransfer
  <2>2. Counting'
    BY <1>1, <1>3, <2>1 DEF Counting
  <2>3. Forwarding'
    <3>1. \A f \in inflight : f.out # o.id
      BY <2>1 DEF Forwards
    <3>2. QED
      BY <1>1, <2>1, <3>1 DEF Forwarding, ForwardsExact, Original
  <2>4. Money'
    <3>1. BankOK(bank')
      BY <1>2, <2>1, ReceivedOK DEF Money
    <3>2. ASSUME NEW x \in Channels, NEW y \in Denoms
          PROVE  Gone(bank', x, y) = Beyond(abroad', locked', x, y)
                   + UnderWay(out', x, y) + UnderWay(recv', x, y)
      <4>1. Gone(bank', x, y) = Gone(bank, x, y)
              - (IF failed THEN Move(x, y, o.chan, o.denom, o.amount) ELSE 0)
        <5>1. Gone(bank, x, y) \in Int
          BY MoneyIs
        <5>2. Gone(Received(bank, o.chan, o.denom, o.amount), x, y) =
                Gone(bank, x, y) - Move(x, y, o.chan, o.denom, o.amount)
          BY <1>2, GoneReceived DEF Money, BankOK
        <5>3. QED
          BY <2>1, <5>1, <5>2
      <4> DEFINE m == IF failed THEN Move(x, y, o.chan, o.denom, o.amount) ELSE 0
      <4>2. UnderWay(out', x, y) = UnderWay(out, x, y) - m /\ m \in Int
        BY <1>4
      <4>3. Gone(bank', x, y) = Gone(bank, x, y) - m
        BY <4>1
      <4> HIDE DEF m
      <4>4. QED
        BY <1>1, <2>1, <4>2, <4>3, MoneyIs
    <3>3. QED
      BY <1>1, <3>1, <3>2 DEF Money, Books
  <2>5. QED
    BY <2>2, <2>3, <2>4
<1>6. CASE SettleForward(o, failed)
  <2>0. PICK f \in Forwards(o) : \E p \in Original(f) :
          /\ inflight' = inflight \ {f}
          /\ bank' = IF failed THEN FailedForward(bank, o, p) ELSE bank
          /\ recv' = (recv \ {p}) \cup
                     {[p EXCEPT !.status = IF failed THEN "error" ELSE "ok"]}
    BY <1>6 DEF SettleForward
  <2>1. PICK p \in Original(f) :
          /\ inflight' = inflight \ {f}
          /\ bank' = IF failed THEN FailedForward(bank, o, p) ELSE bank
          /\ recv' = (recv \ {p}) \cup
                     {[p EXCEPT !.status = IF failed THEN "error" ELSE "ok"]}
    BY <2>0
  <2> DEFINE s == IF failed THEN "error" ELSE "ok"
             q == [p EXCEPT !.status = s]
  <2>2. /\ f \in inflight /\ f.out = o.id
        /\ p \in recv /\ p.id = f.in /\ p.status = "waiting"
        /\ o.chan = p.to /\ o.denom = p.denom /\ o.amount = p.amount
    BY OriginalIs
  <2>3. p \in Packet /\ p.chan \in Channels
    BY <2>2 DEF Counting, Numbered, Packet
  <2>4. Restated(p, q) /\ q.status = s
    BY <2>3, StatusIs
  <2>5. recv' = (recv \ {p}) \cup {q}
    BY <2>1
  <2> HIDE DEF q
  <2>6. q \notin recv \ {p} /\ Numbered(recv', nextId) /\ q \in Packet
    BY <2>2, <2>4, <2>5, NumberedStatus DEF Counting, Restated
  <2>7. Counting'
    BY <1>1, <1>3, <2>6 DEF Counting
  <2>8. Forwarding'
    <3>1. /\ \A g \in inflight' : g \in inflight /\ g.in # p.id /\ g.out # o.id
          /\ inflight' \subseteq inflight
      BY <2>1, <2>2 DEF Forwarding, ForwardsExact
    <3>2. \A r \in recv' : r.status = "waiting" => r \in recv /\ r.id # p.id
      BY <2>2, <2>4, <2>5 DEF Counting, Numbered
    <3>3. ASSUME NEW r \in recv', r.status = "waiting"
          PROVE  \E g \in inflight' : g.in = r.id /\ \E u \in out' : u.id = g.out
      <4>1. r \in recv /\ r.id # p.id
        BY <3>2, <3>3
      <4>2. PICK g \in inflight : g.in = r.id /\ \E u \in out : u.id = g.out
        BY <3>3, <4>1 DEF Forwarding, ForwardsExact
      <4>3. g # f
        BY <2>2, <4>1, <4>2
      <4>4. g \in inflight'
        BY <2>1, <4>3
      <4>5. QED
        BY <1>1, <3>1, <4>2, <4>4
    <3>4. ASSUME NEW g \in inflight'
          PROVE  \E r \in Original(g)', u \in out' :
                   /\ r.status = "waiting" /\ u.id = g.out
                   /\ <<u.chan, u.denom, u.amount>> = <<r.to, r.denom, r.amount>>
      <4>1. PICK r \in Original(g), u \in out :
              /\ r.status = "waiting" /\ u.id = g.out
              /\ <<u.chan, u.denom, u.amount>> = <<r.to, r.denom, r.amount>>
        BY <3>1 DEF Forwarding, ForwardsExact
      <4>2. r # p /\ u # o
        BY <3>1, <4>1 DEF Original
      <4>3. r \in Original(g)' /\ u \in out'
        BY <1>1, <2>5, <4>1, <4>2 DEF Original
      <4>4. QED
        BY <4>1, <4>3
    <3>5. QED
      BY <3>1, <3>3, <3>4 DEF Forwarding, ForwardsExact
  <2>9. Money'
    <3>1. BankOK(bank')
      BY <1>2, <2>1, <2>3, PassedOn DEF Money, FailedForward
    <3>2. ASSUME NEW x \in Channels, NEW y \in Denoms
          PROVE  Gone(bank', x, y) = Beyond(abroad', locked', x, y)
                   + UnderWay(out', x, y) + UnderWay(recv', x, y)
      <4> DEFINE m == Move(x, y, o.chan, o.denom, o.amount)
                 k == Move(x, y, p.chan, o.denom, o.amount)
      <4>1. UnderWay(recv', x, y) =
              UnderWay(recv, x, y) - Weight(p, x, y) + Weight(q, x, y)
        BY <2>2, <2>5, <2>6, UnderReplace DEF Counting, Numbered
      <4>2. /\ Weight(p, x, y) = 0 /\ k \in Int /\ m \in Int
            /\ Weight(q, x, y) = IF failed THEN k ELSE 0
        BY <1>2, <2>2, <2>3, <2>4, <2>6, WeightIs DEF Restated
      <4>3. Gone(FailedForward(bank, o, p), x, y) = Gone(bank, x, y) - m + k
        <5>1. bank \in Bank
          BY DEF Money, BankOK
        <5>2. Gone(Sent(Received(bank, o.chan, o.denom, o.amount),
                        p.chan, o.denom, o.amount), x, y) =
                Gone(bank, x, y) - Move(x, y, o.chan, o.denom, o.amount)
                  + Move(x, y, p.chan, o.denom, o.amount)
          BY <1>2, <2>3, <5>1, GonePassedOn
        <5>3. QED
          BY <5>2 DEF FailedForward
      <4> HIDE DEF m, k
      <4>4. UnderWay(out', x, y) = UnderWay(out, x, y) - (IF failed THEN m ELSE 0)
        BY <1>4 DEF m
      <4>5. CASE failed
        <5>1. /\ Gone(bank', x, y) = Gone(bank, x, y) - m + k
              /\ UnderWay(out', x, y) = UnderWay(out, x, y) - m
              /\ UnderWay(recv', x, y) = UnderWay(recv, x, y) - 0 + k
          BY <2>1, <4>1, <4>2, <4>3, <4>4, <4>5
        <5>2. QED
          BY <1>1, <4>2, <5>1, MoneyIs
      <4>6. CASE ~failed
        <5>1. /\ Gone(bank', x, y) = Gone(bank, x, y)
              /\ UnderWay(out', x, y) = UnderWay(out, x, y) - 0
              /\ UnderWay(recv', x, y) = UnderWay(recv, x, y) - 0 + 0
          BY <2>1, <4>1, <4>2, <4>4, <4>6
        <5>2. QED
          BY <1>1, <5>1, MoneyIs
      <4>7. QED
        BY <4>5, <4>6
    <3>3. QED
      BY <1>1, <3>1, <3>2 DEF Money, Books
  <2>10. QED
    BY <2>7, <2>8, <2>9
<1>7. QED
  BY <1>5, <1>6 DEF Settle

\* A timeout of a forward that PFM sends again.
LEMMA RetryStep ==
  ASSUME Parts, NEW o \in out, RetryForward(o)
  PROVE  Parts'
<1> DEFINE x == OutPacket(o.chan, o.denom, o.amount)
           L == Settled(limit, o, TRUE)
           S == out \ {o}
<1> USE DEF Parts
<1>1. PICK f \in Forwards(o) :
        /\ f.retries > 0
        /\ inflight' = (inflight \ {f}) \cup
                       {[out |-> nextId, in |-> f.in, retries |-> f.retries - 1]}
  BY DEF RetryForward
<1>2. /\ o.status = "sent" /\ out' = S \cup {x}
      /\ SendPacket("pfm", L, o.chan, o.denom, o.amount)
      /\ UNCHANGED <<bank, abroad, locked, recv, start, users, resets>>
  BY DEF RetryForward
<1>3. o \in Packet /\ o.chan \in Channels /\ o.denom \in Denoms /\ o.amount \in Amounts
  BY DEF Counting, Numbered, Packet
<1>4. Numbered(S, nextId) /\ LimitOK(L, nextId) /\ UndoOK(S, L)
  BY NumberedRemove, SettledOK DEF Counting
<1>5. nextId \in Nat
  BY DEF Counting
<1> HIDE DEF L, S
<1>6. /\ x \in Packet /\ x \notin S /\ x.id = nextId /\ x.status = "sent"
      /\ x.chan = o.chan /\ x.denom = o.denom /\ x.amount = o.amount
      /\ nextId' = nextId + 1
      /\ Numbered(S \cup {x}, nextId') /\ LimitOK(limit', nextId')
      /\ UndoOK(S \cup {x}, limit')
  BY <1>2, <1>3, <1>4, <1>5, SendCounting
<1> HIDE DEF x
<1>7. Counting'
  <2>1. Numbered(recv, nextId + 1)
    BY NumberedLater DEF Counting
  <2>2. QED
    BY <1>2, <1>6, <2>1 DEF Counting
<1> DEFINE g == [out |-> nextId, in |-> f.in, retries |-> f.retries - 1]
<1>8. /\ f \in inflight /\ f.out = o.id
      /\ g \in [out : Nat, in : Nat, retries : Nat]
      /\ g.in = f.in /\ g.out = nextId
  <2>1. f \in inflight /\ f.out = o.id
    BY DEF Forwards
  <2>2. f \in [out : Nat, in : Nat, retries : Nat]
    BY <2>1 DEF Forwarding
  <2>3. f.retries - 1 \in Nat
    BY <1>1, <2>2
  <2>4. QED
    BY <1>5, <2>1, <2>2, <2>3
<1>9. inflight' = (inflight \ {f}) \cup {g}
  BY <1>1
<1> HIDE DEF g
<1>10. Forwarding'
  <2>1. \A u \in out : u.id < nextId /\ u.id \in Nat
    BY DEF Counting, Numbered, Packet
  <2>2. \A h \in inflight : h.out # nextId
    <3>1. \A h \in inflight : \E u \in out : u.id = h.out
      BY DEF Forwarding, ForwardsExact
    <3>2. QED
      BY <1>5, <2>1, <3>1
  <2>3. \A h, k \in inflight : h.in = k.in \/ h.out = k.out => h = k
    BY DEF Forwarding, ForwardsExact
  <2>4. \A h, k \in inflight' : h.in = k.in \/ h.out = k.out => h = k
    <3>1. \A h \in inflight \ {f} : h.in # g.in /\ h.out # g.out
      BY <1>8, <2>2, <2>3
    <3>2. QED
      BY <1>9, <2>3, <3>1
  <2>5. ASSUME NEW r \in recv', r.status = "waiting"
        PROVE  \E h \in inflight' : h.in = r.id /\ \E u \in out' : u.id = h.out
    <3>1. PICK h \in inflight : h.in = r.id /\ \E u \in out : u.id = h.out
      BY <1>2, <2>5 DEF Forwarding, ForwardsExact
    <3>2. CASE h = f
      BY <1>2, <1>6, <1>8, <1>9, <3>1, <3>2
    <3>3. CASE h # f
      <4>1. h \in inflight' /\ h.out # o.id
        BY <1>8, <1>9, <2>3, <3>3
      <4>2. QED
        BY <1>2, <3>1, <4>1 DEF S
    <3>4. QED
      BY <3>2, <3>3
  <2>6. ASSUME NEW h \in inflight'
        PROVE  \E r \in Original(h)', u \in out' :
                 /\ r.status = "waiting" /\ u.id = h.out
                 /\ <<u.chan, u.denom, u.amount>> = <<r.to, r.denom, r.amount>>
    <3>1. CASE h = g
      <4>1. PICK r \in Original(f), u \in out :
              /\ r.status = "waiting" /\ u.id = f.out
              /\ <<u.chan, u.denom, u.amount>> = <<r.to, r.denom, r.amount>>
        BY <1>8 DEF Forwarding, ForwardsExact
      <4>2. u = o
        BY <1>8, <4>1 DEF Counting, Numbered
      <4>3. r \in Original(h)'
        BY <1>2, <1>8, <3>1, <4>1 DEF Original
      <4>4. QED
        BY <1>2, <1>6, <1>8, <3>1, <4>1, <4>2, <4>3
    <3>2. CASE h # g
      <4>1. h \in inflight /\ h # f
        BY <1>9, <3>2
      <4>2. PICK r \in Original(h), u \in out :
              /\ r.status = "waiting" /\ u.id = h.out
              /\ <<u.chan, u.denom, u.amount>> = <<r.to, r.denom, r.amount>>
        BY <4>1 DEF Forwarding, ForwardsExact
      <4>3. u # o
        BY <1>8, <2>3, <4>1, <4>2
      <4>4. r \in Original(h)' /\ u \in out'
        BY <1>2, <4>2, <4>3 DEF Original, S
      <4>5. QED
        BY <4>2, <4>4
    <3>3. QED
      BY <3>1, <3>2
  <2>7. inflight' \subseteq [out : Nat, in : Nat, retries : Nat]
    BY <1>8, <1>9 DEF Forwarding
  <2>8. QED
    BY <2>4, <2>5, <2>6, <2>7 DEF Forwarding, ForwardsExact
<1>11. Money'
  <2>1. ASSUME NEW e \in Channels, NEW y \in Denoms
        PROVE  UnderWay(out', e, y) = UnderWay(out, e, y)
    <3>1. UnderWay(S, e, y) = UnderWay(out, e, y) - Weight(o, e, y)
      BY UnderRemove DEF Counting, Numbered, S
    <3>2. UnderWay(out', e, y) = UnderWay(S, e, y) + Weight(x, e, y)
      BY <1>2, <1>4, <1>6, UnderAdd DEF Numbered
    <3>3. Weight(x, e, y) = Weight(o, e, y) /\ Weight(o, e, y) \in Int
      BY <1>2, <1>3, <1>6, WeightIs
    <3>4. UnderWay(out, e, y) \in Int
      BY MoneyIs
    <3>5. QED
      BY <3>1, <3>2, <3>3, <3>4
  <2>2. QED
    BY <1>2, <2>1 DEF Money, Books
<1>12. QED
  BY <1>7, <1>10, <1>11

\* Enoki answers a packet.
LEMMA AnsweredIs ==
  ASSUME Counting, NEW p \in recv, NEW s \in {"sent", "waiting", "ok", "error"},
         Answered(p, s),
         NEW q, q = [p EXCEPT !.status = s]
  PROVE  /\ p \in Packet /\ q \in Packet /\ p.chan \in Channels /\ p.denom \in Denoms
         /\ p.amount \in Amounts /\ p.amount \in Nat
         /\ recv' = (recv \ {p}) \cup {q} /\ q \notin recv \ {p}
         /\ q.id = p.id /\ q.chan = p.chan /\ q.denom = p.denom
         /\ q.amount = p.amount /\ q.to = p.to /\ q.status = s
         /\ Numbered(recv', nextId)
         /\ \A x \in Channels, y \in Denoms :
              UnderWay(recv', x, y) =
                UnderWay(recv, x, y) - Weight(p, x, y) + Weight(q, x, y)
<1>1. /\ p \in Packet /\ p.chan \in Channels /\ p.denom \in Denoms
      /\ p.amount \in Amounts /\ p.amount \in Nat
  BY AmountType DEF Counting, Numbered, Packet
<1>2. Restated(p, q) /\ q.status = s
  BY <1>1, StatusIs
<1>3. recv' = (recv \ {p}) \cup {q}
  BY DEF Answered
<1>4. q \notin recv \ {p} /\ Numbered(recv', nextId) /\ q \in Packet
  BY <1>2, <1>3, NumberedStatus DEF Counting, Restated
<1>5. ASSUME NEW x \in Channels, NEW y \in Denoms
      PROVE  UnderWay(recv', x, y) =
                UnderWay(recv, x, y) - Weight(p, x, y) + Weight(q, x, y)
  BY <1>3, <1>4, UnderReplace DEF Counting, Numbered
<1>6. QED
  BY <1>1, <1>2, <1>3, <1>4, <1>5 DEF Restated

\* A packet that does not wait for a forward is settled without one.
LEMMA ForwardingAnswered ==
  ASSUME Counting, Forwarding, NEW p \in recv, p.status # "waiting",
         \A r \in recv' : r.status = "waiting" => r \in recv,
         recv \ {p} \subseteq recv', out' = out, inflight' = inflight
  PROVE  Forwarding'
<1>1. ASSUME NEW h \in inflight'
      PROVE  \E r \in Original(h)', u \in out' :
               /\ r.status = "waiting" /\ u.id = h.out
               /\ <<u.chan, u.denom, u.amount>> = <<r.to, r.denom, r.amount>>
  <2>1. PICK r \in Original(h), u \in out :
          /\ r.status = "waiting" /\ u.id = h.out
          /\ <<u.chan, u.denom, u.amount>> = <<r.to, r.denom, r.amount>>
    BY DEF Forwarding, ForwardsExact
  <2>2. r \in Original(h)'
    BY <2>1 DEF Original
  <2>3. QED
    BY <2>1, <2>2
<1>2. QED
  BY <1>1 DEF Forwarding, ForwardsExact

\* A packet refused with an error acknowledgement.
LEMMA RefuseStep ==
  ASSUME Parts, NEW p \in recv, p.status = "sent", Refuse(p)
  PROVE  Parts'
<1> DEFINE q == [p EXCEPT !.status = "error"]
<1> USE DEF Parts
<1>1. /\ Answered(p, "error")
      /\ UNCHANGED <<bank, abroad, locked, out, inflight, limit, start, nextId, users, resets>>
  BY DEF Refuse
<1>2. /\ p \in Packet /\ q \in Packet
      /\ recv' = (recv \ {p}) \cup {q}
      /\ q.chan = p.chan /\ q.denom = p.denom /\ q.amount = p.amount
      /\ q.status = "error" /\ Numbered(recv', nextId)
      /\ \A x \in Channels, y \in Denoms :
           UnderWay(recv', x, y) =
             UnderWay(recv, x, y) - Weight(p, x, y) + Weight(q, x, y)
  BY <1>1, AnsweredIs
<1> HIDE DEF q
<1>3. Counting'
  BY <1>1, <1>2 DEF Counting
<1>4. Forwarding'
  BY <1>1, <1>2, ForwardingAnswered
<1>5. Money'
  <2>1. ASSUME NEW x \in Channels, NEW y \in Denoms
        PROVE  UnderWay(recv', x, y) = UnderWay(recv, x, y)
    <3>1. Weight(p, x, y) = Weight(q, x, y) /\ Weight(p, x, y) \in Int
      BY <1>2, WeightIs
    <3>2. UnderWay(recv', x, y) =
            UnderWay(recv, x, y) - Weight(p, x, y) + Weight(p, x, y)
      BY <1>2, <3>1
    <3>3. UnderWay(recv, x, y) \in Int
      BY MoneyIs
    <3>4. QED
      BY <3>1, <3>2, <3>3
  <2>2. QED
    BY <1>1, <2>1 DEF Money, Books
<1>6. QED
  BY <1>3, <1>4, <1>5

\* A packet for a user of Enoki.
LEMMA ReceiveTransferStep ==
  ASSUME Parts, NEW p \in recv, ReceiveTransfer(p)
  PROVE  Parts'
<1> DEFINE q == [p EXCEPT !.status = "ok"]
<1> USE DEF Parts
<1>1. /\ Answered(p, "ok") /\ p.status = "sent"
      /\ limit' = CountIn(limit, p.chan, p.denom, p.amount)
      /\ bank' = Received(bank, p.chan, p.denom, p.amount)
      /\ UNCHANGED <<abroad, locked, out, inflight, start, nextId, users, resets>>
  BY DEF ReceiveTransfer
<1>2. /\ p \in Packet /\ q \in Packet /\ p.chan \in Channels /\ p.denom \in Denoms
      /\ p.amount \in Nat
      /\ recv' = (recv \ {p}) \cup {q}
      /\ q.chan = p.chan /\ q.denom = p.denom /\ q.amount = p.amount
      /\ q.status = "ok" /\ Numbered(recv', nextId)
      /\ \A x \in Channels, y \in Denoms :
           UnderWay(recv', x, y) =
             UnderWay(recv, x, y) - Weight(p, x, y) + Weight(q, x, y)
  BY <1>1, AnsweredIs
<1> HIDE DEF q
<1>3. Counting'
  <2>1. LimitOK(limit', nextId) /\ UndoOK(out, limit')
    BY <1>1, <1>2, CountInOK DEF Counting
  <2>2. QED
    BY <1>1, <1>2, <2>1 DEF Counting
<1>4. Forwarding'
  BY <1>1, <1>2, ForwardingAnswered
<1>5. Money'
  <2>1. BankOK(bank')
    BY <1>1, <1>2, ReceivedOK DEF Money
  <2>2. ASSUME NEW x \in Channels, NEW y \in Denoms
        PROVE  Gone(bank', x, y) = Beyond(abroad', locked', x, y)
                 + UnderWay(out', x, y) + UnderWay(recv', x, y)
    <3> DEFINE m == Move(x, y, p.chan, p.denom, p.amount)
    <3>1. Gone(bank', x, y) = Gone(bank, x, y) - m
      BY <1>1, <1>2, GoneReceived DEF Money, BankOK
    <3>2. Weight(p, x, y) = m /\ Weight(q, x, y) = 0 /\ m \in Int
      BY <1>1, <1>2, WeightIs
    <3> HIDE DEF m
    <3>3. UnderWay(recv', x, y) = UnderWay(recv, x, y) - m + 0
      BY <1>2, <3>2
    <3>4. QED
      BY <1>1, <3>1, <3>2, <3>3, MoneyIs
  <2>3. QED
    BY <1>1, <2>1, <2>2 DEF Money, Books
<1>6. QED
  BY <1>3, <1>4, <1>5

\* A packet that PFM passes on.
LEMMA ReceiveForwardStep ==
  ASSUME Parts, NEW p \in recv, ReceiveForward(p)
  PROVE  Parts'
<1> DEFINE q == [p EXCEPT !.status = "waiting"]
           x == OutPacket(p.to, p.denom, p.amount)
           L == CountIn(limit, p.chan, p.denom, p.amount)
           g == [out |-> nextId, in |-> p.id, retries |-> p.retries]
<1> USE DEF Parts
<1>1. /\ Answered(p, "waiting") /\ p.status = "sent" /\ p.to # None
      /\ SendPacket("pfm", L, p.to, p.denom, p.amount)
      /\ bank' = Sent(Received(bank, p.chan, p.denom, p.amount),
                      p.to, p.denom, p.amount)
      /\ out' = out \cup {x} /\ inflight' = inflight \cup {g}
      /\ UNCHANGED <<abroad, locked, start, users, resets>>
  BY DEF ReceiveForward
<1>2. /\ p \in Packet /\ q \in Packet /\ p.chan \in Channels /\ p.denom \in Denoms
      /\ p.amount \in Amounts /\ p.amount \in Nat
      /\ recv' = (recv \ {p}) \cup {q} /\ q.id = p.id
      /\ q.chan = p.chan /\ q.denom = p.denom /\ q.amount = p.amount
      /\ q.to = p.to /\ q.status = "waiting" /\ Numbered(recv', nextId)
      /\ \A e \in Channels, y \in Denoms :
           UnderWay(recv', e, y) =
             UnderWay(recv, e, y) - Weight(p, e, y) + Weight(q, e, y)
  BY <1>1, AnsweredIs
<1> HIDE DEF q
<1>3. p.to \in Channels /\ p.id \in Nat /\ p.retries \in Nat
  BY <1>1, <1>2 DEF Packet
<1>4. nextId \in Nat /\ LimitOK(L, nextId) /\ UndoOK(out, L) /\ Numbered(out, nextId)
  BY <1>2, CountInOK DEF Counting
<1> HIDE DEF L
<1>5. /\ x \in Packet /\ x \notin out /\ x.id = nextId /\ x.status = "sent"
      /\ x.chan = p.to /\ x.denom = p.denom /\ x.amount = p.amount
      /\ nextId' = nextId + 1
      /\ Numbered(out', nextId') /\ LimitOK(limit', nextId') /\ UndoOK(out', limit')
  <2>1. SendPacket("pfm", L, p.to, p.denom, p.amount)
    BY <1>1
  <2>2. /\ x \in Packet /\ x \notin out /\ x.id = nextId /\ x.status = "sent"
        /\ x.chan = p.to /\ x.denom = p.denom /\ x.amount = p.amount
        /\ nextId' = nextId + 1
        /\ Numbered(out \cup {x}, nextId') /\ LimitOK(limit', nextId')
        /\ UndoOK(out \cup {x}, limit')
    BY <1>2, <1>3, <1>4, <2>1, SendCounting
  <2>3. QED
    BY <1>1, <2>2
<1> HIDE DEF x
<1>6. Counting'
  <2>1. Numbered(recv', nextId')
    BY <1>2, <1>4, <1>5, NumberedLater
  <2>2. QED
    BY <1>1, <1>4, <1>5, <2>1 DEF Counting
<1>7. g \in [out : Nat, in : Nat, retries : Nat] /\ g.out = nextId /\ g.in = p.id
  BY <1>3, <1>4
<1> HIDE DEF g
<1>8. Forwarding'
  <2>1. \A h \in inflight : h.out # nextId
    <3>1. \A u \in out : u.id < nextId /\ u.id \in Nat
      BY <1>4 DEF Numbered, Packet
    <3>2. \A h \in inflight : \E u \in out : u.id = h.out
      BY DEF Forwarding, ForwardsExact
    <3>3. QED
      BY <1>4, <3>1, <3>2
  <2>2. \A h \in inflight : h.in # p.id
    <3>1. SUFFICES ASSUME NEW h \in inflight, h.in = p.id PROVE FALSE
      OBVIOUS
    <3>2. PICK r \in Original(h) : r.status = "waiting"
      BY DEF Forwarding, ForwardsExact
    <3>3. r = p
      BY <3>1, <3>2 DEF Original, Counting, Numbered
    <3>4. QED
      BY <1>1, <3>2, <3>3
  <2>3. \A h, k \in inflight' : h.in = k.in \/ h.out = k.out => h = k
    <3>1. \A h, k \in inflight : h.in = k.in \/ h.out = k.out => h = k
      BY DEF Forwarding, ForwardsExact
    <3>2. QED
      BY <1>1, <1>7, <2>1, <2>2, <3>1
  <2>4. ASSUME NEW r \in recv', r.status = "waiting"
        PROVE  \E h \in inflight' : h.in = r.id /\ \E u \in out' : u.id = h.out
    <3>1. CASE r = q
      BY <1>1, <1>2, <1>5, <1>7, <3>1
    <3>2. CASE r # q
      <4>1. r \in recv
        BY <1>2, <3>2
      <4>2. PICK h \in inflight : h.in = r.id /\ \E u \in out : u.id = h.out
        BY <2>4, <4>1 DEF Forwarding, ForwardsExact
      <4>3. QED
        BY <1>1, <4>2
    <3>3. QED
      BY <3>1, <3>2
  <2>5. ASSUME NEW h \in inflight'
        PROVE  \E r \in Original(h)', u \in out' :
                 /\ r.status = "waiting" /\ u.id = h.out
                 /\ <<u.chan, u.denom, u.amount>> = <<r.to, r.denom, r.amount>>
    <3>1. CASE h = g
      <4>1. q \in Original(h)' /\ x \in out'
        BY <1>1, <1>2, <1>7, <3>1 DEF Original
      <4>2. QED
        BY <1>2, <1>5, <1>7, <3>1, <4>1
    <3>2. CASE h # g
      <4>1. h \in inflight
        BY <1>1, <3>2
      <4>2. PICK r \in Original(h), u \in out :
              /\ r.status = "waiting" /\ u.id = h.out
              /\ <<u.chan, u.denom, u.amount>> = <<r.to, r.denom, r.amount>>
        BY <4>1 DEF Forwarding, ForwardsExact
      <4>3. r \in Original(h)' /\ u \in out'
        BY <1>1, <1>2, <4>2 DEF Original
      <4>4. QED
        BY <4>2, <4>3
    <3>3. QED
      BY <3>1, <3>2
  <2>6. inflight' \subseteq [out : Nat, in : Nat, retries : Nat]
    BY <1>1, <1>7 DEF Forwarding
  <2>7. QED
    BY <2>3, <2>4, <2>5, <2>6 DEF Forwarding, ForwardsExact
<1>9. Money'
  <2>1. BankOK(bank) /\ bank \in Bank
    BY DEF Money, BankOK
  <2>2. BankOK(bank')
    BY <1>1, <1>2, <1>3, <2>1, PassedOn
  <2>3. ASSUME NEW e \in Channels, NEW y \in Denoms
        PROVE  Gone(bank', e, y) = Beyond(abroad', locked', e, y)
                 + UnderWay(out', e, y) + UnderWay(recv', e, y)
    <3> DEFINE m == Move(e, y, p.chan, p.denom, p.amount)
               k == Move(e, y, p.to, p.denom, p.amount)
    <3>1. Gone(bank', e, y) = Gone(bank, e, y) - m + k
      BY <1>1, <1>2, <1>3, <2>1, GonePassedOn
    <3>2. Weight(p, e, y) = m /\ Weight(q, e, y) = 0 /\ m \in Int
      BY <1>1, <1>2, WeightIs
    <3>3. Weight(x, e, y) = k /\ k \in Int
      BY <1>5, WeightIs
    <3> HIDE DEF m, k
    <3>4. UnderWay(recv', e, y) = UnderWay(recv, e, y) - m + 0
      BY <1>2, <3>2
    <3>5. UnderWay(out', e, y) = UnderWay(out, e, y) + k
      BY <1>1, <1>4, <1>5, <3>3, UnderAdd DEF Numbered
    <3>6. QED
      BY <1>1, <3>1, <3>2, <3>3, <3>4, <3>5, MoneyIs
  <2>4. QED
    BY <1>1, <2>2, <2>3 DEF Money, Books
<1>10. QED
  BY <1>6, <1>8, <1>9

\* A user of another chain sends.
LEMMA RemoteSendStep ==
  ASSUME Parts, NEW c \in Channels, NEW d \in Denoms, NEW a \in Amounts,
         NEW to \in Destinations, NEW r \in Retries, RemoteSend(c, d, a, to, r)
  PROVE  Parts'
<1> DEFINE x == [id |-> nextId, chan |-> c, denom |-> d, amount |-> a,
                 status |-> "sent", to |-> to, retries |-> r]
<1> USE DEF Parts
<1>1. /\ users' = users + 1 /\ abroad[c][d] >= a /\ RemoteSent(c, d, a)
      /\ recv' = recv \cup {x} /\ nextId' = nextId + 1
      /\ UNCHANGED <<bank, out, inflight, limit, start, resets>>
  BY DEF RemoteSend
<1>2. /\ x \in Packet /\ x.id = nextId /\ x.status = "sent"
      /\ x.chan = c /\ x.denom = d /\ x.amount = a /\ a \in Nat /\ nextId \in Nat
  BY TransferAssumption DEF Packet, Counting
<1> HIDE DEF x
<1>3. Numbered(recv', nextId') /\ x \notin recv /\ Numbered(out, nextId')
  BY <1>1, <1>2, NumberedAdd, NumberedLater DEF Counting
<1>4. Counting'
  <2>1. LimitOK(limit, nextId + 1)
    BY <1>2, NotCounted DEF Counting
  <2>2. QED
    BY <1>1, <1>2, <1>3, <2>1 DEF Counting
<1>5. Forwarding'
  <2>1. /\ recv \subseteq recv'
        /\ \A p \in recv' : p.status = "waiting" => p \in recv
    BY <1>1, <1>2
  <2>2. QED
    BY <1>1, <2>1 DEF Forwarding, ForwardsExact, Original
<1>6. Money'
  <2>1. Remote(abroad, locked)
    BY DEF Money, Remote
  <2>2. /\ Remote(abroad', locked')
        /\ \A e \in Channels, y \in Denoms :
             /\ Beyond(abroad', locked', e, y) =
                  Beyond(abroad, locked, e, y) - Move(e, y, c, d, a)
             /\ abroad'[e][y] = abroad[e][y] - Move(e, y, c, d, a)
    BY <1>1, <1>2, <2>1, BeyondSent
  <2>3. \A e \in Channels, y \in Denoms : abroad'[e][y] \in Nat
    <3>1. \A e \in Channels, y \in Denoms : abroad[e][y] \in Nat
      BY DEF Money
    <3>2. QED
      BY <1>1, <1>2, <2>2, <3>1 DEF Move
  <2>4. abroad' \in [Channels -> [Denoms -> Nat]] /\ locked' \in [Channels -> Int]
    <3>1. \A e \in Channels : abroad'[e] \in [Denoms -> Nat]
      BY <2>2, <2>3 DEF Remote
    <3>2. QED
      BY <2>2, <3>1 DEF Remote
  <2>5. ASSUME NEW e \in Channels, NEW y \in Denoms
        PROVE  Gone(bank', e, y) = Beyond(abroad', locked', e, y)
                 + UnderWay(out', e, y) + UnderWay(recv', e, y)
    <3> DEFINE m == Move(e, y, c, d, a)
    <3>1. Weight(x, e, y) = m /\ m \in Int
      BY <1>2, WeightIs
    <3>2. Beyond(abroad', locked', e, y) = Beyond(abroad, locked, e, y) - m
      BY <2>2
    <3> HIDE DEF m
    <3>3. UnderWay(recv', e, y) = UnderWay(recv, e, y) + m
      BY <1>1, <1>2, <1>3, <3>1, UnderAdd DEF Counting, Numbered
    <3>4. QED
      BY <1>1, <3>1, <3>2, <3>3, MoneyIs
  <2>6. QED
    BY <1>1, <2>4, <2>5 DEF Money, Books
<1>7. QED
  BY <1>4, <1>5, <1>6

\* The other chain's books after tokens come in there.
LEMMA RemoteReceivedIs ==
  ASSUME Money, NEW c \in Channels, NEW d \in Denoms, NEW a \in Nat,
         RemoteReceived(c, d, a)
  PROVE  /\ abroad' \in [Channels -> [Denoms -> Nat]] /\ locked' \in [Channels -> Int]
         /\ \A e \in Channels, y \in Denoms :
              Beyond(abroad', locked', e, y) =
                Beyond(abroad, locked, e, y) + Move(e, y, c, d, a)
<1>1. Remote(abroad, locked)
  BY DEF Money, Remote
<1>2. /\ Remote(abroad', locked')
      /\ \A e \in Channels, y \in Denoms :
           /\ Beyond(abroad', locked', e, y) =
                Beyond(abroad, locked, e, y) + Move(e, y, c, d, a)
           /\ abroad'[e][y] = abroad[e][y] + Move(e, y, c, d, a)
  BY <1>1, BeyondReceived
<1>3. \A e \in Channels, y \in Denoms : abroad'[e][y] \in Nat
  <2>1. \A e \in Channels, y \in Denoms : abroad[e][y] \in Nat
    BY DEF Money
  <2>2. QED
    BY <1>2, <2>1 DEF Move
<1>4. \A e \in Channels : abroad'[e] \in [Denoms -> Nat]
  BY <1>2, <1>3 DEF Remote
<1>5. QED
  BY <1>2, <1>4 DEF Remote

\* Another chain receives or refuses.
LEMMA RemoteRecvStep ==
  ASSUME Parts, NEW o \in out, RemoteRecv(o)
  PROVE  Parts'
<1> USE DEF Parts
<1>1. o.status = "sent" /\ UNCHANGED <<bank, recv, inflight, limit, start, nextId, users, resets>>
  BY DEF RemoteRecv
<1>2. PICK s \in {"ok", "error"} :
        /\ out' = (out \ {o}) \cup {[o EXCEPT !.status = s]}
        /\ IF s = "ok" THEN RemoteReceived(o.chan, o.denom, o.amount)
           ELSE UNCHANGED <<abroad, locked>>
  BY DEF RemoteRecv
<1> DEFINE q == [o EXCEPT !.status = s]
<1>3. o \in Packet /\ o.chan \in Channels /\ o.denom \in Denoms /\ o.amount \in Nat
  BY AmountType DEF Counting, Numbered, Packet
<1>4. Restated(o, q) /\ q.status = s
  BY <1>3, StatusIs
<1>5. out' = (out \ {o}) \cup {q}
  BY <1>2
<1> HIDE DEF q
<1>6. q \notin out \ {o} /\ Numbered(out', nextId) /\ q \in Packet
  BY <1>4, <1>5, NumberedStatus DEF Counting, Restated
<1>7. Counting'
  <2>1. UndoOK(out', limit)
    BY <1>4, <1>5, UndoStatus DEF Counting
  <2>2. QED
    BY <1>1, <1>6, <2>1 DEF Counting
<1>8. Forwarding'
  <2>1. \A u \in out : \E v \in out' :
          v.id = u.id /\ v.chan = u.chan /\ v.denom = u.denom /\ v.amount = u.amount
    BY <1>4, <1>5 DEF Restated
  <2>2. ASSUME NEW h \in inflight
        PROVE  \E r \in Original(h)', v \in out' :
                 /\ r.status = "waiting" /\ v.id = h.out
                 /\ <<v.chan, v.denom, v.amount>> = <<r.to, r.denom, r.amount>>
    <3>1. PICK r \in Original(h), u \in out :
            /\ r.status = "waiting" /\ u.id = h.out
            /\ <<u.chan, u.denom, u.amount>> = <<r.to, r.denom, r.amount>>
      BY DEF Forwarding, ForwardsExact
    <3>2. r \in Original(h)'
      BY <1>1 DEF Original
    <3>3. QED
      BY <2>1, <3>1, <3>2
  <2>3. ASSUME NEW p \in recv, p.status = "waiting"
        PROVE  \E h \in inflight : h.in = p.id /\ \E v \in out' : v.id = h.out
    <3>1. PICK h \in inflight : h.in = p.id /\ \E u \in out : u.id = h.out
      BY <2>3 DEF Forwarding, ForwardsExact
    <3>2. QED
      BY <2>1, <3>1
  <2>4. QED
    BY <1>1, <2>2, <2>3 DEF Forwarding, ForwardsExact
<1>9. Money'
  <2> DEFINE mv(e, y) == IF s = "ok" THEN Move(e, y, o.chan, o.denom, o.amount) ELSE 0
  <2>1. /\ abroad' \in [Channels -> [Denoms -> Nat]] /\ locked' \in [Channels -> Int]
        /\ \A e \in Channels, y \in Denoms :
             Beyond(abroad', locked', e, y) = Beyond(abroad, locked, e, y) + mv(e, y)
    <3>1. CASE s = "ok"
      BY <1>2, <1>3, <3>1, RemoteReceivedIs
    <3>2. CASE s # "ok"
      <4>1. abroad' = abroad /\ locked' = locked
        BY <1>2, <3>2
      <4>2. \A e \in Channels, y \in Denoms : Beyond(abroad, locked, e, y) \in Int
        BY MoneyIs
      <4>3. QED
        BY <3>2, <4>1, <4>2 DEF Money
    <3>3. QED
      BY <3>1, <3>2
  <2>2. ASSUME NEW e \in Channels, NEW y \in Denoms
        PROVE  Gone(bank', e, y) = Beyond(abroad', locked', e, y)
                 + UnderWay(out', e, y) + UnderWay(recv', e, y)
    <3> DEFINE m == Move(e, y, o.chan, o.denom, o.amount)
    <3>1. /\ Weight(o, e, y) = m /\ m \in Int
          /\ Weight(q, e, y) = IF s = "ok" THEN 0 ELSE m
      BY <1>1, <1>3, <1>4, <1>6, WeightIs DEF Restated
    <3>2. Beyond(abroad', locked', e, y) =
            Beyond(abroad, locked, e, y) + (IF s = "ok" THEN m ELSE 0)
      BY <2>1
    <3> HIDE DEF m
    <3>3. UnderWay(out', e, y) =
            UnderWay(out, e, y) - Weight(o, e, y) + Weight(q, e, y)
      BY <1>5, <1>6, UnderReplace DEF Counting, Numbered
    <3>4. UnderWay(out', e, y) = UnderWay(out, e, y) - m + (IF s = "ok" THEN 0 ELSE m)
      BY <3>1, <3>3
    <3>5. CASE s = "ok"
      BY <1>1, <3>1, <3>2, <3>4, <3>5, MoneyIs
    <3>6. CASE s # "ok"
      BY <1>1, <3>1, <3>2, <3>4, <3>6, MoneyIs
    <3>7. QED
      BY <3>5, <3>6
  <2>3. QED
    BY <1>1, <2>1, <2>2 DEF Money, Books
<1>10. QED
  BY <1>7, <1>8, <1>9

\* Another chain learns the outcome.
LEMMA RemoteSettleStep ==
  ASSUME Parts, NEW p \in recv, RemoteSettle(p)
  PROVE  Parts'
<1> USE DEF Parts
<1>1. /\ p.status # "waiting" /\ recv' = recv \ {p}
      /\ IF p.status = "ok" THEN UNCHANGED <<abroad, locked>>
         ELSE RemoteReceived(p.chan, p.denom, p.amount)
      /\ UNCHANGED <<bank, out, inflight, limit, start, nextId, users, resets>>
  BY DEF RemoteSettle
<1>2. /\ p \in Packet /\ p.chan \in Channels /\ p.denom \in Denoms /\ p.amount \in Nat
      /\ p.status \in {"sent", "ok", "error"}
  BY <1>1, AmountType DEF Counting, Numbered, Packet
<1>3. Counting'
  <2>1. Numbered(recv', nextId)
    BY <1>1, NumberedRemove DEF Counting
  <2>2. QED
    BY <1>1, <2>1 DEF Counting
<1>4. Forwarding'
  BY <1>1, ForwardingAnswered
<1>5. Money'
  <2> DEFINE mv(e, y) ==
        IF p.status = "ok" THEN 0 ELSE Move(e, y, p.chan, p.denom, p.amount)
  <2>1. /\ abroad' \in [Channels -> [Denoms -> Nat]] /\ locked' \in [Channels -> Int]
        /\ \A e \in Channels, y \in Denoms :
             Beyond(abroad', locked', e, y) = Beyond(abroad, locked, e, y) + mv(e, y)
    <3>1. CASE p.status # "ok"
      BY <1>1, <1>2, <3>1, RemoteReceivedIs
    <3>2. CASE p.status = "ok"
      <4>1. abroad' = abroad /\ locked' = locked
        BY <1>1, <3>2
      <4>2. \A e \in Channels, y \in Denoms : Beyond(abroad, locked, e, y) \in Int
        BY MoneyIs
      <4>3. QED
        BY <3>2, <4>1, <4>2 DEF Money
    <3>3. QED
      BY <3>1, <3>2
  <2>2. ASSUME NEW e \in Channels, NEW y \in Denoms
        PROVE  Gone(bank', e, y) = Beyond(abroad', locked', e, y)
                 + UnderWay(out', e, y) + UnderWay(recv', e, y)
    <3> DEFINE m == mv(e, y)
    <3>1. Weight(p, e, y) = m /\ m \in Int
      BY <1>2, WeightIs
    <3>2. Beyond(abroad', locked', e, y) = Beyond(abroad, locked, e, y) + m
      BY <2>1
    <3> HIDE DEF m
    <3>3. UnderWay(recv', e, y) = UnderWay(recv, e, y) - m
      BY <1>1, <3>1, UnderRemove DEF Counting, Numbered
    <3>4. QED
      BY <1>1, <3>1, <3>2, <3>3, MoneyIs
  <2>3. QED
    BY <1>1, <2>1, <2>2 DEF Money, Books
<1>6. QED
  BY <1>3, <1>4, <1>5

\* The begin-blocker of the rate limit opens a window.
LEMMA ResetWindowStep ==
  ASSUME Parts, NEW c \in Limited, ResetWindow(c)
  PROVE  Parts'
<1> USE DEF Parts
<1>1. /\ resets' = resets + 1 /\ limit' = NewWindow(limit, c)
      /\ start' = [start EXCEPT ![c] = bank.escrow[c][Native]]
      /\ UNCHANGED <<bank, abroad, locked, out, recv, inflight, nextId, users>>
  BY DEF ResetWindow
<1>2. bank.escrow[c][Native] \in Nat
  <2>1. c \in Channels /\ Native \in Denoms
    BY TransferAssumption DEF Denoms
  <2>2. bank.escrow \in [Channels -> [Denoms -> Nat]]
    BY PartsMeaning DEF TransferInv, TypeOK
  <2>3. QED
    BY <2>1, <2>2
<1>3. Counting'
  <2>1. LimitOK(limit', nextId) /\ UndoOK(out, limit')
    BY <1>1, NewWindowOK DEF Counting
  <2>2. start' \in [Channels -> Nat]
    BY <1>1, <1>2 DEF Counting
  <2>3. QED
    BY <1>1, <2>1, <2>2 DEF Counting
<1>4. Forwarding'
  BY <1>1 DEF Forwarding, ForwardsExact, Original
<1>5. Money'
  BY <1>1 DEF Money
<1>6. QED
  BY <1>3, <1>4, <1>5

---------------------------------------------------------------------------
(* The theorems. *)

\* The parts hold before anything was sent.
LEMMA InitParts == Init => Parts
<1> SUFFICES ASSUME Init PROVE Parts
  OBVIOUS
<1> USE DEF Init
<1>1. /\ out = {} /\ recv = {} /\ inflight = {} /\ nextId = 1
      /\ users = 0 /\ resets = 0 /\ Seed \in Nat
  BY TransferAssumption
<1>2. Counting
  <2>1. Numbered({}, 1)
    BY FS_EmptySet DEF Numbered
  <2>2. LimitOK(limit, 1)
    BY DEF LimitOK
  <2>3. UndoOK(out, limit)
    <3>1. \A c : Undoable(out, limit, c) = {}
      BY DEF Undoable
    <3>2. Total({}) = 0
      BY TotalIs, SumEmpty, FS_EmptySet
    <3>3. \A c \in Limited : limit.out[c] = 0
      BY TransferAssumption
    <3>4. \A c \in Limited : Total(Undoable(out, limit, c)) <= limit.out[c]
      <4>1. TAKE c \in Limited
      <4>2. Total(Undoable(out, limit, c)) = 0 /\ limit.out[c] = 0
        BY <3>1, <3>2, <3>3
      <4>3. QED
        BY <4>2
    <3>5. QED
      BY <3>4 DEF UndoOK
  <2>4. QED
    BY <1>1, <2>1, <2>2, <2>3 DEF Counting
<1>3. Forwarding
  BY DEF Forwarding, ForwardsExact
<1>4. Money
  <2>1. Channels \subseteq Denoms /\ Native \notin Channels
    BY TransferAssumption DEF Denoms
  <2>2. /\ bank \in Bank
        /\ \A d \in Denoms : bank.held[d] = IF d = Native THEN Seed ELSE 0
        /\ \A c \in Channels, d \in Denoms :
             bank.escrow[c][d] = IF d = Native THEN Seed ELSE 0
    BY <1>1 DEF Bank
  <2>3. BankOK(bank)
    BY <1>1, <2>1, <2>2 DEF BankOK
  <2>4. abroad \in [Channels -> [Denoms -> Nat]] /\ locked \in [Channels -> Int]
    BY <1>1
  <2>5. ASSUME NEW c \in Channels, NEW d \in Denoms
        PROVE  Gone(bank, c, d) = Beyond(abroad, locked, c, d)
                 + UnderWay(out, c, d) + UnderWay(recv, c, d)
    <3>1. UnderWay({}, c, d) = 0
      <4>1. Under({}, c, d) = {}
        BY DEF Under
      <4>2. QED
        BY <4>1, TotalIs, SumEmpty, FS_EmptySet DEF UnderWay
    <3>2. Gone(bank, c, d) = Beyond(abroad, locked, c, d)
      <4>1. CASE d # c
        <5>1. Gone(bank, c, d) = IF d = Native THEN Seed ELSE 0
          BY <2>2, <4>1 DEF Gone
        <5>2. Beyond(abroad, locked, c, d) = IF d = Native THEN Seed ELSE 0
          BY <2>1, <4>1 DEF Beyond
        <5>3. QED
          BY <5>1, <5>2
      <4>2. CASE d = c
        <5>1. InEscrow(bank, c) = 0
          <6> DEFINE f == [e \in Channels |-> bank.escrow[e][c]]
          <6>1. \A e \in Channels : f[e] = 0
            BY <2>1, <2>2
          <6>2. InEscrow(bank, c) = SumFunctionOnSet(f, Channels)
            BY DEF InEscrow, SumFunction
          <6> HIDE DEF f
          <6>3. IsFiniteSet(Channels)
            BY TransferAssumption
          <6>4. SumFunctionOnSet(f, Channels) = 0
            BY <6>1, <6>3, SumZero
          <6>5. QED
            BY <6>2, <6>4
        <5>2. bank.held[c] = 0 /\ locked[c] = 0
          BY <2>1, <2>2
        <5>3. QED
          BY <4>2, <5>1, <5>2 DEF Gone, Beyond
      <4>3. QED
        BY <4>1, <4>2
    <3>3. Beyond(abroad, locked, c, d) \in Int
      BY <2>4, BeyondType DEF Remote
    <3>4. QED
      BY <1>1, <3>1, <3>2, <3>3
  <2>6. QED
    BY <2>3, <2>4, <2>5 DEF Money, Books
<1>5. QED
  BY <1>2, <1>3, <1>4 DEF Parts

\* Every step keeps the parts.
LEMMA NextParts == Parts /\ [Next]_vars => Parts'
<1> SUFFICES ASSUME Parts, [Next]_vars PROVE Parts'
  OBVIOUS
<1>1. CASE UNCHANGED vars
  BY <1>1 DEF vars, Parts, Counting, Forwarding, ForwardsExact, Original, Money
<1>2. CASE \E c \in Channels, d \in Denoms, a \in Amounts : Transfer(c, d, a)
  BY <1>2, TransferStep
<1>3. CASE \E c \in Channels, d \in Denoms, a \in Amounts, to \in Destinations, r \in Retries :
             RemoteSend(c, d, a, to, r)
  BY <1>3, RemoteSendStep
<1>4. CASE \E o \in out : RemoteRecv(o)
  BY <1>4, RemoteRecvStep
<1>5. ASSUME NEW o \in out, AcknowledgePacket(o) PROVE Parts'
  <2>1. (o.status = "error") \in BOOLEAN /\ Settle(o, o.status = "error")
        /\ o.status \in {"ok", "error"}
    BY <1>5 DEF AcknowledgePacket
  <2>2. CASE o.status = "error"
    <3>1. Settle(o, TRUE)
      BY <2>1, <2>2 DEF Settle, SettleForward, SettleTransfer, Settled
    <3>2. QED
      BY <2>2, <3>1, SettleStep
  <2>3. CASE o.status = "ok"
    <3>1. Settle(o, FALSE)
      BY <2>1, <2>3 DEF Settle, SettleForward, SettleTransfer, Settled
    <3>2. QED
      BY <2>3, <3>1, SettleStep
  <2>4. QED
    BY <2>1, <2>2, <2>3
<1>6. ASSUME NEW o \in out, TimeoutPacket(o) PROVE Parts'
  BY <1>6, SettleStep DEF TimeoutPacket
<1>7. CASE \E o \in out : RetryForward(o)
  BY <1>7, RetryStep
<1>8. ASSUME NEW p \in recv, Receive(p) PROVE Parts'
  <2>1. CASE RefuseOverLimit(p)
    BY <2>1, RefuseStep DEF RefuseOverLimit
  <2>2. CASE RefuseBelow(p)
    BY <2>2, RefuseStep DEF RefuseBelow
  <2>3. CASE ReceiveTransfer(p)
    BY <2>3, ReceiveTransferStep
  <2>4. CASE ReceiveForward(p)
    BY <2>4, ReceiveForwardStep
  <2>5. QED
    BY <1>8, <2>1, <2>2, <2>3, <2>4 DEF Receive
<1>9. CASE \E p \in recv : RemoteSettle(p)
  BY <1>9, RemoteSettleStep
<1>10. CASE \E c \in Limited : ResetWindow(c)
  BY <1>10, ResetWindowStep
<1>11. QED
  BY <1>1, <1>2, <1>3, <1>4, <1>5, <1>6, <1>7, <1>8, <1>9, <1>10 DEF Next, Resolve

\* The books of both sides balance, every forward is recorded once and what
\* the rate limit may undo was counted, in every reachable state: whatever the
\* channels, the wiring of the keepers, the order of acknowledgements,
\* timeouts, retries and windows.
THEOREM TransferInvariance == Spec => []TransferInv
<1>1. Init => Parts
  BY InitParts
<1>2. Parts /\ [Next]_vars => Parts'
  BY NextParts
<1>3. Parts => TransferInv
  BY PartsMeaning
<1>4. QED
  BY <1>1, <1>2, <1>3, PTL DEF Spec

\* Every voucher is backed, on Enoki and on the chains it trades with.
THEOREM VouchersAreBacked == Spec => []VouchersBacked
<1>1. TransferInv => VouchersBacked
  BY DEF TransferInv
<1>2. QED
  BY <1>1, TransferInvariance, PTL

\* A forwarded packet is on its way exactly as long as the original one waits.
THEOREM ForwardsAreExact == Spec => []ForwardsExact
<1>1. TransferInv => ForwardsExact
  BY DEF TransferInv
<1>2. QED
  BY <1>1, TransferInvariance, PTL

\* The rate limit never undoes more than it counted in the window.
THEOREM UndoIsCovered == Spec => []UndoCovered
<1>1. TransferInv => UndoCovered
  BY DEF TransferInv
<1>2. QED
  BY <1>1, TransferInvariance, PTL

\* The variables keep their types: no account is ever overdrawn.
THEOREM TransferTypes == Spec => []TypeOK
<1>1. TransferInv => TypeOK
  BY DEF TransferInv
<1>2. QED
  BY <1>1, TransferInvariance, PTL

---------------------------------------------------------------------------
(* The quota, on a chain whose packets ask for no forwarding. *)

\* The stack of the message server contains the rate limit.
LEMMA SendsOfUsersLimited == LimitedFor("msgServer")
<1> DEFINE w == <<"transfer", "callbacks", "pfm", "ratelimit">>
<1>1. SendStack("msgServer") = w
  BY DEF SendStack
<1>2. 4 \in DOMAIN w /\ w[4] = "ratelimit"
  OBVIOUS
<1>3. QED
  BY <1>1, <1>2 DEF LimitedFor, Range

\* What CountedWithin says of the types.
LEMMA FlowTypes ==
  ASSUME Parts, NEW e \in Limited
  PROVE  /\ e \in Channels /\ Native \in Denoms /\ e # Native
         /\ bank \in Bank
         /\ bank.escrow[e][Native] \in Nat /\ start[e] \in Nat
         /\ limit.in[e] \in Nat /\ limit.out[e] \in Nat /\ Quota \in Nat
<1>1. e \in Channels /\ Native \in Denoms /\ e # Native /\ Quota \in Nat
  BY TransferAssumption DEF Denoms
<1>2. TypeOK
  BY PartsMeaning DEF TransferInv
<1>3. bank \in Bank
  BY DEF Parts, Money, BankOK
<1>4. bank.escrow[e][Native] \in Nat
  BY <1>1, <1>2 DEF TypeOK
<1>5. limit.in[e] \in Nat /\ limit.out[e] \in Nat
  BY <1>1, <1>2 DEF TypeOK
<1>6. QED
  BY <1>1, <1>2, <1>3, <1>4, <1>5 DEF TypeOK

\* The native tokens in a limited channel's escrow account move with native
\* tokens through that channel only.
LEMMA NativeMoves ==
  ASSUME Parts, NEW e \in Limited,
         NEW c \in Channels, NEW d \in Denoms, NEW a \in Nat
  PROVE  /\ Sent(bank, c, d, a).escrow[e][Native] =
              bank.escrow[e][Native] + (IF e = c /\ d = Native THEN a ELSE 0)
         /\ Received(bank, c, d, a).escrow[e][Native] =
              bank.escrow[e][Native] - (IF e = c /\ d = Native THEN a ELSE 0)
<1>1. bank \in Bank /\ e \in Channels /\ Native \in Denoms /\ e # Native
  BY FlowTypes
<1>2. Sent(bank, c, d, a).escrow[e][Native] =
        bank.escrow[e][Native] + (IF e = c /\ Native = d /\ d # c THEN a ELSE 0)
  BY <1>1, SentIs
<1>3. Received(bank, c, d, a).escrow[e][Native] =
        bank.escrow[e][Native] - (IF e = c /\ Native = d /\ d # c THEN a ELSE 0)
  BY <1>1, ReceivedIs
<1>4. (e = c /\ Native = d /\ d # c) <=> (e = c /\ d = Native)
  BY <1>1
<1>5. QED
  BY <1>2, <1>3, <1>4

Unforwarded ==
  /\ CountedWithin
  /\ inflight = {} /\ \A p \in recv : p.to = None
  /\ \A o \in out : o.id \in limit.pending[o.chan] => o.denom = Native

\* MsgTransfer checks the quota it counts against.
LEMMA UnforwardedTransfer ==
  ASSUME Parts, Unforwarded, NEW c \in Channels, NEW d \in Denoms, NEW a \in Amounts,
         Transfer(c, d, a)
  PROVE  Unforwarded'
<1> DEFINE x == OutPacket(c, d, a)
<1>1. /\ MaySend(limit, c, d, a) /\ limit' = CountOut(limit, c, d, a)
      /\ bank' = Sent(bank, c, d, a) /\ out' = out \cup {x}
      /\ UNCHANGED <<recv, inflight, start>>
  BY SendsOfUsersLimited DEF Transfer, SendPacket
<1>2. a \in Nat /\ x.id = nextId /\ x.chan = c /\ x.denom = d
  BY TransferAssumption DEF OutPacket
<1> HIDE DEF x
<1>3. ASSUME NEW e \in Limited
      PROVE  bank'.escrow[e][Native] =
               bank.escrow[e][Native] + (IF e = c /\ d = Native THEN a ELSE 0)
  BY <1>1, <1>2, NativeMoves
<1>4. /\ limit.out \in [Channels -> Nat] /\ limit.in \in [Channels -> Nat]
      /\ limit.pending \in [Channels -> SUBSET Nat]
      /\ \A e \in Channels : \A i \in limit.pending[e] : i < nextId
      /\ nextId \in Nat
  BY DEF Parts, Counting, LimitOK
<1>5. /\ limit'.in = limit.in
      /\ limit'.out = [limit.out EXCEPT ![c] = @ + (IF HasLimit(c, d) THEN a ELSE 0)]
      /\ limit'.pending =
           [limit.pending EXCEPT ![c] = @ \cup (IF HasLimit(c, d) THEN {nextId} ELSE {})]
  <2>1. CASE HasLimit(c, d)
    BY <1>1, <2>1 DEF CountOut
  <2>2. CASE ~HasLimit(c, d)
    <3>1. limit' = limit
      BY <1>1, <2>2 DEF CountOut
    <3>2. limit.out[c] \in Nat
      BY <1>4
    <3>3. /\ limit.out = [limit.out EXCEPT ![c] = @ + 0]
          /\ limit.pending = [limit.pending EXCEPT ![c] = @ \cup {}]
      BY <1>4, <3>2
    <3>4. QED
      BY <2>2, <3>1, <3>3
  <2>3. QED
    BY <2>1, <2>2
<1>6. CountedWithin'
  <2>1. SUFFICES ASSUME NEW e \in Limited
                 PROVE  /\ bank'.escrow[e][Native] - start[e] <=
                             limit'.out[e] - limit'.in[e]
                        /\ limit'.out[e] - limit'.in[e] <= Quota
    BY <1>1 DEF CountedWithin
  <2>2. /\ bank.escrow[e][Native] - start[e] <= limit.out[e] - limit.in[e]
        /\ limit.out[e] - limit.in[e] <= Quota
    BY DEF Unforwarded, CountedWithin
  <2>3. limit'.out[e] = limit.out[e] + (IF e = c /\ d = Native THEN a ELSE 0)
    BY <1>2, <1>4, <1>5, FlowTypes DEF HasLimit
  <2>4. e = c /\ d = Native => limit.out[e] - limit.in[e] + a <= Quota
    BY <1>1 DEF MaySend, HasLimit
  <2>5. limit'.in[e] = limit.in[e]
    BY <1>5
  <2>6. CASE e = c /\ d = Native
    BY <1>2, <1>3, <2>2, <2>3, <2>4, <2>5, <2>6, FlowTypes
  <2>7. CASE ~(e = c /\ d = Native)
    BY <1>3, <2>2, <2>3, <2>5, <2>7, FlowTypes
  <2>8. QED
    BY <2>6, <2>7
<1>7. ASSUME NEW o \in out', o.id \in limit'.pending[o.chan] PROVE o.denom = Native
  <2>1. CASE o = x
    <3>1. nextId \notin limit.pending[c]
      BY <1>4
    <3>2. QED
      BY <1>2, <1>4, <1>5, <1>7, <2>1, <3>1 DEF HasLimit
  <2>2. CASE o # x
    <3>1. o \in out /\ o.chan \in Channels /\ o.id # nextId
      BY <1>1, <1>4, <2>2 DEF Parts, Counting, Numbered, Packet
    <3>2. o.id \in limit.pending[o.chan]
      BY <1>4, <1>5, <1>7, <3>1
    <3>3. QED
      BY <3>1, <3>2 DEF Unforwarded
  <2>3. QED
    BY <2>1, <2>2
<1>8. QED
  BY <1>1, <1>6, <1>7 DEF Unforwarded

\* An answer takes a failed packet out of the window that counted it.
LEMMA UnforwardedSettle ==
  ASSUME Parts, Unforwarded, NEW o \in out, NEW failed \in BOOLEAN, Settle(o, failed)
  PROVE  Unforwarded'
<1> DEFINE k == o.chan
           undone == IF failed /\ o.id \in limit.pending[k] THEN o.amount ELSE 0
<1>1. /\ limit' = Settled(limit, o, failed) /\ out' = out \ {o}
      /\ bank' = IF failed THEN Received(bank, k, o.denom, o.amount) ELSE bank
      /\ UNCHANGED <<recv, inflight, start>>
  BY DEF Settle, SettleForward, SettleTransfer, Forwards, Unforwarded
<1>2. k \in Channels /\ o.denom \in Denoms /\ o.amount \in Nat
  BY AmountType DEF Parts, Counting, Numbered, Packet
<1>3. /\ limit.out \in [Channels -> Nat] /\ limit.in \in [Channels -> Nat]
      /\ limit.pending \in [Channels -> SUBSET Nat]
  BY DEF Parts, Counting, LimitOK
<1>4. /\ limit'.in = limit.in
      /\ limit'.out = [limit.out EXCEPT ![k] = @ - undone]
      /\ limit'.pending = [limit.pending EXCEPT ![k] = @ \ {o.id}]
  BY <1>1, <1>2, <1>3 DEF Settled
<1>5. CountedWithin'
  <2>1. SUFFICES ASSUME NEW e \in Limited
                 PROVE  /\ bank'.escrow[e][Native] - start[e] <=
                             limit'.out[e] - limit'.in[e]
                        /\ limit'.out[e] - limit'.in[e] <= Quota
    BY <1>1 DEF CountedWithin
  <2> DEFINE h == bank.escrow[e][Native]
             h2 == bank'.escrow[e][Native]
             ot == limit.out[e]
             ot2 == limit'.out[e]
             u == IF e = k THEN undone ELSE 0
  <2>2. /\ h - start[e] <= ot - limit.in[e]
        /\ ot - limit.in[e] <= Quota
    BY DEF Unforwarded, CountedWithin
  <2>3. ot2 = ot - u /\ limit'.in[e] = limit.in[e] /\ u \in Nat
    BY <1>2, <1>3, <1>4, FlowTypes
  <2>4. h2 <= h - u
    <3>1. CASE failed
      <4>1. h2 = h - (IF e = k /\ o.denom = Native THEN o.amount ELSE 0)
        BY <1>1, <1>2, <3>1, NativeMoves
      <4>2. e = k /\ o.id \in limit.pending[k] => o.denom = Native /\ Native # k
        BY FlowTypes DEF Unforwarded
      <4>3. CASE e = k /\ o.denom = Native
        BY <1>2, <4>1, <4>2, <4>3, FlowTypes
      <4>4. CASE ~(e = k /\ o.denom = Native)
        <5>1. u = 0 /\ h2 = h - 0 /\ h \in Nat
          BY <4>1, <4>2, <4>4, FlowTypes
        <5> HIDE DEF u, h, h2
        <5>2. QED
          BY <5>1
      <4>5. QED
        BY <4>3, <4>4
    <3>2. CASE ~failed
      <4>1. h2 = h /\ u = 0 /\ h \in Nat
        BY <1>1, <3>2, FlowTypes
      <4> HIDE DEF u, h, h2
      <4>2. QED
        BY <4>1
    <3>3. QED
      BY <3>1, <3>2
  <2>5. h \in Nat /\ ot \in Nat /\ start[e] \in Nat /\ limit.in[e] \in Nat /\ Quota \in Nat
    BY FlowTypes
  <2>6. h2 \in Int
    <3>1. bank' \in Bank
      BY <1>1, <1>2, ReceivedIs DEF Parts, Money, BankOK
    <3>2. QED
      BY <3>1, FlowTypes DEF Bank
  <2> HIDE DEF u, h, h2, ot, ot2
  <2>7. h2 - start[e] <= ot2 - limit.in[e] /\ ot2 - limit.in[e] <= Quota
    BY <2>2, <2>3, <2>4, <2>5, <2>6
  <2>8. QED
    BY <2>3, <2>7 DEF h2, ot2
<1>6. ASSUME NEW v \in out', v.id \in limit'.pending[v.chan] PROVE v.denom = Native
  <2>1. v \in out /\ v.chan \in Channels
    BY <1>1 DEF Parts, Counting, Numbered, Packet
  <2>2. v.id \in limit.pending[v.chan]
    BY <1>3, <1>4, <1>6, <2>1
  <2>3. QED
    BY <2>1, <2>2 DEF Unforwarded
<1>7. QED
  BY <1>1, <1>5, <1>6 DEF Unforwarded

\* A receipt only brings tokens back into an escrow account.
LEMMA UnforwardedReceive ==
  ASSUME Parts, Unforwarded, NEW p \in recv, Receive(p)
  PROVE  Unforwarded'
<1>1. p \in Packet /\ p.to = None
  BY DEF Parts, Counting, Numbered, Unforwarded
<1>2. ASSUME NEW s \in {"sent", "waiting", "ok", "error"}, Answered(p, s)
      PROVE  \A r \in recv' : r.to = None
  <2> DEFINE q == [p EXCEPT !.status = s]
  <2>1. q.to = None
    BY <1>1, StatusIs DEF Restated
  <2>2. recv' = (recv \ {p}) \cup {q}
    BY <1>2 DEF Answered
  <2> HIDE DEF q
  <2>3. QED
    BY <2>1, <2>2 DEF Unforwarded
<1>3. CASE Refuse(p)
  BY <1>2, <1>3 DEF Refuse, Unforwarded, CountedWithin
<1>4. CASE ReceiveTransfer(p)
  <2>1. /\ Answered(p, "ok")
        /\ limit' = CountIn(limit, p.chan, p.denom, p.amount)
        /\ bank' = Received(bank, p.chan, p.denom, p.amount)
        /\ UNCHANGED <<out, inflight, start>>
    BY <1>4 DEF ReceiveTransfer
  <2>2. p.chan \in Channels /\ p.denom \in Denoms /\ p.amount \in Nat
    BY <1>1, AmountType DEF Packet
  <2>3. limit.in \in [Channels -> Nat]
    BY DEF Parts, Counting, LimitOK
  <2>4. /\ limit'.out = limit.out /\ limit'.pending = limit.pending
        /\ limit'.in = [limit.in EXCEPT
             ![p.chan] = @ + (IF HasLimit(p.chan, p.denom) THEN p.amount ELSE 0)]
    <3>1. limit \in [in : [Channels -> Nat], out : [Channels -> Nat],
                     pending : [Channels -> SUBSET Nat]]
      BY DEF Parts, Counting, LimitOK
    <3>2. QED
      BY <2>1, <2>2, <2>3, <3>1 DEF CountIn
  <2>5. CountedWithin'
    <3>1. SUFFICES ASSUME NEW e \in Limited
                   PROVE  /\ bank'.escrow[e][Native] - start[e] <=
                               limit'.out[e] - limit'.in[e]
                          /\ limit'.out[e] - limit'.in[e] <= Quota
      BY <2>1 DEF CountedWithin
    <3> DEFINE m == IF e = p.chan /\ p.denom = Native THEN p.amount ELSE 0
               h == bank.escrow[e][Native]
    <3>2. h - start[e] <= limit.out[e] - limit.in[e] /\ limit.out[e] - limit.in[e] <= Quota
      BY DEF Unforwarded, CountedWithin
    <3>3. limit'.in[e] = limit.in[e] + m /\ m \in Nat
      BY <2>2, <2>3, <2>4, FlowTypes DEF HasLimit
    <3>4. bank'.escrow[e][Native] = h - m
      BY <2>1, <2>2, NativeMoves
    <3>5. /\ h \in Nat /\ start[e] \in Nat /\ limit.in[e] \in Nat /\ Quota \in Nat
          /\ limit.out[e] \in Nat /\ limit'.out[e] = limit.out[e]
      BY <2>4, FlowTypes
    <3> HIDE DEF m, h
    <3>6. QED
      BY <3>2, <3>3, <3>4, <3>5
  <2>6. QED
    BY <1>2, <2>1, <2>4, <2>5 DEF Unforwarded
<1>5. QED
  BY <1>1, <1>3, <1>4
     DEF Receive, RefuseOverLimit, RefuseBelow, ReceiveForward

\* Nothing the other chain does on receipt is counted.
LEMMA UnforwardedRemote ==
  ASSUME Parts, Unforwarded, NEW o \in out, RemoteRecv(o)
  PROVE  Unforwarded'
<1>1. UNCHANGED <<bank, recv, inflight, limit, start>>
  BY DEF RemoteRecv
<1>2. PICK s \in {"ok", "error"} : out' = (out \ {o}) \cup {[o EXCEPT !.status = s]}
  BY DEF RemoteRecv
<1> DEFINE q == [o EXCEPT !.status = s]
<1>3. q.id = o.id /\ q.chan = o.chan /\ q.denom = o.denom
  BY StatusIs DEF Restated, Parts, Counting, Numbered
<1>4. out' = (out \ {o}) \cup {q}
  BY <1>2
<1> HIDE DEF q
<1>5. QED
  BY <1>1, <1>3, <1>4 DEF Unforwarded, CountedWithin

\* A new window starts from what the escrow account then holds.
LEMMA UnforwardedReset ==
  ASSUME Parts, Unforwarded, NEW c \in Limited, ResetWindow(c)
  PROVE  Unforwarded'
<1>1. /\ limit' = NewWindow(limit, c)
      /\ start' = [start EXCEPT ![c] = bank.escrow[c][Native]]
      /\ UNCHANGED <<bank, out, recv, inflight>>
  BY DEF ResetWindow
<1>2. /\ limit.out \in [Channels -> Nat] /\ limit.in \in [Channels -> Nat]
      /\ limit.pending \in [Channels -> SUBSET Nat] /\ start \in [Channels -> Nat]
      /\ c \in Channels
  BY TransferAssumption DEF Parts, Counting, LimitOK
<1>3. /\ limit'.in = [limit.in EXCEPT ![c] = 0]
      /\ limit'.out = [limit.out EXCEPT ![c] = 0]
      /\ limit'.pending = [limit.pending EXCEPT ![c] = {}]
  BY <1>1 DEF NewWindow
<1>4. ASSUME NEW e \in Limited
      PROVE  /\ bank.escrow[e][Native] - start'[e] <= limit'.out[e] - limit'.in[e]
             /\ limit'.out[e] - limit'.in[e] <= Quota
  <2>1. CASE e = c
    <3>1. start'[e] = bank.escrow[e][Native] /\ limit'.out[e] = 0 /\ limit'.in[e] = 0
      BY <1>1, <1>2, <1>3, <2>1
    <3>2. bank.escrow[e][Native] \in Nat /\ Quota \in Nat
      BY FlowTypes
    <3>3. QED
      BY <3>1, <3>2
  <2>2. CASE e # c
    BY <1>1, <1>2, <1>3, <2>2, FlowTypes DEF Unforwarded, CountedWithin
  <2>3. QED
    BY <2>1, <2>2
<1>5. \A e \in Channels : limit'.pending[e] \subseteq limit.pending[e]
  BY <1>2, <1>3
<1>6. \A o \in out : o.chan \in Channels
  BY DEF Parts, Counting, Numbered, Packet
<1>7. QED
  BY <1>1, <1>4, <1>5, <1>6 DEF Unforwarded, CountedWithin

\* Every step of a chain without forwards keeps the quota.
LEMMA UnforwardedNext ==
  ASSUME Destinations \subseteq {None}
  PROVE  Parts /\ Unforwarded /\ [Next]_vars => Unforwarded'
<1> SUFFICES ASSUME Parts, Unforwarded, [Next]_vars PROVE Unforwarded'
  OBVIOUS
<1>1. CASE UNCHANGED vars
  BY <1>1 DEF vars, Unforwarded, CountedWithin
<1>2. CASE \E c \in Channels, d \in Denoms, a \in Amounts : Transfer(c, d, a)
  BY <1>2, UnforwardedTransfer
<1>3. ASSUME NEW c \in Channels, NEW d \in Denoms, NEW a \in Amounts,
             NEW to \in Destinations, NEW r \in Retries, RemoteSend(c, d, a, to, r)
      PROVE  Unforwarded'
  BY <1>3 DEF RemoteSend, Unforwarded, CountedWithin
<1>4. CASE \E o \in out : RemoteRecv(o)
  BY <1>4, UnforwardedRemote
<1>5. ASSUME NEW o \in out, Resolve(o) PROVE Unforwarded'
  <2>1. ~RetryForward(o)
    BY DEF RetryForward, Forwards, Unforwarded
  <2>2. CASE TimeoutPacket(o)
    BY <2>2, UnforwardedSettle DEF TimeoutPacket
  <2>3. CASE AcknowledgePacket(o)
    <3>1. (o.status = "error") \in BOOLEAN /\ Settle(o, o.status = "error")
      BY <2>3 DEF AcknowledgePacket
    <3>2. CASE o.status = "error"
      <4>1. Settle(o, TRUE)
        BY <3>1, <3>2 DEF Settle, SettleForward, SettleTransfer, Settled
      <4>2. QED
        BY <4>1, UnforwardedSettle
    <3>3. CASE o.status # "error"
      <4>1. Settle(o, FALSE)
        BY <3>1, <3>3 DEF Settle, SettleForward, SettleTransfer, Settled
      <4>2. QED
        BY <4>1, UnforwardedSettle
    <3>4. QED
      BY <3>2, <3>3
  <2>4. QED
    BY <1>5, <2>1, <2>2, <2>3 DEF Resolve
<1>6. CASE \E p \in recv : Receive(p)
  BY <1>6, UnforwardedReceive
<1>7. CASE \E p \in recv : RemoteSettle(p)
  BY <1>7 DEF RemoteSettle, Unforwarded, CountedWithin
<1>8. CASE \E c \in Limited : ResetWindow(c)
  BY <1>8, UnforwardedReset
<1>9. QED
  BY <1>1, <1>2, <1>3, <1>4, <1>5, <1>6, <1>7, <1>8 DEF Next

\* Nothing is counted in the first window.
LEMMA UnforwardedInit == Init => Unforwarded
<1> SUFFICES ASSUME Init PROVE Unforwarded
  OBVIOUS
<1>1. CountedWithin
  <2> SUFFICES ASSUME NEW e \in Limited
               PROVE  /\ bank.escrow[e][Native] - start[e] <= limit.out[e] - limit.in[e]
                      /\ limit.out[e] - limit.in[e] <= Quota
    BY DEF CountedWithin
  <2>2. e \in Channels /\ Native \in Denoms /\ Seed \in Nat /\ Quota \in Nat
    BY TransferAssumption DEF Denoms
  <2>3. /\ bank.escrow[e][Native] = Seed /\ start[e] = Seed
        /\ limit.out[e] = 0 /\ limit.in[e] = 0
    BY <2>2 DEF Init
  <2>4. QED
    BY <2>2, <2>3
<1>2. QED
  BY <1>1 DEF Init, Unforwarded

\* What leaves through a limited channel in a window, net of what comes in,
\* stays within the quota, where no packet asks to be forwarded: refunds,
\* late acknowledgements and windows that start in between included.
THEOREM QuotaIsKept ==
  ASSUME Destinations \subseteq {None}
  PROVE  Spec => []QuotaKept
<1>1. Init => Parts /\ Unforwarded
  BY InitParts, UnforwardedInit
<1>2. Parts /\ Unforwarded /\ [Next]_vars => (Parts /\ Unforwarded)'
  BY NextParts, UnforwardedNext
<1>3. Parts /\ Unforwarded => QuotaKept
  <2> SUFFICES ASSUME Parts, Unforwarded, NEW e \in Limited
               PROVE  bank.escrow[e][Native] - start[e] <= Quota
    BY DEF QuotaKept
  <2>2. /\ bank.escrow[e][Native] - start[e] <= limit.out[e] - limit.in[e]
        /\ limit.out[e] - limit.in[e] <= Quota
    BY DEF Unforwarded, CountedWithin
  <2>3. QED
    BY <2>2, FlowTypes
<1>4. QED
  BY <1>1, <1>2, <1>3, PTL DEF Spec

\* There the rate limit also counts every packet that leaves with native
\* tokens through a limited channel: only forwards pass it by.
THEOREM UsersSendsLimited ==
  ASSUME Destinations \subseteq {None}
  PROVE  Spec => EverySendLimited
<1> DEFINE Step == \A o \in out' :
             o.id >= nextId /\ HasLimit(o.chan, o.denom) =>
               o.id \in limit'.pending[o.chan]
<1>1. Init => Parts /\ Unforwarded
  BY InitParts, UnforwardedInit
<1>2. Parts /\ Unforwarded /\ [Next]_vars => (Parts /\ Unforwarded)'
  BY NextParts, UnforwardedNext
<1>3. Parts /\ Unforwarded /\ [Next]_vars => [Step]_vars
  <2> SUFFICES ASSUME Parts, Unforwarded, Next, NEW o \in out', o.id >= nextId,
                      HasLimit(o.chan, o.denom)
               PROVE  o.id \in limit'.pending[o.chan]
    OBVIOUS
  <2>2. \A u \in out : u.id < nextId /\ u.id \in Nat /\ nextId \in Nat
    BY DEF Parts, Counting, Numbered, Packet
  <2>3. \A u \in out : u.id # o.id
    BY <2>2
  <2>4. ASSUME NEW c \in Channels, NEW d \in Denoms, NEW a \in Amounts, Transfer(c, d, a)
        PROVE  o.id \in limit'.pending[o.chan]
    <3> DEFINE x == OutPacket(c, d, a)
    <3>1. out' = out \cup {x} /\ limit' = CountOut(limit, c, d, a)
      BY <2>4, SendsOfUsersLimited DEF Transfer, SendPacket
    <3>2. x.id = nextId /\ x.chan = c /\ x.denom = d
      BY DEF OutPacket
    <3> HIDE DEF x
    <3>3. o = x
      BY <2>3, <3>1
    <3>4. limit'.pending = [limit.pending EXCEPT ![c] = @ \cup {nextId}]
      BY <3>1, <3>2, <3>3 DEF CountOut
    <3>5. limit.pending \in [Channels -> SUBSET Nat]
      BY DEF Parts, Counting, LimitOK
    <3>6. QED
      BY <3>2, <3>3, <3>4, <3>5
  <2>5. ASSUME out' \subseteq out PROVE FALSE
    BY <2>3, <2>5
  <2>6. ASSUME NEW u \in out, RemoteRecv(u) PROVE FALSE
    <3>1. PICK s \in {"ok", "error"} : out' = (out \ {u}) \cup {[u EXCEPT !.status = s]}
      BY <2>6 DEF RemoteRecv
    <3> DEFINE q == [u EXCEPT !.status = s]
    <3>2. q.id = u.id
      BY StatusIs DEF Restated, Parts, Counting, Numbered
    <3>3. out' = (out \ {u}) \cup {q}
      BY <3>1
    <3> HIDE DEF q
    <3>4. QED
      BY <2>3, <3>2, <3>3
  <2>7. ASSUME NEW u \in out, Resolve(u) PROVE FALSE
    <3>1. ~RetryForward(u)
      BY DEF RetryForward, Forwards, Unforwarded
    <3>2. out' = out \ {u}
      BY <2>7, <3>1 DEF Resolve, AcknowledgePacket, TimeoutPacket, Settle
    <3>3. QED
      BY <2>5, <3>2
  <2>8. ASSUME NEW p \in recv, Receive(p) PROVE FALSE
    <3>1. ~ReceiveForward(p)
      BY DEF ReceiveForward, Unforwarded
    <3>2. out' = out
      BY <2>8, <3>1
         DEF Receive, RefuseOverLimit, RefuseBelow, Refuse, ReceiveTransfer
    <3>3. QED
      BY <2>5, <3>2
  <2>9. CASE \E c \in Channels, d \in Denoms, a \in Amounts, to \in Destinations, r \in Retries :
               RemoteSend(c, d, a, to, r)
    BY <2>5, <2>9 DEF RemoteSend
  <2>10. CASE \E p \in recv : RemoteSettle(p)
    BY <2>5, <2>10 DEF RemoteSettle
  <2>11. CASE \E c \in Limited : ResetWindow(c)
    BY <2>5, <2>11 DEF ResetWindow
  <2>12. QED
    BY <2>4, <2>6, <2>7, <2>8, <2>9, <2>10, <2>11 DEF Next
<1>4. QED
  BY <1>1, <1>2, <1>3, PTL DEF Spec, EverySendLimited

=============================================================================
