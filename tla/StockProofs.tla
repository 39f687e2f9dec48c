---------------------------- MODULE StockProofs ----------------------------
(***************************************************************************)
(* Theorems about Stock: its types, that the Inventory Asset account and   *)
(* the stock report agree, and that no cost is lost, for any number of     *)
(* movements, any quantities, any costs and any days.                      *)
(*                                                                         *)
(* A valuation is a recursion over the movements in their order.  What one *)
(* step of it does is in InboundIsSound and OutboundIsSound, which hold    *)
(* the rounding; what all steps do follows by induction on the sets of     *)
(* rows (HistoryIsConserved, ValuesAgree).                                 *)
(*                                                                         *)
(* That account and report agree is not inductive: when the last movement  *)
(* is taken out, what is left must agree too.  The invariant says it of    *)
(* every beginning of a straight history (SoFar).  A step that leaves what *)
(* is before the end alone keeps the beginnings it had (KeptAgrees); the   *)
(* only new one is the whole history with the new movement at its end,     *)
(* and there the handler and the valuation take the same average           *)
(* (NewAgrees).                                                            *)
(***************************************************************************)
EXTENDS Stock, FiniteSums

\* A table of movements.
Table(rows) ==
    /\ DOMAIN rows \subseteq Nat
    /\ IsFiniteSet(DOMAIN rows)
    /\ rows \in [DOMAIN rows -> Movement]

-----------------------------------------------------------------------------
(* The order of the movements *)

\* Dates and ids of a table are numbers.
LEMMA DatesAreNumbers ==
    ASSUME NEW rows, Table(rows), NEW i \in DOMAIN rows
    PROVE  rows[i] \in Movement /\ rows[i].date \in Nat /\ i \in Nat
BY StockAssumption DEF Table, Movement

\* Of two movements one is the earlier one, and only one.
LEMMA OrderIsTotal ==
    ASSUME NEW rows, Table(rows), NEW i \in DOMAIN rows, NEW j \in DOMAIN rows
    PROVE  /\ ~(Earlier(rows, i, j) /\ Earlier(rows, j, i))
           /\ i # j => Earlier(rows, i, j) \/ Earlier(rows, j, i)
<1>1. rows[i].date \in Nat /\ rows[j].date \in Nat /\ i \in Nat /\ j \in Nat
  BY DatesAreNumbers
<1> QED
  BY <1>1 DEF Earlier

\* The order of valueProduct is transitive.
LEMMA OrderIsTransitive ==
    ASSUME NEW rows, Table(rows), NEW i \in DOMAIN rows, NEW j \in DOMAIN rows,
           NEW k \in DOMAIN rows, Earlier(rows, i, j), Earlier(rows, j, k)
    PROVE  Earlier(rows, i, k)
<1>1. /\ rows[i].date \in Nat /\ rows[j].date \in Nat /\ rows[k].date \in Nat
      /\ i \in Nat /\ j \in Nat /\ k \in Nat
  BY DatesAreNumbers
<1> QED
  BY <1>1 DEF Earlier

\* All others in S are earlier.
IsLatest(rows, S, i) == i \in S /\ \A j \in S \ {i} : Earlier(rows, j, i)

\* Of a finite number of movements one is the latest: by induction on sets,
\* the latest of all but one or that one.
LEMMA LatestExists ==
    ASSUME NEW rows, Table(rows), NEW S \in SUBSET DOMAIN rows, S # {}
    PROVE  \E i : IsLatest(rows, S, i)
<1> DEFINE Good == {T \in SUBSET DOMAIN rows : T # {} => \E i : IsLatest(rows, T, i)}
<1>1. ASSUME NEW T \in SUBSET DOMAIN rows, \A x \in T : T \ {x} \in Good
      PROVE  T \in Good
  <2> SUFFICES ASSUME T # {}
               PROVE  \E i : IsLatest(rows, T, i)
    OBVIOUS
  <2>1. PICK x \in T : TRUE
    OBVIOUS
  <2>2. CASE T \ {x} = {}
    BY <2>2 DEF IsLatest
  <2>3. CASE T \ {x} # {}
    <3>1. PICK i : IsLatest(rows, T \ {x}, i)
      BY <1>1, <2>3
    <3>2. i \in T \ {x} /\ \A j \in (T \ {x}) \ {i} : Earlier(rows, j, i)
      BY <3>1 DEF IsLatest
    <3>3. i \in DOMAIN rows /\ x \in DOMAIN rows /\ i # x
      BY <3>2
    <3>4. CASE Earlier(rows, x, i)
      <4>1. IsLatest(rows, T, i)
        BY <3>2, <3>4 DEF IsLatest
      <4> QED
        BY <4>1
    <3>5. CASE Earlier(rows, i, x)
      <4>1. ASSUME NEW j \in T \ {x}
            PROVE  Earlier(rows, j, x)
        BY <3>2, <3>3, <3>5, OrderIsTransitive
      <4>2. IsLatest(rows, T, x)
        BY <4>1 DEF IsLatest
      <4> QED
        BY <4>2
    <3> QED
      BY <3>3, <3>4, <3>5, OrderIsTotal
  <2> QED
    BY <2>2, <2>3
<1> HIDE DEF Good
<1>2. IsFiniteSet(DOMAIN rows)
  BY DEF Table
<1>3. \A T \in SUBSET DOMAIN rows : T \in Good
  BY <1>1, <1>2, InductionOnSubsets
<1> QED
  BY <1>3 DEF Good

\* So Latest finds it.
LEMMA LatestIsLatest ==
    ASSUME NEW rows, Table(rows), NEW S \in SUBSET DOMAIN rows, S # {}
    PROVE  IsLatest(rows, S, Latest(rows, S))
<1>1. \E i \in S : \A j \in S \ {i} : Earlier(rows, j, i)
  BY LatestExists DEF IsLatest
<1> QED
  BY <1>1 DEF IsLatest, Latest

\* And there is no other.
LEMMA LatestIsUnique ==
    ASSUME NEW rows, Table(rows), NEW S \in SUBSET DOMAIN rows,
           NEW i, IsLatest(rows, S, i)
    PROVE  Latest(rows, S) = i
<1>1. i \in S /\ \A j \in S \ {i} : Earlier(rows, j, i)
  BY DEF IsLatest
<1>2. Latest(rows, S) \in S /\ \A j \in S \ {Latest(rows, S)} : Earlier(rows, j, Latest(rows, S))
  BY <1>1, LatestIsLatest DEF IsLatest
<1> DEFINE l == Latest(rows, S)
<1> HIDE DEF l
<1>3. l \in S /\ \A j \in S \ {l} : Earlier(rows, j, l)
  BY <1>2 DEF l
<1>4. l = i
  <2>1. SUFFICES ASSUME l # i PROVE FALSE
    OBVIOUS
  <2>2. Earlier(rows, i, l) /\ Earlier(rows, l, i)
    BY <1>1, <1>3, <2>1
  <2> QED
    BY <1>1, <1>3, <2>2, OrderIsTotal
<1> QED
  BY <1>4 DEF l

-----------------------------------------------------------------------------
(* The valuation *)

\* A function that values the sets of F as valueProduct does.
Values(g, rows, F) ==
    g = [S \in F |->
            IF S = {} THEN Nothing
            ELSE Step(g[S \ {Latest(rows, S)}], rows[Latest(rows, S)])]

\* What the movements in S come to.
Value(rows, S) == (CHOOSE g : Values(g, rows, SUBSET DOMAIN rows))[S]

\* valueProduct is that of all of them.
LEMMA ValueProductIs == ASSUME NEW rows PROVE ValueProduct(rows) = Value(rows, DOMAIN rows)
BY DEF ValueProduct, Value, Values

\* One step of the recursion.
LEMMA ValuesUnfold ==
    ASSUME NEW rows, NEW F, NEW g, Values(g, rows, F), NEW S \in F
    PROVE  g[S] = IF S = {} THEN Nothing
                  ELSE Step(g[S \ {Latest(rows, S)}], rows[Latest(rows, S)])
BY DEF Values

\* There is such a function: up to sets of n movements, by induction on n.
LEMMA ValuesExist ==
    ASSUME NEW rows, Table(rows)
    PROVE  \E g : Values(g, rows, SUBSET DOMAIN rows)
<1> DEFINE D == DOMAIN rows
           F(n) == {S \in SUBSET D : Cardinality(S) <= n}
           Good == {n \in Nat : \E g : Values(g, rows, F(n))}
<1>1. IsFiniteSet(D) /\ Cardinality(D) \in Nat
  BY FS_CardinalityType DEF Table
<1>2. \A S \in SUBSET D : IsFiniteSet(S) /\ Cardinality(S) \in Nat
  BY <1>1, FS_Subset, FS_CardinalityType
<1>3. 0 \in Good
  <2> DEFINE k == [S \in F(0) |-> Nothing]
  <2>1. \A S \in F(0) : S = {}
    BY <1>2, FS_EmptySet
  <2>2. k = [S \in F(0) |-> IF S = {} THEN Nothing
                            ELSE Step(k[S \ {Latest(rows, S)}], rows[Latest(rows, S)])]
    BY <2>1
  <2>3. Values(k, rows, F(0))
    BY <2>2 DEF Values
  <2> QED
    BY <2>3
<1>4. ASSUME NEW n \in 0..(Cardinality(D) - 1), n \in Good
      PROVE  n + 1 \in Good
  <2>1. PICK g : Values(g, rows, F(n))
    BY <1>4
  <2> DEFINE k == [S \in F(n + 1) |->
                      IF S = {} THEN Nothing
                      ELSE Step(g[S \ {Latest(rows, S)}], rows[Latest(rows, S)])]
  <2>2. n \in Nat /\ n + 1 \in Nat
    BY <1>1
  <2>3. ASSUME NEW V \in F(n)
        PROVE  k[V] = g[V]
    <3>1. V \in F(n + 1)
      BY <1>2, <2>2
    <3>2. g[V] = IF V = {} THEN Nothing
                 ELSE Step(g[V \ {Latest(rows, V)}], rows[Latest(rows, V)])
      <4> HIDE DEF F
      <4> QED
        BY <2>1, ValuesUnfold
    <3> HIDE DEF F
    <3> QED
      BY <3>1, <3>2
  <2>4. ASSUME NEW S \in F(n + 1), S # {}
        PROVE  S \ {Latest(rows, S)} \in F(n)
    <3>1. Latest(rows, S) \in S
      BY <2>4, LatestIsLatest DEF IsLatest
    <3>2. Cardinality(S \ {Latest(rows, S)}) = Cardinality(S) - 1
      BY <3>1, <1>2, FS_RemoveElement
    <3>3. Cardinality(S) \in Nat /\ Cardinality(S) <= n + 1
      BY <1>2
    <3> QED
      BY <2>2, <3>2, <3>3
  <2>5. ASSUME NEW S \in F(n + 1)
        PROVE  k[S] = IF S = {} THEN Nothing
                      ELSE Step(k[S \ {Latest(rows, S)}], rows[Latest(rows, S)])
    <3>1. k[S] = IF S = {} THEN Nothing
                 ELSE Step(g[S \ {Latest(rows, S)}], rows[Latest(rows, S)])
      OBVIOUS
    <3> HIDE DEF k, F
    <3> QED
      BY <3>1, <2>3, <2>4
  <2>6. k = [S \in F(n + 1) |-> k[S]]
    OBVIOUS
  <2> HIDE DEF k, F
  <2>7. Values(k, rows, F(n + 1))
    BY <2>5, <2>6 DEF Values
  <2> QED
    BY <2>2, <2>7
<1>5. \A n \in 0..Cardinality(D) : n \in Good
  <2> HIDE DEF Good
  <2> QED
    BY <1>1, <1>3, <1>4, InductionOnLengths
<1>6. F(Cardinality(D)) = SUBSET D
  <2>1. \A S \in SUBSET D : Cardinality(S) <= Cardinality(D)
    BY <1>1, FS_Subset
  <2> QED
    BY <2>1
<1>7. Cardinality(D) \in Good
  BY <1>1, <1>5
<1> QED
  BY <1>6, <1>7

\* The equation the valuation is defined by.
LEMMA ValueUnfold ==
    ASSUME NEW rows, Table(rows), NEW S \in SUBSET DOMAIN rows
    PROVE  Value(rows, S) = IF S = {} THEN Nothing
                            ELSE Step(Value(rows, S \ {Latest(rows, S)}), rows[Latest(rows, S)])
<1> DEFINE g == CHOOSE h : Values(h, rows, SUBSET DOMAIN rows)
<1>1. Values(g, rows, SUBSET DOMAIN rows)
  BY ValuesExist
<1>2. Value(rows, S) = g[S] /\ Value(rows, S \ {Latest(rows, S)}) = g[S \ {Latest(rows, S)}]
  BY DEF Value
<1> HIDE DEF g
<1> QED
  BY <1>1, <1>2, ValuesUnfold

\* What a step takes from a movement.
LEMMA StepTakes ==
    ASSUME NEW v, NEW m, NEW n, m.delta = n.delta, m.unitCost = n.unitCost
    PROVE  Step(v, m) = Step(v, n)
BY DEF Step, Inbound, Outbound

\* Tables that agree on the order, the quantities and the costs of some rows
\* value all of their subsets alike.
LEMMA ValuesAgree ==
    ASSUME NEW rows, NEW other, Table(rows), Table(other),
           NEW D \in SUBSET (DOMAIN rows \cap DOMAIN other),
           \A i \in D : /\ rows[i].delta = other[i].delta
                        /\ rows[i].unitCost = other[i].unitCost,
           \A i, j \in D : Earlier(rows, i, j) => Earlier(other, i, j)
    PROVE  \A S \in SUBSET D : Value(rows, S) = Value(other, S)
<1> DEFINE Good == {S \in SUBSET D : Value(rows, S) = Value(other, S)}
<1>1. ASSUME NEW S \in SUBSET D, \A x \in S : S \ {x} \in Good
      PROVE  S \in Good
  <2>1. CASE S = {}
    BY <2>1, ValueUnfold
  <2>2. CASE S # {}
    <3> DEFINE l == Latest(rows, S)
    <3>1. l \in S /\ \A j \in S \ {l} : Earlier(rows, j, l)
      BY <2>2, LatestIsLatest DEF IsLatest
    <3> HIDE DEF l
    <3>2. IsLatest(other, S, l)
      BY <3>1 DEF IsLatest
    <3>3. Latest(other, S) = l
      BY <3>2, LatestIsUnique
    <3>4. Value(rows, S) = Step(Value(rows, S \ {l}), rows[l])
      BY <2>2, ValueUnfold DEF l
    <3>5. Value(other, S) = Step(Value(other, S \ {l}), other[l])
      BY <2>2, <3>3, ValueUnfold
    <3>6. Value(rows, S \ {l}) = Value(other, S \ {l})
      BY <1>1, <3>1
    <3>7. rows[l].delta = other[l].delta /\ rows[l].unitCost = other[l].unitCost
      BY <3>1
    <3>8. Step(Value(rows, S \ {l}), rows[l]) = Step(Value(rows, S \ {l}), other[l])
      BY <3>7, StepTakes
    <3>9. Value(rows, S) = Value(other, S)
      BY <3>4, <3>5, <3>6, <3>8
    <3> QED
      BY <3>9
  <2> QED
    BY <2>1, <2>2
<1>2. IsFiniteSet(D)
  BY FS_Subset DEF Table
<1> HIDE DEF Good
<1>3. \A S \in SUBSET D : S \in Good
  BY <1>1, <1>2, InductionOnSubsets
<1> QED
  BY <1>3 DEF Good

-----------------------------------------------------------------------------
(* The average *)

\* Integer division, between its bounds.
LEMMA DivisionBounds ==
    ASSUME NEW a \in Nat, NEW b \in Nat, b > 0
    PROVE  /\ a \div b \in Nat
           /\ \A c \in Nat : a < b * (c + 1) => a \div b <= c
           /\ \A c \in Nat : b * c <= a => c <= a \div b
OBVIOUS

\* Rounding gives a number of cents.
LEMMA RoundedIsNat ==
    ASSUME NEW p \in Nat, NEW q \in Nat, q > 0
    PROVE  Rounded(p, q) \in Nat
<1> DEFINE a == 2 * p + q
           b == 2 * q
<1>1. a \in Nat /\ b \in Nat /\ b > 0 /\ Rounded(p, q) = a \div b
  BY DEF Rounded
<1> HIDE DEF a, b
<1> QED
  BY <1>1, DivisionBounds

\* So many of the units on hand cost at most what all of them are worth, and
\* all of them exactly that.
LEMMA AverageIsWithin ==
    ASSUME NEW u \in Nat, NEW w \in Nat, NEW q \in Nat, q > 0, u <= q
    PROVE  /\ Rounded(u * w, q) \in Nat
           /\ Rounded(u * w, q) <= w
           /\ u = q => Rounded(u * w, q) = w
<1> DEFINE a == u * w
           c == q * w
           n == 2 * a + q
           b == 2 * q
<1>1. a \in Nat /\ c \in Nat
  OBVIOUS
<1>2. a <= c
  <2>1. c = a + (q - u) * w
    OBVIOUS
  <2>2. (q - u) * w \in Nat
    OBVIOUS
  <2> HIDE DEF a, c
  <2> QED
    BY <1>1, <2>1, <2>2
<1>3. b * (w + 1) = 2 * c + 2 * q /\ b * w = 2 * c
  OBVIOUS
<1>4. u = q => a = c
  OBVIOUS
<1>5. Rounded(u * w, q) = n \div b
  BY DEF Rounded
<1> HIDE DEF a, c
<1>6. n \in Nat /\ b \in Nat /\ b > 0 /\ n < 2 * c + 2 * q /\ (u = q => 2 * c <= n)
  BY <1>1, <1>2, <1>4
<1> HIDE DEF n, b
<1>7. n \div b \in Nat /\ n \div b <= w /\ (u = q => w <= n \div b)
  BY <1>3, <1>6, DivisionBounds
<1> QED
  BY <1>5, <1>7

-----------------------------------------------------------------------------
(* One step of the valuation *)

Valuation == [quantity: Int, value: Nat, cogs: Nat, wentNegative: BOOLEAN]

\* What every valuation keeps: an empty shelf is worth nothing and only stock
\* that ran short is below zero.
Sound(v) ==
    /\ v \in Valuation
    /\ v.quantity <= 0 => v.value = 0
    /\ ~v.wentNegative => v.quantity >= 0

\* What a movement brings in.
Brought(m) == IF m.delta > 0 THEN m.delta * m.unitCost ELSE 0

\* Before the first movement.
LEMMA NothingIsSound == Sound(Nothing)
BY DEF Nothing, Sound, Valuation

\* Stock that comes in adds its cost, unless it fills a deficit.
LEMMA InboundIsSound ==
    ASSUME NEW v, Sound(v), NEW m \in Movement, m.delta > 0
    PROVE  /\ Sound(Step(v, m))
           /\ Step(v, m).wentNegative = v.wentNegative
           /\ Step(v, m).cogs = v.cogs
           /\ ~v.wentNegative => Step(v, m).value = v.value + m.delta * m.unitCost
<1> DEFINE q == v.quantity + m.delta
           adding == IF v.quantity >= 0 THEN m.delta ELSE IF q > 0 THEN q ELSE 0
           cost == adding * m.unitCost
           value == IF q <= 0 THEN 0 ELSE v.value + cost
<1>1. /\ m.delta \in Int /\ m.unitCost \in Nat
      /\ v.quantity \in Int /\ v.value \in Nat /\ v.cogs \in Nat /\ v.wentNegative \in BOOLEAN
      /\ v \in Valuation
  BY DEF Movement, Sound, Valuation
<1>2. Step(v, m) = [v EXCEPT !.quantity = q, !.value = value]
  BY DEF Step, Inbound
<1>3. q \in Int /\ adding \in Nat
  BY <1>1
<1> HIDE DEF adding
<1>4. cost \in Nat
  BY <1>1, <1>3
<1> HIDE DEF cost
<1>5. value \in Nat /\ (q <= 0 => value = 0)
  BY <1>1, <1>3, <1>4
<1>6. ~v.wentNegative => v.quantity >= 0 /\ q > 0 /\ value = v.value + m.delta * m.unitCost
  <2>1. ~v.wentNegative => v.quantity >= 0 /\ q > 0 /\ adding = m.delta
    BY <1>1 DEF Sound, adding
  <2>2. adding = m.delta => cost = m.delta * m.unitCost
    BY DEF cost
  <2> QED
    BY <2>1, <2>2, <1>3
<1> HIDE DEF q, value
<1>7. /\ Step(v, m) \in Valuation
      /\ Step(v, m).quantity = q /\ Step(v, m).value = value
      /\ Step(v, m).cogs = v.cogs /\ Step(v, m).wentNegative = v.wentNegative
  BY <1>1, <1>2, <1>3, <1>5 DEF Valuation
<1> QED
  BY <1>5, <1>6, <1>7, <1>3 DEF Sound

\* What leaves costs no more than there is, and the last units all of it.
LEMMA AtAverageIsNat ==
    ASSUME NEW v, Sound(v), NEW u \in Nat
    PROVE  /\ AtAverage(v, u) \in Nat
           /\ v.quantity > 0 /\ u <= v.quantity => AtAverage(v, u) <= v.value
           /\ v.quantity > 0 /\ u = v.quantity => AtAverage(v, u) = v.value
<1>1. v.quantity \in Int /\ v.value \in Nat
  BY DEF Sound, Valuation
<1>2. CASE v.quantity > 0
  <2>1. v.quantity \in Nat /\ u * v.value \in Nat
    BY <1>1, <1>2
  <2>2. AtAverage(v, u) = Rounded(u * v.value, v.quantity)
    BY <1>2 DEF AtAverage
  <2>3. Rounded(u * v.value, v.quantity) \in Nat
    BY <2>1, <1>2, RoundedIsNat
  <2>4. u <= v.quantity => /\ Rounded(u * v.value, v.quantity) <= v.value
                           /\ u = v.quantity => Rounded(u * v.value, v.quantity) = v.value
    BY <1>1, <1>2, <2>1, AverageIsWithin
  <2> QED
    BY <1>1, <2>2, <2>3, <2>4
<1>3. CASE ~(v.quantity > 0)
  BY <1>3 DEF AtAverage
<1> QED
  BY <1>2, <1>3

\* Stock that leaves takes its cost to cost of goods sold.
LEMMA OutboundIsSound ==
    ASSUME NEW v, Sound(v), NEW m \in Movement, ~(m.delta > 0)
    PROVE  /\ Sound(Step(v, m))
           /\ ~Step(v, m).wentNegative => ~v.wentNegative /\ -m.delta <= v.quantity
           /\ ~v.wentNegative /\ -m.delta <= v.quantity => ~Step(v, m).wentNegative
           /\ ~Step(v, m).wentNegative =>
                 /\ Step(v, m).value = v.value - AtAverage(v, -m.delta)
                 /\ Step(v, m).cogs = v.cogs + AtAverage(v, -m.delta)
<1> DEFINE q == v.quantity + m.delta
           cost == AtAverage(v, -m.delta)
           value == IF q <= 0 THEN 0 ELSE v.value - cost
           went == v.wentNegative \/ q < 0
<1>1. /\ m.delta \in Int /\ m.delta < 0 /\ -m.delta \in Nat
      /\ v.quantity \in Int /\ v.value \in Nat /\ v.cogs \in Nat /\ v.wentNegative \in BOOLEAN
      /\ (v.quantity <= 0 => v.value = 0) /\ (~v.wentNegative => v.quantity >= 0)
  BY DEF Movement, Sound, Valuation
<1>2. Step(v, m) = [quantity |-> q, value |-> value, cogs |-> v.cogs + cost, wentNegative |-> went]
  BY DEF Step, Outbound
<1>3. /\ cost \in Nat
      /\ v.quantity > 0 /\ -m.delta <= v.quantity => cost <= v.value
      /\ v.quantity > 0 /\ -m.delta = v.quantity => cost = v.value
  BY <1>1, AtAverageIsNat
<1> HIDE DEF cost
<1>4. q \in Int /\ value \in Nat /\ v.cogs + cost \in Nat /\ went \in BOOLEAN
  BY <1>1, <1>3
<1>5. (q <= 0 => value = 0) /\ (~went => q >= 0 /\ ~v.wentNegative /\ -m.delta <= v.quantity)
  BY <1>1
<1>6. ~went => value = v.value - cost
  BY <1>1, <1>3
<1>7. ~v.wentNegative /\ -m.delta <= v.quantity => ~went
  BY <1>1
<1> HIDE DEF q, value, went
<1>8. /\ Step(v, m) \in Valuation
      /\ Step(v, m).quantity = q /\ Step(v, m).value = value
      /\ Step(v, m).cogs = v.cogs + cost /\ Step(v, m).wentNegative = went
  BY <1>2, <1>4 DEF Valuation
<1>9. Sound(Step(v, m))
  BY <1>4, <1>5, <1>8 DEF Sound
<1> QED
  BY <1>5, <1>6, <1>7, <1>8, <1>9 DEF cost

-----------------------------------------------------------------------------
(* The valuation of a history *)

\* The costs of all of them.
Brings(rows) == [i \in DOMAIN rows |-> Brought(rows[i])]

\* A cost is a number of cents.
LEMMA BroughtIsNat == ASSUME NEW m \in Movement PROVE Brought(m) \in Nat
<1>1. m.delta \in Int /\ m.unitCost \in Nat
  BY DEF Movement
<1>2. m.delta > 0 => m.delta * m.unitCost \in Nat
  BY <1>1
<1> QED
  BY <1>2 DEF Brought

\* What came in is on the shelf or was charged, unless stock ran short.
Conserved(rows, S) ==
    LET v == Value(rows, S) IN
    /\ Sound(v)
    /\ ~v.wentNegative => v.value + v.cogs = SumFunctionOnSet(Brings(rows), S)

\* It holds of every set of movements, by induction on them.
LEMMA HistoryIsConserved ==
    ASSUME NEW rows, Table(rows), NEW S \in SUBSET DOMAIN rows
    PROVE  Conserved(rows, S)
<1> DEFINE D == DOMAIN rows
           Good == {T \in SUBSET D : Conserved(rows, T)}
           f == Brings(rows)
<1>1. /\ IsFiniteSet(D)
      /\ \A i \in D : rows[i] \in Movement /\ f[i] = Brought(rows[i]) /\ f[i] \in Nat
  BY BroughtIsNat DEF Table, Brings
<1> HIDE DEF f
<1>2. ASSUME NEW T \in SUBSET D, \A x \in T : T \ {x} \in Good
      PROVE  T \in Good
  <2>1. CASE T = {}
    <3>1. Value(rows, T) = Nothing
      BY <2>1, ValueUnfold
    <3>2. SumFunctionOnSet(f, T) = 0
      BY <2>1, SumEmpty
    <3>3. ~Nothing.wentNegative => Nothing.value + Nothing.cogs = 0
      BY DEF Nothing
    <3>4. Conserved(rows, T)
      BY <3>1, <3>2, <3>3, NothingIsSound DEF Conserved, f
    <3> QED
      BY <3>4
  <2>2. CASE T # {}
    <3> DEFINE l == Latest(rows, T)
               v == Value(rows, T \ {l})
               m == rows[l]
               w == Step(v, m)
    <3>1. l \in T
      BY <2>2, LatestIsLatest DEF IsLatest
    <3>2. Value(rows, T) = w
      BY <2>2, ValueUnfold
    <3> HIDE DEF l
    <3>3. m \in Movement /\ f[l] = Brought(m)
      BY <1>1, <3>1
    <3>4. Conserved(rows, T \ {l})
      BY <1>2, <3>1
    <3>5. Sound(v) /\ (~v.wentNegative => v.value + v.cogs = SumFunctionOnSet(f, T \ {l}))
      BY <3>4 DEF Conserved, f
    <3>6. SumFunctionOnSet(f, T) = f[l] + SumFunctionOnSet(f, T \ {l})
      <4>1. IsFiniteSet(T) /\ IntOn(f, T)
        BY <1>1, FS_Subset DEF IntOn
      <4> QED
        BY <3>1, <4>1, SumRemove
    <3>7. v.value \in Nat /\ v.cogs \in Nat /\ v.wentNegative \in BOOLEAN
      BY <3>5 DEF Sound, Valuation
    <3>8. Sound(w) /\ (~w.wentNegative =>
                          ~v.wentNegative /\ w.value + w.cogs = v.value + v.cogs + Brought(m))
      <4> HIDE DEF v, m
      <4>1. CASE m.delta > 0
        <5>1. /\ Sound(w) /\ w.wentNegative = v.wentNegative /\ w.cogs = v.cogs
              /\ ~v.wentNegative => w.value = v.value + m.delta * m.unitCost
          BY <3>3, <3>5, <4>1, InboundIsSound
        <5>2. Brought(m) = m.delta * m.unitCost /\ Brought(m) \in Nat
          BY <4>1, <3>3, BroughtIsNat DEF Brought
        <5> DEFINE b == m.delta * m.unitCost
        <5> HIDE DEF b, w
        <5>3. /\ Sound(w) /\ w.wentNegative = v.wentNegative /\ w.cogs = v.cogs
              /\ ~v.wentNegative => w.value = v.value + b
              /\ b = Brought(m) /\ b \in Nat
          BY <5>1, <5>2 DEF b
        <5> QED
          BY <3>7, <5>3
      <4>2. CASE ~(m.delta > 0)
        <5>1. /\ Sound(w)
              /\ ~w.wentNegative =>
                    /\ ~v.wentNegative
                    /\ w.value = v.value - AtAverage(v, -m.delta)
                    /\ w.cogs = v.cogs + AtAverage(v, -m.delta)
          BY <3>3, <3>5, <4>2, OutboundIsSound
        <5>2. AtAverage(v, -m.delta) \in Nat /\ Brought(m) = 0
          <6>1. -m.delta \in Nat
            BY <3>3, <4>2 DEF Movement
          <6> QED
            BY <6>1, <4>2, <3>5, AtAverageIsNat DEF Brought
        <5> HIDE DEF w
        <5> QED
          BY <3>7, <5>1, <5>2
      <4> QED
        BY <4>1, <4>2
    <3>9. Sound(w) /\ (~w.wentNegative => w.value + w.cogs = SumFunctionOnSet(f, T))
      <4> DEFINE rest == SumFunctionOnSet(f, T \ {l})
                 all == SumFunctionOnSet(f, T)
                 b == Brought(m)
      <4>1. all = b + rest /\ (~v.wentNegative => v.value + v.cogs = rest) /\ b \in Nat
        BY <3>3, <3>5, <3>6, BroughtIsNat
      <4>2. Sound(w) /\ (~w.wentNegative =>
                            ~v.wentNegative /\ w.value + w.cogs = v.value + v.cogs + b)
        BY <3>8
      <4> HIDE DEF rest, all, b, v, w
      <4>3. Sound(w) /\ (~w.wentNegative => w.value + w.cogs = all)
        BY <3>7, <4>1, <4>2
      <4> QED
        BY <4>3 DEF all
    <3> HIDE DEF w
    <3>10. Conserved(rows, T)
      BY <3>2, <3>9 DEF Conserved, f
    <3> QED
      BY <3>10
  <2> QED
    BY <2>1, <2>2
<1> HIDE DEF Good
<1>3. \A T \in SUBSET D : T \in Good
  BY <1>1, <1>2, InductionOnSubsets
<1> QED
  BY <1>3 DEF Good

-----------------------------------------------------------------------------
(* The asset account of a straight history *)

\* What an entry does to the Inventory Asset account.
Debits(rows) ==
    [i \in DOMAIN rows |-> IF rows[i].delta > 0 THEN rows[i].posted ELSE -rows[i].posted]

\* Every cost in S is a whole number of cents a unit.
WholeIn(rows, S) ==
    \A i \in S : rows[i].delta > 0 => rows[i].posted = rows[i].delta * rows[i].unitCost

\* Account and report agree on the movements in S.
AgreesOn(rows, S) ==
    WholeIn(rows, S) => /\ SumFunctionOnSet(Debits(rows), S) = Value(rows, S).value
                        /\ ~Value(rows, S).wentNegative

\* A set of rows is a beginning of the history.
Beginning(rows, S) == S \in SUBSET DOMAIN rows /\ \A i \in S : Preceding(rows, i) \subseteq S

\* Any beginning of the history agrees, not only all of it: what is taken out
\* at the end leaves one of them.
SoFar(rows) == \A S : Beginning(rows, S) => AgreesOn(rows, S)

StraightAgrees == straight => SoFar(moves)

IInv == TypeOK /\ StraightAgrees

\* Rows that stay keep everything but their date.
SameRows(before, after) ==
    \A i \in DOMAIN before \cap DOMAIN after :
        /\ before[i].delta = after[i].delta
        /\ before[i].unitCost = after[i].unitCost
        /\ before[i].posted = after[i].posted

\* A step of a straight history.
Follows(before, after) ==
    Table(before) /\ Table(after) /\ SameRows(before, after) /\ AtTheEnd(before, after)

\* What stays is valued as it was.
LEMMA KeptIsValuedAlike ==
    ASSUME NEW before, NEW after, Follows(before, after),
           NEW S \in SUBSET (DOMAIN before \cap DOMAIN after)
    PROVE  /\ Value(after, S) = Value(before, S)
           /\ SumFunctionOnSet(Debits(after), S) = SumFunctionOnSet(Debits(before), S)
           /\ WholeIn(after, S) => WholeIn(before, S)
           /\ Beginning(after, S) => Beginning(before, S)
<1> DEFINE K == DOMAIN before \cap DOMAIN after
<1>1. /\ Table(before) /\ Table(after)
      /\ \A i \in K : /\ before[i].delta = after[i].delta
                      /\ before[i].unitCost = after[i].unitCost
                      /\ before[i].posted = after[i].posted
                      /\ Preceding(before, i) = Preceding(after, i)
  BY DEF Follows, SameRows, AtTheEnd
<1>2. \A i, j \in K : Earlier(before, i, j) => Earlier(after, i, j)
  <2>1. \A i, j \in K : i \in Preceding(before, j) => i \in Preceding(after, j)
    BY <1>1
  <2> QED
    BY <2>1 DEF Preceding
<1>3. Value(before, S) = Value(after, S)
  <2>1. K \in SUBSET (DOMAIN before \cap DOMAIN after) /\ S \in SUBSET K
    OBVIOUS
  <2> HIDE DEF K
  <2> QED
    BY <1>1, <1>2, <2>1, ValuesAgree
<1>4. SumFunctionOnSet(Debits(after), S) = SumFunctionOnSet(Debits(before), S)
  <2>1. \A i \in S : Debits(after)[i] = Debits(before)[i]
    BY <1>1 DEF Debits
  <2>2. IsFiniteSet(S)
    BY <1>1, FS_Subset DEF Table
  <2> QED
    BY <2>1, <2>2, SumAgree
<1>5. WholeIn(after, S) => WholeIn(before, S)
  BY <1>1 DEF WholeIn
<1>6. Beginning(after, S) => Beginning(before, S)
  BY <1>1 DEF Beginning
<1> QED
  BY <1>3, <1>4, <1>5, <1>6

\* A beginning that was there before agrees as it did.
LEMMA KeptAgrees ==
    ASSUME NEW before, NEW after, Follows(before, after), SoFar(before),
           NEW S \in SUBSET (DOMAIN before \cap DOMAIN after), Beginning(after, S)
    PROVE  AgreesOn(after, S)
<1>1. AgreesOn(before, S)
  BY KeptIsValuedAlike DEF SoFar
<1> QED
  BY <1>1, KeptIsValuedAlike DEF AgreesOn

\* A new row that leaves what is before it alone is the last.
LEMMA NewIsLast ==
    ASSUME NEW before, NEW after, Follows(before, after),
           NEW new \in DOMAIN after, new \notin DOMAIN before,
           DOMAIN after \ {new} \subseteq DOMAIN before
    PROVE  \A j \in DOMAIN after \ {new} : Earlier(after, j, new)
<1> SUFFICES ASSUME NEW j \in DOMAIN after \ {new}
             PROVE  Earlier(after, j, new)
  OBVIOUS
<1>1. Preceding(before, j) = Preceding(after, j)
  BY DEF Follows, AtTheEnd
<1>2. ~Earlier(after, new, j)
  BY <1>1 DEF Preceding
<1> QED
  BY <1>2, OrderIsTotal DEF Follows

\* What a handler may enter: stock at a cost, or, if it is the last row, stock
\* there is at the average it has.
Entered(before, after, new) ==
    LET m == after[new]
        v == Value(before, DOMAIN before)
    IN \/ m.delta > 0
       \/ /\ ~(m.delta > 0)
          /\ DOMAIN before \subseteq DOMAIN after
          /\ -m.delta <= v.quantity
          /\ m.posted = AtAverage(v, -m.delta)

\* A beginning with the new row is the whole history, and agrees: the entry
\* has the cost the valuation gives its last step.
LEMMA NewAgrees ==
    ASSUME NEW before, NEW after, Follows(before, after), SoFar(before),
           NEW new \in DOMAIN after, new \notin DOMAIN before,
           DOMAIN after \ {new} \subseteq DOMAIN before,
           Entered(before, after, new),
           NEW S, Beginning(after, S), new \in S
    PROVE  AgreesOn(after, S)
<1> DEFINE K == DOMAIN after \ {new}
           m == after[new]
           v == Value(after, K)
           w == Value(after, S)
           f == Debits(after)
<1>1. Table(before) /\ Table(after) /\ \A j \in K : Earlier(after, j, new)
  BY NewIsLast DEF Follows
<1>2. S = DOMAIN after
  BY <1>1 DEF Beginning, Preceding
<1>3. Beginning(after, K)
  <2> SUFFICES ASSUME NEW i \in K, NEW j \in Preceding(after, i)
               PROVE  j \in K
    BY DEF Beginning
  <2>1. j \in DOMAIN after /\ Earlier(after, j, i) /\ Earlier(after, i, new)
    BY <1>1 DEF Preceding
  <2> QED
    BY <1>1, <2>1, OrderIsTotal
<1>4. K \in SUBSET (DOMAIN before \cap DOMAIN after) /\ K \in SUBSET DOMAIN after
  OBVIOUS
<1> HIDE DEF K
<1>5. AgreesOn(after, K) /\ v = Value(before, K) /\ Sound(v)
  BY <1>1, <1>3, <1>4, KeptAgrees, KeptIsValuedAlike, HistoryIsConserved DEF Conserved
<1>6. w = Step(v, m)
  <2>1. IsLatest(after, S, new)
    BY <1>1, <1>2 DEF IsLatest, K
  <2>2. Latest(after, S) = new /\ S # {} /\ S \ {new} = K /\ S \in SUBSET DOMAIN after
    BY <1>1, <1>2, <2>1, LatestIsUnique DEF K
  <2> HIDE DEF w
  <2>3. Value(after, S) = Step(Value(after, S \ {Latest(after, S)}), after[Latest(after, S)])
    BY <1>1, <2>2, ValueUnfold
  <2> QED
    BY <2>2, <2>3 DEF w
<1>7. /\ m \in Movement /\ m.delta \in Int /\ m.posted \in Nat
      /\ v.value \in Nat /\ v.wentNegative \in BOOLEAN
  BY <1>1, <1>5 DEF Table, Movement, Sound, Valuation
<1>8. /\ f[new] = IF m.delta > 0 THEN m.posted ELSE -m.posted
      /\ SumFunctionOnSet(f, S) = f[new] + SumFunctionOnSet(f, K)
  <2>1. IsFiniteSet(S)
    BY <1>1, <1>2 DEF Table
  <2>2. \A i \in S : after[i].delta \in Int /\ after[i].posted \in Nat
    BY <1>1, <1>2 DEF Table, Movement
  <2>3. IntOn(f, S)
    BY <1>2, <2>2 DEF IntOn, Debits
  <2>4. S \ {new} = K
    BY <1>2 DEF K
  <2> HIDE DEF f
  <2>5. SumFunctionOnSet(f, S) = f[new] + SumFunctionOnSet(f, K)
    BY <2>1, <2>3, <2>4, SumRemove
  <2> QED
    BY <2>5 DEF f, Debits
<1> SUFFICES ASSUME WholeIn(after, S)
             PROVE  SumFunctionOnSet(f, S) = w.value /\ ~w.wentNegative
  BY DEF AgreesOn
<1>9. WholeIn(after, K) /\ (m.delta > 0 => m.posted = m.delta * m.unitCost)
  BY <1>2 DEF WholeIn, K
<1>10. SumFunctionOnSet(f, K) = v.value /\ ~v.wentNegative
  BY <1>5, <1>9 DEF AgreesOn
<1> HIDE DEF f, v, m, w
<1>11. CASE m.delta > 0
  <2>1. w.wentNegative = v.wentNegative /\ w.value = v.value + m.delta * m.unitCost
    BY <1>5, <1>6, <1>7, <1>10, <1>11, InboundIsSound
  <2>2. w.value = v.value + m.posted
    BY <1>9, <1>11, <2>1
  <2> QED
    BY <1>7, <1>8, <1>10, <1>11, <2>1, <2>2
<1>12. CASE ~(m.delta > 0)
  <2>1. K = DOMAIN before
    BY <1>12 DEF Entered, K, m
  <2>2. -m.delta <= v.quantity /\ m.posted = AtAverage(v, -m.delta)
    BY <1>5, <1>12, <2>1 DEF Entered, m
  <2>3. ~w.wentNegative /\ w.value = v.value - AtAverage(v, -m.delta)
    BY <1>5, <1>6, <1>7, <1>10, <1>12, <2>2, OutboundIsSound
  <2>4. w.value = v.value - m.posted
    BY <2>2, <2>3
  <2> QED
    BY <1>7, <1>8, <1>10, <1>12, <2>3, <2>4
<1> QED
  BY <1>11, <1>12

-----------------------------------------------------------------------------
(* The types *)

\* The table of the database, and an id that is free.
LEMMA MovesAreTable == ASSUME TypeOK PROVE Table(moves) /\ nextId \in Nat /\ nextId \notin DOMAIN moves
<1>1. nextId \in Nat /\ nextId - 1 \in Int /\ 1 \in Int
  BY StockAssumption DEF TypeOK
<1>2. IsFiniteSet(1..(nextId - 1))
  BY <1>1, FS_Interval
<1>3. DOMAIN moves \subseteq 1..(nextId - 1)
  BY DEF TypeOK
<1>4. IsFiniteSet(DOMAIN moves)
  BY <1>2, <1>3, FS_Subset
<1>5. moves \in [DOMAIN moves -> Movement]
  BY DEF TypeOK
<1> QED
  BY <1>1, <1>3, <1>4, <1>5 DEF Table

\* What a report filters.
LEMMA UptoIsTable ==
    ASSUME NEW rows, Table(rows), NEW date
    PROVE  Table(Upto(rows, date))
<1>1. DOMAIN Upto(rows, date) \subseteq DOMAIN rows
  BY DEF Upto
<1>2. IsFiniteSet(DOMAIN Upto(rows, date))
  BY <1>1, FS_Subset DEF Table
<1>3. Upto(rows, date) \in [DOMAIN Upto(rows, date) -> Movement]
  BY DEF Upto, Table
<1> QED
  BY <1>1, <1>2, <1>3 DEF Table

\* What a correction or a removal leaves.
LEMMA WithoutIsTable ==
    ASSUME TypeOK, NEW id
    PROVE  /\ Table(Without(id))
           /\ DOMAIN Without(id) = DOMAIN moves \ {id}
           /\ \A i \in DOMAIN Without(id) : Without(id)[i] = moves[i]
<1>1. DOMAIN Without(id) = DOMAIN moves \ {id} /\ \A i \in DOMAIN Without(id) : Without(id)[i] = moves[i]
  BY DEF Without
<1>2. IsFiniteSet(DOMAIN Without(id))
  BY <1>1, MovesAreTable, FS_Subset DEF Table
<1>3. Without(id) \in [DOMAIN Without(id) -> Movement]
  BY MovesAreTable DEF Without, Table
<1>4. DOMAIN Without(id) \subseteq Nat
  BY <1>1, MovesAreTable DEF Table
<1> QED
  BY <1>1, <1>2, <1>3, <1>4 DEF Table

\* What a handler may leave of the table: rows of it with another date at most.
Left(rows) ==
    /\ Table(rows)
    /\ DOMAIN rows \subseteq DOMAIN moves
    /\ SameRows(moves, rows)

\* What a handler that adds a row leaves.
LEMMA WithIsTable ==
    ASSUME TypeOK, NEW rows, Left(rows), NEW m \in Movement
    PROVE  /\ Table(With(rows, m))
           /\ DOMAIN With(rows, m) = DOMAIN rows \cup {nextId}
           /\ With(rows, m)[nextId] = m
           /\ \A i \in DOMAIN rows : With(rows, m)[i] = rows[i]
<1>1. nextId \in Nat /\ nextId \notin DOMAIN rows
  BY MovesAreTable DEF Left
<1>2. /\ DOMAIN With(rows, m) = DOMAIN rows \cup {nextId}
      /\ With(rows, m)[nextId] = m
      /\ \A i \in DOMAIN rows : With(rows, m)[i] = rows[i]
  BY <1>1 DEF With
<1>3. IsFiniteSet(DOMAIN With(rows, m))
  BY <1>2, FS_AddElement DEF Left, Table
<1>4. With(rows, m) \in [DOMAIN With(rows, m) -> Movement]
  BY DEF With, Left, Table
<1>5. DOMAIN With(rows, m) \subseteq Nat
  BY <1>1, <1>2 DEF Left, Table
<1> QED
  BY <1>2, <1>3, <1>4, <1>5 DEF Table

\* Adding a row keeps the types.
LEMMA InsertTyped ==
    ASSUME TypeOK, NEW rows, Left(rows), NEW m \in Movement, Insert(rows, m)
    PROVE  TypeOK'
<1>1. nextId \in Nat /\ nextId \in 1..(MaxMovements + 1) /\ nextId <= MaxMovements /\ nextId' = nextId + 1
  BY MovesAreTable DEF TypeOK, Insert
<1>2. nextId' \in 1..(MaxMovements + 1)
  BY <1>1, StockAssumption
<1>3. moves' = With(rows, m) /\ straight' \in BOOLEAN
  BY DEF Insert, Becomes, TypeOK
<1>4. DOMAIN moves' \subseteq 1..(nextId' - 1)
  <2>1. DOMAIN moves \subseteq 1..(nextId - 1) /\ DOMAIN rows \subseteq DOMAIN moves
    BY DEF TypeOK, Left
  <2>2. nextId' - 1 = nextId /\ 1..(nextId - 1) \subseteq 1..nextId /\ nextId \in 1..nextId
    BY <1>1
  <2> QED
    <3>1. DOMAIN With(rows, m) = DOMAIN rows \cup {nextId}
      BY WithIsTable
    <3> QED
      BY <1>3, <2>1, <2>2, <3>1
<1>5. moves' \in [DOMAIN moves' -> Movement]
  BY <1>3, WithIsTable DEF Table
<1> QED
  BY <1>2, <1>3, <1>4, <1>5 DEF TypeOK

\* So do removal and redating.
LEMMA LeftTyped ==
    ASSUME TypeOK, NEW rows, Left(rows), Becomes(rows), UNCHANGED nextId
    PROVE  TypeOK'
BY DEF TypeOK, Left, Table, Becomes

-----------------------------------------------------------------------------
(* A straight history stays in agreement *)

\* Removal and redating keep a straight history in agreement.
LEMMA LeftAgrees ==
    ASSUME TypeOK, StraightAgrees, NEW rows, Left(rows), Becomes(rows)
    PROVE  StraightAgrees'
<1> SUFFICES ASSUME straight, AtTheEnd(moves, rows)
             PROVE  SoFar(rows)
  BY DEF StraightAgrees, Becomes, SoFar, AgreesOn, WholeIn, Beginning
<1>1. Follows(moves, rows) /\ SoFar(moves)
  BY MovesAreTable DEF Left, Follows, StraightAgrees
<1>2. ASSUME NEW S, Beginning(rows, S)
      PROVE  AgreesOn(rows, S)
  <2>1. S \in SUBSET (DOMAIN moves \cap DOMAIN rows)
    BY <1>2 DEF Beginning, Left
  <2> QED
    BY <1>1, <1>2, <2>1, KeptAgrees
<1> QED
  BY <1>2 DEF SoFar

\* Adding a row at the end is a step of a straight history.
LEMMA InsertFollows ==
    ASSUME TypeOK, NEW rows, Left(rows), NEW m \in Movement,
           AtTheEnd(moves, With(rows, m))
    PROVE  Follows(moves, With(rows, m))
<1> DEFINE after == With(rows, m)
<1>1. /\ Table(after) /\ DOMAIN after = DOMAIN rows \cup {nextId}
      /\ \A i \in DOMAIN rows : after[i] = rows[i]
  BY WithIsTable
<1>2. Table(moves) /\ nextId \notin DOMAIN moves
  BY MovesAreTable
<1> HIDE DEF after
<1>3. SameRows(moves, after)
  BY <1>1, <1>2 DEF SameRows, Left
<1> QED
  BY <1>1, <1>2, <1>3 DEF Follows, after

\* Adding what may be entered keeps it in agreement.
LEMMA InsertAgrees ==
    ASSUME TypeOK, StraightAgrees, NEW rows, Left(rows), NEW m \in Movement, Insert(rows, m),
           AtTheEnd(moves, With(rows, m)) => Entered(moves, With(rows, m), nextId)
    PROVE  StraightAgrees'
<1> DEFINE after == With(rows, m)
<1> SUFFICES ASSUME straight, AtTheEnd(moves, after)
             PROVE  SoFar(after)
  BY DEF StraightAgrees, Insert, Becomes, SoFar, AgreesOn, WholeIn, Beginning
<1>1. Follows(moves, after) /\ SoFar(moves) /\ Entered(moves, after, nextId)
  BY InsertFollows DEF StraightAgrees
<1>2. /\ DOMAIN after = DOMAIN rows \cup {nextId} /\ DOMAIN rows \subseteq DOMAIN moves
      /\ nextId \notin DOMAIN moves
  BY WithIsTable, MovesAreTable DEF Left
<1> HIDE DEF after
<1>3. ASSUME NEW S, Beginning(after, S)
      PROVE  AgreesOn(after, S)
  <2>1. CASE nextId \in S
    <3>1. nextId \in DOMAIN after /\ DOMAIN after \ {nextId} \subseteq DOMAIN moves
      BY <1>2
    <3> QED
      BY <1>1, <1>2, <1>3, <2>1, <3>1, NewAgrees
  <2>2. CASE nextId \notin S
    <3>1. S \in SUBSET (DOMAIN moves \cap DOMAIN after)
      BY <1>2, <1>3, <2>2 DEF Beginning
    <3> QED
      BY <1>1, <1>3, <3>1, KeptAgrees
  <2> QED
    BY <2>1, <2>2
<1> QED
  BY <1>3 DEF SoFar

\* The tables handlers start from.
LEMMA MovesAreLeft == ASSUME TypeOK PROVE Left(moves)
BY MovesAreTable DEF Left, SameRows

\* And those of billsUpdate and of removal.
LEMMA WithoutIsLeft == ASSUME TypeOK, NEW id PROVE Left(Without(id))
BY WithoutIsTable DEF Left, SameRows

\* Stock brought in.
LEMMA BroughtInKeeps ==
    ASSUME TypeOK, StraightAgrees, NEW rows, Left(rows), NEW m \in Movement, m.delta > 0,
           Insert(rows, m)
    PROVE  TypeOK' /\ StraightAgrees'
<1>1. Entered(moves, With(rows, m), nextId)
  BY WithIsTable DEF Entered
<1> QED
  BY <1>1, InsertTyped, InsertAgrees

\* Stock that leaves at the average of what came no later.
LEMMA IssueKeeps ==
    ASSUME TypeOK, StraightAgrees, NEW date \in Day, NEW quantity \in Quantity,
           NEW source \in Source, NEW prior \in {moves, Upto(moves, date)},
           Issue(prior, date, quantity, source)
    PROVE  TypeOK' /\ StraightAgrees'
<1> DEFINE v == ValueProduct(prior)
           cost == AtAverage(v, quantity)
           m == [date |-> date, delta |-> -quantity, unitCost |-> 0,
                 posted |-> cost, source |-> source]
           after == With(moves, m)
<1>1. Table(moves) /\ Table(prior) /\ v = Value(prior, DOMAIN prior) /\ Sound(v)
  <2>1. Table(moves) /\ Table(prior)
    BY MovesAreTable, UptoIsTable
  <2> QED
    BY <2>1, ValueProductIs, HistoryIsConserved DEF Conserved
<1>2. quantity \in Nat /\ quantity > 0 /\ quantity <= v.quantity /\ Insert(moves, m)
  BY StockAssumption DEF Issue
<1> HIDE DEF v
<1>3. cost \in Nat
  BY <1>1, <1>2, AtAverageIsNat
<1>4. m \in Movement /\ m.delta = -quantity /\ m.posted = cost /\ m.date = date
  BY <1>2, <1>3 DEF Movement
<1> HIDE DEF cost, m
<1>5. /\ DOMAIN after = DOMAIN moves \cup {nextId} /\ after[nextId] = m
      /\ \A i \in DOMAIN moves : after[i] = moves[i]
      /\ nextId \notin DOMAIN moves
  BY <1>4, MovesAreLeft, WithIsTable, MovesAreTable
<1>6. ASSUME AtTheEnd(moves, after)
      PROVE  Entered(moves, after, nextId)
  <2>1. Follows(moves, after)
    BY <1>4, <1>6, MovesAreLeft, InsertFollows
  <2> HIDE DEF after
  <2>2. \A j \in DOMAIN after \ {nextId} : Earlier(after, j, nextId)
    BY <1>5, <2>1, NewIsLast
  <2>3. \A j \in DOMAIN moves : moves[j].date <= date
    <3> SUFFICES ASSUME NEW j \in DOMAIN moves
                 PROVE  moves[j].date <= date
      OBVIOUS
    <3>1. Earlier(after, j, nextId) /\ after[j] = moves[j] /\ after[nextId].date = date
      BY <1>4, <1>5, <2>2
    <3>2. moves[j].date \in Nat /\ date \in Nat
      BY <1>1, DatesAreNumbers, StockAssumption
    <3> QED
      BY <3>1, <3>2 DEF Earlier
  <2>4. Upto(moves, date) = moves
    <3>1. {j \in DOMAIN moves : moves[j].date <= date} = DOMAIN moves
      BY <2>3
    <3> QED
      BY <1>1, <3>1 DEF Upto, Table
  <2>5. v = Value(moves, DOMAIN moves)
    BY <1>1, <2>4
  <2>6. ~(m.delta > 0) /\ -m.delta = quantity
    BY <1>2, <1>4
  <2> QED
    BY <1>2, <1>4, <1>5, <2>5, <2>6 DEF Entered, cost
<1> QED
  BY <1>2, <1>4, <1>6, MovesAreLeft, InsertTyped, InsertAgrees

-----------------------------------------------------------------------------
(* The handlers *)

\* A new company file.
LEMMA InitHolds == Init => IInv
<1> SUFFICES ASSUME Init PROVE IInv
  OBVIOUS
<1>1. moves = [i \in {} |-> 0] /\ nextId = 1 /\ straight = TRUE
  BY DEF Init
<1>2. DOMAIN moves = {} /\ moves \in [DOMAIN moves -> Movement]
  BY <1>1
<1>3. TypeOK
  BY <1>1, <1>2, StockAssumption DEF TypeOK
<1>4. ASSUME NEW S, Beginning(moves, S)
      PROVE  AgreesOn(moves, S)
  <2>1. S = {} /\ S \in SUBSET DOMAIN moves /\ Table(moves)
    BY <1>2, <1>3, <1>4, MovesAreTable DEF Beginning
  <2>2. Value(moves, S) = Nothing
    BY <2>1, ValueUnfold
  <2>3. SumFunctionOnSet(Debits(moves), S) = 0
    BY <2>1, SumEmpty
  <2> QED
    BY <2>2, <2>3 DEF AgreesOn, Nothing
<1> QED
  BY <1>3, <1>4 DEF IInv, StraightAgrees, SoFar

\* Stock from the stock screen.
LEMMA MovementsCreateInKeeps ==
    ASSUME IInv, NEW date \in Day, NEW quantity \in Quantity, NEW c \in UnitCost,
           MovementsCreateIn(date, quantity, c)
    PROVE  IInv'
<1> DEFINE m == [date |-> date, delta |-> quantity, unitCost |-> c,
                 posted |-> quantity * c, source |-> "none"]
<1>1. quantity \in Nat /\ quantity > 0 /\ c \in Nat
  BY StockAssumption
<1>2. quantity * c \in Nat
  BY <1>1
<1>3. m \in Movement /\ m.delta > 0
  BY <1>1, <1>2 DEF Movement, Source
<1>4. Insert(moves, m)
  BY DEF MovementsCreateIn
<1> HIDE DEF m
<1> QED
  BY <1>3, <1>4, MovesAreLeft, BroughtInKeeps DEF IInv

\* What a bill or a receipt of goods enters is a movement.
LEMMA BoughtIsMovement ==
    ASSUME NEW date \in Day, NEW quantity \in Quantity, NEW cents \in Cents, NEW source \in Source
    PROVE  Bought(date, quantity, cents, source) \in Movement
           /\ Bought(date, quantity, cents, source).delta > 0
<1>1. quantity \in Nat /\ quantity > 0 /\ cents \in Nat
  BY StockAssumption
<1>2. Rounded(cents, quantity) \in Nat
  BY <1>1, RoundedIsNat
<1> QED
  BY <1>1, <1>2 DEF Bought, Movement

\* Stock on a bill or received on an order.
LEMMA BuyKeeps ==
    ASSUME IInv, NEW date \in Day, NEW quantity \in Quantity, NEW cents \in Cents,
           NEW source \in Source, Buy(date, quantity, cents, source)
    PROVE  IInv'
<1>1. Insert(moves, Bought(date, quantity, cents, source))
  BY DEF Buy
<1> QED
  BY <1>1, BoughtIsMovement, MovesAreLeft, BroughtInKeeps DEF IInv

\* A bill's stock, corrected with it.
LEMMA BillsUpdateKeeps ==
    ASSUME IInv, NEW date \in Day, NEW quantity \in Quantity, NEW cents \in Cents,
           NEW id \in DOMAIN moves, BillsUpdate(id, date, quantity, cents)
    PROVE  IInv'
<1>1. Insert(Without(id), Bought(date, quantity, cents, "bill")) /\ "bill" \in Source
  BY DEF BillsUpdate, Source
<1> QED
  BY <1>1, BoughtIsMovement, WithoutIsLeft, BroughtInKeeps DEF IInv

\* Removal and redating together.
LEMMA LeftKeeps ==
    ASSUME IInv, NEW rows, Left(rows), Becomes(rows), UNCHANGED nextId
    PROVE  IInv'
BY LeftTyped, LeftAgrees DEF IInv

\* Deletion, reversal and withdrawal.
LEMMA TakeKeeps ==
    ASSUME IInv, NEW id, Take(id)
    PROVE  IInv'
BY WithoutIsLeft, LeftKeeps DEF IInv, Take

\* Another date.
LEMMA RedateKeeps ==
    ASSUME IInv, NEW id \in DOMAIN moves, NEW date \in Day, Redate(id, date)
    PROVE  IInv'
<1> DEFINE rows == [moves EXCEPT ![id].date = date]
<1>1. Table(moves) /\ moves \in [DOMAIN moves -> Movement]
  BY MovesAreTable DEF IInv, TypeOK
<1>2. DOMAIN rows = DOMAIN moves
  OBVIOUS
<1>3. /\ rows[id] = [moves[id] EXCEPT !.date = date]
      /\ \A i \in DOMAIN moves \ {id} : rows[i] = moves[i]
  OBVIOUS
<1>4. moves[id] \in Movement
  BY <1>1
<1>5. /\ rows[id] \in Movement
      /\ rows[id].delta = moves[id].delta
      /\ rows[id].unitCost = moves[id].unitCost
      /\ rows[id].posted = moves[id].posted
  BY <1>3, <1>4 DEF Movement
<1>6. rows \in [DOMAIN rows -> Movement]
  <2>1. \A i \in DOMAIN rows : rows[i] \in Movement
    BY <1>1, <1>2, <1>3, <1>5
  <2>2. rows = [i \in DOMAIN rows |-> rows[i]]
    OBVIOUS
  <2> HIDE DEF rows
  <2> QED
    BY <2>1, <2>2
<1>7. Becomes(rows) /\ UNCHANGED nextId
  BY DEF Redate
<1> HIDE DEF rows
<1>8. Left(rows)
  <2>1. SameRows(moves, rows)
    BY <1>2, <1>3, <1>5 DEF SameRows
  <2>2. Table(rows)
    BY <1>1, <1>2, <1>6 DEF Table
  <2> QED
    BY <1>2, <2>1, <2>2 DEF Left
<1> QED
  BY <1>7, <1>8, LeftKeeps

\* Every handler keeps the invariant.
LEMMA NextKeeps == IInv /\ [Next]_vars => IInv'
<1> SUFFICES ASSUME IInv, [Next]_vars PROVE IInv'
  OBVIOUS
<1>1. ASSUME NEW date \in Day, NEW quantity \in Quantity, NEW c \in UnitCost,
             MovementsCreateIn(date, quantity, c)
      PROVE  IInv'
  BY <1>1, MovementsCreateInKeeps
<1>2. ASSUME NEW date \in Day, NEW quantity \in Quantity, MovementsCreateOut(date, quantity)
      PROVE  IInv'
  <2>1. Issue(Upto(moves, date), date, quantity, "none") /\ "none" \in Source
    BY <1>2 DEF MovementsCreateOut, Prior, Source
  <2> QED
    BY <2>1, IssueKeeps DEF IInv
<1>3. ASSUME NEW date \in Day, NEW quantity \in Quantity, NEW s \in Source, Sell(date, quantity, s)
      PROVE  IInv'
  <2>1. Issue(moves, date, quantity, s)
    BY <1>3 DEF Sell
  <2> QED
    BY <2>1, IssueKeeps DEF IInv
<1>4. ASSUME NEW date \in Day, NEW quantity \in Quantity, NEW c \in Cents, NEW s \in Source,
             Buy(date, quantity, c, s)
      PROVE  IInv'
  BY <1>4, BuyKeeps
<1>5. ASSUME NEW date \in Day, NEW quantity \in Quantity, NEW c \in Cents, NEW i \in DOMAIN moves,
             BillsUpdate(i, date, quantity, c)
      PROVE  IInv'
  BY <1>5, BillsUpdateKeeps
<1>6. ASSUME NEW i \in DOMAIN moves,
             Withdraw(i) \/ MovementsDelete(i) \/ MovementsReverse(i)
      PROVE  IInv'
  BY <1>6, TakeKeeps DEF Withdraw, MovementsDelete, MovementsReverse
<1>7. ASSUME NEW i \in DOMAIN moves, NEW date \in Day, Redate(i, date)
      PROVE  IInv'
  BY <1>7, RedateKeeps
<1>8. CASE UNCHANGED vars
  <2>1. TypeOK'
    BY <1>8 DEF vars, IInv, TypeOK
  <2>2. StraightAgrees'
    BY <1>8 DEF vars, IInv, StraightAgrees, SoFar, AgreesOn, WholeIn, Beginning
  <2> QED
    BY <2>1, <2>2 DEF IInv
<1>9. CASE Next
  BY <1>9, <1>1, <1>2, <1>3, <1>4, <1>5, <1>6, <1>7 DEF Next
<1> QED
  BY <1>8, <1>9

-----------------------------------------------------------------------------
(* The theorems *)

\* The inductive invariant holds in every reachable state.
THEOREM InvariantHolds == Spec => []IInv
<1>1. Init => IInv
  BY InitHolds
<1>2. IInv /\ [Next]_vars => IInv'
  BY NextKeeps
<1> QED
  BY <1>1, <1>2, PTL DEF Spec

\* Movements have whole costs and entries that are not negative, whatever the
\* averages: no handler posts a negative amount (movementsCreate,
\* writeBillLinesAndStock, writeInvoiceLinesAndStock).
THEOREM TypeCorrect == Spec => []TypeOK
<1>1. IInv => TypeOK
  BY DEF IInv
<1> QED
  BY <1>1, InvariantHolds, PTL

\* As long as movements come and go at the end of the history, the Inventory
\* Asset account holds what the stock report says, to the cent, after any
\* number of rounded averages (movementsCreate, valueProduct).
THEOREM StockAlwaysAgrees == Spec => []StockAgrees
<1>1. IInv => StockAgrees
  <2> SUFFICES ASSUME IInv, straight, WholeCents
               PROVE  /\ AssetBalance = ValueProduct(moves).value
                      /\ ~ValueProduct(moves).wentNegative
    BY DEF StockAgrees
  <2>1. Beginning(moves, DOMAIN moves)
    BY DEF Beginning, Preceding
  <2>2. AgreesOn(moves, DOMAIN moves)
    BY <2>1 DEF IInv, StraightAgrees, SoFar
  <2>3. WholeIn(moves, DOMAIN moves)
    BY DEF WholeCents, WholeIn
  <2>4. AssetBalance = SumFunctionOnSet(Debits(moves), DOMAIN moves)
    <3>1. AssetBalance = SumFunction(Debits(moves)) /\ DOMAIN Debits(moves) = DOMAIN moves
      BY DEF AssetBalance, Debits
    <3> QED
      BY <3>1 DEF SumFunction
  <2>5. ValueProduct(moves) = Value(moves, DOMAIN moves)
    BY ValueProductIs
  <2> QED
    BY <2>2, <2>3, <2>4, <2>5 DEF AgreesOn
<1> QED
  BY <1>1, InvariantHolds, PTL

\* On any day of any history every cent paid for stock is on the shelf or was
\* charged once, and stock is never worth less than nothing (inventoryStatus).
THEOREM CostsAreAlwaysConserved == Spec => []CostsConserved
<1>1. TypeOK => CostsConserved
  <2> SUFFICES ASSUME TypeOK, NEW date \in Day
               PROVE  LET v == InventoryStatus(date)
                          paid == SumFunction([i \in DOMAIN Upto(moves, date) |->
                                                 IF moves[i].delta > 0
                                                 THEN moves[i].delta * moves[i].unitCost ELSE 0])
                      IN /\ v.value >= 0
                         /\ v.quantity <= 0 => v.value = 0
                         /\ ~v.wentNegative => v.value + v.cogs = paid
    BY DEF CostsConserved
  <2> DEFINE rows == Upto(moves, date)
             v == InventoryStatus(date)
             brings == [i \in DOMAIN rows |-> IF moves[i].delta > 0
                                              THEN moves[i].delta * moves[i].unitCost ELSE 0]
  <2>1. Table(rows)
    BY MovesAreTable, UptoIsTable
  <2>2. brings = Brings(rows) /\ DOMAIN brings = DOMAIN rows
    BY DEF Upto, Brings, Brought
  <2>3. v = Value(rows, DOMAIN rows)
    BY ValueProductIs DEF InventoryStatus
  <2> HIDE DEF rows
  <2>4. Conserved(rows, DOMAIN rows)
    BY <2>1, HistoryIsConserved
  <2> HIDE DEF v, brings
  <2>5. SumFunction(brings) = SumFunctionOnSet(Brings(rows), DOMAIN rows)
    BY <2>2 DEF SumFunction
  <2>6. /\ v.value >= 0
        /\ v.quantity <= 0 => v.value = 0
        /\ ~v.wentNegative => v.value + v.cogs = SumFunction(brings)
    BY <2>3, <2>4, <2>5 DEF Conserved, Sound, Valuation
  <2> QED
    BY <2>6 DEF v, brings, rows
<1> QED
  BY <1>1, TypeCorrect, PTL

=============================================================================
