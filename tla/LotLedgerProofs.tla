--------------------------- MODULE LotLedgerProofs ---------------------------
(***************************************************************************)
(* The two integrity rules of the lot ledger, for every number of lots and *)
(* stock rows and every bound.  A posting that adds d to one summand adds  *)
(* d to every partial sum from that summand on; that is the whole argument *)
(* (LEMMA AddToSummand), and it needs no induction because SumsTo is       *)
(* stated by its partial sums.                                             *)
(***************************************************************************)
EXTENDS LotLedger, TLAPS

\* A row of zeros sums to zero.
LEMMA ZeroSum ==
    ASSUME NEW n \in Nat, NEW f, \A k \in 1..n : f[k] = 0
    PROVE  SumsTo(f, n, 0)
<1> DEFINE p == [m \in 0..n |-> 0]
<1>1. p \in [0..n -> 0..0]
  OBVIOUS
<1>2. \A k \in 1..n : k - 1 \in 0..n /\ k \in 0..n
  OBVIOUS
<1>3. PartialSums(f, n, 0, p)
  BY <1>2 DEF PartialSums
<1> QED
  BY <1>1, <1>3 DEF SumsTo

\* Adding d to the summand at k adds d to the sum, as long as the summand
\* stays a natural number: no partial sum is then negative or out of order.
LEMMA AddToSummand ==
    ASSUME NEW n \in Nat, NEW f, NEW g, NEW k \in 1..n, NEW d \in Int,
           NEW total \in Nat,
           \A m \in 1..n : f[m] \in Nat,
           f[k] + d \in Nat,
           g[k] = f[k] + d,
           \A m \in 1..n : m # k => g[m] = f[m],
           SumsTo(f, n, total)
    PROVE  total + d \in Nat /\ SumsTo(g, n, total + d)
<1>1. PICK p \in [0..n -> 0..total] : PartialSums(f, n, total, p)
  BY DEF SumsTo
<1> DEFINE q == [m \in 0..n |-> IF m >= k THEN p[m] + d ELSE p[m]]
<1>2. \A m \in 0..n : p[m] \in Nat /\ p[m] <= total
  BY <1>1
<1>3. /\ p[0] = 0
      /\ p[n] = total
      /\ \A m \in 1..n : p[m] = p[m - 1] + f[m]
      /\ \A a, b \in 0..n : a <= b => p[a] <= p[b]
  BY <1>1 DEF PartialSums
<1>4. /\ k - 1 \in 0..n
      /\ k \in 0..n
      /\ p[k] = p[k - 1] + f[k]
      /\ p[k] + d \in Nat
      /\ p[k - 1] <= p[k] + d
  BY <1>2, <1>3
<1>5. \A m \in 0..n : m >= k => p[k] <= p[m]
  BY <1>3, <1>4
<1>6. total + d \in Nat
  BY <1>2, <1>3, <1>4, <1>5
<1>7. \A m \in 0..n : q[m] \in Nat
  BY <1>2, <1>4, <1>5
<1>8. q[0] = 0 /\ q[n] = total + d
  BY <1>3
<1>9. \A m \in 1..n : q[m] = q[m - 1] + g[m]
  <2> TAKE m \in 1..n
  <2>1. /\ m \in 0..n
        /\ m - 1 \in 0..n
        /\ p[m] \in Nat
        /\ p[m - 1] \in Nat
        /\ p[m] = p[m - 1] + f[m]
        /\ f[m] \in Nat
    BY <1>2, <1>3
  <2>2. CASE m = k
    BY <2>1, <2>2
  <2>3. CASE m < k
    BY <2>1, <2>3
  <2>4. CASE m > k
    BY <2>1, <2>4
  <2> QED
    BY <2>2, <2>3, <2>4
<1>10. \A a, b \in 0..n : a <= b => q[a] <= q[b]
  <2> SUFFICES ASSUME NEW a \in 0..n, NEW b \in 0..n, a <= b
               PROVE  q[a] <= q[b]
    OBVIOUS
  <2>1. p[a] <= p[b] /\ p[a] \in Nat /\ p[b] \in Nat
    BY <1>2, <1>3
  <2>2. CASE b < k
    BY <2>1, <2>2
  <2>3. CASE a >= k
    BY <2>1, <2>3
  <2>4. CASE a < k /\ b >= k
    <3>1. p[a] <= p[k - 1]
      BY <1>3, <1>4, <2>4
    <3>2. p[k] <= p[b]
      BY <1>5, <2>4
    <3>3. q[a] = p[a] /\ q[b] = p[b] + d
      BY <2>4
    <3> QED
      BY <1>2, <1>4, <2>1, <3>1, <3>2, <3>3
  <2> QED
    BY <2>2, <2>3, <2>4
<1>11. q \in [0..n -> 0..(total + d)]
  <2>1. \A m \in 0..n : q[m] <= q[n]
    BY <1>10
  <2> HIDE DEF q
  <2>2. \A m \in 0..n : q[m] \in 0..(total + d)
    BY <1>6, <1>7, <1>8, <2>1
  <2>3. q = [m \in 0..n |-> q[m]]
    BY DEF q
  <2> QED
    BY <2>2, <2>3
<1>12. PartialSums(g, n, total + d, q)
  <2> HIDE DEF q
  <2> QED
    BY <1>8, <1>9, <1>10 DEF PartialSums
<1> QED
  <2> HIDE DEF q
  <2> QED
    BY <1>6, <1>11, <1>12 DEF SumsTo

-----------------------------------------------------------------------------
\* Every figure of the ledger stays a natural number: integrity rule 3, no
\* posting takes a balance, a lot or a stock row below zero.
THEOREM TypeCorrect == Spec => []TypeOK
<1>1. Init => TypeOK
  BY DEF Init, TypeOK
<1>2. TypeOK /\ [Next]_vars => TypeOK'
  <2> SUFFICES ASSUME TypeOK, [Next]_vars
               PROVE  TypeOK'
    OBVIOUS
  <2> USE LedgerAssumption DEF TypeOK
  <2>1. ASSUME NEW l \in Lots, NEW i \in Stocks, NEW d \in Int, Post(l, i, d)
        PROVE  /\ balance' \in [Lots -> [Stocks -> Nat]]
               /\ remaining' \in [Lots -> Nat]
               /\ quantity' \in [Stocks -> Nat]
    <3>1. /\ balance[l] \in [Stocks -> Nat]
          /\ balance[l][i] + d \in Nat
          /\ remaining[l] + d \in Nat
          /\ quantity[i] + d \in Nat
      BY <2>1 DEF Post
    <3> QED
      BY <2>1, <3>1 DEF Post
  <2>2. CASE UNCHANGED vars
    BY <2>2 DEF vars
  <2>3. ASSUME NEW l \in Lots, NEW i \in Stocks, NEW q \in Quantities,
               Receive(l, i, q)
        PROVE  TypeOK'
    BY <2>1, <2>3 DEF Receive
  <2>4. ASSUME NEW l \in Lots, NEW i \in Stocks, NEW q \in Quantities,
               Consume(l, i, q)
        PROVE  TypeOK'
    BY <2>1, <2>4 DEF Consume
  <2>5. ASSUME NEW l \in Lots, NEW i \in Stocks, NEW q \in Quantities,
               GiveBack(l, i, q)
        PROVE  TypeOK'
    BY <2>1, <2>5 DEF GiveBack
  <2>6. ASSUME NEW l \in Lots, NEW i \in Stocks, NEW q \in Quantities,
               NEW j \in Stocks, Move(l, i, j, q)
        PROVE  TypeOK'
    <3>1. /\ balance[l] \in [Stocks -> Nat]
          /\ balance[l][i] - q \in Nat
          /\ balance[l][j] + q \in Nat
          /\ quantity[i] - q \in Nat
          /\ quantity[j] + q \in Nat
      BY <2>6 DEF Move
    <3>2. [balance[l] EXCEPT ![i] = @ - q, ![j] = @ + q] \in [Stocks -> Nat]
      BY <3>1, <2>6 DEF Move
    <3>3. balance' \in [Lots -> [Stocks -> Nat]]
      BY <2>6, <3>2 DEF Move
    <3>4. quantity' \in [Stocks -> Nat]
      BY <2>6, <3>1 DEF Move
    <3> QED
      BY <2>6, <3>3, <3>4 DEF Move
  <2>7. ASSUME NEW l \in Lots, NEW i \in Stocks, NEW d \in Int, Adjust(l, i, d)
        PROVE  TypeOK'
    BY <2>1, <2>7 DEF Adjust
  <2> QED
    BY <2>2, <2>3, <2>4, <2>5, <2>6, <2>7 DEF Next
<1> QED
  BY <1>1, <1>2, PTL DEF Spec

\* What a step does to the figures, whichever action it is: it posts one
\* amount to one lot and stock row, or it moves one between two rows.
LEMMA StepPosts ==
    ASSUME TypeOK, [Next]_vars
    PROVE  \/ UNCHANGED <<balance, remaining, quantity>>
           \/ \E l \in Lots, i \in Stocks, d \in Int : Post(l, i, d)
           \/ \E l \in Lots, i, j \in Stocks, q \in Quantities : Move(l, i, j, q)
<1> USE LedgerAssumption
<1>1. CASE UNCHANGED vars
  BY <1>1 DEF vars
<1>2. CASE Next
  <2>1. PICK l \in Lots, i \in Stocks, q \in Quantities :
          \/ Receive(l, i, q)
          \/ Consume(l, i, q)
          \/ GiveBack(l, i, q)
          \/ \E j \in Stocks : Move(l, i, j, q)
          \/ Adjust(l, i, q)
          \/ Adjust(l, i, -q)
    BY <1>2 DEF Next
  <2>2. q \in Int /\ -q \in Int
    OBVIOUS
  <2> QED
    BY <2>1, <2>2 DEF Receive, Consume, GiveBack, Adjust
<1> QED
  BY <1>1, <1>2

\* Integrity rule 1 for every mixture of postings: a stock row holds exactly
\* what its lots hold in it.
THEOREM StockAgreement == Spec => []StockMatchesLots
<1>1. Init => StockMatchesLots
  BY ZeroSum, LedgerAssumption DEF Init, StockMatchesLots, Column, Lots
<1>2. TypeOK /\ StockMatchesLots /\ [Next]_vars => StockMatchesLots'
  <2> SUFFICES ASSUME TypeOK, StockMatchesLots, [Next]_vars, NEW s \in Stocks
               PROVE  SumsTo(Column(s)', NLots, quantity'[s])
    BY DEF StockMatchesLots
  <2> USE LedgerAssumption
  <2>1. /\ SumsTo(Column(s), NLots, quantity[s])
        /\ quantity[s] \in Nat
        /\ \A m \in 1..NLots : Column(s)[m] = balance[m][s] /\ Column(s)[m] \in Nat
    BY DEF StockMatchesLots, TypeOK, Column, Lots
  <2>2. CASE UNCHANGED <<balance, remaining, quantity>>
    BY <2>1, <2>2 DEF Column
  <2>3. ASSUME NEW l \in Lots, NEW i \in Stocks, NEW d \in Int, Post(l, i, d)
        PROVE  SumsTo(Column(s)', NLots, quantity'[s])
    <3>1. /\ balance[l][i] + d \in Nat
          /\ \A m \in 1..NLots : balance'[m][s] =
                IF m = l /\ s = i THEN balance[m][s] + d ELSE balance[m][s]
          /\ quantity'[s] = IF s = i THEN quantity[s] + d ELSE quantity[s]
      <4>1. /\ balance \in [Lots -> [Stocks -> Nat]]
            /\ quantity \in [Stocks -> Nat]
            /\ balance[l][i] + d \in 0..MaxStock
            /\ balance' = [balance EXCEPT ![l][i] = balance[l][i] + d]
            /\ quantity' = [quantity EXCEPT ![i] = quantity[i] + d]
        BY <2>3 DEF Post, TypeOK
      <4>2. \A m \in Lots : balance'[m] =
                IF m = l THEN [balance[l] EXCEPT ![i] = balance[l][i] + d]
                         ELSE balance[m]
        BY <4>1
      <4>3. \A m \in Lots : balance[m] \in [Stocks -> Nat]
        BY <4>1
      <4> QED
        BY <4>1, <4>2, <4>3 DEF Lots
    <3>2. \A m \in 1..NLots : Column(s)'[m] = balance'[m][s]
      BY DEF Column, Lots
    <3>3. CASE s # i
      <4>1. Column(s)' = Column(s)
        BY <3>1, <3>3 DEF Column, Lots
      <4> QED
        BY <2>1, <3>1, <3>3, <4>1
    <3>4. CASE s = i
      <4>1. /\ l \in 1..NLots
            /\ Column(s)[l] + d \in Nat
            /\ Column(s)'[l] = Column(s)[l] + d
            /\ \A m \in 1..NLots : m # l => Column(s)'[m] = Column(s)[m]
        BY <2>1, <3>1, <3>2, <3>4 DEF Lots
      <4>2. SumsTo(Column(s)', NLots, quantity[s] + d)
        BY <2>1, <4>1, AddToSummand
      <4> QED
        BY <3>1, <3>4, <4>2
    <3> QED
      BY <3>3, <3>4
  <2>4. ASSUME NEW l \in Lots, NEW i \in Stocks, NEW j \in Stocks,
               NEW q \in Quantities, Move(l, i, j, q)
        PROVE  SumsTo(Column(s)', NLots, quantity'[s])
    <3> DEFINE d == IF s = i THEN -q ELSE IF s = j THEN q ELSE 0
    <3>1. d \in Int /\ q \in Nat /\ l \in 1..NLots /\ i # j
      BY <2>4 DEF Lots, Move
    <3>2. /\ \A m \in 1..NLots : balance'[m][s] =
                IF m = l THEN balance[m][s] + d ELSE balance[m][s]
          /\ quantity'[s] = quantity[s] + d
      <4>1. /\ balance \in [Lots -> [Stocks -> Nat]]
            /\ quantity \in [Stocks -> Nat]
            /\ balance' = [balance EXCEPT ![l][i] = balance[l][i] - q,
                                          ![l][j] = balance[l][j] + q]
            /\ quantity' = [quantity EXCEPT ![i] = quantity[i] - q,
                                            ![j] = quantity[j] + q]
        BY <2>4, <3>1 DEF Move, TypeOK
      <4>2. \A m \in Lots : m # l => balance'[m] = balance[m]
        BY <4>1
      <4>3. /\ balance[l] \in [Stocks -> Nat]
            /\ balance'[l] = [balance[l] EXCEPT ![i] = balance[l][i] - q,
                                                ![j] = balance[l][j] + q]
        BY <4>1, <3>1
      <4>4. balance'[l][s] = balance[l][s] + d
        BY <4>3, <3>1
      <4>5. quantity'[s] = quantity[s] + d
        BY <4>1, <3>1
      <4>6. \A m \in Lots : balance[m][s] \in Nat
        BY <4>1
      <4> HIDE DEF d
      <4> QED
        BY <4>2, <4>4, <4>5, <4>6 DEF Lots
    <3>3. Column(s)[l] + d \in Nat
      BY <2>1, <2>4, <3>1 DEF Move
    <3> HIDE DEF d
    <3>4. /\ Column(s)'[l] = Column(s)[l] + d
          /\ \A m \in 1..NLots : m # l => Column(s)'[m] = Column(s)[m]
      BY <2>1, <3>1, <3>2 DEF Column, Lots
    <3>5. SumsTo(Column(s)', NLots, quantity[s] + d)
      BY <2>1, <3>1, <3>3, <3>4, AddToSummand
    <3> QED
      BY <3>2, <3>5
  <2> QED
    BY <2>2, <2>3, <2>4, StepPosts
<1> QED
  BY <1>1, <1>2, TypeCorrect, PTL DEF Spec

\* Integrity rule 2 for every mixture of postings: what remains of a lot is
\* what it has left in all the warehouses together.
THEOREM LotAgreement == Spec => []LotMatchesBalances
<1>1. Init => LotMatchesBalances
  BY ZeroSum, LedgerAssumption DEF Init, LotMatchesBalances, Stocks
<1>2. TypeOK /\ LotMatchesBalances /\ [Next]_vars => LotMatchesBalances'
  <2> SUFFICES ASSUME TypeOK, LotMatchesBalances, [Next]_vars, NEW k \in Lots
               PROVE  SumsTo(balance'[k], NStocks, remaining'[k])
    BY DEF LotMatchesBalances
  <2> USE LedgerAssumption
  <2>1. /\ SumsTo(balance[k], NStocks, remaining[k])
        /\ remaining[k] \in Nat
        /\ balance[k] \in [Stocks -> Nat]
        /\ \A m \in 1..NStocks : balance[k][m] \in Nat
    BY DEF LotMatchesBalances, TypeOK, Stocks
  <2>2. CASE UNCHANGED <<balance, remaining, quantity>>
    BY <2>1, <2>2
  <2>3. ASSUME NEW l \in Lots, NEW i \in Stocks, NEW d \in Int, Post(l, i, d)
        PROVE  SumsTo(balance'[k], NStocks, remaining'[k])
    <3>1. CASE k # l
      BY <2>1, <2>3, <3>1 DEF Post, TypeOK
    <3>2. CASE k = l
      <4>1. /\ i \in 1..NStocks
            /\ balance[k][i] + d \in Nat
            /\ balance'[k][i] = balance[k][i] + d
            /\ \A m \in 1..NStocks : m # i => balance'[k][m] = balance[k][m]
            /\ remaining'[k] = remaining[k] + d
        BY <2>1, <2>3, <3>2 DEF Post, TypeOK, Stocks
      <4>2. SumsTo(balance'[k], NStocks, remaining[k] + d)
        BY <2>1, <4>1, AddToSummand
      <4> QED
        BY <4>1, <4>2
    <3> QED
      BY <3>1, <3>2
  <2>4. ASSUME NEW l \in Lots, NEW i \in Stocks, NEW j \in Stocks,
               NEW q \in Quantities, Move(l, i, j, q)
        PROVE  SumsTo(balance'[k], NStocks, remaining'[k])
    <3>1. CASE k # l
      BY <2>1, <2>4, <3>1 DEF Move, TypeOK
    <3>2. CASE k = l
      <4> DEFINE taken == [balance[k] EXCEPT ![i] = @ - q]
      <4>1. /\ i \in 1..NStocks /\ j \in 1..NStocks /\ i # j
            /\ q \in Nat /\ -q \in Int
            /\ balance[k][i] + (-q) \in Nat
        BY <2>1, <2>4, <3>2 DEF Move, Stocks
      <4>2. /\ taken[i] = balance[k][i] + (-q)
            /\ \A m \in 1..NStocks : m # i => taken[m] = balance[k][m]
            /\ \A m \in 1..NStocks : taken[m] \in Nat
        BY <2>1, <4>1 DEF Stocks
      <4> HIDE DEF taken
      <4>3. /\ remaining[k] + (-q) \in Nat
            /\ SumsTo(taken, NStocks, remaining[k] + (-q))
        BY <2>1, <4>1, <4>2, AddToSummand
      <4>4. /\ balance'[k][j] = taken[j] + q
            /\ \A m \in 1..NStocks : m # j => balance'[k][m] = taken[m]
            /\ remaining'[k] = remaining[k]
        BY <2>1, <2>4, <3>2, <4>1 DEF Move, TypeOK, Stocks, taken
      <4>5. taken[j] + q \in Nat
        BY <4>1, <4>2
      <4> DEFINE rest == remaining[k] + (-q)
      <4>6. rest + q = remaining[k] /\ q \in Int
        BY <2>1, <4>1
      <4>7. rest \in Nat /\ SumsTo(taken, NStocks, rest)
        BY <4>3
      <4> HIDE DEF rest
      <4>8. SumsTo(balance'[k], NStocks, rest + q)
        BY <4>1, <4>2, <4>4, <4>5, <4>6, <4>7, AddToSummand
      <4> QED
        BY <4>4, <4>6, <4>8
    <3> QED
      BY <3>1, <3>2
  <2> QED
    BY <2>2, <2>3, <2>4, StepPosts
<1> QED
  BY <1>1, <1>2, TypeCorrect, PTL DEF Spec

=============================================================================
