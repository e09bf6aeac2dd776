------------------------ MODULE LotTransactionsProofs ------------------------
(***************************************************************************)
(* What LotTransactions promises for every number of database connections, *)
(* lots, stock rows and documents, every bound and every set of loads.     *)
(*                                                                         *)
(*   TypeCorrect               Typing: every figure, committed or not, is  *)
(*                             a quantity, and locks and uncommitted       *)
(*                             figures belong to running requests.         *)
(*   NoUpdateIsLost            Posting: what a request has written of a    *)
(*                             row is the committed figure plus what the   *)
(*                             one statement that adds to it adds.  The    *)
(*                             lock keeps the committed figure in place    *)
(*                             (Locking: a request holds exactly the rows  *)
(*                             its statements so far have locked);         *)
(*                             what has to be shown of each program is     *)
(*                             that every write builds on the latest       *)
(*                             figure (PutsItsOwn) and is made once        *)
(*                             (Posts).                                    *)
(*   PostingsImplementTheLedger  Creating: a lot is inserted once.  With   *)
(*                             Posting, a commit is a step of LotLedger    *)
(*                             and every other step leaves it alone.       *)
(*   CommittedFiguresAgree     the theorems of LotLedger, of the committed *)
(*                             figures.                                    *)
(*   ReturnsStayWithinDelivery Returning: what a return has seen to be     *)
(*                             left under its document stays there until   *)
(*                             it takes it.                                *)
(*                                                                         *)
(* Two hypotheses, both about the loads, are needed because the code does  *)
(* not keep the promises without them: OnlyCareful leaves out the two      *)
(* operations that lose updates (LotDraftReceiptRace.cfg and               *)
(* LotReturnRace.cfg show how), OnlyLateViews the read views that exist    *)
(* before a return locks its row (LotOverReturn.cfg).                      *)
(***************************************************************************)
EXTENDS LotTransactions, SequenceTheorems, TLAPS

-----------------------------------------------------------------------------
(* The rows.                                                               *)

LEMMA RowsOfALot ==
    ASSUME NEW l \in Lots, NEW i \in Stocks
    PROVE  /\ {Inv(i), Bal(l, i), Rem(l)} \subseteq GoodsRows
           /\ {Made(l), LotCounter} \subseteq Rows \ GoodsRows
           /\ \A d \in Docs : {Sent(d, l, i), Open(d, l, i)} \subseteq Rows \ GoodsRows
<1>1. /\ {Inv(i), Bal(l, i), Rem(l), Made(l), LotCounter} \subseteq Rows
      /\ \A d \in Docs : {Sent(d, l, i), Open(d, l, i)} \subseteq Rows
  BY DEF Rows
<1>2. QED
  BY <1>1 DEF GoodsRows, Inv, Bal, Rem, Made, LotCounter, Sent, Open

\* Two rows are one only if they name the same lot, stock row or document.
LEMMA RowsDiffer ==
    ASSUME NEW l, NEW k, NEW i, NEW j, NEW d
    PROVE  /\ Inv(i) \notin {Bal(l, j), Rem(l), Made(l), LotCounter, Sent(d, l, j), Open(d, l, j)}
           /\ Bal(l, i) \notin {Rem(k), Made(k), LotCounter, Sent(d, k, j), Open(d, k, j)}
           /\ Rem(l) \notin {Made(k), LotCounter, Sent(d, k, j), Open(d, k, j)}
           /\ Made(l) \notin {LotCounter, Sent(d, k, j), Open(d, k, j)}
           /\ LotCounter \notin {Sent(d, l, j), Open(d, l, j)}
           /\ Inv(i) = Inv(j) => i = j
           /\ Bal(l, i) = Bal(k, j) => l = k /\ i = j
           /\ Rem(l) = Rem(k) => l = k
           /\ Made(l) = Made(k) => l = k
BY DEF Inv, Bal, Rem, Made, LotCounter, Sent, Open

-----------------------------------------------------------------------------
(* The statements of a program.                                            *)

Ops == LockingOps \cup PlainReadOps

Figures == UNION {[R -> Int] : R \in SUBSET Rows}

\* A statement touches rows of the ledger, and one that does not look at
\* what it leaves only adds goods.
Statements ==
    {s \in [op : Ops, by : Figures] :
        s.op \in {"insert", "put"} =>
            \A r \in DOMAIN s.by : r \in GoodsRows => s.by[r] >= 0}

LEMMA AStatement ==
    ASSUME NEW op \in Ops, NEW by, DOMAIN by \subseteq Rows,
           by = [r \in DOMAIN by |-> by[r]],
           \A r \in DOMAIN by : by[r] \in Int,
           op \in {"insert", "put"} =>
               \A r \in DOMAIN by : r \in GoodsRows => by[r] >= 0
    PROVE  [op |-> op, by |-> by] \in Statements
<1>1. by \in Figures
  BY DEF Figures
<1>2. QED
  BY <1>1 DEF Statements

LEMMA AnEach ==
    ASSUME NEW op \in Ops, NEW R \in SUBSET Rows, NEW n \in Int,
           op \in {"insert", "put"} => n >= 0 \/ R \cap GoodsRows = {}
    PROVE  [op |-> op, by |-> Each(R, n)] \in Statements
BY AStatement DEF Each

LEMMA TheStatements ==
    ASSUME NEW R \in SUBSET Rows, NEW r \in Rows, NEW n \in Int
    PROVE  /\ {Lock(r), LockEmpty(r), FirstRead(r), Weigh(r)} \subseteq Statements
           /\ LockAll(R) \in Statements
           /\ {Read(R, n), Agree(R), Add(r, n), Swap(r, n)} \subseteq Statements
           /\ n >= 0 => Put(R, n) \in Statements
           /\ n >= 0 \/ R \cap GoodsRows = {} => Insert(Each(R, n)) \in Statements
<1>1. {r} \in SUBSET Rows /\ 0 \in Int
  OBVIOUS
<1>2. {Lock(r), LockEmpty(r), FirstRead(r), Weigh(r)} \subseteq Statements
  BY <1>1, AnEach DEF Lock, LockEmpty, FirstRead, Read, Weigh, Ops, LockingOps, PlainReadOps
<1>3. {Read(R, n), Agree(R), Add(r, n), Swap(r, n)} \subseteq Statements
  BY <1>1, AnEach DEF Read, Agree, Add, Swap, Ops, LockingOps, PlainReadOps
<1>4. n >= 0 => Put(R, n) \in Statements
  BY AnEach DEF Put, Ops, LockingOps, PlainReadOps
<1>5. n >= 0 \/ R \cap GoodsRows = {} => Insert(Each(R, n)) \in Statements
  BY AnEach DEF Insert, Ops, LockingOps, PlainReadOps
<1>6. LockAll(R) \in Statements
  BY <1>1, AnEach DEF LockAll, Ops, LockingOps
<1>7. QED
  BY <1>2, <1>3, <1>4, <1>5, <1>6

-----------------------------------------------------------------------------
(* The programs, statement by statement.                                   *)

LEMMA AppendOne ==
    ASSUME NEW s \in Seq(Statements), NEW a \in Statements
    PROVE  s \o <<a>> = Append(s, a)
OBVIOUS

LEMMA AppendNone ==
    ASSUME NEW s \in Seq(Statements)
    PROVE  s \o <<>> = s
OBVIOUS

LEMMA AppendTwo ==
    ASSUME NEW s \in Seq(Statements), NEW a \in Statements, NEW b \in Statements
    PROVE  s \o <<a, b>> = Append(Append(s, a), b)
OBVIOUS

LEMMA AppendThree ==
    ASSUME NEW s \in Seq(Statements),
           NEW a \in Statements, NEW b \in Statements, NEW c \in Statements
    PROVE  s \o <<a, b, c>> = Append(Append(Append(s, a), b), c)
OBVIOUS

LEMMA Join12 ==
    ASSUME NEW a \in Statements, NEW b \in Statements, NEW c \in Statements
    PROVE  <<a>> \o <<b, c>> = <<a, b, c>>
<1>1. <<a>> \in Seq(Statements)
  OBVIOUS
<1>2. <<a>> \o <<b, c>> =
          Append(Append(<<a>>, b), c)
  BY <1>1, AppendTwo
<1>3. <<a, b, c>> =
          Append(Append(<<a>>, b), c)
  OBVIOUS
<1>4. QED
  BY <1>2, <1>3

LEMMA Join22 ==
    ASSUME NEW a \in Statements, NEW b \in Statements, NEW c \in Statements,
           NEW d \in Statements
    PROVE  <<a, b>> \o <<c, d>> = <<a, b, c, d>>
<1>1. <<a, b>> \in Seq(Statements)
  OBVIOUS
<1>2. <<a, b>> \o <<c, d>> =
          Append(Append(<<a, b>>, c), d)
  BY <1>1, AppendTwo
<1>3. <<a, b, c, d>> =
          Append(Append(<<a, b>>, c), d)
  OBVIOUS
<1>4. QED
  BY <1>2, <1>3

LEMMA Join31 ==
    ASSUME NEW a \in Statements, NEW b \in Statements, NEW c \in Statements,
           NEW d \in Statements
    PROVE  <<a, b, c>> \o <<d>> = <<a, b, c, d>>
<1>1. <<a, b, c>> \in Seq(Statements)
  OBVIOUS
<1>2. <<a, b, c>> \o <<d>> =
          Append(<<a, b, c>>, d)
  BY <1>1, AppendOne
<1>3. <<a, b, c, d>> =
          Append(<<a, b, c>>, d)
  OBVIOUS
<1>4. QED
  BY <1>2, <1>3

LEMMA Join32 ==
    ASSUME NEW a \in Statements, NEW b \in Statements, NEW c \in Statements,
           NEW d \in Statements, NEW e \in Statements
    PROVE  <<a, b, c>> \o <<d, e>> = <<a, b, c, d, e>>
<1>1. <<a, b, c>> \in Seq(Statements)
  OBVIOUS
<1>2. <<a, b, c>> \o <<d, e>> =
          Append(Append(<<a, b, c>>, d), e)
  BY <1>1, AppendTwo
<1>3. <<a, b, c, d, e>> =
          Append(Append(<<a, b, c>>, d), e)
  OBVIOUS
<1>4. QED
  BY <1>2, <1>3

LEMMA Join13 ==
    ASSUME NEW a \in Statements, NEW b \in Statements, NEW c \in Statements,
           NEW d \in Statements
    PROVE  <<a>> \o <<b, c, d>> = <<a, b, c, d>>
<1>1. <<a>> \in Seq(Statements)
  OBVIOUS
<1>2. <<a>> \o <<b, c, d>> =
          Append(Append(Append(<<a>>, b), c), d)
  BY <1>1, AppendThree
<1>3. <<a, b, c, d>> =
          Append(Append(Append(<<a>>, b), c), d)
  OBVIOUS
<1>4. QED
  BY <1>2, <1>3

LEMMA Join41 ==
    ASSUME NEW a \in Statements, NEW b \in Statements, NEW c \in Statements,
           NEW d \in Statements, NEW e \in Statements
    PROVE  <<a, b, c, d>> \o <<e>> = <<a, b, c, d, e>>
<1>1. <<a, b, c, d>> \in Seq(Statements)
  OBVIOUS
<1>2. <<a, b, c, d>> \o <<e>> =
          Append(<<a, b, c, d>>, e)
  BY <1>1, AppendOne
<1>3. <<a, b, c, d, e>> =
          Append(<<a, b, c, d>>, e)
  OBVIOUS
<1>4. QED
  BY <1>2, <1>3

LEMMA Join51 ==
    ASSUME NEW a \in Statements, NEW b \in Statements, NEW c \in Statements,
           NEW d \in Statements, NEW e \in Statements, NEW f \in Statements
    PROVE  <<a, b, c, d, e>> \o <<f>> = <<a, b, c, d, e, f>>
<1>1. <<a, b, c, d, e>> \in Seq(Statements)
  OBVIOUS
<1>2. <<a, b, c, d, e>> \o <<f>> =
          Append(<<a, b, c, d, e>>, f)
  BY <1>1, AppendOne
<1>3. <<a, b, c, d, e, f>> =
          Append(<<a, b, c, d, e>>, f)
  OBVIOUS
<1>4. QED
  BY <1>2, <1>3

LEMMA Join43 ==
    ASSUME NEW a \in Statements, NEW b \in Statements, NEW c \in Statements,
           NEW d \in Statements, NEW e \in Statements, NEW f \in Statements,
           NEW g \in Statements
    PROVE  <<a, b, c, d>> \o <<e, f, g>> = <<a, b, c, d, e, f, g>>
<1>1. <<a, b, c, d>> \in Seq(Statements)
  OBVIOUS
<1>2. <<a, b, c, d>> \o <<e, f, g>> =
          Append(Append(Append(<<a, b, c, d>>, e), f), g)
  BY <1>1, AppendThree
<1>3. <<a, b, c, d, e, f, g>> =
          Append(Append(Append(<<a, b, c, d>>, e), f), g)
  OBVIOUS
<1>4. QED
  BY <1>2, <1>3

\* The shapes the programs are put together in.
LEMMA ShapeOfDispose ==
    ASSUME NEW a \in Statements, NEW b \in Statements, NEW c \in Statements,
           NEW d \in Statements, NEW e \in Statements, NEW f \in Statements,
           NEW g \in Statements
    PROVE  <<a>> \o <<b, c, d>> \o <<e, f, g>> = <<a, b, c, d, e, f, g>>
<1>1. <<a>> \o <<b, c, d>> = <<a, b, c, d>>
  BY Join13
<1>2. <<a, b, c, d>> \o <<e, f, g>> = <<a, b, c, d, e, f, g>>
  BY Join43
<1>3. QED
  BY <1>1, <1>2

LEMMA ShapeOfReceipt ==
    ASSUME NEW a \in Statements, NEW b \in Statements, NEW c \in Statements,
           NEW d \in Statements, NEW e \in Statements, NEW f \in Statements
    PROVE  <<a, b, c>> \o <<d, e>> \o <<f>> = <<a, b, c, d, e, f>>
<1>1. <<a, b, c>> \o <<d, e>> = <<a, b, c, d, e>>
  BY Join32
<1>2. <<a, b, c, d, e>> \o <<f>> = <<a, b, c, d, e, f>>
  BY Join51
<1>3. QED
  BY <1>1, <1>2

LEMMA ShapeOfOpening ==
    ASSUME NEW a \in Statements, NEW b \in Statements, NEW c \in Statements,
           NEW d \in Statements
    PROVE  <<a>> \o <<b, c>> \o <<d>> = <<a, b, c, d>>
<1>1. <<a>> \o <<b, c>> = <<a, b, c>>
  BY Join12
<1>2. <<a, b, c>> \o <<d>> = <<a, b, c, d>>
  BY Join31
<1>3. QED
  BY <1>1, <1>2

LEMMA ShapeOfDelivery ==
    ASSUME NEW a \in Statements, NEW b \in Statements, NEW c \in Statements,
           NEW d \in Statements, NEW e \in Statements, NEW f \in Statements
    PROVE  /\ <<a>> \o <<b, c, d>> \o <<e>> \o <<>> = <<a, b, c, d, e>>
           /\ <<a>> \o <<b, c, d>> \o <<e>> \o <<f>> = <<a, b, c, d, e, f>>
<1>1. <<a>> \o <<b, c, d>> = <<a, b, c, d>>
  BY Join13
<1>2. <<a, b, c, d>> \o <<e>> = <<a, b, c, d, e>>
  BY Join41
<1>3. <<a, b, c, d, e>> \o <<f>> = <<a, b, c, d, e, f>>
  BY Join51
<1>4. <<a, b, c, d, e>> \o <<>> = <<a, b, c, d, e>>
  <2>1. <<a, b, c, d, e>> \in Seq(Statements)
    OBVIOUS
  <2>2. QED
    BY <2>1, AppendNone
<1>5. QED
  BY <1>1, <1>2, <1>3, <1>4

\* The statement that inserts a lot, and the one that records a delivery.
Creation(l, i, q) ==
    Insert([r \in LotRows(l, i) \cup {Made(l)} |-> IF r = Made(l) THEN 1 ELSE q])

Delivery(d, l, i, q) ==
    Insert([r \in {Sent(d, l, i), Open(d, l, i)} |->
            IF r = Sent(d, l, i) THEN 1 ELSE q])

LEMMA InsertStatements ==
    ASSUME NEW l \in Lots, NEW i \in Stocks, NEW q \in Nat
    PROVE  /\ Creation(l, i, q) \in Statements
           /\ \A d \in Docs : Delivery(d, l, i, q) \in Statements
<1>1. Creation(l, i, q) \in Statements
  <2> DEFINE R == LotRows(l, i) \cup {Made(l)}
             by == [r \in R |-> IF r = Made(l) THEN 1 ELSE q]
  <2>1. R \subseteq Rows
    BY RowsOfALot DEF GoodsRows, LotRows
  <2>2. /\ DOMAIN by = R
        /\ by = [r \in DOMAIN by |-> by[r]]
        /\ \A r \in DOMAIN by : by[r] \in Int /\ by[r] >= 0
    OBVIOUS
  <2> HIDE DEF R, by
  <2>3. [op |-> "insert", by |-> by] \in Statements
    BY <2>1, <2>2, AStatement DEF Ops, LockingOps
  <2>4. QED
    BY <2>3 DEF Creation, Insert, by, R
<1>2. ASSUME NEW d \in Docs
      PROVE  Delivery(d, l, i, q) \in Statements
  <2> DEFINE R == {Sent(d, l, i), Open(d, l, i)}
             by == [r \in R |-> IF r = Sent(d, l, i) THEN 1 ELSE q]
  <2>1. R \subseteq Rows
    BY RowsOfALot
  <2>2. /\ DOMAIN by = R
        /\ by = [r \in DOMAIN by |-> by[r]]
        /\ \A r \in DOMAIN by : by[r] \in Int /\ by[r] >= 0
    OBVIOUS
  <2> HIDE DEF R, by
  <2>3. [op |-> "insert", by |-> by] \in Statements
    BY <2>1, <2>2, AStatement DEF Ops, LockingOps
  <2>4. QED
    BY <2>3 DEF Delivery, Insert, by, R
<1>3. QED
  BY <1>1, <1>2

LEMMA ProgramSteps ==
    ASSUME NEW l \in Lots, NEW i \in Stocks, NEW q \in Nat
    PROVE  /\ Dispose(l, i, q) =
                  <<Read(LotRows(l, i), q), Lock(Rem(l)), Add(Bal(l, i), -q),
                    Add(Rem(l), -q), Lock(Inv(i)), Read({Inv(i)}, q), Add(Inv(i), -q)>>
           /\ SupplierReturn(l, i, q) = Dispose(l, i, q)
           /\ Receipt(l, i, q) =
                  <<FirstRead(Inv(i)), Lock(Inv(i)), Weigh(Inv(i)),
                    Lock(LotCounter), Creation(l, i, q), Put({Inv(i)}, q)>>
           /\ DraftReceipt(l, i, q) =
                  <<Lock(Inv(i)), Put({Inv(i)}, q),
                    Lock(LotCounter), Creation(l, i, q)>>
           /\ OpeningBalance(l, i, q) =
                  <<LockEmpty(Inv(i)), Lock(LotCounter), Creation(l, i, q),
                    Insert(Each({Inv(i)}, q))>>
           /\ Delivered(0, l, i, q) =
                  <<Read(LotRows(l, i) \cup {Inv(i)}, q), Lock(Rem(l)),
                    Add(Bal(l, i), -q), Add(Rem(l), -q), Add(Inv(i), -q)>>
           /\ \A d \in Docs : Delivered(d, l, i, q) =
                  <<Read(LotRows(l, i) \cup {Inv(i)}, q), Lock(Rem(l)),
                    Add(Bal(l, i), -q), Add(Rem(l), -q), Add(Inv(i), -q),
                    Delivery(d, l, i, q)>>
<1>1. /\ {Inv(i), Bal(l, i), Rem(l), LotCounter} \subseteq Rows
      /\ LotRows(l, i) \subseteq Rows /\ LotRows(l, i) \cup {Inv(i)} \subseteq Rows
      /\ {Inv(i)} \subseteq Rows /\ LotsAndBalances \subseteq Rows
      /\ q \in Int /\ -q \in Int /\ q >= 0
  BY RowsOfALot DEF GoodsRows, LotRows, LotsAndBalances
<1>2. /\ {Read(LotRows(l, i), q), Read({Inv(i)}, q),
          Read(LotRows(l, i) \cup {Inv(i)}, q)} \subseteq Statements
      /\ {Add(Bal(l, i), -q), Add(Rem(l), -q), Add(Inv(i), -q)} \subseteq Statements
      /\ {Lock(Inv(i)), Lock(Rem(l)), Lock(LotCounter), LockEmpty(Inv(i)),
          FirstRead(Inv(i)), Weigh(Inv(i)), LockAll(LotsAndBalances)} \subseteq Statements
      /\ {Put({Inv(i)}, q), Insert(Each({Inv(i)}, q))} \subseteq Statements
  BY <1>1, TheStatements
<1>2b. Creation(l, i, q) \in Statements
  BY InsertStatements
<1>3. Dispose(l, i, q) =
          <<Read(LotRows(l, i), q), Lock(Rem(l)), Add(Bal(l, i), -q),
            Add(Rem(l), -q), Lock(Inv(i)), Read({Inv(i)}, q), Add(Inv(i), -q)>>
  <2>1. Dispose(l, i, q) =
            <<Read(LotRows(l, i), q)>>
            \o <<Lock(Rem(l)), Add(Bal(l, i), -q), Add(Rem(l), -q)>>
            \o <<Lock(Inv(i)), Read({Inv(i)}, q), Add(Inv(i), -q)>>
    BY DEF Dispose, ConsumeLot
  <2>2. <<Read(LotRows(l, i), q)>>
            \o <<Lock(Rem(l)), Add(Bal(l, i), -q), Add(Rem(l), -q)>>
            \o <<Lock(Inv(i)), Read({Inv(i)}, q), Add(Inv(i), -q)>>
        = <<Read(LotRows(l, i), q), Lock(Rem(l)), Add(Bal(l, i), -q),
            Add(Rem(l), -q), Lock(Inv(i)), Read({Inv(i)}, q), Add(Inv(i), -q)>>
    BY <1>2, ShapeOfDispose
  <2>3. QED
    BY <2>1, <2>2
<1>4. SupplierReturn(l, i, q) = Dispose(l, i, q)
  BY DEF SupplierReturn, Dispose
<1>5. Receipt(l, i, q) =
          <<FirstRead(Inv(i)), Lock(Inv(i)), Weigh(Inv(i)),
            Lock(LotCounter), Creation(l, i, q), Put({Inv(i)}, q)>>
  <2>1. Receipt(l, i, q) =
            <<FirstRead(Inv(i)), Lock(Inv(i)), Weigh(Inv(i))>>
            \o <<Lock(LotCounter), Creation(l, i, q)>> \o <<Put({Inv(i)}, q)>>
    BY DEF Receipt, CreateLot, Creation
  <2>2. QED
    <3>1. <<FirstRead(Inv(i)), Lock(Inv(i)), Weigh(Inv(i))>>
              \o <<Lock(LotCounter), Creation(l, i, q)>> \o <<Put({Inv(i)}, q)>>
          = <<FirstRead(Inv(i)), Lock(Inv(i)), Weigh(Inv(i)),
              Lock(LotCounter), Creation(l, i, q), Put({Inv(i)}, q)>>
      BY <1>2, <1>2b, ShapeOfReceipt
    <3>2. QED
      BY <2>1, <3>1
<1>6. DraftReceipt(l, i, q) =
          <<Lock(Inv(i)), Put({Inv(i)}, q), Lock(LotCounter), Creation(l, i, q)>>
  <2>1. DraftReceipt(l, i, q) =
            <<Lock(Inv(i)), Put({Inv(i)}, q)>> \o <<Lock(LotCounter), Creation(l, i, q)>>
    BY DEF DraftReceipt, CreateLot, Creation
  <2>2. QED
    BY <1>2, <1>2b, <2>1, Join22
<1>7. OpeningBalance(l, i, q) =
          <<LockEmpty(Inv(i)), Lock(LotCounter), Creation(l, i, q),
            Insert(Each({Inv(i)}, q))>>
  <2>1. OpeningBalance(l, i, q) =
            <<LockEmpty(Inv(i))>> \o <<Lock(LotCounter), Creation(l, i, q)>>
            \o <<Insert(Each({Inv(i)}, q))>>
    BY DEF OpeningBalance, CreateLot, Creation
  <2>2. QED
    <3>1. <<LockEmpty(Inv(i))>> \o <<Lock(LotCounter), Creation(l, i, q)>>
              \o <<Insert(Each({Inv(i)}, q))>>
          = <<LockEmpty(Inv(i)), Lock(LotCounter), Creation(l, i, q),
              Insert(Each({Inv(i)}, q))>>
      BY <1>2, <1>2b, ShapeOfOpening
    <3>2. QED
      BY <2>1, <3>1
<1>8. Delivered(0, l, i, q) =
          <<Read(LotRows(l, i) \cup {Inv(i)}, q), Lock(Rem(l)),
            Add(Bal(l, i), -q), Add(Rem(l), -q), Add(Inv(i), -q)>>
  <2>1. Delivered(0, l, i, q) =
            <<Read(LotRows(l, i) \cup {Inv(i)}, q)>>
            \o <<Lock(Rem(l)), Add(Bal(l, i), -q), Add(Rem(l), -q)>> \o <<Add(Inv(i), -q)>>
            \o <<>>
    BY DEF Delivered, ConsumeLot
  <2>2. <<Read(LotRows(l, i) \cup {Inv(i)}, q)>>
            \o <<Lock(Rem(l)), Add(Bal(l, i), -q), Add(Rem(l), -q)>> \o <<Add(Inv(i), -q)>>
            \o <<>>
        = <<Read(LotRows(l, i) \cup {Inv(i)}, q), Lock(Rem(l)),
            Add(Bal(l, i), -q), Add(Rem(l), -q), Add(Inv(i), -q)>>
    BY <1>2, ShapeOfDelivery
  <2>3. QED
    BY <2>1, <2>2
<1>9. ASSUME NEW d \in Docs
      PROVE  Delivered(d, l, i, q) =
                 <<Read(LotRows(l, i) \cup {Inv(i)}, q), Lock(Rem(l)),
                   Add(Bal(l, i), -q), Add(Rem(l), -q), Add(Inv(i), -q),
                   Delivery(d, l, i, q)>>
  <2>1. d # 0
    BY DEF Docs
  <2>2. Delivered(d, l, i, q) =
            <<Read(LotRows(l, i) \cup {Inv(i)}, q)>>
            \o <<Lock(Rem(l)), Add(Bal(l, i), -q), Add(Rem(l), -q)>> \o <<Add(Inv(i), -q)>>
            \o <<Delivery(d, l, i, q)>>
    BY <2>1 DEF Delivered, ConsumeLot, Delivery
  <2>3. Delivery(d, l, i, q) \in Statements
    BY InsertStatements
  <2>4. <<Read(LotRows(l, i) \cup {Inv(i)}, q)>>
            \o <<Lock(Rem(l)), Add(Bal(l, i), -q), Add(Rem(l), -q)>> \o <<Add(Inv(i), -q)>>
            \o <<Delivery(d, l, i, q)>>
        = <<Read(LotRows(l, i) \cup {Inv(i)}, q), Lock(Rem(l)),
            Add(Bal(l, i), -q), Add(Rem(l), -q), Add(Inv(i), -q),
            Delivery(d, l, i, q)>>
    BY <1>2, <2>3, ShapeOfDelivery
  <2>5. QED
    BY <2>2, <2>4
<1>10. QED
  BY <1>3, <1>4, <1>5, <1>6, <1>7, <1>8, <1>9

-----------------------------------------------------------------------------
(* The requests.                                                           *)

LEMMA QuantitiesArePositive ==
    /\ Quantities \subseteq Nat
    /\ \A q \in Quantities : q > 0
    /\ NDocs \in Nat /\ NStocks \in Nat /\ MaxStock \in Nat
<1>1. Quantities \subseteq 1..MaxStock /\ MaxStock \in Nat
  BY TransactionsAssumption
<1>2. NDocs \in Nat /\ NStocks \in Nat
  BY TransactionsAssumption
<1>3. QED
  BY <1>1, <1>2

LEMMA JobFields ==
    ASSUME NEW j \in Jobs
    PROVE  /\ j.kind \in AllKinds /\ j.lot \in Lots /\ j.stock \in Stocks
           /\ j.doc \in 0..NDocs /\ j.qty \in Int /\ j.qty <= MaxStock /\ -j.qty <= MaxStock
           /\ j.kind # "settle" => j.qty \in Nat /\ j.qty > 0
           /\ j.kind = "transfer" => j.dest \in Stocks /\ j.dest # j.stock
           /\ j.kind \in ReturnKinds => j.doc \in Docs
           /\ j # NoJob
<1>1. j.kind \in AllKinds /\ j.lot \in Lots /\ j.stock \in Stocks
      /\ j.doc \in 0..NDocs /\ j.qty \in -MaxStock..MaxStock /\ j.dest \in 0..NStocks
  BY DEF Jobs
<1>2. j.kind # "settle" => j.qty > 0
  <2>1. CASE j.kind \in CreatingKinds
    BY <2>1 DEF Jobs
  <2>2. CASE j.kind \notin CreatingKinds
    <3>1. j.kind # "settle" => j.qty \in Quantities
      BY <2>2 DEF Jobs
    <3>2. QED
      BY <3>1, QuantitiesArePositive
  <2>3. QED
    BY <2>1, <2>2
<1>3. j.kind = "transfer" => j.dest # 0 /\ j.dest # j.stock
  BY DEF Jobs
<1>4. j.kind \in ReturnKinds => j.doc # 0
  BY DEF Jobs
<1>5. j # NoJob
  BY <1>1 DEF NoJob, AllKinds
<1>6. QED
  BY <1>1, <1>2, <1>3, <1>4, <1>5, QuantitiesArePositive DEF Stocks, Docs

LEMMA ProgramOf ==
    ASSUME NEW j \in Jobs
    PROVE  /\ Programs[j] = Program(j)
           /\ j.kind = "issue" => Program(j) = Issue(j.doc, j.lot, j.stock, j.qty)
           /\ j.kind = "purchaseIssue" =>
                  Program(j) = PurchaseIssue(j.doc, j.lot, j.stock, j.qty)
           /\ j.kind = "dispose" => Program(j) = Dispose(j.lot, j.stock, j.qty)
           /\ j.kind = "supplierReturn" => Program(j) = SupplierReturn(j.lot, j.stock, j.qty)
           /\ j.kind = "transfer" => Program(j) = Transfer(j.lot, j.stock, j.dest, j.qty)
           /\ j.kind = "receipt" => Program(j) = Receipt(j.lot, j.stock, j.qty)
           /\ j.kind = "draftReceipt" => Program(j) = DraftReceipt(j.lot, j.stock, j.qty)
           /\ j.kind = "openingBalance" => Program(j) = OpeningBalance(j.lot, j.stock, j.qty)
           /\ j.kind = "settle" => Program(j) = Settle(j.lot, j.stock, j.qty)
           /\ j.kind \in ReturnKinds =>
                  Program(j) = RecipientReturn(j.doc, j.lot, j.stock, j.qty)
BY DEF Programs, Program, ReturnKinds

LEMMA ManyRows ==
    ASSUME NEW l \in Lots, NEW i \in Stocks
    PROVE  /\ LotRows(l, i) \subseteq Rows
           /\ LotRows(l, i) \cup {Inv(i)} \subseteq Rows
           /\ {Inv(i)} \subseteq Rows
           /\ AgreeRows(l, i) \subseteq Rows
<1>1. LotRows(l, i) \subseteq Rows /\ Inv(i) \in Rows /\ Rem(l) \in Rows
  BY RowsOfALot DEF GoodsRows, LotRows
<1>2. /\ \A k \in Lots : Bal(k, i) \in Rows
      /\ \A k \in Stocks : Bal(l, k) \in Rows
  BY RowsOfALot DEF GoodsRows
<1>3. QED
  BY <1>1, <1>2 DEF AgreeRows

\* The statements the programs of lot l at stock row i are made of.
LEMMA StatementsOfALot ==
    ASSUME NEW l \in Lots, NEW i \in Stocks, NEW q \in Int
    PROVE  /\ {Read(LotRows(l, i), q), Read({Inv(i)}, q), Agree(AgreeRows(l, i)),
               Read(LotRows(l, i) \cup {Inv(i)}, q)} \subseteq Statements
           /\ {Add(Bal(l, i), -q), Add(Rem(l), -q), Add(Inv(i), -q)} \subseteq Statements
           /\ {Swap(Bal(l, i), q), Swap(Rem(l), q), Swap(Inv(i), q)} \subseteq Statements
           /\ {Lock(Inv(i)), Lock(Bal(l, i)), Lock(Rem(l)), Lock(LotCounter),
               LockEmpty(Inv(i)), FirstRead(Inv(i)), Weigh(Inv(i))} \subseteq Statements
           /\ q >= 0 =>
                 {Put({Inv(i)}, q), Put(LotRows(l, i) \cup {Inv(i)}, q),
                  Insert(Each({Inv(i)}, q)), Insert(Each({Bal(l, i)}, q))} \subseteq Statements
<1>1. {Inv(i), Bal(l, i), Rem(l), LotCounter} \subseteq Rows /\ -q \in Int
  BY RowsOfALot DEF GoodsRows
<1>2. {Bal(l, i)} \subseteq Rows
  BY <1>1
<1>3. /\ {Read(LotRows(l, i), q), Read({Inv(i)}, q), Agree(AgreeRows(l, i)),
          Read(LotRows(l, i) \cup {Inv(i)}, q)} \subseteq Statements
      /\ q >= 0 =>
            {Put({Inv(i)}, q), Put(LotRows(l, i) \cup {Inv(i)}, q),
             Insert(Each({Inv(i)}, q)), Insert(Each({Bal(l, i)}, q))} \subseteq Statements
  BY <1>1, <1>2, ManyRows, TheStatements
<1>4. QED
  BY <1>1, <1>3, TheStatements

LEMMA TheCheckIsAStatement == LockAll(LotsAndBalances) \in Statements
<1>1. LotsAndBalances \subseteq Rows
  BY DEF Rows, LotsAndBalances
<1>2. PICK r \in Rows : TRUE
  BY DEF Rows
<1>3. QED
  BY <1>1, <1>2, TheStatements

LEMMA StatementsOfADocument ==
    ASSUME NEW d \in Docs, NEW l \in Lots, NEW i \in Stocks, NEW q \in Int
    PROVE  {Lock(Open(d, l, i)), Read({Open(d, l, i)}, q),
            Insert(Each({Open(d, l, i)}, -q))} \subseteq Statements
<1>1. Open(d, l, i) \in Rows \ GoodsRows
  BY RowsOfALot
<1>2. {Open(d, l, i)} \subseteq Rows /\ {Open(d, l, i)} \cap GoodsRows = {} /\ -q \in Int
  BY <1>1
<1>3. QED
  BY <1>1, <1>2, TheStatements

LEMMA IssueSteps ==
    ASSUME NEW l \in Lots, NEW i \in Stocks, NEW q \in Nat
    PROVE  LET P == Issue(0, l, i, q)
           IN /\ P \in Seq(Statements)
              /\ Len(P) = 6
              /\ P[1] = Lock(Inv(i))
              /\ P[2] = Read(LotRows(l, i) \cup {Inv(i)}, q)
              /\ P[3] = Lock(Rem(l))
              /\ P[4] = Add(Bal(l, i), -q)
              /\ P[5] = Add(Rem(l), -q)
              /\ P[6] = Add(Inv(i), -q)
<1>1. q \in Int /\ q >= 0
  OBVIOUS
<1>2. /\ {Read(LotRows(l, i), q), Read({Inv(i)}, q),
          Read(LotRows(l, i) \cup {Inv(i)}, q)} \subseteq Statements
      /\ {Add(Bal(l, i), -q), Add(Rem(l), -q), Add(Inv(i), -q)} \subseteq Statements
      /\ {Lock(Inv(i)), Lock(Bal(l, i)), Lock(Rem(l)), Lock(LotCounter),
          LockEmpty(Inv(i)), FirstRead(Inv(i)), Weigh(Inv(i))} \subseteq Statements
  BY <1>1, StatementsOfALot
<1> DEFINE D == Delivered(0, l, i, q)
           S == <<Lock(Inv(i))>>
           P == Issue(0, l, i, q)
<1>3. P = S \o D
  BY DEF Issue
<1>4. D = <<Read(LotRows(l, i) \cup {Inv(i)}, q), Lock(Rem(l)),
            Add(Bal(l, i), -q), Add(Rem(l), -q), Add(Inv(i), -q)>>
  BY ProgramSteps
<1>5. /\ S \in Seq(Statements) /\ Len(S) = 1
      /\ S[1] = Lock(Inv(i))
  BY <1>2
<1> HIDE DEF D, S, P
<1>6. /\ D \in Seq(Statements) /\ Len(D) = 5
      /\ D[1] = Read(LotRows(l, i) \cup {Inv(i)}, q)
      /\ D[2] = Lock(Rem(l))
      /\ D[3] = Add(Bal(l, i), -q)
      /\ D[4] = Add(Rem(l), -q)
      /\ D[5] = Add(Inv(i), -q)
  BY <1>2, <1>4
<1>7. /\ P \in Seq(Statements) /\ Len(P) = Len(S) + Len(D)
      /\ \A n \in 1..(Len(S) + Len(D)) :
            P[n] = IF n <= Len(S) THEN S[n] ELSE D[n - Len(S)]
  BY <1>3, <1>5, <1>6, ConcatProperties
<1>8. /\ P \in Seq(Statements) /\ Len(P) = 6
      /\ \A n \in 1..6 : P[n] = IF n <= 1 THEN S[n] ELSE D[n - 1]
  BY <1>5, <1>6, <1>7
<1>9. /\ P[1] = S[1]
      /\ P[2] = D[1] /\ P[3] = D[2] /\ P[4] = D[3] /\ P[5] = D[4] /\ P[6] = D[5]
  BY <1>8
<1>10. QED
  BY <1>5, <1>6, <1>8, <1>9 DEF P

LEMMA DocumentedIssueSteps ==
    ASSUME NEW d \in Docs, NEW l \in Lots, NEW i \in Stocks, NEW q \in Nat
    PROVE  LET P == Issue(d, l, i, q)
           IN /\ P \in Seq(Statements)
              /\ Len(P) = 7
              /\ P[1] = Lock(Inv(i))
              /\ P[2] = Read(LotRows(l, i) \cup {Inv(i)}, q)
              /\ P[3] = Lock(Rem(l))
              /\ P[4] = Add(Bal(l, i), -q)
              /\ P[5] = Add(Rem(l), -q)
              /\ P[6] = Add(Inv(i), -q)
              /\ P[7] = Delivery(d, l, i, q)
<1>1. q \in Int /\ q >= 0
  OBVIOUS
<1>2. /\ {Read(LotRows(l, i), q), Read({Inv(i)}, q),
          Read(LotRows(l, i) \cup {Inv(i)}, q)} \subseteq Statements
      /\ {Add(Bal(l, i), -q), Add(Rem(l), -q), Add(Inv(i), -q)} \subseteq Statements
      /\ {Lock(Inv(i)), Lock(Bal(l, i)), Lock(Rem(l)), Lock(LotCounter),
          LockEmpty(Inv(i)), FirstRead(Inv(i)), Weigh(Inv(i))} \subseteq Statements
  BY <1>1, StatementsOfALot
<1> DEFINE D == Delivered(d, l, i, q)
           S == <<Lock(Inv(i))>>
           P == Issue(d, l, i, q)
<1>3. P = S \o D
  BY DEF Issue
<1>4. Delivery(d, l, i, q) \in Statements
  BY InsertStatements
<1>5. D = <<Read(LotRows(l, i) \cup {Inv(i)}, q), Lock(Rem(l)),
            Add(Bal(l, i), -q), Add(Rem(l), -q), Add(Inv(i), -q),
            Delivery(d, l, i, q)>>
  BY ProgramSteps
<1>6. /\ S \in Seq(Statements) /\ Len(S) = 1
      /\ S[1] = Lock(Inv(i))
  BY <1>2
<1> HIDE DEF D, S, P
<1>7. /\ D \in Seq(Statements) /\ Len(D) = 6
      /\ D[1] = Read(LotRows(l, i) \cup {Inv(i)}, q)
      /\ D[2] = Lock(Rem(l))
      /\ D[3] = Add(Bal(l, i), -q)
      /\ D[4] = Add(Rem(l), -q)
      /\ D[5] = Add(Inv(i), -q)
      /\ D[6] = Delivery(d, l, i, q)
  BY <1>2, <1>4, <1>5
<1>8. /\ P \in Seq(Statements) /\ Len(P) = Len(S) + Len(D)
      /\ \A n \in 1..(Len(S) + Len(D)) :
            P[n] = IF n <= Len(S) THEN S[n] ELSE D[n - Len(S)]
  BY <1>3, <1>6, <1>7, ConcatProperties
<1>9. /\ P \in Seq(Statements) /\ Len(P) = 7
      /\ \A n \in 1..7 : P[n] = IF n <= 1 THEN S[n] ELSE D[n - 1]
  BY <1>6, <1>7, <1>8
<1>10. /\ P[1] = S[1]
      /\ P[2] = D[1] /\ P[3] = D[2] /\ P[4] = D[3] /\ P[5] = D[4] /\ P[6] = D[5] /\ P[7] = D[6]
  BY <1>9
<1>11. QED
  BY <1>6, <1>7, <1>9, <1>10 DEF P

LEMMA PurchaseIssueSteps ==
    ASSUME NEW l \in Lots, NEW i \in Stocks, NEW q \in Nat
    PROVE  LET P == PurchaseIssue(0, l, i, q)
           IN /\ P \in Seq(Statements)
              /\ Len(P) = 8
              /\ P[1] = Lock(Inv(i))
              /\ P[2] = FirstRead(Inv(i))
              /\ P[3] = LockAll(LotsAndBalances)
              /\ P[4] = Read(LotRows(l, i) \cup {Inv(i)}, q)
              /\ P[5] = Lock(Rem(l))
              /\ P[6] = Add(Bal(l, i), -q)
              /\ P[7] = Add(Rem(l), -q)
              /\ P[8] = Add(Inv(i), -q)
<1>1. q \in Int /\ q >= 0
  OBVIOUS
<1>2. /\ {Read(LotRows(l, i), q), Read({Inv(i)}, q),
          Read(LotRows(l, i) \cup {Inv(i)}, q)} \subseteq Statements
      /\ {Add(Bal(l, i), -q), Add(Rem(l), -q), Add(Inv(i), -q)} \subseteq Statements
      /\ {Lock(Inv(i)), Lock(Bal(l, i)), Lock(Rem(l)), Lock(LotCounter),
          LockEmpty(Inv(i)), FirstRead(Inv(i)), Weigh(Inv(i))} \subseteq Statements
  BY <1>1, StatementsOfALot
<1> DEFINE D == Delivered(0, l, i, q)
           S == <<Lock(Inv(i))>> \o <<FirstRead(Inv(i)), LockAll(LotsAndBalances)>>
           P == PurchaseIssue(0, l, i, q)
<1>3. P = S \o D
  BY DEF PurchaseIssue, CompletionCheck
<1>4. LockAll(LotsAndBalances) \in Statements
  BY TheCheckIsAStatement
<1>5. D = <<Read(LotRows(l, i) \cup {Inv(i)}, q), Lock(Rem(l)),
            Add(Bal(l, i), -q), Add(Rem(l), -q), Add(Inv(i), -q)>>
  BY ProgramSteps
<1>6. /\ S \in Seq(Statements) /\ Len(S) = 3
      /\ S[1] = Lock(Inv(i))
      /\ S[2] = FirstRead(Inv(i))
      /\ S[3] = LockAll(LotsAndBalances)
  BY <1>2, <1>4, Join12
<1> HIDE DEF D, S, P
<1>7. /\ D \in Seq(Statements) /\ Len(D) = 5
      /\ D[1] = Read(LotRows(l, i) \cup {Inv(i)}, q)
      /\ D[2] = Lock(Rem(l))
      /\ D[3] = Add(Bal(l, i), -q)
      /\ D[4] = Add(Rem(l), -q)
      /\ D[5] = Add(Inv(i), -q)
  BY <1>2, <1>5
<1>8. /\ P \in Seq(Statements) /\ Len(P) = Len(S) + Len(D)
      /\ \A n \in 1..(Len(S) + Len(D)) :
            P[n] = IF n <= Len(S) THEN S[n] ELSE D[n - Len(S)]
  BY <1>3, <1>6, <1>7, ConcatProperties
<1>9. /\ P \in Seq(Statements) /\ Len(P) = 8
      /\ \A n \in 1..8 : P[n] = IF n <= 3 THEN S[n] ELSE D[n - 3]
  BY <1>6, <1>7, <1>8
<1>10. /\ P[1] = S[1] /\ P[2] = S[2] /\ P[3] = S[3]
      /\ P[4] = D[1] /\ P[5] = D[2] /\ P[6] = D[3] /\ P[7] = D[4] /\ P[8] = D[5]
  BY <1>9
<1>11. QED
  BY <1>6, <1>7, <1>9, <1>10 DEF P

LEMMA DocumentedPurchaseIssueSteps ==
    ASSUME NEW d \in Docs, NEW l \in Lots, NEW i \in Stocks, NEW q \in Nat
    PROVE  LET P == PurchaseIssue(d, l, i, q)
           IN /\ P \in Seq(Statements)
              /\ Len(P) = 9
              /\ P[1] = Lock(Inv(i))
              /\ P[2] = FirstRead(Inv(i))
              /\ P[3] = LockAll(LotsAndBalances)
              /\ P[4] = Read(LotRows(l, i) \cup {Inv(i)}, q)
              /\ P[5] = Lock(Rem(l))
              /\ P[6] = Add(Bal(l, i), -q)
              /\ P[7] = Add(Rem(l), -q)
              /\ P[8] = Add(Inv(i), -q)
              /\ P[9] = Delivery(d, l, i, q)
<1>1. q \in Int /\ q >= 0
  OBVIOUS
<1>2. /\ {Read(LotRows(l, i), q), Read({Inv(i)}, q),
          Read(LotRows(l, i) \cup {Inv(i)}, q)} \subseteq Statements
      /\ {Add(Bal(l, i), -q), Add(Rem(l), -q), Add(Inv(i), -q)} \subseteq Statements
      /\ {Lock(Inv(i)), Lock(Bal(l, i)), Lock(Rem(l)), Lock(LotCounter),
          LockEmpty(Inv(i)), FirstRead(Inv(i)), Weigh(Inv(i))} \subseteq Statements
  BY <1>1, StatementsOfALot
<1> DEFINE D == Delivered(d, l, i, q)
           S == <<Lock(Inv(i))>> \o <<FirstRead(Inv(i)), LockAll(LotsAndBalances)>>
           P == PurchaseIssue(d, l, i, q)
<1>3. P = S \o D
  BY DEF PurchaseIssue, CompletionCheck
<1>4. Delivery(d, l, i, q) \in Statements
  BY InsertStatements
<1>5. LockAll(LotsAndBalances) \in Statements
  BY TheCheckIsAStatement
<1>6. D = <<Read(LotRows(l, i) \cup {Inv(i)}, q), Lock(Rem(l)),
            Add(Bal(l, i), -q), Add(Rem(l), -q), Add(Inv(i), -q),
            Delivery(d, l, i, q)>>
  BY ProgramSteps
<1>7. /\ S \in Seq(Statements) /\ Len(S) = 3
      /\ S[1] = Lock(Inv(i))
      /\ S[2] = FirstRead(Inv(i))
      /\ S[3] = LockAll(LotsAndBalances)
  BY <1>2, <1>5, Join12
<1> HIDE DEF D, S, P
<1>8. /\ D \in Seq(Statements) /\ Len(D) = 6
      /\ D[1] = Read(LotRows(l, i) \cup {Inv(i)}, q)
      /\ D[2] = Lock(Rem(l))
      /\ D[3] = Add(Bal(l, i), -q)
      /\ D[4] = Add(Rem(l), -q)
      /\ D[5] = Add(Inv(i), -q)
      /\ D[6] = Delivery(d, l, i, q)
  BY <1>2, <1>4, <1>6
<1>9. /\ P \in Seq(Statements) /\ Len(P) = Len(S) + Len(D)
      /\ \A n \in 1..(Len(S) + Len(D)) :
            P[n] = IF n <= Len(S) THEN S[n] ELSE D[n - Len(S)]
  BY <1>3, <1>7, <1>8, ConcatProperties
<1>10. /\ P \in Seq(Statements) /\ Len(P) = 9
      /\ \A n \in 1..9 : P[n] = IF n <= 3 THEN S[n] ELSE D[n - 3]
  BY <1>7, <1>8, <1>9
<1>11. /\ P[1] = S[1] /\ P[2] = S[2] /\ P[3] = S[3]
      /\ P[4] = D[1] /\ P[5] = D[2] /\ P[6] = D[3] /\ P[7] = D[4] /\ P[8] = D[5] /\ P[9] = D[6]
  BY <1>10
<1>12. QED
  BY <1>7, <1>8, <1>10, <1>11 DEF P

LEMMA PostingsAreStatements ==
    ASSUME NEW l \in Lots, NEW i \in Stocks, NEW q \in Nat
    PROVE  /\ Issue(0, l, i, q) \in Seq(Statements)
           /\ \A d \in Docs : Issue(d, l, i, q) \in Seq(Statements)
           /\ PurchaseIssue(0, l, i, q) \in Seq(Statements)
           /\ \A d \in Docs : PurchaseIssue(d, l, i, q) \in Seq(Statements)
           /\ Dispose(l, i, q) \in Seq(Statements)
           /\ SupplierReturn(l, i, q) \in Seq(Statements)
           /\ \A k \in Stocks : Transfer(l, i, k, q) \in Seq(Statements)
           /\ Receipt(l, i, q) \in Seq(Statements)
           /\ DraftReceipt(l, i, q) \in Seq(Statements)
           /\ OpeningBalance(l, i, q) \in Seq(Statements)
           /\ \A d \in Docs : RecipientReturn(d, l, i, q) \in Seq(Statements)
<1>1. /\ {Read(LotRows(l, i), q), Read({Inv(i)}, q),
          Read(LotRows(l, i) \cup {Inv(i)}, q)} \subseteq Statements
      /\ {Add(Bal(l, i), -q), Add(Rem(l), -q), Add(Inv(i), -q)} \subseteq Statements
      /\ {Lock(Inv(i)), Lock(Bal(l, i)), Lock(Rem(l)), Lock(LotCounter),
          LockEmpty(Inv(i)), FirstRead(Inv(i)), Weigh(Inv(i))} \subseteq Statements
      /\ {Put({Inv(i)}, q), Put(LotRows(l, i) \cup {Inv(i)}, q),
          Insert(Each({Inv(i)}, q)), Insert(Each({Bal(l, i)}, q))} \subseteq Statements
  BY StatementsOfALot
<1>2. /\ Creation(l, i, q) \in Statements
      /\ \A d \in Docs : Delivery(d, l, i, q) \in Statements
  BY InsertStatements
<1>3. Issue(0, l, i, q) \in Seq(Statements) /\ PurchaseIssue(0, l, i, q) \in Seq(Statements)
  BY IssueSteps, PurchaseIssueSteps
<1>4. ASSUME NEW d \in Docs
      PROVE  /\ Issue(d, l, i, q) \in Seq(Statements)
             /\ PurchaseIssue(d, l, i, q) \in Seq(Statements)
  BY DocumentedIssueSteps, DocumentedPurchaseIssueSteps
<1>5. Dispose(l, i, q) \in Seq(Statements) /\ SupplierReturn(l, i, q) \in Seq(Statements)
  <2>1. <<Read(LotRows(l, i), q), Lock(Rem(l)), Add(Bal(l, i), -q), Add(Rem(l), -q),
          Lock(Inv(i)), Read({Inv(i)}, q), Add(Inv(i), -q)>>
            \in Seq(Statements)
    BY <1>1
  <2>2. QED
    BY <2>1, ProgramSteps
<1>6. ASSUME NEW k \in Stocks
      PROVE  Transfer(l, i, k, q) \in Seq(Statements)
  <2>1. {Lock(Inv(k)), Weigh(Inv(k)), Insert(Each({Bal(l, k)}, q)),
         Insert(Each({Inv(k)}, q))} \subseteq Statements
    BY StatementsOfALot, q \in Int, q >= 0
  <2>2. QED
    BY <1>1, <2>1 DEF Transfer
<1>7. Receipt(l, i, q) \in Seq(Statements)
  <2>1. <<FirstRead(Inv(i)), Lock(Inv(i)), Weigh(Inv(i)),
          Lock(LotCounter), Creation(l, i, q), Put({Inv(i)}, q)>>
            \in Seq(Statements)
    BY <1>1, <1>2
  <2>2. QED
    BY <2>1, ProgramSteps
<1>8. DraftReceipt(l, i, q) \in Seq(Statements)
  <2>1. <<Lock(Inv(i)), Put({Inv(i)}, q),
          Lock(LotCounter), Creation(l, i, q)>>
            \in Seq(Statements)
    BY <1>1, <1>2
  <2>2. QED
    BY <2>1, ProgramSteps
<1>9. OpeningBalance(l, i, q) \in Seq(Statements)
  <2>1. <<LockEmpty(Inv(i)), Lock(LotCounter),
          Creation(l, i, q), Insert(Each({Inv(i)}, q))>>
            \in Seq(Statements)
    BY <1>1, <1>2
  <2>2. QED
    BY <2>1, ProgramSteps
<1>10. ASSUME NEW d \in Docs
       PROVE  RecipientReturn(d, l, i, q) \in Seq(Statements)
  <2>1. {Lock(Open(d, l, i)), Read({Open(d, l, i)}, q),
         Insert(Each({Open(d, l, i)}, -q))} \subseteq Statements
    BY StatementsOfADocument
  <2>2. QED
    BY <1>1, <2>1 DEF RecipientReturn
<1>11. QED
  BY <1>3, <1>4, <1>5, <1>6, <1>7, <1>8, <1>9, <1>10

\* Every program is a sequence of statements.
LEMMA ProgramsAreStatements ==
    ASSUME NEW j \in Jobs
    PROVE  Programs[j] \in Seq(Statements)
<1>1. CASE j.kind = "settle"
  <2>1. \A l \in Lots, i \in Stocks, q \in Int : Settle(l, i, q) \in Seq(Statements)
    <3> SUFFICES ASSUME NEW l \in Lots, NEW i \in Stocks, NEW q \in Int
                 PROVE  Settle(l, i, q) \in Seq(Statements)
      OBVIOUS
    <3>1. {FirstRead(Inv(i)), Lock(Inv(i)), Agree(AgreeRows(l, i)),
           Swap(Bal(l, i), q), Swap(Rem(l), q), Swap(Inv(i), q)} \subseteq Statements
      BY StatementsOfALot
    <3>2. QED
      BY <3>1 DEF Settle
  <2>2. QED
    BY <1>1, <2>1, ProgramOf, JobFields
<1>2. CASE j.kind # "settle"
  <2>1. /\ j.lot \in Lots /\ j.stock \in Stocks /\ j.qty \in Nat
        /\ j.doc = 0 \/ j.doc \in Docs
        /\ j.kind = "transfer" => j.dest \in Stocks
        /\ j.kind \in ReturnKinds => j.doc \in Docs
        /\ j.kind \in AllKinds
    BY <1>2, JobFields DEF Docs
  <2>2. CASE j.kind \in IssueKinds
    <3>1. Programs[j] \in {Issue(j.doc, j.lot, j.stock, j.qty),
                           PurchaseIssue(j.doc, j.lot, j.stock, j.qty)}
      BY <2>2, ProgramOf DEF IssueKinds
    <3>2. QED
      BY <2>1, <3>1, PostingsAreStatements
  <2>3. CASE j.kind \in {"dispose", "supplierReturn"}
    <3>1. Programs[j] \in {Dispose(j.lot, j.stock, j.qty),
                           SupplierReturn(j.lot, j.stock, j.qty)}
      BY <2>3, ProgramOf
    <3>2. QED
      BY <2>1, <3>1, PostingsAreStatements
  <2>4. CASE j.kind = "transfer"
    <3>1. Programs[j] = Transfer(j.lot, j.stock, j.dest, j.qty)
      BY <2>4, ProgramOf
    <3>2. QED
      BY <2>1, <2>4, <3>1, PostingsAreStatements
  <2>5. CASE j.kind \in CreatingKinds
    <3>1. Programs[j] \in {Receipt(j.lot, j.stock, j.qty),
                           DraftReceipt(j.lot, j.stock, j.qty),
                           OpeningBalance(j.lot, j.stock, j.qty)}
      BY <2>5, ProgramOf DEF CreatingKinds
    <3>2. QED
      BY <2>1, <3>1, PostingsAreStatements
  <2>6. CASE j.kind \in ReturnKinds
    <3>1. Programs[j] = RecipientReturn(j.doc, j.lot, j.stock, j.qty)
      BY <2>6, ProgramOf
    <3>2. QED
      BY <2>1, <2>6, <3>1, PostingsAreStatements
  <2>7. QED
    BY <1>2, <2>1, <2>2, <2>3, <2>4, <2>5, <2>6
       DEF AllKinds, CreatingKinds, ReturnKinds, IssueKinds
<1>3. QED
  BY <1>1, <1>2

-----------------------------------------------------------------------------
(* What a program locks and adds to.                                       *)

\* The rows statement s locks.
Locks(s) == IF s.op \in LockingOps THEN DOMAIN s.by ELSE {}

AddingOps == {"add", "insert", "put", "swap"}

\* The rows statement s adds to.
Adds(s) == IF s.op \in AddingOps THEN DOMAIN s.by ELSE {}

\* The rows that stand for the variables of LotLedger.
LedgerRows == GoodsRows \cup {Made(l) : l \in Lots}

\* Program P adds to each of these rows that is to change once, and to no
\* other of them.
Posts(P, changes) ==
    /\ \A n \in 1..Len(P) : \A r \in Adds(P[n]) :
        r \in LedgerRows => r \in DOMAIN changes /\ P[n].by[r] = changes[r]
    /\ \A m, n \in 1..Len(P) : \A r \in Adds(P[n]) :
        r \in LedgerRows /\ r \in Adds(P[m]) => m = n
    /\ \A r \in DOMAIN changes : \E n \in 1..Len(P) : r \in Adds(P[n])

\* Program P sets a figure from a plain SELECT only after writing the row.
PutsItsOwn(P) ==
    \A n \in 1..Len(P) : P[n].op = "put" =>
        \A r \in DOMAIN P[n].by : \E m \in 1..(n - 1) :
            P[m].op \in WritingOps /\ r \in DOMAIN P[m].by

OpenRows == {Open(d, l, i) : d \in Docs, l \in Lots, i \in Stocks}

\* Program P takes nothing from what may be returned under a document.
TakesNoReturn(P) ==
    \A n \in 1..Len(P) : \A r \in Adds(P[n]) :
        r \in OpenRows => P[n].op = "insert" /\ P[n].by[r] >= 0

\* The rows an operation on lot l at stock row i changes, and what it adds.
Three(l, i) == LotRows(l, i) \cup {Inv(i)}

Created(l, i, q) ==
    [r \in Three(l, i) \cup {Made(l)} |-> IF r = Made(l) THEN 1 ELSE q]

Moved(l, i, k, q) ==
    [r \in {Bal(l, i), Inv(i)} \cup {Bal(l, k), Inv(k)} |->
        IF r \in {Bal(l, i), Inv(i)} THEN -q ELSE q]

LEMMA KindsOfRows ==
    ASSUME NEW l \in Lots, NEW i \in Stocks
    PROVE  /\ {Bal(l, i), Rem(l), Inv(i), Made(l)} \subseteq LedgerRows
           /\ {Bal(l, i), Rem(l), Inv(i), Made(l)} \cap OpenRows = {}
           /\ \A d \in Docs :
                /\ {Sent(d, l, i), Open(d, l, i)} \cap LedgerRows = {}
                /\ Sent(d, l, i) \notin OpenRows
<1>1. {Bal(l, i), Rem(l), Inv(i), Made(l)} \subseteq LedgerRows
  BY RowsOfALot DEF LedgerRows
<1>2. {Bal(l, i), Rem(l), Inv(i), Made(l)} \cap OpenRows = {}
  BY DEF OpenRows, Bal, Rem, Inv, Made, Open
<1>3. ASSUME NEW d \in Docs
      PROVE  /\ {Sent(d, l, i), Open(d, l, i)} \cap LedgerRows = {}
             /\ Sent(d, l, i) \notin OpenRows
  <2>1. {Sent(d, l, i), Open(d, l, i)} \cap GoodsRows = {}
    BY RowsOfALot
  <2>2. {Sent(d, l, i), Open(d, l, i)} \cap {Made(k) : k \in Lots} = {}
    BY DEF Sent, Open, Made
  <2>3. Sent(d, l, i) \notin OpenRows
    BY DEF OpenRows, Sent, Open
  <2>4. QED
    BY <2>1, <2>2, <2>3 DEF LedgerRows
<1>4. QED
  BY <1>1, <1>2, <1>3

LEMMA LocksOfStatements ==
    /\ \A r : Locks(Lock(r)) = {r}
    /\ \A r : Locks(LockEmpty(r)) = {r}
    /\ \A r : Locks(Weigh(r)) = {r}
    /\ \A r, n : Locks(Add(r, n)) = {r}
    /\ \A r, n : Locks(Swap(r, n)) = {r}
    /\ \A R, n : Locks(Put(R, n)) = R
    /\ \A R, n : Locks(Insert(Each(R, n))) = R
    /\ \A R, n : Locks(Read(R, n)) = {}
    /\ \A r : Locks(FirstRead(r)) = {}
    /\ \A R : Locks(Agree(R)) = {}
    /\ \A l, i, q : Locks(Creation(l, i, q)) = {Bal(l, i), Rem(l), Made(l)}
    /\ \A d, l, i, q : Locks(Delivery(d, l, i, q)) = {Sent(d, l, i), Open(d, l, i)}
BY DEF Locks, Lock, LockEmpty, Weigh, Add, Swap, Put, Insert, Read, FirstRead, Agree,
       Creation, Delivery, LotRows, Each, LockingOps

LEMMA AddsOfStatements ==
    /\ \A r : Adds(Lock(r)) = {} /\ Lock(r).op # "put"
    /\ \A R : Adds(LockAll(R)) = {} /\ LockAll(R).op # "put"
    /\ \A r : Adds(LockEmpty(r)) = {} /\ LockEmpty(r).op # "put"
    /\ \A r : Adds(Weigh(r)) = {} /\ Weigh(r).op # "put"
    /\ \A r, n : Adds(Add(r, n)) = {r} /\ Add(r, n).by[r] = n /\ Add(r, n).op # "put"
    /\ \A r, n : Adds(Swap(r, n)) = {r} /\ Swap(r, n).by[r] = n /\ Swap(r, n).op # "put"
    /\ \A R, n : Adds(Put(R, n)) = R /\ \A r \in R : Put(R, n).by[r] = n
    /\ \A R, n : /\ Adds(Insert(Each(R, n))) = R
                 /\ \A r \in R : Insert(Each(R, n)).by[r] = n
                 /\ Insert(Each(R, n)).op = "insert"
    /\ \A R, n : Adds(Read(R, n)) = {} /\ Read(R, n).op # "put"
    /\ \A r : Adds(FirstRead(r)) = {} /\ FirstRead(r).op # "put"
    /\ \A R : Adds(Agree(R)) = {} /\ Agree(R).op # "put"
BY DEF Adds, Lock, LockAll, LockEmpty, Weigh, Add, Swap, Put, Insert, Read, FirstRead, Agree,
       Each, AddingOps

LEMMA AddsOfInserts ==
    /\ \A l, i, q : /\ Adds(Creation(l, i, q)) = {Bal(l, i), Rem(l), Made(l)}
                   /\ Creation(l, i, q).by[Bal(l, i)] = q
                   /\ Creation(l, i, q).by[Rem(l)] = q
                   /\ Creation(l, i, q).by[Made(l)] = 1
                   /\ Creation(l, i, q).op = "insert"
    /\ \A d, l, i, q : /\ Adds(Delivery(d, l, i, q)) = {Sent(d, l, i), Open(d, l, i)}
                      /\ Sent(d, l, i) # Open(d, l, i)
                      /\ Delivery(d, l, i, q).by[Open(d, l, i)] = q
                      /\ Delivery(d, l, i, q).op = "insert"
<1>1. /\ \A d, l, i : Sent(d, l, i) # Open(d, l, i)
      /\ \A l, i : Bal(l, i) # Made(l) /\ Rem(l) # Made(l)
  BY DEF Sent, Open, Bal, Rem, Made
<1>2. QED
  BY <1>1 DEF Adds, Creation, Delivery, Insert, LotRows, AddingOps

\* A statement adds to rows it writes.
LEMMA AddersWrite ==
    ASSUME NEW s
    PROVE  Adds(s) # {} => s.op \in WritingOps /\ Adds(s) = DOMAIN s.by
BY DEF Adds, AddingOps, WritingOps

\* A program that reads nothing it does not hold.
LEMMA NoPut ==
    ASSUME NEW P, \A n \in 1..Len(P) : P[n].op # "put"
    PROVE  PutsItsOwn(P)
BY DEF PutsItsOwn

-----------------------------------------------------------------------------
(* The programs, one by one.                                               *)

LEMMA IssueProgram ==
    ASSUME NEW l \in Lots, NEW i \in Stocks, NEW q \in Nat
    PROVE  /\ Posts(Issue(0, l, i, q), Each(Three(l, i), -q))
           /\ PutsItsOwn(Issue(0, l, i, q))
           /\ TakesNoReturn(Issue(0, l, i, q))
<1> DEFINE P == Issue(0, l, i, q)
           A == Each(Three(l, i), -q)
           x == -q
<1>1. /\ DOMAIN A = {Bal(l, i), Rem(l), Inv(i)}
      /\ A[Bal(l, i)] = x /\ A[Rem(l)] = x /\ A[Inv(i)] = x
  BY RowsDiffer DEF Each, Three, LotRows
<1>2. /\ q \in Int /\ x \in Int
      /\ Bal(l, i) # Rem(l) /\ Bal(l, i) # Inv(i) /\ Rem(l) # Inv(i)
  BY RowsDiffer
<1>3. {Bal(l, i), Rem(l), Inv(i), Made(l)} \cap OpenRows = {}
  BY KindsOfRows
<1>4. /\ Len(P) = 6
      /\ P[1] = Lock(Inv(i)) /\ P[2] = Read(LotRows(l, i) \cup {Inv(i)}, q)
      /\ P[3] = Lock(Rem(l)) /\ P[4] = Add(Bal(l, i), x)
      /\ P[5] = Add(Rem(l), x) /\ P[6] = Add(Inv(i), x)
  BY IssueSteps
<1> HIDE DEF P, A, x
<1>5. /\ Adds(P[1]) = {} /\ Adds(P[2]) = {}
      /\ Adds(P[3]) = {} /\ Adds(P[4]) = {Bal(l, i)}
      /\ Adds(P[5]) = {Rem(l)} /\ Adds(P[6]) = {Inv(i)}
  BY <1>4, AddsOfStatements, AddsOfInserts
<1>6. /\ P[4].by[Bal(l, i)] = x /\ P[5].by[Rem(l)] = x
      /\ P[6].by[Inv(i)] = x
  BY <1>4, AddsOfStatements, AddsOfInserts
<1> DEFINE Right(n) == \A r \in Adds(P[n]) :
              r \in LedgerRows => r \in DOMAIN A /\ P[n].by[r] = A[r]
<1>7. \A n \in 1..Len(P) : Right(n)
  <2>1. /\ Right(1) /\ Right(2) /\ Right(3) /\ Right(4) /\ Right(5)
        /\ Right(6)
    BY <1>1, <1>5, <1>6
  <2> HIDE DEF Right
  <2>2. QED
    BY <1>4, <2>1
<1>8. \A m, n \in 1..Len(P) : \A r \in Adds(P[n]) :
           r \in LedgerRows /\ r \in Adds(P[m]) => m = n
  BY <1>2, <1>4, <1>5
<1>9. \A r \in DOMAIN A : \E n \in 1..Len(P) : r \in Adds(P[n])
  BY <1>1, <1>4, <1>5
<1>10. Posts(P, A)
  BY <1>7, <1>8, <1>9 DEF Posts
<1>11. PutsItsOwn(P)
  <2>1. /\ P[1].op # "put" /\ P[2].op # "put" /\ P[3].op # "put"
        /\ P[4].op # "put" /\ P[5].op # "put" /\ P[6].op # "put"
    BY <1>4, AddsOfStatements, AddsOfInserts
  <2>2. QED
    BY <1>4, <2>1, NoPut
<1>12. TakesNoReturn(P)
  BY <1>3, <1>4, <1>5 DEF TakesNoReturn
<1>13. QED
  BY <1>10, <1>11, <1>12 DEF P, A

LEMMA DocumentedIssueProgram ==
    ASSUME NEW d \in Docs, NEW l \in Lots, NEW i \in Stocks, NEW q \in Nat
    PROVE  /\ Posts(Issue(d, l, i, q), Each(Three(l, i), -q))
           /\ PutsItsOwn(Issue(d, l, i, q))
           /\ TakesNoReturn(Issue(d, l, i, q))
<1> DEFINE P == Issue(d, l, i, q)
           A == Each(Three(l, i), -q)
           x == -q
<1>1. /\ DOMAIN A = {Bal(l, i), Rem(l), Inv(i)}
      /\ A[Bal(l, i)] = x /\ A[Rem(l)] = x /\ A[Inv(i)] = x
  BY RowsDiffer DEF Each, Three, LotRows
<1>2. /\ q \in Int /\ x \in Int
      /\ Bal(l, i) # Rem(l) /\ Bal(l, i) # Inv(i) /\ Rem(l) # Inv(i)
  BY RowsDiffer
<1>3. /\ {Bal(l, i), Rem(l), Inv(i), Made(l)} \cap OpenRows = {}
      /\ Sent(d, l, i) \notin OpenRows
      /\ {Sent(d, l, i), Open(d, l, i)} \cap LedgerRows = {}
  BY KindsOfRows
<1>4. /\ Len(P) = 7
      /\ P[1] = Lock(Inv(i)) /\ P[2] = Read(LotRows(l, i) \cup {Inv(i)}, q)
      /\ P[3] = Lock(Rem(l)) /\ P[4] = Add(Bal(l, i), x)
      /\ P[5] = Add(Rem(l), x) /\ P[6] = Add(Inv(i), x)
      /\ P[7] = Delivery(d, l, i, q)
  BY DocumentedIssueSteps
<1> HIDE DEF P, A, x
<1>5. /\ Adds(P[1]) = {} /\ Adds(P[2]) = {}
      /\ Adds(P[3]) = {} /\ Adds(P[4]) = {Bal(l, i)}
      /\ Adds(P[5]) = {Rem(l)} /\ Adds(P[6]) = {Inv(i)}
      /\ Adds(P[7]) = {Sent(d, l, i), Open(d, l, i)}
  BY <1>4, AddsOfStatements, AddsOfInserts
<1>6. /\ P[4].by[Bal(l, i)] = x /\ P[5].by[Rem(l)] = x
      /\ P[6].by[Inv(i)] = x /\ P[7].by[Open(d, l, i)] = q
  BY <1>4, AddsOfStatements, AddsOfInserts
<1> DEFINE Right(n) == \A r \in Adds(P[n]) :
              r \in LedgerRows => r \in DOMAIN A /\ P[n].by[r] = A[r]
<1>7. \A n \in 1..Len(P) : Right(n)
  <2>1. /\ Right(1) /\ Right(2) /\ Right(3) /\ Right(4) /\ Right(5)
        /\ Right(6) /\ Right(7)
    BY <1>1, <1>3, <1>5, <1>6
  <2> HIDE DEF Right
  <2>2. QED
    BY <1>4, <2>1
<1>8. \A m, n \in 1..Len(P) : \A r \in Adds(P[n]) :
           r \in LedgerRows /\ r \in Adds(P[m]) => m = n
  BY <1>2, <1>3, <1>4, <1>5
<1>9. \A r \in DOMAIN A : \E n \in 1..Len(P) : r \in Adds(P[n])
  BY <1>1, <1>4, <1>5
<1>10. Posts(P, A)
  BY <1>7, <1>8, <1>9 DEF Posts
<1>11. PutsItsOwn(P)
  <2>1. /\ P[1].op # "put" /\ P[2].op # "put" /\ P[3].op # "put"
        /\ P[4].op # "put" /\ P[5].op # "put" /\ P[6].op # "put"
        /\ P[7].op # "put"
    BY <1>4, AddsOfStatements, AddsOfInserts
  <2>2. QED
    BY <1>4, <2>1, NoPut
<1> DEFINE Kept(n) == \A r \in Adds(P[n]) :
              r \in OpenRows => P[n].op = "insert" /\ P[n].by[r] >= 0
<1>12. TakesNoReturn(P)
  <2>1. /\ Kept(1) /\ Kept(2) /\ Kept(3) /\ Kept(4) /\ Kept(5)
        /\ Kept(6)
    BY <1>3, <1>5
  <2>2. Kept(7)
    <3>1. P[7].op = "insert" /\ q >= 0
      BY <1>4, AddsOfInserts
    <3>2. QED
      BY <1>3, <1>5, <1>6, <3>1
  <2> HIDE DEF Kept
  <2>3. \A n \in 1..Len(P) : Kept(n)
    BY <1>4, <2>1, <2>2
  <2>4. QED
    BY <2>3 DEF TakesNoReturn, Kept
<1>13. QED
  BY <1>10, <1>11, <1>12 DEF P, A

LEMMA PurchaseIssueProgram ==
    ASSUME NEW l \in Lots, NEW i \in Stocks, NEW q \in Nat
    PROVE  /\ Posts(PurchaseIssue(0, l, i, q), Each(Three(l, i), -q))
           /\ PutsItsOwn(PurchaseIssue(0, l, i, q))
           /\ TakesNoReturn(PurchaseIssue(0, l, i, q))
<1> DEFINE P == PurchaseIssue(0, l, i, q)
           A == Each(Three(l, i), -q)
           x == -q
<1>1. /\ DOMAIN A = {Bal(l, i), Rem(l), Inv(i)}
      /\ A[Bal(l, i)] = x /\ A[Rem(l)] = x /\ A[Inv(i)] = x
  BY RowsDiffer DEF Each, Three, LotRows
<1>2. /\ q \in Int /\ x \in Int
      /\ Bal(l, i) # Rem(l) /\ Bal(l, i) # Inv(i) /\ Rem(l) # Inv(i)
  BY RowsDiffer
<1>3. {Bal(l, i), Rem(l), Inv(i), Made(l)} \cap OpenRows = {}
  BY KindsOfRows
<1>4. /\ Len(P) = 8
      /\ P[1] = Lock(Inv(i)) /\ P[2] = FirstRead(Inv(i))
      /\ P[3] = LockAll(LotsAndBalances) /\ P[4] = Read(LotRows(l, i) \cup {Inv(i)}, q)
      /\ P[5] = Lock(Rem(l)) /\ P[6] = Add(Bal(l, i), x)
      /\ P[7] = Add(Rem(l), x) /\ P[8] = Add(Inv(i), x)
  BY PurchaseIssueSteps
<1> HIDE DEF P, A, x
<1>5. /\ Adds(P[1]) = {} /\ Adds(P[2]) = {}
      /\ Adds(P[3]) = {} /\ Adds(P[4]) = {}
      /\ Adds(P[5]) = {} /\ Adds(P[6]) = {Bal(l, i)}
      /\ Adds(P[7]) = {Rem(l)} /\ Adds(P[8]) = {Inv(i)}
  BY <1>4, AddsOfStatements, AddsOfInserts
<1>6. /\ P[6].by[Bal(l, i)] = x /\ P[7].by[Rem(l)] = x
      /\ P[8].by[Inv(i)] = x
  BY <1>4, AddsOfStatements, AddsOfInserts
<1> DEFINE Right(n) == \A r \in Adds(P[n]) :
              r \in LedgerRows => r \in DOMAIN A /\ P[n].by[r] = A[r]
<1>7. \A n \in 1..Len(P) : Right(n)
  <2>1. /\ Right(1) /\ Right(2) /\ Right(3) /\ Right(4) /\ Right(5)
        /\ Right(6) /\ Right(7) /\ Right(8)
    BY <1>1, <1>5, <1>6
  <2> HIDE DEF Right
  <2>2. QED
    BY <1>4, <2>1
<1>8. \A m, n \in 1..Len(P) : \A r \in Adds(P[n]) :
           r \in LedgerRows /\ r \in Adds(P[m]) => m = n
  BY <1>2, <1>4, <1>5
<1>9. \A r \in DOMAIN A : \E n \in 1..Len(P) : r \in Adds(P[n])
  BY <1>1, <1>4, <1>5
<1>10. Posts(P, A)
  BY <1>7, <1>8, <1>9 DEF Posts
<1>11. PutsItsOwn(P)
  <2>1. /\ P[1].op # "put" /\ P[2].op # "put" /\ P[3].op # "put"
        /\ P[4].op # "put" /\ P[5].op # "put" /\ P[6].op # "put"
        /\ P[7].op # "put" /\ P[8].op # "put"
    BY <1>4, AddsOfStatements, AddsOfInserts
  <2>2. QED
    BY <1>4, <2>1, NoPut
<1>12. TakesNoReturn(P)
  BY <1>3, <1>4, <1>5 DEF TakesNoReturn
<1>13. QED
  BY <1>10, <1>11, <1>12 DEF P, A

LEMMA DocumentedPurchaseIssueProgram ==
    ASSUME NEW d \in Docs, NEW l \in Lots, NEW i \in Stocks, NEW q \in Nat
    PROVE  /\ Posts(PurchaseIssue(d, l, i, q), Each(Three(l, i), -q))
           /\ PutsItsOwn(PurchaseIssue(d, l, i, q))
           /\ TakesNoReturn(PurchaseIssue(d, l, i, q))
<1> DEFINE P == PurchaseIssue(d, l, i, q)
           A == Each(Three(l, i), -q)
           x == -q
<1>1. /\ DOMAIN A = {Bal(l, i), Rem(l), Inv(i)}
      /\ A[Bal(l, i)] = x /\ A[Rem(l)] = x /\ A[Inv(i)] = x
  BY RowsDiffer DEF Each, Three, LotRows
<1>2. /\ q \in Int /\ x \in Int
      /\ Bal(l, i) # Rem(l) /\ Bal(l, i) # Inv(i) /\ Rem(l) # Inv(i)
  BY RowsDiffer
<1>3. /\ {Bal(l, i), Rem(l), Inv(i), Made(l)} \cap OpenRows = {}
      /\ Sent(d, l, i) \notin OpenRows
      /\ {Sent(d, l, i), Open(d, l, i)} \cap LedgerRows = {}
  BY KindsOfRows
<1>4. /\ Len(P) = 9
      /\ P[1] = Lock(Inv(i)) /\ P[2] = FirstRead(Inv(i))
      /\ P[3] = LockAll(LotsAndBalances) /\ P[4] = Read(LotRows(l, i) \cup {Inv(i)}, q)
      /\ P[5] = Lock(Rem(l)) /\ P[6] = Add(Bal(l, i), x)
      /\ P[7] = Add(Rem(l), x) /\ P[8] = Add(Inv(i), x)
      /\ P[9] = Delivery(d, l, i, q)
  BY DocumentedPurchaseIssueSteps
<1> HIDE DEF P, A, x
<1>5. /\ Adds(P[1]) = {} /\ Adds(P[2]) = {}
      /\ Adds(P[3]) = {} /\ Adds(P[4]) = {}
      /\ Adds(P[5]) = {} /\ Adds(P[6]) = {Bal(l, i)}
      /\ Adds(P[7]) = {Rem(l)} /\ Adds(P[8]) = {Inv(i)}
      /\ Adds(P[9]) = {Sent(d, l, i), Open(d, l, i)}
  BY <1>4, AddsOfStatements, AddsOfInserts
<1>6. /\ P[6].by[Bal(l, i)] = x /\ P[7].by[Rem(l)] = x
      /\ P[8].by[Inv(i)] = x /\ P[9].by[Open(d, l, i)] = q
  BY <1>4, AddsOfStatements, AddsOfInserts
<1> DEFINE Right(n) == \A r \in Adds(P[n]) :
              r \in LedgerRows => r \in DOMAIN A /\ P[n].by[r] = A[r]
<1>7. \A n \in 1..Len(P) : Right(n)
  <2>1. /\ Right(1) /\ Right(2) /\ Right(3) /\ Right(4) /\ Right(5)
        /\ Right(6) /\ Right(7) /\ Right(8) /\ Right(9)
    BY <1>1, <1>3, <1>5, <1>6
  <2> HIDE DEF Right
  <2>2. QED
    BY <1>4, <2>1
<1>8. \A m, n \in 1..Len(P) : \A r \in Adds(P[n]) :
           r \in LedgerRows /\ r \in Adds(P[m]) => m = n
  BY <1>2, <1>3, <1>4, <1>5
<1>9. \A r \in DOMAIN A : \E n \in 1..Len(P) : r \in Adds(P[n])
  BY <1>1, <1>4, <1>5
<1>10. Posts(P, A)
  BY <1>7, <1>8, <1>9 DEF Posts
<1>11. PutsItsOwn(P)
  <2>1. /\ P[1].op # "put" /\ P[2].op # "put" /\ P[3].op # "put"
        /\ P[4].op # "put" /\ P[5].op # "put" /\ P[6].op # "put"
        /\ P[7].op # "put" /\ P[8].op # "put" /\ P[9].op # "put"
    BY <1>4, AddsOfStatements, AddsOfInserts
  <2>2. QED
    BY <1>4, <2>1, NoPut
<1> DEFINE Kept(n) == \A r \in Adds(P[n]) :
              r \in OpenRows => P[n].op = "insert" /\ P[n].by[r] >= 0
<1>12. TakesNoReturn(P)
  <2>1. /\ Kept(1) /\ Kept(2) /\ Kept(3) /\ Kept(4) /\ Kept(5)
        /\ Kept(6) /\ Kept(7) /\ Kept(8)
    BY <1>3, <1>5
  <2>2. Kept(9)
    <3>1. P[9].op = "insert" /\ q >= 0
      BY <1>4, AddsOfInserts
    <3>2. QED
      BY <1>3, <1>5, <1>6, <3>1
  <2> HIDE DEF Kept
  <2>3. \A n \in 1..Len(P) : Kept(n)
    BY <1>4, <2>1, <2>2
  <2>4. QED
    BY <2>3 DEF TakesNoReturn, Kept
<1>13. QED
  BY <1>10, <1>11, <1>12 DEF P, A

LEMMA DisposalProgram ==
    ASSUME NEW l \in Lots, NEW i \in Stocks, NEW q \in Nat
    PROVE  /\ Posts(Dispose(l, i, q), Each(Three(l, i), -q))
           /\ PutsItsOwn(Dispose(l, i, q))
           /\ TakesNoReturn(Dispose(l, i, q))
<1> DEFINE P == Dispose(l, i, q)
           A == Each(Three(l, i), -q)
           x == -q
<1>1. P = <<Read(LotRows(l, i), q), Lock(Rem(l)), Add(Bal(l, i), x),
            Add(Rem(l), x), Lock(Inv(i)), Read({Inv(i)}, q),
            Add(Inv(i), x)>>
  BY ProgramSteps
<1>2. /\ DOMAIN A = {Bal(l, i), Rem(l), Inv(i)}
      /\ A[Bal(l, i)] = x /\ A[Rem(l)] = x /\ A[Inv(i)] = x
  BY RowsDiffer DEF Each, Three, LotRows
<1>3. /\ q \in Int /\ x \in Int
      /\ Bal(l, i) # Rem(l) /\ Bal(l, i) # Inv(i) /\ Rem(l) # Inv(i)
  BY RowsDiffer
<1>4. {Bal(l, i), Rem(l), Inv(i), Made(l)} \cap OpenRows = {}
  BY KindsOfRows
<1> HIDE DEF P, A, x
<1>5. /\ Len(P) = 7
      /\ P[1] = Read(LotRows(l, i), q) /\ P[2] = Lock(Rem(l))
      /\ P[3] = Add(Bal(l, i), x) /\ P[4] = Add(Rem(l), x)
      /\ P[5] = Lock(Inv(i)) /\ P[6] = Read({Inv(i)}, q)
      /\ P[7] = Add(Inv(i), x)
  BY <1>1
<1>6. /\ Adds(P[1]) = {} /\ Adds(P[2]) = {}
      /\ Adds(P[3]) = {Bal(l, i)} /\ Adds(P[4]) = {Rem(l)}
      /\ Adds(P[5]) = {} /\ Adds(P[6]) = {}
      /\ Adds(P[7]) = {Inv(i)}
  BY <1>5, AddsOfStatements, AddsOfInserts
<1>7. /\ P[3].by[Bal(l, i)] = x /\ P[4].by[Rem(l)] = x
      /\ P[7].by[Inv(i)] = x
  BY <1>5, AddsOfStatements, AddsOfInserts
<1> DEFINE Right(n) == \A r \in Adds(P[n]) :
              r \in LedgerRows => r \in DOMAIN A /\ P[n].by[r] = A[r]
<1>8. \A n \in 1..Len(P) : Right(n)
  <2>1. /\ Right(1) /\ Right(2) /\ Right(3) /\ Right(4) /\ Right(5)
        /\ Right(6) /\ Right(7)
    BY <1>2, <1>6, <1>7
  <2> HIDE DEF Right
  <2>2. QED
    BY <1>5, <2>1
<1>9. \A m, n \in 1..Len(P) : \A r \in Adds(P[n]) :
           r \in LedgerRows /\ r \in Adds(P[m]) => m = n
  BY <1>3, <1>5, <1>6
<1>10. \A r \in DOMAIN A : \E n \in 1..Len(P) : r \in Adds(P[n])
  BY <1>2, <1>5, <1>6
<1>11. Posts(P, A)
  BY <1>8, <1>9, <1>10 DEF Posts
<1>12. PutsItsOwn(P)
  <2>1. /\ P[1].op # "put" /\ P[2].op # "put" /\ P[3].op # "put"
        /\ P[4].op # "put" /\ P[5].op # "put" /\ P[6].op # "put"
        /\ P[7].op # "put"
    BY <1>5, AddsOfStatements, AddsOfInserts
  <2>2. QED
    BY <1>5, <2>1, NoPut
<1>13. TakesNoReturn(P)
  BY <1>4, <1>5, <1>6 DEF TakesNoReturn
<1>14. QED
  BY <1>11, <1>12, <1>13 DEF P, A

LEMMA TransferProgram ==
    ASSUME NEW l \in Lots, NEW i \in Stocks, NEW k \in Stocks, k # i, NEW q \in Nat
    PROVE  /\ Posts(Transfer(l, i, k, q), Moved(l, i, k, q))
           /\ PutsItsOwn(Transfer(l, i, k, q))
           /\ TakesNoReturn(Transfer(l, i, k, q))
<1> DEFINE P == Transfer(l, i, k, q)
           A == Moved(l, i, k, q)
           x == -q
<1>1. P = <<FirstRead(Inv(i)), Lock(Inv(i)), Read({Inv(i)}, q),
            Lock(Inv(k)), Weigh(Inv(k)), Read(LotRows(l, i), q),
            Lock(Rem(l)), Add(Bal(l, i), x),
            Insert(Each({Bal(l, k)}, q)), Add(Inv(i), x),
            Insert(Each({Inv(k)}, q))>>
  BY DEF Transfer
<1>2. /\ DOMAIN A = {Bal(l, i), Bal(l, k), Inv(i), Inv(k)}
      /\ A[Bal(l, i)] = x /\ A[Bal(l, k)] = q /\ A[Inv(i)] = x
      /\ A[Inv(k)] = q
  BY RowsDiffer DEF Moved
<1>3. /\ q \in Int /\ x \in Int
      /\ Bal(l, i) # Inv(i) /\ Bal(l, i) # Bal(l, k) /\ Bal(l, i) # Inv(k)
      /\ Inv(i) # Bal(l, k) /\ Inv(i) # Inv(k) /\ Bal(l, k) # Inv(k)
  BY RowsDiffer
<1>4. /\ {Bal(l, i), Rem(l), Inv(i), Made(l)} \cap OpenRows = {}
      /\ {Bal(l, k), Inv(k)} \cap OpenRows = {}
  BY KindsOfRows
<1> HIDE DEF P, A, x
<1>5. /\ Len(P) = 11
      /\ P[1] = FirstRead(Inv(i)) /\ P[2] = Lock(Inv(i))
      /\ P[3] = Read({Inv(i)}, q) /\ P[4] = Lock(Inv(k))
      /\ P[5] = Weigh(Inv(k)) /\ P[6] = Read(LotRows(l, i), q)
      /\ P[7] = Lock(Rem(l)) /\ P[8] = Add(Bal(l, i), x)
      /\ P[9] = Insert(Each({Bal(l, k)}, q)) /\ P[10] = Add(Inv(i), x)
      /\ P[11] = Insert(Each({Inv(k)}, q))
  BY <1>1
<1>6. /\ Adds(P[1]) = {} /\ Adds(P[2]) = {}
      /\ Adds(P[3]) = {} /\ Adds(P[4]) = {}
      /\ Adds(P[5]) = {} /\ Adds(P[6]) = {}
      /\ Adds(P[7]) = {} /\ Adds(P[8]) = {Bal(l, i)}
      /\ Adds(P[9]) = {Bal(l, k)} /\ Adds(P[10]) = {Inv(i)}
      /\ Adds(P[11]) = {Inv(k)}
  BY <1>5, AddsOfStatements, AddsOfInserts
<1>7. /\ P[8].by[Bal(l, i)] = x /\ P[9].by[Bal(l, k)] = q
      /\ P[10].by[Inv(i)] = x /\ P[11].by[Inv(k)] = q
  BY <1>5, AddsOfStatements, AddsOfInserts
<1> DEFINE Right(n) == \A r \in Adds(P[n]) :
              r \in LedgerRows => r \in DOMAIN A /\ P[n].by[r] = A[r]
<1>8. \A n \in 1..Len(P) : Right(n)
  <2>1. /\ Right(1) /\ Right(2) /\ Right(3) /\ Right(4) /\ Right(5)
        /\ Right(6) /\ Right(7) /\ Right(8) /\ Right(9) /\ Right(10)
        /\ Right(11)
    BY <1>2, <1>6, <1>7
  <2> HIDE DEF Right
  <2>2. QED
    BY <1>5, <2>1
<1>9. \A m, n \in 1..Len(P) : \A r \in Adds(P[n]) :
           r \in LedgerRows /\ r \in Adds(P[m]) => m = n
  BY <1>3, <1>5, <1>6
<1>10. \A r \in DOMAIN A : \E n \in 1..Len(P) : r \in Adds(P[n])
  BY <1>2, <1>5, <1>6
<1>11. Posts(P, A)
  BY <1>8, <1>9, <1>10 DEF Posts
<1>12. PutsItsOwn(P)
  <2>1. /\ P[1].op # "put" /\ P[2].op # "put" /\ P[3].op # "put"
        /\ P[4].op # "put" /\ P[5].op # "put" /\ P[6].op # "put"
        /\ P[7].op # "put" /\ P[8].op # "put" /\ P[9].op # "put"
        /\ P[10].op # "put" /\ P[11].op # "put"
    BY <1>5, AddsOfStatements, AddsOfInserts
  <2>2. QED
    BY <1>5, <2>1, NoPut
<1>13. TakesNoReturn(P)
  BY <1>4, <1>5, <1>6 DEF TakesNoReturn
<1>14. QED
  BY <1>11, <1>12, <1>13 DEF P, A

LEMMA ReceiptProgram ==
    ASSUME NEW l \in Lots, NEW i \in Stocks, NEW q \in Nat
    PROVE  /\ Posts(Receipt(l, i, q), Created(l, i, q))
           /\ PutsItsOwn(Receipt(l, i, q))
           /\ TakesNoReturn(Receipt(l, i, q))
<1> DEFINE P == Receipt(l, i, q)
           A == Created(l, i, q)
<1>1. P = <<FirstRead(Inv(i)), Lock(Inv(i)), Weigh(Inv(i)),
            Lock(LotCounter), Creation(l, i, q), Put({Inv(i)}, q)>>
  BY ProgramSteps
<1>2. /\ DOMAIN A = {Bal(l, i), Rem(l), Made(l), Inv(i)}
      /\ A[Bal(l, i)] = q /\ A[Rem(l)] = q /\ A[Made(l)] = 1
      /\ A[Inv(i)] = q
  BY RowsDiffer DEF Created, Three, LotRows
<1>3. /\ q \in Int
      /\ Bal(l, i) # Rem(l) /\ Bal(l, i) # Inv(i) /\ Rem(l) # Inv(i)
      /\ Made(l) # Bal(l, i) /\ Made(l) # Rem(l) /\ Made(l) # Inv(i)
  BY RowsDiffer
<1>4. {Bal(l, i), Rem(l), Inv(i), Made(l)} \cap OpenRows = {}
  BY KindsOfRows
<1> HIDE DEF P, A
<1>5. /\ Len(P) = 6
      /\ P[1] = FirstRead(Inv(i)) /\ P[2] = Lock(Inv(i)) /\ P[3] = Weigh(Inv(i))
      /\ P[4] = Lock(LotCounter) /\ P[5] = Creation(l, i, q) /\ P[6] = Put({Inv(i)}, q)
  BY <1>1
<1>6. /\ Adds(P[1]) = {} /\ Adds(P[2]) = {}
      /\ Adds(P[3]) = {} /\ Adds(P[4]) = {}
      /\ Adds(P[5]) = {Bal(l, i), Rem(l), Made(l)} /\ Adds(P[6]) = {Inv(i)}
  BY <1>5, AddsOfStatements, AddsOfInserts
<1>7. /\ P[5].by[Bal(l, i)] = q /\ P[5].by[Rem(l)] = q
      /\ P[5].by[Made(l)] = 1 /\ P[6].by[Inv(i)] = q
  BY <1>5, AddsOfStatements, AddsOfInserts
<1> DEFINE Right(n) == \A r \in Adds(P[n]) :
              r \in LedgerRows => r \in DOMAIN A /\ P[n].by[r] = A[r]
<1>8. \A n \in 1..Len(P) : Right(n)
  <2>1. /\ Right(1) /\ Right(2) /\ Right(3) /\ Right(4) /\ Right(5)
        /\ Right(6)
    BY <1>2, <1>6, <1>7
  <2> HIDE DEF Right
  <2>2. QED
    BY <1>5, <2>1
<1>9. \A m, n \in 1..Len(P) : \A r \in Adds(P[n]) :
           r \in LedgerRows /\ r \in Adds(P[m]) => m = n
  BY <1>3, <1>5, <1>6
<1>10. \A r \in DOMAIN A : \E n \in 1..Len(P) : r \in Adds(P[n])
  BY <1>2, <1>5, <1>6
<1>11. Posts(P, A)
  BY <1>8, <1>9, <1>10 DEF Posts
<1>12. PutsItsOwn(P)
  <2>1. /\ P[1].op # "put" /\ P[2].op # "put" /\ P[3].op # "put"
        /\ P[4].op # "put" /\ P[5].op # "put"
    BY <1>5, AddsOfStatements, AddsOfInserts
  <2>2. /\ P[3].op \in WritingOps
        /\ DOMAIN P[3].by = {Inv(i)} /\ DOMAIN P[6].by = {Inv(i)}
    BY <1>5 DEF Weigh, Put, Each, WritingOps
  <2>3. ASSUME NEW n \in 1..Len(P), P[n].op = "put"
        PROVE  n = 6
    BY <1>5, <2>1, <2>3
  <2>4. 3 \in 1..(6 - 1)
    OBVIOUS
  <2>5. QED
    BY <2>2, <2>3, <2>4 DEF PutsItsOwn
<1>13. TakesNoReturn(P)
  BY <1>4, <1>5, <1>6 DEF TakesNoReturn
<1>14. QED
  BY <1>11, <1>12, <1>13 DEF P, A

LEMMA DraftReceiptProgram ==
    ASSUME NEW l \in Lots, NEW i \in Stocks, NEW q \in Nat
    PROVE  TakesNoReturn(DraftReceipt(l, i, q))
<1> DEFINE P == DraftReceipt(l, i, q)
<1>1. P = <<Lock(Inv(i)), Put({Inv(i)}, q), Lock(LotCounter),
            Creation(l, i, q)>>
  BY ProgramSteps
<1>2. /\ q \in Int
      /\ Bal(l, i) # Rem(l) /\ Bal(l, i) # Inv(i) /\ Rem(l) # Inv(i)
      /\ Made(l) # Bal(l, i) /\ Made(l) # Rem(l) /\ Made(l) # Inv(i)
  BY RowsDiffer
<1>3. {Bal(l, i), Rem(l), Inv(i), Made(l)} \cap OpenRows = {}
  BY KindsOfRows
<1> HIDE DEF P
<1>4. /\ Len(P) = 4
      /\ P[1] = Lock(Inv(i)) /\ P[2] = Put({Inv(i)}, q) /\ P[3] = Lock(LotCounter)
      /\ P[4] = Creation(l, i, q)
  BY <1>1
<1>5. /\ Adds(P[1]) = {} /\ Adds(P[2]) = {Inv(i)}
      /\ Adds(P[3]) = {} /\ Adds(P[4]) = {Bal(l, i), Rem(l), Made(l)}
  BY <1>4, AddsOfStatements, AddsOfInserts
<1>6. /\ P[2].by[Inv(i)] = q /\ P[4].by[Bal(l, i)] = q
      /\ P[4].by[Rem(l)] = q /\ P[4].by[Made(l)] = 1
  BY <1>4, AddsOfStatements, AddsOfInserts
<1>7. TakesNoReturn(P)
  BY <1>3, <1>4, <1>5 DEF TakesNoReturn
<1>8. QED
  BY <1>7 DEF P

LEMMA OpeningProgram ==
    ASSUME NEW l \in Lots, NEW i \in Stocks, NEW q \in Nat
    PROVE  /\ Posts(OpeningBalance(l, i, q), Created(l, i, q))
           /\ PutsItsOwn(OpeningBalance(l, i, q))
           /\ TakesNoReturn(OpeningBalance(l, i, q))
<1> DEFINE P == OpeningBalance(l, i, q)
           A == Created(l, i, q)
<1>1. P = <<LockEmpty(Inv(i)), Lock(LotCounter), Creation(l, i, q),
            Insert(Each({Inv(i)}, q))>>
  BY ProgramSteps
<1>2. /\ DOMAIN A = {Bal(l, i), Rem(l), Made(l), Inv(i)}
      /\ A[Bal(l, i)] = q /\ A[Rem(l)] = q /\ A[Made(l)] = 1
      /\ A[Inv(i)] = q
  BY RowsDiffer DEF Created, Three, LotRows
<1>3. /\ q \in Int
      /\ Bal(l, i) # Rem(l) /\ Bal(l, i) # Inv(i) /\ Rem(l) # Inv(i)
      /\ Made(l) # Bal(l, i) /\ Made(l) # Rem(l) /\ Made(l) # Inv(i)
  BY RowsDiffer
<1>4. {Bal(l, i), Rem(l), Inv(i), Made(l)} \cap OpenRows = {}
  BY KindsOfRows
<1> HIDE DEF P, A
<1>5. /\ Len(P) = 4
      /\ P[1] = LockEmpty(Inv(i)) /\ P[2] = Lock(LotCounter) /\ P[3] = Creation(l, i, q)
      /\ P[4] = Insert(Each({Inv(i)}, q))
  BY <1>1
<1>6. /\ Adds(P[1]) = {} /\ Adds(P[2]) = {}
      /\ Adds(P[3]) = {Bal(l, i), Rem(l), Made(l)} /\ Adds(P[4]) = {Inv(i)}
  BY <1>5, AddsOfStatements, AddsOfInserts
<1>7. /\ P[3].by[Bal(l, i)] = q /\ P[3].by[Rem(l)] = q
      /\ P[3].by[Made(l)] = 1 /\ P[4].by[Inv(i)] = q
  BY <1>5, AddsOfStatements, AddsOfInserts
<1> DEFINE Right(n) == \A r \in Adds(P[n]) :
              r \in LedgerRows => r \in DOMAIN A /\ P[n].by[r] = A[r]
<1>8. \A n \in 1..Len(P) : Right(n)
  <2>1. /\ Right(1) /\ Right(2) /\ Right(3) /\ Right(4)
    BY <1>2, <1>6, <1>7
  <2> HIDE DEF Right
  <2>2. QED
    BY <1>5, <2>1
<1>9. \A m, n \in 1..Len(P) : \A r \in Adds(P[n]) :
           r \in LedgerRows /\ r \in Adds(P[m]) => m = n
  BY <1>3, <1>5, <1>6
<1>10. \A r \in DOMAIN A : \E n \in 1..Len(P) : r \in Adds(P[n])
  BY <1>2, <1>5, <1>6
<1>11. Posts(P, A)
  BY <1>8, <1>9, <1>10 DEF Posts
<1>12. PutsItsOwn(P)
  <2>1. /\ P[1].op # "put" /\ P[2].op # "put" /\ P[3].op # "put"
        /\ P[4].op # "put"
    BY <1>5, AddsOfStatements, AddsOfInserts
  <2>2. QED
    BY <1>5, <2>1, NoPut
<1>13. TakesNoReturn(P)
  BY <1>4, <1>5, <1>6 DEF TakesNoReturn
<1>14. QED
  BY <1>11, <1>12, <1>13 DEF P, A

LEMMA SettlementProgram ==
    ASSUME NEW l \in Lots, NEW i \in Stocks, NEW q \in Int
    PROVE  /\ Posts(Settle(l, i, q), Each(Three(l, i), q))
           /\ PutsItsOwn(Settle(l, i, q))
           /\ TakesNoReturn(Settle(l, i, q))
<1> DEFINE P == Settle(l, i, q)
           A == Each(Three(l, i), q)
<1>1. P = <<FirstRead(Inv(i)), Lock(Inv(i)), Agree(AgreeRows(l, i)),
            Swap(Bal(l, i), q), Swap(Rem(l), q), Swap(Inv(i), q)>>
  BY DEF Settle
<1>2. /\ DOMAIN A = {Bal(l, i), Rem(l), Inv(i)}
      /\ A[Bal(l, i)] = q /\ A[Rem(l)] = q /\ A[Inv(i)] = q
  BY RowsDiffer DEF Each, Three, LotRows
<1>3. /\ q \in Int
      /\ Bal(l, i) # Rem(l) /\ Bal(l, i) # Inv(i) /\ Rem(l) # Inv(i)
  BY RowsDiffer
<1>4. {Bal(l, i), Rem(l), Inv(i), Made(l)} \cap OpenRows = {}
  BY KindsOfRows
<1> HIDE DEF P, A
<1>5. /\ Len(P) = 6
      /\ P[1] = FirstRead(Inv(i)) /\ P[2] = Lock(Inv(i)) /\ P[3] = Agree(AgreeRows(l, i))
      /\ P[4] = Swap(Bal(l, i), q) /\ P[5] = Swap(Rem(l), q) /\ P[6] = Swap(Inv(i), q)
  BY <1>1
<1>6. /\ Adds(P[1]) = {} /\ Adds(P[2]) = {}
      /\ Adds(P[3]) = {} /\ Adds(P[4]) = {Bal(l, i)}
      /\ Adds(P[5]) = {Rem(l)} /\ Adds(P[6]) = {Inv(i)}
  BY <1>5, AddsOfStatements, AddsOfInserts
<1>7. /\ P[4].by[Bal(l, i)] = q /\ P[5].by[Rem(l)] = q
      /\ P[6].by[Inv(i)] = q
  BY <1>5, AddsOfStatements, AddsOfInserts
<1> DEFINE Right(n) == \A r \in Adds(P[n]) :
              r \in LedgerRows => r \in DOMAIN A /\ P[n].by[r] = A[r]
<1>8. \A n \in 1..Len(P) : Right(n)
  <2>1. /\ Right(1) /\ Right(2) /\ Right(3) /\ Right(4) /\ Right(5)
        /\ Right(6)
    BY <1>2, <1>6, <1>7
  <2> HIDE DEF Right
  <2>2. QED
    BY <1>5, <2>1
<1>9. \A m, n \in 1..Len(P) : \A r \in Adds(P[n]) :
           r \in LedgerRows /\ r \in Adds(P[m]) => m = n
  BY <1>3, <1>5, <1>6
<1>10. \A r \in DOMAIN A : \E n \in 1..Len(P) : r \in Adds(P[n])
  BY <1>2, <1>5, <1>6
<1>11. Posts(P, A)
  BY <1>8, <1>9, <1>10 DEF Posts
<1>12. PutsItsOwn(P)
  <2>1. /\ P[1].op # "put" /\ P[2].op # "put" /\ P[3].op # "put"
        /\ P[4].op # "put" /\ P[5].op # "put" /\ P[6].op # "put"
    BY <1>5, AddsOfStatements, AddsOfInserts
  <2>2. QED
    BY <1>5, <2>1, NoPut
<1>13. TakesNoReturn(P)
  BY <1>4, <1>5, <1>6 DEF TakesNoReturn
<1>14. QED
  BY <1>11, <1>12, <1>13 DEF P, A

LEMMA ReturnProgram ==
    ASSUME NEW d \in Docs, NEW l \in Lots, NEW i \in Stocks, NEW q \in Int
    PROVE  Posts(RecipientReturn(d, l, i, q), Each(Three(l, i), q))
<1> DEFINE P == RecipientReturn(d, l, i, q)
           A == Each(Three(l, i), q)
           x == -q
<1>1. P = <<Lock(Open(d, l, i)), Read({Open(d, l, i)}, q),
            Lock(Bal(l, i)), Lock(Rem(l)), Lock(Inv(i)),
            Put(LotRows(l, i) \cup {Inv(i)}, q),
            Insert(Each({Open(d, l, i)}, x))>>
  BY DEF RecipientReturn
<1>2. /\ DOMAIN A = {Bal(l, i), Rem(l), Inv(i)}
      /\ A[Bal(l, i)] = q /\ A[Rem(l)] = q /\ A[Inv(i)] = q
  BY RowsDiffer DEF Each, Three, LotRows
<1>3. /\ q \in Int /\ x \in Int
      /\ Bal(l, i) # Rem(l) /\ Bal(l, i) # Inv(i) /\ Rem(l) # Inv(i)
  BY RowsDiffer
<1>4. {Sent(d, l, i), Open(d, l, i)} \cap LedgerRows = {}
  BY KindsOfRows
<1> HIDE DEF P, A, x
<1>5. /\ Len(P) = 7
      /\ P[1] = Lock(Open(d, l, i)) /\ P[2] = Read({Open(d, l, i)}, q)
      /\ P[3] = Lock(Bal(l, i)) /\ P[4] = Lock(Rem(l))
      /\ P[5] = Lock(Inv(i)) /\ P[6] = Put(LotRows(l, i) \cup {Inv(i)}, q)
      /\ P[7] = Insert(Each({Open(d, l, i)}, x))
  BY <1>1
<1>6. /\ Adds(P[1]) = {} /\ Adds(P[2]) = {}
      /\ Adds(P[3]) = {} /\ Adds(P[4]) = {}
      /\ Adds(P[5]) = {} /\ Adds(P[6]) = {Bal(l, i), Rem(l), Inv(i)}
      /\ Adds(P[7]) = {Open(d, l, i)}
  BY <1>5, AddsOfStatements, AddsOfInserts DEF LotRows
<1>7. /\ P[6].by[Bal(l, i)] = q /\ P[6].by[Rem(l)] = q
      /\ P[6].by[Inv(i)] = q
  BY <1>5, AddsOfStatements, AddsOfInserts DEF LotRows
<1> DEFINE Right(n) == \A r \in Adds(P[n]) :
              r \in LedgerRows => r \in DOMAIN A /\ P[n].by[r] = A[r]
<1>8. \A n \in 1..Len(P) : Right(n)
  <2>1. /\ Right(1) /\ Right(2) /\ Right(3) /\ Right(4) /\ Right(5)
        /\ Right(6) /\ Right(7)
    BY <1>2, <1>4, <1>6, <1>7
  <2> HIDE DEF Right
  <2>2. QED
    BY <1>5, <2>1
<1>9. \A m, n \in 1..Len(P) : \A r \in Adds(P[n]) :
           r \in LedgerRows /\ r \in Adds(P[m]) => m = n
  BY <1>3, <1>4, <1>5, <1>6
<1>10. \A r \in DOMAIN A : \E n \in 1..Len(P) : r \in Adds(P[n])
  BY <1>2, <1>5, <1>6
<1>11. Posts(P, A)
  BY <1>8, <1>9, <1>10 DEF Posts
<1>12. QED
  BY <1>11 DEF P, A

-----------------------------------------------------------------------------
(* The program of a request.                                               *)

\* The operations whose writes always build on the latest figures.
CarefulKinds == AllKinds \ {"draftReceipt", "recipientReturn"}

\* What a request is to change in the rows of the ledger.
Changes(j) ==
    IF j.kind \in CreatingKinds THEN Created(j.lot, j.stock, j.qty) ELSE Asked(j)

LEMMA WhatChanges ==
    ASSUME NEW j \in Jobs
    PROVE  /\ j.kind \in IssueKinds \cup {"dispose", "supplierReturn"} =>
                 Changes(j) = Each(Three(j.lot, j.stock), -j.qty)
           /\ j.kind = "transfer" =>
                 Changes(j) = Moved(j.lot, j.stock, j.dest, j.qty)
           /\ j.kind \in {"settle", "teamReturn"} =>
                 Changes(j) = Each(Three(j.lot, j.stock), j.qty)
           /\ j.kind \in CreatingKinds =>
                 Changes(j) = Created(j.lot, j.stock, j.qty)
BY DEF Changes, Asked, Three, Moved, CreatingKinds, IssueKinds

LEMMA WhatProgramsDo ==
    ASSUME NEW j \in Jobs
    PROVE  /\ j.kind \in CarefulKinds =>
                 /\ Posts(Programs[j], Changes(j))
                 /\ ReadsCommitted(j) \/ PutsItsOwn(Programs[j])
           /\ j.kind \notin ReturnKinds => TakesNoReturn(Programs[j])
<1>1. j.lot \in Lots /\ j.stock \in Stocks /\ j.qty \in Int /\ (j.doc = 0 \/ j.doc \in Docs)
      /\ (j.kind # "settle" => j.qty \in Nat)
  BY JobFields DEF Docs
<1>2. j.kind \in AllKinds
  BY JobFields
<1>3. CASE j.kind = "issue"
  <2>1. Programs[j] = Issue(j.doc, j.lot, j.stock, j.qty)
    BY <1>3, ProgramOf
  <2>2. Changes(j) = Each(Three(j.lot, j.stock), -j.qty)
    BY <1>3, WhatChanges DEF IssueKinds
  <2>3. CASE j.doc = 0
    BY <1>1, <1>3, <2>1, <2>2, <2>3, IssueProgram
  <2>4. CASE j.doc \in Docs
    BY <1>1, <1>3, <2>1, <2>2, <2>4, DocumentedIssueProgram
  <2>5. QED
    BY <1>1, <2>3, <2>4
<1>4. CASE j.kind \in {"dispose", "supplierReturn"}
  <2>1. Programs[j] = Dispose(j.lot, j.stock, j.qty)
    BY <1>1, <1>4, ProgramOf, ProgramSteps
  <2>2. Changes(j) = Each(Three(j.lot, j.stock), -j.qty)
    BY <1>4, WhatChanges
  <2>3. QED
    BY <1>1, <1>4, <2>1, <2>2, DisposalProgram
<1>5. CASE j.kind = "transfer"
  <2>1. Programs[j] = Transfer(j.lot, j.stock, j.dest, j.qty)
    BY <1>5, ProgramOf
  <2>2. Changes(j) = Moved(j.lot, j.stock, j.dest, j.qty)
    BY <1>5, WhatChanges
  <2>3. j.dest \in Stocks /\ j.dest # j.stock
    BY <1>5, JobFields
  <2>4. QED
    BY <1>1, <1>5, <2>1, <2>2, <2>3, TransferProgram
<1>6. CASE j.kind = "receipt"
  <2>1. Programs[j] = Receipt(j.lot, j.stock, j.qty)
    BY <1>6, ProgramOf
  <2>2. Changes(j) = Created(j.lot, j.stock, j.qty)
    BY <1>6, WhatChanges DEF CreatingKinds
  <2>3. QED
    BY <1>1, <1>6, <2>1, <2>2, ReceiptProgram
<1>7. CASE j.kind = "draftReceipt"
  <2>1. Programs[j] = DraftReceipt(j.lot, j.stock, j.qty)
    BY <1>7, ProgramOf
  <2>2. j.kind \notin CarefulKinds
    BY <1>7 DEF CarefulKinds
  <2>3. QED
    BY <1>1, <1>7, <2>1, <2>2, DraftReceiptProgram
<1>8. CASE j.kind = "openingBalance"
  <2>1. Programs[j] = OpeningBalance(j.lot, j.stock, j.qty)
    BY <1>8, ProgramOf
  <2>2. Changes(j) = Created(j.lot, j.stock, j.qty)
    BY <1>8, WhatChanges DEF CreatingKinds
  <2>3. QED
    BY <1>1, <1>8, <2>1, <2>2, OpeningProgram
<1>9. CASE j.kind = "settle"
  <2>1. Programs[j] = Settle(j.lot, j.stock, j.qty)
    BY <1>9, ProgramOf
  <2>2. Changes(j) = Each(Three(j.lot, j.stock), j.qty)
    BY <1>9, WhatChanges
  <2>3. QED
    BY <1>1, <2>1, <2>2, SettlementProgram
<1>10. CASE j.kind \in ReturnKinds
  <2>1. Programs[j] = RecipientReturn(j.doc, j.lot, j.stock, j.qty) /\ j.doc \in Docs
    BY <1>10, ProgramOf, JobFields
  <2>2. ASSUME j.kind \in CarefulKinds
        PROVE  ReadsCommitted(j) /\ Changes(j) = Each(Three(j.lot, j.stock), j.qty)
    BY <1>10, <2>2, WhatChanges DEF ReturnKinds, CarefulKinds, ReadsCommitted
  <2>3. QED
    BY <1>1, <1>10, <2>1, <2>2, ReturnProgram
<1>11. CASE j.kind = "purchaseIssue"
  <2>1. Programs[j] = PurchaseIssue(j.doc, j.lot, j.stock, j.qty)
    BY <1>11, ProgramOf
  <2>2. Changes(j) = Each(Three(j.lot, j.stock), -j.qty)
    BY <1>11, WhatChanges DEF IssueKinds
  <2>3. CASE j.doc = 0
    BY <1>1, <1>11, <2>1, <2>2, <2>3, PurchaseIssueProgram
  <2>4. CASE j.doc \in Docs
    BY <1>1, <1>11, <2>1, <2>2, <2>4, DocumentedPurchaseIssueProgram
  <2>5. QED
    BY <1>1, <2>3, <2>4
<1>12. QED
  BY <1>2, <1>3, <1>4, <1>5, <1>6, <1>7, <1>8, <1>9, <1>10, <1>11
     DEF AllKinds, ReturnKinds

-----------------------------------------------------------------------------
(* Types.                                                                  *)

\* The figures of f may stand in the ledger.
Sound(f) ==
    \A r \in DOMAIN f :
        /\ f[r] \in Int
        /\ f[r] <= MaxStock
        /\ r \in GoodsRows => f[r] >= 0

Shape ==
    /\ db \in [Rows -> Int]
    /\ pc \in [Procs -> Nat]
    /\ view \in [Procs -> Figures]
    /\ own \in [Procs -> Figures]
    /\ held \in [Procs -> SUBSET Rows]

\* A read view shows every row the request will look at.
Views ==
    \A p \in Procs :
        Running(p) /\ view[p] # NoView => DOMAIN view[p] = ReadRows[job[p]]

AllSound ==
    /\ Sound(db)
    /\ \A p \in Procs : Sound(own[p]) /\ Sound(view[p])

Typing == TypeOK /\ Shape /\ Views /\ AllSound

LEMMA NothingIsSound ==
    /\ <<>> \in Figures
    /\ DOMAIN <<>> = {}
    /\ Sound(<<>>)
<1>1. <<>> \in [{} -> Int]
  OBVIOUS
<1>2. QED
  BY <1>1 DEF Figures, Sound

LEMMA FigureOf ==
    ASSUME NEW f \in Figures
    PROVE  DOMAIN f \subseteq Rows /\ \A r \in DOMAIN f : f[r] \in Int
BY DEF Figures

LEMMA ReadRowsAreRows ==
    ASSUME NEW j \in Jobs
    PROVE  /\ ReadRows[j] \subseteq Rows
           /\ \A n \in 1..Len(Programs[j]) :
                 Programs[j][n].op \in PlainReadOps =>
                     DOMAIN Programs[j][n].by \subseteq ReadRows[j]
<1>1. ReadRows[j] =
          UNION {DOMAIN Programs[j][n].by :
                 n \in {m \in 1..Len(Programs[j]) : Programs[j][m].op \in PlainReadOps}}
  BY DEF ReadRows
<1>2. \A n \in 1..Len(Programs[j]) : Programs[j][n] \in Statements
  BY ProgramsAreStatements, ElementOfSeq
<1>3. \A s \in Statements : DOMAIN s.by \subseteq Rows
  BY FigureOf DEF Statements
<1>4. QED
  BY <1>1, <1>2, <1>3

LEMMA SnapshotIsSound ==
    ASSUME Typing, NEW j \in Jobs
    PROVE  /\ Snapshot(j) \in Figures
           /\ DOMAIN Snapshot(j) = ReadRows[j]
           /\ Sound(Snapshot(j))
<1>1. ReadRows[j] \subseteq Rows
  BY ReadRowsAreRows
<1>2. DOMAIN db = Rows /\ \A r \in Rows : db[r] \in Int
  BY DEF Typing, Shape
<1>3. Snapshot(j) \in [ReadRows[j] -> Int]
  BY <1>1, <1>2 DEF Snapshot
<1>4. Snapshot(j) \in Figures
  BY <1>1, <1>3 DEF Figures
<1>5. Sound(Snapshot(j))
  BY <1>1, <1>2 DEF Typing, AllSound, Sound, Snapshot
<1>6. QED
  BY <1>3, <1>4, <1>5

\* What a statement finds and leaves.
LEMMA AtAStatement ==
    ASSUME Typing, NEW p \in Procs, Pending(p)
    PROVE  /\ job[p] \in Jobs
           /\ pc[p] \in 1..Len(Programs[job[p]])
           /\ Stmt(p) \in Statements
           /\ DOMAIN Stmt(p).by \subseteq Rows
           /\ \A r \in DOMAIN Stmt(p).by : Stmt(p).by[r] \in Int
<1>1. job[p] \in Jobs
  BY DEF Typing, TypeOK, Pending, Running
<1>2. Programs[job[p]] \in Seq(Statements) /\ Len(Programs[job[p]]) \in Nat
  BY <1>1, ProgramsAreStatements, LenProperties
<1>3. pc[p] \in 1..(Len(Programs[job[p]]) + 1) /\ ~(pc[p] > Len(Programs[job[p]]))
  BY DEF Typing, TypeOK, Pending, Finished
<1>4. pc[p] \in 1..Len(Programs[job[p]])
  BY <1>2, <1>3
<1>5. Stmt(p) \in Statements
  BY <1>2, <1>4, ElementOfSeq DEF Stmt
<1>6. QED
  BY <1>1, <1>4, <1>5, FigureOf DEF Statements

LEMMA ViewAfterIsSound ==
    ASSUME Typing, NEW p \in Procs, Pending(p)
    PROVE  /\ ViewAfter(p) \in Figures /\ Sound(ViewAfter(p))
           /\ ViewAfter(p) # NoView => DOMAIN ViewAfter(p) = ReadRows[job[p]]
           /\ Stmt(p).op \in PlainReadOps => DOMAIN ViewAfter(p) = ReadRows[job[p]]
<1>1. job[p] \in Jobs /\ Running(p)
  BY AtAStatement DEF Pending
<1>2. view[p] \in Figures /\ Sound(view[p])
      /\ (view[p] # NoView => DOMAIN view[p] = ReadRows[job[p]])
  BY <1>1 DEF Typing, Shape, Views, AllSound
<1>3. QED
  BY <1>1, <1>2, SnapshotIsSound DEF ViewAfter

LEMMA CurrentIsSound ==
    ASSUME Typing, NEW p \in Procs, NEW r \in Rows
    PROVE  /\ Current(p, r) \in Int /\ Current(p, r) <= MaxStock
           /\ r \in GoodsRows => Current(p, r) >= 0
BY DEF Typing, Shape, AllSound, Sound, Current

LEMMA SeenIsSound ==
    ASSUME Typing, NEW p \in Procs, Pending(p), Stmt(p).op \in PlainReadOps,
           NEW r \in DOMAIN Stmt(p).by
    PROVE  /\ Seen(p, r) \in Int /\ Seen(p, r) <= MaxStock
           /\ r \in GoodsRows => Seen(p, r) >= 0
<1>1. r \in Rows /\ job[p] \in Jobs
  BY AtAStatement
<1>2. DOMAIN Stmt(p).by \subseteq ReadRows[job[p]]
  BY AtAStatement, ReadRowsAreRows DEF Stmt
<1>3. r \in DOMAIN ViewAfter(p) /\ Sound(ViewAfter(p))
  BY <1>2, ViewAfterIsSound
<1>4. Sound(db) /\ Sound(own[p]) /\ DOMAIN db = Rows
  BY DEF Typing, Shape, AllSound
<1>5. QED
  BY <1>1, <1>3, <1>4 DEF Seen, Sound

LEMMA WrittenIsSound ==
    ASSUME Typing, NEW p \in Procs, Pending(p), Succeeds(p),
           Stmt(p).op \in WritingOps,
           NEW r \in DOMAIN Stmt(p).by
    PROVE  /\ r \in Rows
           /\ Written(p)[r] \in Int /\ Written(p)[r] <= MaxStock
           /\ r \in GoodsRows => Written(p)[r] >= 0
<1> DEFINE s == Stmt(p)
<1>1. /\ s \in Statements /\ r \in Rows /\ s.by[r] \in Int
  BY AtAStatement
<1>2. /\ Current(p, r) \in Int
      /\ r \in GoodsRows => Current(p, r) >= 0
  BY <1>1, CurrentIsSound
<1>3. Written(p)[r] <= MaxStock
  BY DEF Succeeds
<1>4. CASE s.op = "add"
  <2>1. Written(p)[r] = Current(p, r) + s.by[r]
    BY <1>4 DEF Written
  <2>2. Written(p)[r] >= 0
    BY <1>4 DEF Succeeds
  <2>3. QED
    BY <1>1, <1>2, <1>3, <2>1, <2>2
<1>5. CASE s.op = "insert"
  <2>1. Written(p)[r] = Current(p, r) + s.by[r]
    BY <1>5 DEF Written
  <2>2. r \in GoodsRows => s.by[r] >= 0
    BY <1>1, <1>5 DEF Statements
  <2>3. QED
    BY <1>1, <1>2, <1>3, <2>1, <2>2
<1>6. CASE s.op = "put"
  <2>1. Written(p)[r] = Seen(p, r) + s.by[r]
    BY <1>6 DEF Written
  <2>2. r \in GoodsRows => s.by[r] >= 0
    BY <1>1, <1>6 DEF Statements
  <2>3. Seen(p, r) \in Int /\ (r \in GoodsRows => Seen(p, r) >= 0)
    BY <1>6, SeenIsSound DEF PlainReadOps
  <2>4. QED
    BY <1>1, <1>3, <2>1, <2>2, <2>3
<1>7. CASE s.op = "swap"
  <2>1. Written(p)[r] = Seen(p, r) + s.by[r]
    BY <1>7 DEF Written
  <2>2. Written(p)[r] >= 0
    BY <1>7 DEF Succeeds
  <2>3. Seen(p, r) \in Int
    BY <1>7, SeenIsSound DEF PlainReadOps
  <2>4. QED
    BY <1>1, <1>3, <2>1, <2>2, <2>3
<1>8. CASE s.op = "weigh"
  <2>1. Written(p)[r] = Current(p, r)
    BY <1>8 DEF Written
  <2>2. QED
    BY <1>1, <1>2, <1>3, <2>1
<1>9. QED
  BY <1>4, <1>5, <1>6, <1>7, <1>8 DEF WritingOps

LEMMA OwnAfterIsSound ==
    ASSUME Typing, NEW p \in Procs, Pending(p), Succeeds(p)
    PROVE  /\ OwnAfter(p) \in Figures /\ Sound(OwnAfter(p))
           /\ DOMAIN OwnAfter(p) = DOMAIN own[p] \cup
                  (IF Stmt(p).op \in WritingOps THEN DOMAIN Stmt(p).by ELSE {})
<1>1. own[p] \in Figures /\ Sound(own[p])
  BY DEF Typing, Shape, AllSound
<1>2. CASE Stmt(p).op \notin WritingOps
  BY <1>1, <1>2 DEF OwnAfter
<1>3. CASE Stmt(p).op \in WritingOps
  <2> DEFINE R == DOMAIN own[p] \cup DOMAIN Stmt(p).by
             W == Written(p)
  <2>1. OwnAfter(p) = [r \in R |-> IF r \in DOMAIN Stmt(p).by THEN W[r] ELSE own[p][r]]
    BY <1>3 DEF OwnAfter
  <2>2. R \subseteq Rows
    BY <1>1, AtAStatement, FigureOf
  <2>3. \A r \in DOMAIN Stmt(p).by :
            /\ W[r] \in Int /\ W[r] <= MaxStock
            /\ r \in GoodsRows => W[r] >= 0
    BY <1>3, WrittenIsSound
  <2>4. \A r \in DOMAIN own[p] :
            /\ own[p][r] \in Int /\ own[p][r] <= MaxStock
            /\ r \in GoodsRows => own[p][r] >= 0
    BY <1>1 DEF Sound
  <2> HIDE DEF R, W
  <2>5. DOMAIN OwnAfter(p) = R
    BY <2>1
  <2>6. \A r \in R : /\ OwnAfter(p)[r] \in Int /\ OwnAfter(p)[r] <= MaxStock
                     /\ r \in GoodsRows => OwnAfter(p)[r] >= 0
    BY <2>1, <2>3, <2>4 DEF R
  <2>7. OwnAfter(p) \in [R -> Int]
    BY <2>1, <2>6
  <2>8. OwnAfter(p) \in Figures
    BY <2>2, <2>7 DEF Figures
  <2>9. QED
    BY <1>3, <2>5, <2>6, <2>8 DEF Sound, R
<1>4. QED
  BY <1>2, <1>3

\* A statement that writes a row has locked it.
LEMMA WritersLock == WritingOps \subseteq LockingOps
BY DEF WritingOps, LockingOps

-----------------------------------------------------------------------------
(* The steps keep the types.                                               *)

LEMMA TypingStarts == Init => Typing
<1> SUFFICES ASSUME Init PROVE Typing
  OBVIOUS
<1>1. /\ db = [r \in Rows |-> 0] /\ load \in Loads
      /\ \A p \in Procs : /\ job[p] = NoJob /\ pc[p] = 1 /\ view[p] = NoView
                          /\ own[p] = <<>> /\ held[p] = {}
      /\ job = [p \in Procs |-> NoJob]
  BY DEF Init
<1>2. MaxStock \in Nat /\ GoodsRows \subseteq Rows
  BY QuantitiesArePositive DEF GoodsRows
<1>3. Shape
  BY NothingIsSound DEF Init, Shape, NoView
<1>4. Sound(db)
  BY <1>1, <1>2 DEF Sound
<1>5. TypeOK
  BY <1>1, <1>2, NothingIsSound DEF TypeOK, Running
<1>6. Views /\ AllSound
  BY <1>1, <1>4, NothingIsSound DEF Views, AllSound, Running, NoView
<1>7. QED
  BY <1>3, <1>5, <1>6 DEF Typing

LEMMA BeginKeepsTyping ==
    ASSUME Typing, NEW p \in Procs, Begin(p)
    PROVE  Typing'
<1>1. PICK j \in Offered[load], early \in load.early :
          /\ job' = [job EXCEPT ![p] = j]
          /\ view' = [view EXCEPT ![p] = IF early THEN Snapshot(j) ELSE NoView]
  BY DEF Begin
<1>2. /\ ~Running(p)
      /\ pc' = [pc EXCEPT ![p] = 1]
      /\ UNCHANGED <<load, db, own, held>>
  BY DEF Begin
<1>3. j \in Jobs /\ j # NoJob
  BY JobFields DEF Offered, Typing, TypeOK
<1>4. own[p] = <<>> /\ held[p] = {}
  BY <1>2 DEF Typing, TypeOK
<1>5. /\ job' \in [Procs -> Jobs \cup {NoJob}]
      /\ \A x \in Procs : x # p => /\ job'[x] = job[x] /\ pc'[x] = pc[x] /\ view'[x] = view[x]
      /\ job'[p] = j /\ pc'[p] = 1
      /\ view'[p] = Snapshot(j) \/ view'[p] = NoView
  BY <1>1, <1>2, <1>3 DEF Typing, TypeOK, Shape
<1>6. /\ view'[p] \in Figures /\ Sound(view'[p])
      /\ view'[p] # NoView => DOMAIN view'[p] = ReadRows[j]
  BY <1>3, <1>5, SnapshotIsSound, NothingIsSound DEF NoView
<1>7. Len(Programs[j]) \in Nat
  BY <1>3, ProgramsAreStatements, LenProperties
<1>8. Shape'
  BY <1>1, <1>2, <1>6 DEF Typing, Shape
<1>9. TypeOK'
  BY <1>2, <1>3, <1>4, <1>5, <1>7, NothingIsSound DEF Typing, TypeOK, Running
<1>10. Views'
  BY <1>3, <1>5, <1>6 DEF Typing, Views, Running
<1>11. AllSound'
  BY <1>2, <1>5, <1>6 DEF Typing, AllSound, Sound
<1>12. QED
  BY <1>8, <1>9, <1>10, <1>11 DEF Typing

LEMMA ExecuteKeepsTyping ==
    ASSUME Typing, NEW p \in Procs, Execute(p)
    PROVE  Typing'
<1>1. /\ Pending(p) /\ Succeeds(p) /\ Running(p)
      /\ pc' = [pc EXCEPT ![p] = pc[p] + 1]
      /\ view' = [view EXCEPT ![p] = ViewAfter(p)]
      /\ held' = [held EXCEPT ![p] = held[p] \cup Wants(p)]
      /\ own' = [own EXCEPT ![p] = OwnAfter(p)]
      /\ UNCHANGED <<load, db, job>>
  BY DEF Execute, Pending
<1>2. /\ job[p] \in Jobs /\ pc[p] \in 1..Len(Programs[job[p]])
      /\ DOMAIN Stmt(p).by \subseteq Rows
  BY <1>1, AtAStatement
<1>3. Len(Programs[job[p]]) \in Nat
  BY <1>2, ProgramsAreStatements, LenProperties
<1>4. pc[p] + 1 \in 1..(Len(Programs[job[p]]) + 1) /\ pc[p] + 1 \in Nat
  BY <1>2, <1>3
<1>5. Wants(p) \subseteq Rows
  BY <1>2 DEF Wants
<1>6. Stmt(p).op \in WritingOps => DOMAIN Stmt(p).by \subseteq Wants(p)
  BY <1>1, WritersLock DEF Wants
<1>7. /\ OwnAfter(p) \in Figures /\ Sound(OwnAfter(p))
      /\ DOMAIN OwnAfter(p) \subseteq DOMAIN own[p] \cup Wants(p)
  BY <1>1, <1>6, OwnAfterIsSound
<1>8. /\ ViewAfter(p) \in Figures /\ Sound(ViewAfter(p))
      /\ ViewAfter(p) # NoView => DOMAIN ViewAfter(p) = ReadRows[job[p]]
  BY <1>1, ViewAfterIsSound
<1>9. \A x \in Procs : x # p =>
          /\ pc'[x] = pc[x] /\ view'[x] = view[x] /\ held'[x] = held[x] /\ own'[x] = own[x]
  BY <1>1 DEF Typing, Shape
<1>10. /\ pc'[p] = pc[p] + 1 /\ view'[p] = ViewAfter(p) /\ own'[p] = OwnAfter(p)
       /\ held'[p] = held[p] \cup Wants(p)
  BY <1>1 DEF Typing, Shape
<1>11. Shape'
  BY <1>1, <1>4, <1>5, <1>7, <1>8 DEF Typing, Shape
<1>12. TypeOK'
  <2>1. /\ load' \in Loads /\ DOMAIN db' = Rows
        /\ \A r \in Rows : db'[r] \in Int /\ db'[r] <= MaxStock
        /\ \A r \in GoodsRows : db'[r] >= 0
        /\ job' \in [Procs -> Jobs \cup {NoJob}]
    BY <1>1 DEF Typing, TypeOK
  <2>2. ASSUME NEW x \in Procs
        PROVE  /\ Running(x)' => pc'[x] \in 1..(Len(Programs[job'[x]]) + 1)
               /\ ~Running(x)' => held'[x] = {} /\ own'[x] = <<>> /\ view'[x] = NoView
               /\ held'[x] \subseteq Rows
               /\ DOMAIN own'[x] \subseteq held'[x]
    <3>1. CASE x # p
      BY <1>1, <1>9, <3>1 DEF Typing, TypeOK, Running
    <3>2. CASE x = p
      BY <1>1, <1>4, <1>5, <1>7, <1>10, <3>2 DEF Typing, TypeOK, Running
    <3>3. QED
      BY <3>1, <3>2
  <2>3. QED
    BY <2>1, <2>2 DEF TypeOK
<1>13. Views'
  BY <1>1, <1>8, <1>9, <1>10 DEF Typing, Views, Running
<1>14. AllSound'
  BY <1>1, <1>7, <1>8, <1>9, <1>10 DEF Typing, AllSound, Sound
<1>15. QED
  BY <1>11, <1>12, <1>13, <1>14 DEF Typing

LEMMA EndKeepsTyping ==
    ASSUME Typing, NEW p \in Procs, End(p),
           db' = db \/ db' = [r \in Rows |-> Current(p, r)]
    PROVE  Typing'
<1>1. /\ job' = [job EXCEPT ![p] = NoJob]
      /\ pc' = [pc EXCEPT ![p] = 1]
      /\ view' = [view EXCEPT ![p] = NoView]
      /\ own' = [own EXCEPT ![p] = <<>>]
      /\ held' = [held EXCEPT ![p] = {}]
      /\ load' = load
  BY DEF End
<1>2. /\ db' \in [Rows -> Int]
      /\ \A r \in Rows : /\ db'[r] \in Int /\ db'[r] <= MaxStock
                         /\ r \in GoodsRows => db'[r] >= 0
  BY CurrentIsSound DEF Typing, TypeOK, Shape
<1>3. \A x \in Procs : x # p =>
          /\ job'[x] = job[x] /\ pc'[x] = pc[x] /\ view'[x] = view[x]
          /\ held'[x] = held[x] /\ own'[x] = own[x]
  BY <1>1 DEF Typing, TypeOK, Shape
<1>4. /\ job'[p] = NoJob /\ view'[p] = NoView /\ held'[p] = {} /\ own'[p] = <<>>
      /\ job' \in [Procs -> Jobs \cup {NoJob}]
  BY <1>1 DEF Typing, TypeOK, Shape
<1>5. Shape'
  BY <1>1, <1>2, NothingIsSound DEF Typing, Shape, NoView
<1>6. TypeOK'
  <2>1. GoodsRows \subseteq Rows
    BY DEF GoodsRows
  <2>2. /\ load' \in Loads /\ DOMAIN db' = Rows
        /\ \A r \in Rows : db'[r] \in Int /\ db'[r] <= MaxStock
        /\ \A r \in GoodsRows : db'[r] >= 0
    BY <1>1, <1>2, <2>1 DEF Typing, TypeOK
  <2>3. ASSUME NEW x \in Procs
        PROVE  /\ Running(x)' => pc'[x] \in 1..(Len(Programs[job'[x]]) + 1)
               /\ ~Running(x)' => held'[x] = {} /\ own'[x] = <<>> /\ view'[x] = NoView
               /\ held'[x] \subseteq Rows
               /\ DOMAIN own'[x] \subseteq held'[x]
    <3>1. CASE x # p
      BY <1>3, <3>1 DEF Typing, TypeOK, Running
    <3>2. CASE x = p
      BY <1>4, <3>2, NothingIsSound DEF Running
    <3>3. QED
      BY <3>1, <3>2
  <2>4. QED
    BY <1>4, <2>2, <2>3 DEF TypeOK
<1>7. Views'
  BY <1>3, <1>4 DEF Typing, Views, Running
<1>8. AllSound'
  <2>1. Sound(db)'
    BY <1>2 DEF Sound
  <2>2. \A x \in Procs : Sound(own[x])' /\ Sound(view[x])'
    BY <1>3, <1>4, NothingIsSound DEF Typing, AllSound, Sound, NoView
  <2>3. QED
    BY <2>1, <2>2 DEF AllSound
<1>9. QED
  BY <1>5, <1>6, <1>7, <1>8 DEF Typing

LEMMA NextKeepsTyping == Typing /\ [Next]_vars => Typing'
<1> SUFFICES ASSUME Typing, [Next]_vars PROVE Typing'
  OBVIOUS
<1>1. CASE UNCHANGED vars
  BY <1>1 DEF vars, Typing, TypeOK, Shape, Views, AllSound, Running, Sound
<1>2. ASSUME NEW p \in Procs, Begin(p) PROVE Typing'
  BY <1>2, BeginKeepsTyping
<1>3. ASSUME NEW p \in Procs, Execute(p) PROVE Typing'
  BY <1>3, ExecuteKeepsTyping
<1>4. ASSUME NEW p \in Procs, Commit(p) PROVE Typing'
  BY <1>4, EndKeepsTyping DEF Commit
<1>5. ASSUME NEW p \in Procs, Throw(p) \/ RollBackVictim(p) \/ Abort(p) PROVE Typing'
  BY <1>5, EndKeepsTyping DEF Throw, RollBackVictim, Abort
<1>6. QED
  BY <1>1, <1>2, <1>3, <1>4, <1>5 DEF Next

\* Whatever the requests, the loads and the database connections, no stock
\* row, lot or balance ever holds a negative quantity or more than the bound,
\* and locks and uncommitted figures belong to running requests.
THEOREM TypeCorrect == Spec => []TypeOK
<1>1. Typing => TypeOK
  BY DEF Typing
<1>2. QED
  BY <1>1, TypingStarts, NextKeepsTyping, PTL DEF Spec

-----------------------------------------------------------------------------
(* Locks.                                                                  *)

\* p holds exactly the rows its statements so far have locked, and no row is
\* locked twice.
Locking ==
    /\ \A p \in Procs : Running(p) =>
        /\ \A r \in held[p] : \E n \in 1..(pc[p] - 1) : r \in Locks(Programs[job[p]][n])
        /\ \A n \in 1..(pc[p] - 1) : Locks(Programs[job[p]][n]) \subseteq held[p]
    /\ \A p, q \in Procs : p # q => held[p] \cap held[q] = {}

LEMMA LockingStarts == Init => Locking
BY DEF Init, Locking, Running

\* A step of p that leaves the locks of the others alone.
LEMMA BeginKeepsLocking ==
    ASSUME Typing, Locking, NEW p \in Procs, Begin(p)
    PROVE  Locking'
<1>1. PICK j \in Offered[load] : job' = [job EXCEPT ![p] = j]
  BY DEF Begin
<1>2. /\ ~Running(p) /\ pc' = [pc EXCEPT ![p] = 1] /\ held' = held
  BY DEF Begin
<1>3. held[p] = {}
  BY <1>2 DEF Typing, TypeOK
<1>4. /\ \A x \in Procs : x # p => job'[x] = job[x] /\ pc'[x] = pc[x]
      /\ pc'[p] = 1
  BY <1>1, <1>2 DEF Typing, TypeOK, Shape
<1>5. 1..(1 - 1) = {}
  OBVIOUS
<1>6. ASSUME NEW x \in Procs, Running(x)'
      PROVE  /\ \A r \in held'[x] : \E n \in 1..(pc'[x] - 1) : r \in Locks(Programs[job'[x]][n])
             /\ \A n \in 1..(pc'[x] - 1) : Locks(Programs[job'[x]][n]) \subseteq held'[x]
  <2>1. CASE x = p
    BY <1>2, <1>3, <1>4, <1>5, <2>1
  <2>2. CASE x # p
    BY <1>2, <1>4, <1>6, <2>2 DEF Locking, Running
  <2>3. QED
    BY <2>1, <2>2
<1>7. QED
  BY <1>2, <1>6 DEF Locking

LEMMA ExecuteKeepsLocking ==
    ASSUME Typing, Locking, NEW p \in Procs, Execute(p)
    PROVE  Locking'
<1>1. /\ Pending(p) /\ Running(p)
      /\ \A q \in Procs : ~WaitsFor(p, q)
      /\ pc' = [pc EXCEPT ![p] = pc[p] + 1]
      /\ held' = [held EXCEPT ![p] = held[p] \cup Wants(p)]
      /\ job' = job
  BY DEF Execute, Pending
<1>2. Wants(p) = Locks(Programs[job[p]][pc[p]])
  BY <1>1 DEF Wants, Locks, Stmt
<1>3. \A x \in Procs : x # p => pc'[x] = pc[x] /\ held'[x] = held[x]
  BY <1>1 DEF Typing, Shape
<1>4. pc'[p] = pc[p] + 1 /\ held'[p] = held[p] \cup Wants(p)
  BY <1>1 DEF Typing, Shape
<1>5. pc[p] \in 1..Len(Programs[job[p]]) /\ Len(Programs[job[p]]) \in Nat
  BY <1>1, AtAStatement, ProgramsAreStatements, LenProperties
<1>6. 1..(pc'[p] - 1) = 1..(pc[p] - 1) \cup {pc[p]}
  BY <1>4, <1>5
<1>7. ASSUME NEW x \in Procs, Running(x)'
      PROVE  /\ \A r \in held'[x] : \E n \in 1..(pc'[x] - 1) : r \in Locks(Programs[job'[x]][n])
             /\ \A n \in 1..(pc'[x] - 1) : Locks(Programs[job'[x]][n]) \subseteq held'[x]
  <2>1. CASE x = p
    BY <1>1, <1>2, <1>4, <1>6, <2>1 DEF Locking
  <2>2. CASE x # p
    BY <1>1, <1>3, <1>7, <2>2 DEF Locking, Running
  <2>3. QED
    BY <2>1, <2>2
<1>8. \A q \in Procs : q # p => Wants(p) \cap held[q] = {}
  BY <1>1 DEF WaitsFor
<1>9. ASSUME NEW x \in Procs, NEW y \in Procs, x # y
      PROVE  held'[x] \cap held'[y] = {}
  BY <1>3, <1>4, <1>8, <1>9 DEF Locking
<1>10. QED
  BY <1>7, <1>9 DEF Locking

LEMMA EndKeepsLocking ==
    ASSUME Typing, Locking, NEW p \in Procs, End(p)
    PROVE  Locking'
<1>1. /\ \A x \in Procs : x # p => job'[x] = job[x] /\ pc'[x] = pc[x] /\ held'[x] = held[x]
      /\ job'[p] = NoJob /\ held'[p] = {}
  BY DEF End, Typing, TypeOK, Shape
<1>2. QED
  BY <1>1 DEF Locking, Running

LEMMA NextKeepsLocking == Typing /\ Locking /\ [Next]_vars => Locking'
<1> SUFFICES ASSUME Typing, Locking, [Next]_vars PROVE Locking'
  OBVIOUS
<1>1. CASE UNCHANGED vars
  BY <1>1 DEF vars, Locking, Running
<1>2. ASSUME NEW p \in Procs, Begin(p) PROVE Locking'
  BY <1>2, BeginKeepsLocking
<1>3. ASSUME NEW p \in Procs, Execute(p) PROVE Locking'
  BY <1>3, ExecuteKeepsLocking
<1>4. ASSUME NEW p \in Procs, Commit(p) \/ Throw(p) \/ RollBackVictim(p) \/ Abort(p)
      PROVE  Locking'
  BY <1>4, EndKeepsLocking DEF Commit, Throw, RollBackVictim, Abort
<1>5. QED
  BY <1>1, <1>2, <1>3, <1>4 DEF Next

-----------------------------------------------------------------------------
(* What a running request has written.                                     *)

\* No load brings a receipt of an invoice draft or a return at REPEATABLE
\* READ; those two set figures that may be stale, and lose updates.
OnlyCareful == \A w \in Loads : w.kinds \subseteq CarefulKinds

Careful == \A p \in Procs : Running(p) => job[p].kind \in CarefulKinds

\* What p has written of a row of the ledger is the committed figure and what the
\* statement at which it added to the row adds.
Posted(p) ==
    LET P == Programs[job[p]]
        done == 1..(pc[p] - 1)
    IN /\ \A n \in done : P[n].op \in WritingOps => DOMAIN P[n].by \subseteq DOMAIN own[p]
       /\ \A r \in LedgerRows : r \in DOMAIN own[p] =>
             \/ \E n \in done : r \in Adds(P[n]) /\ own[p][r] = db[r] + P[n].by[r]
             \/ (\A n \in done : r \notin Adds(P[n])) /\ own[p][r] = db[r]

Posting == Careful /\ \A p \in Procs : Running(p) => Posted(p)

LEMMA LedgerRowsAreRows == LedgerRows \subseteq Rows
BY DEF LedgerRows, GoodsRows, Rows

LEMMA PostingStarts == Init => Posting
BY DEF Init, Posting, Careful, Running

LEMMA BeginKeepsPosting ==
    ASSUME OnlyCareful, Typing, Posting, NEW p \in Procs, Begin(p)
    PROVE  Posting'
<1>1. PICK j \in Offered[load] : job' = [job EXCEPT ![p] = j]
  BY DEF Begin
<1>2. /\ ~Running(p) /\ pc' = [pc EXCEPT ![p] = 1] /\ UNCHANGED <<db, own>>
  BY DEF Begin
<1>3. own[p] = <<>> /\ DOMAIN <<>> = {} /\ 1..(1 - 1) = {}
  BY <1>2, NothingIsSound DEF Typing, TypeOK
<1>4. /\ \A x \in Procs : x # p => job'[x] = job[x] /\ pc'[x] = pc[x]
      /\ pc'[p] = 1 /\ job'[p] = j
  BY <1>1, <1>2 DEF Typing, TypeOK, Shape
<1>5. load \in Loads /\ j.kind \in load.kinds
  BY DEF Typing, TypeOK, Offered
<1>6. j.kind \in CarefulKinds
  BY <1>5 DEF OnlyCareful
<1>7. Careful'
  BY <1>4, <1>6 DEF Posting, Careful, Running
<1>8. ASSUME NEW x \in Procs, Running(x)'
      PROVE  Posted(x)'
  <2>1. CASE x = p
    BY <1>2, <1>3, <1>4, <2>1 DEF Posted
  <2>2. CASE x # p
    BY <1>2, <1>4, <1>8, <2>2 DEF Posting, Posted, Running
  <2>3. QED
    BY <2>1, <2>2
<1>9. QED
  BY <1>7, <1>8 DEF Posting

\* A careful statement builds on the latest figure.
LEMMA WritesOnTheLatest ==
    ASSUME Typing, Posting, NEW p \in Procs, Pending(p), Succeeds(p),
           Stmt(p).op \in WritingOps, NEW r \in DOMAIN Stmt(p).by
    PROVE  /\ r \in Adds(Stmt(p)) => Written(p)[r] = Current(p, r) + Stmt(p).by[r]
           /\ r \notin Adds(Stmt(p)) => Written(p)[r] = Current(p, r)
<1> DEFINE s == Stmt(p)
           P == Programs[job[p]]
<1>1. /\ job[p] \in Jobs /\ pc[p] \in 1..Len(P) /\ s = P[pc[p]]
      /\ job[p].kind \in CarefulKinds /\ Posted(p)
  BY AtAStatement DEF Stmt, Posting, Careful, Pending
<1>2. CASE s.op \in {"add", "insert"}
  BY <1>2 DEF Written, Adds, AddingOps
<1>3. CASE s.op = "weigh"
  BY <1>3 DEF Written, Adds, AddingOps
<1>4. CASE s.op = "swap"
  <2>1. Current(p, r) = Seen(p, r)
    BY <1>4 DEF Succeeds
  <2>2. QED
    BY <1>4, <2>1 DEF Written, Adds, AddingOps
<1>5. CASE s.op = "put"
  <2>1. Seen(p, r) = Current(p, r)
    <3>1. CASE ReadsCommitted(job[p])
      BY <3>1 DEF Seen, Current
    <3>2. CASE PutsItsOwn(P)
      <4>1. PICK m \in 1..(pc[p] - 1) : P[m].op \in WritingOps /\ r \in DOMAIN P[m].by
        BY <1>1, <1>5, <3>2 DEF PutsItsOwn
      <4>2. r \in DOMAIN own[p]
        BY <1>1, <4>1 DEF Posted
      <4>3. QED
        BY <4>2 DEF Seen, Current
    <3>3. QED
      BY <1>1, <3>1, <3>2, WhatProgramsDo
  <2>2. QED
    BY <1>5, <2>1 DEF Written, Adds, AddingOps
<1>6. QED
  BY <1>2, <1>3, <1>4, <1>5 DEF WritingOps

LEMMA ExecuteKeepsPosting ==
    ASSUME Typing, Posting, NEW p \in Procs, Execute(p)
    PROVE  Posting'
<1>1. /\ Pending(p) /\ Succeeds(p) /\ Running(p)
      /\ pc' = [pc EXCEPT ![p] = pc[p] + 1]
      /\ own' = [own EXCEPT ![p] = OwnAfter(p)]
      /\ UNCHANGED <<db, job>>
  BY DEF Execute, Pending
<1>2. /\ \A x \in Procs : x # p => pc'[x] = pc[x] /\ own'[x] = own[x]
      /\ pc'[p] = pc[p] + 1 /\ own'[p] = OwnAfter(p)
  BY <1>1 DEF Typing, Shape
<1> DEFINE P == Programs[job[p]]
           s == Stmt(p)
           done == 1..(pc[p] - 1)
<1>3. /\ job[p] \in Jobs /\ pc[p] \in 1..Len(P) /\ s = P[pc[p]] /\ Len(P) \in Nat
      /\ job[p].kind \in CarefulKinds /\ Posted(p)
  BY <1>1, AtAStatement, ProgramsAreStatements, LenProperties DEF Stmt, Posting, Careful
<1>4. 1..(pc'[p] - 1) = done \cup {pc[p]} /\ done \subseteq 1..Len(P) /\ pc[p] \notin done
  BY <1>2, <1>3
<1>5. Posts(P, Changes(job[p]))
  BY <1>3, WhatProgramsDo
<1>6. \A n \in done \cup {pc[p]} : P[n].op \in WritingOps => DOMAIN P[n].by \subseteq DOMAIN own'[p]
  <2>1. DOMAIN own'[p] = DOMAIN own[p] \cup (IF s.op \in WritingOps THEN DOMAIN s.by ELSE {})
    BY <1>1, <1>2, OwnAfterIsSound
  <2>2. QED
    BY <1>3, <2>1 DEF Posted
<1>7. ASSUME NEW r \in LedgerRows, r \in DOMAIN own'[p]
      PROVE  \/ \E n \in done \cup {pc[p]} : r \in Adds(P[n]) /\ own'[p][r] = db[r] + P[n].by[r]
             \/ (\A n \in done \cup {pc[p]} : r \notin Adds(P[n])) /\ own'[p][r] = db[r]
  <2>1. CASE s.op \in WritingOps /\ r \in DOMAIN s.by
    <3>1. own'[p][r] = Written(p)[r]
      BY <1>2, <2>1 DEF OwnAfter
    <3>2. /\ r \in Adds(s) => Written(p)[r] = Current(p, r) + s.by[r]
          /\ r \notin Adds(s) => Written(p)[r] = Current(p, r)
      BY <1>1, <2>1, WritesOnTheLatest
    <3>3. CASE r \in Adds(s)
      <4>1. \A n \in done : r \notin Adds(P[n])
        BY <1>3, <1>4, <1>5, <3>3 DEF Posts
      <4>2. Current(p, r) = db[r]
        BY <1>3, <4>1 DEF Posted, Current
      <4>3. QED
        BY <1>3, <3>1, <3>2, <3>3, <4>2
    <3>4. CASE r \notin Adds(s)
      <4>1. own'[p][r] = Current(p, r)
        BY <3>1, <3>2, <3>4
      <4>2. CASE r \in DOMAIN own[p]
        BY <1>3, <3>4, <4>1, <4>2 DEF Posted, Current
      <4>3. CASE r \notin DOMAIN own[p]
        <5>1. \A n \in done : r \notin Adds(P[n])
          BY <1>3, <4>3, AddersWrite DEF Posted
        <5>2. QED
          BY <1>3, <3>4, <4>1, <4>3, <5>1 DEF Current
      <4>4. QED
        BY <4>2, <4>3
    <3>5. QED
      BY <3>3, <3>4
  <2>2. CASE ~(s.op \in WritingOps /\ r \in DOMAIN s.by)
    <3>1. r \in DOMAIN own[p] /\ own'[p][r] = own[p][r]
      BY <1>1, <1>2, <1>7, <2>2, OwnAfterIsSound DEF OwnAfter
    <3>2. r \notin Adds(s)
      BY <2>2, AddersWrite
    <3>3. QED
      BY <1>3, <3>1, <3>2 DEF Posted
  <2>3. QED
    BY <2>1, <2>2
<1>8. Posted(p)'
  BY <1>1, <1>4, <1>6, <1>7 DEF Posted
<1>9. \A x \in Procs : x # p /\ Running(x)' => Posted(x)'
  BY <1>1, <1>2 DEF Posting, Posted, Running
<1>10. Careful'
  BY <1>1 DEF Posting, Careful, Running
<1>11. QED
  BY <1>8, <1>9, <1>10 DEF Posting

LEMMA EndKeepsPosting ==
    ASSUME Typing, Locking, Posting, NEW p \in Procs, End(p),
           db' = db \/ db' = [r \in Rows |-> Current(p, r)]
    PROVE  Posting'
<1>1. /\ \A x \in Procs : x # p => job'[x] = job[x] /\ pc'[x] = pc[x] /\ own'[x] = own[x]
      /\ job'[p] = NoJob
  BY DEF End, Typing, TypeOK, Shape
<1>2. ASSUME NEW x \in Procs, x # p, NEW r \in LedgerRows, r \in DOMAIN own[x]
      PROVE  db'[r] = db[r]
  <2>1. r \in Rows /\ r \in held[x] /\ r \notin held[p]
    BY <1>2, LedgerRowsAreRows DEF Typing, TypeOK, Locking
  <2>2. r \notin DOMAIN own[p]
    BY <2>1 DEF Typing, TypeOK
  <2>3. QED
    BY <2>1, <2>2 DEF Current
<1>3. ASSUME NEW x \in Procs, Running(x)'
      PROVE  Posted(x)'
  <2>1. x # p /\ Running(x)
    BY <1>1, <1>3 DEF Running
  <2>2. Posted(x)
    BY <2>1 DEF Posting
  <2>3. QED
    BY <1>1, <1>2, <2>1, <2>2 DEF Posted
<1>4. Careful'
  BY <1>1 DEF Posting, Careful, Running
<1>5. QED
  BY <1>3, <1>4 DEF Posting

LEMMA NextKeepsPosting ==
    ASSUME OnlyCareful, Typing, Locking, Posting, [Next]_vars
    PROVE  Posting'
<1>1. CASE UNCHANGED vars
  BY <1>1 DEF vars, Posting, Posted, Careful, Running
<1>2. ASSUME NEW p \in Procs, Begin(p) PROVE Posting'
  BY <1>2, BeginKeepsPosting
<1>3. ASSUME NEW p \in Procs, Execute(p) PROVE Posting'
  BY <1>3, ExecuteKeepsPosting
<1>4. ASSUME NEW p \in Procs, Commit(p) PROVE Posting'
  BY <1>4, EndKeepsPosting DEF Commit
<1>5. ASSUME NEW p \in Procs, Throw(p) \/ RollBackVictim(p) \/ Abort(p) PROVE Posting'
  BY <1>5, EndKeepsPosting DEF Throw, RollBackVictim, Abort
<1>6. QED
  BY <1>1, <1>2, <1>3, <1>4, <1>5 DEF Next

\* A commit adds to the figures of the ledger exactly the changes its request
\* stands for.
CommitsChanges(p) ==
    \A r \in LedgerRows :
        db'[r] = db[r] + (IF r \in DOMAIN Changes(job[p]) THEN Changes(job[p])[r] ELSE 0)

LEMMA CommitPostsChanges ==
    ASSUME Typing, Posting, NEW p \in Procs, Commit(p)
    PROVE  CommitsChanges(p)
<1> DEFINE P == Programs[job[p]]
           done == 1..(pc[p] - 1)
<1>1. /\ Finished(p) /\ Running(p)
      /\ db' = [r \in Rows |-> Current(p, r)]
  BY DEF Commit, Finished
<1>2. job[p] \in Jobs /\ job[p].kind \in CarefulKinds /\ Posted(p)
  BY <1>1 DEF Typing, TypeOK, Posting, Careful, Running
<1>3. done = 1..Len(P)
  <2>1. Len(P) \in Nat /\ pc[p] \in 1..(Len(P) + 1) /\ pc[p] > Len(P)
    BY <1>1, <1>2, ProgramsAreStatements, LenProperties DEF Typing, TypeOK, Finished
  <2>2. QED
    BY <2>1
<1>4. Posts(P, Changes(job[p]))
  BY <1>2, WhatProgramsDo
<1> SUFFICES ASSUME NEW r \in LedgerRows
             PROVE  db'[r] = db[r] + (IF r \in DOMAIN Changes(job[p])
                                      THEN Changes(job[p])[r] ELSE 0)
  BY DEF CommitsChanges
<1>5. r \in Rows /\ db'[r] = Current(p, r) /\ db[r] \in Int
  BY <1>1, LedgerRowsAreRows DEF Typing, TypeOK
<1>6. CASE r \in DOMAIN Changes(job[p])
  <2>1. PICK n \in done : r \in Adds(P[n])
    BY <1>3, <1>4, <1>6 DEF Posts
  <2>2. r \in DOMAIN own[p]
    BY <1>2, <2>1, AddersWrite DEF Posted
  <2>3. PICK m \in done : r \in Adds(P[m]) /\ own[p][r] = db[r] + P[m].by[r]
    BY <1>2, <2>1, <2>2 DEF Posted
  <2>4. P[m].by[r] = Changes(job[p])[r]
    BY <1>3, <1>4, <2>3 DEF Posts
  <2>5. QED
    BY <1>5, <1>6, <2>2, <2>3, <2>4 DEF Current
<1>7. CASE r \notin DOMAIN Changes(job[p])
  <2>1. \A n \in done : r \notin Adds(P[n])
    BY <1>3, <1>4, <1>7 DEF Posts
  <2>2. Current(p, r) = db[r]
    BY <1>2, <2>1 DEF Posted, Current
  <2>3. QED
    BY <1>5, <1>7, <2>2
<1>8. QED
  BY <1>6, <1>7

\* Of goods, those are what the request asks for.
LEMMA CommitPostsWhatWasAsked ==
    ASSUME Typing, Posting, NEW p \in Procs, Commit(p), NEW r \in GoodsRows
    PROVE  db'[r] = db[r] + (IF r \in DOMAIN Asked(job[p])
                             THEN Asked(job[p])[r] ELSE 0)
<1> DEFINE j == job[p]
<1>1. j \in Jobs
  BY DEF Commit, Finished, Running, Typing, TypeOK
<1>2. r \in LedgerRows /\ r # Made(j.lot)
  BY <1>1, JobFields, RowsOfALot DEF LedgerRows
<1>3. /\ r \in DOMAIN Changes(j) <=> r \in DOMAIN Asked(j)
      /\ r \in DOMAIN Asked(j) => Changes(j)[r] = Asked(j)[r]
  <2>1. CASE j.kind \in CreatingKinds
    <3>1. Changes(j) = Created(j.lot, j.stock, j.qty)
      BY <2>1 DEF Changes
    <3>2. Asked(j) = Each(Three(j.lot, j.stock), j.qty)
      BY <2>1 DEF Asked, CreatingKinds, IssueKinds, Three
    <3>3. QED
      BY <1>2, <3>1, <3>2 DEF Created, Each
  <2>2. CASE j.kind \notin CreatingKinds
    BY <2>2 DEF Changes
  <2>3. QED
    BY <2>1, <2>2
<1>4. QED
  BY <1>2, <1>3, CommitPostsChanges DEF CommitsChanges

\* No posting is lost or doubled: see CommitsWhatWasAsked.
THEOREM NoUpdateIsLost ==
    ASSUME OnlyCareful
    PROVE  Spec => CommitsWhatWasAsked
<1>1. Typing /\ Posting /\ [Next]_vars =>
          [\A p \in Procs : Commit(p) =>
             \A r \in GoodsRows :
               db'[r] = db[r] + (IF r \in DOMAIN Asked(job[p])
                                 THEN Asked(job[p])[r] ELSE 0)]_vars
  BY CommitPostsWhatWasAsked
<1>2. Typing /\ Locking /\ Posting /\ [Next]_vars => (Typing /\ Locking /\ Posting)'
  BY NextKeepsTyping, NextKeepsLocking, NextKeepsPosting
<1>3. QED
  BY <1>1, <1>2, TypingStarts, LockingStarts, PostingStarts, PTL DEF Spec, CommitsWhatWasAsked

-----------------------------------------------------------------------------
(* The ledger the postings implement.                                      *)

\* Lots are inserted once, by the one request that creates them, and every
\* other request is about a lot that has been inserted.
Creating ==
    /\ \A l \in Lots : db[Made(l)] \in {0, 1}
    /\ \A p \in Procs : Running(p) /\ job[p].kind \in CreatingKinds =>
        /\ db[Made(job[p].lot)] = 0
        /\ \A q \in Procs : q # p /\ Running(q) /\ job[q].kind \in CreatingKinds =>
               job[q].lot # job[p].lot
    /\ \A p \in Procs : Running(p) /\ job[p].kind \notin CreatingKinds =>
        db[Made(job[p].lot)] = 1

LEMMA ChangesToLots ==
    ASSUME NEW j \in Jobs, j.kind \in CarefulKinds, NEW l \in Lots
    PROVE  /\ j.kind \in CreatingKinds /\ l = j.lot =>
                 Made(l) \in DOMAIN Changes(j) /\ Changes(j)[Made(l)] = 1
           /\ j.kind \notin CreatingKinds \/ l # j.lot => Made(l) \notin DOMAIN Changes(j)
<1>1. /\ \A k, i, m, q : Made(l) \notin DOMAIN Each(Three(k, i), q)
                         /\ Made(l) \notin DOMAIN Moved(k, i, m, q)
      /\ \A k, i, q : /\ k = l => /\ Made(l) \in DOMAIN Created(k, i, q)
                                  /\ Created(k, i, q)[Made(l)] = 1
                      /\ k # l => Made(l) \notin DOMAIN Created(k, i, q)
  BY DEF Each, Three, Moved, Created, LotRows, Made, Bal, Rem, Inv
<1>2. CASE j.kind \in CreatingKinds
  BY <1>1, <1>2, WhatChanges
<1>3. CASE j.kind \notin CreatingKinds
  <2>1. j.kind \in IssueKinds \cup {"dispose", "supplierReturn", "transfer", "settle",
                                   "teamReturn"}
    BY <1>3, JobFields DEF CarefulKinds, AllKinds, CreatingKinds, IssueKinds
  <2>2. Made(l) \notin DOMAIN Changes(j)
    BY <1>1, <2>1, WhatChanges
  <2>3. QED
    BY <1>3, <2>2
<1>4. QED
  BY <1>2, <1>3

LEMMA CreatingStarts == Init => Creating
<1> SUFFICES ASSUME Init PROVE Creating
  OBVIOUS
<1>1. \A l \in Lots : Made(l) \in Rows
  BY DEF Rows
<1>2. QED
  BY <1>1 DEF Init, Creating, Running

LEMMA BeginKeepsCreating ==
    ASSUME Typing, Creating, NEW p \in Procs, Begin(p)
    PROVE  Creating'
<1>1. PICK j \in Offered[load] : Acceptable(j) /\ job' = [job EXCEPT ![p] = j]
  BY DEF Begin
<1>2. ~Running(p) /\ db' = db
  BY DEF Begin
<1>3. (\A x \in Procs : x # p => job'[x] = job[x]) /\ job'[p] = j
  BY <1>1 DEF Typing, TypeOK
<1>4. \A x \in Procs : x # p /\ Running(x)' => Running(x)
  BY <1>3 DEF Running
<1>5. \A l \in Lots : db'[Made(l)] \in {0, 1}
  BY <1>2 DEF Creating
<1>6. /\ j.kind \in CreatingKinds =>
            /\ db[Made(j.lot)] = 0
            /\ \A x \in Procs : Running(x) /\ job[x].kind \in CreatingKinds => job[x].lot # j.lot
      /\ j.kind \notin CreatingKinds => db[Made(j.lot)] = 1
  BY <1>1 DEF Acceptable
<1>7. ASSUME NEW x \in Procs, Running(x)', job'[x].kind \in CreatingKinds
      PROVE  /\ db'[Made(job'[x].lot)] = 0
             /\ \A y \in Procs : y # x /\ Running(y)' /\ job'[y].kind \in CreatingKinds =>
                    job'[y].lot # job'[x].lot
  <2>1. CASE x = p
    BY <1>2, <1>3, <1>4, <1>6, <1>7, <2>1
  <2>2. CASE x # p
    BY <1>2, <1>3, <1>4, <1>6, <1>7, <2>2 DEF Creating
  <2>3. QED
    BY <2>1, <2>2
<1>8. ASSUME NEW x \in Procs, Running(x)', job'[x].kind \notin CreatingKinds
      PROVE  db'[Made(job'[x].lot)] = 1
  BY <1>2, <1>3, <1>4, <1>6, <1>8 DEF Creating
<1>9. QED
  BY <1>5, <1>7, <1>8 DEF Creating

LEMMA CommitKeepsCreating ==
    ASSUME Typing, Posting, Creating, NEW p \in Procs, Commit(p)
    PROVE  Creating'
<1> DEFINE j == job[p]
<1>1. j \in Jobs /\ j.kind \in CarefulKinds /\ Running(p) /\ CommitsChanges(p)
  BY CommitPostsChanges DEF Commit, Finished, Running, Typing, TypeOK, Posting, Careful
<1>2. /\ \A x \in Procs : x # p => job'[x] = job[x]
      /\ job'[p] = NoJob
  BY DEF Commit, End, Typing, TypeOK
<1>3. \A x \in Procs : Running(x)' => x # p /\ Running(x)
  BY <1>2 DEF Running
<1>4. ASSUME NEW l \in Lots
      PROVE  /\ j.kind \in CreatingKinds /\ l = j.lot => db'[Made(l)] = 1
             /\ j.kind \notin CreatingKinds \/ l # j.lot => db'[Made(l)] = db[Made(l)]
  <2>1. Made(l) \in LedgerRows /\ db[Made(l)] \in {0, 1}
    BY DEF LedgerRows, Creating
  <2>2. j.kind \in CreatingKinds /\ l = j.lot => db[Made(l)] = 0
    BY <1>1 DEF Creating
  <2>3. QED
    BY <1>1, <2>1, <2>2, ChangesToLots DEF CommitsChanges
<1>5. \A l \in Lots : db'[Made(l)] \in {0, 1}
  BY <1>4 DEF Creating
<1>6. \A x \in Procs : Running(x) => job[x].lot \in Lots
  BY JobFields DEF Running, Typing, TypeOK
<1>7. ASSUME NEW x \in Procs, Running(x)', job'[x].kind \in CreatingKinds
      PROVE  /\ db'[Made(job'[x].lot)] = 0
             /\ \A y \in Procs : y # x /\ Running(y)' /\ job'[y].kind \in CreatingKinds =>
                    job'[y].lot # job'[x].lot
  <2>1. x # p /\ Running(x) /\ job'[x] = job[x]
    BY <1>2, <1>3, <1>7
  <2>2. db[Made(job[x].lot)] = 0
    BY <1>7, <2>1 DEF Creating
  <2>3. j.kind \in CreatingKinds => job[x].lot # j.lot
    BY <1>1, <1>7, <2>1 DEF Creating
  <2>4. QED
    BY <1>2, <1>3, <1>4, <1>6, <1>7, <2>1, <2>2, <2>3 DEF Creating
<1>8. ASSUME NEW x \in Procs, Running(x)', job'[x].kind \notin CreatingKinds
      PROVE  db'[Made(job'[x].lot)] = 1
  <2>1. x # p /\ Running(x) /\ job'[x] = job[x]
    BY <1>2, <1>3, <1>8
  <2>2. db[Made(job[x].lot)] = 1
    BY <1>8, <2>1 DEF Creating
  <2>3. QED
    BY <1>4, <1>6, <2>1, <2>2
<1>9. QED
  BY <1>5, <1>7, <1>8 DEF Creating

LEMMA NextKeepsCreating ==
    ASSUME Typing, Posting, Creating, [Next]_vars
    PROVE  Creating'
<1>1. CASE UNCHANGED vars
  BY <1>1 DEF vars, Creating, Running
<1>2. ASSUME NEW p \in Procs, Begin(p) PROVE Creating'
  BY <1>2, BeginKeepsCreating
<1>3. ASSUME NEW p \in Procs, Execute(p) PROVE Creating'
  BY <1>3 DEF Execute, Creating, Running
<1>4. ASSUME NEW p \in Procs, Commit(p) PROVE Creating'
  BY <1>4, CommitKeepsCreating
<1>5. ASSUME NEW p \in Procs, Throw(p) \/ RollBackVictim(p) \/ Abort(p) PROVE Creating'
  <2>1. /\ db' = db /\ job'[p] = NoJob
        /\ \A x \in Procs : x # p => job'[x] = job[x]
    BY <1>5 DEF Throw, RollBackVictim, Abort, End, Typing, TypeOK
  <2>2. \A x \in Procs : Running(x)' => Running(x) /\ job'[x] = job[x]
    BY <2>1 DEF Running
  <2>3. QED
    BY <2>1, <2>2 DEF Creating
<1>6. QED
  BY <1>1, <1>2, <1>3, <1>4, <1>5 DEF Next

\* A commit that adds d to the three figures of lot l at stock row i is a
\* posting of the ledger.
LEMMA ThreeFiguresArePosted ==
    ASSUME Typing, Typing', NEW l \in Lots, NEW i \in Stocks, NEW d \in Int,
           \A k \in Lots, m \in Stocks :
               db'[Bal(k, m)] = db[Bal(k, m)] + (IF k = l /\ m = i THEN d ELSE 0),
           \A k \in Lots : db'[Rem(k)] = db[Rem(k)] + (IF k = l THEN d ELSE 0),
           \A m \in Stocks : db'[Inv(m)] = db[Inv(m)] + (IF m = i THEN d ELSE 0)
    PROVE  Ledger!Post(l, i, d)
<1> DEFINE B == [k \in Lots |-> [m \in Stocks |-> db[Bal(k, m)]]]
           R == [k \in Lots |-> db[Rem(k)]]
           Q == [m \in Stocks |-> db[Inv(m)]]
<1>1. ASSUME NEW k \in Lots, NEW m \in Stocks
      PROVE  /\ db[Bal(k, m)] \in Int /\ db[Rem(k)] \in Int /\ db[Inv(m)] \in Int
             /\ db'[Bal(k, m)] \in 0..MaxStock
             /\ db'[Rem(k)] \in 0..MaxStock
             /\ db'[Inv(m)] \in 0..MaxStock
  <2>1. {Bal(k, m), Rem(k), Inv(m)} \subseteq GoodsRows /\ GoodsRows \subseteq Rows
    BY RowsOfALot DEF GoodsRows
  <2>2. \A r \in GoodsRows : db[r] \in Int /\ db'[r] \in Int /\ 0 <= db'[r] /\ db'[r] <= MaxStock
    BY <2>1 DEF Typing, TypeOK
  <2>3. QED
    BY <2>1, <2>2, QuantitiesArePositive
<1>2. /\ B[l][i] + d \in 0..MaxStock /\ R[l] + d \in 0..MaxStock /\ Q[i] + d \in 0..MaxStock
  <2>1. B[l][i] = db[Bal(l, i)] /\ R[l] = db[Rem(l)] /\ Q[i] = db[Inv(i)]
    OBVIOUS
  <2>2. /\ db'[Bal(l, i)] = db[Bal(l, i)] + d /\ db'[Rem(l)] = db[Rem(l)] + d
        /\ db'[Inv(i)] = db[Inv(i)] + d
    OBVIOUS
  <2>3. QED
    BY <1>1, <2>1, <2>2
<1>3. B' = [B EXCEPT ![l] = [B[l] EXCEPT ![i] = B[l][i] + d]]
  <2>1. ASSUME NEW k \in Lots
        PROVE  [m \in Stocks |-> db'[Bal(k, m)]] =
                   IF k = l THEN [B[l] EXCEPT ![i] = B[l][i] + d] ELSE B[k]
    <3>1. \A m \in Stocks :
              db'[Bal(k, m)] = IF k = l /\ m = i THEN db[Bal(k, m)] + d ELSE db[Bal(k, m)]
      BY <1>1
    <3>2. QED
      BY <3>1
  <2>2. B' = [k \in Lots |-> IF k = l THEN [B[l] EXCEPT ![i] = B[l][i] + d] ELSE B[k]]
    BY <2>1
  <2>3. QED
    BY <2>2
<1>4. R' = [R EXCEPT ![l] = R[l] + d]
  <2>1. \A k \in Lots : db'[Rem(k)] = IF k = l THEN db[Rem(k)] + d ELSE db[Rem(k)]
    BY <1>1
  <2>2. QED
    BY <2>1
<1>5. Q' = [Q EXCEPT ![i] = Q[i] + d]
  <2>1. \A m \in Stocks : db'[Inv(m)] = IF m = i THEN db[Inv(m)] + d ELSE db[Inv(m)]
    BY <1>1
  <2>2. QED
    BY <2>1
<1>6. QED
  BY <1>2, <1>3, <1>4, <1>5 DEF Ledger!Post

LEMMA WhereChangesAre ==
    ASSUME NEW l, NEW i, NEW k, NEW m
    PROVE  /\ Bal(k, m) \in Three(l, i) <=> k = l /\ m = i
           /\ Rem(k) \in Three(l, i) <=> k = l
           /\ Inv(m) \in Three(l, i) <=> m = i
           /\ Made(l) \notin {Bal(k, m), Rem(k), Inv(m)}
BY DEF Three, LotRows, Bal, Rem, Inv, Made

LEMMA WhereAMoveIs ==
    ASSUME NEW l, NEW i, NEW j, NEW q, NEW k, NEW m
    PROVE  LET A == Moved(l, i, j, q)
           IN /\ Bal(k, m) \in DOMAIN A <=> k = l /\ m \in {i, j}
              /\ Rem(k) \notin DOMAIN A
              /\ Inv(m) \in DOMAIN A <=> m \in {i, j}
              /\ k = l /\ m \in {i, j} => A[Bal(k, m)] = IF m = i THEN -q ELSE q
              /\ m \in {i, j} => A[Inv(m)] = IF m = i THEN -q ELSE q
<1> DEFINE from == {Bal(l, i), Inv(i)}
           to == {Bal(l, j), Inv(j)}
           x == -q
           A == [r \in from \cup to |-> IF r \in from THEN x ELSE q]
<1>1. /\ Bal(k, m) \in from \cup to <=> k = l /\ m \in {i, j}
      /\ Rem(k) \notin from \cup to
      /\ Inv(m) \in from \cup to <=> m \in {i, j}
      /\ Bal(k, m) \in from <=> k = l /\ m = i
      /\ Inv(m) \in from <=> m = i
  BY DEF Bal, Rem, Inv
<1>2. A = Moved(l, i, j, q)
  BY DEF Moved
<1> HIDE DEF from, to, x
<1>3. /\ Bal(k, m) \in DOMAIN A <=> k = l /\ m \in {i, j}
      /\ Rem(k) \notin DOMAIN A
      /\ Inv(m) \in DOMAIN A <=> m \in {i, j}
      /\ k = l /\ m \in {i, j} => A[Bal(k, m)] = IF m = i THEN x ELSE q
      /\ m \in {i, j} => A[Inv(m)] = IF m = i THEN x ELSE q
  BY <1>1
<1> HIDE DEF A
<1>4. QED
  BY <1>2, <1>3 DEF x

LEMMA CommitOfThree ==
    ASSUME Typing, Typing', NEW p \in Procs, CommitsChanges(p), job[p] \in Jobs,
           NEW d \in Int,
           \/ Changes(job[p]) = Each(Three(job[p].lot, job[p].stock), d)
           \/ Changes(job[p]) = Created(job[p].lot, job[p].stock, d)
    PROVE  Ledger!Post(job[p].lot, job[p].stock, d)
<1> DEFINE l == job[p].lot
           i == job[p].stock
           A == Changes(job[p])
<1>1. l \in Lots /\ i \in Stocks
  BY JobFields
<1>2. ASSUME NEW k \in Lots, NEW m \in Stocks
      PROVE  /\ Bal(k, m) \in DOMAIN A <=> k = l /\ m = i
             /\ Rem(k) \in DOMAIN A <=> k = l
             /\ Inv(m) \in DOMAIN A <=> m = i
             /\ A = Each(Three(l, i), d) \/ A = Created(l, i, d) =>
                   \A r \in DOMAIN A : r \in {Bal(k, m), Rem(k), Inv(m)} => A[r] = d
  <2>1. CASE A = Each(Three(l, i), d)
    BY <2>1, WhereChangesAre DEF Each
  <2>2. CASE A = Created(l, i, d)
    BY <2>2, WhereChangesAre DEF Created
  <2>3. QED
    BY <2>1, <2>2
<1>3. ASSUME NEW k \in Lots, NEW m \in Stocks
      PROVE  {Bal(k, m), Rem(k), Inv(m)} \subseteq LedgerRows
  BY RowsOfALot DEF LedgerRows
<1>4. \A k \in Lots, m \in Stocks :
          db'[Bal(k, m)] = db[Bal(k, m)] + (IF k = l /\ m = i THEN d ELSE 0)
  BY <1>2, <1>3 DEF CommitsChanges
<1>5. \A k \in Lots : db'[Rem(k)] = db[Rem(k)] + (IF k = l THEN d ELSE 0)
  BY <1>1, <1>2, <1>3 DEF CommitsChanges
<1>6. \A m \in Stocks : db'[Inv(m)] = db[Inv(m)] + (IF m = i THEN d ELSE 0)
  BY <1>1, <1>2, <1>3 DEF CommitsChanges
<1> HIDE DEF l, i, A
<1>7. Ledger!Post(l, i, d)
  BY <1>1, <1>4, <1>5, <1>6, ThreeFiguresArePosted
<1>8. QED
  BY <1>7 DEF l, i

LEMMA CommitOfATransfer ==
    ASSUME Typing, Typing', NEW p \in Procs, CommitsChanges(p), job[p] \in Jobs,
           job[p].kind = "transfer", CreatedLots' = CreatedLots, job[p].lot \in CreatedLots
    PROVE  Ledger!Move(job[p].lot, job[p].stock, job[p].dest, job[p].qty)
<1> DEFINE l == job[p].lot
           i == job[p].stock
           j == job[p].dest
           q == job[p].qty
           A == Moved(l, i, j, q)
           B == [k \in Lots |-> [m \in Stocks |-> db[Bal(k, m)]]]
           R == [k \in Lots |-> db[Rem(k)]]
           Q == [m \in Stocks |-> db[Inv(m)]]
<1>1. /\ l \in Lots /\ i \in Stocks /\ j \in Stocks /\ i # j /\ q \in Nat
      /\ Changes(job[p]) = A
  BY JobFields, WhatChanges
<1>2. ASSUME NEW k \in Lots, NEW m \in Stocks
      PROVE  /\ Bal(k, m) \in DOMAIN A <=> k = l /\ m \in {i, j}
             /\ Rem(k) \notin DOMAIN A
             /\ Inv(m) \in DOMAIN A <=> m \in {i, j}
             /\ k = l /\ m \in {i, j} => A[Bal(k, m)] = IF m = i THEN -q ELSE q
             /\ m \in {i, j} => A[Inv(m)] = IF m = i THEN -q ELSE q
  BY WhereAMoveIs
<1>3. ASSUME NEW k \in Lots, NEW m \in Stocks
      PROVE  /\ {Bal(k, m), Rem(k), Inv(m)} \subseteq LedgerRows
             /\ db[Bal(k, m)] \in Int /\ db[Rem(k)] \in Int /\ db[Inv(m)] \in Int
             /\ 0 <= db'[Bal(k, m)]
             /\ 0 <= db'[Inv(m)] /\ db'[Inv(m)] <= MaxStock
  BY RowsOfALot DEF LedgerRows, GoodsRows, Typing, TypeOK
<1> HIDE DEF A
<1>4. ASSUME NEW k \in Lots, NEW m \in Stocks
      PROVE  db'[Bal(k, m)] = IF k = l /\ m = i THEN db[Bal(k, m)] - q
                              ELSE IF k = l /\ m = j THEN db[Bal(k, m)] + q
                              ELSE db[Bal(k, m)]
  BY <1>1, <1>2, <1>3 DEF CommitsChanges
<1>5. \A k \in Lots : db'[Rem(k)] = db[Rem(k)]
  BY <1>1, <1>2, <1>3 DEF CommitsChanges
<1>6. ASSUME NEW m \in Stocks
      PROVE  db'[Inv(m)] = IF m = i THEN db[Inv(m)] - q
                           ELSE IF m = j THEN db[Inv(m)] + q
                           ELSE db[Inv(m)]
  BY <1>1, <1>2, <1>3 DEF CommitsChanges
<1> HIDE DEF l, i, j, q
<1>7. q <= B[l][i] /\ q <= Q[i] /\ Q[j] + q <= MaxStock
  <2>1. /\ 0 <= db[Bal(l, i)] - q /\ 0 <= db[Inv(i)] - q /\ db[Inv(j)] + q <= MaxStock
    BY <1>1, <1>3, <1>4, <1>6
  <2>2. db[Bal(l, i)] \in Int /\ db[Inv(i)] \in Int
    BY <1>1, <1>3
  <2>3. QED
    BY <1>1, <2>1, <2>2
<1>8. B' = [B EXCEPT ![l] = [B[l] EXCEPT ![i] = B[l][i] - q, ![j] = B[l][j] + q]]
  <2> DEFINE X == [B[l] EXCEPT ![i] = B[l][i] - q, ![j] = B[l][j] + q]
  <2>1. X = [m \in Stocks |-> IF m = i THEN db[Bal(l, m)] - q
                              ELSE IF m = j THEN db[Bal(l, m)] + q
                              ELSE db[Bal(l, m)]]
    BY <1>1
  <2>2. ASSUME NEW k \in Lots
        PROVE  [m \in Stocks |-> db'[Bal(k, m)]] = IF k = l THEN X ELSE B[k]
    <3> HIDE DEF X
    <3>1. CASE k = l
      BY <1>4, <2>1, <3>1
    <3>2. CASE k # l
      BY <1>4, <3>2
    <3>3. QED
      BY <3>1, <3>2
  <2>3. B' = [k \in Lots |-> IF k = l THEN X ELSE B[k]]
    <3> HIDE DEF X
    <3>1. QED
      BY <2>2
  <2>4. QED
    <3> HIDE DEF X
    <3>1. B' = [B EXCEPT ![l] = X]
      BY <2>3
    <3>2. QED
      BY <3>1 DEF X
<1>9. R' = R
  BY <1>5
<1>10. Q' = [Q EXCEPT ![i] = Q[i] - q, ![j] = Q[j] + q]
  BY <1>1, <1>6
<1>11. l \in CreatedLots /\ CreatedLots' = CreatedLots
  BY DEF l
<1>12. Ledger!Move(l, i, j, q)
  BY <1>1, <1>7, <1>8, <1>9, <1>10, <1>11 DEF Ledger!Move
<1>13. QED
  BY <1>12 DEF l, i, j, q

\* Every commit is a posting of the ledger.
LEMMA CommitIsAPosting ==
    ASSUME Typing, Typing', Posting, Creating, NEW p \in Procs, Commit(p)
    PROVE  Ledger!Next
<1> DEFINE j == job[p]
           l == j.lot
           i == j.stock
           q == j.qty
<1>1. j \in Jobs /\ j.kind \in CarefulKinds /\ Running(p) /\ CommitsChanges(p)
  BY CommitPostsChanges DEF Commit, Finished, Running, Typing, TypeOK, Posting, Careful
<1>2. l \in Lots /\ i \in Stocks /\ q \in Int
      /\ Ledger!Lots = Lots /\ Ledger!Stocks = Stocks
  BY <1>1, JobFields DEF Ledger!Lots, Ledger!Stocks, Lots, Stocks
<1>3. /\ j.kind # "settle" => q \in 1..MaxStock
      /\ q \in 1..MaxStock \/ -q \in 1..MaxStock
  <2>1. MaxStock \in Nat /\ Quantities \subseteq 1..MaxStock
    BY TransactionsAssumption
  <2>2. j.kind # "settle" => q \in 1..MaxStock
    BY <1>1, <2>1, JobFields
  <2>3. j.kind = "settle" => q \in Quantities \/ -q \in Quantities
    BY <1>1 DEF Jobs, CreatingKinds
  <2>4. QED
    BY <2>1, <2>2, <2>3
<1>4. ASSUME NEW k \in Lots
      PROVE  /\ j.kind \in CreatingKinds /\ k = l => db'[Made(k)] = 1 /\ db[Made(k)] = 0
             /\ j.kind \notin CreatingKinds \/ k # l => db'[Made(k)] = db[Made(k)]
             /\ j.kind \notin CreatingKinds => db[Made(l)] = 1
  <2>1. Made(k) \in LedgerRows /\ db[Made(k)] \in {0, 1}
    BY DEF LedgerRows, Creating
  <2>2. j.kind \in CreatingKinds /\ k = l => db[Made(k)] = 0
    BY <1>1 DEF Creating
  <2>3. j.kind \notin CreatingKinds => db[Made(l)] = 1
    BY <1>1 DEF Creating
  <2>4. QED
    BY <1>1, <2>1, <2>2, <2>3, ChangesToLots DEF CommitsChanges
<1>5. CASE j.kind \in CreatingKinds
  <2>1. Ledger!Post(l, i, q)
    BY <1>1, <1>2, <1>5, CommitOfThree, WhatChanges
  <2>2. l \notin CreatedLots /\ CreatedLots' = CreatedLots \cup {l}
    BY <1>2, <1>4, <1>5 DEF CreatedLots
  <2>3. Ledger!Receive(l, i, q)
    BY <2>1, <2>2 DEF Ledger!Receive
  <2>4. q \in 1..MaxStock
    BY <1>3, <1>5 DEF CreatingKinds
  <2>5. QED
    BY <1>2, <2>3, <2>4 DEF Ledger!Next
<1>6. ASSUME j.kind \notin CreatingKinds
      PROVE  l \in CreatedLots /\ CreatedLots' = CreatedLots
  BY <1>2, <1>4, <1>6 DEF CreatedLots
<1>7. CASE j.kind \in IssueKinds \cup {"dispose", "supplierReturn"}
  <2>1. j.kind \notin CreatingKinds /\ j.kind # "settle"
    BY <1>7 DEF CreatingKinds, IssueKinds
  <2>2. Ledger!Post(l, i, -q)
    BY <1>1, <1>2, <1>7, CommitOfThree, WhatChanges
  <2>3. Ledger!Consume(l, i, q)
    BY <1>6, <2>1, <2>2 DEF Ledger!Consume
  <2>4. QED
    BY <1>2, <1>3, <2>1, <2>3 DEF Ledger!Next
<1>8. CASE j.kind = "transfer"
  <2>1. j.kind \notin CreatingKinds /\ j.kind # "settle" /\ j.dest \in Stocks
    BY <1>1, <1>8, JobFields DEF CreatingKinds
  <2>2. Ledger!Move(l, i, j.dest, q)
    BY <1>1, <1>6, <1>8, <2>1, CommitOfATransfer
  <2>3. QED
    BY <1>2, <1>3, <2>1, <2>2 DEF Ledger!Next
<1>9. CASE j.kind = "teamReturn"
  <2>1. j.kind \notin CreatingKinds /\ j.kind # "settle"
    BY <1>9 DEF CreatingKinds
  <2>2. Ledger!Post(l, i, q)
    BY <1>1, <1>2, <1>9, CommitOfThree, WhatChanges
  <2>3. Ledger!GiveBack(l, i, q)
    BY <1>6, <2>1, <2>2 DEF Ledger!GiveBack
  <2>4. QED
    BY <1>2, <1>3, <2>1, <2>3 DEF Ledger!Next
<1>10. CASE j.kind = "settle"
  <2>1. j.kind \notin CreatingKinds
    BY <1>10 DEF CreatingKinds
  <2>2. Ledger!Post(l, i, q)
    BY <1>1, <1>2, <1>10, CommitOfThree, WhatChanges
  <2>3. Ledger!Adjust(l, i, q)
    BY <1>6, <2>1, <2>2 DEF Ledger!Adjust
  <2>4. CASE q \in 1..MaxStock
    BY <1>2, <2>3, <2>4 DEF Ledger!Next
  <2>5. CASE -q \in 1..MaxStock
    <3>1. PICK n \in 1..MaxStock : n = -q
      BY <2>5
    <3>2. -n = q
      BY <1>2, <3>1
    <3>3. Ledger!Adjust(l, i, -n)
      BY <2>3, <3>2
    <3>4. QED
      BY <1>2, <3>3 DEF Ledger!Next
  <2>6. QED
    BY <1>3, <2>4, <2>5
<1>11. j.kind \in CreatingKinds \cup IssueKinds \cup
          {"dispose", "supplierReturn", "transfer", "teamReturn", "settle"}
  BY <1>1, JobFields DEF CarefulKinds, AllKinds, CreatingKinds, IssueKinds
<1>12. QED
  BY <1>5, <1>7, <1>8, <1>9, <1>10, <1>11

LEMMA LedgerStarts == Init => Ledger!Init
<1> SUFFICES ASSUME Init PROVE Ledger!Init
  OBVIOUS
<1>1. \A r \in Rows : db[r] = 0
  BY DEF Init
<1>2. /\ \A l \in Lots, i \in Stocks : Bal(l, i) \in Rows
      /\ \A l \in Lots : Rem(l) \in Rows /\ Made(l) \in Rows
      /\ \A i \in Stocks : Inv(i) \in Rows
  BY DEF Rows
<1>3. CreatedLots = {}
  <2>1. \A l \in Lots : db[Made(l)] = 0
    BY <1>1, <1>2
  <2>2. QED
    BY <2>1 DEF CreatedLots
<1>4. Ledger!Lots = Lots /\ Ledger!Stocks = Stocks
  BY DEF Ledger!Lots, Ledger!Stocks, Lots, Stocks
<1>5. [l \in Lots |-> [i \in Stocks |-> db[Bal(l, i)]]] = [l \in Lots |-> [i \in Stocks |-> 0]]
  BY <1>1, <1>2
<1>6. [l \in Lots |-> db[Rem(l)]] = [l \in Lots |-> 0]
  BY <1>1, <1>2
<1>7. [i \in Stocks |-> db[Inv(i)]] = [i \in Stocks |-> 0]
  BY <1>1, <1>2
<1>8. QED
  BY <1>3, <1>4, <1>5, <1>6, <1>7 DEF Ledger!Init

\* A step that commits nothing leaves the ledger alone.
LEMMA OthersLeaveTheLedger ==
    ASSUME db' = db
    PROVE  UNCHANGED Ledger!vars
BY DEF Ledger!vars, CreatedLots

\* However many requests interleave their statements and wherever they die,
\* the committed figures change one whole posting at a time: the statements
\* implement LotLedger (PostsToTheLedger).
THEOREM PostingsImplementTheLedger ==
    ASSUME OnlyCareful
    PROVE  Spec => PostsToTheLedger
<1>1. ASSUME Typing, Typing', Posting, Creating, [Next]_vars
      PROVE  [Ledger!Next]_Ledger!vars
  <2>1. CASE UNCHANGED vars
    BY <2>1, OthersLeaveTheLedger DEF vars
  <2>2. ASSUME NEW p \in Procs, Commit(p) PROVE Ledger!Next
    BY <1>1, <2>2, CommitIsAPosting
  <2>3. ASSUME NEW p \in Procs,
               Begin(p) \/ Execute(p) \/ Throw(p) \/ RollBackVictim(p) \/ Abort(p)
        PROVE  UNCHANGED Ledger!vars
    <3>1. db' = db
      BY <2>3 DEF Begin, Execute, Throw, RollBackVictim, Abort
    <3>2. QED
      BY <3>1, OthersLeaveTheLedger
  <2>4. QED
    BY <1>1, <2>1, <2>2, <2>3 DEF Next
<1> DEFINE Inductive == Typing /\ Locking /\ Posting /\ Creating
<1>2. Init => Inductive
  BY TypingStarts, LockingStarts, PostingStarts, CreatingStarts
<1>3. Inductive /\ [Next]_vars => Inductive'
  BY NextKeepsTyping, NextKeepsLocking, NextKeepsPosting, NextKeepsCreating
<1>4. Inductive /\ Inductive' /\ [Next]_vars => [Ledger!Next]_Ledger!vars
  BY <1>1
<1> HIDE DEF Inductive
<1>5. QED
  BY <1>2, <1>3, <1>4, LedgerStarts, PTL DEF Spec, PostsToTheLedger, Ledger!Spec

-----------------------------------------------------------------------------
(* The laws of the ledger, of the committed figures.                       *)

Laws ==
    INSTANCE LotLedgerProofs WITH
        Quantities <- 1..MaxStock,
        created <- CreatedLots,
        balance <- [l \in Lots |-> [i \in Stocks |-> db[Bal(l, i)]]],
        remaining <- [l \in Lots |-> db[Rem(l)]],
        quantity <- [i \in Stocks |-> db[Inv(i)]]

\* Ledger and Laws are the same specification, one of them with its theorems.
LEMMA LedgerHasItsLaws ==
    /\ Ledger!Init => Laws!Init
    /\ [Ledger!Next]_Ledger!vars => [Laws!Next]_Laws!vars
    /\ Laws!StockMatchesLots => Ledger!StockMatchesLots
    /\ Laws!LotMatchesBalances => Ledger!LotMatchesBalances
<1>1. Ledger!Init => Laws!Init
  BY DEF Ledger!Init, Laws!Init, Ledger!Lots, Laws!Lots, Ledger!Stocks, Laws!Stocks
<1>2. Ledger!Lots = Laws!Lots /\ Ledger!Stocks = Laws!Stocks
  BY DEF Ledger!Lots, Laws!Lots, Ledger!Stocks, Laws!Stocks
<1>3. ASSUME NEW l, NEW i, NEW q
      PROVE  /\ Ledger!Receive(l, i, q) => Laws!Receive(l, i, q)
             /\ Ledger!Consume(l, i, q) => Laws!Consume(l, i, q)
             /\ Ledger!GiveBack(l, i, q) => Laws!GiveBack(l, i, q)
             /\ \A j : Ledger!Move(l, i, j, q) => Laws!Move(l, i, j, q)
             /\ Ledger!Adjust(l, i, q) => Laws!Adjust(l, i, q)
             /\ Ledger!Adjust(l, i, -q) => Laws!Adjust(l, i, -q)
  BY DEF Ledger!Receive, Laws!Receive, Ledger!Consume, Laws!Consume,
         Ledger!GiveBack, Laws!GiveBack, Ledger!Move, Laws!Move,
         Ledger!Adjust, Laws!Adjust, Ledger!Post, Laws!Post
<1>4. Ledger!Next => Laws!Next
  BY <1>2, <1>3 DEF Ledger!Next, Laws!Next
<1>5. UNCHANGED Ledger!vars => UNCHANGED Laws!vars
  BY DEF Ledger!vars, Laws!vars
<1>6. ASSUME NEW f, NEW n, NEW total
      PROVE  Laws!SumsTo(f, n, total) => Ledger!SumsTo(f, n, total)
  BY DEF Ledger!SumsTo, Laws!SumsTo, Ledger!PartialSums, Laws!PartialSums
<1>7. ASSUME NEW i
      PROVE  Laws!Column(i) = Ledger!Column(i)
  BY DEF Laws!Column, Ledger!Column, Laws!Lots, Ledger!Lots
<1>8. Laws!StockMatchesLots => Ledger!StockMatchesLots
  BY <1>2, <1>6, <1>7 DEF Ledger!StockMatchesLots, Laws!StockMatchesLots
<1>9. Laws!LotMatchesBalances => Ledger!LotMatchesBalances
  BY <1>2, <1>6 DEF Ledger!LotMatchesBalances, Laws!LotMatchesBalances
<1>10. QED
  BY <1>1, <1>4, <1>5, <1>8, <1>9

\* However many requests interleave their statements and wherever they die,
\* the committed quantity of every stock row is what the lots in it add up to
\* (rule 1), and what remains of every lot is what its balances add up to
\* (rule 2): see Ledger!StockMatchesLots and Ledger!LotMatchesBalances.
THEOREM CommittedFiguresAgree ==
    ASSUME OnlyCareful
    PROVE  Spec => [](StockMatchesLots /\ LotMatchesBalances)
<1>1. Laws!LedgerAssumption
  BY TransactionsAssumption DEF Laws!LedgerAssumption
<1>2. Laws!Spec => []Laws!StockMatchesLots
  BY <1>1, Laws!StockAgreement
<1>3. Laws!Spec => []Laws!LotMatchesBalances
  BY <1>1, Laws!LotAgreement
<1>4. Spec => Ledger!Spec
  BY PostingsImplementTheLedger DEF PostsToTheLedger
<1>5. Ledger!Spec => Laws!Spec
  BY LedgerHasItsLaws, PTL DEF Ledger!Spec, Laws!Spec
<1>6. QED
  BY <1>2, <1>3, <1>4, <1>5, LedgerHasItsLaws, PTL DEF StockMatchesLots, LotMatchesBalances

-----------------------------------------------------------------------------
(* What recipients may still return.                                       *)

\* No load lets a return at REPEATABLE READ have its read view before its
\* first statement.
OnlyLateViews == \A w \in Loads : "recipientReturn" \in w.kinds => w.early \subseteq {FALSE}

\* The row a return takes from.
Claimed(j) == Open(j.doc, j.lot, j.stock)

\* No figure of what may be returned is negative, and a return that has seen
\* what is left finds it unchanged until it takes from it.
Returning ==
    /\ \A r \in OpenRows : db[r] >= 0
    /\ \A p \in Procs : \A r \in OpenRows : r \in DOMAIN own[p] => own[p][r] >= 0
    /\ \A p \in Procs : Running(p) /\ job[p].kind \in ReturnKinds =>
        /\ pc[p] <= 7 => Claimed(job[p]) \notin DOMAIN own[p]
        /\ pc[p] \in 3..7 => db[Claimed(job[p])] >= job[p].qty
        /\ pc[p] <= 2 => ReadsCommitted(job[p]) \/ view[p] = NoView

LEMMA StatementsOfAReturn ==
    ASSUME NEW j \in Jobs, j.kind \in ReturnKinds
    PROVE  LET P == Programs[j]
           IN /\ Claimed(j) \in OpenRows /\ j.qty \in Nat
              /\ Len(P) = 7
              /\ P[1] = Lock(Claimed(j)) /\ P[2] = Read({Claimed(j)}, j.qty)
              /\ P[7] = Insert(Each({Claimed(j)}, -j.qty))
              /\ \A n \in 1..6 : P[n].op \in WritingOps => DOMAIN P[n].by \cap OpenRows = {}
<1> DEFINE P == Programs[j]
           l == j.lot
           i == j.stock
<1>1. /\ l \in Lots /\ i \in Stocks /\ j.doc \in Docs /\ j.qty \in Nat
      /\ P = RecipientReturn(j.doc, l, i, j.qty)
  BY JobFields, ProgramOf DEF ReturnKinds
<1>2. Claimed(j) \in OpenRows
  BY <1>1 DEF Claimed, OpenRows
<1>3. /\ Len(P) = 7
      /\ P[1] = Lock(Claimed(j)) /\ P[2] = Read({Claimed(j)}, j.qty)
      /\ P[3] = Lock(Bal(l, i)) /\ P[4] = Lock(Rem(l)) /\ P[5] = Lock(Inv(i))
      /\ P[6] = Put(LotRows(l, i) \cup {Inv(i)}, j.qty)
      /\ P[7] = Insert(Each({Claimed(j)}, -j.qty))
  BY <1>1 DEF RecipientReturn, Claimed
<1>4. (LotRows(l, i) \cup {Inv(i)}) \cap OpenRows = {}
  BY <1>1, KindsOfRows DEF LotRows
<1> HIDE DEF P, l, i
<1>5. /\ P[1].op \notin WritingOps /\ P[2].op \notin WritingOps /\ P[3].op \notin WritingOps
      /\ P[4].op \notin WritingOps /\ P[5].op \notin WritingOps
      /\ DOMAIN P[6].by \cap OpenRows = {}
  BY <1>3, <1>4 DEF Lock, Read, Put, Each, WritingOps
<1>6. \A n \in 1..6 : P[n].op \in WritingOps => DOMAIN P[n].by \cap OpenRows = {}
  BY <1>5
<1>7. QED
  BY <1>1, <1>2, <1>3, <1>6 DEF P

LEMMA ReturningStarts == Init => Returning
<1> SUFFICES ASSUME Init PROVE Returning
  OBVIOUS
<1>1. \A r \in OpenRows : db[r] = 0
  BY DEF Init, OpenRows, Rows
<1>2. \A p \in Procs : own[p] = <<>> /\ ~Running(p)
  BY DEF Init, Running
<1>3. QED
  BY <1>1, <1>2, NothingIsSound DEF Returning

LEMMA BeginKeepsReturning ==
    ASSUME OnlyLateViews, Typing, Returning, NEW p \in Procs, Begin(p)
    PROVE  Returning'
<1>1. PICK j \in Offered[load], early \in load.early :
          /\ job' = [job EXCEPT ![p] = j]
          /\ view' = [view EXCEPT ![p] = IF early THEN Snapshot(j) ELSE NoView]
  BY DEF Begin
<1>2. ~Running(p) /\ pc' = [pc EXCEPT ![p] = 1] /\ UNCHANGED <<db, own>>
  BY DEF Begin
<1>3. own[p] = <<>> /\ DOMAIN <<>> = {}
  BY <1>2, NothingIsSound DEF Typing, TypeOK
<1>4. /\ \A x \in Procs : x # p => job'[x] = job[x] /\ pc'[x] = pc[x] /\ view'[x] = view[x]
      /\ pc'[p] = 1 /\ job'[p] = j
      /\ view'[p] = IF early THEN Snapshot(j) ELSE NoView
  BY <1>1, <1>2 DEF Typing, TypeOK, Shape
<1>5. load \in Loads /\ j.kind \in load.kinds
  BY DEF Typing, TypeOK, Offered
<1>6. j.kind \in ReturnKinds => ReadsCommitted(j) \/ ~early
  BY <1>5 DEF OnlyLateViews, ReturnKinds, ReadsCommitted
<1>7. ASSUME NEW x \in Procs, Running(x)', job'[x].kind \in ReturnKinds
      PROVE  /\ pc'[x] <= 7 => Claimed(job'[x]) \notin DOMAIN own'[x]
             /\ pc'[x] \in 3..7 => db'[Claimed(job'[x])] >= job'[x].qty
             /\ pc'[x] <= 2 => ReadsCommitted(job'[x]) \/ view'[x] = NoView
  <2>1. CASE x = p
    BY <1>2, <1>3, <1>4, <1>6, <1>7, <2>1
  <2>2. CASE x # p
    BY <1>2, <1>4, <1>7, <2>2 DEF Returning, Running
  <2>3. QED
    BY <2>1, <2>2
<1>8. QED
  BY <1>2, <1>7 DEF Returning

\* What the read of a return has seen is the committed figure.
LEMMA ReturnsSeeTheLatest ==
    ASSUME Typing, Returning, NEW p \in Procs, Pending(p), Succeeds(p),
           job[p].kind \in ReturnKinds, pc[p] = 2
    PROVE  db[Claimed(job[p])] >= job[p].qty
<1> DEFINE c == Claimed(job[p])
           P == Programs[job[p]]
<1>1. job[p] \in Jobs /\ Running(p) /\ 2 \in 1..Len(P)
  BY AtAStatement DEF Pending
<1>2. /\ Stmt(p) = Read({c}, job[p].qty) /\ P[2] = Read({c}, job[p].qty)
  BY <1>1, StatementsOfAReturn DEF Stmt
<1>3. /\ Stmt(p).op = "read" /\ DOMAIN Stmt(p).by = {c} /\ Stmt(p).by[c] = job[p].qty
      /\ P[2].op \in PlainReadOps /\ c \in DOMAIN P[2].by
  BY <1>2 DEF Read, Each, PlainReadOps
<1>4. Seen(p, c) >= job[p].qty
  BY <1>3 DEF Succeeds
<1>5. c \notin DOMAIN own[p] /\ (ReadsCommitted(job[p]) \/ view[p] = NoView)
  BY <1>1 DEF Returning
<1>6. c \in ReadRows[job[p]]
  BY <1>1, <1>3, ReadRowsAreRows
<1>7. CASE ReadsCommitted(job[p])
  BY <1>4, <1>5, <1>7 DEF Seen
<1>8. CASE ~ReadsCommitted(job[p])
  <2>1. ViewAfter(p) = Snapshot(job[p])
    BY <1>3, <1>5, <1>8 DEF ViewAfter, PlainReadOps
  <2>2. Snapshot(job[p])[c] = db[c]
    BY <1>6 DEF Snapshot
  <2>3. QED
    BY <1>4, <1>5, <1>8, <2>1, <2>2 DEF Seen
<1>9. QED
  BY <1>7, <1>8

\* No statement takes more from a delivery than is left of it.
LEMMA WrittenIsReturnable ==
    ASSUME Typing, Returning, NEW p \in Procs, Pending(p), Succeeds(p),
           Stmt(p).op \in WritingOps, NEW r \in DOMAIN Stmt(p).by, r \in OpenRows
    PROVE  Written(p)[r] >= 0
<1> DEFINE s == Stmt(p)
           P == Programs[job[p]]
<1>1. /\ job[p] \in Jobs /\ Running(p) /\ pc[p] \in 1..Len(P) /\ s = P[pc[p]]
      /\ r \in Rows /\ s.by[r] \in Int
  BY AtAStatement DEF Stmt, Pending
<1>2. Current(p, r) >= 0 /\ Current(p, r) \in Int
  BY <1>1, CurrentIsSound DEF Returning, Current
<1>3. CASE job[p].kind \notin ReturnKinds
  <2>1. TakesNoReturn(P)
    BY <1>1, <1>3, WhatProgramsDo
  <2>2. CASE r \in Adds(s)
    <3>1. s.op = "insert" /\ s.by[r] >= 0
      BY <1>1, <2>1, <2>2 DEF TakesNoReturn
    <3>2. Written(p)[r] = Current(p, r) + s.by[r]
      BY <3>1 DEF Written
    <3>3. QED
      BY <1>1, <1>2, <3>1, <3>2
  <2>3. CASE r \notin Adds(s)
    <3>1. s.op = "weigh"
      BY <2>3 DEF Adds, AddingOps, WritingOps
    <3>2. Written(p)[r] = Current(p, r)
      BY <3>1 DEF Written
    <3>3. QED
      BY <1>2, <3>2
  <2>4. QED
    BY <2>2, <2>3
<1>4. CASE job[p].kind \in ReturnKinds
  <2> DEFINE c == Claimed(job[p])
  <2>1. pc[p] = 7 /\ s = Insert(Each({c}, -job[p].qty)) /\ job[p].qty \in Nat
    <3>1. /\ Len(P) = 7 /\ P[7] = Insert(Each({c}, -job[p].qty)) /\ job[p].qty \in Nat
          /\ \A n \in 1..6 : P[n].op \in WritingOps => DOMAIN P[n].by \cap OpenRows = {}
      BY <1>1, <1>4, StatementsOfAReturn
    <3>2. pc[p] \notin 1..6
      BY <1>1, <3>1
    <3>3. pc[p] = 7
      BY <1>1, <3>1, <3>2
    <3>4. QED
      BY <1>1, <3>1, <3>3
  <2>2. r = c /\ s.op = "insert" /\ s.by[r] = -job[p].qty
    BY <2>1 DEF Insert, Each
  <2>3. c \notin DOMAIN own[p] /\ db[c] >= job[p].qty
    BY <1>1, <1>4, <2>1 DEF Returning
  <2>4. Written(p)[r] = db[c] + s.by[r]
    BY <2>2, <2>3 DEF Written, Current
  <2>5. db[c] \in Int
    BY <1>1, <2>2 DEF Typing, TypeOK
  <2>6. QED
    BY <2>1, <2>2, <2>3, <2>4, <2>5
<1>5. QED
  BY <1>3, <1>4

LEMMA ExecuteKeepsReturning ==
    ASSUME Typing, Returning, NEW p \in Procs, Execute(p)
    PROVE  Returning'
<1>1. /\ Pending(p) /\ Succeeds(p) /\ Running(p)
      /\ pc' = [pc EXCEPT ![p] = pc[p] + 1]
      /\ own' = [own EXCEPT ![p] = OwnAfter(p)]
      /\ view' = [view EXCEPT ![p] = ViewAfter(p)]
      /\ UNCHANGED <<db, job>>
  BY DEF Execute, Pending
<1>2. /\ \A x \in Procs : x # p => pc'[x] = pc[x] /\ own'[x] = own[x] /\ view'[x] = view[x]
      /\ pc'[p] = pc[p] + 1 /\ own'[p] = OwnAfter(p) /\ view'[p] = ViewAfter(p)
  BY <1>1 DEF Typing, Shape
<1> DEFINE s == Stmt(p)
           P == Programs[job[p]]
           c == Claimed(job[p])
<1>3. job[p] \in Jobs /\ pc[p] \in 1..Len(P) /\ s = P[pc[p]]
  BY <1>1, AtAStatement DEF Stmt
<1>4. DOMAIN own'[p] = DOMAIN own[p] \cup (IF s.op \in WritingOps THEN DOMAIN s.by ELSE {})
  BY <1>1, <1>2, OwnAfterIsSound
<1>5. ASSUME NEW r \in OpenRows, r \in DOMAIN own'[p]
      PROVE  own'[p][r] >= 0
  <2>1. CASE s.op \in WritingOps /\ r \in DOMAIN s.by
    <3>1. own'[p][r] = Written(p)[r]
      BY <1>2, <2>1 DEF OwnAfter
    <3>2. QED
      BY <1>1, <2>1, <3>1, WrittenIsReturnable
  <2>2. CASE ~(s.op \in WritingOps /\ r \in DOMAIN s.by)
    <3>1. r \in DOMAIN own[p] /\ own'[p][r] = own[p][r]
      BY <1>2, <1>4, <1>5, <2>2 DEF OwnAfter
    <3>2. QED
      BY <3>1 DEF Returning
  <2>3. QED
    BY <2>1, <2>2
<1>6. ASSUME job[p].kind \in ReturnKinds
      PROVE  /\ pc'[p] <= 7 => c \notin DOMAIN own'[p]
             /\ pc'[p] \in 3..7 => db[c] >= job[p].qty
             /\ pc'[p] <= 2 => ReadsCommitted(job[p]) \/ view'[p] = NoView
  <2>1. /\ c \in OpenRows /\ Len(P) = 7 /\ P[1] = Lock(c)
        /\ \A n \in 1..6 : P[n].op \in WritingOps => DOMAIN P[n].by \cap OpenRows = {}
    BY <1>3, <1>6, StatementsOfAReturn
  <2>2. /\ pc[p] <= 7 => c \notin DOMAIN own[p]
        /\ pc[p] \in 3..7 => db[c] >= job[p].qty
        /\ pc[p] <= 2 => ReadsCommitted(job[p]) \/ view[p] = NoView
    BY <1>1, <1>6 DEF Returning
  <2>3. pc[p] \in 1..7
    BY <1>3, <2>1
  <2>4. ASSUME pc'[p] <= 7 PROVE c \notin DOMAIN own'[p]
    <3>1. pc[p] \in 1..6
      BY <1>2, <2>3, <2>4
    <3>2. s.op \in WritingOps => c \notin DOMAIN s.by
      BY <1>3, <2>1, <3>1
    <3>3. QED
      BY <1>4, <2>2, <3>1, <3>2
  <2>5. ASSUME pc'[p] \in 3..7 PROVE db[c] >= job[p].qty
    <3>1. pc[p] = 2 \/ pc[p] \in 3..7
      BY <1>2, <2>3, <2>5
    <3>2. QED
      BY <1>1, <1>6, <2>2, <3>1, ReturnsSeeTheLatest
  <2>6. ASSUME pc'[p] <= 2 PROVE ReadsCommitted(job[p]) \/ view'[p] = NoView
    <3>1. pc[p] = 1
      BY <1>2, <2>3, <2>6
    <3>2. s.op = "lock"
      BY <1>3, <2>1, <3>1 DEF Lock
    <3>3. ViewAfter(p) = view[p]
      BY <3>2 DEF ViewAfter, PlainReadOps
    <3>4. QED
      BY <1>2, <2>2, <3>1, <3>3
  <2>7. QED
    BY <2>4, <2>5, <2>6
<1>7. ASSUME NEW x \in Procs, Running(x)', job'[x].kind \in ReturnKinds
      PROVE  /\ pc'[x] <= 7 => Claimed(job'[x]) \notin DOMAIN own'[x]
             /\ pc'[x] \in 3..7 => db'[Claimed(job'[x])] >= job'[x].qty
             /\ pc'[x] <= 2 => ReadsCommitted(job'[x]) \/ view'[x] = NoView
  <2>1. CASE x = p
    BY <1>1, <1>6, <1>7, <2>1
  <2>2. CASE x # p
    BY <1>1, <1>2, <1>7, <2>2 DEF Returning, Running
  <2>3. QED
    BY <2>1, <2>2
<1>8. \A x \in Procs : \A r \in OpenRows : r \in DOMAIN own'[x] => own'[x][r] >= 0
  BY <1>2, <1>5 DEF Returning
<1>9. QED
  BY <1>1, <1>7, <1>8 DEF Returning

LEMMA EndKeepsReturning ==
    ASSUME Typing, Locking, Returning, NEW p \in Procs, End(p),
           db' = db \/ db' = [r \in Rows |-> Current(p, r)]
    PROVE  Returning'
<1>1. /\ \A x \in Procs : x # p => /\ job'[x] = job[x] /\ pc'[x] = pc[x]
                                   /\ own'[x] = own[x] /\ view'[x] = view[x]
      /\ job'[p] = NoJob /\ own'[p] = <<>>
  BY DEF End, Typing, TypeOK, Shape
<1>2. OpenRows \subseteq Rows
  BY DEF OpenRows, Rows
<1>3. \A r \in OpenRows : db'[r] >= 0
  BY <1>2 DEF Returning, Current
<1>4. \A x \in Procs : \A r \in OpenRows : r \in DOMAIN own'[x] => own'[x][r] >= 0
  BY <1>1, NothingIsSound DEF Returning
<1>5. ASSUME NEW x \in Procs, Running(x)', job'[x].kind \in ReturnKinds
      PROVE  /\ pc'[x] <= 7 => Claimed(job'[x]) \notin DOMAIN own'[x]
             /\ pc'[x] \in 3..7 => db'[Claimed(job'[x])] >= job'[x].qty
             /\ pc'[x] <= 2 => ReadsCommitted(job'[x]) \/ view'[x] = NoView
  <2>1. x # p /\ Running(x)
    BY <1>1, <1>5 DEF Running
  <2>2. /\ pc[x] <= 7 => Claimed(job[x]) \notin DOMAIN own[x]
        /\ pc[x] \in 3..7 => db[Claimed(job[x])] >= job[x].qty
        /\ pc[x] <= 2 => ReadsCommitted(job[x]) \/ view[x] = NoView
    BY <1>1, <1>5, <2>1 DEF Returning
  <2>3. ASSUME pc[x] \in 3..7
        PROVE  db'[Claimed(job[x])] = db[Claimed(job[x])]
    <3>1. job[x] \in Jobs /\ job[x].kind \in ReturnKinds
      BY <1>1, <1>5, <2>1 DEF Typing, TypeOK, Running
    <3>2. Claimed(job[x]) \in OpenRows /\ Programs[job[x]][1] = Lock(Claimed(job[x]))
      BY <3>1, StatementsOfAReturn
    <3>3. Claimed(job[x]) \in Locks(Programs[job[x]][1])
      BY <3>2, LocksOfStatements
    <3>4. 1 \in 1..(pc[x] - 1)
      BY <2>3
    <3>5. Claimed(job[x]) \in held[x]
      BY <2>1, <3>3, <3>4 DEF Locking
    <3>6. Claimed(job[x]) \notin DOMAIN own[p]
      BY <2>1, <3>5 DEF Locking, Typing, TypeOK
    <3>7. QED
      BY <1>2, <3>2, <3>6 DEF Current
  <2>4. QED
    BY <1>1, <2>1, <2>2, <2>3
<1>6. QED
  BY <1>3, <1>4, <1>5 DEF Returning

LEMMA NextKeepsReturning ==
    ASSUME OnlyLateViews, Typing, Locking, Returning, [Next]_vars
    PROVE  Returning'
<1>1. CASE UNCHANGED vars
  BY <1>1 DEF vars, Returning, Running
<1>2. ASSUME NEW p \in Procs, Begin(p) PROVE Returning'
  BY <1>2, BeginKeepsReturning
<1>3. ASSUME NEW p \in Procs, Execute(p) PROVE Returning'
  BY <1>3, ExecuteKeepsReturning
<1>4. ASSUME NEW p \in Procs, Commit(p) PROVE Returning'
  BY <1>4, EndKeepsReturning DEF Commit
<1>5. ASSUME NEW p \in Procs, Throw(p) \/ RollBackVictim(p) \/ Abort(p) PROVE Returning'
  BY <1>5, EndKeepsReturning DEF Throw, RollBackVictim, Abort
<1>6. QED
  BY <1>1, <1>2, <1>3, <1>4, <1>5 DEF Next

\* Whatever else happens to the lot meanwhile, and however many of its parts
\* are returned at once, recipients never hand back more than a delivery
\* document gave them (ReturnedWithinDelivered).
THEOREM ReturnsStayWithinDelivery ==
    ASSUME OnlyLateViews
    PROVE  Spec => []ReturnedWithinDelivered
<1>1. Returning => ReturnedWithinDelivered
  BY DEF Returning, ReturnedWithinDelivered, OpenRows
<1> DEFINE Inductive == Typing /\ Locking /\ Returning
<1>2. Init => Inductive
  BY TypingStarts, LockingStarts, ReturningStarts
<1>3. Inductive /\ [Next]_vars => Inductive'
  BY NextKeepsTyping, NextKeepsLocking, NextKeepsReturning
<1>4. Inductive => ReturnedWithinDelivered
  BY <1>1
<1> HIDE DEF Inductive
<1>5. QED
  BY <1>2, <1>3, <1>4, PTL DEF Spec

=============================================================================
