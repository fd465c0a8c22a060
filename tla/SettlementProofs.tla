--------------------------- MODULE SettlementProofs ---------------------------
(***************************************************************************)
(* Theorems about what a trade is made of and what it leaves behind, for   *)
(* any accounts, orders, rates, rounds and integer widths.  A trade        *)
(* executed write by write on a working copy publishes what Trading does   *)
(* in one step, or nothing, and everything proved about Trading holds of   *)
(* it.  The fees it sets aside for the governance contract are backed, and *)
(* orders cost those who signed them no more than they say.                *)
(***************************************************************************)
EXTENDS Settlement, OrderHistory, FeeHistory, TradingProofs

(* The writes of a trade, numbered from 1 to 10: two fills, six bookings,  *)
(* two bookings that also set a fee aside.  The last four are skipped when *)
(* their amount is zero.  A plan p holds what they are computed from.      *)

WriteNo(p, i) ==
  IF i = 1 THEN Fill(p.maker, p.start.filled[p.maker] + p.amount)
  ELSE IF i = 2 THEN Fill(p.taker, p.start.filled[p.taker] + p.amount)
  ELSE IF i <= 8 THEN Move(p.entries[i - 2])
  ELSE SetAside(p.entries[i - 2])

Due(p, i) == i <= 6 \/ p.entries[i - 2].amount > 0

\* rest[k] is the list of the writes from the one after k on.
Remaining(p, rest) ==
  /\ rest[10] = <<>>
  /\ \A k \in 0..9 :
       IF Due(p, k + 1)
       THEN rest[k] # <<>> /\ Head(rest[k]) = WriteNo(p, k + 1) /\ Tail(rest[k]) = rest[k + 1]
       ELSE rest[k] = rest[k + 1]

\* Taking the first element off a list takes it off any longer one.
LEMMA HeadTailConcat ==
  ASSUME NEW S, NEW s \in Seq(S), NEW t \in Seq(S), s # <<>>
  PROVE  s \o t # <<>> /\ Head(s \o t) = Head(s) /\ Tail(s \o t) = Tail(s) \o t
<1>1. /\ s \o t \in Seq(S)
      /\ Len(s \o t) = Len(s) + Len(t)
      /\ \A i \in 1..(Len(s) + Len(t)) :
           (s \o t)[i] = IF i <= Len(s) THEN s[i] ELSE t[i - Len(s)]
  BY ConcatProperties
<1>2. Len(s) \in Nat \ {0} /\ Len(t) \in Nat
  OBVIOUS
<1>3. s \o t # <<>> /\ Head(s \o t) = Head(s)
  BY <1>1, <1>2
<1>4. /\ Tail(s) \in Seq(S) /\ Len(Tail(s)) = Len(s) - 1
      /\ \A i \in 1..Len(Tail(s)) : Tail(s)[i] = s[i + 1]
      /\ Tail(s \o t) \in Seq(S) /\ Len(Tail(s \o t)) = Len(s \o t) - 1
      /\ \A i \in 1..Len(Tail(s \o t)) : Tail(s \o t)[i] = (s \o t)[i + 1]
  BY <1>1, <1>3, HeadTailProperties
<1>5. /\ Tail(s) \o t \in Seq(S)
      /\ Len(Tail(s) \o t) = Len(Tail(s)) + Len(t)
      /\ \A i \in 1..(Len(Tail(s)) + Len(t)) :
           (Tail(s) \o t)[i] = IF i <= Len(Tail(s)) THEN Tail(s)[i] ELSE t[i - Len(Tail(s))]
  BY <1>4, ConcatProperties
<1>6. Len(Tail(s \o t)) = Len(Tail(s) \o t)
  BY <1>1, <1>2, <1>4, <1>5
<1>7. ASSUME NEW i \in 1..Len(Tail(s \o t)) PROVE Tail(s \o t)[i] = (Tail(s) \o t)[i]
  <2>1. Tail(s \o t)[i] = IF i + 1 <= Len(s) THEN s[i + 1] ELSE t[(i + 1) - Len(s)]
    BY <1>1, <1>2, <1>4
  <2>2. (Tail(s) \o t)[i] = IF i <= Len(s) - 1 THEN s[i + 1] ELSE t[i - (Len(s) - 1)]
    BY <1>2, <1>4, <1>5, <1>6
  <2>3. i + 1 <= Len(s) <=> i <= Len(s) - 1
    BY <1>2
  <2>4. (i + 1) - Len(s) = i - (Len(s) - 1)
    BY <1>2
  <2> QED
    BY <2>1, <2>2, <2>3, <2>4
<1>8. Tail(s \o t) = Tail(s) \o t
  BY <1>4, <1>5, <1>6, <1>7, SeqEqual
<1> QED
  BY <1>3, <1>8

\* A list that starts with one element.
LEMMA OneAhead ==
  ASSUME NEW S, NEW w \in S, NEW t \in Seq(S)
  PROVE  <<w>> \o t # <<>> /\ Head(<<w>> \o t) = w /\ Tail(<<w>> \o t) = t
<1>1. <<w>> \in Seq(S) /\ <<w>> # <<>> /\ Head(<<w>>) = w /\ Tail(<<w>>) = <<>>
  OBVIOUS
<1>2. <<>> \o t = t
  BY ConcatEmptySeq
<1> QED
  BY <1>1, <1>2, HeadTailConcat

\* A list that starts with six.
LEMMA SixAhead ==
  ASSUME NEW S, NEW a \in S, NEW b \in S, NEW c \in S, NEW d \in S, NEW e \in S, NEW f \in S
  PROVE  /\ Tail(<<a, b, c, d, e, f>>) = <<b, c, d, e, f>>
         /\ Tail(<<b, c, d, e, f>>) = <<c, d, e, f>>
         /\ Tail(<<c, d, e, f>>) = <<d, e, f>>
         /\ Tail(<<d, e, f>>) = <<e, f>>
         /\ Tail(<<e, f>>) = <<f>>
<1> QED
  OBVIOUS
-----------------------------------------------------------------------------
(* The plan of a trade that passed its checks, and how far it is.  Nothing *)
(* else runs while a trade is under way, so the plan stays what it was.    *)

Settled(sp, entry) == [sp EXCEPT ![entry.asset] = Accrue(@, entry.amount)]

PlanOK(p) ==
  /\ p.maker \in Orders /\ p.taker \in Orders /\ p.relay \in Accounts /\ p.amount \in Uint64
  /\ p.relay \in Signers /\ isRelay(p.relay)
  /\ verify(p.maker, p.taker)
  /\ MatchOrder(p.maker, p.taker, p.amount)
  /\ p.start = Published
  /\ p.clear = countFee(p.maker, p.taker, p.amount)
  /\ p.entries = Entries(p.maker, p.taker, p.clear)
  /\ p.books[0] = balance
  /\ \A i \in 1..8 : p.books[i] = Book(p.books[i - 1], p.entries[i])
  /\ p.aside = Settled(spProfit, p.entries[7])
  /\ p.final = Settled(p.aside, p.entries[8])

\* Bookings among the first j writes.
Booked(j) == IF j <= 2 THEN 0 ELSE j - 2

OneFilled(p) == [p.start.filled EXCEPT ![p.maker] = p.start.filled[p.maker] + p.amount]
BothSides(p) == [OneFilled(p) EXCEPT ![p.taker] = p.start.filled[p.taker] + p.amount]

\* The working copy after the first j writes.
CopyAt(p, j) ==
  [book   |-> p.books[Booked(j)],
   profit |-> IF j <= 8 THEN p.start.profit ELSE IF j = 9 THEN p.aside ELSE p.final,
   stored |-> p.start.stored \cup {p.maker, p.taker},
   owned  |-> IF j = 0 THEN p.start.owned
              ELSE IF j = 1 THEN p.start.owned \cup {p.maker}
              ELSE p.start.owned \cup {p.maker, p.taker},
   filled |-> IF j = 0 THEN p.start.filled ELSE IF j = 1 THEN OneFilled(p) ELSE BothSides(p)]

\* The first n bookings went through.
BooksOK(p, n) ==
  /\ \A i \in 0..n : p.books[i] \in [Assets -> Books]
  /\ \A i \in 1..n : BookOK(p.books[i - 1], p.entries[i])

Reached(p, rest, j, tx) ==
  /\ tx = [stage |-> "settle", copy |-> CopyAt(p, j), left |-> rest[j]]
  /\ BooksOK(p, Booked(j))

\* The transaction under way.
Verifying ==
  \E maker, taker \in Orders, relay \in Accounts, amount \in Uint64 :
    /\ relay \in Signers /\ isRelay(relay)
    /\ txn = [stage |-> "verify", copy |-> Published,
              maker |-> maker, taker |-> taker, amount |-> amount]

Settling ==
  \E p, rest : PlanOK(p) /\ Remaining(p, rest) /\ \E j \in 0..10 : Reached(p, rest, j, txn)

TxnOK == txn = Idle \/ Verifying \/ Settling

SettlementInv == TradingTypeOK /\ RecordsAreReal /\ TxnOK

\* A plan's entries and what it started from are well typed.
LEMMA PlanTyped ==
  ASSUME TradingTypeOK, NEW p, PlanOK(p)
  PROVE  /\ ClearOK(p.clear)
         /\ Len(p.entries) = 8 /\ \A i \in 1..8 : p.entries[i] \in Entry
         /\ p.entries[7] = TakerSys(p.clear) /\ p.entries[8] = MakerSys(p.clear)
         /\ p.maker # p.taker
         /\ p.start.profit = spProfit
         /\ p.start.filled \in [Orders -> Uint64]
         /\ \A order \in Orders : p.start.filled[order] = orderState[order].Filled
<1>1. ClearOK(p.clear)
  BY ClearTyped DEF TradingTypeOK, PlanOK
<1>2. /\ Len(p.entries) = 8 /\ \A i \in 1..8 : p.entries[i] \in Entry
      /\ p.entries[7] = TakerSys(p.clear) /\ p.entries[8] = MakerSys(p.clear)
  BY <1>1, BookingList DEF PlanOK
<1>3. p.maker # p.taker
  BY DEF PlanOK, verify
<1>4. p.start = Published
  BY DEF PlanOK
<1>5. /\ p.start.profit = spProfit
      /\ p.start.filled = [order \in Orders |-> orderState[order].Filled]
  BY <1>4 DEF Published
<1>6. \A order \in Orders : orderState[order].Filled \in Uint64
  BY DEF TradingTypeOK, OrdersTypeOK, OrderState
<1> QED
  BY <1>1, <1>2, <1>3, <1>5, <1>6

\* A zero booking leaves the book and the fee records alone.
LEMMA ZeroBooking ==
  ASSUME NEW book \in [Assets -> Books], NEW entry \in Entry, entry.amount = 0
  PROVE  BookOK(book, entry) /\ Book(book, entry) = book
<1> DEFINE column == book[entry.asset]
<1>1. /\ entry.asset \in Assets /\ entry.acc \in Accounts
      /\ column \in Books /\ column[entry.acc] \in Uint64
      /\ column[entry.acc] \in Int /\ column[entry.acc] <= MaxUint64 /\ column[entry.acc] >= 0
  BY WidthAssumption DEF Entry, Books, Uint64
<1>2. BookOK(book, entry)
  BY <1>1 DEF BookOK, BalanceAddOK, BalanceSubOK
<1>3. /\ BalanceAdd(column, entry.acc, entry.amount) = column
      /\ BalanceSub(column, entry.acc, entry.amount) = column
  <2>1. column[entry.acc] + 0 = column[entry.acc] /\ column[entry.acc] - 0 = column[entry.acc]
    BY <1>1
  <2>2. [column EXCEPT ![entry.acc] = column[entry.acc]] = column
    BY <1>1 DEF Books
  <2> HIDE DEF column
  <2> QED
    BY <2>1, <2>2 DEF BalanceAdd, BalanceSub
<1>4. Book(book, entry) = [book EXCEPT ![entry.asset] = column]
  BY <1>3 DEF Book
<1> QED
  BY <1>1, <1>2, <1>4

\* Setting nothing aside leaves the records alone.
LEMMA ZeroSettled ==
  ASSUME NEW S, NEW sp \in [Assets -> S], NEW entry \in Entry, entry.amount = 0
  PROVE  Settled(sp, entry) = sp
BY DEF Settled, Accrue, Entry

\* One more booking went through.
LEMMA BooksNext ==
  ASSUME TradingTypeOK, NEW p, PlanOK(p), NEW n \in 0..7, BooksOK(p, n),
         BookOK(p.books[n], p.entries[n + 1])
  PROVE  BooksOK(p, n + 1) /\ p.books[n + 1] = Book(p.books[n], p.entries[n + 1])
<1>1. p.entries[n + 1] \in Entry /\ p.books[n] \in [Assets -> Books]
  <2>1. n + 1 \in 1..8 /\ n \in 0..n
    OBVIOUS
  <2> QED
    BY <2>1, PlanTyped DEF BooksOK
<1>2. p.books[n + 1] = Book(p.books[n], p.entries[n + 1])
  <2>1. n + 1 \in 1..8 /\ (n + 1) - 1 = n
    OBVIOUS
  <2>2. \A i \in 1..8 : p.books[i] = Book(p.books[i - 1], p.entries[i])
    BY DEF PlanOK
  <2> QED
    BY <2>1, <2>2
<1>3. p.books[n + 1] \in [Assets -> Books]
  BY <1>1, <1>2, BookEffect
<1>4. \A i \in 0..(n + 1) : i \in 0..n \/ i = n + 1
  OBVIOUS
<1>5. \A i \in 1..(n + 1) : i \in 1..n \/ (i = n + 1 /\ i - 1 = n)
  OBVIOUS
<1> QED
  BY <1>2, <1>3, <1>4, <1>5 DEF BooksOK

\* What a write does to a copy, field by field.
Copy(book, profit, kept, named, counts) ==
  [book |-> book, profit |-> profit, stored |-> kept, owned |-> named, filled |-> counts]

Entered(copy, book, profit) == [copy EXCEPT !.book = book, !.profit = profit]
Increased(counts, order, n) == [counts EXCEPT ![order] = n]

\* A fill changes a count and names the order's user.
LEMMA FillEffect ==
  ASSUME NEW book, NEW profit, NEW kept, NEW named, NEW counts, NEW order, NEW n
  PROVE  Filled(Copy(book, profit, kept, named, counts), Fill(order, n))
           = Copy(book, profit, kept, named \cup {order}, Increased(counts, order, n))
<1> DEFINE copy == Copy(book, profit, kept, named, counts)
           both == Increased(counts, order, n)
           more == named \cup {order}
<1>1. Fill(order, n).order = order /\ Fill(order, n).filled = n
  BY DEF Fill
<1>2. Filled(copy, Fill(order, n)) = [copy EXCEPT !.filled = both, !.owned = more]
  BY <1>1 DEF Filled, Copy, Increased
<1> HIDE DEF both, more
<1> DEFINE one == [copy EXCEPT !.filled = both]
<1>3. one = Copy(book, profit, kept, named, both)
  BY DEF Copy
<1>4. [copy EXCEPT !.filled = both, !.owned = more] = [one EXCEPT !.owned = more]
  OBVIOUS
<1> HIDE DEF one
<1>5. [one EXCEPT !.owned = more] = Copy(book, profit, kept, more, both)
  BY <1>3 DEF Copy
<1> QED
  BY <1>2, <1>4, <1>5 DEF both, more

\* A booking that sets a fee aside changes the book and the fee records.
LEMMA EnterEffect ==
  ASSUME NEW book, NEW profit, NEW kept, NEW named, NEW counts, NEW after, NEW aside
  PROVE  Entered(Copy(book, profit, kept, named, counts), after, aside)
           = Copy(after, aside, kept, named, counts)
<1> DEFINE copy == Copy(book, profit, kept, named, counts)
           one == [copy EXCEPT !.book = after]
<1>1. one = Copy(after, profit, kept, named, counts)
  BY DEF Copy
<1>2. Entered(copy, after, aside) = [one EXCEPT !.profit = aside]
  BY DEF Entered
<1> HIDE DEF one
<1>3. [one EXCEPT !.profit = aside] = Copy(after, aside, kept, named, counts)
  BY <1>1 DEF Copy
<1> QED
  BY <1>2, <1>3

\* The two fills, in their place in the plan.
LEMMA CopyFilled ==
  ASSUME NEW p, NEW j \in {0, 1}
  PROVE  Filled(CopyAt(p, j), WriteNo(p, j + 1)) = CopyAt(p, j + 1)
<1> DEFINE C(named, counts) ==
             Copy(p.books[0], p.start.profit, p.start.stored \cup {p.maker, p.taker},
                  named, counts)
           one == p.start.owned \cup {p.maker}
           both == p.start.owned \cup {p.maker, p.taker}
<1>1. one \cup {p.taker} = both
  OBVIOUS
<1>2. /\ CopyAt(p, 0) = C(p.start.owned, p.start.filled)
      /\ CopyAt(p, 1) = C(one, OneFilled(p))
      /\ CopyAt(p, 2) = C(both, BothSides(p))
  BY DEF CopyAt, Copy, Booked
<1>3. /\ WriteNo(p, 1) = Fill(p.maker, p.start.filled[p.maker] + p.amount)
      /\ WriteNo(p, 2) = Fill(p.taker, p.start.filled[p.taker] + p.amount)
  BY DEF WriteNo
<1>4. ASSUME NEW order, NEW n, NEW named, NEW counts
      PROVE  Filled(C(named, counts), Fill(order, n))
               = C(named \cup {order}, Increased(counts, order, n))
  BY FillEffect
<1> HIDE DEF C, one, both
<1>5. Filled(CopyAt(p, 0), WriteNo(p, 1)) = CopyAt(p, 1)
  BY <1>2, <1>3, <1>4 DEF one, OneFilled, Increased
<1>6. Filled(CopyAt(p, 1), WriteNo(p, 2)) = CopyAt(p, 2)
  BY <1>1, <1>2, <1>3, <1>4 DEF BothSides, Increased
<1> QED
  BY <1>5, <1>6

\* The write that comes next, done.
LEMMA WriteDone ==
  ASSUME TradingTypeOK, NEW p, PlanOK(p), NEW j \in 0..9, BooksOK(p, Booked(j)),
         WriteOK(CopyAt(p, j), WriteNo(p, j + 1))
  PROVE  /\ Written(CopyAt(p, j), WriteNo(p, j + 1)) = CopyAt(p, j + 1)
         /\ BooksOK(p, Booked(j + 1))
<1> DEFINE copy == CopyAt(p, j)
           write == WriteNo(p, j + 1)
           entry == p.entries[j - 1]
<1>1. CASE j \in {0, 1}
  <2>1. write.kind = "fill"
    BY <1>1 DEF WriteNo, Fill
  <2>2. Written(copy, write) = Filled(copy, write)
    BY <2>1 DEF Written
  <2>3. Booked(j + 1) = Booked(j)
    BY <1>1 DEF Booked
  <2> QED
    BY <1>1, <2>2, <2>3, CopyFilled
<1>2. CASE j \in 2..9
  <2>1. /\ Booked(j) = j - 2 /\ Booked(j + 1) = j - 1 /\ (j - 2) + 1 = j - 1
        /\ j - 2 \in 0..7 /\ (j + 1) - 2 = j - 1
    BY <1>2 DEF Booked
  <2>2. copy.book = p.books[j - 2]
    BY <2>1 DEF CopyAt
  <2>3. /\ j <= 7 => write = Move(entry)
        /\ j > 7 => write = SetAside(entry)
    BY <1>2, <2>1 DEF WriteNo
  <2>4. write.entry = entry /\ write.kind # "fill"
    BY <2>3 DEF Move, SetAside
  <2>5. BookOK(p.books[j - 2], entry)
    BY <2>2, <2>4 DEF WriteOK
  <2>6. BooksOK(p, j - 1) /\ p.books[j - 1] = Book(p.books[j - 2], entry)
    <3> DEFINE n == j - 2
    <3>1. n \in 0..7 /\ n + 1 = j - 1 /\ Booked(j) = n
      BY <2>1
    <3>2. BooksOK(p, n) /\ BookOK(p.books[n], p.entries[n + 1])
      BY <2>5, <3>1
    <3> HIDE DEF n
    <3>3. BooksOK(p, n + 1) /\ p.books[n + 1] = Book(p.books[n], p.entries[n + 1])
      BY <3>1, <3>2, BooksNext
    <3> QED
      BY <3>1, <3>3 DEF n
  <2>7. CASE j <= 7
    <3>1. Written(copy, write) = [copy EXCEPT !.book = p.books[j - 1]]
      BY <2>2, <2>3, <2>4, <2>6, <2>7 DEF Written, Move
    <3>2. [copy EXCEPT !.book = p.books[j - 1]] = CopyAt(p, j + 1)
      BY <1>2, <2>1, <2>7 DEF CopyAt
    <3> QED
      BY <2>1, <2>6, <3>1, <3>2
  <2>8. CASE j > 7
    <3>1. Written(copy, write) =
            Entered(copy, p.books[j - 1], Settled(copy.profit, entry))
      <4>1. write.kind = "aside"
        BY <2>3, <2>8 DEF SetAside
      <4>2. Written(copy, write) =
              [copy EXCEPT !.book = Book(@, entry),
                           !.profit[entry.asset] = Accrue(@, entry.amount)]
        BY <2>4, <4>1 DEF Written
      <4> QED
        BY <2>2, <2>6, <4>2 DEF Settled, Entered
    <3>2. /\ j = 8 => copy.profit = p.start.profit /\ p.aside = Settled(copy.profit, entry)
          /\ j = 9 => copy.profit = p.aside /\ p.final = Settled(copy.profit, entry)
      <4>1. p.start.profit = spProfit
        BY PlanTyped
      <4>2. /\ p.aside = Settled(spProfit, p.entries[7])
            /\ p.final = Settled(p.aside, p.entries[8])
        BY DEF PlanOK
      <4> QED
        BY <4>1, <4>2 DEF CopyAt
    <3>3. j = 8 \/ j = 9
      BY <1>2, <2>8
    <3>4. Entered(copy, p.books[j - 1], Settled(copy.profit, entry))
            = CopyAt(p, j + 1)
      <4> DEFINE kept == p.start.stored \cup {p.maker, p.taker}
                 named == p.start.owned \cup {p.maker, p.taker}
                 aside == Settled(copy.profit, entry)
      <4>1. copy = Copy(p.books[j - 2], copy.profit, kept, named, BothSides(p))
        BY <2>1, <3>3 DEF CopyAt, Copy
      <4>2. CopyAt(p, j + 1) = Copy(p.books[j - 1], aside, kept, named, BothSides(p))
        <5>1. (IF j + 1 <= 8 THEN p.start.profit ELSE IF j + 1 = 9 THEN p.aside ELSE p.final)
                = aside
          BY <3>2, <3>3
        <5>2. j + 1 # 0 /\ j + 1 # 1
          BY <3>3
        <5> HIDE DEF copy, entry, aside, kept, named
        <5> QED
          BY <2>1, <5>1, <5>2 DEF CopyAt, Copy, kept, named
      <4> HIDE DEF copy, entry, aside, kept, named
      <4>3. Entered(copy, p.books[j - 1], aside)
              = Copy(p.books[j - 1], aside, kept, named, BothSides(p))
        BY <4>1, EnterEffect
      <4> QED
        BY <4>2, <4>3 DEF aside
    <3> QED
      BY <2>1, <2>6, <3>1, <3>4
  <2> QED
    BY <1>2, <2>7, <2>8
<1> QED
  BY <1>1, <1>2

\* A fee of zero is skipped, and it makes no difference.
LEMMA SkippedFee ==
  ASSUME TradingTypeOK, NEW p, PlanOK(p), NEW j \in 0..9, BooksOK(p, Booked(j)), ~Due(p, j + 1)
  PROVE  CopyAt(p, j + 1) = CopyAt(p, j) /\ BooksOK(p, Booked(j + 1))
<1> DEFINE entry == p.entries[j - 1]
<1>1. j \in 6..9 /\ ~(entry.amount > 0)
  <2>1. (j + 1) - 2 = j - 1
    OBVIOUS
  <2> QED
    BY <2>1 DEF Due
<1>2. /\ Booked(j) = j - 2 /\ Booked(j + 1) = j - 1 /\ (j - 2) + 1 = j - 1
      /\ j - 2 \in 0..7
  BY <1>1 DEF Booked
<1>3. entry \in Entry /\ entry.amount = 0
  <2>1. j - 1 \in 1..8
    BY <1>1
  <2>2. entry \in Entry
    BY <2>1, PlanTyped
  <2>3. entry.amount \in Nat
    BY <2>2, WidthAssumption DEF Entry, Uint64
  <2> QED
    BY <1>1, <2>2, <2>3
<1>4. BooksOK(p, j - 1) /\ p.books[j - 1] = p.books[j - 2]
  <2> DEFINE n == j - 2
  <2>1. n \in 0..7 /\ n + 1 = j - 1 /\ Booked(j) = n
    BY <1>2
  <2>2. p.books[n] \in [Assets -> Books]
    BY <2>1 DEF BooksOK
  <2>3. BookOK(p.books[n], entry) /\ Book(p.books[n], entry) = p.books[n]
    BY <1>3, <2>2, ZeroBooking
  <2> HIDE DEF n
  <2>4. BooksOK(p, n + 1) /\ p.books[n + 1] = Book(p.books[n], p.entries[n + 1])
    BY <2>1, <2>3, BooksNext
  <2> QED
    BY <2>1, <2>3, <2>4 DEF n
<1>5. /\ j = 8 => p.aside = p.start.profit
      /\ j = 9 => p.final = p.aside
  <2>1. /\ p.start.profit = spProfit
        /\ p.aside = Settled(spProfit, p.entries[7])
        /\ p.final = Settled(p.aside, p.entries[8])
    BY PlanTyped DEF PlanOK
  <2>2. spProfit \in [Assets -> SpProfit]
    BY DEF TradingTypeOK, RoundsTypeOK
  <2>3. p.aside \in [Assets -> SpProfit]
    <3>1. p.entries[7] \in Entry
      BY PlanTyped
    <3>2. /\ p.entries[7].asset \in Assets /\ p.entries[7].amount \in Uint64
          /\ spProfit[p.entries[7].asset] \in SpProfit
      BY <2>2, <3>1 DEF Entry
    <3>3. Accrue(spProfit[p.entries[7].asset], p.entries[7].amount) \in SpProfit
      BY <3>2, AccrueTyped DEF TradingTypeOK
    <3> QED
      BY <2>1, <2>2, <3>2, <3>3 DEF Settled
  <2>4. CASE j = 8
    BY <1>3, <2>1, <2>2, <2>4, ZeroSettled
  <2>5. CASE j = 9
    BY <1>3, <2>1, <2>3, <2>5, ZeroSettled
  <2> QED
    BY <2>4, <2>5
<1>6. CopyAt(p, j + 1) = CopyAt(p, j)
  <2>1. p.books[Booked(j + 1)] = p.books[Booked(j)]
    BY <1>2, <1>4
  <2>2. (IF j + 1 <= 8 THEN p.start.profit ELSE IF j + 1 = 9 THEN p.aside ELSE p.final)
          = (IF j <= 8 THEN p.start.profit ELSE IF j = 9 THEN p.aside ELSE p.final)
    BY <1>1, <1>5
  <2>3. j # 0 /\ j # 1 /\ j + 1 # 0 /\ j + 1 # 1
    BY <1>1
  <2> QED
    BY <2>1, <2>2, <2>3 DEF CopyAt
<1> QED
  BY <1>2, <1>4, <1>6

\* Whatever was done so far, either a write that is due comes next or all
\* of them are done.
LEMMA NextDue ==
  ASSUME TradingTypeOK, NEW p, NEW rest, NEW tx, PlanOK(p), Remaining(p, rest),
         NEW j \in 0..10, Reached(p, rest, j, tx)
  PROVE  \/ \E k \in 0..9 : Reached(p, rest, k, tx) /\ Due(p, k + 1)
         \/ Reached(p, rest, 10, tx)
<1> DEFINE At(k) == Reached(p, rest, k, tx)
           Found == (\E k \in 0..9 : At(k) /\ Due(p, k + 1)) \/ At(10)
<1>1. ASSUME NEW k \in 0..9, At(k) PROVE Found \/ At(k + 1)
  <2>1. CASE Due(p, k + 1)
    BY <1>1, <2>1
  <2>2. CASE ~Due(p, k + 1)
    <3>1. CopyAt(p, k + 1) = CopyAt(p, k) /\ BooksOK(p, Booked(k + 1))
      BY <1>1, <2>2, SkippedFee DEF Reached
    <3>2. rest[k] = rest[k + 1]
      BY <2>2 DEF Remaining
    <3> QED
      BY <1>1, <3>1, <3>2 DEF Reached
  <2> QED
    BY <2>1, <2>2
<1> HIDE DEF At, Found
<1>2. /\ (At(0) => Found \/ At(1)) /\ (At(1) => Found \/ At(2))
      /\ (At(2) => Found \/ At(3)) /\ (At(3) => Found \/ At(4))
      /\ (At(4) => Found \/ At(5)) /\ (At(5) => Found \/ At(6))
      /\ (At(6) => Found \/ At(7)) /\ (At(7) => Found \/ At(8))
      /\ (At(8) => Found \/ At(9)) /\ (At(9) => Found \/ At(10))
  <2>1. \A k \in 0..9 : At(k) => Found \/ At(k + 1)
    BY <1>1
  <2> QED
    BY <2>1
<1>3. At(10) => Found
  BY DEF Found
<1>4. At(j)
  BY DEF At
<1>5. Found
  <2>1. j \in {0, 1, 2, 3, 4, 5, 6, 7, 8, 9, 10}
    OBVIOUS
  <2> QED
    BY <1>2, <1>3, <1>4, <2>1
<1> QED
  BY <1>5 DEF Found, At

\* A write takes the transaction one further.
LEMMA WriteAdvances ==
  ASSUME TradingTypeOK, Settling, Write
  PROVE  \E p, rest : /\ PlanOK(p) /\ Remaining(p, rest)
                      /\ \E j \in 0..10 : Reached(p, rest, j, txn')
<1>1. PICK p, rest : /\ PlanOK(p) /\ Remaining(p, rest)
                     /\ \E j \in 0..10 : Reached(p, rest, j, txn)
  BY DEF Settling
<1>2. /\ txn.left # <<>> /\ WriteOK(txn.copy, Head(txn.left))
      /\ txn' = [txn EXCEPT !.copy = Written(@, Head(txn.left)), !.left = Tail(@)]
  BY DEF Write
<1>3. ~Reached(p, rest, 10, txn)
  BY <1>1, <1>2 DEF Reached, Remaining
<1>4. PICK k \in 0..9 : Reached(p, rest, k, txn) /\ Due(p, k + 1)
  BY <1>1, <1>3, NextDue
<1>5. /\ txn = [stage |-> "settle", copy |-> CopyAt(p, k), left |-> rest[k]]
      /\ BooksOK(p, Booked(k))
      /\ Head(rest[k]) = WriteNo(p, k + 1) /\ Tail(rest[k]) = rest[k + 1]
  BY <1>1, <1>4 DEF Reached, Remaining
<1>6. WriteOK(CopyAt(p, k), WriteNo(p, k + 1))
  BY <1>2, <1>5
<1>7. /\ Written(CopyAt(p, k), WriteNo(p, k + 1)) = CopyAt(p, k + 1)
      /\ BooksOK(p, Booked(k + 1))
  BY <1>1, <1>5, <1>6, WriteDone
<1>8. txn' = [stage |-> "settle", copy |-> CopyAt(p, k + 1), left |-> rest[k + 1]]
  BY <1>2, <1>5, <1>7
<1>9. Reached(p, rest, k + 1, txn') /\ k + 1 \in 0..10
  BY <1>7, <1>8 DEF Reached
<1> QED
  BY <1>1, <1>9
-----------------------------------------------------------------------------
(* A trade that passed its checks has a plan.                              *)

Opt(p, i) == IF Due(p, i) THEN <<WriteNo(p, i)>> ELSE <<>>

\* rest is what is left of a list whose k-th write may be skipped.
After(p, k, list, rest) ==
  IF Due(p, k) THEN list # <<>> /\ Head(list) = WriteNo(p, k) /\ Tail(list) = rest
               ELSE list = rest

SixWrites(p) ==
  <<WriteNo(p, 1), WriteNo(p, 2), WriteNo(p, 3), WriteNo(p, 4), WriteNo(p, 5), WriteNo(p, 6)>>

WriteList(p) == SixWrites(p) \o Opt(p, 7) \o Opt(p, 8) \o Opt(p, 9) \o Opt(p, 10)

\* A write that may be skipped, put before a list.
LEMMA OptAhead ==
  ASSUME NEW p, NEW k, NEW S, WriteNo(p, k) \in S, NEW t \in Seq(S)
  PROVE  /\ Opt(p, k) \in Seq(S)
         /\ Opt(p, k) \o t \in Seq(S)
         /\ After(p, k, Opt(p, k) \o t, t)
<1>1. CASE Due(p, k)
  <2>1. Opt(p, k) = <<WriteNo(p, k)>>
    BY <1>1 DEF Opt
  <2>2. <<WriteNo(p, k)>> \in Seq(S)
    OBVIOUS
  <2> QED
    BY <1>1, <2>1, <2>2, OneAhead, ConcatProperties DEF After
<1>2. CASE ~Due(p, k)
  <2>1. Opt(p, k) = <<>> /\ <<>> \in Seq(S)
    BY <1>2 DEF Opt
  <2>2. <<>> \o t = t
    BY ConcatEmptySeq
  <2> QED
    BY <1>2, <2>1, <2>2 DEF After
<1> QED
  BY <1>1, <1>2

Join(x, y) == x \o y

Joinable(Q) ==
  \A x, y, z \in Q : Join(Join(x, y), z) = Join(x, Join(y, z)) /\ Join(x, y) \in Q
Regrouped(s, a, b, c, d) ==
  Join(Join(Join(Join(s, a), b), c), d) = Join(s, Join(a, Join(b, Join(c, d))))

\* Appending lists is associative.
LEMMA ListsJoin ==
  ASSUME NEW S
  PROVE  Joinable(Seq(S))
BY ConcatAssociative, ConcatProperties DEF Join, Joinable

\* Five lists in a row, appended from the left or from the right.
LEMMA FiveInARow ==
  ASSUME NEW Q, Joinable(Q), NEW s \in Q, NEW a \in Q, NEW b \in Q, NEW c \in Q, NEW d \in Q
  PROVE  Regrouped(s, a, b, c, d)
BY DEF Joinable, Regrouped

\* The list of all writes, and what is left of it after each.
LEMMA ListUnrolls ==
  ASSUME NEW p
  PROVE  \E rest : Remaining(p, rest) /\ rest[0] = WriteList(p)
<1> DEFINE w(i) == WriteNo(p, i)
           S == {w(i) : i \in 1..10}
<1>1. /\ w(1) \in S /\ w(2) \in S /\ w(3) \in S /\ w(4) \in S /\ w(5) \in S
      /\ w(6) \in S /\ w(7) \in S /\ w(8) \in S /\ w(9) \in S /\ w(10) \in S
  OBVIOUS
<1> HIDE DEF w, S
<1> DEFINE t9 == Opt(p, 10) \o <<>>
           t8 == Opt(p, 9) \o t9
           t7 == Opt(p, 8) \o t8
           t6 == Opt(p, 7) \o t7
<1>2. t9 \in Seq(S) /\ After(p, 10, t9, <<>>) /\ Opt(p, 10) \in Seq(S)
  <2>1. <<>> \in Seq(S)
    OBVIOUS
  <2> QED
    BY <1>1, <2>1, OptAhead DEF w
<1> HIDE DEF t9
<1>3. t8 \in Seq(S) /\ After(p, 9, t8, t9) /\ Opt(p, 9) \in Seq(S)
  BY <1>1, <1>2, OptAhead DEF w
<1> HIDE DEF t8
<1>4. t7 \in Seq(S) /\ After(p, 8, t7, t8) /\ Opt(p, 8) \in Seq(S)
  BY <1>1, <1>3, OptAhead DEF w
<1> HIDE DEF t7
<1>5. t6 \in Seq(S) /\ After(p, 7, t6, t7) /\ Opt(p, 7) \in Seq(S)
  BY <1>1, <1>4, OptAhead DEF w
<1> HIDE DEF t6
<1> DEFINE s1 == <<w(6)>>
           s2 == <<w(5), w(6)>>
           s3 == <<w(4), w(5), w(6)>>
           s4 == <<w(3), w(4), w(5), w(6)>>
           s5 == <<w(2), w(3), w(4), w(5), w(6)>>
           s6 == <<w(1), w(2), w(3), w(4), w(5), w(6)>>
<1>6. /\ s1 \in Seq(S) /\ s2 \in Seq(S) /\ s3 \in Seq(S)
      /\ s4 \in Seq(S) /\ s5 \in Seq(S) /\ s6 \in Seq(S)
      /\ s1 # <<>> /\ s2 # <<>> /\ s3 # <<>> /\ s4 # <<>> /\ s5 # <<>> /\ s6 # <<>>
      /\ Head(s1) = w(6) /\ Head(s2) = w(5) /\ Head(s3) = w(4)
      /\ Head(s4) = w(3) /\ Head(s5) = w(2) /\ Head(s6) = w(1)
  BY <1>1
<1>7. /\ Tail(s6) = s5 /\ Tail(s5) = s4 /\ Tail(s4) = s3 /\ Tail(s3) = s2 /\ Tail(s2) = s1
      /\ Tail(s1) = <<>>
  BY <1>1, SixAhead
<1> HIDE DEF s1, s2, s3, s4, s5, s6
<1>8. /\ Due(p, 1) /\ Due(p, 2) /\ Due(p, 3) /\ Due(p, 4) /\ Due(p, 5) /\ Due(p, 6)
  BY DEF Due
<1>9. /\ After(p, 6, s1 \o t6, t6) /\ After(p, 5, s2 \o t6, s1 \o t6)
      /\ After(p, 4, s3 \o t6, s2 \o t6) /\ After(p, 3, s4 \o t6, s3 \o t6)
      /\ After(p, 2, s5 \o t6, s4 \o t6) /\ After(p, 1, s6 \o t6, s5 \o t6)
  <2>1. \A s \in Seq(S) : s # <<>> =>
          s \o t6 # <<>> /\ Head(s \o t6) = Head(s) /\ Tail(s \o t6) = Tail(s) \o t6
    BY <1>5, HeadTailConcat
  <2>2. <<>> \o t6 = t6
    BY <1>5, ConcatEmptySeq
  <2> QED
    BY <1>6, <1>7, <1>8, <2>1, <2>2 DEF After, w
<1>10. s6 \o t6 = WriteList(p)
  <2>2. t9 = Opt(p, 10)
    BY <1>2, ConcatEmptySeq DEF t9
  <2>3. t6 = Opt(p, 7) \o (Opt(p, 8) \o (Opt(p, 9) \o Opt(p, 10)))
    BY <2>2 DEF t6, t7, t8
  <2>4. s6 \o t6 = s6 \o Opt(p, 7) \o Opt(p, 8) \o Opt(p, 9) \o Opt(p, 10)
    <3> DEFINE a == Opt(p, 7)
               b == Opt(p, 8)
               c == Opt(p, 9)
               d == Opt(p, 10)
    <3>1. s6 \in Seq(S) /\ a \in Seq(S) /\ b \in Seq(S) /\ c \in Seq(S) /\ d \in Seq(S)
      BY <1>2, <1>3, <1>4, <1>5, <1>6
    <3> HIDE DEF a, b, c, d
    <3>2. Regrouped(s6, a, b, c, d)
      BY <3>1, ListsJoin, FiveInARow
    <3>3. s6 \o a \o b \o c \o d = s6 \o (a \o (b \o (c \o d)))
      BY <3>2, Zenon DEF Regrouped, Join
    <3> QED
      BY <2>3, <3>3, Zenon DEF a, b, c, d
  <2>5. s6 = SixWrites(p)
    BY DEF s6, w, SixWrites
  <2> QED
    BY <2>4, <2>5 DEF WriteList
<1> DEFINE rest == [k \in 0..10 |->
                      IF k = 0 THEN s6 \o t6 ELSE IF k = 1 THEN s5 \o t6
                      ELSE IF k = 2 THEN s4 \o t6 ELSE IF k = 3 THEN s3 \o t6
                      ELSE IF k = 4 THEN s2 \o t6 ELSE IF k = 5 THEN s1 \o t6
                      ELSE IF k = 6 THEN t6 ELSE IF k = 7 THEN t7
                      ELSE IF k = 8 THEN t8 ELSE IF k = 9 THEN t9 ELSE <<>>]
<1>11. /\ rest[0] = s6 \o t6 /\ rest[1] = s5 \o t6 /\ rest[2] = s4 \o t6
       /\ rest[3] = s3 \o t6 /\ rest[4] = s2 \o t6 /\ rest[5] = s1 \o t6
       /\ rest[6] = t6 /\ rest[7] = t7 /\ rest[8] = t8 /\ rest[9] = t9 /\ rest[10] = <<>>
  OBVIOUS
<1> HIDE DEF rest
<1>12. \A k \in 0..9 : After(p, k + 1, rest[k], rest[k + 1])
  <2>1. /\ After(p, 1, rest[0], rest[1]) /\ After(p, 2, rest[1], rest[2])
        /\ After(p, 3, rest[2], rest[3]) /\ After(p, 4, rest[3], rest[4])
        /\ After(p, 5, rest[4], rest[5]) /\ After(p, 6, rest[5], rest[6])
        /\ After(p, 7, rest[6], rest[7]) /\ After(p, 8, rest[7], rest[8])
        /\ After(p, 9, rest[8], rest[9]) /\ After(p, 10, rest[9], rest[10])
    BY <1>2, <1>3, <1>4, <1>5, <1>9, <1>11
  <2>2. ASSUME NEW k \in 0..9 PROVE After(p, k + 1, rest[k], rest[k + 1])
    <3>1. k \in {0, 1, 2, 3, 4, 5, 6, 7, 8, 9}
      OBVIOUS
    <3> QED
      BY <2>1, <3>1
  <2> QED
    BY <2>2
<1> QED
  BY <1>10, <1>11, <1>12 DEF Remaining, After

\* A trade's writes are the list of its plan.
LEMMA WritesListed ==
  ASSUME TradingTypeOK, NEW p, PlanOK(p)
  PROVE  Writes(p.maker, p.taker, p.amount, Published) = WriteList(p)
<1> DEFINE sides == SideBookings(p.maker, p.taker, p.clear)
           fees == FeeBookings(p.maker, p.taker, p.clear)
<1>1. /\ p.entries[1] = sides[1] /\ p.entries[2] = sides[2]
      /\ p.entries[3] = sides[3] /\ p.entries[4] = sides[4]
      /\ p.entries[5] = fees[1] /\ p.entries[6] = fees[2]
      /\ p.entries[7] = fees[3] /\ p.entries[8] = fees[4]
  <2>1. /\ p.maker \in Orders /\ p.taker \in Orders /\ ClearOK(p.clear)
        /\ p.entries = Entries(p.maker, p.taker, p.clear)
    BY PlanTyped DEF PlanOK
  <2>2. /\ IsSell(p.taker) => /\ p.entries[1] = TakerGives(p.taker, p.clear)
                              /\ p.entries[2] = TakerGets(p.taker, p.clear)
                              /\ p.entries[3] = MakerGets(p.maker, p.clear)
                              /\ p.entries[4] = MakerGives(p.maker, p.clear)
        /\ ~IsSell(p.taker) => /\ p.entries[1] = TakerGets(p.taker, p.clear)
                               /\ p.entries[2] = TakerGives(p.taker, p.clear)
                               /\ p.entries[3] = MakerGives(p.maker, p.clear)
                               /\ p.entries[4] = MakerGets(p.maker, p.clear)
        /\ p.entries[5] = TakerChannel(p.taker, p.clear)
        /\ p.entries[6] = MakerChannel(p.maker, p.clear)
        /\ p.entries[7] = TakerSys(p.clear) /\ p.entries[8] = MakerSys(p.clear)
    BY <2>1, BookingList
  <2>3. /\ fees[1] = TakerChannel(p.taker, p.clear) /\ fees[2] = MakerChannel(p.maker, p.clear)
        /\ fees[3] = TakerSys(p.clear) /\ fees[4] = MakerSys(p.clear)
    BY DEF FeeBookings, TakerChannel, MakerChannel, TakerSys, MakerSys
  <2>4. /\ IsSell(p.taker) => /\ sides[1] = TakerGives(p.taker, p.clear)
                              /\ sides[2] = TakerGets(p.taker, p.clear)
                              /\ sides[3] = MakerGets(p.maker, p.clear)
                              /\ sides[4] = MakerGives(p.maker, p.clear)
        /\ ~IsSell(p.taker) => /\ sides[1] = TakerGets(p.taker, p.clear)
                               /\ sides[2] = TakerGives(p.taker, p.clear)
                               /\ sides[3] = MakerGives(p.maker, p.clear)
                               /\ sides[4] = MakerGets(p.maker, p.clear)
    BY DEF SideBookings, TakerGets, TakerGives, MakerGets, MakerGives
  <2> HIDE DEF sides, fees
  <2> QED
    BY <2>2, <2>3, <2>4
<1>2. p.clear = countFee(p.maker, p.taker, p.amount) /\ p.start = Published
  BY DEF PlanOK
<1>3. Writes(p.maker, p.taker, p.amount, Published) =
        <<Fill(p.maker, Published.filled[p.maker] + p.amount),
          Fill(p.taker, Published.filled[p.taker] + p.amount),
          Move(sides[1]), Move(sides[2]), Move(sides[3]), Move(sides[4])>>
          \o IfDue(fees[1], Move(fees[1])) \o IfDue(fees[2], Move(fees[2]))
          \o IfDue(fees[3], SetAside(fees[3])) \o IfDue(fees[4], SetAside(fees[4]))
  BY <1>2 DEF Writes
<1> HIDE DEF sides, fees
<1>4. SixWrites(p) = <<Fill(p.maker, Published.filled[p.maker] + p.amount),
                       Fill(p.taker, Published.filled[p.taker] + p.amount),
                       Move(sides[1]), Move(sides[2]), Move(sides[3]), Move(sides[4])>>
  <2>1. /\ WriteNo(p, 1) = Fill(p.maker, Published.filled[p.maker] + p.amount)
        /\ WriteNo(p, 2) = Fill(p.taker, Published.filled[p.taker] + p.amount)
    BY <1>2 DEF WriteNo
  <2>2. /\ WriteNo(p, 3) = Move(sides[1]) /\ WriteNo(p, 4) = Move(sides[2])
        /\ WriteNo(p, 5) = Move(sides[3]) /\ WriteNo(p, 6) = Move(sides[4])
    BY <1>1 DEF WriteNo
  <2> QED
    BY <2>1, <2>2 DEF SixWrites
<1>5. /\ Opt(p, 7) = IfDue(fees[1], Move(fees[1])) /\ Opt(p, 8) = IfDue(fees[2], Move(fees[2]))
      /\ Opt(p, 9) = IfDue(fees[3], SetAside(fees[3]))
      /\ Opt(p, 10) = IfDue(fees[4], SetAside(fees[4]))
  BY <1>1 DEF Opt, IfDue, Due, WriteNo
<1> QED
  BY <1>3, <1>4, <1>5, Zenon DEF WriteList

\* Passing the checks starts the plan.
LEMMA CheckedPlan ==
  ASSUME TradingTypeOK, Verifying, CheckOrders
  PROVE  \E p, rest : /\ PlanOK(p) /\ Remaining(p, rest)
                      /\ \E j \in 0..10 : Reached(p, rest, j, txn')
<1>1. PICK maker \in Orders, taker \in Orders, relay \in Accounts, amount \in Uint64 :
        /\ relay \in Signers /\ isRelay(relay)
        /\ txn = [stage |-> "verify", copy |-> Published,
                  maker |-> maker, taker |-> taker, amount |-> amount]
  BY DEF Verifying
<1>2. /\ verify(maker, taker) /\ MatchOrder(maker, taker, amount)
      /\ txn' = [stage |-> "settle",
                 copy |-> [Published EXCEPT !.stored = @ \cup {maker, taker}],
                 left |-> Writes(maker, taker, amount, Published)]
  BY <1>1 DEF CheckOrders
<1> DEFINE clear == countFee(maker, taker, amount)
           entries == Entries(maker, taker, clear)
           aside == Settled(spProfit, entries[7])
           p == [maker |-> maker, taker |-> taker, relay |-> relay, amount |-> amount,
                 start |-> Published, clear |-> clear, entries |-> entries,
                 books |-> Posted(entries), aside |-> aside,
                 final |-> Settled(aside, entries[8])]
<1>3. /\ Posted(entries)[0] = balance
      /\ \A i \in 1..8 : Posted(entries)[i] = Book(Posted(entries)[i - 1], entries[i])
  <2>1. ClearOK(clear)
    BY <1>2, ClearTyped DEF TradingTypeOK
  <2>2. Len(entries) = 8
    BY <2>1, BookingList
  <2>3. Len(entries) \in Nat
    BY <2>2
  <2> HIDE DEF entries
  <2> QED
    BY <2>2, <2>3, PostedUnfold
<1>4. /\ p.maker = maker /\ p.taker = taker /\ p.relay = relay /\ p.amount = amount
      /\ p.start = Published /\ p.clear = clear /\ p.entries = entries
      /\ p.books = Posted(entries) /\ p.aside = aside /\ p.final = Settled(aside, entries[8])
  OBVIOUS
<1> HIDE DEF p
<1>5. PlanOK(p)
  BY <1>1, <1>2, <1>3, <1>4 DEF PlanOK
<1>6. PICK rest : Remaining(p, rest) /\ rest[0] = WriteList(p)
  BY ListUnrolls
<1>7. rest[0] = Writes(maker, taker, amount, Published)
  BY <1>4, <1>5, <1>6, WritesListed
<1>8. [Published EXCEPT !.stored = @ \cup {maker, taker}] = CopyAt(p, 0)
  <2>1. /\ p.books[0] = Published.book /\ p.start.profit = Published.profit
        /\ p.start.stored = Published.stored /\ p.start.owned = Published.owned
        /\ p.start.filled = Published.filled
    BY <1>3, <1>4 DEF Published
  <2> DEFINE more == Published.stored \cup {maker, taker}
  <2>2. CopyAt(p, 0) = [book |-> Published.book, profit |-> Published.profit, stored |-> more,
                        owned |-> Published.owned, filled |-> Published.filled]
    BY <1>4, <2>1 DEF CopyAt, Booked
  <2> HIDE DEF more
  <2>3. [Published EXCEPT !.stored = more] =
          [book |-> Published.book, profit |-> Published.profit, stored |-> more,
           owned |-> Published.owned, filled |-> Published.filled]
    <3> DEFINE counts == [order \in Orders |-> orderState[order].Filled]
    <3>1. Published = Copy(balance, spProfit, stored, owned, counts)
      BY DEF Published, Copy
    <3> HIDE DEF counts
    <3>2. [Copy(balance, spProfit, stored, owned, counts) EXCEPT !.stored = more]
            = Copy(balance, spProfit, more, owned, counts)
      BY DEF Copy
    <3>3. /\ Published.book = balance /\ Published.profit = spProfit
          /\ Published.owned = owned /\ Published.filled = counts
      BY <3>1 DEF Copy
    <3>4. [Published EXCEPT !.stored = more] = Copy(balance, spProfit, more, owned, counts)
      BY <3>1, <3>2, Zenon
    <3> QED
      BY <3>3, <3>4 DEF Copy
  <2> QED
    BY <2>2, <2>3 DEF more
<1>9. BooksOK(p, Booked(0))
  <2>1. p.books[0] \in [Assets -> Books]
    BY <1>5 DEF PlanOK, TradingTypeOK, LedgerTypeOK, Books
  <2> QED
    BY <2>1 DEF BooksOK, Booked
<1>10. Reached(p, rest, 0, txn')
  BY <1>2, <1>7, <1>8, <1>9 DEF Reached
<1> QED
  BY <1>5, <1>6, <1>10
-----------------------------------------------------------------------------
(* What a transaction under way was computed from stays as it was.         *)

\* A plan is still one after a step that changes nothing it reads.
LEMMA PlanKept ==
  ASSUME UNCHANGED <<tradingSpecVars, recordVars>>, NEW p, PlanOK(p)
  PROVE  PlanOK(p)'
<1>1. /\ balance' = balance /\ wallet' = wallet /\ relays' = relays
      /\ timestamp' = timestamp /\ globalParams' = globalParams
      /\ currentRound' = currentRound /\ spProfit' = spProfit
      /\ orderState' = orderState /\ cancelNumber' = cancelNumber
      /\ stored' = stored /\ owned' = owned
  BY DEF tradingSpecVars, recordVars, ledgerVars, governanceVars, orderVars
<1>2. \A order : Tradable(order)' = Tradable(order)
  BY <1>1 DEF Tradable, IsExpired, IsCanceled, IsCanceledByRelay
<1>3. verify(p.maker, p.taker)'
  BY <1>2 DEF verify, PlanOK
<1>4. MatchOrder(p.maker, p.taker, p.amount)'
  BY <1>1 DEF MatchOrder, EnoughSurplus, Surplus, PlanOK
<1>5. isRelay(p.relay)'
  BY <1>1 DEF isRelay, PlanOK
<1>6. Published' = Published
  BY <1>1 DEF Published
<1>7. countFee(p.maker, p.taker, p.amount)' = countFee(p.maker, p.taker, p.amount)
  BY <1>1 DEF countFee
<1>8. \A sp, entry : Settled(sp, entry)' = Settled(sp, entry)
  BY <1>1 DEF Settled, Accrue
<1> QED
  BY <1>1, <1>3, <1>4, <1>5, <1>6, <1>7, <1>8 DEF PlanOK
-----------------------------------------------------------------------------
(* What a transaction publishes.                                           *)

\* The orders of a trade get their fills, and the others keep theirs.
LEMMA FillsPublished ==
  ASSUME TradingTypeOK, NEW p, PlanOK(p),
         orderState' = [order \in Orders |->
                          [orderState[order] EXCEPT !.Filled = BothSides(p)[order]]]
  PROVE  updateOrderState(p.maker, p.taker, p.amount)
<1>1. /\ p.maker \in Orders /\ p.taker \in Orders /\ p.maker # p.taker
      /\ p.start.filled \in [Orders -> Uint64]
      /\ \A order \in Orders : p.start.filled[order] = orderState[order].Filled
      /\ orderState \in [Orders -> OrderState]
  BY PlanTyped DEF PlanOK, TradingTypeOK, OrdersTypeOK
<1>2. /\ BothSides(p)[p.maker] = orderState[p.maker].Filled + p.amount
      /\ BothSides(p)[p.taker] = orderState[p.taker].Filled + p.amount
      /\ \A order \in Orders \ {p.maker, p.taker} :
           BothSides(p)[order] = orderState[order].Filled
  BY <1>1 DEF BothSides, OneFilled
<1> DEFINE one == [orderState EXCEPT ![p.maker].Filled = @ + p.amount]
           both == [one EXCEPT ![p.taker].Filled = orderState[p.taker].Filled + p.amount]
<1>3. /\ DOMAIN one = Orders /\ one = [order \in Orders |-> one[order]]
      /\ one[p.maker] = [orderState[p.maker] EXCEPT !.Filled = orderState[p.maker].Filled + p.amount]
      /\ \A order \in Orders : order # p.maker => one[order] = orderState[order]
  BY <1>1
<1> HIDE DEF one
<1>4. /\ both = [order \in Orders |-> both[order]]
      /\ both[p.taker] = [one[p.taker] EXCEPT !.Filled = orderState[p.taker].Filled + p.amount]
      /\ \A order \in Orders : order # p.taker => both[order] = one[order]
  BY <1>1, <1>3
<1> HIDE DEF both
<1>5. ASSUME NEW order \in Orders PROVE orderState'[order] = both[order]
  <2>1. orderState'[order] = [orderState[order] EXCEPT !.Filled = BothSides(p)[order]]
    OBVIOUS
  <2>2. CASE order = p.maker
    BY <1>1, <1>2, <1>3, <1>4, <2>1, <2>2
  <2>3. CASE order = p.taker
    BY <1>1, <1>2, <1>3, <1>4, <2>1, <2>3
  <2>4. CASE order \notin {p.maker, p.taker}
    <3>1. both[order] = orderState[order]
      BY <1>3, <1>4, <2>4
    <3>2. orderState'[order] = [orderState[order] EXCEPT !.Filled = orderState[order].Filled]
      BY <1>2, <2>1, <2>4
    <3>3. orderState[order] \in OrderState
      BY <1>1
    <3>4. [orderState[order] EXCEPT !.Filled = orderState[order].Filled] = orderState[order]
      BY <3>3 DEF OrderState
    <3> QED
      BY <3>1, <3>2, <3>4
  <2> QED
    BY <2>2, <2>3, <2>4
<1>6. orderState' = both
  <2>1. orderState' = [order \in Orders |-> orderState'[order]]
    OBVIOUS
  <2> QED
    BY <1>4, <1>5, <2>1
<1>7. both = [orderState EXCEPT ![p.maker].Filled = @ + p.amount,
                                ![p.taker].Filled = @ + p.amount]
  BY DEF one, both
<1> QED
  BY <1>6, <1>7 DEF updateOrderState

\* The bookings all went through, and their outcome is published.
LEMMA BookingsPublished ==
  ASSUME TradingTypeOK, NEW p, PlanOK(p), BooksOK(p, 8), balance' = p.books[8]
  PROVE  updateBalance(p.maker, p.taker, p.clear)
<1> DEFINE books == Posted(p.entries)
<1>1. Len(p.entries) = 8 /\ Len(p.entries) \in Nat
  BY PlanTyped
<1>2. books[0] = balance /\ \A i \in 1..8 : books[i] = Book(books[i - 1], p.entries[i])
  BY <1>1, PostedUnfold
<1>3. p.books[0] = balance /\ \A i \in 1..8 : p.books[i] = Book(p.books[i - 1], p.entries[i])
  BY DEF PlanOK
<1> HIDE DEF books
<1>4. \A i \in 1..8 : books[i - 1] = p.books[i - 1] => books[i] = p.books[i]
  BY <1>2, <1>3
<1>5. /\ books[0] = p.books[0] /\ books[1] = p.books[1] /\ books[2] = p.books[2]
      /\ books[3] = p.books[3] /\ books[4] = p.books[4] /\ books[5] = p.books[5]
      /\ books[6] = p.books[6] /\ books[7] = p.books[7] /\ books[8] = p.books[8]
  BY <1>2, <1>3, <1>4
<1>6. \A i \in 1..8 : BookOK(books[i - 1], p.entries[i])
  <2>1. \A i \in 1..8 : books[i - 1] = p.books[i - 1]
    BY <1>5
  <2> QED
    BY <2>1 DEF BooksOK
<1>7. p.entries = SideBookings(p.maker, p.taker, p.clear) \o FeeBookings(p.maker, p.taker, p.clear)
  BY DEF PlanOK, Entries
<1> QED
  BY <1>1, <1>5, <1>6, <1>7 DEF updateBalance, books

\* The fees are set aside one after the other.
LEMMA FeesPublished ==
  ASSUME TradingTypeOK, NEW p, PlanOK(p), spProfit' = p.final
  PROVE  setAsideSysFees(p.clear)
<1>1. /\ p.entries[7].asset = p.clear.takerGets.asset
      /\ p.entries[7].amount = p.clear.TakerSysFee
      /\ p.entries[8].asset = p.clear.makerGets.asset
      /\ p.entries[8].amount = p.clear.MakerSysFee
  <2>1. p.entries[7] = TakerSys(p.clear) /\ p.entries[8] = MakerSys(p.clear)
    BY PlanTyped
  <2> QED
    BY <2>1 DEF TakerSys, MakerSys, Credit
<1>2. p.aside = Settled(spProfit, p.entries[7]) /\ p.final = Settled(p.aside, p.entries[8])
  BY DEF PlanOK
<1> QED
  BY <1>1, <1>2 DEF Settled, setAsideSysFees

\* A trade of nothing is worth nothing and does not match.
LEMMA TradeOfSomething ==
  ASSUME NEW maker \in Orders, NEW taker \in Orders, NEW amount \in Uint64,
         MatchOrder(maker, taker, amount)
  PROVE  amount \in Nat /\ amount > 0
<1>1. amount \in Nat /\ MaxUint64 \in Nat
  BY WidthAssumption DEF Uint64
<1>2. ASSUME amount = 0 PROVE FALSE
  <2>1. /\ maker.Price \in Nat /\ maker.Quote \in Assets /\ maker.Base \in Assets
        /\ Precision[maker.Quote] \in Nat /\ Precision[maker.Base] \in Nat \ {0}
        /\ Division \in Nat \ {0}
    BY OrdersAssumption, ScaleAssumption, WidthAssumption DEF OrderData, Uint64
  <2>2. maker.Price * amount * Precision[maker.Quote] = 0
    BY <1>2, <2>1
  <2>3. QuoteFor(maker, amount, Precision) = 0
    BY <2>1, <2>2 DEF QuoteFor
  <2>4. WrapUint64(0) = 0
    BY <1>1 DEF WrapUint64
  <2> QED
    BY <2>3, <2>4 DEF MatchOrder
<1> QED
  BY <1>1, <1>2

\* A commit publishes a trade.
LEMMA CommitIsTrade ==
  ASSUME TradingTypeOK, Settling, Commit
  PROVE  \E p : /\ PlanOK(p) /\ Trade(p.maker, p.taker, p.relay, p.amount)
                /\ stored' = stored \cup {p.maker, p.taker}
                /\ owned' = owned \cup {p.maker, p.taker}
<1>1. PICK p, rest : /\ PlanOK(p) /\ Remaining(p, rest)
                     /\ \E j \in 0..10 : Reached(p, rest, j, txn)
  BY DEF Settling
<1>2. Reached(p, rest, 10, txn)
  <2>1. ASSUME NEW k \in 0..9, Reached(p, rest, k, txn), Due(p, k + 1) PROVE FALSE
    <3>1. txn.left = rest[k] /\ rest[k] # <<>>
      BY <1>1, <2>1 DEF Reached, Remaining
    <3> QED
      BY <3>1 DEF Commit
  <2> QED
    BY <1>1, <2>1, NextDue
<1>3. /\ txn.copy = CopyAt(p, 10) /\ BooksOK(p, 8)
  BY <1>2 DEF Reached, Booked
<1>4. /\ txn.copy.book = p.books[8] /\ txn.copy.profit = p.final
      /\ txn.copy.filled = BothSides(p)
      /\ txn.copy.stored = p.start.stored \cup {p.maker, p.taker}
      /\ txn.copy.owned = p.start.owned \cup {p.maker, p.taker}
  BY <1>3 DEF CopyAt, Booked
<1>5. p.start.stored = stored /\ p.start.owned = owned
  BY <1>1 DEF PlanOK, Published
<1>6. updateOrderState(p.maker, p.taker, p.amount)
  BY <1>1, <1>4, FillsPublished DEF Commit
<1>7. updateBalance(p.maker, p.taker, p.clear)
  BY <1>1, <1>3, <1>4, BookingsPublished DEF Commit
<1>8. setAsideSysFees(p.clear)
  BY <1>1, <1>4, FeesPublished DEF Commit
<1>9. Trade(p.maker, p.taker, p.relay, p.amount)
  <2>1. p.clear = countFee(p.maker, p.taker, p.amount)
    BY <1>1 DEF PlanOK
  <2>2. UNCHANGED <<wallet, contextVars, currentRound, cancelNumber>>
    BY DEF Commit
  <2> QED
    BY <1>1, <1>6, <1>7, <1>8, <2>1, <2>2 DEF Trade, PlanOK
<1> QED
  BY <1>1, <1>4, <1>5, <1>9 DEF Commit
-----------------------------------------------------------------------------
(* The invariant.                                                          *)

\* Only steps that change nothing but the transaction, commits, and whole
\* calls: each is a step of Trading.
LEMMA StepIsTrading ==
  ASSUME SettlementInv, [SettlementNext]_settlementVars
  PROVE  [TradingNext]_tradingSpecVars
<1>1. ASSUME UNCHANGED tradingSpecVars PROVE [TradingNext]_tradingSpecVars
  BY <1>1
<1>2. CASE \E maker, taker \in Orders, relay \in Accounts, amount \in Uint64 :
             Submit(maker, taker, relay, amount)
  BY <1>1, <1>2 DEF Submit
<1>3. CASE CheckOrders \/ Write \/ Abort
  BY <1>1, <1>3 DEF CheckOrders, Write, Abort
<1>4. CASE Commit
  <2>1. Settling
    BY <1>4 DEF Commit, SettlementInv, TxnOK, Verifying, Idle
  <2>2. PICK p : PlanOK(p) /\ Trade(p.maker, p.taker, p.relay, p.amount)
    BY <1>4, <2>1, CommitIsTrade DEF SettlementInv
  <2>3. p.maker \in Orders /\ p.taker \in Orders /\ p.relay \in Accounts /\ p.amount \in Uint64
    BY <2>2 DEF PlanOK
  <2>4. TradingStep
    BY <2>2, <2>3 DEF TradingStep
  <2> QED
    BY <2>4 DEF TradingNext
<1>5. CASE OtherCall
  BY <1>5 DEF OtherCall, CancelRecorded, TradingNext, TradingStep, Canceling
<1>6. CASE UNCHANGED settlementVars
  BY <1>1, <1>6 DEF settlementVars
<1> QED
  BY <1>2, <1>3, <1>4, <1>5, <1>6 DEF SettlementNext

\* Orders with a fill or a cancellation.
Touched(state) == {order \in Orders : state[order].Filled > 0 \/ state[order].Canceled}

\* Every step keeps the records of exactly those orders.
LEMMA StepRecords ==
  ASSUME SettlementInv, [SettlementNext]_settlementVars
  PROVE  RecordsAreReal'
<1>0. /\ TradingTypeOK
      /\ stored = Touched(orderState) /\ stored = owned
      /\ orderState \in [Orders -> OrderState]
      /\ \A order \in Orders : orderState[order].Filled \in Nat
  BY WidthAssumption
     DEF SettlementInv, RecordsAreReal, Touched, TradingTypeOK, OrdersTypeOK, OrderState, Uint64
<1>1. SUFFICES stored' = Touched(orderState') /\ stored' = owned'
  BY DEF RecordsAreReal, Touched
<1>2. ASSUME UNCHANGED <<orderState, recordVars>>
      PROVE  stored' = Touched(orderState') /\ stored' = owned'
  BY <1>0, <1>2 DEF recordVars
<1>3. CASE \E maker, taker \in Orders, relay \in Accounts, amount \in Uint64 :
             Submit(maker, taker, relay, amount)
  BY <1>2, <1>3 DEF Submit, tradingSpecVars, orderVars
<1>4. CASE CheckOrders \/ Write \/ Abort
  BY <1>2, <1>4 DEF CheckOrders, Write, Abort, tradingSpecVars, orderVars
<1>5. CASE Commit
  <2>1. Settling
    BY <1>5 DEF Commit, SettlementInv, TxnOK, Verifying, Idle
  <2>2. PICK p : /\ PlanOK(p) /\ Trade(p.maker, p.taker, p.relay, p.amount)
                 /\ stored' = stored \cup {p.maker, p.taker}
                 /\ owned' = owned \cup {p.maker, p.taker}
    BY <1>0, <1>5, <2>1, CommitIsTrade
  <2>3. /\ p.maker \in Orders /\ p.taker \in Orders /\ p.relay \in Accounts
        /\ p.amount \in Uint64 /\ p.amount \in Nat /\ p.amount > 0
    BY <2>2, TradeOfSomething DEF PlanOK
  <2>4. \A order \in Orders :
          /\ orderState'[order].Canceled = orderState[order].Canceled
          /\ orderState'[order].Filled = orderState[order].Filled
               + IF order \in {p.maker, p.taker} THEN p.amount ELSE 0
    BY <1>0, <2>2, <2>3, TradeFills
  <2>5. Touched(orderState') = Touched(orderState) \cup {p.maker, p.taker}
    <3>1. \A order \in Orders :
            order \in Touched(orderState')
              <=> order \in Touched(orderState) \/ order \in {p.maker, p.taker}
      BY <1>0, <2>3, <2>4 DEF Touched
    <3>2. Touched(orderState') \subseteq Orders /\ Touched(orderState) \subseteq Orders
      BY DEF Touched
    <3> QED
      BY <2>3, <3>1, <3>2
  <2> QED
    BY <1>0, <2>2, <2>5
<1>6. CASE OtherCall
  <2>1. ASSUME NEW order \in Orders, CancelRecorded(order)
        PROVE  stored' = Touched(orderState') /\ stored' = owned'
    <3>1. /\ orderState' = [orderState EXCEPT ![order].Canceled = TRUE]
          /\ stored' = stored \cup {order} /\ owned' = owned \cup {order}
      BY <2>1 DEF CancelRecorded, CancelOrder
    <3>2. \A other \in Orders :
            /\ orderState'[other].Filled = orderState[other].Filled
            /\ orderState'[other].Canceled
                 <=> IF other = order THEN TRUE ELSE orderState[other].Canceled
      BY <1>0, <3>1 DEF OrderState
    <3>3. \A other \in Orders :
            other \in Touched(orderState') <=> other \in Touched(orderState) \/ other = order
      BY <3>2 DEF Touched
    <3>4. Touched(orderState') \subseteq Orders /\ Touched(orderState) \subseteq Orders
      BY DEF Touched
    <3>5. Touched(orderState') = Touched(orderState) \cup {order}
      BY <3>3, <3>4
    <3> QED
      BY <1>0, <3>1, <3>5
  <2>2. ASSUME UNCHANGED recordVars,
               \/ LedgerNext /\ UNCHANGED <<governanceVars, orderVars>>
               \/ GovernanceStep /\ UNCHANGED orderVars
               \/ \E relay, user \in Accounts, number \in CancelNumbers :
                    DelegateCancelOrder(relay, user, number)
        PROVE  stored' = Touched(orderState') /\ stored' = owned'
    BY <1>2, <2>2 DEF orderVars, DelegateCancelOrder
  <2> QED
    BY <1>6, <2>1, <2>2 DEF OtherCall
<1>7. CASE UNCHANGED settlementVars
  BY <1>2, <1>7 DEF settlementVars, tradingSpecVars, orderVars
<1> QED
  BY <1>3, <1>4, <1>5, <1>6, <1>7 DEF SettlementNext

\* What is under way is what the plan says.
LEMMA StepTxn ==
  ASSUME SettlementInv, [SettlementNext]_settlementVars
  PROVE  TxnOK'
<1>0. TradingTypeOK /\ TxnOK
  BY DEF SettlementInv
<1>1. ASSUME UNCHANGED <<tradingSpecVars, recordVars>>,
             \E p, rest : /\ PlanOK(p) /\ Remaining(p, rest)
                          /\ \E j \in 0..10 : Reached(p, rest, j, txn')
      PROVE  TxnOK'
  <2>1. PICK p, rest : /\ PlanOK(p) /\ Remaining(p, rest)
                       /\ \E j \in 0..10 : Reached(p, rest, j, txn')
    BY <1>1
  <2>2. PlanOK(p)'
    BY <1>1, <2>1, PlanKept
  <2>3. Settling'
    BY <2>1, <2>2 DEF Settling
  <2> QED
    BY <2>3 DEF TxnOK
<1>2. ASSUME UNCHANGED <<tradingSpecVars, recordVars>>
      PROVE  Published' = Published /\ \A acc : isRelay(acc)' = isRelay(acc)
  BY <1>2 DEF Published, isRelay, tradingSpecVars, recordVars, ledgerVars, governanceVars,
              orderVars
<1>3. ASSUME NEW maker \in Orders, NEW taker \in Orders, NEW relay \in Accounts,
             NEW amount \in Uint64, Submit(maker, taker, relay, amount)
      PROVE  TxnOK'
  <2>1. UNCHANGED <<tradingSpecVars, recordVars>>
    BY <1>3 DEF Submit
  <2>2. Verifying'
    BY <1>2, <1>3, <2>1 DEF Submit, Verifying
  <2> QED
    BY <2>2 DEF TxnOK
<1>4. CASE CheckOrders
  <2>1. Verifying
    BY <1>0, <1>4 DEF CheckOrders, TxnOK, Settling, Reached, Idle
  <2> QED
    BY <1>0, <1>1, <1>4, <2>1, CheckedPlan DEF CheckOrders
<1>5. CASE Write
  <2>1. Settling
    BY <1>0, <1>5 DEF Write, TxnOK, Verifying, Idle
  <2> QED
    BY <1>0, <1>1, <1>5, <2>1, WriteAdvances DEF Write
<1>6. CASE Abort \/ Commit
  BY <1>6 DEF Abort, Commit, TxnOK, Idle
<1>7. CASE OtherCall
  BY <1>7 DEF OtherCall, TxnOK, Idle
<1>8. CASE UNCHANGED settlementVars
  <2>1. UNCHANGED <<tradingSpecVars, recordVars>> /\ txn' = txn
    BY <1>8 DEF settlementVars
  <2>2. CASE txn = Idle
    BY <2>1, <2>2 DEF TxnOK, Idle
  <2>3. CASE Verifying
    <3>1. Verifying'
      BY <1>2, <2>1, <2>3 DEF Verifying
    <3> QED
      BY <3>1 DEF TxnOK
  <2>4. CASE Settling
    BY <1>1, <2>1, <2>4 DEF Settling
  <2> QED
    BY <1>0, <2>2, <2>3, <2>4 DEF TxnOK
<1> QED
  BY <1>3, <1>4, <1>5, <1>6, <1>7, <1>8 DEF SettlementNext

\* The invariant holds at the start and is kept by every step.
LEMMA SettlementInvariant == SettlementSpec => []SettlementInv
<1>1. TradingInit /\ SettlementInit => SettlementInv
  <2> SUFFICES ASSUME TradingInit, SettlementInit PROVE SettlementInv
    OBVIOUS
  <2>1. TradingTypeOK
    BY TradingInitOK
  <2>2. RecordsAreReal
    BY DEF TradingInit, OrdersInit, SettlementInit, RecordsAreReal
  <2> QED
    BY <2>1, <2>2 DEF SettlementInit, SettlementInv, TxnOK
<1>2. SettlementInv /\ [SettlementNext]_settlementVars => SettlementInv'
  <2> SUFFICES ASSUME SettlementInv, [SettlementNext]_settlementVars PROVE SettlementInv'
    OBVIOUS
  <2>1. TradingTypeOK'
    BY StepIsTrading, TradingStepTypes DEF SettlementInv
  <2> QED
    BY <2>1, StepRecords, StepTxn DEF SettlementInv
<1> QED
  BY <1>1, <1>2, PTL DEF SettlementSpec

(* The one step of Trading is what the code does: a settlement taken write *)
(* by write, with the records it creates while reading, the zero fees it   *)
(* skips, the fees it sets aside between bookings and the failures that    *)
(* leave it half done, publishes exactly one Trade or nothing.             *)
THEOREM SettlementIsOneTrade == SettlementSpec => SettlesAsOneTrade
<1>1. SettlementInv /\ [SettlementNext]_settlementVars => [TradingNext]_tradingSpecVars
  BY StepIsTrading
<1> QED
  BY <1>1, SettlementInvariant, PTL DEF SettlementSpec, SettlesAsOneTrade

(* Order records exist for the orders that were traded or canceled and for *)
(* no others, and each names its user.                                     *)
THEOREM OnlyRealRecords == SettlementSpec => []RecordsAreReal
<1>1. SettlementInv => RecordsAreReal
  BY DEF SettlementInv
<1> QED
  BY <1>1, SettlementInvariant, PTL

(* So whatever holds of Trading holds of trades taken write by write.      *)
THEOREM SettlementRefines == SettlementSpec => TradingSpec
BY SettlementIsOneTrade, PTL DEF SettlementSpec, TradingSpec, SettlesAsOneTrade

(* A trade taken write by write leaves every balance payable: a debit that *)
(* fails half-way, or a fill without its bookings, is never published.     *)
THEOREM SettlementSolvent ==
  ASSUME RatesFit
  PROVE  SettlementSpec => []Solvent
BY SettlementRefines, TradingSolvent, PTL

(* And so it keeps what the vault promises.                                *)
THEOREM SettlementKeepsPromise ==
  ASSUME RatesFit
  PROVE  SettlementSpec => KeepsPromise
BY SettlementRefines, TradingKeepsPromise, PTL
-----------------------------------------------------------------------------
(* The fees of the governance contract.  Its balance backs them as long as *)
(* nobody trades in its name: it is a contract and signs no orders.        *)
GovernanceSignsNothing == \A sig \in OrderSigs : sig.signer # GovernanceCtrAccount

\* What a record holds for the governance contract.
Owing(sp) == sp.LatestProfit + sp.HistoryProfit

\* A record's amounts are natural numbers.
LEMMA ProfitIntegers ==
  ASSUME NEW sp \in SpProfit
  PROVE  /\ sp.LatestProfit \in Nat /\ sp.HistoryProfit \in Nat
         /\ Owing(sp) \in Nat
         /\ sp.LatestProfit + sp.HistoryProfit = sp.HistoryProfit + sp.LatestProfit
BY WidthAssumption DEF SpProfit, Uint64, Owing

\* A record whose round is the current one holds the fees of that round
\* apart; one with an older round has seen none of them.
Apart(sp, fees) ==
  IF sp.LatestRound = currentRound THEN fees <= sp.LatestProfit ELSE fees = 0

\* A fee that fits is added to the record, and to the current round's part.
LEMMA AccrueEffect ==
  ASSUME NEW sp \in SpProfit, NEW amount \in Uint64, Owing(sp) + amount <= MaxUint64,
         NEW fees \in Nat, Apart(sp, fees)
  PROVE  /\ Owing(Accrue(sp, amount)) = Owing(sp) + amount
         /\ Apart(Accrue(sp, amount), fees + amount)
<1>1. /\ sp.LatestProfit \in Nat /\ sp.HistoryProfit \in Nat /\ Owing(sp) \in Nat
      /\ amount \in Nat /\ MaxUint64 \in Nat
      /\ sp.LatestProfit + sp.HistoryProfit = sp.HistoryProfit + sp.LatestProfit
  BY ProfitIntegers, WidthAssumption DEF Uint64
<1>2. CASE amount = 0
  BY <1>1, <1>2 DEF Accrue
<1>3. CASE amount # 0 /\ sp.LatestRound = currentRound
  <2>1. WrapUint64(sp.LatestProfit + amount) = sp.LatestProfit + amount
    <3>1. sp.LatestProfit + amount <= MaxUint64 /\ sp.LatestProfit + amount \in Nat
      BY <1>1 DEF Owing
    <3> QED
      BY <1>1, <3>1, CutFits DEF WrapUint64
  <2>2. Accrue(sp, amount) = [sp EXCEPT !.LatestProfit = sp.LatestProfit + amount]
    BY <1>3, <2>1 DEF Accrue
  <2>3. /\ Accrue(sp, amount).LatestProfit = sp.LatestProfit + amount
        /\ Accrue(sp, amount).HistoryProfit = sp.HistoryProfit
        /\ Accrue(sp, amount).LatestRound = currentRound
    BY <1>3, <2>2 DEF SpProfit
  <2> QED
    BY <1>1, <1>3, <2>3 DEF Owing, Apart
<1>4. CASE amount # 0 /\ sp.LatestRound # currentRound
  <2>1. WrapUint64(sp.HistoryProfit + sp.LatestProfit) = Owing(sp)
    <3>1. Owing(sp) <= MaxUint64
      BY <1>1
    <3>2. sp.HistoryProfit + sp.LatestProfit = Owing(sp)
      BY <1>1 DEF Owing
    <3> QED
      BY <1>1, <3>1, <3>2, CutFits DEF WrapUint64
  <2>2. /\ Accrue(sp, amount).LatestProfit = amount
        /\ Accrue(sp, amount).HistoryProfit = Owing(sp)
        /\ Accrue(sp, amount).LatestRound = currentRound
    BY <1>4, <2>1 DEF Accrue
  <2>3. Owing(Accrue(sp, amount)) = amount + Owing(sp)
    BY <2>2 DEF Owing
  <2> QED
    BY <1>1, <1>4, <2>2, <2>3 DEF Apart
<1> QED
  BY <1>2, <1>3, <1>4

\* What a claim takes is no more than past rounds' fees, and it leaves the
\* record short by that much.
LEMMA ClaimSplit ==
  ASSUME RoundsTypeOK, NEW sp \in SpProfit, Owing(sp) <= MaxUint64,
         NEW fees \in Nat, Apart(sp, fees)
  PROVE  /\ Claimable(sp) \in Nat
         /\ Claimable(sp) + fees <= Owing(sp)
         /\ Owing(Stored(AfterClaim(sp))) = Owing(sp) - Claimable(sp)
         /\ Apart(Stored(AfterClaim(sp)), fees)
<1>1. /\ sp.LatestProfit \in Nat /\ sp.HistoryProfit \in Nat /\ Owing(sp) \in Nat
      /\ MaxUint64 \in Nat
      /\ sp.LatestProfit + sp.HistoryProfit = sp.HistoryProfit + sp.LatestProfit
  BY ProfitIntegers, WidthAssumption
<1>2. Owing(NoProfit) = 0 /\ NoProfit.LatestProfit = 0 /\ NoProfit.HistoryProfit = 0
  BY DEF Owing, NoProfit
<1>3. WrapUint64(0) = 0
  BY <1>1, CutFits DEF WrapUint64
<1>4. CASE sp.LatestRound = currentRound
  <2> DEFINE left == [sp EXCEPT !.HistoryProfit = 0]
  <2>1. Claimable(sp) = sp.HistoryProfit /\ AfterClaim(sp) = left
    BY <1>4 DEF Claimable, AfterClaim
  <2>2. /\ left.HistoryProfit = 0 /\ left.LatestProfit = sp.LatestProfit
        /\ left.LatestRound = currentRound
    BY <1>4 DEF SpProfit
  <2> HIDE DEF left
  <2>3. Owing(left) = sp.LatestProfit
    BY <1>1, <2>2 DEF Owing
  <2>4. WrapUint64(left.HistoryProfit + left.LatestProfit) = sp.LatestProfit
    <3>1. sp.LatestProfit <= MaxUint64 /\ left.HistoryProfit + left.LatestProfit = sp.LatestProfit
      BY <1>1, <2>2 DEF Owing
    <3> QED
      BY <1>1, <3>1, CutFits DEF WrapUint64
  <2>5. fees <= sp.LatestProfit
    BY <1>4 DEF Apart
  <2>6. CASE sp.LatestProfit = 0
    <3>1. Stored(AfterClaim(sp)) = NoProfit
      BY <2>1, <2>4, <2>6 DEF Stored
    <3>2. fees = 0
      BY <2>5, <2>6
    <3>3. Apart(NoProfit, fees)
      BY <1>2, <3>2 DEF Apart
    <3>4. /\ Claimable(sp) + fees <= Owing(sp)
          /\ Owing(sp) - Claimable(sp) = 0
      BY <1>1, <2>1, <2>6, <3>2 DEF Owing
    <3> QED
      BY <1>1, <1>2, <2>1, <3>1, <3>3, <3>4
  <2>7. CASE sp.LatestProfit # 0
    <3>1. Stored(AfterClaim(sp)) = left
      BY <2>1, <2>4, <2>7 DEF Stored
    <3>2. Apart(left, fees)
      BY <2>2, <2>5 DEF Apart
    <3>3. /\ Claimable(sp) + fees <= Owing(sp)
          /\ Owing(sp) - Claimable(sp) = sp.LatestProfit
      BY <1>1, <2>1, <2>5 DEF Owing
    <3> QED
      BY <1>1, <2>1, <2>3, <3>1, <3>2, <3>3
  <2> QED
    BY <2>6, <2>7
<1>5. CASE sp.LatestRound # currentRound
  <2> DEFINE left == [NoProfit EXCEPT !.LatestRound = currentRound]
  <2>1. Claimable(sp) = Owing(sp)
    <3>1. sp.HistoryProfit + sp.LatestProfit = Owing(sp)
      BY <1>1 DEF Owing
    <3> QED
      BY <1>1, <1>5, <3>1, CutFits DEF WrapUint64, Claimable
  <2>2. AfterClaim(sp) = left
    BY <1>5 DEF AfterClaim
  <2>3. left.HistoryProfit = 0 /\ left.LatestProfit = 0
    BY DEF NoProfit
  <2> HIDE DEF left
  <2>4. Stored(left) = NoProfit
    <3>1. left.HistoryProfit + left.LatestProfit = 0
      BY <2>3
    <3> QED
      BY <1>3, <3>1 DEF Stored
  <2>5. fees = 0
    BY <1>5 DEF Apart
  <2>6. Apart(NoProfit, fees)
    BY <1>2, <2>5 DEF Apart
  <2> QED
    BY <1>1, <1>2, <2>1, <2>2, <2>4, <2>5, <2>6
<1> QED
  BY <1>4, <1>5
-----------------------------------------------------------------------------
AccountTypeOK ==
  /\ roundFees \in [Assets -> Nat]
  /\ pastFees \in [Assets -> Int]

RoundsApart == \A asset \in Assets : Apart(spProfit[asset], roundFees[asset])

FeeInv == TradingTypeOK /\ AccountTypeOK /\ ProfitBacked /\ FeesAccounted /\ RoundsApart

\* What the invariant says of one asset.
LEMMA FeeFacts ==
  ASSUME FeeInv, NEW asset \in Assets
  PROVE  /\ spProfit[asset] \in SpProfit
         /\ Owing(spProfit[asset]) \in Nat
         /\ Owing(spProfit[asset]) <= balance[asset][GovernanceCtrAccount]
         /\ Owing(spProfit[asset]) <= MaxUint64
         /\ Owing(spProfit[asset]) = roundFees[asset] + pastFees[asset]
         /\ Apart(spProfit[asset], roundFees[asset])
         /\ roundFees[asset] \in Nat /\ pastFees[asset] \in Int
         /\ balance[asset][GovernanceCtrAccount] \in Nat
<1>1. spProfit[asset] \in SpProfit
  BY DEF FeeInv, TradingTypeOK, RoundsTypeOK
<1>2. /\ balance[asset][GovernanceCtrAccount] \in Nat
      /\ balance[asset][GovernanceCtrAccount] <= MaxUint64
  BY AccountsAssumption, WidthAssumption DEF FeeInv, TradingTypeOK, LedgerTypeOK, Uint64
<1>3. Owing(spProfit[asset]) \in Nat
  BY <1>1, ProfitIntegers
<1>4. /\ Owing(spProfit[asset]) <= balance[asset][GovernanceCtrAccount]
      /\ Owing(spProfit[asset]) = roundFees[asset] + pastFees[asset]
  BY DEF FeeInv, ProfitBacked, FeesAccounted, Owing
<1>5. Owing(spProfit[asset]) <= MaxUint64
  BY <1>2, <1>3, <1>4, WidthAssumption
<1> QED
  BY <1>1, <1>2, <1>3, <1>4, <1>5 DEF FeeInv, AccountTypeOK, RoundsApart

\* Fees set aside in a trade, asset by asset.
LEMMA OwingEffect ==
  ASSUME RoundsTypeOK, NEW clear, ClearOK(clear), setAsideSysFees(clear), NEW asset \in Assets
  PROVE  LET t == IF clear.takerGets.asset = asset THEN clear.TakerSysFee ELSE 0
             m == IF clear.makerGets.asset = asset THEN clear.MakerSysFee ELSE 0
         IN  /\ spProfit'[asset] = Accrue(Accrue(spProfit[asset], t), m)
             /\ t \in Uint64 /\ m \in Uint64
<1> DEFINE t == clear.takerGets.asset
           m == clear.makerGets.asset
           aside == [spProfit EXCEPT ![t] = Accrue(spProfit[t], clear.TakerSysFee)]
<1>1. spProfit' = [aside EXCEPT ![m] = Accrue(aside[m], clear.MakerSysFee)]
  BY DEF setAsideSysFees
<1>2. /\ t \in Assets /\ m \in Assets
      /\ clear.TakerSysFee \in Uint64 /\ clear.MakerSysFee \in Uint64 /\ 0 \in Uint64
  BY WidthAssumption DEF ClearOK, Leg, Uint64
<1>3. \A sp : Accrue(sp, 0) = sp
  BY DEF Accrue
<1>4. aside[asset] =
        Accrue(spProfit[asset], IF t = asset THEN clear.TakerSysFee ELSE 0)
  BY <1>2, <1>3 DEF RoundsTypeOK
<1>5. DOMAIN aside = Assets
  BY DEF RoundsTypeOK
<1> HIDE DEF aside, t, m
<1>6. spProfit'[asset] = Accrue(aside[asset], IF m = asset THEN clear.MakerSysFee ELSE 0)
  BY <1>1, <1>2, <1>3, <1>5
<1> QED
  BY <1>2, <1>4, <1>6 DEF t, m

\* The governance account gains at least the system fees of a trade.
LEMMA GovernanceGains ==
  ASSUME GovernanceSignsNothing, LedgerTypeOK, NEW maker \in Orders, NEW taker \in Orders,
         NEW relay \in Accounts, NEW amount \in Uint64, Trade(maker, taker, relay, amount),
         NEW asset \in Assets
  PROVE  balance'[asset][GovernanceCtrAccount]
           >= balance[asset][GovernanceCtrAccount]
                + Earned(countFee(maker, taker, amount), asset)
<1> DEFINE clear == countFee(maker, taker, amount)
           gov == GovernanceCtrAccount
           t == TakerLeg(maker, taker, clear, gov)
           m == MakerLeg(maker, taker, clear, gov)
<1>0. /\ BookTypeOK /\ gov \in Accounts
      /\ MatchOrder(maker, taker, amount)
      /\ SignedOrder(maker) /\ SignedOrder(taker)
      /\ updateBalance(maker, taker, clear)
  BY AccountsAssumption DEF LedgerTypeOK, BookTypeOK, Books, Trade, verify, Tradable
<1>1. ClearOK(clear)
  BY <1>0, ClearTyped
<1>2. maker.User # gov /\ taker.User # gov
  BY <1>0 DEF GovernanceSignsNothing, SignedOrder
<1> HIDE DEF clear
<1>3. balance'[asset][gov] = balance[asset][gov]
        + Part(asset, clear.takerGets.asset, t) + Part(asset, clear.makerGets.asset, m)
  BY <1>0, <1>1, TradeBooks
<1>4. /\ clear.TakerChannelFee \in Nat /\ clear.MakerChannelFee \in Nat
      /\ clear.TakerSysFee \in Nat /\ clear.MakerSysFee \in Nat
  BY <1>1, ClearIntegers
<1>5. balance[asset][gov] \in Nat
  BY <1>0, WidthAssumption DEF BookTypeOK, Books, Uint64
<1>6. t \in Int /\ t >= clear.TakerSysFee
  <2>1. t = 0 - 0 + Part(gov, taker.Channel, clear.TakerChannelFee) + clear.TakerSysFee
    BY <1>2 DEF TakerLeg, Part
  <2> QED
    BY <1>4, <2>1 DEF Part
<1>7. m \in Int /\ m >= clear.MakerSysFee
  <2>1. m = 0 - 0 + Part(gov, maker.Channel, clear.MakerChannelFee) + clear.MakerSysFee
    BY <1>2 DEF MakerLeg, Part
  <2> QED
    BY <1>4, <2>1 DEF Part
<1> HIDE DEF t, m
<1> QED
  BY <1>3, <1>4, <1>5, <1>6, <1>7 DEF Part, Earned, clear

\* The steps of this history are steps of the component.
LEMMA FeeStepIsTrading ==
  ASSUME FeeNext
  PROVE  TradingNext
BY DEF FeeNext, TradingNext, TradingStep, Taking, Closing, Claiming, GovernanceStep

\* A trade's fees are accounted for, backed and kept apart.
LEMMA TakingStep ==
  ASSUME GovernanceSignsNothing, FeeInv, TradingTypeOK', NEW maker \in Orders,
         NEW taker \in Orders, NEW relay \in Accounts, NEW amount \in Uint64,
         Taking(maker, taker, relay, amount)
  PROVE  FeeInv'
<1> DEFINE clear == countFee(maker, taker, amount)
           gov == GovernanceCtrAccount
<1>0. /\ LedgerTypeOK /\ RoundsTypeOK
      /\ Trade(maker, taker, relay, amount)
      /\ MatchOrder(maker, taker, amount) /\ setAsideSysFees(clear)
      /\ roundFees' = [asset \in Assets |-> roundFees[asset] + Earned(clear, asset)]
      /\ pastFees' = pastFees /\ currentRound' = currentRound
  BY DEF FeeInv, TradingTypeOK, Taking, Trade
<1>1. ClearOK(clear)
  BY <1>0, ClearTyped
<1> HIDE DEF clear
<1>2. ASSUME NEW asset \in Assets
      PROVE  /\ spProfit'[asset].LatestProfit + spProfit'[asset].HistoryProfit
                  <= balance'[asset][gov]
             /\ spProfit'[asset].LatestProfit + spProfit'[asset].HistoryProfit
                  = roundFees'[asset] + pastFees'[asset]
             /\ Apart(spProfit'[asset], roundFees'[asset])
             /\ roundFees'[asset] \in Nat
  <2> DEFINE sp == spProfit[asset]
             rf == roundFees[asset]
             t == IF clear.takerGets.asset = asset THEN clear.TakerSysFee ELSE 0
             m == IF clear.makerGets.asset = asset THEN clear.MakerSysFee ELSE 0
             after == balance'[asset][gov]
  <2>1. /\ sp \in SpProfit /\ Owing(sp) \in Nat
        /\ Owing(sp) <= balance[asset][gov]
        /\ Owing(sp) = rf + pastFees[asset]
        /\ Apart(sp, rf) /\ rf \in Nat /\ pastFees[asset] \in Int
        /\ balance[asset][gov] \in Nat
    BY FeeFacts
  <2>2. /\ spProfit'[asset] = Accrue(Accrue(sp, t), m)
        /\ t \in Uint64 /\ m \in Uint64
    BY <1>0, <1>1, OwingEffect
  <2>3. Earned(clear, asset) = t + m
    BY DEF Earned
  <2>4. after >= balance[asset][gov] + Earned(clear, asset)
    BY <1>0, GovernanceGains DEF clear
  <2>5. after \in Nat /\ after <= MaxUint64 /\ MaxUint64 \in Nat
    BY AccountsAssumption, WidthAssumption DEF TradingTypeOK, LedgerTypeOK, Uint64
  <2> HIDE DEF sp, rf, t, m, after
  <2>6. t \in Nat /\ m \in Nat
    BY <2>2, WidthAssumption DEF Uint64
  <2>7. Owing(sp) + t + m <= after
    BY <2>1, <2>3, <2>4, <2>5, <2>6
  <2> DEFINE one == Accrue(sp, t)
             two == Accrue(one, m)
  <2>8. /\ Owing(one) = Owing(sp) + t /\ Apart(one, rf + t) /\ one \in SpProfit
        /\ rf + t \in Nat
    <3>1. Owing(sp) + t <= MaxUint64
      BY <2>1, <2>5, <2>6, <2>7
    <3> QED
      BY <1>0, <2>1, <2>2, <2>6, <3>1, AccrueEffect, AccrueTyped
  <2> HIDE DEF one
  <2>9. Owing(two) = Owing(one) + m /\ Apart(two, (rf + t) + m)
    <3>1. Owing(one) + m <= MaxUint64
      BY <2>1, <2>5, <2>6, <2>7, <2>8
    <3> QED
      BY <2>2, <2>8, <3>1, AccrueEffect
  <2>10. spProfit'[asset] = two
    BY <2>2 DEF one
  <2> HIDE DEF two
  <2>11. roundFees'[asset] = (rf + t) + m /\ pastFees'[asset] = pastFees[asset]
    BY <1>0, <2>1, <2>3, <2>6 DEF rf
  <2>12. /\ Owing(two) <= after
         /\ Owing(two) = roundFees'[asset] + pastFees'[asset]
         /\ roundFees'[asset] \in Nat
    BY <2>1, <2>5, <2>6, <2>7, <2>8, <2>9, <2>11
  <2> QED
    BY <2>9, <2>10, <2>11, <2>12 DEF Owing, after
<1>3. AccountTypeOK'
  BY <1>0, <1>2 DEF FeeInv, AccountTypeOK
<1>4. ProfitBacked' /\ FeesAccounted'
  BY <1>2 DEF ProfitBacked, FeesAccounted
<1>5. RoundsApart'
  BY <1>0, <1>2 DEF RoundsApart, Apart
<1> QED
  BY <1>3, <1>4, <1>5 DEF FeeInv

\* Ending a round turns its fees into past ones.
LEMMA ClosingStep ==
  ASSUME FeeInv, TradingTypeOK', NEW round \in Rounds, Closing(round)
  PROVE  FeeInv'
<1>0. /\ currentRound' = round /\ spProfit' = spProfit /\ balance' = balance
      /\ roundFees \in [Assets -> Nat] /\ pastFees \in [Assets -> Int]
  BY DEF Closing, EpochEnd, ledgerVars, FeeInv, AccountTypeOK
<1>1. ProfitBacked'
  BY <1>0 DEF FeeInv, ProfitBacked
<1>2. CASE round = currentRound
  BY <1>0, <1>1, <1>2
     DEF Closing, feeVars, FeeInv, AccountTypeOK, FeesAccounted, RoundsApart, Apart
<1>3. CASE round # currentRound
  <2>1. /\ pastFees' = [asset \in Assets |-> pastFees[asset] + roundFees[asset]]
        /\ roundFees' = [asset \in Assets |-> 0]
    BY <1>3 DEF Closing
  <2>2. AccountTypeOK'
    BY <1>0, <2>1 DEF AccountTypeOK
  <2>3. FeesAccounted'
    BY <1>0, <2>1 DEF FeeInv, FeesAccounted
  <2>4. RoundsApart'
    <3>1. ASSUME NEW asset \in Assets PROVE 0 <= spProfit[asset].LatestProfit
      BY FeeFacts, ProfitIntegers
    <3> QED
      BY <1>0, <2>1, <3>1 DEF RoundsApart, Apart
  <2> QED
    BY <1>1, <2>2, <2>3, <2>4 DEF FeeInv
<1> QED
  BY <1>2, <1>3

\* A claim pays out past fees and leaves the others.
LEMMA ClaimingStep ==
  ASSUME FeeInv, TradingTypeOK', NEW asset \in Assets, Claiming(asset)
  PROVE  FeeInv'
<1> DEFINE gov == GovernanceCtrAccount
           sp == spProfit[asset]
           n == Claimable(sp)
           left == Stored(AfterClaim(sp))
           held == wallet[asset]
           owed == balance[asset]
<1>0. /\ RoundsTypeOK /\ gov \in Accounts /\ gov # DexCtrAccount /\ DexCtrAccount \in Accounts
      /\ held \in Books /\ owed \in Books
      /\ balance \in [Assets -> Books] /\ wallet \in [Assets -> Books]
  BY AccountsAssumption
     DEF FeeInv, TradingTypeOK, LedgerTypeOK, Books, Claiming, ClaimSpProfit
<1>1. /\ spProfit' = [spProfit EXCEPT ![asset] = left]
      /\ currentRound' = currentRound
      /\ balance' = [balance EXCEPT ![asset] = BalanceSub(owed, gov, n)]
      /\ wallet' = [wallet EXCEPT ![asset] = Transfer(held, DexCtrAccount, gov, n)]
      /\ pastFees' = [pastFees EXCEPT ![asset] = @ - (wallet'[asset][gov] - held[gov])]
      /\ roundFees' = roundFees
  BY DEF Claiming, ClaimSpProfit, DoWithdraw, DoTransfer
<1>2. /\ sp \in SpProfit /\ Owing(sp) \in Nat /\ Owing(sp) <= owed[gov]
      /\ Owing(sp) <= MaxUint64
      /\ Owing(sp) = roundFees[asset] + pastFees[asset]
      /\ Apart(sp, roundFees[asset])
      /\ roundFees[asset] \in Nat /\ pastFees[asset] \in Int
      /\ owed[gov] \in Nat
  BY FeeFacts
<1>3. /\ n \in Nat /\ Owing(left) = Owing(sp) - n /\ Apart(left, roundFees[asset])
  BY <1>0, <1>2, ClaimSplit
<1> HIDE DEF sp, n, left
<1>4. wallet'[asset][gov] - held[gov] = n
  <2>1. held[gov] \in Int
    BY <1>0, WidthAssumption DEF Books, Uint64
  <2>2. wallet'[asset] = Transfer(held, DexCtrAccount, gov, n)
    BY <1>0, <1>1
  <2>3. Transfer(held, DexCtrAccount, gov, n)[gov] = held[gov] + n
    BY <1>0 DEF Transfer, Books
  <2> QED
    BY <1>3, <2>1, <2>2, <2>3
<1>5. balance'[asset][gov] = owed[gov] - n
  BY <1>0, <1>1 DEF BalanceSub, Books
<1>6. /\ pastFees'[asset] = pastFees[asset] - n
      /\ pastFees' \in [Assets -> Int]
      /\ \A other \in Assets \ {asset} : pastFees'[other] = pastFees[other]
  BY <1>1, <1>2, <1>3, <1>4 DEF FeeInv, AccountTypeOK
<1>7. /\ spProfit'[asset] = left
      /\ \A other \in Assets \ {asset} :
           spProfit'[other] = spProfit[other] /\ balance'[other] = balance[other]
  BY <1>0, <1>1 DEF RoundsTypeOK
<1> HIDE DEF held, owed
<1>8. /\ Owing(left) <= balance'[asset][gov]
      /\ Owing(left) = roundFees'[asset] + pastFees'[asset]
      /\ Apart(left, roundFees'[asset])
  BY <1>1, <1>2, <1>3, <1>5, <1>6
<1>9. ASSUME NEW other \in Assets
      PROVE  /\ Owing(spProfit'[other]) <= balance'[other][gov]
             /\ Owing(spProfit'[other]) = roundFees'[other] + pastFees'[other]
             /\ Apart(spProfit'[other], roundFees'[other])
  <2>1. CASE other = asset
    BY <1>7, <1>8, <2>1
  <2>2. CASE other # asset
    <3>1. /\ Owing(spProfit[other]) <= balance[other][gov]
          /\ Owing(spProfit[other]) = roundFees[other] + pastFees[other]
          /\ Apart(spProfit[other], roundFees[other])
      BY FeeFacts
    <3> QED
      BY <1>1, <1>6, <1>7, <2>2, <3>1
  <2> QED
    BY <2>1, <2>2
<1>10. ProfitBacked' /\ FeesAccounted'
  BY <1>9 DEF ProfitBacked, FeesAccounted, Owing
<1>11. RoundsApart'
  BY <1>1, <1>9 DEF RoundsApart, Apart
<1>12. AccountTypeOK'
  BY <1>1, <1>6 DEF FeeInv, AccountTypeOK
<1> QED
  BY <1>10, <1>11, <1>12 DEF FeeInv

\* Every step keeps the invariant.
LEMMA FeeStepOK ==
  ASSUME GovernanceSignsNothing, FeeInv, [FeeNext]_feeSpecVars
  PROVE  FeeInv'
<1>0. /\ roundFees \in [Assets -> Nat] /\ pastFees \in [Assets -> Int]
      /\ \A asset \in Assets : balance[asset][GovernanceCtrAccount] \in Int
      /\ \A asset \in Assets : Owing(spProfit[asset]) \in Int
  BY FeeFacts DEF FeeInv, AccountTypeOK
<1>1. TradingTypeOK'
  BY FeeStepIsTrading, TradingStepTypes DEF FeeInv, feeSpecVars
<1>2. ASSUME UNCHANGED <<governanceVars, feeVars>>, NoDirectWithdrawal \/ UNCHANGED balance
      PROVE  FeeInv'
  <2>1. spProfit' = spProfit /\ currentRound' = currentRound
        /\ roundFees' = roundFees /\ pastFees' = pastFees
    BY <1>2 DEF governanceVars, feeVars
  <2>2. \A asset \in Assets : balance'[asset][GovernanceCtrAccount]
                                >= balance[asset][GovernanceCtrAccount]
    BY <1>0, <1>2 DEF NoDirectWithdrawal
  <2>3. \A asset \in Assets : balance'[asset][GovernanceCtrAccount] \in Int
    BY <1>1, AccountsAssumption, WidthAssumption DEF TradingTypeOK, LedgerTypeOK, Uint64
  <2>4. ProfitBacked'
    BY <1>0, <2>1, <2>2, <2>3 DEF FeeInv, ProfitBacked, Owing
  <2>5. AccountTypeOK' /\ FeesAccounted' /\ RoundsApart'
    BY <2>1 DEF FeeInv, AccountTypeOK, FeesAccounted, RoundsApart, Apart
  <2> QED
    BY <1>1, <2>4, <2>5 DEF FeeInv
<1>3. ASSUME NEW maker \in Orders, NEW taker \in Orders, NEW relay \in Accounts,
             NEW amount \in Uint64, Taking(maker, taker, relay, amount)
      PROVE  FeeInv'
  BY <1>1, <1>3, TakingStep
<1>4. ASSUME NEW round \in Rounds, Closing(round)
      PROVE  FeeInv'
  BY <1>1, <1>4, ClosingStep
<1>5. ASSUME NEW asset \in Assets, Claiming(asset)
      PROVE  FeeInv'
  BY <1>1, <1>5, ClaimingStep
<1>6. CASE LedgerNext /\ NoDirectWithdrawal /\ UNCHANGED <<governanceVars, orderVars>>
           /\ UNCHANGED feeVars
  BY <1>2, <1>6
<1>7. CASE Canceling /\ UNCHANGED feeVars
  <2>1. UNCHANGED <<ledgerVars, governanceVars>>
    BY <1>7, CancelingEffect DEF FeeInv
  <2> QED
    BY <1>2, <1>7, <2>1 DEF ledgerVars
<1>8. CASE UNCHANGED feeSpecVars
  BY <1>2, <1>8 DEF feeSpecVars, tradingSpecVars, ledgerVars
<1> QED
  BY <1>3, <1>4, <1>5, <1>6, <1>7, <1>8 DEF FeeNext

\* Nothing is set aside to begin with.
LEMMA FeeInitOK ==
  ASSUME TradingInit, AccountInit
  PROVE  FeeInv
<1>1. TradingTypeOK
  BY TradingInitOK
<1>2. /\ \A asset \in Assets : /\ spProfit[asset] = NoProfit
                               /\ balance[asset][GovernanceCtrAccount] = 0
      /\ roundFees = [asset \in Assets |-> 0]
      /\ pastFees = [asset \in Assets |-> 0]
  BY AccountsAssumption DEF TradingInit, LedgerInit, RoundsInit, AccountInit
<1>3. NoProfit.LatestProfit = 0 /\ NoProfit.HistoryProfit = 0
  BY DEF NoProfit
<1>4. ProfitBacked
  BY <1>2, <1>3 DEF ProfitBacked
<1>5. FeesAccounted
  BY <1>2, <1>3 DEF FeesAccounted
<1>6. RoundsApart
  BY <1>2, <1>3 DEF RoundsApart, Apart
<1>7. AccountTypeOK
  BY <1>2 DEF AccountTypeOK
<1> QED
  BY <1>1, <1>4, <1>5, <1>6, <1>7 DEF FeeInv

\* The inductive invariant of the fees.
LEMMA FeesInvariant ==
  ASSUME GovernanceSignsNothing
  PROVE  FeeSpec => []FeeInv
<1>1. TradingInit /\ AccountInit => FeeInv
  BY FeeInitOK
<1>2. FeeInv /\ [FeeNext]_feeSpecVars => FeeInv'
  BY FeeStepOK
<1> QED
  BY <1>1, <1>2, PTL DEF FeeSpec

(* What is set aside is in the governance account's balance: no claim ever *)
(* fails for want of it.                                                   *)
THEOREM FeesBacked ==
  ASSUME GovernanceSignsNothing
  PROVE  FeeSpec => []ProfitBacked
<1>1. FeeInv => ProfitBacked
  BY DEF FeeInv
<1> QED
  BY <1>1, FeesInvariant, PTL

(* The two counters lose no fee and count none twice, whichever way        *)
(* trades, round changes and claims alternate.                             *)
THEOREM NoFeeLost ==
  ASSUME GovernanceSignsNothing
  PROVE  FeeSpec => []FeesAccounted
<1>1. FeeInv => FeesAccounted
  BY DEF FeeInv
<1> QED
  BY <1>1, FeesInvariant, PTL

(* A claim reaches the fees of rounds that have ended only, even if the    *)
(* round numbers come back or nothing was traded since the change.         *)
THEOREM ClaimsReachPastFees ==
  ASSUME GovernanceSignsNothing
  PROVE  FeeSpec => []OnlyPastFeesClaimable
<1>1. FeeInv => OnlyPastFeesClaimable
  <2> SUFFICES ASSUME FeeInv, NEW asset \in Assets
               PROVE  Claimable(spProfit[asset]) <= pastFees[asset]
    BY DEF OnlyPastFeesClaimable
  <2> DEFINE sp == spProfit[asset]
  <2>1. /\ sp \in SpProfit /\ Owing(sp) <= MaxUint64
        /\ Owing(sp) = roundFees[asset] + pastFees[asset]
        /\ Apart(sp, roundFees[asset])
        /\ roundFees[asset] \in Nat /\ pastFees[asset] \in Int
    BY FeeFacts
  <2>2. /\ Claimable(sp) \in Nat
        /\ Claimable(sp) + roundFees[asset] <= Owing(sp)
    BY <2>1, ClaimSplit DEF FeeInv, TradingTypeOK
  <2> HIDE DEF sp
  <2>3. Claimable(sp) <= pastFees[asset]
    BY <2>1, <2>2
  <2> QED
    BY <2>3 DEF sp
<1> QED
  BY <1>1, FeesInvariant, PTL
-----------------------------------------------------------------------------
(* What orders cost.                                                       *)

MemoryTypeOK ==
  /\ quoteMoved \in [Orders -> Nat]
  /\ fills \in [Orders -> Nat]
  /\ spent \in [Assets -> [Accounts -> Int]]

\* A buyer has paid no more than the value of the fill; a seller has received
\* less than one unit a trade below it.
Priced(order, moved, count, filled) ==
  IF IsSell(order)
  THEN /\ Value(order, filled) <= (moved + count) * Unit(order)
       /\ count > 0 => Value(order, filled) < (moved + count) * Unit(order)
  ELSE moved * Unit(order) <= Value(order, filled)

PricesKept ==
  \A order \in Orders :
    Priced(order, quoteMoved[order], fills[order], orderState[order].Filled)

CostsCover ==
  \A asset \in Assets, acc \in Accounts :
    spent[asset][acc] <= CostOf(acc, asset, orderState)

OrderInv == TradingTypeOK /\ MemoryTypeOK /\ FilledWithinAmount /\ PricesKept /\ CostsCover

\* One more trade keeps an order's price.
LEMMA PricedStep ==
  ASSUME NEW order \in Orders, NEW moved \in Nat, NEW count \in Nat, NEW filled \in Nat,
         Priced(order, moved, count, filled), NEW amount \in Nat, NEW paid \in Nat,
         ~IsSell(order) => paid * Unit(order) <= Value(order, amount),
         IsSell(order) => Value(order, amount) < (paid + 1) * Unit(order)
  PROVE  Priced(order, moved + paid, count + 1, filled + amount)
<1> DEFINE u == Unit(order)
           v == Value(order, filled)
           w == Value(order, amount)
           x == Value(order, filled + amount)
<1>1. u \in Nat /\ v \in Nat /\ w \in Nat /\ x = v + w
  <2>1. u \in Nat /\ v \in Nat /\ \A m \in Nat : Value(order, filled + m) = v + Value(order, m)
    BY ValueFacts
  <2>2. w \in Nat
    BY ValueFacts
  <2> QED
    BY <2>1, <2>2
<1>2. IF IsSell(order) THEN v <= (moved + count) * u ELSE moved * u <= v
  BY DEF Priced
<1>3. IF IsSell(order) THEN w < (paid + 1) * u ELSE paid * u <= w
  OBVIOUS
<1> HIDE DEF u, v, w, x
<1>4. CASE IsSell(order)
  <2>1. ((moved + count) + (paid + 1)) * u = (moved + count) * u + (paid + 1) * u
    BY <1>1, ProductFacts
  <2>2. ((moved + count) + (paid + 1)) = ((moved + paid) + (count + 1))
    OBVIOUS
  <2>3. (moved + count) * u \in Nat /\ (paid + 1) * u \in Nat
    BY <1>1, ProductFacts
  <2>4. x < ((moved + paid) + (count + 1)) * u
    BY <1>1, <1>2, <1>3, <1>4, <2>1, <2>2, <2>3
  <2>5. ((moved + paid) + (count + 1)) * u \in Int
    BY <2>1, <2>2, <2>3
  <2> QED
    BY <1>1, <1>4, <2>4, <2>5 DEF Priced, x, u
<1>5. CASE ~IsSell(order)
  <2>1. (moved + paid) * u = moved * u + paid * u
    BY <1>1, ProductFacts
  <2>2. moved * u \in Nat /\ paid * u \in Nat
    BY <1>1, ProductFacts
  <2>3. (moved + paid) * u <= x
    BY <1>1, <1>2, <1>3, <1>5, <2>1, <2>2
  <2> QED
    BY <1>5, <2>3 DEF Priced, x, u
<1> QED
  BY <1>4, <1>5

\* The steps of this history are steps of the component.
LEMMA HistoryStepIsTrading ==
  ASSUME HistoryNext
  PROVE  TradingNext
BY DEF HistoryNext, Otherwise, TradingNext, TradingStep, Filling

\* A trade keeps the prices of both orders and is covered by their costs.
LEMMA FillingStep ==
  ASSUME OrderInv, TradingTypeOK', FilledWithinAmount', NEW maker \in Orders,
         NEW taker \in Orders, NEW relay \in Accounts, NEW amount \in Uint64,
         Filling(maker, taker, relay, amount)
  PROVE  OrderInv'
<1> DEFINE paid == QuoteFor(maker, amount, Precision)
<1>0. /\ TradingTypeOK
      /\ Trade(maker, taker, relay, amount)
      /\ quoteMoved' = [quoteMoved EXCEPT ![maker] = @ + paid, ![taker] = @ + paid]
      /\ fills' = [fills EXCEPT ![maker] = @ + 1, ![taker] = @ + 1]
      /\ spent' = [asset \in Assets |-> [acc \in Accounts |->
                     spent[asset][acc] + Loss(asset, acc)]]
  BY DEF Filling, OrderInv
<1>1. /\ amount \in Nat /\ paid \in Nat
      /\ \A order \in Orders : /\ orderState[order].Filled \in Nat
                               /\ quoteMoved[order] \in Nat /\ fills[order] \in Nat
                               /\ Priced(order, quoteMoved[order], fills[order],
                                         orderState[order].Filled)
  <2>1. amount \in Nat
    BY WidthAssumption DEF Uint64
  <2>2. paid \in Nat
    BY <2>1, QuoteBounds
  <2> QED
    BY <2>1, <2>2, WidthAssumption
       DEF OrderInv, MemoryTypeOK, PricesKept, TradingTypeOK, OrdersTypeOK, OrderState, Uint64
<1>2. maker # taker
  BY <1>0, TradedOrders
<1>3. \A order \in {maker, taker} :
        /\ ~IsSell(order) => paid * Unit(order) <= Value(order, amount)
        /\ IsSell(order) => Value(order, amount) < (paid + 1) * Unit(order)
  BY <1>0, TradePrice
<1> HIDE DEF paid
<1>4. \A order \in Orders :
        orderState'[order].Filled
          = orderState[order].Filled + IF order \in {maker, taker} THEN amount ELSE 0
  BY <1>0, TradeFills
<1>5. /\ quoteMoved' \in [Orders -> Nat] /\ fills' \in [Orders -> Nat]
      /\ \A order \in {maker, taker} : /\ quoteMoved'[order] = quoteMoved[order] + paid
                                       /\ fills'[order] = fills[order] + 1
      /\ \A order \in Orders \ {maker, taker} : /\ quoteMoved'[order] = quoteMoved[order]
                                                /\ fills'[order] = fills[order]
  BY <1>0, <1>1, <1>2 DEF OrderInv, MemoryTypeOK
<1>6. ASSUME NEW order \in Orders
      PROVE  Priced(order, quoteMoved'[order], fills'[order], orderState'[order].Filled)
  <2>1. CASE order \in {maker, taker}
    <3>1. /\ orderState'[order].Filled = orderState[order].Filled + amount
          /\ quoteMoved'[order] = quoteMoved[order] + paid
          /\ fills'[order] = fills[order] + 1
      BY <1>4, <1>5, <2>1
    <3>2. Priced(order, quoteMoved[order] + paid, fills[order] + 1,
                 orderState[order].Filled + amount)
      BY <1>1, <1>3, <2>1, PricedStep
    <3> QED
      BY <3>1, <3>2
  <2>2. CASE order \notin {maker, taker}
    <3>1. /\ orderState'[order].Filled = orderState[order].Filled
          /\ quoteMoved'[order] = quoteMoved[order]
          /\ fills'[order] = fills[order]
      BY <1>1, <1>4, <1>5, <2>2
    <3> QED
      BY <1>1, <3>1
  <2> QED
    BY <2>1, <2>2
<1>7. PricesKept'
  BY <1>6 DEF PricesKept
<1>8. ASSUME NEW asset \in Assets, NEW acc \in Accounts
      PROVE  /\ spent'[asset][acc] \in Int
             /\ spent'[asset][acc] <= CostOf(acc, asset, orderState')
  <2>1. spent'[asset][acc] = spent[asset][acc] + Loss(asset, acc)
    BY <1>0
  <2>2. Loss(asset, acc) <= CostOf(acc, asset, orderState') - CostOf(acc, asset, orderState)
    BY <1>0, TradeLoss
  <2>3. spent[asset][acc] \in Int /\ spent[asset][acc] <= CostOf(acc, asset, orderState)
    BY DEF OrderInv, MemoryTypeOK, CostsCover
  <2>4. Loss(asset, acc) \in Int
    <3>1. balance[asset][acc] \in Int /\ balance'[asset][acc] \in Int
      BY <1>0, WidthAssumption DEF TradingTypeOK, LedgerTypeOK, Uint64
    <3> QED
      BY <3>1 DEF Loss
  <2>5. CostOf(acc, asset, orderState) \in Int /\ CostOf(acc, asset, orderState') \in Int
    <3>1. \A order \in Orders :
            orderState[order].Filled \in Nat /\ orderState[order].Filled <= order.Amount
      BY <1>1 DEF OrderInv, FilledWithinAmount
    <3>2. \A order \in Orders :
            orderState'[order].Filled \in Nat /\ orderState'[order].Filled <= order.Amount
      BY WidthAssumption
         DEF FilledWithinAmount, TradingTypeOK, OrdersTypeOK, OrderState, Uint64
    <3>3. CostOf(acc, asset, orderState) \in Nat
      BY <3>1, CostWithin
    <3>4. CostOf(acc, asset, orderState') \in Nat
      BY <3>2, CostWithin
    <3> QED
      BY <3>3, <3>4
  <2> QED
    BY <2>1, <2>2, <2>3, <2>4, <2>5
<1>9. CostsCover'
  BY <1>8 DEF CostsCover, CostOf
<1>10. MemoryTypeOK'
  <2>1. spent' \in [Assets -> [Accounts -> Int]]
    BY <1>0, <1>8
  <2> QED
    BY <1>5, <2>1 DEF MemoryTypeOK
<1> QED
  BY <1>7, <1>9, <1>10 DEF OrderInv

\* Every step keeps the invariant.
LEMMA HistoryStepKeeps ==
  ASSUME OrderInv, SidesBalance, [HistoryNext]_historySpecVars
  PROVE  OrderInv' /\ SidesBalance'
<1>1. TradingTypeOK' /\ OrdersKept'
  BY HistoryStepIsTrading, TradingStepTypes, TradingStepOrders
     DEF OrderInv, OrdersKept, historySpecVars
<1>2. ASSUME NEW maker \in Orders, NEW taker \in Orders, NEW relay \in Accounts,
             NEW amount \in Uint64, Filling(maker, taker, relay, amount)
      PROVE  OrderInv'
  BY <1>1, <1>2, FillingStep DEF OrdersKept
<1>3. ASSUME UNCHANGED historyVars,
             \A order \in Orders : orderState'[order].Filled = orderState[order].Filled
      PROVE  OrderInv'
  <2>1. MemoryTypeOK' /\ PricesKept'
    BY <1>3 DEF OrderInv, historyVars, MemoryTypeOK, PricesKept
  <2>2. ASSUME NEW asset \in Assets, NEW acc \in Accounts
        PROVE  spent'[asset][acc] <= CostOf(acc, asset, orderState')
    <3>1. [order \in Orders |-> Cost(order, asset, orderState'[order].Filled)]
            = [order \in Orders |-> Cost(order, asset, orderState[order].Filled)]
      BY <1>3
    <3>2. CostOf(acc, asset, orderState') = CostOf(acc, asset, orderState)
      BY <3>1, Zenon DEF CostOf
    <3>3. spent' = spent /\ spent[asset][acc] <= CostOf(acc, asset, orderState)
      BY <1>3 DEF OrderInv, CostsCover, historyVars
    <3> QED
      BY <3>2, <3>3
  <2>3. CostsCover'
    BY <2>2 DEF CostsCover, CostOf
  <2> QED
    BY <1>1, <2>1, <2>3 DEF OrderInv, OrdersKept
<1>4. ASSUME Otherwise
      PROVE  OrderInv'
  <2>1. \A order \in Orders : orderState'[order].Filled = orderState[order].Filled
    <3>1. CASE Canceling
      BY <3>1, CancelingEffect DEF OrderInv
    <3>2. CASE UNCHANGED orderVars
      BY <3>2 DEF orderVars
    <3> QED
      BY <1>4, <3>1, <3>2 DEF Otherwise
  <2> QED
    BY <1>3, <1>4, <2>1 DEF Otherwise
<1>5. ASSUME UNCHANGED historySpecVars
      PROVE  OrderInv'
  BY <1>3, <1>5 DEF historySpecVars, tradingSpecVars, orderVars
<1>6. OrderInv'
  BY <1>2, <1>4, <1>5 DEF HistoryNext
<1> QED
  BY <1>1, <1>6 DEF OrdersKept

\* The invariant holds at the start, where nothing was filled or spent.
LEMMA HistoryInitOK ==
  ASSUME TradingInit, MemoryInit
  PROVE  OrderInv /\ SidesBalance
<1>1. TradingTypeOK /\ OrdersKept
  BY TradingInitOK, TradingInitOrders
<1>2. \A order \in Orders : orderState[order].Filled = 0
  BY DEF TradingInit, OrdersInit
<1>3. MemoryTypeOK
  BY DEF MemoryInit, MemoryTypeOK
<1>4. ASSUME NEW order \in Orders
      PROVE  Priced(order, quoteMoved[order], fills[order], orderState[order].Filled)
  <2>1. quoteMoved[order] = 0 /\ fills[order] = 0
    BY DEF MemoryInit
  <2>2. Unit(order) \in Nat /\ Value(order, 0) = 0
    BY ValueFacts
  <2>3. (0 + 0) * Unit(order) = 0 /\ 0 * Unit(order) = 0
    BY <2>2
  <2> QED
    BY <1>2, <2>1, <2>2, <2>3 DEF Priced
<1>5. ASSUME NEW asset \in Assets, NEW acc \in Accounts
      PROVE  spent[asset][acc] <= CostOf(acc, asset, orderState)
  <2>1. \A order \in Orders :
          orderState[order].Filled \in Nat /\ orderState[order].Filled <= order.Amount
    BY <1>1, <1>2 DEF OrdersKept, FilledWithinAmount
  <2>2. CostOf(acc, asset, orderState) \in Nat
    BY <2>1, CostWithin
  <2>3. spent[asset][acc] = 0
    BY DEF MemoryInit
  <2> QED
    BY <2>2, <2>3
<1> QED
  BY <1>1, <1>3, <1>4, <1>5 DEF OrderInv, OrdersKept, PricesKept, CostsCover

\* The inductive invariant.
LEMMA OrderHistoryInvariant == HistorySpec => [](OrderInv /\ SidesBalance)
<1>1. TradingInit /\ MemoryInit => OrderInv /\ SidesBalance
  BY HistoryInitOK
<1>2. (OrderInv /\ SidesBalance) /\ [HistoryNext]_historySpecVars
        => (OrderInv /\ SidesBalance)'
  BY HistoryStepKeeps
<1> QED
  BY <1>1, <1>2, PTL DEF HistorySpec

(* Whoever an order is matched with and however often, its buyer never     *)
(* pays more than its price in total and its seller loses less than one    *)
(* unit a fill.                                                            *)
THEOREM LimitPricesHold == HistorySpec => []LimitPriceKept
<1>1. OrderInv => LimitPriceKept
  <2> SUFFICES ASSUME OrderInv, NEW order \in Orders
               PROVE  IF IsSell(order)
                      THEN fills[order] > 0 =>
                             (quoteMoved[order] + fills[order]) * Scale(order) > Exact(order)
                      ELSE quoteMoved[order] * Scale(order) <= Exact(order)
    BY DEF LimitPriceKept
  <2>1. Scale(order) = Unit(order) /\ Exact(order) = Value(order, orderState[order].Filled)
    BY DEF Scale, Unit, Exact, Value
  <2>2. Priced(order, quoteMoved[order], fills[order], orderState[order].Filled)
    BY DEF OrderInv, PricesKept
  <2> HIDE DEF OrderInv
  <2> QED
    BY <2>1, <2>2 DEF Priced
<1> QED
  BY <1>1, OrderHistoryInvariant, PTL

(* An owner who only signs orders loses no more in trades than those       *)
(* orders commit.                                                          *)
THEOREM OrdersSpendAsSigned == HistorySpec => []SpentAsSigned
<1>1. OrderInv => SpentAsSigned
  <2> SUFFICES ASSUME OrderInv, NEW asset \in Assets, NEW acc \in Accounts
               PROVE  spent[asset][acc] <= Committed(acc, asset)
    BY DEF SpentAsSigned
  <2>1. \A order \in Orders :
          orderState[order].Filled \in Nat /\ orderState[order].Filled <= order.Amount
    BY WidthAssumption
       DEF OrderInv, FilledWithinAmount, TradingTypeOK, OrdersTypeOK, OrderState, Uint64
  <2>2. /\ CostOf(acc, asset, orderState) \in Nat /\ Committed(acc, asset) \in Nat
        /\ CostOf(acc, asset, orderState) <= Committed(acc, asset)
    BY <2>1, CostWithin
  <2>3. spent[asset][acc] \in Int /\ spent[asset][acc] <= CostOf(acc, asset, orderState)
    BY DEF OrderInv, MemoryTypeOK, CostsCover
  <2> QED
    BY <2>2, <2>3
<1> QED
  BY <1>1, OrderHistoryInvariant, PTL
=============================================================================
