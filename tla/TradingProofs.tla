---------------------------- MODULE TradingProofs ----------------------------
(***************************************************************************)
(* Theorems about Trading, for any accounts, assets, orders, rates and     *)
(* integer widths: what a trade does to the book, entry by entry, and what *)
(* orders keep however they are traded and canceled.                       *)
(***************************************************************************)
EXTENDS Trading, DexLedgerProofs, SequenceTheorems

(* Arithmetic.                                                             *)

\* Products of naturals are natural and grow with their factors.
LEMMA ProductFacts ==
  ASSUME NEW a \in Nat, NEW b \in Nat, NEW c \in Nat
  PROVE  /\ a * b \in Nat
         /\ a <= b => a * c <= b * c
         /\ (a + b) * c = a * c + b * c
         /\ a * c = c * a
OBVIOUS

\* The quotient of a division rounds down.
LEMMA QuotientFacts ==
  ASSUME NEW a \in Nat, NEW b \in Nat \ {0}
  PROVE  /\ a \div b \in Nat
         /\ (a \div b) * b <= a
         /\ a < (a \div b) * b + b
OBVIOUS

\* And it is the largest number that fits.
LEMMA QuotientLargest ==
  ASSUME NEW a \in Nat, NEW b \in Nat \ {0}, NEW q \in Nat, q * b <= a
  PROVE  q <= a \div b
<1>1. /\ a \div b \in Nat
      /\ a < (a \div b) * b + b
  BY QuotientFacts
<1> SUFFICES ASSUME ~(q <= a \div b) PROVE FALSE
  OBVIOUS
<1>2. (a \div b) + 1 <= q /\ (a \div b) + 1 \in Nat
  BY <1>1
<1>3. ((a \div b) + 1) * b <= q * b
  BY <1>1, <1>2, ProductFacts
<1>4. ((a \div b) + 1) * b = (a \div b) * b + b
  BY <1>1
<1> QED
  BY <1>1, <1>3, <1>4
-----------------------------------------------------------------------------
(* The recursion of Posted.                                                *)

IsPosting(entries, n, books) ==
  books = [i \in 0..n |-> IF i = 0 THEN balance ELSE Book(books[i - 1], entries[i])]

\* The books after the first n entries exist, for every n.
LEMMA PostingExists ==
  ASSUME NEW entries
  PROVE  \A n \in Nat : \E books : IsPosting(entries, n, books)
<1> DEFINE N == {n \in Nat : \E books : IsPosting(entries, n, books)}
<1>1. 0 \in N
  <2> DEFINE books == [i \in 0..0 |-> balance]
  <2>1. IsPosting(entries, 0, books)
    BY DEF IsPosting
  <2> QED
    BY <2>1
<1>2. ASSUME NEW n \in Nat, n \in N PROVE n + 1 \in N
  <2>1. PICK books : IsPosting(entries, n, books)
    BY <1>2
  <2> DEFINE more == [i \in 0..(n + 1) |->
                        IF i = n + 1 THEN Book(books[n], entries[n + 1]) ELSE books[i]]
  <2>2. \A i \in 0..(n + 1) :
          more[i] = IF i = 0 THEN balance ELSE Book(more[i - 1], entries[i])
    <3>1. ASSUME NEW i \in 0..n
          PROVE  /\ more[i] = books[i]
                 /\ books[i] = IF i = 0 THEN balance ELSE Book(books[i - 1], entries[i])
      BY <2>1 DEF IsPosting
    <3>2. \A i \in 0..n : i # 0 => i - 1 \in 0..n
      OBVIOUS
    <3>3. more[n + 1] = Book(books[n], entries[n + 1]) /\ more[n] = books[n]
      OBVIOUS
    <3> HIDE DEF more
    <3>4. ASSUME NEW i \in 0..n
          PROVE  more[i] = IF i = 0 THEN balance ELSE Book(more[i - 1], entries[i])
      <4>1. CASE i = 0
        BY <3>1, <4>1
      <4>2. CASE i # 0
        <5>1. more[i - 1] = books[i - 1]
          BY <3>1, <3>2, <4>2
        <5> QED
          BY <3>1, <4>2, <5>1
      <4> QED
        BY <4>1, <4>2
    <3>5. n + 1 # 0 /\ (n + 1) - 1 = n
      OBVIOUS
    <3>6. more[n + 1] = Book(more[(n + 1) - 1], entries[n + 1])
      BY <3>3, <3>5
    <3>7. ASSUME NEW i \in 0..(n + 1)
          PROVE  more[i] = IF i = 0 THEN balance ELSE Book(more[i - 1], entries[i])
      <4>1. i \in 0..n \/ i = n + 1
        OBVIOUS
      <4> QED
        BY <3>4, <3>5, <3>6, <4>1
    <3> QED
      BY <3>7
  <2>3. more = [i \in 0..(n + 1) |-> more[i]]
    OBVIOUS
  <2>4. IsPosting(entries, n + 1, more)
    <3> HIDE DEF more
    <3> QED
      BY <2>2, <2>3 DEF IsPosting
  <2> HIDE DEF more
  <2> QED
    BY <2>4
<1>3. Nat \subseteq N
  <2> HIDE DEF N
  <2> QED
    BY <1>1, <1>2, SetInduction
<1> QED
  BY <1>3

\* Posted starts from the book and enters one booking after the other.
LEMMA PostedUnfold ==
  ASSUME NEW entries, Len(entries) \in Nat
  PROVE  /\ Posted(entries)[0] = balance
         /\ \A i \in 1..Len(entries) :
              Posted(entries)[i] = Book(Posted(entries)[i - 1], entries[i])
<1> DEFINE books == CHOOSE h : IsPosting(entries, Len(entries), h)
<1>1. \E h : IsPosting(entries, Len(entries), h)
  BY PostingExists
<1>2. IsPosting(entries, Len(entries), books)
  BY <1>1
<1>3. Posted(entries) = books
  BY DEF Posted, IsPosting
<1> HIDE DEF books
<1>4. /\ books[0] = balance
      /\ \A i \in 1..Len(entries) : books[i] = Book(books[i - 1], entries[i])
  BY <1>2 DEF IsPosting
<1> QED
  BY <1>3, <1>4
-----------------------------------------------------------------------------
(* The effect of bookings.                                                 *)

Entry == [sign : {1, -1}, acc : Accounts, asset : Assets, amount : Uint64]

Amount(entry) == IF entry.sign = 1 THEN entry.amount ELSE -entry.amount
OnTotal(entry, asset) == IF entry.asset = asset THEN Amount(entry) ELSE 0
OnAccount(entry, asset, acc) ==
  IF entry.asset = asset /\ entry.acc = acc THEN Amount(entry) ELSE 0

\* A checked booking keeps the book in range and changes one balance, and so
\* the total of one asset, by its amount.
LEMMA BookEffect ==
  ASSUME NEW book \in [Assets -> Books], NEW entry \in Entry, BookOK(book, entry)
  PROVE  /\ Book(book, entry) \in [Assets -> Books]
         /\ \A asset \in Assets :
              /\ Total(Book(book, entry)[asset]) = Total(book[asset]) + OnTotal(entry, asset)
              /\ \A acc \in Accounts :
                   Book(book, entry)[asset][acc]
                     = book[asset][acc] + OnAccount(entry, asset, acc)
<1> DEFINE column == book[entry.asset]
           after == IF entry.sign = 1 THEN BalanceAdd(column, entry.acc, entry.amount)
                                      ELSE BalanceSub(column, entry.acc, entry.amount)
<1>0. /\ entry.sign \in {1, -1} /\ entry.acc \in Accounts /\ entry.asset \in Assets
      /\ entry.amount \in Uint64 /\ entry.amount \in Int /\ column \in Books
      /\ \A asset \in Assets : book[asset] \in Books
      /\ \A asset \in Assets, acc \in Accounts : book[asset][acc] \in Int
  BY WidthAssumption DEF Entry, Books, Uint64
<1>1. Book(book, entry) = [book EXCEPT ![entry.asset] = after]
  BY DEF Book
<1>2. /\ after \in Books
      /\ Total(after) = Total(column) + Amount(entry)
      /\ \A acc \in Accounts :
           after[acc] = column[acc] + IF entry.acc = acc THEN Amount(entry) ELSE 0
  <2>1. Total(column) \in Int
    BY <1>0, TotalBounds
  <2>2. CASE entry.sign = 1
    <3>1. /\ BalanceAddOK(column, entry.acc, entry.amount)
          /\ after = BalanceAdd(column, entry.acc, entry.amount)
          /\ Amount(entry) = entry.amount
      BY <2>2 DEF BookOK, Amount
    <3>2. after \in Books /\ Total(after) = Total(column) + entry.amount
      BY <1>0, <3>1, AddEffect
    <3>3. \A acc \in Accounts :
            after[acc] = column[acc] + IF entry.acc = acc THEN entry.amount ELSE 0
      BY <1>0, <3>1 DEF BalanceAdd, Books
    <3> QED
      BY <3>1, <3>2, <3>3
  <2>3. CASE entry.sign # 1
    <3>1. /\ BalanceSubOK(column, entry.acc, entry.amount)
          /\ after = BalanceSub(column, entry.acc, entry.amount)
          /\ Amount(entry) = -entry.amount
      BY <2>3 DEF BookOK, Amount
    <3>2. after \in Books /\ Total(after) = Total(column) - entry.amount
      BY <1>0, <3>1, SubEffect
    <3>3. \A acc \in Accounts :
            after[acc] = column[acc] + IF entry.acc = acc THEN -entry.amount ELSE 0
      BY <1>0, <3>1 DEF BalanceSub, Books
    <3> QED
      BY <1>0, <2>1, <3>1, <3>2, <3>3
  <2> QED
    BY <2>2, <2>3
<1>3. Amount(entry) \in Int
  BY <1>0 DEF Amount
<1> HIDE DEF after
<1>4. Book(book, entry) \in [Assets -> Books]
  BY <1>0, <1>1, <1>2
<1>5. ASSUME NEW asset \in Assets, asset = entry.asset
      PROVE  /\ Total(Book(book, entry)[asset]) = Total(book[asset]) + OnTotal(entry, asset)
             /\ \A acc \in Accounts :
                  Book(book, entry)[asset][acc]
                    = book[asset][acc] + OnAccount(entry, asset, acc)
  <2>1. Book(book, entry)[asset] = after /\ book[asset] = column
    BY <1>1, <1>5
  <2> HIDE DEF column
  <2> QED
    BY <1>2, <1>5, <2>1 DEF OnTotal, OnAccount
<1>6. ASSUME NEW asset \in Assets, asset # entry.asset
      PROVE  /\ Total(Book(book, entry)[asset]) = Total(book[asset]) + OnTotal(entry, asset)
             /\ \A acc \in Accounts :
                  Book(book, entry)[asset][acc]
                    = book[asset][acc] + OnAccount(entry, asset, acc)
  <2>1. Book(book, entry)[asset] = book[asset]
    BY <1>1, <1>6
  <2>2. Total(book[asset]) \in Int
    BY <1>0, TotalBounds
  <2> QED
    BY <1>0, <1>6, <2>1, <2>2 DEF OnTotal, OnAccount
<1> QED
  BY <1>4, <1>5, <1>6

\* Eight checked bookings add up.
LEMMA PostedEffect ==
  ASSUME BookTypeOK, NEW entries, Len(entries) = 8,
         \A i \in 1..8 : entries[i] \in Entry /\ BookOK(Posted(entries)[i - 1], entries[i])
  PROVE  /\ Posted(entries)[8] \in [Assets -> Books]
         /\ \A asset \in Assets :
              /\ Total(Posted(entries)[8][asset]) = Total(balance[asset])
                   + OnTotal(entries[1], asset) + OnTotal(entries[2], asset)
                   + OnTotal(entries[3], asset) + OnTotal(entries[4], asset)
                   + OnTotal(entries[5], asset) + OnTotal(entries[6], asset)
                   + OnTotal(entries[7], asset) + OnTotal(entries[8], asset)
              /\ \A acc \in Accounts :
                   Posted(entries)[8][asset][acc] = balance[asset][acc]
                     + OnAccount(entries[1], asset, acc) + OnAccount(entries[2], asset, acc)
                     + OnAccount(entries[3], asset, acc) + OnAccount(entries[4], asset, acc)
                     + OnAccount(entries[5], asset, acc) + OnAccount(entries[6], asset, acc)
                     + OnAccount(entries[7], asset, acc) + OnAccount(entries[8], asset, acc)
<1> DEFINE books == Posted(entries)
           Fits(i) == books[i] \in [Assets -> Books]
           Grows(i) ==
             \A asset \in Assets :
               /\ Total(books[i][asset]) = Total(books[i - 1][asset]) + OnTotal(entries[i], asset)
               /\ \A acc \in Accounts :
                    books[i][asset][acc]
                      = books[i - 1][asset][acc] + OnAccount(entries[i], asset, acc)
<1>1. /\ books[0] = balance
      /\ \A i \in 1..8 : books[i] = Book(books[i - 1], entries[i])
  <2>1. Len(entries) \in Nat
    OBVIOUS
  <2>2. /\ Posted(entries)[0] = balance
        /\ \A i \in 1..Len(entries) :
             Posted(entries)[i] = Book(Posted(entries)[i - 1], entries[i])
    BY <2>1, PostedUnfold
  <2> QED
    BY <2>2
<1>2. Fits(0)
  BY <1>1 DEF BookTypeOK
<1> HIDE DEF books
<1>3. ASSUME NEW i \in 1..8, Fits(i - 1) PROVE Fits(i) /\ Grows(i)
  <2>1. entries[i] \in Entry /\ BookOK(books[i - 1], entries[i])
    BY DEF books
  <2>2. books[i] = Book(books[i - 1], entries[i])
    BY <1>1
  <2> QED
    BY <1>3, <2>1, <2>2, BookEffect
<1> HIDE DEF Fits, Grows
<1>4. Fits(1) /\ Fits(2) /\ Fits(3) /\ Fits(4) /\ Fits(5) /\ Fits(6) /\ Fits(7) /\ Fits(8)
  BY <1>2, <1>3
<1>5. \A i \in 1..8 : Grows(i)
  BY <1>2, <1>3, <1>4
<1>6. \A i \in 0..8 : Fits(i)
  BY <1>2, <1>4
<1>7. ASSUME NEW asset \in Assets
      PROVE  /\ \A i \in 0..8 : Total(books[i][asset]) \in Int
             /\ \A i \in 0..8, acc \in Accounts : books[i][asset][acc] \in Int
             /\ \A i \in 1..8 : OnTotal(entries[i], asset) \in Int
             /\ \A i \in 1..8, acc \in Accounts : OnAccount(entries[i], asset, acc) \in Int
  <2>1. \A i \in 0..8 : books[i][asset] \in Books
    BY <1>6 DEF Fits
  <2>2. \A i \in 1..8 : Amount(entries[i]) \in Int
    BY WidthAssumption DEF Entry, Amount, Uint64
  <2>3. \A i \in 0..8 : Total(books[i][asset]) \in Int
    BY <2>1, TotalBounds
  <2>4. \A i \in 0..8, acc \in Accounts : books[i][asset][acc] \in Int
    BY <2>1, WidthAssumption DEF Books, Uint64
  <2> QED
    BY <2>2, <2>3, <2>4 DEF OnTotal, OnAccount
<1>8. ASSUME NEW asset \in Assets
      PROVE  Total(books[8][asset]) = Total(balance[asset])
               + OnTotal(entries[1], asset) + OnTotal(entries[2], asset)
               + OnTotal(entries[3], asset) + OnTotal(entries[4], asset)
               + OnTotal(entries[5], asset) + OnTotal(entries[6], asset)
               + OnTotal(entries[7], asset) + OnTotal(entries[8], asset)
  <2> DEFINE t(i) == Total(books[i][asset])
             d(i) == OnTotal(entries[i], asset)
  <2>1. /\ t(1) = t(0) + d(1) /\ t(2) = t(1) + d(2) /\ t(3) = t(2) + d(3)
        /\ t(4) = t(3) + d(4) /\ t(5) = t(4) + d(5) /\ t(6) = t(5) + d(6)
        /\ t(7) = t(6) + d(7) /\ t(8) = t(7) + d(8)
    BY <1>5 DEF Grows
  <2>2. t(0) = Total(balance[asset])
    BY <1>1
  <2>3. /\ t(0) \in Int /\ d(1) \in Int /\ d(2) \in Int /\ d(3) \in Int /\ d(4) \in Int
        /\ d(5) \in Int /\ d(6) \in Int /\ d(7) \in Int /\ d(8) \in Int
    BY <1>7
  <2> HIDE DEF t, d
  <2>4. t(8) = t(0) + d(1) + d(2) + d(3) + d(4) + d(5) + d(6) + d(7) + d(8)
    BY <2>1, <2>3
  <2> QED
    BY <2>2, <2>4 DEF t, d
<1>9. ASSUME NEW asset \in Assets, NEW acc \in Accounts
      PROVE  books[8][asset][acc] = balance[asset][acc]
               + OnAccount(entries[1], asset, acc) + OnAccount(entries[2], asset, acc)
               + OnAccount(entries[3], asset, acc) + OnAccount(entries[4], asset, acc)
               + OnAccount(entries[5], asset, acc) + OnAccount(entries[6], asset, acc)
               + OnAccount(entries[7], asset, acc) + OnAccount(entries[8], asset, acc)
  <2> DEFINE t(i) == books[i][asset][acc]
             d(i) == OnAccount(entries[i], asset, acc)
  <2>1. /\ t(1) = t(0) + d(1) /\ t(2) = t(1) + d(2) /\ t(3) = t(2) + d(3)
        /\ t(4) = t(3) + d(4) /\ t(5) = t(4) + d(5) /\ t(6) = t(5) + d(6)
        /\ t(7) = t(6) + d(7) /\ t(8) = t(7) + d(8)
    BY <1>5 DEF Grows
  <2>2. t(0) = balance[asset][acc]
    BY <1>1
  <2>3. /\ t(0) \in Int /\ d(1) \in Int /\ d(2) \in Int /\ d(3) \in Int /\ d(4) \in Int
        /\ d(5) \in Int /\ d(6) \in Int /\ d(7) \in Int /\ d(8) \in Int
    BY <1>7
  <2> HIDE DEF t, d
  <2>4. t(8) = t(0) + d(1) + d(2) + d(3) + d(4) + d(5) + d(6) + d(7) + d(8)
    BY <2>1, <2>3
  <2> QED
    BY <2>2, <2>4 DEF t, d
<1> QED
  BY <1>4, <1>8, <1>9 DEF books, Fits
-----------------------------------------------------------------------------
(* A trade's clear and its bookings.                                       *)

Leg == [asset : Assets, amount : Uint64]

ClearOK(clear) ==
  /\ clear.takerGets \in Leg /\ clear.makerGets \in Leg
  /\ clear.TakerSysFee \in Uint64 /\ clear.MakerSysFee \in Uint64
  /\ clear.TakerChannelFee \in Uint64 /\ clear.MakerChannelFee \in Uint64
  /\ clear.TakerFee \in Uint64 /\ clear.MakerFee \in Uint64

\* Quote amounts and fees are natural numbers.
LEMMA TradeArithmetic ==
  ASSUME NEW order \in Orders, NEW amount \in Nat
  PROVE  QuoteFor(order, amount, Precision) \in Nat
<1>1. /\ order.Price \in Nat /\ order.Quote \in Assets /\ order.Base \in Assets
      /\ Precision[order.Quote] \in Nat \ {0} /\ Precision[order.Base] \in Nat \ {0}
      /\ Division \in Nat \ {0}
  BY OrdersAssumption, ScaleAssumption, WidthAssumption DEF OrderData, Uint64
<1>2. order.Price * amount * Precision[order.Quote] \in Nat
  BY <1>1, ProductFacts
<1>3. (order.Price * amount * Precision[order.Quote]) \div Division \in Nat
  BY <1>1, <1>2, QuotientFacts
<1> QED
  BY <1>1, <1>3, QuotientFacts DEF QuoteFor

\* What is cut to uint64 is in range.
LEMMA WrapRange ==
  ASSUME NEW n \in Int
  PROVE  WrapUint64(n) \in Uint64
BY CutRange, WidthAssumption DEF WrapUint64, Uint64

\* Fees, however they are computed, are natural numbers.
LEMMA FeesNatural ==
  ASSUME NEW get \in Nat, NEW rate \in Nat, NEW discount \in Nat, NEW prime
  PROVE  SysFee(get, rate, prime, discount) \in Nat /\ ChannelFee(get, rate) \in Nat
<1>1. FeeBase \in Nat \ {0} /\ PercentBase \in Nat \ {0}
  BY ScaleAssumption
<1>2. get * rate \in Nat /\ get * rate * discount \in Nat
  BY ProductFacts
<1>3. FeeBase * PercentBase \in Nat \ {0}
  BY <1>1
<1>4. (get * rate) \div FeeBase \in Nat
  BY <1>1, <1>2, QuotientFacts
<1>5. (get * rate * discount) \div (FeeBase * PercentBase) \in Nat
  BY <1>2, <1>3, QuotientFacts
<1> QED
  BY <1>4, <1>5 DEF SysFee, ChannelFee

\* The clear of a trade that matches is well typed.
LEMMA ClearTyped ==
  ASSUME LedgerTypeOK, NEW maker \in Orders, NEW taker \in Orders, NEW amount \in Uint64,
         MatchOrder(maker, taker, amount)
  PROVE  ClearOK(countFee(maker, taker, amount))
<1> DEFINE paid == QuoteFor(maker, amount, Precision)
           base == [asset |-> maker.Base, amount |-> amount]
           quote == [asset |-> maker.Quote, amount |-> paid]
           takerGets == IF IsSell(taker) THEN quote ELSE base
           makerGets == IF IsSell(taker) THEN base ELSE quote
           sys(get, rate, user) ==
             WrapUint64(SysFee(get.amount, rate, user \in PrimeUsers,
                               globalParams.PrimeFeeDiscountPercent))
           channel(get, rate) == WrapUint64(ChannelFee(get.amount, rate))
<1>0. /\ amount \in Nat /\ maker.Base \in Assets /\ maker.Quote \in Assets
      /\ globalParams \in GlobalParams
      /\ taker.TakerFeeRate \in Nat /\ maker.MakerFeeRate \in Nat
  BY OrdersAssumption, ContextAssumption, WidthAssumption
     DEF OrderData, Uint64, Uint32, LedgerTypeOK
<1>1. paid \in Uint64
  <2>1. paid \in Nat
    BY <1>0, TradeArithmetic
  <2> QED
    BY <2>1, WidthAssumption DEF MatchOrder, Uint64
<1> HIDE DEF paid
<1>2. takerGets \in Leg /\ makerGets \in Leg
  BY <1>0, <1>1 DEF Leg
<1>3. ASSUME NEW get \in Leg, NEW rate \in Nat, NEW user
      PROVE  sys(get, rate, user) \in Uint64 /\ channel(get, rate) \in Uint64
  <2>1. get.amount \in Nat
    BY WidthAssumption DEF Leg, Uint64
  <2>2. /\ SysFee(get.amount, rate, user \in PrimeUsers,
                  globalParams.PrimeFeeDiscountPercent) \in Nat
        /\ ChannelFee(get.amount, rate) \in Nat
    BY <1>0, <2>1, FeesNatural DEF GlobalParams
  <2> QED
    BY <2>2, WrapRange
<1> DEFINE taker1 == sys(takerGets, globalParams.TakerSysFeeRate, taker.User)
           maker1 == sys(makerGets, globalParams.MakerSysFeeRate, maker.User)
           taker2 == channel(takerGets, taker.TakerFeeRate)
           maker2 == channel(makerGets, maker.MakerFeeRate)
<1>4. taker1 \in Uint64 /\ maker1 \in Uint64 /\ taker2 \in Uint64 /\ maker2 \in Uint64
  <2>1. globalParams.TakerSysFeeRate \in Nat /\ globalParams.MakerSysFeeRate \in Nat
    BY <1>0 DEF GlobalParams
  <2> HIDE DEF sys, channel, takerGets, makerGets
  <2> QED
    BY <1>0, <1>2, <1>3, <2>1
<1>5. countFee(maker, taker, amount) =
        [takerGets |-> takerGets, makerGets |-> makerGets,
         TakerSysFee |-> taker1, MakerSysFee |-> maker1,
         TakerChannelFee |-> taker2, MakerChannelFee |-> maker2,
         TakerFee |-> WrapUint64(taker1 + taker2),
         MakerFee |-> WrapUint64(maker1 + maker2)]
  BY DEF countFee, Amounts, paid
<1> HIDE DEF takerGets, makerGets, taker1, maker1, taker2, maker2
<1>6. WrapUint64(taker1 + taker2) \in Uint64 /\ WrapUint64(maker1 + maker2) \in Uint64
  <2>1. taker1 + taker2 \in Int /\ maker1 + maker2 \in Int
    BY <1>4, WidthAssumption DEF Uint64
  <2> QED
    BY <2>1, WrapRange
<1> QED
  BY <1>2, <1>4, <1>5, <1>6 DEF ClearOK

\* What is left of a receipt is in range.
LEMMA NetTyped ==
  ASSUME NEW clear, ClearOK(clear)
  PROVE  Receipts(clear).taker \in Uint64 /\ Receipts(clear).maker \in Uint64
<1>1. /\ clear.takerGets.amount - clear.TakerFee \in Int
      /\ clear.makerGets.amount - clear.MakerFee \in Int
  BY WidthAssumption DEF ClearOK, Leg, Uint64
<1> QED
  BY <1>1, WrapRange DEF Receipts, Net

(* The eight bookings of a trade.                                          *)
Entries(maker, taker, clear) ==
  SideBookings(maker, taker, clear) \o FeeBookings(maker, taker, clear)

TakerGets(taker, clear) ==
  Credit(taker.User, clear.takerGets.asset, Receipts(clear).taker)
TakerGives(taker, clear) ==
  Debit(taker.User, clear.makerGets.asset, clear.makerGets.amount)
MakerGets(maker, clear) ==
  Credit(maker.User, clear.makerGets.asset, Receipts(clear).maker)
MakerGives(maker, clear) ==
  Debit(maker.User, clear.takerGets.asset, clear.takerGets.amount)
TakerChannel(taker, clear) ==
  Credit(taker.Channel, clear.takerGets.asset, clear.TakerChannelFee)
MakerChannel(maker, clear) ==
  Credit(maker.Channel, clear.makerGets.asset, clear.MakerChannelFee)
TakerSys(clear) == Credit(GovernanceCtrAccount, clear.takerGets.asset, clear.TakerSysFee)
MakerSys(clear) == Credit(GovernanceCtrAccount, clear.makerGets.asset, clear.MakerSysFee)

\* The list of bookings, entry by entry.
LEMMA BookingList ==
  ASSUME NEW maker \in Orders, NEW taker \in Orders, NEW clear, ClearOK(clear),
         NEW entries, entries = Entries(maker, taker, clear)
  PROVE  /\ Len(entries) = 8
         /\ \A i \in 1..8 : entries[i] \in Entry
         /\ IsSell(taker) => /\ entries[1] = TakerGives(taker, clear)
                             /\ entries[2] = TakerGets(taker, clear)
                             /\ entries[3] = MakerGets(maker, clear)
                             /\ entries[4] = MakerGives(maker, clear)
         /\ ~IsSell(taker) => /\ entries[1] = TakerGets(taker, clear)
                              /\ entries[2] = TakerGives(taker, clear)
                              /\ entries[3] = MakerGives(maker, clear)
                              /\ entries[4] = MakerGets(maker, clear)
         /\ entries[5] = TakerChannel(taker, clear)
         /\ entries[6] = MakerChannel(maker, clear)
         /\ entries[7] = TakerSys(clear)
         /\ entries[8] = MakerSys(clear)
<1> DEFINE sides == SideBookings(maker, taker, clear)
           fees == FeeBookings(maker, taker, clear)
<1>1. /\ taker.User \in Accounts /\ maker.User \in Accounts
      /\ taker.Channel \in Accounts /\ maker.Channel \in Accounts
      /\ GovernanceCtrAccount \in Accounts
  BY OrdersAssumption, AccountsAssumption DEF OrderData
<1>2. /\ TakerGets(taker, clear) \in Entry /\ TakerGives(taker, clear) \in Entry
      /\ MakerGets(maker, clear) \in Entry /\ MakerGives(maker, clear) \in Entry
  BY <1>1, NetTyped DEF TakerGets, TakerGives, MakerGets, MakerGives,
                        Entry, Credit, Debit, ClearOK, Leg
<1>3. /\ TakerChannel(taker, clear) \in Entry /\ MakerChannel(maker, clear) \in Entry
      /\ TakerSys(clear) \in Entry /\ MakerSys(clear) \in Entry
  BY <1>1 DEF TakerChannel, MakerChannel, TakerSys, MakerSys, Entry, Credit, ClearOK, Leg
<1>4. /\ sides = IF IsSell(taker)
                 THEN <<TakerGives(taker, clear), TakerGets(taker, clear),
                        MakerGets(maker, clear), MakerGives(maker, clear)>>
                 ELSE <<TakerGets(taker, clear), TakerGives(taker, clear),
                        MakerGives(maker, clear), MakerGets(maker, clear)>>
      /\ fees = <<TakerChannel(taker, clear), MakerChannel(maker, clear),
                  TakerSys(clear), MakerSys(clear)>>
  BY DEF SideBookings, FeeBookings, TakerGets, TakerGives, MakerGets, MakerGives,
         TakerChannel, MakerChannel, TakerSys, MakerSys
<1>5. entries = sides \o fees
  BY DEF Entries
<1> HIDE DEF sides, fees
<1>6. sides \in Seq(Entry) /\ fees \in Seq(Entry) /\ Len(sides) = 4 /\ Len(fees) = 4
  BY <1>2, <1>3, <1>4
<1>7. /\ Len(entries) = 8
      /\ \A i \in 1..8 : entries[i] = IF i <= 4 THEN sides[i] ELSE fees[i - 4]
  <2>1. Len(sides \o fees) = Len(sides) + Len(fees)
    BY <1>6, ConcatProperties
  <2>2. \A i \in 1..(Len(sides) + Len(fees)) :
          (sides \o fees)[i] = IF i <= Len(sides) THEN sides[i] ELSE fees[i - Len(sides)]
    BY <1>6, ConcatProperties
  <2> QED
    BY <1>5, <1>6, <2>1, <2>2
<1>8. /\ fees[1] = TakerChannel(taker, clear) /\ fees[2] = MakerChannel(maker, clear)
      /\ fees[3] = TakerSys(clear) /\ fees[4] = MakerSys(clear)
  BY <1>4
<1>9. /\ IsSell(taker) => /\ sides[1] = TakerGives(taker, clear)
                          /\ sides[2] = TakerGets(taker, clear)
                          /\ sides[3] = MakerGets(maker, clear)
                          /\ sides[4] = MakerGives(maker, clear)
      /\ ~IsSell(taker) => /\ sides[1] = TakerGets(taker, clear)
                           /\ sides[2] = TakerGives(taker, clear)
                           /\ sides[3] = MakerGives(maker, clear)
                           /\ sides[4] = MakerGets(maker, clear)
  BY <1>4
<1>10. /\ entries[1] = sides[1] /\ entries[2] = sides[2]
       /\ entries[3] = sides[3] /\ entries[4] = sides[4]
       /\ entries[5] = fees[1] /\ entries[6] = fees[2]
       /\ entries[7] = fees[3] /\ entries[8] = fees[4]
  BY <1>7
<1>11. \A i \in 1..8 : entries[i] \in Entry
  <2>1. /\ entries[1] \in Entry /\ entries[2] \in Entry
        /\ entries[3] \in Entry /\ entries[4] \in Entry
    BY <1>2, <1>9, <1>10
  <2>2. /\ entries[5] \in Entry /\ entries[6] \in Entry
        /\ entries[7] \in Entry /\ entries[8] \in Entry
    BY <1>3, <1>8, <1>10
  <2> QED
    BY <2>1, <2>2
<1> QED
  BY <1>7, <1>8, <1>9, <1>10, <1>11

Part(acc, whom, n) == IF acc = whom THEN n ELSE 0

\* Parts of the same holder add up.
LEMMA PartSum ==
  ASSUME NEW acc, NEW whom, NEW a \in Int, NEW b \in Int, NEW c \in Int, NEW d \in Int
  PROVE  /\ Part(acc, whom, a) \in Int
         /\ Part(acc, whom, a - b + c + d)
              = Part(acc, whom, a) + Part(acc, whom, -b) + Part(acc, whom, c) + Part(acc, whom, d)
BY DEF Part

(* What a trade does to an account in the asset each side receives.        *)
TakerLeg(maker, taker, clear, acc) ==
  Part(acc, taker.User, Receipts(clear).taker) - Part(acc, maker.User, clear.takerGets.amount)
    + Part(acc, taker.Channel, clear.TakerChannelFee)
    + Part(acc, GovernanceCtrAccount, clear.TakerSysFee)
MakerLeg(maker, taker, clear, acc) ==
  Part(acc, maker.User, Receipts(clear).maker) - Part(acc, taker.User, clear.makerGets.amount)
    + Part(acc, maker.Channel, clear.MakerChannelFee)
    + Part(acc, GovernanceCtrAccount, clear.MakerSysFee)

\* And to the asset's total: the net receipt and the fees against the gift.
TakerSum(clear) ==
  Receipts(clear).taker - clear.takerGets.amount + clear.TakerChannelFee + clear.TakerSysFee
MakerSum(clear) ==
  Receipts(clear).maker - clear.makerGets.amount + clear.MakerChannelFee + clear.MakerSysFee

\* The amounts of a clear are integers.
LEMMA ClearIntegers ==
  ASSUME NEW clear, ClearOK(clear)
  PROVE  /\ Receipts(clear).taker \in Nat /\ Receipts(clear).maker \in Nat
         /\ clear.takerGets.amount \in Nat /\ clear.makerGets.amount \in Nat
         /\ clear.TakerChannelFee \in Nat /\ clear.MakerChannelFee \in Nat
         /\ clear.TakerSysFee \in Nat /\ clear.MakerSysFee \in Nat
BY NetTyped, WidthAssumption DEF ClearOK, Leg, Uint64

\* The eight bookings in one, whichever side the taker is on.
LEMMA TradeBooks ==
  ASSUME BookTypeOK, NEW maker \in Orders, NEW taker \in Orders, NEW clear, ClearOK(clear),
         updateBalance(maker, taker, clear)
  PROVE  /\ balance' \in [Assets -> Books]
         /\ \A asset \in Assets :
              /\ Total(balance'[asset]) = Total(balance[asset])
                   + Part(asset, clear.takerGets.asset, TakerSum(clear))
                   + Part(asset, clear.makerGets.asset, MakerSum(clear))
              /\ \A acc \in Accounts :
                   balance'[asset][acc] = balance[asset][acc]
                     + Part(asset, clear.takerGets.asset, TakerLeg(maker, taker, clear, acc))
                     + Part(asset, clear.makerGets.asset, MakerLeg(maker, taker, clear, acc))
<1> DEFINE entries == Entries(maker, taker, clear)
           tGets == TakerGets(taker, clear)
           tGives == TakerGives(taker, clear)
           mGets == MakerGets(maker, clear)
           mGives == MakerGives(maker, clear)
           tChannel == TakerChannel(taker, clear)
           mChannel == MakerChannel(maker, clear)
           tSys == TakerSys(clear)
           mSys == MakerSys(clear)
           t == clear.takerGets.asset
           m == clear.makerGets.asset
           net == Receipts(clear)
<1>2. /\ \A i \in 1..Len(entries) : BookOK(Posted(entries)[i - 1], entries[i])
      /\ balance' = Posted(entries)[Len(entries)]
  BY DEF updateBalance, Entries
<1> HIDE DEF entries
<1>1. /\ Len(entries) = 8
      /\ \A i \in 1..8 : entries[i] \in Entry
      /\ IsSell(taker) => /\ entries[1] = tGives /\ entries[2] = tGets
                          /\ entries[3] = mGets /\ entries[4] = mGives
      /\ ~IsSell(taker) => /\ entries[1] = tGets /\ entries[2] = tGives
                           /\ entries[3] = mGives /\ entries[4] = mGets
      /\ entries[5] = tChannel /\ entries[6] = mChannel
      /\ entries[7] = tSys /\ entries[8] = mSys
  BY BookingList DEF entries
<1>3. /\ balance' \in [Assets -> Books]
      /\ \A asset \in Assets :
           /\ Total(balance'[asset]) = Total(balance[asset])
                + OnTotal(entries[1], asset) + OnTotal(entries[2], asset)
                + OnTotal(entries[3], asset) + OnTotal(entries[4], asset)
                + OnTotal(entries[5], asset) + OnTotal(entries[6], asset)
                + OnTotal(entries[7], asset) + OnTotal(entries[8], asset)
           /\ \A acc \in Accounts :
                balance'[asset][acc] = balance[asset][acc]
                  + OnAccount(entries[1], asset, acc) + OnAccount(entries[2], asset, acc)
                  + OnAccount(entries[3], asset, acc) + OnAccount(entries[4], asset, acc)
                  + OnAccount(entries[5], asset, acc) + OnAccount(entries[6], asset, acc)
                  + OnAccount(entries[7], asset, acc) + OnAccount(entries[8], asset, acc)
  BY <1>1, <1>2, PostedEffect
<1>4. /\ net.taker \in Int /\ net.maker \in Int
      /\ clear.takerGets.amount \in Int /\ clear.makerGets.amount \in Int
      /\ clear.TakerChannelFee \in Int /\ clear.MakerChannelFee \in Int
      /\ clear.TakerSysFee \in Int /\ clear.MakerSysFee \in Int
  BY ClearIntegers
<1>5. \A acc, asset, n : /\ Amount(Credit(acc, asset, n)) = n
                         /\ Amount(Debit(acc, asset, n)) = -n
                         /\ Credit(acc, asset, n).asset = asset
                         /\ Debit(acc, asset, n).asset = asset
                         /\ Credit(acc, asset, n).acc = acc
                         /\ Debit(acc, asset, n).acc = acc
  BY DEF Amount, Credit, Debit
<1>6. ASSUME NEW asset \in Assets
      PROVE  Total(balance'[asset]) = Total(balance[asset])
               + Part(asset, t, TakerSum(clear)) + Part(asset, m, MakerSum(clear))
  <2> DEFINE On(entry) == OnTotal(entry, asset)
  <2>1. Total(balance[asset]) \in Int
    BY TotalBounds DEF BookTypeOK
  <2>2. /\ On(tGets) = Part(asset, t, net.taker)
        /\ On(tGives) = Part(asset, m, -clear.makerGets.amount)
        /\ On(mGets) = Part(asset, m, net.maker)
        /\ On(mGives) = Part(asset, t, -clear.takerGets.amount)
        /\ On(tChannel) = Part(asset, t, clear.TakerChannelFee)
        /\ On(mChannel) = Part(asset, m, clear.MakerChannelFee)
        /\ On(tSys) = Part(asset, t, clear.TakerSysFee)
        /\ On(mSys) = Part(asset, m, clear.MakerSysFee)
    BY <1>5 DEF OnTotal, Part, TakerGets, TakerGives, MakerGets, MakerGives,
                TakerChannel, MakerChannel, TakerSys, MakerSys
  <2>3. Total(balance'[asset]) = Total(balance[asset])
           + On(entries[1]) + On(entries[2]) + On(entries[3]) + On(entries[4])
           + On(entries[5]) + On(entries[6]) + On(entries[7]) + On(entries[8])
    BY <1>3
  <2>4. /\ On(tGets) \in Int /\ On(tGives) \in Int /\ On(mGets) \in Int /\ On(mGives) \in Int
        /\ On(tChannel) \in Int /\ On(mChannel) \in Int /\ On(tSys) \in Int /\ On(mSys) \in Int
    BY <1>4, <2>2 DEF Part
  <2>5. /\ Part(asset, t, TakerSum(clear)) = On(tGets) + On(mGives) + On(tChannel) + On(tSys)
        /\ Part(asset, m, MakerSum(clear)) = On(mGets) + On(tGives) + On(mChannel) + On(mSys)
    BY <1>4, <2>2, PartSum DEF TakerSum, MakerSum
  <2> HIDE DEF On, tGets, tGives, mGets, mGives, tChannel, mChannel, tSys, mSys, t, m
  <2>6. CASE IsSell(taker)
    BY <1>1, <2>1, <2>3, <2>4, <2>5, <2>6
  <2>7. CASE ~IsSell(taker)
    BY <1>1, <2>1, <2>3, <2>4, <2>5, <2>7
  <2> QED
    BY <2>6, <2>7
<1>7. ASSUME NEW asset \in Assets, NEW acc \in Accounts
      PROVE  balance'[asset][acc] = balance[asset][acc]
               + Part(asset, t, TakerLeg(maker, taker, clear, acc))
               + Part(asset, m, MakerLeg(maker, taker, clear, acc))
  <2> DEFINE On(entry) == OnAccount(entry, asset, acc)
             Mine(whom, n) == Part(acc, whom, n)
  <2>1. balance[asset][acc] \in Int
    BY WidthAssumption DEF BookTypeOK, Books, Uint64
  <2>2. /\ On(tGets) = Part(asset, t, Mine(taker.User, net.taker))
        /\ On(tGives) = Part(asset, m, -Mine(taker.User, clear.makerGets.amount))
        /\ On(mGets) = Part(asset, m, Mine(maker.User, net.maker))
        /\ On(mGives) = Part(asset, t, -Mine(maker.User, clear.takerGets.amount))
        /\ On(tChannel) = Part(asset, t, Mine(taker.Channel, clear.TakerChannelFee))
        /\ On(mChannel) = Part(asset, m, Mine(maker.Channel, clear.MakerChannelFee))
        /\ On(tSys) = Part(asset, t, Mine(GovernanceCtrAccount, clear.TakerSysFee))
        /\ On(mSys) = Part(asset, m, Mine(GovernanceCtrAccount, clear.MakerSysFee))
    BY <1>5 DEF OnAccount, Part, TakerGets, TakerGives, MakerGets, MakerGives,
                TakerChannel, MakerChannel, TakerSys, MakerSys
  <2>3. balance'[asset][acc] = balance[asset][acc]
           + On(entries[1]) + On(entries[2]) + On(entries[3]) + On(entries[4])
           + On(entries[5]) + On(entries[6]) + On(entries[7]) + On(entries[8])
    BY <1>3
  <2>4. /\ Mine(taker.User, net.taker) \in Int
        /\ Mine(taker.User, clear.makerGets.amount) \in Int
        /\ Mine(maker.User, net.maker) \in Int
        /\ Mine(maker.User, clear.takerGets.amount) \in Int
        /\ Mine(taker.Channel, clear.TakerChannelFee) \in Int
        /\ Mine(maker.Channel, clear.MakerChannelFee) \in Int
        /\ Mine(GovernanceCtrAccount, clear.TakerSysFee) \in Int
        /\ Mine(GovernanceCtrAccount, clear.MakerSysFee) \in Int
    BY <1>4 DEF Part
  <2>5. /\ Part(asset, t, TakerLeg(maker, taker, clear, acc))
             = On(tGets) + On(mGives) + On(tChannel) + On(tSys)
        /\ Part(asset, m, MakerLeg(maker, taker, clear, acc))
             = On(mGets) + On(tGives) + On(mChannel) + On(mSys)
    <3> HIDE DEF On, Mine
    <3>1. /\ TakerLeg(maker, taker, clear, acc)
               = Mine(taker.User, net.taker) - Mine(maker.User, clear.takerGets.amount)
                 + Mine(taker.Channel, clear.TakerChannelFee)
                 + Mine(GovernanceCtrAccount, clear.TakerSysFee)
          /\ MakerLeg(maker, taker, clear, acc)
               = Mine(maker.User, net.maker) - Mine(taker.User, clear.makerGets.amount)
                 + Mine(maker.Channel, clear.MakerChannelFee)
                 + Mine(GovernanceCtrAccount, clear.MakerSysFee)
      BY DEF TakerLeg, MakerLeg, Mine
    <3> QED
      BY <2>2, <2>4, <3>1, PartSum
  <2>6. /\ On(tGets) \in Int /\ On(tGives) \in Int /\ On(mGets) \in Int /\ On(mGives) \in Int
        /\ On(tChannel) \in Int /\ On(mChannel) \in Int /\ On(tSys) \in Int /\ On(mSys) \in Int
    <3> HIDE DEF On, Mine
    <3> QED
      BY <2>2, <2>4 DEF Part
  <2> HIDE DEF On, tGets, tGives, mGets, mGives, tChannel, mChannel, tSys, mSys, t, m
  <2>7. CASE IsSell(taker)
    BY <1>1, <2>1, <2>3, <2>5, <2>6, <2>7
  <2>8. CASE ~IsSell(taker)
    BY <1>1, <2>1, <2>3, <2>5, <2>6, <2>8
  <2> QED
    BY <2>7, <2>8
<1> QED
  BY <1>3, <1>6, <1>7
-----------------------------------------------------------------------------
(* Orders and their fills.                                                 *)

\* What a trade requires of its two orders: they are different, both are
\* alive, on the same pair, and have the amount left.
LEMMA TradedOrders ==
  ASSUME TradingTypeOK, NEW maker \in Orders, NEW taker \in Orders, NEW relay \in Accounts,
         NEW amount \in Uint64, Trade(maker, taker, relay, amount)
  PROVE  /\ maker # taker /\ {maker.Side, taker.Side} = {"buy", "sell"}
         /\ maker.Base = taker.Base /\ maker.Quote = taker.Quote
         /\ Tradable(maker) /\ Tradable(taker)
         /\ priceMatch(maker, taker)
         /\ \A order \in {maker, taker} : orderState[order].Filled + amount <= order.Amount
<1>1. /\ {maker.Side, taker.Side} = {"buy", "sell"}
      /\ maker.Base = taker.Base /\ maker.Quote = taker.Quote
      /\ Tradable(maker) /\ Tradable(taker)
      /\ priceMatch(maker, taker)
      /\ Surplus(maker) >= amount /\ Surplus(taker) >= amount
  BY DEF Trade, verify, MatchOrder, EnoughSurplus
<1>2. maker # taker
  BY <1>1
<1>3. amount \in Int /\ \A order \in Orders :
        order.Amount \in Int /\ orderState[order].Filled \in Int
  BY OrdersAssumption, WidthAssumption
     DEF TradingTypeOK, OrdersTypeOK, OrderState, OrderData, Uint64
<1>4. ASSUME NEW order \in Orders, Surplus(order) >= amount
      PROVE  orderState[order].Filled + amount <= order.Amount
  BY <1>3, <1>4 DEF Surplus
<1>5. \A order \in {maker, taker} : orderState[order].Filled + amount <= order.Amount
  BY <1>1, <1>4
<1> QED
  BY <1>1, <1>2, <1>5, Zenon

\* Both are filled by the amount, and nothing else about orders changes.
LEMMA TradeFills ==
  ASSUME TradingTypeOK, NEW maker \in Orders, NEW taker \in Orders, NEW relay \in Accounts,
         NEW amount \in Uint64, Trade(maker, taker, relay, amount)
  PROVE  /\ OrdersTypeOK'
         /\ \A order \in Orders :
              /\ orderState'[order].Canceled = orderState[order].Canceled
              /\ orderState'[order].Filled
                   = orderState[order].Filled + IF order \in {maker, taker} THEN amount ELSE 0
<1>1. /\ orderState \in [Orders -> OrderState] /\ cancelNumber \in [Accounts -> Uint64]
      /\ amount \in Nat
      /\ \A order \in Orders : order.Amount \in Uint64 /\ orderState[order].Filled \in Nat
  BY OrdersAssumption, WidthAssumption
     DEF TradingTypeOK, OrdersTypeOK, OrderState, OrderData, Uint64
<1>2. /\ maker # taker
      /\ \A order \in {maker, taker} : orderState[order].Filled + amount <= order.Amount
  BY TradedOrders
<1>3. /\ orderState' = [orderState EXCEPT ![maker].Filled = @ + amount,
                                          ![taker].Filled = @ + amount]
      /\ cancelNumber' = cancelNumber
  BY DEF Trade, updateOrderState
<1>4. \A order \in Orders :
        orderState'[order] =
          IF order \in {maker, taker}
          THEN [orderState[order] EXCEPT !.Filled = orderState[order].Filled + amount]
          ELSE orderState[order]
  BY <1>1, <1>2, <1>3
<1>5. \A order \in {maker, taker} : orderState[order].Filled + amount \in Uint64
  BY <1>1, <1>2, WidthAssumption DEF Uint64
<1>6. ASSUME NEW order \in Orders
      PROVE  /\ orderState'[order] \in OrderState
             /\ orderState'[order].Canceled = orderState[order].Canceled
             /\ orderState'[order].Filled
                  = orderState[order].Filled + IF order \in {maker, taker} THEN amount ELSE 0
  <2>1. orderState[order] \in OrderState /\ orderState[order].Filled \in Nat
    BY <1>1
  <2>2. CASE order \in {maker, taker}
    <3> DEFINE n == orderState[order].Filled + amount
    <3>1. n \in Uint64
      BY <1>5, <2>2
    <3>2. orderState'[order] = [orderState[order] EXCEPT !.Filled = n]
      BY <1>4, <2>2
    <3> HIDE DEF n
    <3>3. /\ orderState'[order] \in OrderState
          /\ orderState'[order].Canceled = orderState[order].Canceled
          /\ orderState'[order].Filled = n
      BY <2>1, <3>1, <3>2 DEF OrderState
    <3> QED
      BY <2>2, <3>3 DEF n
  <2>3. CASE order \notin {maker, taker}
    <3>1. orderState'[order] = orderState[order]
      BY <1>4, <2>3
    <3> QED
      BY <2>1, <2>3, <3>1
  <2> QED
    BY <2>2, <2>3
<1>7. orderState' \in [Orders -> OrderState]
  BY <1>1, <1>3, <1>6
<1> QED
  BY <1>1, <1>3, <1>6, <1>7 DEF OrdersTypeOK

\* Setting fees aside keeps the records in range.
LEMMA AccrueTyped ==
  ASSUME RoundsTypeOK, NEW sp \in SpProfit, NEW amount \in Uint64
  PROVE  Accrue(sp, amount) \in SpProfit
<1>1. /\ sp.LatestRound \in Uint32 /\ sp.LatestProfit \in Uint64 /\ sp.HistoryProfit \in Uint64
      /\ currentRound \in Uint32
  BY RoundsAssumption DEF SpProfit, RoundsTypeOK
<1>2. /\ WrapUint64(sp.LatestProfit + amount) \in Uint64
      /\ WrapUint64(sp.HistoryProfit + sp.LatestProfit) \in Uint64
  BY <1>1, WrapRange, WidthAssumption DEF Uint64
<1> QED
  BY <1>1, <1>2 DEF Accrue, SpProfit

\* What a claim pays out is in range, and so is what it leaves.
LEMMA ClaimTyped ==
  ASSUME RoundsTypeOK, NEW sp \in SpProfit
  PROVE  Claimable(sp) \in Uint64 /\ Stored(AfterClaim(sp)) \in SpProfit
<1>1. /\ sp.LatestRound \in Uint32 /\ sp.LatestProfit \in Uint64 /\ sp.HistoryProfit \in Uint64
      /\ currentRound \in Uint32 /\ 0 \in Uint32 /\ 0 \in Uint64
  BY RoundsAssumption, WidthAssumption DEF SpProfit, RoundsTypeOK, Uint32, Uint64
<1>2. WrapUint64(sp.HistoryProfit + sp.LatestProfit) \in Uint64
  BY <1>1, WrapRange, WidthAssumption DEF Uint64
<1>3. NoProfit \in SpProfit
  BY <1>1 DEF NoProfit, SpProfit
<1>4. AfterClaim(sp) \in SpProfit
  BY <1>1, <1>3 DEF AfterClaim, SpProfit, NoProfit
<1> QED
  BY <1>1, <1>2, <1>3, <1>4 DEF Claimable, Stored

\* A trade keeps every type.
LEMMA TradeTypes ==
  ASSUME TradingTypeOK, NEW maker \in Orders, NEW taker \in Orders, NEW relay \in Accounts,
         NEW amount \in Uint64, Trade(maker, taker, relay, amount)
  PROVE  TradingTypeOK'
<1> DEFINE clear == countFee(maker, taker, amount)
           t == clear.takerGets.asset
           m == clear.makerGets.asset
           one == Accrue(spProfit[t], clear.TakerSysFee)
           aside == [spProfit EXCEPT ![t] = one]
           two == Accrue(aside[m], clear.MakerSysFee)
<1>1. ClearOK(clear)
  BY ClearTyped DEF TradingTypeOK, Trade
<1>2. balance' \in [Assets -> Books]
  <2>1. BookTypeOK
    BY DEF TradingTypeOK, LedgerTypeOK, BookTypeOK, Books
  <2>2. updateBalance(maker, taker, clear)
    BY DEF Trade
  <2> HIDE DEF clear
  <2> QED
    BY <1>1, <2>1, <2>2, TradeBooks
<1>3. spProfit' = [aside EXCEPT ![m] = two]
  BY DEF Trade, setAsideSysFees
<1>4. spProfit' \in [Assets -> SpProfit]
  <2>1. /\ t \in Assets /\ m \in Assets
        /\ clear.TakerSysFee \in Uint64 /\ clear.MakerSysFee \in Uint64
    BY <1>1 DEF ClearOK, Leg
  <2> HIDE DEF clear
  <2>2. spProfit \in [Assets -> SpProfit]
    BY DEF TradingTypeOK, RoundsTypeOK
  <2>3. one \in SpProfit
    BY <2>1, <2>2, AccrueTyped DEF TradingTypeOK
  <2> HIDE DEF one, t, m
  <2>4. aside \in [Assets -> SpProfit]
    BY <2>1, <2>2, <2>3
  <2> HIDE DEF aside
  <2>5. two \in SpProfit
    BY <2>1, <2>4, AccrueTyped DEF TradingTypeOK
  <2> HIDE DEF two
  <2> QED
    BY <1>3, <2>1, <2>4, <2>5
<1> HIDE DEF clear
<1>5. OrdersTypeOK'
  BY TradeFills
<1>6. UNCHANGED <<wallet, contextVars, currentRound>>
  BY DEF Trade
<1> QED
  BY <1>2, <1>4, <1>5, <1>6
     DEF TradingTypeOK, LedgerTypeOK, RoundsTypeOK, contextVars, Books

\* And so does a claim of the governance contract, which adds up.
LEMMA ClaimEffect ==
  ASSUME LedgerTypeOK, RoundsTypeOK, NEW asset \in Assets, ClaimSpProfit(asset)
  PROVE  LedgerTypeOK' /\ RoundsTypeOK' /\ Accounted
<1> DEFINE n == Claimable(spProfit[asset])
           cash == IF GovernanceCtrAccount = DexCtrAccount THEN 0 ELSE -n
           left == Stored(AfterClaim(spProfit[asset]))
<1>0. BookTypeOK /\ GovernanceCtrAccount \in Accounts
  BY AccountsAssumption DEF LedgerTypeOK, BookTypeOK, Books
<1>1. n \in Uint64 /\ left \in SpProfit
  <2>1. spProfit[asset] \in SpProfit
    BY DEF RoundsTypeOK
  <2> QED
    BY <2>1, ClaimTyped
<1>2. /\ DoWithdraw(asset, GovernanceCtrAccount, GovernanceCtrAccount, n)
      /\ spProfit' = [spProfit EXCEPT ![asset] = left]
      /\ UNCHANGED <<contextVars, currentRound>>
  BY DEF ClaimSpProfit
<1> HIDE DEF n, left
<1>3. Accounting(asset, -n, cash)
  BY <1>0, <1>1, <1>2, WithdrawAccounting
<1>4. -n \in Int /\ cash \in Int /\ InOrOut(n, -n, cash)
  BY <1>1, WidthAssumption DEF Uint64, InOrOut
<1> HIDE DEF cash
<1>5. Accounted
  BY <1>1, <1>3, <1>4 DEF Accounted
<1>6. BookTypeOK'
  BY <1>3 DEF Accounting
<1>7. LedgerTypeOK'
  BY <1>2, <1>6 DEF LedgerTypeOK, BookTypeOK, Books, contextVars
<1>8. RoundsTypeOK'
  BY <1>1, <1>2 DEF RoundsTypeOK
<1> QED
  BY <1>5, <1>7, <1>8

\* The steps of the governance contract keep the types and add up.
LEMMA GovernanceEffect ==
  ASSUME LedgerTypeOK, RoundsTypeOK, GovernanceStep
  PROVE  LedgerTypeOK' /\ RoundsTypeOK' /\ Accounted
<1>1. ASSUME NEW round \in Rounds, EpochEnd(round)
      PROVE  LedgerTypeOK' /\ RoundsTypeOK' /\ Accounted
  BY <1>1 DEF EpochEnd, ledgerVars, LedgerTypeOK, RoundsTypeOK, Accounted, bookVars
<1>2. ASSUME NEW asset \in Assets, ClaimSpProfit(asset)
      PROVE  LedgerTypeOK' /\ RoundsTypeOK' /\ Accounted
  BY <1>2, ClaimEffect
<1> QED
  BY <1>1, <1>2 DEF GovernanceStep

\* Cancelling touches orders only.
LEMMA CancelingEffect ==
  ASSUME TradingTypeOK, Canceling
  PROVE  /\ UNCHANGED <<ledgerVars, governanceVars>>
         /\ OrdersTypeOK'
         /\ \A order \in Orders :
              /\ orderState'[order].Filled = orderState[order].Filled
              /\ orderState[order].Canceled => orderState'[order].Canceled
              /\ cancelNumber'[order.User] >= cancelNumber[order.User]
<1>0. /\ orderState \in [Orders -> OrderState] /\ cancelNumber \in [Accounts -> Uint64]
      /\ \A acc \in Accounts : cancelNumber[acc] \in Int
      /\ \A order \in Orders : order.User \in Accounts
      /\ \A number \in CancelNumbers : number \in Uint64 /\ number \in Int
  BY OrdersAssumption, WidthAssumption
     DEF TradingTypeOK, OrdersTypeOK, OrderData, Uint64
<1>1. ASSUME NEW canceled \in Orders, CancelOrder(canceled)
      PROVE  /\ UNCHANGED <<ledgerVars, governanceVars>>
             /\ OrdersTypeOK'
             /\ \A order \in Orders :
                  /\ orderState'[order].Filled = orderState[order].Filled
                  /\ orderState[order].Canceled => orderState'[order].Canceled
                  /\ cancelNumber'[order.User] >= cancelNumber[order.User]
  <2>1. /\ orderState' = [orderState EXCEPT ![canceled].Canceled = TRUE]
        /\ cancelNumber' = cancelNumber
        /\ UNCHANGED <<ledgerVars, governanceVars>>
    BY <1>1 DEF CancelOrder
  <2>2. ASSUME NEW order \in Orders
        PROVE  /\ orderState'[order] \in OrderState
               /\ orderState'[order].Filled = orderState[order].Filled
               /\ orderState[order].Canceled => orderState'[order].Canceled
               /\ cancelNumber'[order.User] >= cancelNumber[order.User]
    <3>1. orderState[order] \in OrderState
      BY <1>0
    <3>2. orderState'[order] = IF order = canceled
                               THEN [orderState[order] EXCEPT !.Canceled = TRUE]
                               ELSE orderState[order]
      BY <1>0, <2>1
    <3>3. cancelNumber'[order.User] >= cancelNumber[order.User]
      BY <1>0, <2>1
    <3> QED
      BY <3>1, <3>2, <3>3 DEF OrderState
  <2>3. orderState' \in [Orders -> OrderState]
    BY <1>0, <2>1, <2>2
  <2> QED
    BY <1>0, <2>1, <2>2, <2>3 DEF OrdersTypeOK
<1>2. ASSUME NEW relay \in Accounts, NEW user \in Accounts, NEW number \in CancelNumbers,
             DelegateCancelOrder(relay, user, number)
      PROVE  /\ UNCHANGED <<ledgerVars, governanceVars>>
             /\ OrdersTypeOK'
             /\ \A order \in Orders :
                  /\ orderState'[order].Filled = orderState[order].Filled
                  /\ orderState[order].Canceled => orderState'[order].Canceled
                  /\ cancelNumber'[order.User] >= cancelNumber[order.User]
  BY <1>0, <1>2 DEF DelegateCancelOrder, HigherNumber, OrdersTypeOK
<1> QED
  BY <1>1, <1>2 DEF Canceling

\* Every step of the component keeps the types.
LEMMA TradingStepTypes ==
  ASSUME TradingTypeOK, [TradingNext]_tradingSpecVars
  PROVE  TradingTypeOK'
<1>0. BookTypeOK
  BY DEF TradingTypeOK, LedgerTypeOK, BookTypeOK, Books
<1>1. CASE LedgerNext /\ UNCHANGED <<governanceVars, orderVars>>
  <2>1. LedgerTypeOK'
    BY <1>0, <1>1, LedgerStepAccounted, AccountedStep, LedgerStepTypes DEF TradingTypeOK
  <2> QED
    BY <1>1, <2>1
       DEF TradingTypeOK, RoundsTypeOK, OrdersTypeOK, governanceVars, orderVars
<1>2. CASE GovernanceStep /\ UNCHANGED orderVars
  BY <1>2, GovernanceEffect DEF TradingTypeOK, OrdersTypeOK, orderVars
<1>3. ASSUME NEW maker \in Orders, NEW taker \in Orders, NEW relay \in Accounts,
             NEW amount \in Uint64, Trade(maker, taker, relay, amount)
      PROVE  TradingTypeOK'
  BY <1>3, TradeTypes
<1>4. CASE Canceling
  BY <1>4, CancelingEffect
     DEF TradingTypeOK, LedgerTypeOK, RoundsTypeOK, ledgerVars, governanceVars
<1>5. CASE UNCHANGED tradingSpecVars
  BY <1>5 DEF tradingSpecVars, TradingTypeOK, LedgerTypeOK, RoundsTypeOK, OrdersTypeOK,
              ledgerVars, governanceVars, orderVars
<1> QED
  BY <1>1, <1>2, <1>3, <1>4, <1>5 DEF TradingNext, TradingStep

\* The initial state has the types, nothing filled and nothing owed.
LEMMA TradingInitOK ==
  ASSUME TradingInit
  PROVE  TradingTypeOK /\ BookTypeOK /\ Solvent /\ Promise!Init
<1>1. RoundsTypeOK
  BY RoundsAssumption, WidthAssumption
     DEF TradingInit, RoundsInit, RoundsTypeOK, NoProfit, SpProfit, Uint32, Uint64
<1>2. OrdersTypeOK
  BY WidthAssumption DEF TradingInit, OrdersInit, OrdersTypeOK, OrderState, Uint64
<1> QED
  BY <1>1, <1>2, LedgerInitOK DEF TradingInit, TradingTypeOK
-----------------------------------------------------------------------------
(* What orders keep.                                                       *)

FilledIn(fill, base, quote, side) ==
  SumFunctionOnSet(fill,
    {order \in Orders : order.Base = base /\ order.Quote = quote /\ order.Side = side})

\* Two orders are filled by the same amount, and no others.
BothFilled(fill, after, amount, one, two) ==
  /\ \A order \in Orders : fill[order] \in Int
  /\ after[one] = fill[one] + amount
  /\ after[two] = fill[two] + amount
  /\ \A order \in Orders \ {one, two} : after[order] = fill[order]

OnPair(order, base, quote, amount) ==
  IF order.Base = base /\ order.Quote = quote THEN amount ELSE 0

\* If only one of them is on a side, that side's fills grow by its amount.
LEMMA SideFilled ==
  ASSUME NEW fill, NEW after, NEW amount \in Int, NEW base, NEW quote, NEW side,
         NEW mine \in Orders, NEW other \in Orders, mine.Side = side, other.Side # side,
         BothFilled(fill, after, amount, mine, other)
  PROVE  /\ FilledIn(fill, base, quote, side) \in Int
         /\ FilledIn(after, base, quote, side)
              = FilledIn(fill, base, quote, side) + OnPair(mine, base, quote, amount)
<1> DEFINE S == {order \in Orders :
                   order.Base = base /\ order.Quote = quote /\ order.Side = side}
<1>1. IsFiniteSet(S) /\ S \subseteq Orders /\ other \notin S
  <2>1. S \subseteq Orders /\ IsFiniteSet(Orders)
    BY OrdersAssumption
  <2> QED
    BY <2>1, FS_Subset
<1>2. mine \in S <=> mine.Base = base /\ mine.Quote = quote
  OBVIOUS
<1>3. /\ FilledIn(fill, base, quote, side) = SumFunctionOnSet(fill, S)
      /\ FilledIn(after, base, quote, side) = SumFunctionOnSet(after, S)
  BY DEF FilledIn
<1> HIDE DEF S
<1>4. (\A order \in S : fill[order] \in Int) /\ after[mine] = fill[mine] + amount
  BY <1>1 DEF BothFilled
<1>5. \A order \in S \ {mine} : after[order] = fill[order]
  BY <1>1 DEF BothFilled
<1>6. /\ SumFunctionOnSet(fill, S) \in Int
      /\ SumFunctionOnSet(after, S)
           = SumFunctionOnSet(fill, S) + IF mine \in S THEN amount ELSE 0
  BY <1>1, <1>4, <1>5, SumShift
<1> QED
  BY <1>2, <1>3, <1>6 DEF OnPair

\* So the two sides of every pair stay equal.
LEMMA SidesFilled ==
  ASSUME NEW fill, NEW after, NEW amount \in Int, NEW base, NEW quote,
         NEW buyer \in Orders, NEW seller \in Orders,
         buyer.Side = "buy", seller.Side = "sell",
         buyer.Base = seller.Base, buyer.Quote = seller.Quote,
         BothFilled(fill, after, amount, buyer, seller),
         FilledIn(fill, base, quote, "buy") = FilledIn(fill, base, quote, "sell")
  PROVE  FilledIn(after, base, quote, "buy") = FilledIn(after, base, quote, "sell")
<1>0. /\ seller.Side # "buy" /\ buyer.Side # "sell"
      /\ BothFilled(fill, after, amount, seller, buyer)
  BY DEF BothFilled
<1>1. FilledIn(after, base, quote, "buy") = FilledIn(fill, base, quote, "buy")
        + OnPair(buyer, base, quote, amount)
  BY <1>0, SideFilled
<1>2. FilledIn(after, base, quote, "sell") = FilledIn(fill, base, quote, "sell")
        + OnPair(seller, base, quote, amount)
  BY <1>0, SideFilled
<1>3. OnPair(buyer, base, quote, amount) = OnPair(seller, base, quote, amount)
  BY DEF OnPair
<1> QED
  BY <1>1, <1>2, <1>3, Zenon

OrdersKept == FilledWithinAmount /\ SidesBalance

\* A step that fills nothing keeps both.
LEMMA NothingFilled ==
  ASSUME OrdersTypeOK, OrdersKept,
         \A order \in Orders : orderState'[order].Filled = orderState[order].Filled
  PROVE  OrdersKept'
<1>1. FilledWithinAmount'
  BY DEF OrdersKept, FilledWithinAmount
<1>2. [order \in Orders |-> orderState'[order].Filled]
        = [order \in Orders |-> orderState[order].Filled]
  OBVIOUS
<1>3. SidesBalance'
  BY <1>2 DEF OrdersKept, SidesBalance, FilledOf
<1> QED
  BY <1>1, <1>3 DEF OrdersKept

\* So does a trade.
LEMMA TradeKeepsOrders ==
  ASSUME TradingTypeOK, OrdersKept, NEW maker \in Orders, NEW taker \in Orders,
         NEW relay \in Accounts, NEW amount \in Uint64, Trade(maker, taker, relay, amount)
  PROVE  OrdersKept'
<1> DEFINE fill == [order \in Orders |-> orderState[order].Filled]
           after == [order \in Orders |-> orderState'[order].Filled]
<1>1. /\ maker.Base = taker.Base /\ maker.Quote = taker.Quote
      /\ {maker.Side, taker.Side} = {"buy", "sell"}
      /\ \A order \in {maker, taker} : orderState[order].Filled + amount <= order.Amount
  BY TradedOrders
<1>2. amount \in Int /\ \A order \in Orders :
        /\ orderState[order].Filled \in Int
        /\ orderState'[order].Filled
             = orderState[order].Filled + IF order \in {maker, taker} THEN amount ELSE 0
  BY TradeFills, WidthAssumption DEF TradingTypeOK, OrdersTypeOK, OrderState, Uint64
<1>3. FilledWithinAmount'
  <2>1. \A order \in Orders : orderState[order].Filled <= order.Amount
    BY DEF OrdersKept, FilledWithinAmount
  <2>2. ASSUME NEW order \in Orders PROVE orderState'[order].Filled <= order.Amount
    <3>1. CASE order \in {maker, taker}
      BY <1>1, <1>2, <3>1
    <3>2. CASE order \notin {maker, taker}
      BY <1>2, <2>1, <3>2
    <3> QED
      BY <3>1, <3>2
  <2> QED
    BY <2>2 DEF FilledWithinAmount
<1>4. /\ BothFilled(fill, after, amount, maker, taker)
      /\ BothFilled(fill, after, amount, taker, maker)
  BY <1>2 DEF BothFilled
<1>5. ASSUME NEW base \in Assets, NEW quote \in Assets
      PROVE  FilledOf(base, quote, "buy")' = FilledOf(base, quote, "sell")'
  <2>1. \A side : /\ FilledOf(base, quote, side) = FilledIn(fill, base, quote, side)
                  /\ FilledOf(base, quote, side)' = FilledIn(after, base, quote, side)
    BY DEF FilledOf, FilledIn
  <2>2. FilledIn(fill, base, quote, "buy") = FilledIn(fill, base, quote, "sell")
    BY <2>1 DEF OrdersKept, SidesBalance
  <2> HIDE DEF fill, after
  <2>3. FilledIn(after, base, quote, "buy") = FilledIn(after, base, quote, "sell")
    <3>1. CASE maker.Side = "buy" /\ taker.Side = "sell"
      BY <1>1, <1>2, <1>4, <2>2, <3>1, SidesFilled
    <3>2. CASE maker.Side = "sell" /\ taker.Side = "buy"
      BY <1>1, <1>2, <1>4, <2>2, <3>2, SidesFilled
    <3> QED
      BY <1>1, <3>1, <3>2
  <2> QED
    BY <2>1, <2>3
<1> QED
  BY <1>3, <1>5 DEF OrdersKept, SidesBalance

\* Every step of the component keeps what orders keep.
LEMMA TradingStepOrders ==
  ASSUME TradingTypeOK, OrdersKept, [TradingNext]_tradingSpecVars
  PROVE  OrdersKept'
<1>1. CASE UNCHANGED orderVars
  BY <1>1, NothingFilled DEF orderVars, TradingTypeOK
<1>2. ASSUME NEW maker \in Orders, NEW taker \in Orders, NEW relay \in Accounts,
             NEW amount \in Uint64, Trade(maker, taker, relay, amount)
      PROVE  OrdersKept'
  BY <1>2, TradeKeepsOrders
<1>3. CASE Canceling
  BY <1>3, CancelingEffect, NothingFilled DEF TradingTypeOK
<1> QED
  BY <1>1, <1>2, <1>3 DEF TradingNext, TradingStep, tradingSpecVars

\* Nothing is filled to begin with.
LEMMA TradingInitOrders ==
  ASSUME TradingInit
  PROVE  OrdersKept
<1> DEFINE fill == [order \in Orders |-> orderState[order].Filled]
<1>1. \A order \in Orders : orderState[order].Filled = 0 /\ order.Amount \in Nat
  BY OrdersAssumption, WidthAssumption DEF TradingInit, OrdersInit, OrderData, Uint64
<1>2. FilledWithinAmount
  BY <1>1 DEF FilledWithinAmount
<1>3. ASSUME NEW base \in Assets, NEW quote \in Assets, NEW side
      PROVE  FilledOf(base, quote, side) = 0
  <2> DEFINE S == {order \in Orders :
                     order.Base = base /\ order.Quote = quote /\ order.Side = side}
  <2>1. IsFiniteSet(S) /\ \A order \in S : fill[order] = 0
    <3>1. S \subseteq Orders /\ IsFiniteSet(Orders)
      BY OrdersAssumption
    <3> QED
      BY <1>1, <3>1, FS_Subset
  <2>2. FilledOf(base, quote, side) = SumFunctionOnSet(fill, S)
    BY DEF FilledOf
  <2> HIDE DEF S, fill
  <2> DEFINE none == [order \in S |-> 0]
  <2>3. (\A order \in S : none[order] \in Int /\ fill[order] = none[order])
    BY <2>1
  <2>4. SumFunctionOnSet(none, S) = 0
    BY <2>1, SumZero
  <2> HIDE DEF none
  <2>5. SumFunctionOnSet(fill, S) = SumFunctionOnSet(none, S)
    BY <2>1, <2>3, SumSame
  <2> QED
    BY <2>2, <2>4, <2>5
<1> QED
  BY <1>2, <1>3 DEF OrdersKept, SidesBalance

\* Time and cancellations only move forward, and a trade needs live orders.
LEMMA DeadStay ==
  ASSUME TradingTypeOK, [TradingNext]_tradingSpecVars, NEW order \in Orders, Dead(order)
  PROVE  Dead(order)' /\ orderState'[order].Filled = orderState[order].Filled
<1> DEFINE Later == timestamp' >= timestamp
           Moved == /\ orderState[order].Canceled => orderState'[order].Canceled
                    /\ cancelNumber'[order.User] >= cancelNumber[order.User]
<1>0. /\ order.Expire \in Int /\ order.Salt \in Int /\ order.User \in Accounts
      /\ timestamp \in Int /\ cancelNumber[order.User] \in Int
  BY OrdersAssumption, WidthAssumption
     DEF OrderData, TradingTypeOK, LedgerTypeOK, OrdersTypeOK, Uint64, Uint32
<1>1. TradingTypeOK'
  BY TradingStepTypes
<1>2. timestamp' \in Int /\ cancelNumber'[order.User] \in Int
  BY <1>0, <1>1, WidthAssumption DEF TradingTypeOK, LedgerTypeOK, OrdersTypeOK, Uint64, Uint32
<1>3. Later /\ Moved => Dead(order)'
  BY <1>0, <1>2 DEF Dead, IsExpired, IsCanceled, IsCanceledByRelay
<1>4. UNCHANGED timestamp => Later
  BY <1>0
<1>5. UNCHANGED orderVars => Moved /\ orderState'[order].Filled = orderState[order].Filled
  BY <1>0 DEF orderVars
<1>6. CASE LedgerNext /\ UNCHANGED <<governanceVars, orderVars>>
  <2>1. Later
    BY <1>0, <1>2, <1>4, <1>6, WidthAssumption
       DEF LedgerNext, Deposit, Withdraw, PayOutside, SetRelay, Tick, UpdateParams,
           contextVars, Uint32
  <2> QED
    BY <1>3, <1>5, <1>6, <2>1
<1>7. CASE GovernanceStep /\ UNCHANGED orderVars
  <2>1. UNCHANGED timestamp
    BY <1>7 DEF GovernanceStep, EpochEnd, ClaimSpProfit, ledgerVars, contextVars
  <2> QED
    BY <1>3, <1>4, <1>5, <1>7, <2>1
<1>8. ASSUME NEW maker \in Orders, NEW taker \in Orders, NEW relay \in Accounts,
             NEW amount \in Uint64, Trade(maker, taker, relay, amount)
      PROVE  Dead(order)' /\ orderState'[order].Filled = orderState[order].Filled
  <2>1. order \notin {maker, taker}
    BY <1>8, TradedOrders DEF Tradable, Dead
  <2>2. UNCHANGED timestamp /\ UNCHANGED cancelNumber
    BY <1>8 DEF Trade, contextVars
  <2>3. /\ orderState'[order].Canceled = orderState[order].Canceled
        /\ orderState'[order].Filled = orderState[order].Filled + 0
    BY <1>8, <2>1, TradeFills
  <2>4. orderState[order].Filled \in Int
    BY WidthAssumption DEF TradingTypeOK, OrdersTypeOK, OrderState, Uint64
  <2>5. Moved
    BY <1>0, <2>2, <2>3
  <2> HIDE DEF Moved
  <2> QED
    BY <1>3, <1>4, <2>2, <2>3, <2>4, <2>5
<1>9. CASE Canceling
  <2>1. Moved /\ orderState'[order].Filled = orderState[order].Filled
    BY <1>9, CancelingEffect
  <2>2. UNCHANGED timestamp
    BY <1>9, CancelingEffect DEF ledgerVars
  <2> HIDE DEF Moved, Later
  <2> QED
    BY <1>3, <1>4, <2>1, <2>2
<1>10. CASE UNCHANGED tradingSpecVars
  <2>1. UNCHANGED timestamp /\ UNCHANGED orderVars
    BY <1>10 DEF tradingSpecVars, ledgerVars
  <2> HIDE DEF Moved, Later
  <2> QED
    BY <1>3, <1>4, <1>5, <2>1
<1> QED
  BY <1>6, <1>7, <1>8, <1>9, <1>10 DEF TradingNext, TradingStep
-----------------------------------------------------------------------------
(* Types are kept by every behaviour: no booking, fee, fill or counter     *)
(* leaves its width unchecked.                                             *)
THEOREM TradingTypeCorrect == TradingSpec => []TradingTypeOK
<1>1. TradingInit => TradingTypeOK
  BY TradingInitOK
<1>2. TradingTypeOK /\ [TradingNext]_tradingSpecVars => TradingTypeOK'
  BY TradingStepTypes
<1> QED
  BY <1>1, <1>2, PTL DEF TradingSpec

\* The inductive invariant of orders.
LEMMA OrdersInvariant == TradingSpec => [](TradingTypeOK /\ OrdersKept)
<1>1. TradingInit => TradingTypeOK /\ OrdersKept
  BY TradingInitOK, TradingInitOrders
<1>2. TradingTypeOK /\ OrdersKept /\ [TradingNext]_tradingSpecVars
        => (TradingTypeOK /\ OrdersKept)'
  BY TradingStepTypes, TradingStepOrders
<1> QED
  BY <1>1, <1>2, PTL DEF TradingSpec

(* No order is ever filled beyond its amount, in whatever trades it takes  *)
(* part, as maker or as taker.                                             *)
THEOREM OrdersNotOverfilled == TradingSpec => []FilledWithinAmount
<1>1. TradingTypeOK /\ OrdersKept => FilledWithinAmount
  BY DEF OrdersKept
<1> QED
  BY <1>1, OrdersInvariant, PTL

(* The buyers of a pair have bought what its sellers have sold.            *)
THEOREM SidesStayEqual == TradingSpec => []SidesBalance
<1>1. TradingTypeOK /\ OrdersKept => SidesBalance
  BY DEF OrdersKept
<1> QED
  BY <1>1, OrdersInvariant, PTL

(* A canceled or expired order is never filled again and never revived.    *)
THEOREM DeadOrdersAreFinal == TradingSpec => DeadOrdersStayDead
<1>1. TradingTypeOK /\ [TradingNext]_tradingSpecVars =>
        [\A order \in Orders : Dead(order) =>
           Dead(order)' /\ orderState'[order].Filled = orderState[order].Filled
        ]_tradingSpecVars
  BY DeadStay
<1> QED
  BY <1>1, TradingTypeCorrect, PTL DEF TradingSpec, DeadOrdersStayDead
-----------------------------------------------------------------------------
(* Solvency.  What a side pays in fees is the sum of two rates, and the    *)
(* contract checks one of them alone: where the sum exceeds FeeBase the    *)
(* net receipt wraps and the book owes what nobody paid in.  The theorems  *)
(* below are about rates that fit: the prime discount is at most all of    *)
(* the fee, and no signed order's rate and a system rate add up to more    *)
(* than FeeBase.                                                           *)

RatesFit ==
  \A params \in ParamValues :
    /\ params.PrimeFeeDiscountPercent <= PercentBase
    /\ \A order \in Orders : SignedOrder(order) =>
         /\ params.TakerSysFeeRate + order.TakerFeeRate <= FeeBase
         /\ params.MakerSysFeeRate + order.MakerFeeRate <= FeeBase

\* A share of an amount, at a rate of so many parts in so many.
LEMMA ShareBound ==
  ASSUME NEW get \in Nat, NEW rate \in Nat, NEW base \in Nat \ {0}
  PROVE  /\ (get * rate) \div base \in Nat
         /\ ((get * rate) \div base) * base <= get * rate
<1>1. get * rate \in Nat
  BY ProductFacts
<1> QED
  BY <1>1, QuotientFacts

\* The system fee, discounted or not, is no more than its rate of the amount.
LEMMA SysFeeBound ==
  ASSUME NEW get \in Nat, NEW rate \in Nat, NEW discount \in Nat, NEW prime,
         discount <= PercentBase
  PROVE  /\ SysFee(get, rate, prime, discount) \in Nat
         /\ SysFee(get, rate, prime, discount) * FeeBase <= get * rate
<1> DEFINE F == FeeBase
           P == PercentBase
           whole == get * rate
           cut == (whole * discount) \div (F * P)
<1>0. F \in Nat \ {0} /\ P \in Nat \ {0} /\ whole \in Nat /\ P \in Nat /\ F \in Nat
  BY ScaleAssumption, ProductFacts
<1>1. SysFee(get, rate, prime, discount) = IF prime THEN cut ELSE whole \div F
  BY DEF SysFee
<1>2. whole \div F \in Nat /\ (whole \div F) * F <= whole
  BY <1>0, ShareBound
<1> HIDE DEF whole, F, P
<1>3. cut \in Nat /\ cut * F <= whole
  <2>1. F * P \in Nat \ {0} /\ whole * discount \in Nat
    <3>1. whole * discount \in Nat
      BY <1>0, ProductFacts
    <3>2. F * P \in Nat \ {0}
      BY <1>0
    <3> QED
      BY <3>1, <3>2
  <2>2. cut \in Nat /\ cut * (F * P) <= whole * discount
    BY <2>1, QuotientFacts
  <2> HIDE DEF cut
  <2>3. whole * discount <= whole * P
    <3>1. discount * whole <= P * whole
      BY <1>0, ProductFacts DEF P
    <3>2. discount * whole = whole * discount /\ P * whole = whole * P
      BY <1>0
    <3> QED
      BY <3>1, <3>2
  <2>4. cut * (F * P) = (cut * F) * P
    BY <1>0, <2>2
  <2>5. cut * F \in Nat /\ (cut * F) * P \in Nat /\ whole * P \in Nat
    BY <1>0, <2>2, ProductFacts
  <2>6. (cut * F) * P <= whole * P
    BY <2>1, <2>2, <2>3, <2>4, <2>5
  <2> DEFINE c == cut * F
  <2>7. c \in Nat /\ c * P <= whole * P
    BY <2>5, <2>6
  <2> HIDE DEF c
  <2>8. c <= whole
    <3> SUFFICES ASSUME ~(c <= whole) PROVE FALSE
      OBVIOUS
    <3>1. whole + 1 <= c /\ whole + 1 \in Nat
      BY <1>0, <2>7
    <3>2. (whole + 1) * P <= c * P
      BY <1>0, <2>7, <3>1, ProductFacts
    <3>3. (whole + 1) * P = whole * P + P
      BY <1>0
    <3>4. c * P \in Nat /\ whole * P \in Nat
      BY <1>0, <2>7, ProductFacts
    <3> QED
      BY <1>0, <2>7, <3>2, <3>3, <3>4
  <2> QED
    BY <2>2, <2>8 DEF c
<1> HIDE DEF cut
<1> QED
  BY <1>1, <1>2, <1>3 DEF F, whole

\* If the rates fit, the fees of a receipt are no more than the receipt.
LEMMA FeesWithinReceipt ==
  ASSUME NEW get \in Nat, NEW sys \in Nat, NEW rate \in Nat, NEW discount \in Nat, NEW prime,
         discount <= PercentBase, sys + rate <= FeeBase
  PROVE  /\ SysFee(get, sys, prime, discount) \in Nat /\ ChannelFee(get, rate) \in Nat
         /\ SysFee(get, sys, prime, discount) + ChannelFee(get, rate) <= get
<1> DEFINE F == FeeBase
           s == SysFee(get, sys, prime, discount)
           c == ChannelFee(get, rate)
<1>0. F \in Nat \ {0} /\ F \in Nat
  BY ScaleAssumption
<1>1. s \in Nat /\ s * F <= get * sys
  BY SysFeeBound
<1>2. c \in Nat /\ c * F <= get * rate
  BY <1>0, ShareBound DEF ChannelFee
<1>3. sys + rate <= F
  OBVIOUS
<1> HIDE DEF F, s, c
<1>4. s + c <= get
  <2> SUFFICES ASSUME ~(s + c <= get) PROVE FALSE
    OBVIOUS
  <2>1. get + 1 <= s + c /\ get + 1 \in Nat /\ s + c \in Nat
    BY <1>1, <1>2
  <2>2. (get + 1) * F <= (s + c) * F
    BY <1>0, <2>1, ProductFacts
  <2>3. (get + 1) * F = get * F + F
    BY <1>0
  <2>4. (s + c) * F = s * F + c * F
    BY <1>0, <1>1, <1>2, ProductFacts
  <2>5. get * sys + get * rate = (sys + rate) * get
    BY <1>0
  <2>6. (sys + rate) * get <= F * get
    BY <1>0, <1>3, ProductFacts
  <2>7. F * get = get * F
    BY <1>0
  <2>8. /\ s * F \in Int /\ c * F \in Int /\ get * sys \in Int /\ get * rate \in Int
        /\ get * F \in Int
    BY <1>0, <1>1, <1>2, ProductFacts
  <2> QED
    BY <1>0, <1>1, <1>2, <2>2, <2>3, <2>4, <2>5, <2>6, <2>7, <2>8
<1> QED
  BY <1>1, <1>2, <1>4 DEF s, c

\* Then nothing wraps, and net receipt and fees add up to the receipt.
LEMMA LegAddsUp ==
  ASSUME NEW get \in Nat, get <= MaxUint64, NEW s \in Nat, NEW c \in Nat, s + c <= get
  PROVE  /\ WrapUint64(s) = s /\ WrapUint64(c) = c /\ WrapUint64(s + c) = s + c
         /\ WrapUint64(get - (s + c)) = get - (s + c)
<1>1. /\ s <= MaxUint64 /\ s + c <= MaxUint64 /\ get - (s + c) <= MaxUint64
      /\ c <= MaxUint64 /\ s + c \in Nat /\ get - (s + c) \in Nat /\ MaxUint64 \in Nat
  BY WidthAssumption
<1> QED
  BY <1>1, CutFits DEF WrapUint64

\* A trade between orders whose rates fit moves balances inside the book.
LEMMA TradeAddsUp ==
  ASSUME RatesFit, LedgerTypeOK, NEW maker \in Orders, NEW taker \in Orders,
         SignedOrder(maker), SignedOrder(taker),
         NEW amount \in Uint64, MatchOrder(maker, taker, amount)
  PROVE  LET clear == countFee(maker, taker, amount)
         IN  TakerSum(clear) = 0 /\ MakerSum(clear) = 0
<1> DEFINE clear == countFee(maker, taker, amount)
           tGet == clear.takerGets.amount
           mGet == clear.makerGets.amount
           discount == globalParams.PrimeFeeDiscountPercent
           tSys == SysFee(tGet, globalParams.TakerSysFeeRate, taker.User \in PrimeUsers, discount)
           mSys == SysFee(mGet, globalParams.MakerSysFeeRate, maker.User \in PrimeUsers, discount)
           tChannel == ChannelFee(tGet, taker.TakerFeeRate)
           mChannel == ChannelFee(mGet, maker.MakerFeeRate)
<1>1. tGet \in Nat /\ mGet \in Nat /\ tGet <= MaxUint64 /\ mGet <= MaxUint64
  BY ClearTyped, WidthAssumption DEF ClearOK, Leg, Uint64
<1>2. /\ clear.TakerSysFee = WrapUint64(tSys) /\ clear.MakerSysFee = WrapUint64(mSys)
      /\ clear.TakerChannelFee = WrapUint64(tChannel)
      /\ clear.MakerChannelFee = WrapUint64(mChannel)
      /\ clear.TakerFee = WrapUint64(clear.TakerSysFee + clear.TakerChannelFee)
      /\ clear.MakerFee = WrapUint64(clear.MakerSysFee + clear.MakerChannelFee)
  BY DEF countFee
<1> HIDE DEF clear
<1>3. /\ globalParams \in ParamValues
      /\ globalParams.TakerSysFeeRate \in Nat /\ globalParams.MakerSysFeeRate \in Nat
      /\ discount \in Nat
      /\ taker.TakerFeeRate \in Nat /\ maker.MakerFeeRate \in Nat
  BY OrdersAssumption, ContextAssumption, WidthAssumption
     DEF LedgerTypeOK, GlobalParams, OrderData, Uint32
<1>4. /\ discount <= PercentBase
      /\ globalParams.TakerSysFeeRate + taker.TakerFeeRate <= FeeBase
      /\ globalParams.MakerSysFeeRate + maker.MakerFeeRate <= FeeBase
  BY <1>3 DEF RatesFit
<1> HIDE DEF tGet, mGet, discount
<1>5. /\ tSys \in Nat /\ tChannel \in Nat /\ tSys + tChannel <= tGet
      /\ mSys \in Nat /\ mChannel \in Nat /\ mSys + mChannel <= mGet
  BY <1>1, <1>3, <1>4, FeesWithinReceipt
<1> HIDE DEF tSys, mSys, tChannel, mChannel
<1>6. /\ clear.TakerSysFee = tSys /\ clear.TakerChannelFee = tChannel
      /\ WrapUint64(tSys + tChannel) = tSys + tChannel
      /\ WrapUint64(tGet - (tSys + tChannel)) = tGet - (tSys + tChannel)
  BY <1>1, <1>2, <1>5, LegAddsUp
<1>7. /\ clear.MakerSysFee = mSys /\ clear.MakerChannelFee = mChannel
      /\ WrapUint64(mSys + mChannel) = mSys + mChannel
      /\ WrapUint64(mGet - (mSys + mChannel)) = mGet - (mSys + mChannel)
  BY <1>1, <1>2, <1>5, LegAddsUp
<1>8. /\ Receipts(clear).taker = WrapUint64(tGet - clear.TakerFee)
      /\ Receipts(clear).maker = WrapUint64(mGet - clear.MakerFee)
  BY DEF Receipts, Net, tGet, mGet
<1>9. Receipts(clear).taker = tGet - (tSys + tChannel)
  BY <1>2, <1>6, <1>8
<1>10. Receipts(clear).maker = mGet - (mSys + mChannel)
  BY <1>2, <1>7, <1>8
<1>11. TakerSum(clear) = 0
  <2>1. TakerSum(clear) = (tGet - (tSys + tChannel)) - tGet + tChannel + tSys
    BY <1>6, <1>9 DEF TakerSum, tGet
  <2> QED
    BY <1>1, <1>5, <2>1
<1>12. MakerSum(clear) = 0
  <2>1. MakerSum(clear) = (mGet - (mSys + mChannel)) - mGet + mChannel + mSys
    BY <1>7, <1>10 DEF MakerSum, mGet
  <2> QED
    BY <1>1, <1>5, <2>1
<1> QED
  BY <1>11, <1>12 DEF clear

\* So it adds up.
LEMMA TradeAccounted ==
  ASSUME RatesFit, LedgerTypeOK, NEW maker \in Orders, NEW taker \in Orders,
         NEW relay \in Accounts, NEW amount \in Uint64, Trade(maker, taker, relay, amount)
  PROVE  Accounted
<1> DEFINE clear == countFee(maker, taker, amount)
<1>0. /\ BookTypeOK
      /\ MatchOrder(maker, taker, amount)
      /\ SignedOrder(maker) /\ SignedOrder(taker)
      /\ updateBalance(maker, taker, clear)
      /\ UNCHANGED wallet
  BY DEF LedgerTypeOK, BookTypeOK, Books, Trade, verify, Tradable
<1>1. ClearOK(clear)
  BY <1>0, ClearTyped
<1>2. TakerSum(clear) = 0 /\ MakerSum(clear) = 0
  BY <1>0, TradeAddsUp
<1> HIDE DEF clear
<1>3. /\ balance' \in [Assets -> Books]
      /\ \A asset \in Assets :
           Total(balance'[asset]) = Total(balance[asset])
             + Part(asset, clear.takerGets.asset, TakerSum(clear))
             + Part(asset, clear.makerGets.asset, MakerSum(clear))
  BY <1>0, <1>1, TradeBooks
<1>4. ASSUME NEW asset \in Assets PROVE Total(balance'[asset]) = Total(balance[asset])
  <2>1. Total(balance[asset]) \in Int
    BY <1>0, TotalBounds DEF BookTypeOK
  <2>2. \A whom : Part(asset, whom, 0) = 0
    BY DEF Part
  <2> QED
    BY <1>2, <1>3, <2>1, <2>2
<1> QED
  BY <1>0, <1>3, <1>4 DEF Accounted, Rebooked, BookTypeOK

\* Every step of the component adds up.
LEMMA TradingStepAccounted ==
  ASSUME RatesFit, TradingTypeOK, [TradingNext]_tradingSpecVars
  PROVE  Accounted
<1>1. CASE LedgerNext
  BY <1>1, LedgerStepAccounted DEF TradingTypeOK, LedgerTypeOK, BookTypeOK, Books
<1>2. CASE GovernanceStep
  BY <1>2, GovernanceEffect DEF TradingTypeOK
<1>3. ASSUME NEW maker \in Orders, NEW taker \in Orders, NEW relay \in Accounts,
             NEW amount \in Uint64, Trade(maker, taker, relay, amount)
      PROVE  Accounted
  BY <1>3, TradeAccounted DEF TradingTypeOK
<1>4. CASE Canceling
  BY <1>4, CancelingEffect DEF Accounted, ledgerVars, bookVars
<1>5. CASE UNCHANGED tradingSpecVars
  BY <1>5 DEF Accounted, tradingSpecVars, ledgerVars, bookVars
<1> QED
  BY <1>1, <1>2, <1>3, <1>4, <1>5 DEF TradingNext, TradingStep

\* One step keeps types and solvency and is a vault's step.
LEMMA TradingStepSolvent ==
  ASSUME RatesFit, TradingTypeOK, Solvent, [TradingNext]_tradingSpecVars
  PROVE  TradingTypeOK' /\ Solvent' /\ [Promise!Next]_(Promise!vaultVars)
BY TradingStepTypes, TradingStepAccounted, AccountedStep
   DEF TradingTypeOK, LedgerTypeOK, BookTypeOK, Books

(* If the rates fit, the DEX account can pay every balance in the book,    *)
(* whatever is deposited, traded, charged, claimed and withdrawn.          *)
THEOREM TradingSolvent ==
  ASSUME RatesFit
  PROVE  TradingSpec => []Solvent
<1>1. TradingInit => TradingTypeOK /\ Solvent
  BY TradingInitOK
<1>2. TradingTypeOK /\ Solvent /\ [TradingNext]_tradingSpecVars => (TradingTypeOK /\ Solvent)'
  BY TradingStepSolvent
<1> QED
  BY <1>1, <1>2, PTL DEF TradingSpec

(* And trading implements the vault: a trade is no step of it at all.      *)
THEOREM TradingKeepsPromise ==
  ASSUME RatesFit
  PROVE  TradingSpec => KeepsPromise
<1>1. TradingInit => TradingTypeOK /\ Solvent /\ Promise!Init
  BY TradingInitOK
<1>2. TradingTypeOK /\ Solvent /\ [TradingNext]_tradingSpecVars
        => (TradingTypeOK /\ Solvent)' /\ [Promise!Next]_(Promise!vaultVars)
  BY TradingStepSolvent
<1> QED
  BY <1>1, <1>2, PTL DEF TradingSpec, KeepsPromise, Promise!Spec
-----------------------------------------------------------------------------
(* What a trade is worth, and what it costs the two users.                 *)

\* The value of n base units at an order's own price is Value / Unit.
Value(order, n) == order.Price * n * Precision[order.Quote]
Unit(order) == Division * Precision[order.Base]

\* Values are natural, and grow with the amount and the price.
LEMMA ValueFacts ==
  ASSUME NEW order \in Orders, NEW n \in Nat
  PROVE  /\ Value(order, n) \in Nat /\ Unit(order) \in Nat \ {0}
         /\ Value(order, 0) = 0
         /\ \A m \in Nat : Value(order, n + m) = Value(order, n) + Value(order, m)
         /\ \A m \in Nat : n <= m => Value(order, n) <= Value(order, m)
         /\ \A other \in Orders : other.Price <= order.Price /\ other.Quote = order.Quote
              => Value(other, n) <= Value(order, n)
<1> DEFINE p == order.Price
           s == Precision[order.Quote]
<1>0. p \in Nat /\ s \in Nat /\ \A other \in Orders : other.Price \in Nat
  BY OrdersAssumption, WidthAssumption DEF OrderData, Uint64
<1>1. \A m \in Nat : Value(order, m) = (p * m) * s
  BY DEF Value
<1>2. Unit(order) \in Nat \ {0}
  <2>1. Division \in Nat \ {0} /\ Precision[order.Base] \in Nat \ {0}
    BY OrdersAssumption, ScaleAssumption DEF OrderData
  <2> QED
    BY <2>1 DEF Unit
<1>3. \A other \in Orders : other.Quote = order.Quote => Value(other, n) = (other.Price * n) * s
  BY DEF Value
<1> HIDE DEF p, s
<1>4. \A m \in Nat : p * m \in Nat /\ (p * m) * s \in Nat
  BY <1>0, ProductFacts
<1>5. (p * 0) * s = 0
  BY <1>0
<1>6. ASSUME NEW m \in Nat PROVE (p * (n + m)) * s = (p * n) * s + (p * m) * s
  <2>1. p * (n + m) = p * n + p * m
    BY <1>0
  <2>2. p * n \in Nat /\ p * m \in Nat
    BY <1>4
  <2>3. (p * n + p * m) * s = (p * n) * s + (p * m) * s
    BY <1>0, <2>2, ProductFacts
  <2> QED
    BY <2>1, <2>3
<1>7. ASSUME NEW m \in Nat, n <= m PROVE (p * n) * s <= (p * m) * s
  <2>1. p * n <= p * m
    BY <1>0, <1>7, ProductFacts
  <2> QED
    BY <1>0, <1>4, <2>1, ProductFacts
<1>8. ASSUME NEW other \in Orders, other.Price <= p PROVE (other.Price * n) * s <= (p * n) * s
  <2>1. other.Price * n <= p * n /\ other.Price * n \in Nat /\ p * n \in Nat
    BY <1>0, <1>8, ProductFacts
  <2> QED
    BY <1>0, <2>1, ProductFacts
<1>9. \A m \in Nat : n + m \in Nat
  OBVIOUS
<1>10. \A other \in Orders : other.Price <= order.Price /\ other.Quote = order.Quote
         => Value(other, n) <= Value(order, n)
  BY <1>1, <1>3, <1>8 DEF p
<1> QED
  BY <1>1, <1>2, <1>4, <1>5, <1>6, <1>7, <1>9, <1>10

\* A quote amount is the value rounded down to whole units.
LEMMA QuoteBounds ==
  ASSUME NEW order \in Orders, NEW n \in Nat
  PROVE  /\ QuoteFor(order, n, Precision) \in Nat
         /\ QuoteFor(order, n, Precision) * Unit(order) <= Value(order, n)
         /\ Value(order, n) < (QuoteFor(order, n, Precision) + 1) * Unit(order)
         /\ \A q \in Nat : q * Unit(order) <= Value(order, n)
                             => q <= QuoteFor(order, n, Precision)
<1> DEFINE v == Value(order, n)
           D == Division
           B == Precision[order.Base]
           h == v \div D
           g == h \div B
<1>0. v \in Nat /\ D \in Nat \ {0} /\ B \in Nat \ {0} /\ D \in Nat /\ B \in Nat
  BY OrdersAssumption, ScaleAssumption, ValueFacts DEF OrderData
<1>1. QuoteFor(order, n, Precision) = g /\ Unit(order) = D * B
  BY DEF QuoteFor, Value, Unit
<1> HIDE DEF v, D, B
<1>2. h \in Nat /\ h * D <= v /\ v < h * D + D
  BY <1>0, QuotientFacts
<1>3. \A q \in Nat : q * D <= v => q <= h
  BY <1>0, QuotientLargest
<1> HIDE DEF h
<1>4. g \in Nat /\ g * B <= h /\ h < g * B + B
  BY <1>0, <1>2, QuotientFacts
<1>5. \A q \in Nat : q * B <= h => q <= g
  BY <1>0, <1>2, QuotientLargest
<1> HIDE DEF g
<1>6. g * (D * B) <= v
  <2>1. g * B \in Nat /\ (g * B) * D <= h * D
    BY <1>0, <1>2, <1>4, ProductFacts
  <2>2. (g * B) * D = g * (D * B)
    BY <1>0, <1>4
  <2>3. (g * B) * D \in Int /\ h * D \in Int
    BY <1>0, <1>2, <2>1
  <2> QED
    BY <1>0, <1>2, <2>1, <2>2, <2>3
<1>7. v < (g + 1) * (D * B)
  <2>1. h + 1 <= g * B + B /\ g * B + B = (g + 1) * B /\ g * B \in Nat
    BY <1>0, <1>2, <1>4
  <2>2. (g + 1) * B \in Nat /\ h + 1 \in Nat
    BY <1>0, <1>2, <1>4, <2>1
  <2>3. (h + 1) * D <= ((g + 1) * B) * D
    BY <1>0, <2>1, <2>2, ProductFacts
  <2>4. (h + 1) * D = h * D + D
    BY <1>0, <1>2
  <2>5. ((g + 1) * B) * D = (g + 1) * (D * B)
    BY <1>0, <1>4
  <2>6. ((g + 1) * B) * D \in Int /\ h * D \in Int
    BY <1>0, <1>2, <2>2
  <2> QED
    BY <1>0, <1>2, <2>3, <2>4, <2>5, <2>6
<1>8. ASSUME NEW q \in Nat, q * (D * B) <= v PROVE q <= g
  <2>1. q * (D * B) = (q * B) * D /\ q * B \in Nat
    BY <1>0
  <2>2. q * B <= h
    BY <1>3, <1>8, <2>1
  <2> QED
    BY <1>5, <2>2
<1> QED
  BY <1>1, <1>4, <1>6, <1>7, <1>8 DEF v

\* A trade is priced by the maker: its quote amount is no more than the buyer's
\* price allows, and less than a unit below the seller's.
LEMMA TradePrice ==
  ASSUME TradingTypeOK, NEW maker \in Orders, NEW taker \in Orders, NEW relay \in Accounts,
         NEW amount \in Uint64, Trade(maker, taker, relay, amount),
         NEW order \in {maker, taker}
  PROVE  LET paid == QuoteFor(maker, amount, Precision)
         IN  /\ paid \in Nat
             /\ ~IsSell(order) => paid * Unit(order) <= Value(order, amount)
             /\ IsSell(order) => Value(order, amount) < (paid + 1) * Unit(order)
<1> DEFINE paid == QuoteFor(maker, amount, Precision)
<1>0. amount \in Nat /\ \A o \in Orders : o.Price \in Nat
  BY OrdersAssumption, WidthAssumption DEF OrderData, Uint64
<1>1. /\ {maker.Side, taker.Side} = {"buy", "sell"}
      /\ maker.Base = taker.Base /\ maker.Quote = taker.Quote
      /\ priceMatch(maker, taker)
  BY TradedOrders
<1>2. /\ paid \in Nat
      /\ paid * Unit(maker) <= Value(maker, amount)
      /\ Value(maker, amount) < (paid + 1) * Unit(maker)
  BY <1>0, QuoteBounds
<1>3. Unit(order) = Unit(maker)
  BY <1>1 DEF Unit
<1> HIDE DEF paid
<1>4. Unit(maker) \in Nat /\ paid * Unit(maker) \in Int /\ (paid + 1) * Unit(maker) \in Int
      /\ Value(maker, amount) \in Int /\ Value(taker, amount) \in Int
  <2>1. /\ Unit(maker) \in Nat /\ Value(maker, amount) \in Nat /\ Value(taker, amount) \in Nat
    BY <1>0, ValueFacts
  <2>2. paid * Unit(maker) \in Nat /\ (paid + 1) * Unit(maker) \in Nat
    BY <1>2, <2>1
  <2> QED
    BY <2>1, <2>2
<1>5. ~IsSell(order) => Value(maker, amount) <= Value(order, amount)
  <2>1. CASE order = maker
    BY <1>4, <2>1
  <2>2. CASE order = taker /\ ~IsSell(order)
    <3>1. maker.Price <= taker.Price
      BY <1>1, <2>2 DEF priceMatch, IsSell
    <3> QED
      BY <1>0, <1>1, <2>2, <3>1, ValueFacts
  <2> QED
    BY <2>1, <2>2
<1>6. IsSell(order) => Value(order, amount) <= Value(maker, amount)
  <2>1. CASE order = maker
    BY <1>4, <2>1
  <2>2. CASE order = taker /\ IsSell(order)
    <3>1. taker.Price <= maker.Price
      BY <1>0, <1>1, <2>2 DEF priceMatch, IsSell
    <3> QED
      BY <1>0, <1>1, <2>2, <3>1, ValueFacts
  <2> QED
    BY <2>1, <2>2
<1>7. Value(order, amount) \in Int
  BY <1>4
<1>8. ~IsSell(order) => paid * Unit(order) <= Value(order, amount)
  BY <1>2, <1>3, <1>4, <1>5, <1>7
<1>9. IsSell(order) => Value(order, amount) < (paid + 1) * Unit(order)
  BY <1>2, <1>3, <1>4, <1>6, <1>7
<1> QED
  BY <1>2, <1>8, <1>9 DEF paid

\* What the orders an account signed cost it in an asset, each filled so far.
SignedOrders(acc) ==
  {order \in Orders : order.User = acc /\ [signer |-> acc, data |-> order] \in OrderSigs}

Cost(order, asset, n) ==
  IF IsSell(order) THEN Part(asset, order.Base, n)
                   ELSE Part(asset, order.Quote, QuoteFor(order, n, Precision))

CostOf(acc, asset, state) ==
  SumFunctionOnSet([order \in Orders |-> Cost(order, asset, state[order].Filled)],
                   SignedOrders(acc))

\* Costs are natural numbers, nothing for nothing, and grow with the fill.
LEMMA CostFacts ==
  ASSUME NEW order \in Orders, NEW asset, NEW n \in Nat
  PROVE  /\ Cost(order, asset, n) \in Nat
         /\ Cost(order, asset, 0) = 0
         /\ \A m \in Nat : n <= m => Cost(order, asset, n) <= Cost(order, asset, m)
<1>1. \A m \in Nat : QuoteFor(order, m, Precision) \in Nat
  BY QuoteBounds
<1>2. QuoteFor(order, 0, Precision) = 0
  <2> DEFINE q == QuoteFor(order, 0, Precision)
  <2>1. q \in Nat /\ q * Unit(order) <= 0 /\ Unit(order) \in Nat \ {0}
    BY QuoteBounds, ValueFacts
  <2> HIDE DEF q
  <2>2. q = 0
    <3> SUFFICES ASSUME 1 <= q PROVE FALSE
      BY <2>1
    <3>1. 1 * Unit(order) <= q * Unit(order)
      BY <2>1, ProductFacts
    <3>2. q * Unit(order) \in Int
      BY <2>1
    <3> QED
      BY <2>1, <3>1, <3>2
  <2> QED
    BY <2>2 DEF q
<1>3. ASSUME NEW m \in Nat, n <= m
      PROVE  QuoteFor(order, n, Precision) <= QuoteFor(order, m, Precision)
  <2> DEFINE q == QuoteFor(order, n, Precision)
  <2>1. q \in Nat /\ q * Unit(order) <= Value(order, n) /\ Unit(order) \in Nat
    BY QuoteBounds, ValueFacts
  <2>2. Value(order, n) <= Value(order, m) /\ Value(order, n) \in Nat /\ Value(order, m) \in Nat
    BY <1>3, ValueFacts
  <2> HIDE DEF q
  <2>3. q * Unit(order) \in Int
    BY <2>1
  <2>4. q * Unit(order) <= Value(order, m)
    BY <2>1, <2>2, <2>3
  <2>5. q <= QuoteFor(order, m, Precision)
    BY <2>1, <2>4, QuoteBounds
  <2> QED
    BY <2>5 DEF q
<1>4. CASE IsSell(order)
  BY <1>4 DEF Cost, Part
<1>5. CASE ~IsSell(order)
  BY <1>1, <1>2, <1>3, <1>5 DEF Cost, Part
<1> QED
  BY <1>4, <1>5

\* An order filled within its amount costs no more than it commits.
LEMMA CostWithin ==
  ASSUME NEW acc, NEW asset, NEW state,
         \A order \in Orders : state[order].Filled \in Nat /\ state[order].Filled <= order.Amount
  PROVE  /\ CostOf(acc, asset, state) \in Nat
         /\ Committed(acc, asset) \in Nat
         /\ CostOf(acc, asset, state) <= Committed(acc, asset)
<1> DEFINE S == SignedOrders(acc)
           now == [order \in Orders |-> Cost(order, asset, state[order].Filled)]
           all == [order \in Orders |-> Commitment(order, asset)]
<1>1. /\ CostOf(acc, asset, state) = SumFunctionOnSet(now, S)
      /\ Committed(acc, asset) = SumFunctionOnSet(all, S)
  BY DEF CostOf, Committed, SignedOrders
<1>2. S \subseteq Orders /\ IsFiniteSet(S)
  <2>1. S \subseteq Orders /\ IsFiniteSet(Orders)
    BY OrdersAssumption DEF SignedOrders
  <2> QED
    BY <2>1, FS_Subset
<1>3. ASSUME NEW order \in Orders
      PROVE  now[order] \in Nat /\ all[order] \in Nat /\ now[order] <= all[order]
  <2>1. /\ order.Amount \in Nat /\ order.Side \in {"buy", "sell"}
        /\ order.Base \in Assets /\ order.Quote \in Assets
    BY OrdersAssumption, WidthAssumption DEF OrderData, Uint64
  <2>2. all[order] = Cost(order, asset, order.Amount)
    <3>1. all[order] = Commitment(order, asset)
      OBVIOUS
    <3>2. CASE order.Side = "sell"
      BY <3>1, <3>2 DEF Commitment, Cost, IsSell, Part
    <3>3. CASE order.Side = "buy"
      BY <3>1, <3>3 DEF Commitment, Cost, IsSell, Part
    <3> QED
      BY <2>1, <3>2, <3>3
  <2>3. now[order] = Cost(order, asset, state[order].Filled)
    OBVIOUS
  <2> HIDE DEF now, all
  <2> QED
    BY <2>1, <2>2, <2>3, CostFacts
<1> HIDE DEF S, now, all
<1>4. /\ \A order \in S : now[order] \in Nat /\ all[order] \in Nat
      /\ \A order \in S : now[order] \in Int /\ all[order] \in Int /\ now[order] <= all[order]
  BY <1>2, <1>3
<1>5. SumFunctionOnSet(now, S) \in Nat /\ SumFunctionOnSet(all, S) \in Nat
  BY <1>2, <1>4, SumBounds
<1>6. SumFunctionOnSet(now, S) <= SumFunctionOnSet(all, S)
  BY <1>2, <1>4, SumMonotonic
<1> QED
  BY <1>1, <1>5, <1>6

\* What an order gives in a trade of `amount` base units for `paid` quote units.
Gives(order, asset, amount, paid) ==
  IF IsSell(order) THEN Part(asset, order.Base, amount) ELSE Part(asset, order.Quote, paid)

\* Its cost grows by at least that.
LEMMA CostGrows ==
  ASSUME TradingTypeOK, NEW maker \in Orders, NEW taker \in Orders, NEW relay \in Accounts,
         NEW amount \in Uint64, Trade(maker, taker, relay, amount),
         NEW order \in {maker, taker}, NEW asset, NEW n \in Nat
  PROVE  LET paid == QuoteFor(maker, amount, Precision)
         IN  /\ Gives(order, asset, amount, paid) \in Nat
             /\ Cost(order, asset, n) + Gives(order, asset, amount, paid)
                  <= Cost(order, asset, n + amount)
<1> DEFINE paid == QuoteFor(maker, amount, Precision)
           q == QuoteFor(order, n, Precision)
           more == QuoteFor(order, n + amount, Precision)
<1>0. amount \in Nat /\ n + amount \in Nat
  BY WidthAssumption DEF Uint64
<1>1. paid \in Nat /\ (~IsSell(order) => paid * Unit(order) <= Value(order, amount))
  BY TradePrice
<1>2. q \in Nat /\ q * Unit(order) <= Value(order, n) /\ Unit(order) \in Nat
  BY QuoteBounds, ValueFacts
<1>3. /\ Value(order, n + amount) = Value(order, n) + Value(order, amount)
      /\ Value(order, n) \in Nat /\ Value(order, amount) \in Nat
  <2>1. order \in Orders /\ n \in Nat /\ amount \in Nat
    BY <1>0
  <2>2. /\ Value(order, n) \in Nat
        /\ \A m \in Nat : Value(order, n + m) = Value(order, n) + Value(order, m)
    BY <2>1, ValueFacts
  <2>3. Value(order, amount) \in Nat
    BY <2>1, ValueFacts
  <2> QED
    BY <2>1, <2>2, <2>3
<1>4. more \in Nat /\ \A r \in Nat : r * Unit(order) <= Value(order, n + amount) => r <= more
  BY <1>0, QuoteBounds
<1> HIDE DEF paid, q, more
<1>5. CASE IsSell(order)
  BY <1>0, <1>5 DEF Gives, Cost, Part
<1>6. CASE ~IsSell(order)
  <2>1. (q + paid) * Unit(order) = q * Unit(order) + paid * Unit(order)
    BY <1>1, <1>2, ProductFacts
  <2>2. q * Unit(order) \in Nat /\ paid * Unit(order) \in Nat /\ q + paid \in Nat
    BY <1>1, <1>2, ProductFacts
  <2>3. (q + paid) * Unit(order) <= Value(order, n + amount)
    BY <1>1, <1>2, <1>3, <1>6, <2>1, <2>2
  <2>4. q + paid <= more
    BY <1>4, <2>2, <2>3
  <2>5. /\ Cost(order, asset, n) = Part(asset, order.Quote, q)
        /\ Cost(order, asset, n + amount) = Part(asset, order.Quote, more)
        /\ Gives(order, asset, amount, paid) = Part(asset, order.Quote, paid)
    BY <1>6 DEF Cost, Gives, q, more
  <2> QED
    BY <1>1, <1>2, <1>4, <2>4, <2>5 DEF Part, paid
<1> QED
  BY <1>5, <1>6 DEF paid

\* A trade takes from an account outside Signers no more than its two orders give.
LEMMA TradeTakes ==
  ASSUME TradingTypeOK, NEW maker \in Orders, NEW taker \in Orders, NEW relay \in Accounts,
         NEW amount \in Uint64, Trade(maker, taker, relay, amount),
         NEW asset \in Assets, NEW acc \in Accounts
  PROVE  LET paid == QuoteFor(maker, amount, Precision)
         IN  Loss(asset, acc) <= Part(acc, maker.User, Gives(maker, asset, amount, paid))
                                  + Part(acc, taker.User, Gives(taker, asset, amount, paid))
<1> DEFINE paid == QuoteFor(maker, amount, Precision)
           clear == countFee(maker, taker, amount)
           mGives == Gives(maker, asset, amount, paid)
           tGives == Gives(taker, asset, amount, paid)
           tGet == clear.takerGets.amount
           mGet == clear.makerGets.amount
           t == clear.takerGets.asset
           m == clear.makerGets.asset
           tLeg == TakerLeg(maker, taker, clear, acc)
           mLeg == MakerLeg(maker, taker, clear, acc)
<1>0. /\ BookTypeOK /\ LedgerTypeOK
      /\ MatchOrder(maker, taker, amount)
      /\ updateBalance(maker, taker, clear)
  BY DEF TradingTypeOK, LedgerTypeOK, BookTypeOK, Books, Trade
<1>1. ClearOK(clear)
  BY <1>0, ClearTyped
<1>2. /\ {maker.Side, taker.Side} = {"buy", "sell"}
      /\ maker.Base = taker.Base /\ maker.Quote = taker.Quote
  BY TradedOrders
<1>3. mGives = Part(asset, t, tGet) /\ tGives = Part(asset, m, mGet)
  <2>1. /\ clear.takerGets = IF IsSell(taker) THEN Amounts(maker, amount).quote
                                              ELSE Amounts(maker, amount).base
        /\ clear.makerGets = IF IsSell(taker) THEN Amounts(maker, amount).base
                                              ELSE Amounts(maker, amount).quote
    BY DEF countFee
  <2>2. IsSell(maker) = ~IsSell(taker)
    BY <1>2 DEF IsSell
  <2>3. /\ Amounts(maker, amount).base = [asset |-> maker.Base, amount |-> amount]
        /\ Amounts(maker, amount).quote = [asset |-> maker.Quote, amount |-> paid]
    BY DEF Amounts
  <2> HIDE DEF clear, paid
  <2>4. CASE IsSell(taker)
    <3>1. /\ t = maker.Quote /\ tGet = paid /\ m = maker.Base /\ mGet = amount
      BY <2>1, <2>3, <2>4
    <3> QED
      BY <1>2, <2>2, <2>4, <3>1 DEF Gives
  <2>5. CASE ~IsSell(taker)
    <3>1. /\ t = maker.Base /\ tGet = amount /\ m = maker.Quote /\ mGet = paid
      BY <2>1, <2>3, <2>5
    <3> QED
      BY <1>2, <2>2, <2>5, <3>1 DEF Gives
  <2> QED
    BY <2>4, <2>5
<1> HIDE DEF clear
<1>4. balance'[asset][acc] = balance[asset][acc] + Part(asset, t, tLeg) + Part(asset, m, mLeg)
  BY <1>0, <1>1, TradeBooks
<1>5. /\ Receipts(clear).taker \in Nat /\ Receipts(clear).maker \in Nat
      /\ tGet \in Nat /\ mGet \in Nat
      /\ clear.TakerChannelFee \in Nat /\ clear.MakerChannelFee \in Nat
      /\ clear.TakerSysFee \in Nat /\ clear.MakerSysFee \in Nat
  BY <1>1, ClearIntegers
<1>6. balance[asset][acc] \in Nat
  BY WidthAssumption DEF TradingTypeOK, LedgerTypeOK, Uint64
<1>7. \A whom : \A n \in Nat : Part(acc, whom, n) \in Nat
  BY DEF Part
<1>8. tLeg \in Int /\ tLeg >= -Part(acc, maker.User, tGet)
  <2> DEFINE a == Part(acc, taker.User, Receipts(clear).taker)
             b == Part(acc, maker.User, tGet)
             c == Part(acc, taker.Channel, clear.TakerChannelFee)
             d == Part(acc, GovernanceCtrAccount, clear.TakerSysFee)
  <2>1. a \in Nat /\ b \in Nat /\ c \in Nat /\ d \in Nat
    BY <1>5, <1>7
  <2>2. tLeg = a - b + c + d
    BY DEF TakerLeg
  <2> HIDE DEF a, b, c, d, tLeg
  <2>3. tLeg \in Int /\ tLeg >= -b
    BY <2>1, <2>2
  <2> QED
    BY <2>3 DEF b
<1>9. mLeg \in Int /\ mLeg >= -Part(acc, taker.User, mGet)
  <2> DEFINE a == Part(acc, maker.User, Receipts(clear).maker)
             b == Part(acc, taker.User, mGet)
             c == Part(acc, maker.Channel, clear.MakerChannelFee)
             d == Part(acc, GovernanceCtrAccount, clear.MakerSysFee)
  <2>1. a \in Nat /\ b \in Nat /\ c \in Nat /\ d \in Nat
    BY <1>5, <1>7
  <2>2. mLeg = a - b + c + d
    BY DEF MakerLeg
  <2> HIDE DEF a, b, c, d, mLeg
  <2>3. mLeg \in Int /\ mLeg >= -b
    BY <2>1, <2>2
  <2> QED
    BY <2>3 DEF b
<1> DEFINE x == Part(acc, maker.User, mGives)
           y == Part(acc, taker.User, tGives)
<1>10. x \in Nat /\ y \in Nat /\ Part(asset, t, tLeg) \in Int /\ Part(asset, m, mLeg) \in Int
       /\ Part(asset, t, tLeg) >= -x /\ Part(asset, m, mLeg) >= -y
  <2>1. /\ x = Part(asset, t, Part(acc, maker.User, tGet))
        /\ y = Part(asset, m, Part(acc, taker.User, mGet))
    BY <1>3 DEF Part
  <2> HIDE DEF x, y, t, m, tLeg, mLeg, tGet, mGet
  <2>2. Part(acc, maker.User, tGet) \in Nat /\ Part(acc, taker.User, mGet) \in Nat
    BY <1>5, <1>7
  <2>3. x \in Nat /\ Part(asset, t, tLeg) \in Int /\ Part(asset, t, tLeg) >= -x
    BY <1>8, <2>1, <2>2 DEF Part
  <2>4. y \in Nat /\ Part(asset, m, mLeg) \in Int /\ Part(asset, m, mLeg) >= -y
    BY <1>9, <2>1, <2>2 DEF Part
  <2> QED
    BY <2>3, <2>4
<1> HIDE DEF x, y, t, m, tLeg, mLeg
<1>11. Loss(asset, acc) <= x + y
  BY <1>4, <1>6, <1>10 DEF Loss
<1> QED
  BY <1>11 DEF x, y

\* So it costs an account outside Signers nothing but what its orders cost.
LEMMA TradeLoss ==
  ASSUME TradingTypeOK, NEW maker \in Orders, NEW taker \in Orders, NEW relay \in Accounts,
         NEW amount \in Uint64, Trade(maker, taker, relay, amount),
         NEW asset \in Assets, NEW acc \in Accounts
  PROVE  Loss(asset, acc) <= CostOf(acc, asset, orderState') - CostOf(acc, asset, orderState)
<1> DEFINE paid == QuoteFor(maker, amount, Precision)
           S == SignedOrders(acc)
           f == [order \in Orders |-> Cost(order, asset, orderState[order].Filled)]
           h == [order \in Orders |-> Cost(order, asset, orderState'[order].Filled)]
           x == Gives(maker, asset, amount, paid)
           y == Gives(taker, asset, amount, paid)
           one == [order \in Orders |-> IF order = maker THEN f[maker] + x ELSE f[order]]
           two == [order \in Orders |-> IF order = taker THEN one[taker] + y ELSE one[order]]
<1>0. /\ CostOf(acc, asset, orderState) = SumFunctionOnSet(f, S)
      /\ CostOf(acc, asset, orderState') = SumFunctionOnSet(h, S)
  BY DEF CostOf
<1>1. /\ maker # taker
      /\ SignedOrder(maker) /\ SignedOrder(taker)
  BY TradedOrders DEF Tradable
<1>2. S \subseteq Orders /\ IsFiniteSet(S)
  <2>1. S \subseteq Orders /\ IsFiniteSet(Orders)
    BY OrdersAssumption DEF SignedOrders
  <2> QED
    BY <2>1, FS_Subset
<1>3. \A order \in {maker, taker} : order \in S <=> order.User = acc
  BY <1>1, OrdersAssumption DEF SignedOrders, SignedOrder
<1>4. \A order \in Orders : orderState[order].Filled \in Nat
  BY WidthAssumption DEF TradingTypeOK, OrdersTypeOK, OrderState, Uint64
<1>5. \A order \in Orders :
        orderState'[order].Filled
          = orderState[order].Filled + IF order \in {maker, taker} THEN amount ELSE 0
  BY TradeFills
<1>6. /\ \A order \in Orders : f[order] \in Nat
      /\ x \in Nat /\ f[maker] + x <= h[maker]
      /\ y \in Nat /\ f[taker] + y <= h[taker]
      /\ \A order \in Orders \ {maker, taker} : h[order] = f[order]
  <2>1. \A order \in Orders : f[order] \in Nat
    BY <1>4, CostFacts
  <2>2. x \in Nat /\ f[maker] + x <= h[maker]
    BY <1>4, <1>5, CostGrows
  <2>3. y \in Nat /\ f[taker] + y <= h[taker]
    BY <1>4, <1>5, CostGrows
  <2>4. ASSUME NEW order \in Orders \ {maker, taker} PROVE h[order] = f[order]
    <3>1. orderState'[order].Filled = orderState[order].Filled
      BY <1>4, <1>5
    <3> QED
      BY <3>1
  <2> QED
    BY <2>1, <2>2, <2>3, <2>4
<1>7. \A order \in Orders : h[order] \in Nat
  <2>1. amount \in Nat
    BY WidthAssumption DEF Uint64
  <2>2. \A order \in Orders : orderState'[order].Filled \in Nat
    BY <1>4, <1>5, <2>1
  <2> QED
    BY <2>2, CostFacts
<1>8. /\ one[maker] = f[maker] + x
      /\ \A order \in Orders \ {maker} : one[order] = f[order]
      /\ two[taker] = one[taker] + y
      /\ \A order \in Orders \ {taker} : two[order] = one[order]
  OBVIOUS
<1>9. Loss(asset, acc) <= Part(acc, maker.User, x) + Part(acc, taker.User, y)
  BY TradeTakes
<1> HIDE DEF S, f, h, x, y, one, two
<1>10. /\ \A order \in Orders : one[order] \in Int
       /\ \A order \in Orders : two[order] \in Int /\ two[order] <= h[order]
  <2>1. ASSUME NEW order \in Orders
        PROVE  one[order] \in Int /\ two[order] \in Int /\ two[order] <= h[order]
    <3>1. CASE order = maker
      BY <1>1, <1>6, <1>7, <1>8, <3>1
    <3>2. CASE order = taker
      BY <1>1, <1>6, <1>7, <1>8, <3>2
    <3>3. CASE order \notin {maker, taker}
      BY <1>6, <1>8, <3>3
    <3> QED
      BY <3>1, <3>2, <3>3
  <2> QED
    BY <2>1
<1>11. /\ SumFunctionOnSet(f, S) \in Int
       /\ SumFunctionOnSet(one, S) = SumFunctionOnSet(f, S) + IF maker \in S THEN x ELSE 0
  <2>1. /\ \A order \in S : f[order] \in Int
        /\ \A order \in S \ {maker} : one[order] = f[order]
        /\ x \in Int /\ one[maker] = f[maker] + x
    BY <1>2, <1>6, <1>8
  <2> QED
    BY <1>2, <2>1, SumShift
<1>12. /\ SumFunctionOnSet(one, S) \in Int
       /\ SumFunctionOnSet(two, S) = SumFunctionOnSet(one, S) + IF taker \in S THEN y ELSE 0
  <2>1. /\ \A order \in S : one[order] \in Int
        /\ \A order \in S \ {taker} : two[order] = one[order]
        /\ y \in Int /\ two[taker] = one[taker] + y
    BY <1>2, <1>6, <1>8, <1>10
  <2> QED
    BY <1>2, <2>1, SumShift
<1>13. SumFunctionOnSet(two, S) <= SumFunctionOnSet(h, S)
  <2>1. \A order \in S : two[order] \in Int /\ h[order] \in Int /\ two[order] <= h[order]
    BY <1>2, <1>7, <1>10
  <2> QED
    BY <1>2, <2>1, SumMonotonic
<1>14. SumFunctionOnSet(h, S) \in Int /\ Loss(asset, acc) \in Int
  <2>1. \A order \in S : h[order] \in Int
    BY <1>2, <1>7
  <2>2. SumFunctionOnSet(h, S) \in Int
    BY <1>2, <2>1, SumInteger
  <2>3. balance[asset][acc] \in Int /\ balance'[asset][acc] \in Int
    BY TradeTypes, WidthAssumption DEF TradingTypeOK, LedgerTypeOK, Uint64
  <2> QED
    BY <2>2, <2>3 DEF Loss
<1>15. /\ Part(acc, maker.User, x) = IF maker \in S THEN x ELSE 0
       /\ Part(acc, taker.User, y) = IF taker \in S THEN y ELSE 0
  BY <1>3 DEF Part
<1> DEFINE a == IF maker \in S THEN x ELSE 0
           b == IF taker \in S THEN y ELSE 0
           sf == SumFunctionOnSet(f, S)
           sh == SumFunctionOnSet(h, S)
<1>16. /\ a \in Int /\ b \in Int /\ sf \in Int /\ sh \in Int
       /\ Loss(asset, acc) <= a + b
       /\ (sf + a) + b <= sh
  BY <1>6, <1>9, <1>11, <1>12, <1>13, <1>14, <1>15
<1> HIDE DEF a, b, sf, sh
<1>17. Loss(asset, acc) <= sh - sf
  BY <1>14, <1>16
<1> QED
  BY <1>0, <1>17 DEF sf, sh
=============================================================================
