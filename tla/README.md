# Verification of the DEX contract

TLA+ modules for the native DEX contract of this repository (`src/*.go`,
`src/engine`, `src/facade`, `src/utils`): what users deposit, trade and withdraw,
what relays and the governance contract may do with it. TLC checks small
instances; TLAPS proves what the handlers keep - types, solvency, the vault, what
owners can lose, the life of orders, the fee records, that a settlement is one
step, that events suffice to follow the contract for who holds the orders, and that keys, bytes, numbers
and signed texts say what they should - for every instance.

## The system

The contract is a set of handlers dispatched by `DEXProtocol.Invoke`
(`protocol.go`). All state lives in a key-value state set owned by the host; the
handlers keep nothing between calls. They call out to token contracts (to move
tokens), to `global_params` (parameters, the operator) and to the prime contract
(fee discount). Transactions run one after another, and the host drops the
writes of a failing call.

| Component | State | Operations | What makes it correct |
| --- | --- | --- | --- |
| Balance book (`dex.go`, `helper.go`) | balance per account and token; the DEX account in each token contract | Deposit, Withdraw, and every payment below | every balance can be paid; debts grow only with tokens that arrive |
| Relay administration (`management.go`) | relay flags | SetRelay | only relays submit what others signed |
| Delegated withdrawal (`dex.go`, `helper.go`) | hashes of paid requests | DelegateWithdraw | an owner loses what was signed for, once |
| Two-phase withdrawal (`dex.go`, `helper.go`, `state_object.go`) | pending amount and time per account and token | PrepareWithdraw, CommitWithdraw | every unit waits, is paid once, and is paid at last |
| Order verification (`verify.go`, `dex.go`) | canceled flag per order, cancel number per account | CancelOrder, DelegateCancelOrder | a dead order stays dead |
| Matching and fees (`engine/clear.go`, `fee.go`) | filled amount per order | Trade | no order over-filled, none worse than its price |
| Settlement (`dex.go`) | balances of maker, taker, channels, governance | Trade | the eight bookings move tokens, they make none |
| Governance share (`helper.go`, `management.go`) | current round; two profit counters per token | Trade, EpochEnd, ClaimSpProfit | no fee lost, counted twice or claimed early; claims can be paid |
| Parameters (`protocol.go`) | four values in `global_params` | read by Trade and CommitWithdraw | handlers stay correct when the values change |
| Event log (`evtlog.go`) | none; appends to the host's log | every handler but EpochEnd and ClaimSpProfit | events in order, with the orders they name, tell a relay what the contract would answer |
| Queries (`dex.go`, `management.go`) | none | BalanceOf, GetPrepareWithdrawState, GetOrderState, Relays | answers are the records; the relay scan finds relays only |
| Decimal conversion (`utils/util.go`) | none | DecimalToUint64, Uint64ToDecimal | what is accepted is exactly what was written |
| Keys, formats, signed texts (`utils`, `facade`, `engine/types.go`, `state_object.go`) | none | Get...Key, Serialize, Deserialize, DataSize, HashParams, OrderId | keys never coincide; records and arguments read back as written; one text, one meaning |

The components meet in the book: a trade or a delegated withdrawal may spend
what a two-phase withdrawal is waiting for, a claim withdraws from a balance that
trades fill, an order may name one account as both sides or as its channel.
What is hard is not concurrency inside a handler but the order of transactions:
merged requests, stale records, partial fills, round changes between accrual and
claim, cancellations against trades, replays of signed messages, and integers at
the end of their range. Beneath it, handlers write a working copy of the state
set that a failing call leaves half done, and everything crosses the boundary as
bytes and texts whose formats are written by hand.

## Modules

| Module | Models |
| --- | --- |
| `Vault` | the abstract promise: debt and tokens held, received and settled together |
| `DexLedger` | the book, token transfers, Deposit, Withdraw, SetRelay; the host's clock and parameters |
| `Custody` | `DexLedger` with DelegateWithdraw, PrepareWithdraw, CommitWithdraw |
| `CustodyHistory` | `Custody` with what owners asked for, when, and what they lost |
| `Governance` | the fee records of `helper.go` and `management.go` on top of `DexLedger` |
| `Matching` | the arithmetic of a trade: price test, quote amount, fees |
| `Trading` | `Governance` and `Matching` with orders, Trade and the two cancellations |
| `OrderHistory` | `Trading` with what each order paid or received and what owners lost |
| `FeeHistory` | `Trading` with fees summed by round |
| `Dex` | `Custody` and `Trading` over one book: all of `Invoke`, and the queries |
| `DexHistory` | `Dex` with what owners lost by whatever way |
| `DexLiveness` | `Dex` under fairness |
| `Settlement` | a trade taken write by write on a working copy, which implements the one step of `Trading` |
| `EventLog` | `Dex` with the event of every call, and a follower that rebuilds accounts and order states from them and the orders it holds |
| `DecimalCodec` | numbers as text, the decimals each field is read and logged with |
| `WireFormats`, `CallArgs` | every Serialize and Deserialize as lists of fields; a call's bytes on their way to a handler |
| `StateSet` | all records as bytes under the keys of `util.go` |
| `SignedText` | the texts of HashParams and OrderId, and what one signature can be used for |
| `FoldTheorems` | facts about the community modules' folds: a sum over a set, a sequence from the left |
| `DexLedgerProofs`, `TradingProofs` | theorems about the modules they are named after, and their lemmas |
| `CustodyProofs` | theorems about `Custody` and `CustodyHistory` |
| `SettlementProofs` | theorems about `Settlement`, `OrderHistory` and `FeeHistory` |
| `DexProofs` | theorems about `Dex`, `DexHistory` and `EventLog` |
| `EncodingProofs` | theorems about `StateSet` and `CallArgs` |
| `TextProofs` | theorems about `DecimalCodec` and `SignedText` |
| `MCCustody`, `MCTrading` (with `MCOrders`, `MCFees`, `MCSettlement`), `MCDex` (with `MCOwners`, `MCEvents`), `MCEncodings`, `MCDecimals` | instances for TLC |

The composition: `Dex` extends `Custody` and `Trading`, which both extend
`DexLedger`; `DexHistory`, `DexLiveness` and `EventLog` extend `Dex`. `Settlement`
extends `Trading` and refines it. `StateSet`, `SignedText` and `DecimalCodec` justify
what the others take for granted: one variable per kind of record, a request or
an order in place of the hash of its text, numbers in place of decimals.

Each handler is one action. Its conjuncts are the handler's checks in the code's
terms, with the calls it makes as operators of the same name (`DoWithdraw`,
`BalanceSub`, `AccountForGovernance` as `Accrue` and two bookings). A handler
that returns an error changes nothing, so its action is not enabled.

Correspondence worth knowing:

- `balance`, `prepared`, `spProfit` are total functions; a key the code deletes or
  never wrote reads as zero there, and as the zero record here.
- A request or an order stands for its hash: `HashParams` and `OrderId` write all
  the fields but the signature (a request's `extra` text is part of its salt
  here), and no two of them give one text (`SignaturesMeanOneThing`). Signatures
  are a fixed set of pairs of signer and data; nobody forges.
- In `Settlement` the host's undo is `Abort`, possible before any write of the
  working copy, and `Commit` publishes it. Reading an order creates its record
  (`types.go:292`), which is why the records themselves are part of that state.
- SetRelay with false deletes the key and with true creates it, so a relay record
  never holds false and the scan of Relays lists exactly the flagged accounts.
- A text is the sequence of its parts between dots, each a sequence of digits, as
  strings.Split gives it; ParseUint's value of no digits but padding is zero, so
  the empty text and "." read as 0 when the token has decimals.
- A decimal in `EventLog` is a count of units with its scale; how it is written is
  `DecimalCodec`'s matter.
- An event names an order by its id (`evtlog.go:69`), a one-way hash: `OrderId` is
  a constant, of which only `IdsAssumption` is known, that different orders have
  different ids. Owner, channel, side and pair of an order are in no event. The
  follower has them from the order itself, out of its store (`held`): the owner or
  another relay gave it, or it stood in the arguments of the Trade call, which
  carries both. The store starts empty and grows (`Collect`); a trade is read only
  when both its orders are there, and what comes behind it waits.
- `Signers` are the accounts that send transactions (`CheckWitness`). An account
  outside it only signs requests and orders, which is whom `DebitedAsSigned`
  and `SpentAsSigned` protect.
- `updateBalance` is a list of eight bookings in the code's order, each tested
  against the book the previous ones left. The code skips a fee booking of zero,
  which changes nothing either way.
- Fees and net receipts are computed in unbounded integers and cut to uint64
  exactly where the code does it (`WrapUint64`), so an unchecked subtraction
  wraps here as well. `MaturesAt` wraps at uint32.
- `Vault` does not know accounts. Its `owed` is the sum of a token's balances, its
  `held` what the DEX account holds; holders may also send it tokens without a
  deposit (`PayOutside`).

## Runs

| Run | Shows |
| --- | --- |
| `custody` (146,944 states) | from an empty book, with an owner who never sends a transaction, two relays, replays, a signature by the wrong account, wait times that change, merged requests and a balance spent in between: solvency, the vault refinement, no loss beyond what was signed, maturity and payout |
| `settlement` (20,356) | from an empty book through deposits to trades settled write by write, an order filled in parts, fees that take a whole receipt, rounds, claims and cancellations between them: types, solvency, the vault refinement, and that a settlement is the one step `Trade` or nothing |
| `orders` (38,880) | five orders that cross, partial fills, a self-trade, half-unit prices, a forged order, expiry and cancellations: fills, prices, losses, dead orders, and solvency again |
| `fees` (115,938) | three rounds, trades with fees of 25 to 100 per cent, claims, re-deposits of claimed fees: fee records against their history |
| `owners` (63,024) | the whole contract: trades, delegated and two-phase withdrawals of one balance. Losses within everything signed, a matured commit always possible, and under fairness a prepared withdrawal is paid and cleared |
| `events` (202,332) | the whole contract with a follower of its events up to three events behind, tokens of different precision, fees on both sides: with the orders behind the ids, what it has not read yet tells what the contract would answer, and no less than governance has |
| `encodings` (53,416) | calls cut short or extended, records of all kinds under colliding bytes, signed texts that imitate labels, all short decimals of tokens with up to three places |
| `default_wait`, `wide_wait`, `full_rate`, `system_fee`, `fine_price` | disagreements with the documentation, below |

Bounds. One token suffices for custody, where tokens do not interact; trading has
a base and a quote token. Widths are tiny (`MaxUint64` of 2 to 5) so that sums
reach the end of the range and checked additions refuse. `Division`,
`FeeBase` and `PercentBase` are 2 in place of 1e8, 10000 and 100: prices and rates
are halves, so truncation bites on every other fill. Two to four units let an
order be filled in at least two parts. `Horizon` is the last timestamp; the
custody instance reaches past the longest wait with room for a second request,
and `wide_wait` differs in a wait that carries the sum over the width. `Rounds`
and `CancelNumbers` are the round and cancel numbers a call may carry.

The funded instances (`orders`, `fees`, `owners`, `events`) start when everything is
deposited; Solvent is checked from the empty book in `custody` and `settlement`.
The instances' next-state formulas carry action bounds, each named at its
definition: who is ever made a relay, whose orders relays cancel, who prepares
withdrawals, that nothing is sent to the wallet of an account that cannot send
it on. They cut symmetric or dead-end states, not orders of events. In `fees` the
governance contract does not use the direct Withdraw (`NoDirectWithdrawal`): it
may, by `withdrawList`, and would then leave a record its balance does not cover;
in `settlement` it may, and solvency and the vault's promise still hold. In
`events` the staking account is the relay, so that a direct withdrawal is logged
by somebody. `MaxLag` is 3: a trade can wait for its orders while a change told as a
difference and one told as a new balance, of the same account, queue behind it.
An order is collected when the next event needs it (`AsksWhenNeeded`), since one
collected earlier or never used changes nothing else, and calls that change
nothing are left out (`NoIdleCalls`).

In `encodings` the four encodings share nothing, so each is explored while the
others rest. Numbers are binary, with `ZeroLen` of 2 in place of the ten zeros of
the padding constant and tokens of up to three places, one more than it holds;
texts have up to four characters, one of them possibly no digit, and up to two
dots. Addresses and hashes have one and two bytes, chosen so that a key without
its prefix, or with another's, would be somebody else's.

Deadlock is checked in every run but `encodings`, where a call that was read is
done.

Fairness. `DexLiveness` assumes that block timestamps advance and that each
owner keeps submitting a commit while it would succeed. The contract queues
nothing, so without the second assumption nothing is owed; the property is about
nothing *else* preventing payment. No relay is asked for anything: trades and
delegated withdrawals may happen or not. Requests stop at `LastPrepare`, because
the model's time ends. Each new request restarts the wait, and an owner who never
stops asking would wait for ever: that is the code's behaviour
(`helper.go:129`). `ExitOpen` is the safety half, in every reachable state.

## Where code and documentation differ

- `default_wait`: README says 60 seconds between the phases, the registered
  default is 10 (`protocol.go:61`).
- `wide_wait`: time plus wait is uint32 arithmetic (`dex.go:205`). `MatureCommit`
  holds as long as timestamp plus wait stays within 32 bits.
- `full_rate`: signed rates are checked one at a time against 10000
  (`verify.go:42`), the system fee comes on top, and the subtraction at
  `dex.go:465` (470, 504, 516) is unchecked. Solvency of trading is therefore a statement
  about rates whose sum stays within 100 per cent, as in the passing runs.
- `system_fee`: README computes the fee from the signed rate alone.
- `fine_price`: README rejects prices with more than 8 places. `DecimalToUint64`
  switches on the number of parts between dots and handles one and two
  (`util.go:68`): of "1.2.3" it reads "1", without scaling it, and the rest may be
  as long as it likes. `ReadsExactly` is therefore about texts with at most one
  dot.

Noticed and not made runs: README gives `withdraw` to all users, the code to four
contract accounts; it calls the trade amount a quote amount, the code reads base
units; `list`, `unlist` and `setAdmin` are marked done and absent; the relay's
`makerFee` and `takerFee` are parsed and not used; the comment at `dex.go:165`
speaks of a lock, and nothing is locked, as the comment at `dex.go:176` says. A
token with more than ten decimals makes DecimalToUint64 slice beyond its padding
constant, which panics, for some texts of a number and not for others;
`LoggedReadsBack` and `ProperFormsAccepted` hold up to that limit. EpochEnd and
ClaimSpProfit leave no event. What a trade gives the governance account can be
told from its event, as a side's fee less its channel's part, but what a claim
takes cannot, so a follower knows no more of that balance than a bound from
above. Who traded cannot be told from a trade's event without the orders. An
order with salt 0 counts as canceled by a relay from the start, since cancel
numbers start at 0.

## Proofs

The theorems hold for all constants that meet the named assumptions of the
modules: finitely many accounts, orders and requests, well typed orders, requests
and signatures, widths in Nat, positive scales and precisions. Of what is
encoded they assume that field values are byte strings as wide as their kind
(`ValuesAssumption`), that hashes and what a client appends to a call are bytes
(`HashAssumption`, `TailsAssumption`), that of what an owner
signs only the extra text can hold a label (`TextAssumption`: the rest are numbers,
addresses, sides and pairs that the contract parses, and prices and amounts as a client
writes them; those of a submitted order may be any text), and a radix of at least 2
(`CodecAssumption`). Some theorems have a hypothesis of their own, given below
with the reason.

| Theorem | States |
| --- | --- |
| `CustodyTypeCorrect`, `TradingTypeCorrect`, `DexTypeCorrect` | types, the wrapping subtractions of trading included |
| `CustodySolvent`; `TradingSolvent`, `DexSolvent`, `SettlementSolvent` under `RatesFit` | every balance can be paid |
| `CustodyKeepsPromise`; `TradingKeepsPromise`, `DexKeepsPromise`, `SettlementKeepsPromise` under `RatesFit` | the refinement of `Vault` |
| `CommitsMature` under `WaitsFit` | `MatureCommit`: no unit is paid before its wait |
| `PayoutsAsAsked`, `OwnersLoseAsSigned` | `PayoutAsAsked`, `DebitedAsSigned` |
| `OrdersNotOverfilled`, `SidesStayEqual`, `DeadOrdersAreFinal` | `FilledWithinAmount`, `SidesBalance`, `DeadOrdersStayDead` |
| `LimitPricesHold`, `OrdersSpendAsSigned` | `LimitPriceKept`, `SpentAsSigned` |
| `FeesBacked`, `NoFeeLost`, `ClaimsReachPastFees` under `GovernanceSignsNothing` | `ProfitBacked`, `FeesAccounted`, `OnlyPastFeesClaimable` |
| `OwnersLoseNoMoreThanSigned` | `LostAsSigned`, with any rates |
| `WayOutStaysOpen` under `RatesFit`, `SupplyFits` | a matured withdrawal passes every check of `CommitWithdraw` |
| `SettlementIsOneTrade`, `OnlyRealRecords` | `SettlesAsOneTrade`, `RecordsAreReal` |
| `EventsSuffice` under `RatesFit` | `EventsTellAll`: events, and the orders they name, tell the answers |
| `RecordsReadBack`, `ScanFindsRelays`, `SizesAsToldToHost` | `RecordsApart`, `RelaysListed`, `SizesHold` |
| `CallsReadAsWritten` | `ReadAsWritten`: a call is read whole, as written, or refused |
| `SignaturesMeanOneThing` | `AcceptedAsSigned`: one text, one meaning |
| `NumbersReadExactly`, `ProperNumbersAccepted`, `LoggedNumbersReadBack` | `ReadsExactly`, `ProperFormsAccepted`, `LoggedReadsBack` |

The hypotheses:

- `RatesFit`: a system rate and a signed rate of a signed order sum to at most
  `FeeBase`, and the prime discount is at most 100 per cent. The code checks the
  signed rate alone; without this the statement is false, which is the run
  `full_rate`. What an order costs, what is lost and what is filled do not need it.
  A follower of events needs it because an event gives fees and amounts, of which
  the net receipt is the difference only if nothing wraps; and the system fee is a
  fee less the channel's part only then.
- `WaitsFit`: timestamp plus wait stays within uint32. False without it: `wide_wait`.
- `GovernanceSignsNothing`: no signature by the governance account over an order.
  It is a contract address, for which there is no key. With such an order it
  could sell what its fee records count on.
- `SupplyFits`: a token's whole supply fits uint64, so one wallet can hold it. A
  payout could overflow its receiver otherwise; token contracts of the platform keep their supply
  in the same integer.

The instances of the runs named after the properties satisfy them, but for
`fees`, which leaves `RatesFit` out on purpose: its theorems do not need it.

### The arguments

*Accounting.* `Solvent` is not inductive without types, and a step is awkward to
reason about as an update of two functions, so each step is first shown to be
*accounted* (`Accounted` in `DexLedgerProofs`): of one token, the sum of the book
and the DEX account change by amounts that fit and every other token is
untouched, or balances move inside the book and no sum changes. `AccountedStep`
then gives types, solvency and the vault step for all of them. The sums are the community modules'
`SumFunctionOnSet`, a fold defined with CHOOSE; `FoldTheorems` derives from the
definition that changing one value changes the sum by the difference
(`SumUpdate`), by induction on sets written out with subsets, as the library's
induction theorems cannot be used here.

*Data.* For the same reason nothing is known of a fold or a recursive function until
its equation is shown to have a solution. `FoldTheorems` does this for folds over
sequences: the results after 0, 1, ... n elements are a chain (`FoldExists`,
`FoldAlong`), and two chains with one start and one step are the same
(`SameChain`). What a fold computes is then an induction over that chain, on numbers.

*A trade's bookings.* `Posted` is a recursive function over the list of bookings;
`PostedUnfold` derives its equations, `BookEffect` what a checked booking does to
each balance and each total, `TradeBooks` adds up the eight: in the token a side
receives, its net receipt and the two fees against what the other side gives
(`TakerSum`, `MakerSum`). When rates fit, the fees stay within the receipt by the
bounds of integer division (`FeesWithinReceipt`), so nothing wraps and both sums
are zero (`TradeAddsUp`): a trade is a stutter of the vault.

*Orders.* `OrdersKept` is fills within amounts with equal sides; a trade adds the
same amount to two different orders on opposite sides of one pair (`TradeFills`).
Dead orders need no invariant, only that time, flags and cancel numbers grow.

*Prices and costs.* Each fill is priced by the maker and rounded down, so the
invariant of `LimitPricesHold` compares what moved with the exact value of what was
filled, scaled to integers, order by order (`PricesKept`); that of
`OrdersSpendAsSigned` bounds what an account spent by the sum over its orders of
the cost of what each was filled with (`CostsCover`), and the cost of a full order
is what was signed. Both cite the quotient bounds `QuoteBounds`, `CostWithin`, `CostGrows`.

*Losses.* In `CustodyProofs` what an owner was debited is at most the sum over
the paid requests with the owner's signature, a subset of the signed ones. In
`DexProofs` an owner's loss is at most that sum plus the cost of fills
(`LossesCovered`): the two components spend one balance and each step is one or
the other. A self-trade may credit an account as well as debit it, hence the inequality.

*Maturity.* The record keeps one time for merged requests. `RecordsAsAsked` ties it to
the requests behind it: its time is at least the time of each, its amount what
they asked for. A wait that changes between the phases does no harm, because the
commit reads the current one and so does the property.

*Fees.* `FeesAccounted` is not inductive alone: an accrual would wrap if the record were
not backed by a balance that fits uint64, so it is proved together with
`ProfitBacked` (`FeeInv`). `RoundsApart` adds what the record knows of rounds: the latest
profit is the running round's if the record names that round, and the running
round has no fees if it names another.

*The way out.* `ExitOpen` is about ENABLED, which the provers do not handle. `WayOut`
states the same through the guards of `CommitWithdraw`, written out as
`CommitAllowed`. It needs solvency, types, and that tokens only move (`TokensKept`):
the receiving wallet and the DEX account together hold no more than the supply.

*Settlement.* While a trade is under way nothing else runs, so all it does follows
from what it read at the start: a *plan* (`PlanOK`) of ten writes, the copy after
each (`CopyAt`) and the list still to do (`Remaining`). The invariant says that the
running transaction is somewhere on a plan whose bookings so far went through
(`Reached`). A zero fee is skipped by the list and changes nothing in the copy
(`SkippedFee`), so a list that has run out has reached the end of its plan
(`NextDue`), where the copy is what `Trade` writes (`CommitIsTrade`). `PlanKept` is why the
checks made at the start still hold at the end. A trade of nothing is worth nothing
and does not match (`TradeOfSomething`), which is why the records it leaves are real.

*Events.* The property reads all pending events at once, as somebody who holds every
order would, and the invariant (`EventInv`) says that this gives the answers, with
the governance account's balance as a bound. A follower holds fewer orders, but an event read with
the ones it names is read alike with more of them (`EnoughHeld`; ids are
injective, so the order found is the one named, `BehindIs`).
Emitting appends an event, so the fold gains a last step (`ReadLast`); reading takes the
first one off without changing the result (`ReadFirst`). What remains is one lemma
for each handler, `PrepareTold` to `RelayTold`: a copy that tells the answers before the
call tells those after it once its event is learnt. The trade's (`TradeTold`)
shows that the bookings and the follower's eight entries add up alike for any
coincidence of maker, taker, channels and governance (`SystemPaidEffect` for the two
last, whose amounts are in no event but as differences). A follower recomputes
amounts from decimals: they are counts of units over a scale that divides
out (`UnitsRead`). Calls without an event change nothing a follower keeps but
the governance account, which a claim only lowers (`UnloggedTold`).

*Bytes.* `ReadsBack` is about any format: reading takes the fields off one at a time, and
after k fields what is left is what was written after the k-th (`FieldRead`,
`ReadStep`); if bytes are missing, some field does not find its own. A record is
therefore read back if its key finds it. `StoreInv` says that a key's
value is what was last written for its record, which needs that no two records
have one key (`KeysApart`): prefixes differ between kinds, and behind one prefix
everything is of one width. A scan for a prefix finds keys of that kind only, for the same
reason (`PrefixFound`). `CallInv` says that what arrived agrees with the message as
far as both go, and that what a handler read was read from it; that every argument type is a format,
nested ones included, is `TypesKnown`.

*Signed texts.* The extra field may hold labels, so a text cannot be cut at the first
label it meets. `WithdrawalsDiffer` cuts withdrawals from the end: behind
the extra text no field holds a label, so the last `&to=` is the real one, then the
last `&salt=`, and so on up to the extra text, and from the front before it
(`CutAtLast`, `CutAtFirst`). Orders are cut from the end down to the price. The
contract reads nothing behind a second decimal point (`fine_price`), so the price and
amount of a submitted order may hold labels; but `&price=` stands once in what was
signed, so the text is cut there in one way (`CutAtOnly`), and what is left of it ends
with fields without labels up to the amount. A withdrawal is no order (`KindsDiffer`):
its last label is `&to=`, an order's is `&user=`.

*Numbers.* `Digits` is a fold, so digits in front of others are shifted by them
(`DigitsJoined`), zeros behind multiply by a power (`WithZeros`), and zeros in front
count nothing. `FormatUint` recurses on quotients; it has a value for every
number (`FormattingExists`), reading that gives the number (`FormatFaithful`), and a
remainder below a power has no more digits than its exponent (`FormatShort`), which
is why writing never pads by less than nothing. `ReadingIs` and `WritingIs` put
these together; the invariant (`CodecInv`) is that accepted units are told by the form
and that the form is what was read or what the event writes for those units.

### Only model-checked

- Liveness (`PreparedIsPaid`), and `ExitOpen` as written: the provers know nothing of
  ENABLED. `WayOutStaysOpen` proves its safety content from the guards.
- That the five disagreements with the documentation are reachable.

## Not modelled

The host's sequential execution is assumed; its rollback is assumed everywhere
but in `Settlement`, which models it. The prime contract is a constant set, token
contracts move the whole amount or fail, precisions (`Pow10`, beyond 19 decimals
an undefined conversion) are positive constants. The parameters' registration,
defaults and validators belong to `global_params`: here they change at any time
within a set of values.

Left out: Copy and String methods, SignOrder and SignWithdraw (a client's
helpers), NewBuyOrder and NewSellOrder (used by tests), the splitting of a pair
into two addresses (`pairToAccount`), and EncodePair and GetPairKey, which nothing
calls. The formats of ListAssetArgs, AnchorArgs, AssetFee and LinkMarketArgs are
in `WireFormats` although no method reads them. What the host's readers and
writers do with integers, strings and accounts is modelled from how the code
uses them.

## Plan

Every safety property that a run checks is proved, but for `ExitOpen`. What would
extend the project is a model of the parts it assumes: `global_params` with its
defaults and validators, token contracts that fail or take a fee, and more than one
pair of tokens in the instances for TLC.
