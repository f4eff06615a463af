# StakePort in TLA+

A specification of StakePort kept beside its code: a market that sells native
validator stake. A buyer escrows a payment, the seller's EOA (delegated with
EIP-7702) asks the consensus layer to consolidate the seller's validator into the
buyer's (EIP-7251), and the payment is released or returned by proofs about the
beacon state (EIP-4788).

## The system

| Part | State | Operations | Talks to |
| --- | --- | --- | --- |
| `contracts/src/NativeStakeMarket.sol` | trades, locks per source, used nonces, listings, policies, WETH escrow | list, cancel, two fills, five settlement calls | delegate, oracle, policy, WETH |
| `contracts/src/Stake7702Delegate.sol` | none (runs as the seller's EOA) | `requestConsolidation` | the EIP-7251 predeploy |
| `contracts/src/BeaconOracle.sol`, `libraries/BeaconProofs.sol` | none | check a root of the EIP-4788 ring and SSZ branches under it | the beacon roots contract |
| `contracts/src/world/WorldIdEligibility.sol` | eligibility per account, account per nullifier | `attest`, `isEligible` | the market, the attester (frontend API) |
| `contracts/src/aqua/AquaStakeBidApp.sol` | none of its own (Aqua keeps budgets) | `matchBid`, pricing | Aqua, SwapVM, the market |
| `contracts/src/uniswap/*` | none | swap into a purchase, router, price oracle | PoolManager, the market |
| `proof-generator/src/relayer.ts`, `remote.ts` | trades in flight | tick: read a trade, fetch proofs, send | indexer, beacon node, market |
| `proof-generator/src/indexer.ts` | listings, trades, bids, next block; saved to a file | sync, apply an event, save, restart | RPC node, HTTP clients |
| `proof-generator/src/realServer.ts` with `remote.ts`, `frontend/src/lib/beacon-proofs.ts` with its routes | the cached genesis time | proofs of the newest provable state, lists, the time | a beacon node that is not trusted, an execution client |
| `proof-generator/src/server.ts`, `simulate.ts` | simulated beacon state, cached fill proofs, injected roots | fill proofs, checkpoint 1, checkpoint 2 | the local fork, the demo UI |
| `proof-generator/src/{proofs,abi,gindices,queues,replay}.ts` | none | SSZ proofs, ABI encoding, queue statistics | - |
| `frontend/src/app`, `lib`, `components/WalletBits.tsx` | what each page has read, the transactions it waits for | load a page, click, send, wait for a receipt, go on | market, app, router, tokens, proof service |
| `frontend/src/components/WorldGate.tsx`, `lib/world.ts`, `app/api/world` | the gate of a listing, a proof under way | ask World App, verify, sign, record | World App, the Developer Portal, `WorldIdEligibility` |
| consensus layer (external) | registry, pending consolidations, predeploy queue, ring of roots | blocks, exits, slashing, sweep | - |

What is hard here is time and order. A request waits in a queue, is accepted or
silently ignored, stays visible for a while, and leaves; proofs about all of it
come from a ring that forgets; two windows (`REQUEST_DEQUEUE_DELAY`,
`acceptWindow`) turn silence into a refund; anybody may relay any proof in any
order; the seller can exit, be slashed, or ask for another consolidation in
between; blocks are missed, so timestamps run ahead of slots. Around the contracts,
one call's ether pays three parties, and a page acts on what it read before somebody
else's transaction. `PROJECT.json`
lists the hazards with their lines.

## Modules

| Module | Models | Notes |
| --- | --- | --- |
| `Beacon` | the consensus layer as the contracts and `simulate.ts` rely on it (external) | time in slots; a validator is its index and its pubkey; balances in units of half an ETH |
| `WorldIdEligibility` | the contract of that name | used by `StakeMarket` through `INSTANCE` |
| `StakeMarket` | the market, the delegate's call and the oracle's answers, on top of `Beacon` | one action per external function |
| `DvP` | what a market promises: delivery versus payment | abstract specification |
| `StakeBids` | `AquaStakeBidApp.sol`, with Aqua and SwapVM as it uses them | extends `StakeMarket`: a match is a fill with another payer |
| `Purchases` | every way into a fill with the ether it carries: WETH, ether, a swap through `StakePortHook.sol`, a matched bid | extends `StakeBids` with ledgers of ether and of the pool's token |
| `Frontend` | the buy, sell, bids, trade, portfolio and demo pages and the libraries they call | extends `Purchases`: the pages' transactions are its purchases and the market's actions |
| `VerifiedMarket` | `WorldGate.tsx`, `lib/world.ts`, the `api/world/verify` route | extends `StakeMarket`: the gate, the server and the recording of an attestation over the market that asks for it |
| `Relayer` | `relayer.ts` in real mode, with `remote.ts` | extends `StakeMarket`: one step per await |
| `ProofService` | `server.ts` with `simulate.ts` and the proofs of `proofs.ts` | stands alone: it has a simulated beacon state of its own |
| `RemoteBeacon` | `remote.ts`, `realServer.ts` and the pages' copy `lib/beacon-proofs.ts` with its routes | stands alone: a request's calls beside the chain, the execution client and a node that may lie |
| `Indexer` | `indexer.ts`, beside the events of the contracts | stands alone: the contracts are cut down to what their events tell |
| `MC...` | small instances for TLC | |
| `StakeMarketProofs` | types, locks and nonces; what the consensus layer and the ring keep; requests, windows, deliveries and refunds; the market implements `DvP`; the escrow | see Theorems |
| `PurchaseProofs` | the same with every way to buy; bids, ether, costs, budgets and makers | extends `Purchases` and `StakeMarketProofs` |
| `VerifiedMarketProofs` | consent, jurisdiction, documents, expiries | extends `VerifiedMarket` and `StakeMarketProofs` |
| `RelayerProofs` | the relayer is in time, its calls pass, it refunds no accepted stake | extends `Relayer` and `StakeMarketProofs` |
| `FrontendProofs` | what the pages say of purchases, prices, refunds and the demo | extends `Frontend` and `PurchaseProofs` |
| `RemoteBeaconProofs` | answers of the public proof service | extends `RemoteBeacon` |
| `ProofServiceProofs` | answers of the simulated proof service | extends `ProofService` |
| `IndexerProofs` | the index tells what the events told | extends `Indexer` |

### How state and actions correspond

`StakeMarket` (with `Beacon`, `WorldIdEligibility`):

* Every action is one transaction of the block at `now`; a transaction that
  reverts is a disabled action. `ListOrder`, `ListOrderWithPolicy`,
  `CancelOrder`, `Fill`, `FillWithEth`, `ProveAccepted`, `ProveDelivered`,
  `ProveNotAccepted`, `ProveFailed` and `RefundExpired` are the functions of
  those names; `CheckOrder`, `CheckValidators`, `StateAfterFill`,
  `VerifySource` and `Fail` are the internal ones.
* A `BeaconProofs.StateRootProof` that verifies is an element of `roots`: the
  timestamp under which the ring keeps it, the slot of the state, and the state.
  Merkle branches are assumed sound, so a proof of a validator, a balance or a
  pending consolidation is a read of that state. Each settlement action may use
  every root in the ring, as any relayer may.
* `trades[id].nonce` is history: the contract stores the nonce in `nonceUsed` only.
* `accepted` and `movedTo` are history of the consensus layer: which request
  it accepted for a source and where the balance went.
* `NewBlock` ends the current block: the predeploy hands over requests, the
  consensus layer accepts any subset of the acceptable ones (the churn limit or
  a full queue may drop one), the post-state enters the ring under the next
  block's timestamp, and a new epoch consumes the ready pending consolidations.
* The checks of a settlement call are named on their own (`ShowsAcceptance`, `ShowsDelivery`,
  `ShowsNoAcceptance`, `ShowsSlashing`, `Expired`; `PaymentHeld` is what the WETH transfer needs),
  so that `Relayer` and `Frontend` can ask whether a call would pass.
* `Fill` runs the delegate's `requestConsolidation` as part of the same
  transaction. The ether it carries is added in `Purchases`.

`StakeBids`: `aqua` holds Aqua's balance per shipped strategy, keyed by shipper
and bid as in the contract; a wallet's own WETH stays in `weth`, so several bids
can promise the same money. `MatchBid` is `matchBid` with its callback: the pull
from the maker's wallet and the market's fill are one transaction. `matched` is
history. SwapVM's program is the Dutch auction that `buildDutchBid` writes, with a linear decay between its
two prices; a bid's pricing names the bid's maker, as `createBid` writes it, so `PricingMakerMismatch`
(`AquaStakeBidApp.sol:135`) does not occur.

`Purchases`: `eth` and `token` are the balances of every account and contract that
touches a purchase; WETH is the ledger `weth` of `StakeMarket`, and the ether behind it
is at `Weth`. `BuyWithWeth`, `BuyWithEth`, `BuyForBid` and `BuyWithToken` are `fill`,
`fillWithEth`, `matchBid` and a swap, each one transaction: `Filled` is `_fill`'s
balance bookkeeping around the delegate's `requestConsolidation` (`Requested`), and
each of them sends on what its contract's own balance says is left, as in the code.
`Strays` is ether those contracts hold from outside any purchase, `Rejecting` the
accounts that revert when they are sent any. The fee is any of `Fees`, the pool's rate any of
`Rates`, and the pool cannot take more than `PoolDepth` tokens. `cost` is history.
The fills and settlements are `nonReentrant`, and every state write of a fill precedes the
sending of its change, so calls from its recipient are later transactions.

`Frontend`: `job[u]` is the page a user has open: what it showed when it loaded
(`item`), the button clicked, what the click has read (`quote`, `state`), the writes still to
do (`todo`). `Write` is `simulateContract` and `writeContract` of `chain.ts`, `Refuse` a
failed simulation (`Succeeds` is `simulateContract`) or a wallet that says no, `Mine` the execution of the first transaction in
the account's `mempool`, whose receipt the page sees if it still waits, `TimeOut` the end of
`waitForTransactionReceipt` while the transaction can still be mined. A reverted
transaction leaves no trace but its receipt. Wallets mine what they were asked to sign: a transaction that
the user speeds up is the same purchase, one that the user cancels is outside the model (see Not modelled). Each `Load...` has the filters of its page
(which listings, validators, bids and trades it offers), `StepsOf` the order of the
writes behind each button. `ReadTradeId` is the reading of `nextTradeId` after a purchase; when it fails (`ReadFails`) the page has
failed although the trade is there, and forgets it.
`Users` who have the pages open act beside sellers who do not (`ChainNext`). On the
demo fork the page sets the seller's code itself; that is modelled as one more transaction.
The demo's real proof service answers from the newest provable state; the checkpoints that the
simulated one serves are in `ProofService`. No page calls `cancelOrder`.

`VerifiedMarket`: `gate[p]` is a person's page of a verified listing: what `refresh` read, the
request its World ID widget is open with, what it posts, the answer. A person is also its
nullifier. `Prove` is World App (external): it proves possession of a document for the
request's signal and, for Identity Check, that the issuing country is the stated one. The page posts the
country that is selected when the widget answers (`WorldGate.tsx:168`), which the model takes to be the
request's, since the widget lies over the selection; the server cannot tell (`route.ts:31` names the limitation).
`Verify` is the route: sanctions, signal, the portal's answer (either), the signature over
an expiry on the chain's time. `RecordAnswer` is `verifyAndAttest`'s write, `RecordLater` the
same transaction mined after the page gave up, or anybody's replay. The portal's one-time
use of a proof is left out, so the model allows more repetitions than the service does.

`Relayer`: `relayer.pc` says which await the process is at: `read` (rows and
trades), `fetch` (proofs of the newest provable state), `send` (simulate and
write), `wait` (receipt). The tick's `now` and the trade's status are kept
from the time they were read. `Checkpoint1` and `Checkpoint2` are the two halves
of `settleReal`; `Passes` is `simulateContract`, the checks of the market function that
`Execute` runs. `Crash` forgets everything but the transactions already `sent`.

`ProofService`: `sim` is the view as last assigned and `tree` the state last
committed; a proof pairs a leaf with the tree its branch was read from, so that
a leaf taken from an uncommitted view does not verify. `chain` is the promise
chain of `serial`, `handler[c].pc` the call to the fork a checkpoint handler waits for,
`filling[f]` the same for a fill-proofs handler; only the first of the chain runs, and what
follows it once it has answered or failed is the chain's `Tail` (`NextInChain`). A call that fails leaves the
simulated state as it was changed before the call.

`RemoteBeacon`: a block is its post-state and a root is the chain up to the block, since it
commits to all of it; times are slots. `req` is the request a handler works on: `pc` is the call
it waits for, the other fields what it has got so far (`root`, `message` of the header, `ts` of
the lookup, `index` of the entry, `tree` rebuilt from the multiproof, `rows` of JSON). Requests share
nothing but the service's cached `genesis`, so one is looked at at a time. Each `Get...` is one
call: the truth at that moment, or a lie (`Told`); `Lookup` is one iteration of
`fourEightyEightTimestamp`; `RateLimited` and `Refused` are what `get` does about errors. `NewBlock`,
`Reorg` and `Sync` come between any two calls. `trouble` is history: what has come in the request's
way. The pages' routes differ in what the code differs in: a configured genesis time,
fewer retries, and no comparison of the JSON with the proven leaf.

`Indexer`: `blocks` is the chain's events, `past` the contracts' state after each
block. `Apply` is `apply`; `ReadChunk` one iteration of the loop in
`syncOnce`, with `Indexed` the loop over the logs of the chunk's blocks; `Truncate` and `Write` are the two halves of `writeFileSync`.

Definitions under a comment "Faulty variant" are not part of the
specification: each is the definition after it with a plausible bug, and is
used to show that a property notices that bug.

## Runs

The clock (`MaxSlot`, `MaxTime`), the chain (`MaxBlocks`), the trades
(`MaxTrades`), the predeploy queue (`QueueCap`) and the faults (`MaxFaults`,
`MaxFailures`, `MaxReorgs`, `MaxLies`) are bounded in the guards. Deadlock is not checked where a
bounded clock or chain stops; it is in `remote`, where a request can always be made.

| Run | Instance | Shows |
| --- | --- | --- |
| `sales` | two sources of two sellers into one target, one source in two orders, two trades | locks, nonces, escrow, payouts, acceptance provable through the window and not refunded, and that the market implements `DvP` |
| `progress` | one trade, missed slots, a seller that front-runs, slashing, a full predeploy queue, accept window at its maximum; fair blocks and relaying | delivery only after a move, no refund racing a request, no payment stays in escrow |
| `verification` | two people with documents of two countries who share an account, a wallet that switches accounts, attestations recorded in any order, policies that change | orders with a policy reach only holders of their own attestation; eligibility follows consent and jurisdiction; an overwritten expiry can be restored |
| `bids` | two bids out of one wallet that covers one match, a strategy shipped by somebody else, direct purchases with WETH, ether and tokens, stray ether, a buyer that refuses ether, LST prices, index and pubkey that differ | budgets, prices within the bid's terms, refunds to the wallet that paid, no ether stuck, WETH backed, every account down by price and fee only |
| `buying` | two users on the pages, one LST-priced listing and one of a user's own, receipts that do not come, transactions refused, reverted or mined late | a purchase a page reports is real; ether payments within the quote; refund advice stands; the demo follows its trade |
| `redirect` | two users who buy different stakes | finding 3 |
| `relayer` | others may settle too; two transactions in flight, a fault at any await | what the relayer sends passes unless overtaken: its conditions are not weaker than the market's; it refunds no accepted trade; if nobody else does, it settles every trade |
| `service` | an accepted checkpoint for a replayed pair, both checkpoints for a simulated one, a fill, users' blocks, a failed call | answers verify on the fork and settle their trade; every request is answered |
| `service_cache` | a fill-proofs request during a checkpoint | finding 1 |
| `remote` | fill proofs and a list from the service, the first checkpoint's proofs from a page's route, a pair accepted into the target of a pending one; empty slots, one reorganisation, two lies, errors and rate limits | answered fields are of the proven state; unless the node lied or reorganised, answers verify onchain; every request ends, without reason not with an error |
| `index` | failed rounds, crashes during a save | the index matches the contracts at the block it has read; it catches up |
| `index_restart` | a crash during a save | finding 2 |

Why these bounds are enough. An epoch has one or two slots and the ring three or four
roots, so a trade's life (fill, hand-over, acceptance, withdrawable epoch, sweep,
expiry of the window) fits below slot 8 to 16 and the ring wraps several
times; in `relayer`, 16 is the first bound at which every trade still has time to end. Two trades are enough for every property about sharing: locks,
nonces and pairs relate two trades at most. `AcceptWindowBounds` and
`DelaysMatchConsensusLayer` are the assumptions that the two windows rest on; both conjuncts of the
second are exact: in the instance of `progress`, which meets them with equality, a delay one slot shorter breaks
`RefundKillsRequest`, and an accept window one slot longer breaks `AcceptanceProvable`. In mainnet numbers the window says
2 days <= 260 epochs + 8191 slots (55.03 hours), the "~55h" of the contract's comment.
In `bids` the values attached, the fee and the rate are chosen so that a purchase can be short,
exact and in excess, with ether of others in each contract. In `buying` and
`redirect`, two users, two listings and two repeated clicks suffice for one purchase to fall between the
simulation, the block and the next read of another; `RefPrices` lets a quote double.
`sales` has two trades but no missed slots (`MaxGap` 1) and no request of a seller's own. Missed slots and such
requests are what endangers `DeliveredStakeMoved` and `RefundKillsRequest`, so `progress`, which has both, checks these
two with one trade; a delivery among two trades is `Pay` of `DvP` in `sales`, which asks for the same move.
Two runs stop short of a case that then rests on a theorem: `bids` ends before a delivery, which
`BudgetsExact` and `MakersWhole` include; the clock of `buying` ends with the first slot in which a refund
is advised, and that the advice stands however late it is followed is `RefundAdvised`. `verification`
signs two attestations, enough for a newer and an older one, or for one document and two accounts.
`MaxOutage` is the most slots between two ticks of the relayer; in `relayer` it
is smaller than the ring and than the time a pair stays pending, see below. Two transactions in
flight are what a crash with `inFlight` lost can produce for one trade. In `remote` a chain of two
blocks may grow to slot 5 with `Lookahead` 3: children come late, too late, and just in time. `LogRange` 2
with three blocks gives chunks that end inside, at and after the head.

### Fairness

* `FairSpec` of `StakeMarket` (run `progress`): weak fairness of block production,
  of the withdrawal sweep for each validator, and of each kind of settlement step
  that stays enabled. Blocks and sweeps are the protocol's; settlement is
  permissionless and the parties and the relayer have an interest in it. No fairness is
  assumed of sellers, attesters, fills or `ProveNotAccepted`.
* `FairRelayerSpec` (run `relayer`): blocks and sweeps, the steps of the
  relayer's loop (an interval timer runs it again after every outcome), the
  mining of what it sent, and its restart. Faults are finitely many. Nobody else has to settle.
* `FairSpec` of `RemoteBeacon` (run `remote`): calls are answered, with an error if need be.
  No block, no truth and no new request is assumed.
* `FairSpec` of `ProofService`: a handler at the head of the chain goes on, because the
  fork answers or fails every call.
* `FairSpec` of `Indexer`: the loop runs again after each round, and a process that
  stopped is started. Nothing makes faults stop but their bound.

## Findings

1. `service_cache`, `CachedProofsAreBase`. `server.ts:105` says of the cached
   fill proofs that "they only depend on the unmodified base state". The handler
   of `/api/fill-proofs` (`server.ts:366`) is not chained by `serial` and decides by the
   number of checkpoints *served*; while the first checkpoint handler waits for the
   fork, the view is already changed, and a validator not yet snapshotted gets a cached
   proof of the changed state. It then fails against the base root for good.
2. `index_restart`, `RestartsResume`. `indexer.ts:5` says that "restarts resume where
   they stopped". `writeFileSync` truncates the file before it writes it, and a crash in
   between leaves a file that `JSON.parse` rejects at every start until somebody removes it.

3. `redirect`, `RedirectsToOwnTrade`. `market.ts:252` says that `fillWithWeth` "Returns the new
   trade id". It, `fillWithEth`, `buyWithUsdc` and `matchBid` read `nextTradeId` after their
   receipt and return the number before it (`market.ts:279`). When somebody else's fill is mined in
   between, the page goes to that trade. What stays true (`PurchasesAreReal`): the buyer's own
   trade exists, and the one shown is not older.

Seen while modelling, not stated as properties: the portfolio page suggests to re-verify before an
eligibility ends (`portfolio/page.tsx:119`), but the gate offers no button while the account
is eligible; a purchase with WETH approves the market without limit, so that a rise of an
LST-relative price is paid (the ether route is bounded by what is attached); and after a receipt
timeout the buy and bids pages say that the transaction "was not sent", while it may still be mined, as they do
when the read of `nextTradeId` fails after the purchase was mined.

A limitation rather than a disagreement: the relayer looks only at the newest
provable state (`relayer.ts:92`). If it is away for longer than an accepted pair stays pending,
older roots of the ring still prove the acceptance, but it does not look at them, and
once the accept window is over it sends `refundExpired` for a stake that is on its
way. The market's own guarantee (`AcceptanceProvable`) holds for a relayer that looks
at the ring; for this one `AcceptedNotRefunded` needs `RelayerBackInTime`, which relates `MaxOutage`,
the most slots between two ticks, and `MaxFaults`, the number of faults, to the windows: every fault
loses a tick. With `REQUEST_DEQUEUE_DELAY` of 6 hours, an accept window of 2 days, pairs that stay
pending for at least 256 epochs (27.3 hours) and proofs at most an hour old (`DeployCore.s.sol:21`), it
says that ticks are less than 8191 slots apart, that a row is looked at again within 42 hours
after any faults in a row, and within 26 hours of an acceptance. The loop polls every 12 seconds.

## Theorems

Everything below is proved for every value of the constants under the assumptions that the
modules declare and TLC evaluates in the runs: any number of validators, orders, trades,
bids, accounts and requests, any queue and any windows.

| Assumption | Says |
| --- | --- |
| `BeaconConstants`, `MarketConstants`, `AttestationConstants`, `VerifiedMarketConstants` | ranges of the parameters; the market's address is no party's; the zero address is nobody's |
| `AcceptWindowBounds` | the constructor's check of the accept window |
| `DelaysMatchConsensusLayer` | the last place of a full predeploy queue is reached within `REQUEST_DEQUEUE_DELAY`; `MAX_ACCEPT_WINDOW` ends while an accepted pair is pending or its last root is in the ring |
| `BidConstants` | bids are well formed; Aqua knows a strategy by its shipper and its hash, so a shipper ships a bid once |
| `PurchaseConstants` | contracts, customers, the pool, the predeploy and WETH have different addresses; finitely many accounts; the contracts take ether |
| `RelayerConstants`, `RelayerBackInTime` | ranges; the relayer is back before a root leaves the ring, before the window of a request that was handed over ends, and before an accepted pair leaves the queue (see Findings for the numbers) |
| `FrontendConstants` | users are accounts; slippage, buffer and clicks are numbers |
| `RemoteConstants` | the chain begins with two blocks; windows and bounds are numbers |
| `ServiceConstants` | requests name validators, credentials are 0x01 or 0x02, times are numbers |
| `SourcesDrainable` | the demo's data: nobody consolidates into a source that is delivered, and it holds less than `MAX_DUST_BALANCE` above its effective balance, which `processConsolidation` leaves behind; only `AnswersSettled` needs it |
| `IndexerConstants` | ids and bounds are numbers; the values for no bid and for no policy are none of either |

The proofs about contracts are stated over `MarketNext` (`StakeMarketProofs`): `Next` in any company,
where a fill may name any buyer, be paid from any purse (`AnyFill`) and any attestation be
submitted (`AnyAttest`). `Next`, `PurchasesNext`, the steps of the Verified Market, the transactions of the
pages and those of the relayer are such steps, so one induction serves all five specifications. What
others may do between two steps of a page or of the relayer is summed up by `PastKept`: a trade keeps its
terms, is not reopened, and time does not go back.

| Module | Theorems | Argument |
| --- | --- | --- |
| `StakeMarketProofs` | `TypeCorrect`, `NoDoubleSale`, `NonceOnce` | `TypeOK` is inductive, with one lemma per kind of step; `BlockStep` carries the queues. `SaleInv` adds to the two invariants `FreshIds`: ids from `nextTradeId` on are unused, without which a fill could overwrite an open trade. |
| `StakeMarketProofs` | `ConsensusKept` | `ConsensusInv`: accepted stakes exit; what is pending is what was accepted; what moved went where it was accepted for; an accepted stake moved, waits, or is slashed; the queue is in the order of withdrawable epochs; and every root in the ring shows the past: what it shows exiting or slashed still is, and what it shows withdrawable after an acceptance has moved. The last part is why a proof about an old state says something about now. |
| `StakeMarketProofs` | `SettlementKept`, `RequestsNameStake`, `PaidStakeMoved`, `RefundIsFinal`, `WindowFitsRing`, `AcceptedStakeNotRefunded` | `SettlementInv` = `ConsensusInv`, `SaleInv`, `TermsInv`, `OutcomeInv`. A request in the queue belongs to the open trade that locks its source, and its place bounds its waiting time (`QueueAdvances`: this is where the first delay assumption is used). An accepted request was seen by a root after the fill, its source exits no sooner than `ExitDelay`, and until the window ends one root that proves it is either the newest or stays in the ring (`LastingProof`: the second assumption). |
| `StakeMarketProofs` | `MarketImplementsDvP` | Initial states map to initial states of `DvP`; a fill is `Lock`, a delivery `Pay` (its guard, that the stake moved, is `PaidStakeMoved`'s argument), a failure `Refund`, a sweep that moves a stake `Move`, all else a stutter. |
| `PurchaseProofs` | `PurchasesKeepMarket`, `PurchasesImplementDvP`, `PurchasesNameStake`, `BidTermsKept`, `NoEtherStuck` | Every purchase is an `AnyFill`. `MatchInv`: a matched trade was within its bid's terms when it was filled, and terms do not change. `EtherInv`: the balance of each contract is followed through the transfers of one call. |
| `StakeMarketProofs` | `EscrowBacked`, `PayoutsExact` | See Sums. |
| `PurchaseProofs` | `PurchasesBackEscrow`, `CostsBooked`, `WethIsBacked`, `PurchasesCostTheirPrice`, `BudgetsExact`, `MakersWhole` | See Sums. |
| `VerifiedMarketProofs` | `VerifiedKept`, `ConsentGiven`, `SanctionsEnforced`, `OneAccountPerDocument`, `ExpiryRestorable`, `HoldersOnly` | `VerifiedInv`: what the server signed names the account that was proven and, for an Identity Check, a document of an accepted country; every eligibility was recorded; a recorded nullifier stays bound to its account. |
| `RemoteBeaconProofs` | `RemoteKept`, `RemoteTypeCorrect`, `OneState`, `StableAnswers` | `HandlerInv`: what the handler checked by itself (the state hashes to the header, the leaves are of that state) holds whatever it was told. `HonestInv`: while the node has told the truth and kept its chain, the header is of a block below the head and the execution client stores its root. Reorganisations and lies end only the second. |
| `RelayerProofs` | `RelayerKept`, `ChoicesPass`, `RelayerRefundsNoAccepted`, `RelayerPassesOverNoProof` | See The relayer. |
| `FrontendProofs` | `PagesKept`, `PagesKeepMarket`, `PurchasesReal`, `EtherPricesKept`, `DemoInStep`, `RefundAdvised` | `PagesInv`: the market's invariants, and for each user `Sound`: what the page shows is an order, a bid or a trade there is; what is left to do is the rest of one button's plan; only the last transaction of an account is waited for; the trade a purchase opened exists, on the terms that were clicked. It survives the steps of others because they keep the past (`PastKept`). The page reads `nextTradeId` after its own trade has got its id, so the trade it shows is not older. |
| `ProofServiceProofs` | `HandlersAlone`, `AnswersVerified`, `AnswersSettled` | `ServiceInv`: `serial` holds every waiting request once and only the first one runs, so the change a handler made is in the view until it answers, and the root it injects is the state it sealed. Times only grow, so the slot of the ring it wrote is not written again before `RingLength` seconds have passed, except by the fill-proofs route at the base timestamp. For `AnswersSettled`, a source that has been delivered keeps only what was above its effective balance. |
| `IndexerProofs` | `IndexKept`, `IndexInStep`, `ListingsHeld` | `IndexerInv`: the events of each block, applied to an index that tells the contracts' state before it, give one that tells the state after it (one lemma per event); the index in memory and the one on disk tell the state at the block before their `next`. The fold over a chunk is followed to the least block at which it could fail. A crash goes back to the file, which is such an index too. |

**Sums.** The escrow, the payouts and the ledgers are folds over sets (`MapThenSumSet`), defined by a
recursive function that takes the elements in the order of `CHOOSE`. `StakeMarketProofs` first shows, by
well-founded minimality of cardinality, that any function which adds up a set in this way adds it up in every
order (`SumAnyOrder`) and that there is one (`SumExists`), so that the fold of a set is an element
plus the fold of the rest (`SumFacts`, `PaymentSums`). From there each step is shown to move one
payment between sums: `BacksTrades` (escrow), `PayoutsBooked`, `CostInv` (ether, WETH and costs of every
customer, and the ether of the WETH contract), `BudgetInv` (the balances of Aqua, where the uniqueness of a
shipment is needed, or a second one would have a budget of its own), `MakerInv` (which adds that the
buyer of a matched trade is its bid's maker: this is why refunds return to the wallet they were pulled from).

**The relayer.** `PairsTimely` says how long the chain shows an acceptance: an accepted pair is pending until
its source is withdrawable, the newest root shows it until then, and a root that still shows the source
active is an exit delay older than that. `Waiting(id)` is a trade whose pair was accepted and not proven, `Due(id)`
the time until which the newest root shows the pair, with the slack of an epoch and of a proof's age. `Lag(id)` is the time of the relayer's tick less
`MaxOutage` for every fault so far and one more for a row that is still to come in this tick, and `InTime`
says that it is from before the pair was accepted (within that slack) and, for the trade's own request, from before
it was handed over.
`Lag` grows neither when a tick starts (within `MaxOutage`, and the row is to come) nor by a fault. It grows
when the row is left without one, but then the relayer has looked: its clock is at most `MaxFaults + 1`
outages after `Lag`, so by `RelayerBackInTime` the newest root still shows the pair (`HeadShowsPair`) and the
window is open, the acceptance was proven, and the trade waits no longer. A refund is sent only when the window is over by
the tick's clock, which `InTime` excludes for a trade that waits, also if the transaction is mined after a crash
(`RelayerRefundsNoAccepted`). `ChoicesPass` adds that the roots of a tick stay in the ring until it ends, and
that every condition of `settleReal` implies the market's, given that the trade is as it was read.

`VerifiedOrdersReachHolders`, `AcceptedNotRefunded`, `RelaysProvableAcceptance` and `ImplementsDvP` are temporal
formulas; the steps they need are proved from the invariants and combined by temporal logic.

What stays with TLC is liveness under fairness, which is out of the prover's reach: `EscrowReleased`
(`progress`), `RelayerReleasesEscrow` (`relayer`), `AnswersCome` (`remote`), `RequestsAnswered` (`service`)
and `CatchesUp` (`index`). Every other property of a passing run is stated by a theorem above. No proof
rests on `ENABLED` either: `Passes` of the relayer and `CanRefund` of the pages spell out the checks of the calls
they are about; `Succeeds` of the pages is an `ENABLED`, but what is proved of the pages holds whatever it answers.

## Not modelled

* Merkle branches and SSZ packing, EIP-712 hashing and ECDSA (membership in
  `Signed`), gas, validator rewards and penalties below a slashing,
  views. The market's consensus layer does not reorganise; the chain of `RemoteBeacon` does.
* Inside Uniswap and Aqua: the pool's accounting, the currency deltas, SwapVM's interpreter
  (external; a swap gives a rate or does not go through). `UniswapStakePriceOracle`:
  a pure function of observations (`RefPrices` gives any reference price).
* `abi.ts`, `gindices.ts`, `queues.ts`, `replay.ts` and the tree work in `proofs.ts`: pure functions;
  the relayer's simulation mode, which forwards to the proof service.
* In the frontend: layout, charts, queue figures, wallet discovery, error texts, the fork's faucets
  (`fundPersona`, `fundUsdc`), validator indices kept in the browser.
* Transactions that a user replaces in the wallet: `waitForTransactionReceipt` returns the receipt of the
  replacement and `write` looks at its status only (`chain.ts:52`), so after cancelling a purchase in the wallet
  the page reports one that was not made. `PurchasesAreReal` and `DemoFollowsTrade` say nothing of such users.
* The list of validators that the pages read themselves (`/api/validators`): one read per validator of a state
  that may differ, without retries and without proofs. The pages' filters are modelled on the latest state, and
  whatever a list says, the market checks its proofs again.
* A start of the indexer that fails at `getChainId`: the process stays down and is started again.
* Deployment scripts and command-line tools: one-shot, without state of their own.

## Plan

Done: the modules above, their runs, and the theorems of the contracts, of every way to buy, of the
Verified Market, of the relayer, of the pages, of both proof services and of the index.

Next: algorithms against reference definitions: branch indices and packing of
`BeaconProofs`, the exit and consolidation queue estimates, averages of ticks.
