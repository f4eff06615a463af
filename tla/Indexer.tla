------------------------------- MODULE Indexer -------------------------------
(***************************************************************************)
(* proof-generator/src/indexer.ts: follows the events of the market, of    *)
(* Aqua and of the bid app in chunks of blocks, and keeps them in a file   *)
(* so that it can resume.  Beside it, the contracts as far as their events *)
(* go: which events a transaction emits and in which order.  A block holds *)
(* one transaction; the chain does not reorganise (the code assumes it).   *)
(***************************************************************************)
EXTENDS Integers, Sequences, SequencesExt

CONSTANTS
  Orders,      \* orders, records [seller, nonce, price]
  TradeIds,
  Bids,        \* hashes of Aqua strategies of the bid app
  Policies,
  NoBid, NoPolicy,
  Torn,        \* content of a file that was truncated and not yet written
  LogRange,    \* LOG_RANGE
  MaxBlocks,   \* bound on the length of the chain
  MaxFaults    \* bound on failed calls and crashes

ASSUME IndexerConstants ==
  /\ TradeIds \subseteq Nat
  /\ NoBid \notin Bids /\ NoPolicy \notin Policies
  /\ LogRange \in Nat \ {0} /\ MaxBlocks \in Nat /\ MaxFaults \in Nat

VARIABLES
  contract, \* the contracts' own state
  blocks,   \* the events of each block
  past,     \* history: `contract` after each block
  state,    \* the index in memory, with the next block to read
  file,     \* what is on disk
  head,     \* the latest block when the round began
  pc,       \* "idle", "syncing", "saving", or "down"
  faults

chainVars == <<contract, blocks, past>>
vars == <<chainVars, state, file, head, pc, faults>>

NoTrade == [status |-> "None", bid |-> NoBid]
Unlisted == [status |-> "None", policy |-> NoPolicy]

\* deployBlock: the first block with an event.
EmptyIndex ==
  [next |-> 1,
   trades |-> [id \in TradeIds |-> NoTrade],
   bids |-> [b \in Bids |-> "None"],
   listings |-> [o \in Orders |-> Unlisted]]

Init ==
  /\ contract = [trades |-> [id \in TradeIds |-> NoTrade], bids |-> [b \in Bids |-> "None"],
                 used |-> {}, listed |-> {}]
  /\ blocks = <<>>
  /\ past = <<>>
  /\ state = EmptyIndex
  /\ file = EmptyIndex
  /\ head = 0
  /\ pc = "idle"
  /\ faults = 0

-----------------------------------------------------------------------------
(* The contracts and their events                                          *)

Block(after, events) ==
  /\ Len(blocks) < MaxBlocks
  /\ contract' = after
  /\ blocks' = Append(blocks, events)
  /\ past' = Append(past, after)
  /\ UNCHANGED <<state, file, head, pc, faults>>

Event(name, subject, detail) == [name |-> name, subject |-> subject, detail |-> detail]

StatusOf(id) == contract.trades[id].status
With(id, status) == [contract EXCEPT !.trades[id].status = status]

ListOrder(o) ==
  Block([contract EXCEPT !.listed = @ \cup {o}], <<Event("OrderListed", o, "")>>)

ListOrderWithPolicy(o, policy) ==
  Block([contract EXCEPT !.listed = @ \cup {o}],
        <<Event("OrderListed", o, ""), Event("OrderPolicySet", o, policy)>>)

NonceOf(o) == <<o.seller, o.nonce>>

CancelOrder(nonce) ==
  Block([contract EXCEPT !.used = @ \cup {nonce}], <<Event("OrderCancelled", nonce, "")>>)

FirstFree(id) ==
  /\ StatusOf(id) = "None"
  /\ \A other \in TradeIds : other < id => StatusOf(other) # "None"

\* An order listed or signed is filled.
Fill(id, o) ==
  /\ FirstFree(id) /\ NonceOf(o) \notin contract.used
  /\ Block([With(id, "RequestSubmitted") EXCEPT !.used = @ \cup {NonceOf(o)}],
           <<Event("OrderFilled", id, "")>>)

\* matchBid fills first and emits its own event afterwards.
MatchBid(id, o, b) ==
  /\ FirstFree(id) /\ NonceOf(o) \notin contract.used /\ contract.bids[b] = "live"
  /\ Block([With(id, "RequestSubmitted") EXCEPT !.used = @ \cup {NonceOf(o)}, !.trades[id].bid = b],
           <<Event("OrderFilled", id, ""), Event("BidMatched", id, b)>>)

ProveAccepted(id) ==
  /\ StatusOf(id) = "RequestSubmitted"
  /\ Block(With(id, "Accepted"), <<Event("ConsolidationAccepted", id, "")>>)

ProveDelivered(id) ==
  /\ StatusOf(id) = "Accepted"
  /\ Block(With(id, "Delivered"), <<Event("StakeDelivered", id, "")>>)

\* _fail, from any of its three callers.
FailTrade(id) ==
  /\ StatusOf(id) \in {"RequestSubmitted", "Accepted"}
  /\ Block(With(id, "Failed"), <<Event("TradeFailed", id, "")>>)

\* Aqua: a strategy is shipped and docked once.
Ship(b) ==
  /\ contract.bids[b] = "None"
  /\ Block([contract EXCEPT !.bids[b] = "live"], <<Event("Shipped", b, "")>>)

Dock(b) ==
  /\ contract.bids[b] = "live"
  /\ Block([contract EXCEPT !.bids[b] = "docked"], <<Event("Docked", b, "")>>)

ChainNext ==
  \/ \E o \in Orders : ListOrder(o) \/ CancelOrder(NonceOf(o))
  \/ \E o \in Orders, policy \in Policies : ListOrderWithPolicy(o, policy)
  \/ \E id \in TradeIds, o \in Orders : Fill(id, o) \/ (\E b \in Bids : MatchBid(id, o, b))
  \/ \E id \in TradeIds : ProveAccepted(id) \/ ProveDelivered(id) \/ FailTrade(id)
  \/ \E b \in Bids : Ship(b) \/ Dock(b)

-----------------------------------------------------------------------------
(* Applying an event                                                       *)

TradeStatus ==
  [OrderFilled |-> "RequestSubmitted", ConsolidationAccepted |-> "Accepted",
   StakeDelivered |-> "Delivered", TradeFailed |-> "Failed"]

Knows(index, id) == index.trades[id].status # "None"

Listing(index, e) ==
  CASE e.name = "OrderListed" -> [status |-> "listed", policy |-> NoPolicy]
    [] e.name = "OrderPolicySet" /\ index.listings[e.subject] # Unlisted ->
         [index.listings[e.subject] EXCEPT !.policy = e.detail]
    [] OTHER -> index.listings[e.subject]

\* Faulty variant: whoever's the nonce is.
SameNonce(nonce, o) == o.nonce = nonce[2]

Cancels(nonce, o) == NonceOf(o) = nonce

\* Every listing with the seller and the nonce.
Cancelled(index, nonce) ==
  [o \in Orders |->
     IF Cancels(nonce, o) /\ index.listings[o] # Unlisted
     THEN [index.listings[o] EXCEPT !.status = "cancelled"] ELSE index.listings[o]]

\* A fill starts a new record; other events change one that is known.
TradeAfter(index, e) ==
  CASE e.name = "OrderFilled" -> [status |-> "RequestSubmitted", bid |-> NoBid]
    [] e.name = "BidMatched" /\ Knows(index, e.subject) ->
         [index.trades[e.subject] EXCEPT !.bid = e.detail]
    [] e.name \in DOMAIN TradeStatus \ {"OrderFilled"} /\ Knows(index, e.subject) ->
         [index.trades[e.subject] EXCEPT !.status = TradeStatus[e.name]]
    [] OTHER -> index.trades[e.subject]

BidAfter(index, e) ==
  CASE e.name = "Shipped" -> "live"
    [] e.name = "Docked" /\ index.bids[e.subject] # "None" -> "docked"
    [] OTHER -> index.bids[e.subject]

Apply(index, e) ==
  CASE e.name \in {"OrderListed", "OrderPolicySet"} ->
         [index EXCEPT !.listings[e.subject] = Listing(index, e)]
    [] e.name = "OrderCancelled" -> [index EXCEPT !.listings = Cancelled(index, e.subject)]
    [] e.name \in {"Shipped", "Docked"} -> [index EXCEPT !.bids[e.subject] = BidAfter(index, e)]
    [] OTHER -> [index EXCEPT !.trades[e.subject] = TradeAfter(index, e)]

-----------------------------------------------------------------------------
(* The sync loop                                                           *)

\* syncOnce begins: the block number is read.
BeginSync ==
  /\ pc = "idle"
  /\ pc' = "syncing"
  /\ head' = Len(blocks)
  /\ UNCHANGED <<chainVars, state, file, faults>>

\* Faulty variant: the latest block is left for later.
MoreThanOneToRead == state.next < head

MoreToRead == state.next <= head

\* What an index becomes when the blocks up to `to` are applied to it, one after the other.
Indexed(index, to) ==
  LET after[n \in (index.next - 1)..to] ==
        IF n < index.next THEN index ELSE FoldLeft(Apply, after[n - 1], blocks[n])
  IN [after[to] EXCEPT !.next = to + 1]

\* The logs of a chunk arrive and are applied in one go.
ReadChunk ==
  /\ pc = "syncing" /\ MoreToRead
  /\ LET to == IF state.next + LogRange - 1 < head THEN state.next + LogRange - 1 ELSE head
     IN state' = Indexed(state, to)
  /\ UNCHANGED <<chainVars, file, head, pc, faults>>

\* Faulty variant: progress is saved ahead of the events.
SavedTooEarly == [state EXCEPT !.next = Len(blocks) + 1]

Saved == state

\* writeFileSync truncates the file and then writes it.
Truncate ==
  /\ pc = "syncing" /\ ~MoreToRead
  /\ file' = Torn
  /\ pc' = "saving"
  /\ UNCHANGED <<chainVars, state, head, faults>>

Write ==
  /\ pc = "saving"
  /\ file' = Saved
  /\ pc' = "idle"
  /\ UNCHANGED <<chainVars, state, head, faults>>

Fault == faults < MaxFaults /\ faults' = faults + 1

\* A call fails: what was applied stays in memory, and nothing is saved.
SyncFails ==
  /\ Fault
  /\ pc = "syncing"
  /\ pc' = "idle"
  /\ UNCHANGED <<chainVars, state, file, head>>

Crash ==
  /\ Fault
  /\ pc # "down"
  /\ pc' = "down"
  /\ state' = EmptyIndex /\ head' = 0
  /\ UNCHANGED <<chainVars, file>>

\* A file that does not parse stops the process at once.  If the node does not tell its
\* chain id, the process stays down and is started again.
Start ==
  /\ pc = "down" /\ file # Torn
  /\ state' = file
  /\ pc' = "idle"
  /\ UNCHANGED <<chainVars, file, head, faults>>

IndexerNext == BeginSync \/ ReadChunk \/ Truncate \/ Write \/ SyncFails \/ Crash \/ Start

Next == ChainNext \/ IndexerNext

Spec == Init /\ [][Next]_vars

\* The loop runs again after every round, and a process that stopped is started.
FairSpec == Spec /\ WF_vars(BeginSync \/ ReadChunk \/ Truncate \/ Write) /\ WF_vars(Start)

-----------------------------------------------------------------------------
(***************************************************************************)
(* The index is never out of step: whatever was lost in crashes and failed *)
(* rounds, the index in memory and the one on disk give every trade the    *)
(* status and the bid, and every bid the state, that the contracts gave    *)
(* them when the last block read was mined.                                *)
(***************************************************************************)
InStep(index) ==
  LET then == IF index.next = 1 THEN EmptyIndex ELSE past[index.next - 1]
  IN index.trades = then.trades /\ index.bids = then.bids

IndexMatchesChain ==
  /\ state.next <= Len(blocks) + 1
  /\ InStep(state)
  /\ file # Torn => InStep(file)

(***************************************************************************)
(* A listing in the index that caught up is not called cancelled unless it *)
(* can no longer be filled, and none is missing.  (Listing an order again  *)
(* takes the mark away; the page also reads the nonce from the contract.)  *)
(***************************************************************************)
ListingsSound ==
  state.next > Len(blocks) =>
    \A o \in Orders :
      /\ (o \in contract.listed) = (state.listings[o] # Unlisted)
      /\ state.listings[o].status = "cancelled" => NonceOf(o) \in contract.used

(***************************************************************************)
(* The index catches up with the chain and stays there, however calls fail *)
(* and the process restarts, unless the file was torn.                     *)
(***************************************************************************)
CatchesUp == <>[](file # Torn \/ pc = "saving") => <>[](state.next = Len(blocks) + 1)

(***************************************************************************)
(* indexer.ts:5: "Progress and events are persisted, so restarts resume    *)
(* where they stopped."  So a process that is down finds its file.         *)
(***************************************************************************)
RestartsResume == pc = "down" => file # Torn
=============================================================================
