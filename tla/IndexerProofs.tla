--------------------------- MODULE IndexerProofs ---------------------------
(***************************************************************************)
(* The index follows the contracts: whatever is lost in failed rounds and  *)
(* crashes, the index in memory and the one on disk are what the events    *)
(* of some first blocks tell, and those tell what the contracts did.       *)
(***************************************************************************)
EXTENDS Indexer, WellFoundedInduction, TLAPS

(***************************************************************************)
(* Folding.  An index after an event list of one transaction (one or two   *)
(* events) and after the blocks of a chunk.                                *)
(***************************************************************************)
AfterLogs(index, events) == FoldLeft(Apply, index, events)

LEMMA SmallMax ==
  /\ Max({1}) = 1 /\ Max({2}) = 2 /\ Max({1, 2}) = 2
  <1>1. \A x \in {1} : (\A y \in {1} : x >= y) <=> x = 1
    OBVIOUS
  <1>2. \A x \in {2} : (\A y \in {2} : x >= y) <=> x = 2
    OBVIOUS
  <1>3. \A x \in {1, 2} : (\A y \in {1, 2} : x >= y) <=> x = 2
    OBVIOUS
  <1> QED
    BY <1>1, <1>2, <1>3 DEF Max

LEMMA AfterOneEvent ==
  ASSUME NEW index, NEW e
  PROVE  AfterLogs(index, <<e>>) = Apply(index, e)
  <1> DEFINE seq == <<e>>
  <1> DEFINE Folds(g) == g = [s \in SUBSET (DOMAIN seq) |->
                               IF s = {} THEN index ELSE Apply(g[s \ {Max(s)}], seq[Max(s)])]
  <1> DEFINE h == [s \in SUBSET (DOMAIN seq) |-> IF s = {} THEN index ELSE Apply(index, e)]
  <1>1. DOMAIN seq = {1} /\ SUBSET {1} = {{}, {1}}
    BY SMT
  <1>2. Folds(h)
    <2> DEFINE rhs(s) == IF s = {} THEN index ELSE Apply(h[s \ {Max(s)}], seq[Max(s)])
    <2>1. seq[1] = e /\ {1} # {} /\ {1} \ {1} = {}
      OBVIOUS
    <2>2. h[{}] = index /\ h[{1}] = Apply(index, e)
      BY <1>1, <2>1
    <2> HIDE DEF h, seq
    <2>3. rhs({}) = index
      OBVIOUS
    <2>4. rhs({1}) = Apply(h[{}], seq[1])
      BY <2>1, SmallMax
    <2>5. \A s \in SUBSET (DOMAIN seq) : h[s] = rhs(s)
      <3> HIDE DEF rhs
      <3> QED BY <1>1, <2>1, <2>2, <2>3, <2>4
    <2>6. h = [s \in SUBSET (DOMAIN seq) |-> h[s]]
      BY DEF h
    <2> QED BY <2>5, <2>6
  <1> DEFINE it == CHOOSE g : Folds(g)
  <1>3. Folds(it)
    <2> HIDE DEF Folds
    <2> QED BY <1>2
  <1>4. AfterLogs(index, seq) = it[DOMAIN seq]
    BY DEF AfterLogs, FoldLeft, MapThenFoldSet
  <1> HIDE DEF it
  <1>5. it[{1}] = Apply(it[{}], e) /\ it[{}] = index
    BY <1>1, <1>3, SmallMax
  <1> QED
    BY <1>1, <1>4, <1>5

LEMMA AfterTwoEvents ==
  ASSUME NEW index, NEW d, NEW e
  PROVE  AfterLogs(index, <<d, e>>) = Apply(Apply(index, d), e)
  <1> DEFINE seq == <<d, e>>
  <1> DEFINE Folds(g) == g = [s \in SUBSET (DOMAIN seq) |->
                               IF s = {} THEN index ELSE Apply(g[s \ {Max(s)}], seq[Max(s)])]
  <1> DEFINE h == [s \in SUBSET (DOMAIN seq) |->
                     IF s = {} THEN index
                     ELSE IF s = {1} THEN Apply(index, d)
                     ELSE IF s = {2} THEN Apply(index, e) ELSE Apply(Apply(index, d), e)]
  <1>1. DOMAIN seq = {1, 2} /\ SUBSET {1, 2} = {{}, {1}, {2}, {1, 2}}
    BY SMT
  <1>2. {1, 2} \ {2} = {1} /\ {1} \ {1} = {} /\ {2} \ {2} = {} /\ {1} # {} /\ {2} # {} /\ {1, 2} # {}
        /\ {1} # {2} /\ {1, 2} # {1} /\ {1, 2} # {2}
    OBVIOUS
  <1>3. Folds(h)
    <2> DEFINE rhs(s) == IF s = {} THEN index ELSE Apply(h[s \ {Max(s)}], seq[Max(s)])
    <2>1. seq[1] = d /\ seq[2] = e
      OBVIOUS
    <2>2. /\ h[{}] = index /\ h[{1}] = Apply(index, d) /\ h[{2}] = Apply(index, e)
          /\ h[{1, 2}] = Apply(Apply(index, d), e)
      BY <1>1, <1>2
    <2> HIDE DEF h, seq
    <2>3. rhs({}) = index
      OBVIOUS
    <2>4. rhs({1}) = Apply(h[{}], seq[1]) /\ rhs({2}) = Apply(h[{}], seq[2])
      BY <1>2, SmallMax
    <2>5. rhs({1, 2}) = Apply(h[{1}], seq[2])
      BY <1>2, SmallMax
    <2>6. \A s \in SUBSET (DOMAIN seq) : h[s] = rhs(s)
      <3> HIDE DEF rhs
      <3>1. h[{}] = rhs({}) /\ h[{1}] = rhs({1}) /\ h[{2}] = rhs({2}) /\ h[{1, 2}] = rhs({1, 2})
        BY <2>1, <2>2, <2>3, <2>4, <2>5
      <3>2. \A s \in SUBSET (DOMAIN seq) : s = {} \/ s = {1} \/ s = {2} \/ s = {1, 2}
        BY <1>1
      <3> QED BY <3>1, <3>2, Zenon
    <2>7. h = [s \in SUBSET (DOMAIN seq) |-> h[s]]
      BY DEF h
    <2> QED BY <2>6, <2>7
  <1> DEFINE it == CHOOSE g : Folds(g)
  <1>4. Folds(it)
    <2> HIDE DEF Folds
    <2> QED BY <1>3
  <1>5. AfterLogs(index, seq) = it[DOMAIN seq]
    BY DEF AfterLogs, FoldLeft, MapThenFoldSet
  <1> HIDE DEF it
  <1>6. it[{1, 2}] = Apply(it[{1}], e) /\ it[{1}] = Apply(it[{}], d) /\ it[{}] = index
    <2>1. seq[1] = d /\ seq[2] = e
      OBVIOUS
    <2> HIDE DEF seq
    <2>2. it[{}] = index
      BY <1>1, <1>4
    <2>3. it[{1}] = Apply(it[{}], d)
      BY <1>1, <1>2, <1>4, <2>1, SmallMax
    <2>4. it[{1, 2}] = Apply(it[{1}], e)
      <3>1. {1, 2} \in SUBSET (DOMAIN seq)
        BY <1>1
      <3>2. it[{1, 2}] = IF {1, 2} = {} THEN index
                         ELSE Apply(it[{1, 2} \ {Max({1, 2})}], seq[Max({1, 2})])
        BY <1>4, <3>1
      <3> QED BY <1>2, <2>1, <3>2, SmallMax, Zenon
    <2> QED BY <2>2, <2>3, <2>4
  <1> QED
    BY <1>1, <1>5, <1>6

(***************************************************************************)
(* The chain: what each transaction's events tell.                         *)
(***************************************************************************)
TradeRow   == [status : {"None", "RequestSubmitted", "Accepted", "Delivered", "Failed"},
               bid : Bids \cup {NoBid}]
BidState   == {"None", "live", "docked"}
ListingRow == {Unlisted} \cup [status : {"listed", "cancelled"}, policy : Policies \cup {NoPolicy}]

Index ==
  [next : Nat, trades : [TradeIds -> TradeRow], bids : [Bids -> BidState],
   listings : [Orders -> ListingRow]]

\* What the contracts may hold; a trade that is not there has no bid.
Contract ==
  {c \in [trades : [TradeIds -> TradeRow], bids : [Bids -> BidState],
          used : SUBSET {NonceOf(o) : o \in Orders}, listed : SUBSET Orders] :
     \A id \in TradeIds : c.trades[id].status = "None" => c.trades[id] = NoTrade}

\* What an index knows of the contracts once it has read their past.
Told(index, c) ==
  /\ index.trades = c.trades /\ index.bids = c.bids
  /\ \A o \in Orders :
       /\ (o \in c.listed) <=> (index.listings[o] # Unlisted)
       /\ index.listings[o].status = "cancelled" => NonceOf(o) \in c.used

\* Applying the events is all it takes to follow the contracts.
Tells(events, before, after) ==
  \A index \in Index : Told(index, before) =>
    AfterLogs(index, events) \in Index /\ Told(AfterLogs(index, events), after)

Listed(c, o) == [c EXCEPT !.listed = @ \cup {o}]
Used(c, nonce) == [c EXCEPT !.used = @ \cup {nonce}]

LEMMA ListTells ==
  ASSUME NEW c \in Contract, NEW o \in Orders
  PROVE  Listed(c, o) \in Contract /\ Tells(<<Event("OrderListed", o, "")>>, c, Listed(c, o))
  <1> DEFINE row == [status |-> "listed", policy |-> NoPolicy]
  <1>1. Listed(c, o) \in Contract
    BY DEF Contract, Listed
  <1>2. ASSUME NEW index \in Index
        PROVE  AfterLogs(index, <<Event("OrderListed", o, "")>>) = [index EXCEPT !.listings[o] = row]
    <2>1. AfterLogs(index, <<Event("OrderListed", o, "")>>) = Apply(index, Event("OrderListed", o, ""))
      BY AfterOneEvent
    <2>2. Apply(index, Event("OrderListed", o, "")) = [index EXCEPT !.listings[o] = row]
      BY DEF Apply, Listing, Event
    <2> QED
      BY <2>1, <2>2
  <1>3. row \in ListingRow /\ row # Unlisted
    BY DEF ListingRow, Unlisted
  <1>4. ASSUME NEW index \in Index, Told(index, c)
        PROVE  /\ [index EXCEPT !.listings[o] = row] \in Index
               /\ Told([index EXCEPT !.listings[o] = row], Listed(c, o))
    <2>1. [index EXCEPT !.listings[o] = row] \in Index
      BY <1>3 DEF Index
    <2>2. \A p \in Orders : [index EXCEPT !.listings[o] = row].listings[p]
                              = IF p = o THEN row ELSE index.listings[p]
      BY DEF Index
    <2>3. /\ Listed(c, o).trades = c.trades /\ Listed(c, o).bids = c.bids
          /\ Listed(c, o).used = c.used /\ Listed(c, o).listed = c.listed \cup {o}
      BY DEF Listed, Contract
    <2>4. /\ [index EXCEPT !.listings[o] = row].trades = index.trades
          /\ [index EXCEPT !.listings[o] = row].bids = index.bids
      BY DEF Index
    <2>5. row.status # "cancelled"
      OBVIOUS
    <2> QED
      BY <1>3, <1>4, <2>1, <2>2, <2>3, <2>4, <2>5 DEF Told
  <1> QED
    BY <1>1, <1>2, <1>4 DEF Tells

LEMMA ListWithPolicyTells ==
  ASSUME NEW c \in Contract, NEW o \in Orders, NEW policy \in Policies
  PROVE  Tells(<<Event("OrderListed", o, ""), Event("OrderPolicySet", o, policy)>>, c, Listed(c, o))
  <1> DEFINE row == [status |-> "listed", policy |-> policy]
             first(index) == AfterLogs(index, <<Event("OrderListed", o, "")>>)
             second(index) == [first(index) EXCEPT !.listings[o] = row]
  <1>1. ASSUME NEW index \in Index, Told(index, c)
        PROVE  /\ AfterLogs(index, <<Event("OrderListed", o, ""), Event("OrderPolicySet", o, policy)>>)
                    = second(index)
               /\ second(index) \in Index /\ Told(second(index), Listed(c, o))
    <2>1. first(index) \in Index /\ Told(first(index), Listed(c, o))
      BY <1>1, ListTells DEF Tells
    <2>2. first(index) = Apply(index, Event("OrderListed", o, ""))
      BY AfterOneEvent
    <2>3. first(index).listings[o] = [status |-> "listed", policy |-> NoPolicy]
      <3>1. Apply(index, Event("OrderListed", o, ""))
              = [index EXCEPT !.listings[o] = [status |-> "listed", policy |-> NoPolicy]]
        BY DEF Apply, Listing, Event
      <3>2. /\ first(index).listings = [index.listings EXCEPT ![o] = [status |-> "listed", policy |-> NoPolicy]]
            /\ index.listings \in [Orders -> ListingRow]
        <4> HIDE DEF first
        <4> QED BY <2>2, <3>1 DEF Index
      <3> QED
        BY <3>2
    <2>4. AfterLogs(index, <<Event("OrderListed", o, ""), Event("OrderPolicySet", o, policy)>>)
            = Apply(first(index), Event("OrderPolicySet", o, policy))
      <3>1. AfterLogs(index, <<Event("OrderListed", o, ""), Event("OrderPolicySet", o, policy)>>)
              = Apply(Apply(index, Event("OrderListed", o, "")), Event("OrderPolicySet", o, policy))
        <4> DEFINE d == Event("OrderListed", o, "")
                   e == Event("OrderPolicySet", o, policy)
        <4>1. AfterLogs(index, <<d, e>>) = Apply(Apply(index, d), e)
          <5> HIDE DEF d, e
          <5> QED BY AfterTwoEvents
        <4> QED BY <4>1
      <3> HIDE DEF first
      <3> QED BY <2>2, <3>1
    <2> HIDE DEF first
    <2>5. first(index).listings[o] # Unlisted
      <3>1. [status |-> "listed", policy |-> NoPolicy] # Unlisted
        BY DEF Unlisted
      <3> QED BY <2>3, <3>1
    <2>6. Apply(first(index), Event("OrderPolicySet", o, policy)) = second(index)
      BY <2>3, <2>5 DEF Apply, Listing, Event
    <2>7. row \in ListingRow /\ row # Unlisted /\ row.status # "cancelled"
      BY DEF ListingRow, Unlisted
    <2>8. second(index) \in Index
      BY <2>1, <2>7 DEF Index
    <2>9. /\ second(index).trades = first(index).trades /\ second(index).bids = first(index).bids
          /\ \A p \in Orders : second(index).listings[p] = IF p = o THEN row ELSE first(index).listings[p]
      BY <2>1 DEF Index
    <2>10. o \in Listed(c, o).listed
      BY DEF Listed, Contract
    <2> HIDE DEF second, row
    <2> QED
      BY <2>1, <2>4, <2>6, <2>7, <2>8, <2>9, <2>10 DEF Told
  <1> QED
    BY <1>1 DEF Tells

LEMMA CancelTells ==
  ASSUME NEW c \in Contract, NEW o \in Orders
  PROVE  /\ Used(c, NonceOf(o)) \in Contract
         /\ Tells(<<Event("OrderCancelled", NonceOf(o), "")>>, c, Used(c, NonceOf(o)))
  <1> DEFINE n == NonceOf(o)
             result(index) == [index EXCEPT !.listings = Cancelled(index, n)]
  <1>1. Used(c, n) \in Contract
    BY DEF Contract, Used
  <1>2. ASSUME NEW index \in Index
        PROVE  AfterLogs(index, <<Event("OrderCancelled", n, "")>>) = result(index)
    BY AfterOneEvent DEF Apply, Event
  <1>3. ASSUME NEW index \in Index, Told(index, c)
        PROVE  result(index) \in Index /\ Told(result(index), Used(c, n))
    <2>1. \A p \in Orders : /\ Cancelled(index, n)[p] \in ListingRow
                            /\ (Cancelled(index, n)[p] # Unlisted) <=> (index.listings[p] # Unlisted)
                            /\ Cancelled(index, n)[p].status = "cancelled" =>
                                 index.listings[p].status = "cancelled" \/ NonceOf(p) = n
      BY DEF Cancelled, Index, ListingRow, Unlisted, Cancels
    <2>2. Cancelled(index, n) \in [Orders -> ListingRow]
      BY <2>1 DEF Cancelled
    <2>3. result(index) \in Index
      BY <2>2 DEF Index
    <2>4. /\ Used(c, n).trades = c.trades /\ Used(c, n).bids = c.bids
          /\ Used(c, n).used = c.used \cup {n} /\ Used(c, n).listed = c.listed
      BY DEF Used, Contract
    <2>5. /\ result(index).trades = index.trades /\ result(index).bids = index.bids
          /\ result(index).listings = Cancelled(index, n)
      BY DEF Index
    <2> HIDE DEF result, n
    <2> QED
      BY <1>3, <2>1, <2>3, <2>4, <2>5 DEF Told
  <1> QED
    BY <1>1, <1>2, <1>3 DEF Tells

\* A trade gets a new row; nonces may be used at the same time.
LEMMA RowTold ==
  ASSUME NEW index \in Index, NEW c, Told(index, c), NEW id \in TradeIds, NEW row \in TradeRow,
         NEW d, d.trades = [c.trades EXCEPT ![id] = row], d.bids = c.bids, d.listed = c.listed,
         c.used \subseteq d.used
  PROVE  /\ [index EXCEPT !.trades[id] = row] \in Index
         /\ Told([index EXCEPT !.trades[id] = row], d)
  <1>1. [index EXCEPT !.trades[id] = row] \in Index
    BY DEF Index
  <1>2. /\ [index EXCEPT !.trades[id] = row].trades = [index.trades EXCEPT ![id] = row]
        /\ [index EXCEPT !.trades[id] = row].bids = index.bids
        /\ [index EXCEPT !.trades[id] = row].listings = index.listings
    BY DEF Index
  <1> QED
    BY <1>1, <1>2 DEF Told

FilledRow(c, id, used) == [c EXCEPT !.trades[id].status = "RequestSubmitted", !.used = used]
MatchedRow(c, id, used, b) == [FilledRow(c, id, used) EXCEPT !.trades[id].bid = b]

LEMMA FillTells ==
  ASSUME NEW c \in Contract, NEW id \in TradeIds, c.trades[id].status = "None", NEW o \in Orders
  PROVE  /\ FilledRow(c, id, c.used \cup {NonceOf(o)}) \in Contract
         /\ Tells(<<Event("OrderFilled", id, "")>>, c, FilledRow(c, id, c.used \cup {NonceOf(o)}))
  <1> DEFINE row == [status |-> "RequestSubmitted", bid |-> NoBid]
             d == FilledRow(c, id, c.used \cup {NonceOf(o)})
  <1>1. c.trades[id] = NoTrade /\ c.trades \in [TradeIds -> TradeRow]
    BY DEF Contract
  <1>2. row \in TradeRow
    BY DEF TradeRow
  <1>3. [c.trades[id] EXCEPT !.status = "RequestSubmitted"] = row
    BY <1>1 DEF NoTrade
  <1>4. /\ d.trades = [c.trades EXCEPT ![id] = row] /\ d.bids = c.bids /\ d.listed = c.listed
        /\ d.used = c.used \cup {NonceOf(o)}
    BY <1>3 DEF FilledRow, Contract
  <1>5. d \in Contract
    <2>1. d \in [trades : [TradeIds -> TradeRow], bids : [Bids -> BidState],
                 used : SUBSET {NonceOf(p) : p \in Orders}, listed : SUBSET Orders]
      <3>1. d = [c EXCEPT !.trades = [c.trades EXCEPT ![id] = row], !.used = c.used \cup {NonceOf(o)}]
        BY <1>3 DEF FilledRow, Contract
      <3>2. [c.trades EXCEPT ![id] = row] \in [TradeIds -> TradeRow]
        BY <1>1, <1>2
      <3> HIDE DEF d, row
      <3> QED BY <3>1, <3>2 DEF Contract
    <2>2. \A t \in TradeIds : d.trades[t] = IF t = id THEN row ELSE c.trades[t]
      BY <1>1, <1>4
    <2>3. row.status # "None"
      OBVIOUS
    <2> HIDE DEF d, row
    <2> QED BY <2>1, <2>2, <2>3 DEF Contract
  <1>6. ASSUME NEW index \in Index
        PROVE  AfterLogs(index, <<Event("OrderFilled", id, "")>>) = [index EXCEPT !.trades[id] = row]
    <2> DEFINE e == Event("OrderFilled", id, "")
    <2>1. e.name = "OrderFilled" /\ e.subject = id
      BY DEF Event
    <2>2. AfterLogs(index, <<e>>) = Apply(index, e)
      BY AfterOneEvent
    <2> HIDE DEF e
    <2>3. Apply(index, e) = [index EXCEPT !.trades[id] = TradeAfter(index, e)]
      BY <2>1 DEF Apply
    <2>4. TradeAfter(index, e) = row
      BY <2>1 DEF TradeAfter
    <2> QED
      BY <2>2, <2>3, <2>4 DEF e
  <1> HIDE DEF d, row
  <1>7. ASSUME NEW index \in Index, Told(index, c)
        PROVE  /\ [index EXCEPT !.trades[id] = row] \in Index
               /\ Told([index EXCEPT !.trades[id] = row], d)
    BY <1>2, <1>4, <1>7, RowTold
  <1> QED
    BY <1>5, <1>6, <1>7 DEF Tells, d

LEMMA MatchTells ==
  ASSUME NEW c \in Contract, NEW id \in TradeIds, c.trades[id].status = "None", NEW o \in Orders,
         NEW b \in Bids
  PROVE  /\ MatchedRow(c, id, c.used \cup {NonceOf(o)}, b) \in Contract
         /\ Tells(<<Event("OrderFilled", id, ""), Event("BidMatched", id, b)>>, c,
                  MatchedRow(c, id, c.used \cup {NonceOf(o)}, b))
  <1> DEFINE m == FilledRow(c, id, c.used \cup {NonceOf(o)})
             row == [m.trades[id] EXCEPT !.bid = b]
             d == MatchedRow(c, id, c.used \cup {NonceOf(o)}, b)
  <1>1. m \in Contract /\ Tells(<<Event("OrderFilled", id, "")>>, c, m)
    BY FillTells
  <1>2. m.trades[id].status = "RequestSubmitted"
    BY DEF FilledRow, Contract
  <1>3. row \in TradeRow /\ row.status = "RequestSubmitted"
    <2> HIDE DEF m
    <2>1. m.trades[id] \in TradeRow
      BY <1>1 DEF Contract
    <2> QED BY <1>2, <2>1 DEF TradeRow
  <1>4. /\ d.trades = [m.trades EXCEPT ![id] = row] /\ d.bids = m.bids /\ d.listed = m.listed
        /\ d.used = m.used /\ d = [m EXCEPT !.trades[id] = row]
    <2>1. d = [m EXCEPT !.trades[id].bid = b]
      BY DEF MatchedRow
    <2> HIDE DEF m, d
    <2> QED BY <1>1, <2>1 DEF Contract
  <1> HIDE DEF m, d
  <1>5. d \in Contract
    <2> HIDE DEF row
    <2>1. d \in [trades : [TradeIds -> TradeRow], bids : [Bids -> BidState],
                 used : SUBSET {NonceOf(p) : p \in Orders}, listed : SUBSET Orders]
      BY <1>1, <1>3, <1>4 DEF Contract
    <2>2. \A t \in TradeIds : d.trades[t] = IF t = id THEN row ELSE m.trades[t]
      BY <1>1, <1>4 DEF Contract
    <2> QED BY <1>1, <1>3, <2>1, <2>2 DEF Contract
  <1>6. ASSUME NEW index \in Index, Told(index, c)
        PROVE  LET after == AfterLogs(index, <<Event("OrderFilled", id, ""), Event("BidMatched", id, b)>>)
               IN after \in Index /\ Told(after, d)
    <2> DEFINE f == Event("OrderFilled", id, "")
               e == Event("BidMatched", id, b)
               first == AfterLogs(index, <<f>>)
    <2>1. e.name = "BidMatched" /\ e.subject = id /\ e.detail = b
      BY DEF Event
    <2>2. first \in Index /\ Told(first, m)
      BY <1>1, <1>6 DEF Tells
    <2> HIDE DEF e, f
    <2>3. AfterLogs(index, <<f, e>>) = Apply(first, e)
      <3>1. first = Apply(index, f)
        BY AfterOneEvent
      <3>2. AfterLogs(index, <<f, e>>) = Apply(Apply(index, f), e)
        BY AfterTwoEvents
      <3> HIDE DEF first
      <3> QED BY <3>1, <3>2
    <2> HIDE DEF first
    <2>4. Apply(first, e) = [first EXCEPT !.trades[id] = TradeAfter(first, e)]
      BY <2>1 DEF Apply
    <2>5. first.trades = m.trades
      BY <2>2 DEF Told
    <2>6. Knows(first, id)
      BY <1>2, <2>5 DEF Knows
    <2>7. TradeAfter(first, e) = row
      <3>1. "BidMatched" \notin DOMAIN TradeStatus /\ e.name # "OrderFilled"
        BY <2>1 DEF TradeStatus
      <3>2. TradeAfter(first, e) = [first.trades[id] EXCEPT !.bid = b]
        BY <2>1, <2>6, <3>1 DEF TradeAfter
      <3> QED BY <2>5, <3>2
    <2> HIDE DEF row
    <2>8. [first EXCEPT !.trades[id] = row] \in Index /\ Told([first EXCEPT !.trades[id] = row], d)
      BY <1>3, <1>4, <2>2, RowTold
    <2> QED
      BY <2>3, <2>4, <2>7, <2>8 DEF e, f
  <1> QED
    BY <1>5, <1>6 DEF Tells, d

Moved(c, id, status) == [c EXCEPT !.trades[id].status = status]

LEMMA MoveTells ==
  ASSUME NEW c \in Contract, NEW id \in TradeIds, c.trades[id].status # "None",
         NEW name \in {"ConsolidationAccepted", "StakeDelivered", "TradeFailed"}
  PROVE  /\ Moved(c, id, TradeStatus[name]) \in Contract
         /\ Tells(<<Event(name, id, "")>>, c, Moved(c, id, TradeStatus[name]))
  <1> DEFINE status == TradeStatus[name]
             row == [c.trades[id] EXCEPT !.status = status]
             d == Moved(c, id, status)
             e == Event(name, id, "")
  <1>1. status \in {"Accepted", "Delivered", "Failed"}
    BY DEF TradeStatus
  <1>2. c.trades[id] \in TradeRow
    BY DEF Contract
  <1> HIDE DEF status
  <1>3. row \in TradeRow /\ row.status # "None"
    BY <1>1, <1>2 DEF TradeRow
  <1>4. /\ d.trades = [c.trades EXCEPT ![id] = row] /\ d.bids = c.bids /\ d.listed = c.listed
        /\ d.used = c.used /\ d = [c EXCEPT !.trades[id] = row]
    BY DEF Moved, Contract
  <1> HIDE DEF d
  <1>5. d \in Contract
    <2> HIDE DEF row
    <2>1. d \in [trades : [TradeIds -> TradeRow], bids : [Bids -> BidState],
                 used : SUBSET {NonceOf(p) : p \in Orders}, listed : SUBSET Orders]
      BY <1>3, <1>4 DEF Contract
    <2>2. \A t \in TradeIds : d.trades[t] = IF t = id THEN row ELSE c.trades[t]
      BY <1>4 DEF Contract
    <2> QED BY <1>3, <2>1, <2>2 DEF Contract
  <1>6. e.name = name /\ e.subject = id
    BY DEF Event
  <1>7. ASSUME NEW index \in Index, Told(index, c)
        PROVE  AfterLogs(index, <<e>>) \in Index /\ Told(AfterLogs(index, <<e>>), d)
    <2> HIDE DEF e
    <2>1. AfterLogs(index, <<e>>) = Apply(index, e)
      BY AfterOneEvent
    <2>2. Apply(index, e) = [index EXCEPT !.trades[id] = TradeAfter(index, e)]
      BY <1>6 DEF Apply
    <2>3. index.trades = c.trades
      BY <1>7 DEF Told
    <2>4. Knows(index, id)
      BY <2>3 DEF Knows
    <2>5. name \in DOMAIN TradeStatus \ {"OrderFilled"} /\ name # "OrderFilled" /\ name # "BidMatched"
      BY DEF TradeStatus
    <2>6. TradeAfter(index, e) = row
      BY <1>6, <2>3, <2>4, <2>5 DEF TradeAfter, status
    <2> HIDE DEF row
    <2>7. [index EXCEPT !.trades[id] = row] \in Index /\ Told([index EXCEPT !.trades[id] = row], d)
      BY <1>3, <1>4, <1>7, RowTold
    <2> QED
      BY <2>1, <2>2, <2>6, <2>7
  <1> QED
    BY <1>5, <1>7 DEF Tells, d, status

BidMoved(c, b, to) == [c EXCEPT !.bids[b] = to]

LEMMA BidTells ==
  ASSUME NEW c \in Contract, NEW b \in Bids, NEW name, NEW to,
         \/ name = "Shipped" /\ to = "live"
         \/ name = "Docked" /\ to = "docked" /\ c.bids[b] # "None"
  PROVE  /\ BidMoved(c, b, to) \in Contract
         /\ Tells(<<Event(name, b, "")>>, c, BidMoved(c, b, to))
  <1> DEFINE d == BidMoved(c, b, to)
             e == Event(name, b, "")
             result(index) == [index EXCEPT !.bids[b] = to]
  <1>1. to \in BidState
    BY DEF BidState
  <1>2. /\ d.trades = c.trades /\ d.bids = [c.bids EXCEPT ![b] = to] /\ d.listed = c.listed
        /\ d.used = c.used /\ d = [c EXCEPT !.bids[b] = to]
    BY DEF BidMoved, Contract
  <1>3. d \in Contract
    BY <1>1, <1>2 DEF Contract
  <1> HIDE DEF d
  <1>4. e.name = name /\ e.subject = b
    BY DEF Event
  <1>5. ASSUME NEW index \in Index, Told(index, c)
        PROVE  AfterLogs(index, <<e>>) \in Index /\ Told(AfterLogs(index, <<e>>), d)
    <2> HIDE DEF e
    <2>1. AfterLogs(index, <<e>>) = Apply(index, e)
      BY AfterOneEvent
    <2>2. Apply(index, e) = [index EXCEPT !.bids[b] = BidAfter(index, e)]
      BY <1>4 DEF Apply
    <2>3. index.bids = c.bids
      BY <1>5 DEF Told
    <2>4. BidAfter(index, e) = to
      BY <1>4, <2>3 DEF BidAfter
    <2>5. result(index) \in Index
      BY <1>1 DEF Index
    <2>6. /\ result(index).trades = index.trades /\ result(index).listings = index.listings
          /\ result(index).bids = [index.bids EXCEPT ![b] = to]
      BY DEF Index
    <2>7. AfterLogs(index, <<e>>) = result(index)
      BY <2>1, <2>2, <2>4
    <2> HIDE DEF result
    <2> QED
      BY <1>2, <1>5, <2>5, <2>6, <2>7 DEF Told
  <1> QED
    BY <1>3, <1>5 DEF Tells, d

(***************************************************************************)
(* The chain: the history of the contracts, and what each block tells.     *)
(***************************************************************************)
After(n) == IF n = 0 THEN [trades |-> [id \in TradeIds |-> NoTrade], bids |-> [b \in Bids |-> "None"],
                           used |-> {}, listed |-> {}]
            ELSE past[n]

Logs == [name : {"OrderListed", "OrderPolicySet", "OrderCancelled", "OrderFilled", "BidMatched",
                 "ConsolidationAccepted", "StakeDelivered", "TradeFailed", "Shipped", "Docked"},
         subject : Orders \cup TradeIds \cup Bids \cup {NonceOf(o) : o \in Orders},
         detail : Policies \cup Bids \cup {""}]

ChainInv ==
  /\ blocks \in Seq(Seq(Logs)) /\ past \in Seq(Contract) /\ Len(past) = Len(blocks)
  /\ contract = After(Len(past)) /\ After(0) \in Contract
  /\ \A n \in 1..Len(blocks) : Tells(blocks[n], After(n - 1), After(n))

\* An index that is what the blocks before its next one tell.
Behind(index) ==
  /\ index \in Index /\ index.next \in 1..(Len(blocks) + 1)
  /\ Told(index, After(index.next - 1))

IndexerInv ==
  /\ ChainInv
  /\ Behind(state)
  /\ file # Torn => Behind(file)
  /\ head \in Nat /\ head <= Len(blocks)

LEMMA ContractTyped ==
  ASSUME ChainInv
  PROVE  contract \in Contract /\ Len(blocks) \in Nat
  <1>1. Len(past) \in Nat /\ Len(blocks) \in Nat
    BY DEF ChainInv
  <1> QED
    BY <1>1 DEF ChainInv, After

LEMMA EmptyTold ==
  EmptyIndex \in Index /\ EmptyIndex.next = 1 /\ Told(EmptyIndex, After(0))
  <1>1. NoTrade \in TradeRow /\ "None" \in BidState /\ Unlisted \in ListingRow
    BY DEF NoTrade, TradeRow, BidState, ListingRow
  <1>2. EmptyIndex \in Index
    BY <1>1 DEF EmptyIndex, Index
  <1>3. Told(EmptyIndex, After(0))
    BY DEF EmptyIndex, Told, After, Unlisted
  <1> QED
    BY <1>2, <1>3 DEF EmptyIndex

LEMMA InitOK ==
  ASSUME Init
  PROVE  IndexerInv
  <1>1. After(0) \in Contract /\ contract = After(0)
    <2>1. NoTrade \in TradeRow /\ "None" \in BidState
      BY DEF NoTrade, TradeRow, BidState
    <2> QED BY <2>1 DEF Init, After, Contract
  <1>2. Len(blocks) = 0 /\ Len(past) = 0 /\ blocks \in Seq(Seq(Logs)) /\ past \in Seq(Contract)
    BY DEF Init
  <1>3. ChainInv
    BY <1>1, <1>2 DEF ChainInv
  <1>4. EmptyIndex \in Index
    BY EmptyTold
  <1>5. EmptyIndex.next = 1 /\ Told(EmptyIndex, After(0))
    BY EmptyTold
  <1>6. Behind(EmptyIndex)
    BY <1>2, <1>4, <1>5 DEF Behind
  <1> QED
    BY <1>2, <1>3, <1>6 DEF Init, IndexerInv

\* A block is added that tells what the contracts become.
LEMMA BlockKeeps ==
  ASSUME IndexerInv, NEW after \in Contract, NEW events \in Seq(Logs),
         Tells(events, contract, after), Block(after, events)
  PROVE  IndexerInv'
  <1>1. /\ blocks \in Seq(Seq(Logs)) /\ past \in Seq(Contract) /\ Len(past) = Len(blocks)
        /\ Len(blocks) \in Nat /\ contract = After(Len(blocks))
    BY DEF IndexerInv, ChainInv
  <1>2. blocks' = Append(blocks, events) /\ past' = Append(past, after) /\ contract' = after
    BY DEF Block
  <1>3. /\ blocks' \in Seq(Seq(Logs)) /\ past' \in Seq(Contract) /\ Len(past') = Len(blocks')
        /\ Len(blocks') = Len(blocks) + 1
        /\ \A n \in 1..Len(blocks) : blocks'[n] = blocks[n] /\ past'[n] = past[n]
        /\ blocks'[Len(blocks) + 1] = events /\ past'[Len(blocks) + 1] = after
    BY <1>1, <1>2
  <1>4. \A n \in 0..Len(blocks) : After(n)' = After(n)
    BY <1>1, <1>3 DEF After
  <1>5. \A n \in Nat : n = Len(blocks) + 1 => After(n)' = after
    BY <1>1, <1>3 DEF After
  <1>6. ChainInv'
    <2>1. contract' = After(Len(past))'
      <3>1. Len(past') \in Nat /\ Len(past') = Len(blocks) + 1
        BY <1>1, <1>3
      <3> QED BY <1>2, <1>3, <3>1 DEF After
    <2>2. After(0)' \in Contract
      BY <1>1, <1>4 DEF IndexerInv, ChainInv
    <2>3. ASSUME NEW n \in 1..Len(blocks')
          PROVE  Tells(blocks'[n], After(n - 1)', After(n)')
      <3>1. CASE n = Len(blocks) + 1
        <4>1. After(n - 1)' = contract /\ After(n)' = after
          BY <1>1, <1>4, <1>5, <3>1
        <4> QED BY <1>3, <3>1, <4>1
      <3>2. CASE n \in 1..Len(blocks)
        <4>1. After(n - 1)' = After(n - 1) /\ After(n)' = After(n)
          BY <1>1, <1>4, <3>2
        <4> QED BY <1>3, <3>2, <4>1 DEF IndexerInv, ChainInv
      <3> QED BY <1>1, <1>3, <3>1, <3>2
    <2>4. (\A n \in 1..Len(blocks) : Tells(blocks[n], After(n - 1), After(n)))'
      BY <2>3 DEF Tells, Told, AfterLogs, After
    <2> QED
      BY <1>3, <2>1, <2>2, <2>4 DEF ChainInv
  <1>7. ASSUME NEW index, Behind(index)
        PROVE  /\ index \in Index /\ index.next \in 1..(Len(blocks') + 1)
               /\ Told(index, After(index.next - 1)')
    <2>1. index.next - 1 \in 0..Len(blocks) /\ index.next \in Nat
      BY <1>1, <1>7 DEF Behind
    <2> QED
      BY <1>1, <1>3, <1>4, <1>7, <2>1 DEF Behind
  <1>8. state' = state /\ file' = file /\ head' = head
    BY DEF Block
  <1>9. Behind(state)' /\ (file # Torn => Behind(file))'
    BY <1>7, <1>8 DEF Behind, IndexerInv
  <1>10. head' \in Nat /\ head' <= Len(blocks')
    BY <1>1, <1>3, <1>8 DEF IndexerInv
  <1> QED
    BY <1>6, <1>9, <1>10 DEF IndexerInv

LEMMA ShortLists ==
  ASSUME NEW S, NEW d \in S, NEW e \in S
  PROVE  <<d>> \in Seq(S) /\ <<d, e>> \in Seq(S)
  OBVIOUS

LEMMA ChainStep ==
  ASSUME IndexerInv, ChainNext
  PROVE  IndexerInv'
  <1>1. contract \in Contract
    BY ContractTyped DEF IndexerInv
  <1>2. ASSUME NEW o \in Orders, ListOrder(o)
        PROVE  IndexerInv'
    <2>1. <<Event("OrderListed", o, "")>> \in Seq(Logs)
      BY DEF Event, Logs
    <2>2. Block(Listed(contract, o), <<Event("OrderListed", o, "")>>)
      BY <1>2 DEF ListOrder, Listed
    <2> QED
      BY <1>1, <2>1, <2>2, ListTells, BlockKeeps
  <1>3. ASSUME NEW o \in Orders, CancelOrder(NonceOf(o))
        PROVE  IndexerInv'
    <2>1. <<Event("OrderCancelled", NonceOf(o), "")>> \in Seq(Logs)
      BY DEF Event, Logs
    <2>2. Block(Used(contract, NonceOf(o)), <<Event("OrderCancelled", NonceOf(o), "")>>)
      BY <1>3 DEF CancelOrder, Used
    <2> QED
      BY <1>1, <2>1, <2>2, CancelTells, BlockKeeps
  <1>4. ASSUME NEW o \in Orders, NEW policy \in Policies, ListOrderWithPolicy(o, policy)
        PROVE  IndexerInv'
    <2> DEFINE events == <<Event("OrderListed", o, ""), Event("OrderPolicySet", o, policy)>>
    <2>1. events \in Seq(Logs)
      <3>1. Event("OrderListed", o, "") \in Logs /\ Event("OrderPolicySet", o, policy) \in Logs
        BY DEF Event, Logs
      <3> QED BY <3>1, ShortLists
    <2>2. Block(Listed(contract, o), events)
      BY <1>4 DEF ListOrderWithPolicy, Listed
    <2>3. Tells(events, contract, Listed(contract, o))
      BY <1>1, ListWithPolicyTells
    <2> HIDE DEF events
    <2> QED
      BY <1>1, <2>1, <2>2, <2>3, ListTells, BlockKeeps
  <1>5. ASSUME NEW id \in TradeIds, NEW o \in Orders, Fill(id, o)
        PROVE  IndexerInv'
    <2> DEFINE after == FilledRow(contract, id, contract.used \cup {NonceOf(o)})
               events == <<Event("OrderFilled", id, "")>>
    <2>1. events \in Seq(Logs)
      BY DEF Event, Logs
    <2>2. contract.trades[id].status = "None"
      BY <1>5 DEF Fill, FirstFree, StatusOf
    <2>3. [With(id, "RequestSubmitted") EXCEPT !.used = @ \cup {NonceOf(o)}] = after
      BY <1>1 DEF With, FilledRow, Contract
    <2>4. Block(after, events)
      BY <1>5, <2>3 DEF Fill
    <2>5. after \in Contract /\ Tells(events, contract, after)
      BY <1>1, <2>2, FillTells
    <2> HIDE DEF after, events
    <2> QED
      BY <2>1, <2>4, <2>5, BlockKeeps
  <1>6. ASSUME NEW id \in TradeIds, NEW o \in Orders, NEW b \in Bids, MatchBid(id, o, b)
        PROVE  IndexerInv'
    <2> DEFINE after == MatchedRow(contract, id, contract.used \cup {NonceOf(o)}, b)
               events == <<Event("OrderFilled", id, ""), Event("BidMatched", id, b)>>
    <2>1. events \in Seq(Logs)
      <3>1. Event("OrderFilled", id, "") \in Logs /\ Event("BidMatched", id, b) \in Logs
        BY DEF Event, Logs
      <3> QED BY <3>1, ShortLists
    <2>2. contract.trades[id].status = "None"
      BY <1>6 DEF MatchBid, FirstFree, StatusOf
    <2>3. [With(id, "RequestSubmitted") EXCEPT !.used = @ \cup {NonceOf(o)}, !.trades[id].bid = b] = after
      BY <1>1 DEF With, FilledRow, MatchedRow, Contract
    <2>4. Block(after, events)
      BY <1>6, <2>3 DEF MatchBid
    <2>5. after \in Contract /\ Tells(events, contract, after)
      BY <1>1, <2>2, MatchTells
    <2> HIDE DEF after, events
    <2> QED
      BY <2>1, <2>4, <2>5, BlockKeeps
  <1>7. ASSUME NEW id \in TradeIds, NEW name \in {"ConsolidationAccepted", "StakeDelivered", "TradeFailed"},
               contract.trades[id].status # "None",
               Block(With(id, TradeStatus[name]), <<Event(name, id, "")>>)
        PROVE  IndexerInv'
    <2> DEFINE after == Moved(contract, id, TradeStatus[name])
               events == <<Event(name, id, "")>>
    <2>1. events \in Seq(Logs)
      <3>1. Event(name, id, "") \in Logs
        BY DEF Event, Logs
      <3> QED BY <3>1, ShortLists
    <2>2. Block(after, events)
      BY <1>7 DEF With, Moved
    <2>3. after \in Contract /\ Tells(events, contract, after)
      BY <1>1, <1>7, MoveTells
    <2> HIDE DEF after, events
    <2> QED
      BY <2>1, <2>2, <2>3, BlockKeeps
  <1>8. ASSUME NEW id \in TradeIds, ProveAccepted(id) \/ ProveDelivered(id) \/ FailTrade(id)
        PROVE  IndexerInv'
    <2>1. /\ TradeStatus["ConsolidationAccepted"] = "Accepted" /\ TradeStatus["StakeDelivered"] = "Delivered"
          /\ TradeStatus["TradeFailed"] = "Failed"
      BY DEF TradeStatus
    <2>2. CASE ProveAccepted(id)
      BY <1>7, <2>1, <2>2 DEF ProveAccepted, StatusOf
    <2>3. CASE ProveDelivered(id)
      BY <1>7, <2>1, <2>3 DEF ProveDelivered, StatusOf
    <2>4. CASE FailTrade(id)
      BY <1>7, <2>1, <2>4 DEF FailTrade, StatusOf
    <2> QED
      BY <1>8, <2>2, <2>3, <2>4
  <1>9. ASSUME NEW b \in Bids, Ship(b)
        PROVE  IndexerInv'
    <2>1. <<Event("Shipped", b, "")>> \in Seq(Logs)
      BY DEF Event, Logs
    <2>2. Block(BidMoved(contract, b, "live"), <<Event("Shipped", b, "")>>)
      BY <1>9 DEF Ship, BidMoved
    <2> QED
      BY <1>1, <2>1, <2>2, BidTells, BlockKeeps
  <1>10. ASSUME NEW b \in Bids, Dock(b)
         PROVE  IndexerInv'
    <2>1. <<Event("Docked", b, "")>> \in Seq(Logs)
      BY DEF Event, Logs
    <2>2. Block(BidMoved(contract, b, "docked"), <<Event("Docked", b, "")>>) /\ contract.bids[b] # "None"
      BY <1>10 DEF Dock, BidMoved
    <2> QED
      BY <1>1, <2>1, <2>2, BidTells, BlockKeeps
  <1> QED
    BY <1>2, <1>3, <1>4, <1>5, <1>6, <1>8, <1>9, <1>10 DEF ChainNext

(***************************************************************************)
(* The sync loop: a chunk of blocks is applied one after the other.        *)
(***************************************************************************)
LEMMA Least ==
  ASSUME NEW B \in SUBSET Nat, B # {}
  PROVE  \E n \in B : \A k \in B : n <= k
  <1>1. PICK n \in B : \A k \in B : <<k, n>> \notin OpToRel(<, Nat)
    BY WFMin, NatLessThanWellFounded
  <1>2. \A k \in B : ~(k < n)
    BY <1>1 DEF OpToRel
  <1> QED
    BY <1>2

\* What an index is after each block from the one before its next to `to`.
Follows(f, index, to) ==
  f = [n \in (index.next - 1)..to |->
         IF n < index.next THEN index ELSE AfterLogs(f[n - 1], blocks[n])]

LEMMA FollowExists ==
  ASSUME NEW index, index.next \in Nat \ {0}, NEW to \in Nat, to >= index.next
  PROVE  \E f : Follows(f, index, to)
  <1> DEFINE lo == index.next - 1
             bad == {n \in lo..to : ~ \E f : Follows(f, index, n)}
  <1>1. lo \in Nat /\ index.next = lo + 1
    OBVIOUS
  <1>2. SUFFICES bad = {}
    BY <1>1
  <1>3. SUFFICES ASSUME bad # {} PROVE FALSE
    OBVIOUS
  <1>4. PICK n \in bad : \A k \in bad : n <= k
    <2>1. bad \in SUBSET Nat
      BY <1>1
    <2> HIDE DEF bad
    <2> QED BY <1>3, <2>1, Least
  <1>5. n \in lo..to /\ n \in Nat
    BY <1>1
  <1>6. n # lo
    <2>1. SUFFICES ASSUME n = lo PROVE FALSE
      OBVIOUS
    <2> DEFINE f == [m \in lo..n |-> index]
    <2>2. f = [m \in lo..n |-> IF m < index.next THEN index ELSE AfterLogs(f[m - 1], blocks[m])]
      BY <1>1, <2>1
    <2>3. Follows(f, index, n)
      BY <2>2 DEF Follows
    <2> QED
      BY <2>3
  <1>7. n - 1 \in lo..to /\ n - 1 \notin bad
    BY <1>1, <1>4, <1>5, <1>6
  <1>8. PICK f : Follows(f, index, n - 1)
    BY <1>7
  <1> DEFINE g == [m \in lo..n |-> IF m = n THEN AfterLogs(f[n - 1], blocks[n]) ELSE f[m]]
  <1>9. \A m \in lo..n : g[m] = IF m < index.next THEN index ELSE AfterLogs(g[m - 1], blocks[m])
    <2> SUFFICES ASSUME NEW m \in lo..n
                 PROVE  g[m] = IF m < index.next THEN index ELSE AfterLogs(g[m - 1], blocks[m])
      OBVIOUS
    <2>1. CASE m = n
      <3>1. g[m] = AfterLogs(f[n - 1], blocks[n]) /\ ~(m < index.next)
        BY <1>1, <1>5, <1>6, <2>1
      <3>2. g[n - 1] = f[n - 1]
        BY <1>1, <1>5, <1>7
      <3> QED BY <2>1, <3>1, <3>2
    <2>2. CASE m # n
      <3>1. m \in lo..(n - 1) /\ m \in Int /\ g[m] = f[m]
        BY <1>1, <1>5, <2>2
      <3>2. f[m] = IF m < index.next THEN index ELSE AfterLogs(f[m - 1], blocks[m])
        BY <1>8, <3>1 DEF Follows
      <3>3. m >= index.next => g[m - 1] = f[m - 1]
        <4>1. m >= index.next => m - 1 \in lo..n /\ m - 1 # n
          BY <1>1, <1>5, <3>1
        <4> QED BY <4>1
      <3> QED BY <1>1, <3>1, <3>2, <3>3
    <2> QED
      BY <2>1, <2>2
  <1>10. Follows(g, index, n)
    <2>1. g = [m \in lo..n |-> g[m]]
      OBVIOUS
    <2> HIDE DEF g
    <2> QED BY <1>9, <2>1 DEF Follows
  <1> QED
    BY <1>10

LEMMA IndexedFollows ==
  ASSUME ChainInv, NEW index, Behind(index), NEW to \in Nat, to >= index.next, to <= Len(blocks)
  PROVE  /\ Indexed(index, to) \in Index /\ Indexed(index, to).next = to + 1
         /\ Told(Indexed(index, to), After(to))
  <1> DEFINE lo == index.next - 1
             it == CHOOSE f : Follows(f, index, to)
  <1>1. lo \in Nat /\ index.next = lo + 1 /\ index \in Index /\ Told(index, After(lo)) /\ to \in lo..to
    BY ContractTyped DEF Behind
  <1>2. Follows(it, index, to)
    <2>1. index.next \in Nat \ {0}
      BY <1>1
    <2>2. \E f : Follows(f, index, to)
      BY <2>1, FollowExists
    <2> QED BY <2>2
  <1>3. Indexed(index, to) = [it[to] EXCEPT !.next = to + 1]
    BY DEF Indexed, Follows, AfterLogs
  <1> HIDE DEF it
  <1>4. \A n \in lo..to : it[n] = IF n < index.next THEN index ELSE AfterLogs(it[n - 1], blocks[n])
    BY <1>2 DEF Follows
  <1> DEFINE bad == {n \in lo..to : ~(it[n] \in Index /\ Told(it[n], After(n)))}
  <1>5. bad = {}
    <2>1. SUFFICES ASSUME bad # {} PROVE FALSE
      OBVIOUS
    <2>2. PICK n \in bad : \A k \in bad : n <= k
      <3>1. bad \in SUBSET Nat
        BY <1>1
      <3> HIDE DEF bad
      <3> QED BY <2>1, <3>1, Least
    <2>3. n \in lo..to /\ n \in Nat
      BY <1>1
    <2>4. n # lo
      BY <1>1, <1>4
    <2>5. n - 1 \in lo..to /\ n - 1 \notin bad /\ ~(n < index.next)
      BY <1>1, <2>2, <2>3, <2>4
    <2>6. it[n] = AfterLogs(it[n - 1], blocks[n]) /\ it[n - 1] \in Index /\ Told(it[n - 1], After(n - 1))
      BY <1>4, <2>3, <2>5
    <2>7. n \in 1..Len(blocks)
      BY <1>1, <2>3, <2>5, ContractTyped
    <2>8. Tells(blocks[n], After(n - 1), After(n))
      BY <2>7 DEF ChainInv
    <2> QED
      BY <2>2, <2>6, <2>8 DEF Tells
  <1>6. it[to] \in Index /\ Told(it[to], After(to))
    BY <1>1, <1>5
  <1> QED
    BY <1>3, <1>6 DEF Index, Told

LEMMA StillTells ==
  ASSUME ChainInv, UNCHANGED <<contract, blocks, past>>
  PROVE  ChainInv'
  <1>1. blocks' = blocks /\ past' = past /\ contract' = contract
    OBVIOUS
  <1>2. \A n : After(n)' = After(n)
    BY <1>1 DEF After
  <1>3. \A n \in 1..Len(blocks') : Tells(blocks'[n], After(n - 1)', After(n)')
    BY <1>1, <1>2 DEF ChainInv
  <1>4. (\A n \in 1..Len(blocks) : Tells(blocks[n], After(n - 1), After(n)))'
    BY <1>3 DEF Tells, Told, AfterLogs, After
  <1>5. contract' = After(Len(past))' /\ After(0)' = After(0)
    BY <1>1 DEF ChainInv, After
  <1> QED
    BY <1>1, <1>4, <1>5 DEF ChainInv

LEMMA SyncStep ==
  ASSUME IndexerInv, IndexerNext
  PROVE  IndexerInv'
  <1>1. UNCHANGED <<contract, blocks, past>> => ChainInv'
    BY StillTells DEF IndexerInv
  <1>2. CASE ReadChunk
    <2> DEFINE to == IF state.next + LogRange - 1 < head THEN state.next + LogRange - 1 ELSE head
    <2>1. state.next \in Nat /\ state.next >= 1 /\ state.next <= head /\ head \in Nat /\ head <= Len(blocks)
          /\ Len(blocks) \in Nat
      BY <1>2, ContractTyped DEF ReadChunk, MoreToRead, IndexerInv, Behind
    <2>2. to \in Nat /\ to >= state.next /\ to <= Len(blocks)
      BY <2>1, IndexerConstants
    <2>3. state' = Indexed(state, to)
      BY <1>2 DEF ReadChunk
    <2> HIDE DEF to
    <2>4. state' \in Index /\ state'.next = to + 1 /\ Told(state', After(to))
      BY <2>2, <2>3, IndexedFollows DEF IndexerInv
    <2>5. UNCHANGED <<contract, blocks, past>> /\ file' = file /\ head' = head
      BY <1>2 DEF ReadChunk, chainVars
    <2>6. state'.next \in 1..(Len(blocks) + 1) /\ Told(state', After(state'.next - 1))
      <3>1. to = to + 1 - 1
        BY <2>2
      <3> QED BY <2>1, <2>2, <2>4, <3>1
    <2>7. Behind(state)'
      BY <2>4, <2>5, <2>6 DEF Behind, Told, After
    <2>8. file # Torn => Behind(file)'
      BY <2>5 DEF IndexerInv, Behind, Told, After
    <2> QED
      BY <1>1, <2>1, <2>5, <2>7, <2>8 DEF IndexerInv
  <1>3. Behind(EmptyIndex)
    <2>1. 1 - 1 = 0 /\ 1 \in 1..(Len(blocks) + 1)
      BY ContractTyped DEF IndexerInv
    <2> QED
      BY <2>1, EmptyTold DEF Behind
  <1>4. ASSUME UNCHANGED chainVars, state' \in {state, EmptyIndex} \/ (file # Torn /\ state' = file),
               file' \in {file, state, Torn}, head' \in Nat, head' <= Len(blocks)
        PROVE  IndexerInv'
    <2>1. UNCHANGED <<contract, blocks, past>>
      BY <1>4 DEF chainVars
    <2>2. Behind(state') /\ (file' # Torn => Behind(file'))
      BY <1>3, <1>4 DEF IndexerInv
    <2>3. Behind(state)' /\ (file # Torn => Behind(file))'
      BY <2>1, <2>2 DEF Behind, Told, After
    <2> QED
      BY <1>1, <1>4, <2>1, <2>3 DEF IndexerInv
  <1>5. head \in Nat /\ head <= Len(blocks) /\ Len(blocks) \in Nat
    BY ContractTyped DEF IndexerInv
  <1>6. CASE BeginSync
    BY <1>4, <1>5, <1>6 DEF BeginSync
  <1>7. CASE Truncate
    BY <1>4, <1>5, <1>7 DEF Truncate
  <1>8. CASE Write
    BY <1>4, <1>5, <1>8 DEF Write, Saved
  <1>9. CASE SyncFails
    BY <1>4, <1>5, <1>9 DEF SyncFails
  <1>10. CASE Crash
    BY <1>4, <1>5, <1>10 DEF Crash
  <1>11. CASE Start
    BY <1>4, <1>5, <1>11 DEF Start
  <1> QED
    BY <1>2, <1>6, <1>7, <1>8, <1>9, <1>10, <1>11 DEF IndexerNext

(***************************************************************************)
(* The index in memory and the one on disk are what the events of the      *)
(* first blocks tell, up to the block they name as the next, in every      *)
(* reachable state.                                                        *)
(***************************************************************************)
THEOREM IndexKept == Spec => []IndexerInv
  <1>1. Init => IndexerInv
    BY InitOK
  <1>2. IndexerInv /\ [Next]_vars => IndexerInv'
    <2> SUFFICES ASSUME IndexerInv, [Next]_vars PROVE IndexerInv'
      OBVIOUS
    <2>1. CASE ChainNext
      BY <2>1, ChainStep
    <2>2. CASE IndexerNext
      BY <2>2, SyncStep
    <2>3. CASE UNCHANGED vars
      <3>1. UNCHANGED <<contract, blocks, past>> /\ state' = state /\ file' = file /\ head' = head
        BY <2>3 DEF vars, chainVars
      <3>2. ChainInv'
        BY <3>1, StillTells DEF IndexerInv
      <3> QED
        BY <3>1, <3>2 DEF IndexerInv, Behind, Told, After
    <2> QED
      BY <2>1, <2>2, <2>3 DEF Next
  <1> QED
    BY <1>1, <1>2, PTL DEF Spec

(***************************************************************************)
(* The index is never out of step with the contracts: crashes, failed      *)
(* rounds and restarts (indexer.ts:113-160) neither skip an event nor      *)
(* apply one twice to a trade or a bid.                                    *)
(***************************************************************************)
THEOREM IndexInStep == Spec => []IndexMatchesChain
  <1>1. ASSUME IndexerInv, NEW index, Behind(index)
        PROVE  InStep(index) /\ index.next <= Len(blocks) + 1
    <2>1. index.next \in 1..(Len(blocks) + 1) /\ Len(blocks) \in Nat
      BY <1>1, ContractTyped DEF Behind, IndexerInv
    <2>2. index.trades = After(index.next - 1).trades /\ index.bids = After(index.next - 1).bids
      BY <1>1 DEF Behind, Told
    <2>3. CASE index.next = 1
      BY <2>2, <2>3 DEF After, InStep, EmptyIndex
    <2>4. CASE index.next # 1
      BY <2>1, <2>2, <2>4 DEF After, InStep
    <2> QED
      BY <2>1, <2>3, <2>4
  <1>2. IndexerInv => IndexMatchesChain
    BY <1>1 DEF IndexMatchesChain, IndexerInv
  <1> QED
    BY <1>2, IndexKept, PTL

(***************************************************************************)
(* An index that caught up misses no listing, and calls none cancelled     *)
(* whose nonce can still be filled, in every reachable state.              *)
(***************************************************************************)
THEOREM ListingsHeld == Spec => []ListingsSound
  <1>1. IndexerInv => ListingsSound
    <2> SUFFICES ASSUME IndexerInv, state.next > Len(blocks), NEW o \in Orders
                 PROVE  /\ (o \in contract.listed) = (state.listings[o] # Unlisted)
                        /\ state.listings[o].status = "cancelled" => NonceOf(o) \in contract.used
      BY DEF ListingsSound
    <2>1. state.next - 1 = Len(blocks)
      BY ContractTyped DEF IndexerInv, Behind
    <2>2. Told(state, contract)
      BY <2>1 DEF IndexerInv, ChainInv, Behind
    <2> QED
      BY <2>2 DEF Told
  <1> QED
    BY <1>1, IndexKept, PTL
=============================================================================
