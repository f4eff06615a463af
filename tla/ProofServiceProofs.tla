------------------------- MODULE ProofServiceProofs -------------------------
(***************************************************************************)
(* What the proof service answers verifies and settles, whatever comes in  *)
(* while a handler waits: only the handler at the head of the chain runs,  *)
(* so what it did to the simulated state is what it reads at the end.      *)
(***************************************************************************)
EXTENDS ProofService, TLAPS

Running == {"forward", "latest", "setTime", "mine", "injectTime", "injectRoot"}
Waiting(c) == handler[c].pc \in Running \cup {"chained"}

ValRow    == [withdrawable : Nat, balance : Nat, eff : Nat]
Pair      == [src : Validators, tgt : Validators]
SimStates == [slot : Nat, val : [Validators -> ValRow], pend : Seq(Pair)]

SimOK == sim \in SimStates

ForkOK ==
  /\ clock \in Nat /\ nextTime \in Nat /\ (nextTime # 0 => nextTime > clock)
  /\ DOMAIN ring = 0..(RingLength - 1) /\ ring = [i \in DOMAIN ring |-> ring[i]]
  /\ \A i \in DOMAIN ring : ring[i] = [ts |-> ring[i].ts, root |-> ring[i].root] /\ ring[i].ts \in Nat

HandlersOK ==
  /\ DOMAIN handler = Checkpoints /\ handler = [c \in Checkpoints |-> handler[c]]
  /\ \A c \in Checkpoints :
       Waiting(c) =>
         /\ handler[c] = [pc |-> handler[c].pc, asked |-> handler[c].asked, advance |-> handler[c].advance,
                          ts |-> handler[c].ts, root |-> handler[c].root]
         /\ handler[c].asked \in Nat /\ handler[c].asked <= clock
         /\ handler[c].advance \in Nat \ {0} /\ handler[c].ts \in Nat

\* `serial` holds every request that waits, once, and only the first one runs.
ChainOK ==
  /\ chain \in Seq(Checkpoints)
  /\ \A i, j \in 1..Len(chain) : chain[i] = chain[j] => i = j
  /\ \A c \in Checkpoints : Waiting(c) <=> \E i \in 1..Len(chain) : chain[i] = c
  /\ \A c \in Checkpoints : handler[c].pc \in Running => chain[1] = c

\* The change the handler made is in the view until it answers.
Queued(c) ==
  c.kind = "accepted" /\ ~IsReplayed(c) => sim.pend # <<>> /\ sim.pend[Len(sim.pend)] = PairOf(c)

Ripe(c) == sim.val[c.source].withdrawable * SlotsPerEpoch
At(c, pcs) == handler[c].pc \in pcs

ViewOK(c) ==
  /\ At(c, Running \ {"forward"}) => Queued(c)
  /\ At(c, {"forward"}) => c.kind = "delivered"
  /\ At(c, {"latest"}) /\ c.kind = "delivered" => clock + handler[c].advance > Ripe(c)
  /\ At(c, {"setTime", "mine", "injectTime", "injectRoot"}) =>
       /\ handler[c].ts > handler[c].asked
       /\ c.kind = "delivered" => handler[c].ts > Ripe(c)
  /\ At(c, {"mine"}) => nextTime = handler[c].ts \/ clock >= handler[c].ts

SealedOK(c) ==
  At(c, {"injectTime", "injectRoot"}) =>
    /\ clock >= handler[c].ts
    /\ IsReplayed(c) => handler[c].root = ReplayState
    /\ ~IsReplayed(c) => handler[c].root = tree /\ tree = sim /\ sim.slot >= handler[c].ts

RingOK(c) ==
  At(c, {"injectRoot"}) /\ handler[c].ts % RingLength # BaseTimestamp % RingLength =>
    LET slot == ring[handler[c].ts % RingLength]
    IN slot.ts = handler[c].ts \/ slot.ts >= handler[c].ts + RingLength

ServiceInv ==
  /\ SimOK /\ ForkOK /\ HandlersOK /\ ChainOK
  /\ \A c \in Checkpoints : ViewOK(c) /\ SealedOK(c) /\ RingOK(c)

-----------------------------------------------------------------------------
(* Arithmetic                                                              *)

LEMMA ModNat ==
  ASSUME NEW a \in Nat, NEW n \in Nat \ {0}
  PROVE  a % n \in 0..(n - 1) /\ a % n <= a /\ a \div n \in Nat /\ a = n * (a \div n) + (a % n)
  <1>1. a % n \in 0..(n - 1) /\ a \div n \in Int /\ a = n * (a \div n) + (a % n)
    OBVIOUS
  <1>2. a \div n >= 0
    <2>1. SUFFICES ASSUME a \div n <= -1 PROVE FALSE
      BY <1>1
    <2> DEFINE q == a \div n
    <2>2. q \in Int /\ q <= -1 /\ n \in Int /\ n > 0
      BY <1>1, <2>1
    <2> HIDE DEF q
    <2>3. n * q <= n * (-1)
      BY <2>2
    <2> QED BY <1>1, <2>2, <2>3 DEF q
  <1>3. n * (a \div n) >= 0
    <2> DEFINE q == a \div n
    <2>1. q \in Nat
      BY <1>1, <1>2
    <2> HIDE DEF q
    <2>2. n * q >= 0
      BY <2>1
    <2> QED BY <2>2 DEF q
  <1>4. n * (a \div n) \in Int
    BY <1>1
  <1> QED BY <1>1, <1>2, <1>3, <1>4

\* Two times of the same index of the ring are a ring apart.
LEMMA SameIndex ==
  ASSUME NEW a \in Nat, NEW b \in Nat, NEW n \in Nat \ {0}, a > b, a % n = b % n
  PROVE  a >= b + n
  <1> DEFINE p == a \div n
             q == b \div n
             m == a % n
  <1>1. p \in Nat /\ q \in Nat /\ m \in Nat /\ a = n * p + m /\ b = n * q + m
    <2>1. p \in Nat /\ m \in Nat /\ a = n * p + m
      <3>1. m \in 0..(n - 1) /\ p \in Nat /\ a = n * p + m
        BY ModNat
      <3> HIDE DEF m, p
      <3> QED BY <3>1
    <2>2. q \in Nat /\ b = n * q + (b % n)
      BY ModNat
    <2> HIDE DEF p, q
    <2> QED BY <2>1, <2>2
  <1> HIDE DEF p, q, m
  <1>2. n * p > n * q
    BY <1>1
  <1>3. p > q
    <2>1. SUFFICES ASSUME p <= q PROVE FALSE
      BY <1>1
    <2>2. n * p <= n * q
      BY <1>1, <2>1
    <2> QED BY <1>1, <1>2, <2>2
  <1>4. n * p >= n * (q + 1)
    BY <1>1, <1>3
  <1>5. n * (q + 1) = n * q + n
    BY <1>1
  <1> QED
    BY <1>1, <1>4, <1>5

\* A slot after an epoch's first slot is not of an earlier epoch.
LEMMA EpochReached ==
  ASSUME NEW slot \in Nat, NEW e \in Nat, slot > e * SlotsPerEpoch
  PROVE  e <= EpochOf(slot)
  <1> DEFINE n == SlotsPerEpoch
             q == slot \div n
             m == slot % n
  <1>1. n \in Nat \ {0}
    BY ServiceConstants
  <1>2. q \in Nat /\ m \in Nat /\ m < n /\ slot = n * q + m
    BY <1>1, ModNat
  <1> HIDE DEF n, q, m
  <1>3. SUFFICES ASSUME q + 1 <= e PROVE FALSE
    BY <1>2 DEF EpochOf, q, n
  <1>4. (q + 1) * n <= e * n
    BY <1>1, <1>2, <1>3
  <1>5. (q + 1) * n = n * q + n
    BY <1>1, <1>2
  <1>6. slot > e * n
    BY DEF n
  <1> QED
    BY <1>1, <1>2, <1>4, <1>5, <1>6

LEMMA RoundedNat ==
  ASSUME NEW v \in Validators, NEW balance \in Nat
  PROVE  Rounded(v, balance) \in Nat /\ Rounded(v, balance) <= balance
  <1>1. Increment \in Nat \ {0} /\ MinActivation \in Nat /\ MaxEffective \in Nat
    BY ServiceConstants
  <1>2. balance % Increment \in Nat /\ balance % Increment <= balance
    BY <1>1, ModNat
  <1> QED
    BY <1>1, <1>2 DEF Rounded, MinOf

-----------------------------------------------------------------------------
(* The chain of handlers                                                   *)

LEMMA Alone ==
  ASSUME HandlersOK, ChainOK, NEW c \in Checkpoints, handler[c].pc \in Running \/ (At(c, {"chained"}) /\ Serial(c))
  PROVE  /\ Len(chain) \in Nat /\ Len(chain) > 0 /\ chain[1] = c /\ Waiting(c)
         /\ \A d \in Checkpoints \ {c} : handler[d].pc \notin Running
  <1>1. Len(chain) \in Nat /\ Waiting(c)
    BY DEF ChainOK, Waiting, At
  <1>2. Len(chain) > 0
    BY <1>1 DEF ChainOK
  <1>3. chain[1] = c
    BY <1>2 DEF ChainOK, Serial
  <1> QED
    BY <1>1, <1>2, <1>3 DEF ChainOK

Idle(c) == handler[c].pc \notin Running

LEMMA IdleOK ==
  ASSUME NEW c, Idle(c)
  PROVE  ViewOK(c) /\ SealedOK(c) /\ RingOK(c)
  BY DEF Idle, ViewOK, SealedOK, RingOK, At, Running

\* The handler that runs goes on.
LEMMA GoesOn ==
  ASSUME HandlersOK, ChainOK, ForkOK, NEW c \in Checkpoints,
         handler[c].pc \in Running \/ (At(c, {"chained"}) /\ Serial(c)),
         NEW pc \in Running, NEW advance \in Nat \ {0}, NEW ts \in Nat, NEW root,
         handler' = [handler EXCEPT ![c] = [pc |-> pc, asked |-> handler[c].asked, advance |-> advance,
                                            ts |-> ts, root |-> root]],
         chain' = chain, clock' \in Nat, clock' >= clock
  PROVE  /\ HandlersOK' /\ ChainOK'
         /\ \A d \in Checkpoints \ {c} : ViewOK(d)' /\ SealedOK(d)' /\ RingOK(d)'
  <1> DEFINE row == [pc |-> pc, asked |-> handler[c].asked, advance |-> advance, ts |-> ts, root |-> root]
  <1>1. /\ chain[1] = c /\ Waiting(c) /\ Len(chain) \in Nat
        /\ \A d \in Checkpoints \ {c} : handler[d].pc \notin Running
    BY Alone
  <1>2. DOMAIN handler = Checkpoints
    BY DEF HandlersOK
  <1>3. /\ DOMAIN handler' = Checkpoints /\ handler' = [d \in Checkpoints |-> handler'[d]]
        /\ handler'[c] = row /\ \A d \in Checkpoints \ {c} : handler'[d] = handler[d]
    <2>1. handler' = [d \in Checkpoints |-> IF d = c THEN row ELSE handler[d]]
      BY <1>2
    <2> HIDE DEF row
    <2> QED BY <2>1
  <1>4. /\ row.pc = pc /\ row.asked = handler[c].asked /\ row.advance = advance /\ row.ts = ts /\ row.root = root
        /\ row = [pc |-> row.pc, asked |-> row.asked, advance |-> row.advance, ts |-> row.ts, root |-> row.root]
    OBVIOUS
  <1> HIDE DEF row
  <1>5. HandlersOK'
    <2> SUFFICES ASSUME NEW d \in Checkpoints, Waiting(d)'
                 PROVE  /\ handler'[d] = [pc |-> handler'[d].pc, asked |-> handler'[d].asked,
                                          advance |-> handler'[d].advance, ts |-> handler'[d].ts,
                                          root |-> handler'[d].root]
                        /\ handler'[d].asked \in Nat /\ handler'[d].asked <= clock'
                        /\ handler'[d].advance \in Nat \ {0} /\ handler'[d].ts \in Nat
      BY <1>3 DEF HandlersOK
    <2>1. CASE d = c
      <3>1. handler[c].asked \in Nat /\ handler[c].asked <= clock
        BY <1>1 DEF HandlersOK
      <3> QED BY <1>3, <1>4, <2>1, <3>1 DEF ForkOK
    <2>2. CASE d # c
      <3>1. Waiting(d) /\ handler'[d] = handler[d]
        BY <1>3, <2>2 DEF Waiting
      <3>2. /\ handler[d] = [pc |-> handler[d].pc, asked |-> handler[d].asked,
                             advance |-> handler[d].advance, ts |-> handler[d].ts, root |-> handler[d].root]
            /\ handler[d].asked \in Nat /\ handler[d].asked <= clock
            /\ handler[d].advance \in Nat \ {0} /\ handler[d].ts \in Nat
        BY <3>1 DEF HandlersOK
      <3> QED BY <3>1, <3>2 DEF ForkOK
    <2> QED BY <2>1, <2>2
  <1>6. \A d \in Checkpoints : Waiting(d)' <=> Waiting(d)
    BY <1>1, <1>3, <1>4 DEF Waiting
  <1>7. \A d \in Checkpoints \ {c} : handler'[d].pc \notin Running
    BY <1>1, <1>3
  <1>8. ChainOK'
    BY <1>1, <1>6, <1>7 DEF ChainOK
  <1>9. \A d \in Checkpoints \ {c} : ViewOK(d)' /\ SealedOK(d)' /\ RingOK(d)'
    BY <1>7 DEF ViewOK, SealedOK, RingOK, At, Running
  <1> QED
    BY <1>5, <1>8, <1>9

\* The handler that runs ends, and the next one may begin.
LEMMA Ends ==
  ASSUME HandlersOK, ChainOK, ForkOK, NEW c \in Checkpoints,
         handler[c].pc \in Running \/ (At(c, {"chained"}) /\ Serial(c)),
         NEW pc \in {"done", "failed"}, handler' = [handler EXCEPT ![c] = [pc |-> pc]],
         chain' = Tail(chain), clock' = clock
  PROVE  /\ HandlersOK' /\ ChainOK'
         /\ \A d \in Checkpoints : ViewOK(d)' /\ SealedOK(d)' /\ RingOK(d)'
  <1> DEFINE row == [pc |-> pc]
  <1>1. /\ chain[1] = c /\ Waiting(c) /\ Len(chain) \in Nat /\ Len(chain) > 0
        /\ \A d \in Checkpoints \ {c} : handler[d].pc \notin Running
    BY Alone
  <1>2. DOMAIN handler = Checkpoints /\ row.pc = pc
    BY DEF HandlersOK
  <1>3. /\ DOMAIN handler' = Checkpoints /\ handler' = [d \in Checkpoints |-> handler'[d]]
        /\ handler'[c] = row /\ \A d \in Checkpoints \ {c} : handler'[d] = handler[d]
    <2>1. handler' = [d \in Checkpoints |-> IF d = c THEN row ELSE handler[d]]
      BY <1>2
    <2> HIDE DEF row
    <2> QED BY <2>1
  <1> HIDE DEF row
  <1>4. \A d \in Checkpoints : Waiting(d)' <=> Waiting(d) /\ d # c
    BY <1>2, <1>3 DEF Waiting, Running
  <1>5. HandlersOK'
    <2> SUFFICES ASSUME NEW d \in Checkpoints, Waiting(d)'
                 PROVE  /\ handler'[d] = [pc |-> handler'[d].pc, asked |-> handler'[d].asked,
                                          advance |-> handler'[d].advance, ts |-> handler'[d].ts,
                                          root |-> handler'[d].root]
                        /\ handler'[d].asked \in Nat /\ handler'[d].asked <= clock'
                        /\ handler'[d].advance \in Nat \ {0} /\ handler'[d].ts \in Nat
      BY <1>3 DEF HandlersOK
    <2>1. d # c /\ Waiting(d) /\ handler'[d] = handler[d]
      BY <1>3, <1>4
    <2> QED BY <2>1 DEF HandlersOK
  <1>6. \A d \in Checkpoints : handler'[d].pc \notin Running
    BY <1>1, <1>2, <1>3 DEF Running
  <1>7. ChainOK'
    <2>1. /\ chain' \in Seq(Checkpoints) /\ Len(chain') = Len(chain) - 1
          /\ \A i \in 1..Len(chain') : chain'[i] = chain[i + 1]
      BY <1>1 DEF ChainOK
    <2>2. \A i, j \in 1..Len(chain') : chain'[i] = chain'[j] => i = j
      <3>1. \A i \in 1..Len(chain') : i \in Int /\ i + 1 \in 1..Len(chain)
        BY <1>1, <2>1
      <3>2. ASSUME NEW i \in 1..Len(chain'), NEW j \in 1..Len(chain'), chain'[i] = chain'[j]
            PROVE  i = j
        <4>1. i + 1 = j + 1
          BY <2>1, <3>1, <3>2 DEF ChainOK
        <4> QED BY <3>1, <4>1
      <3> QED BY <3>2
    <2>3. ASSUME NEW d \in Checkpoints
          PROVE  Waiting(d)' <=> \E i \in 1..Len(chain') : chain'[i] = d
      <3>1. ASSUME Waiting(d)' PROVE \E i \in 1..Len(chain') : chain'[i] = d
        <4>1. PICK j \in 1..Len(chain) : chain[j] = d
          BY <1>4, <3>1 DEF ChainOK
        <4>2. j # 1
          BY <1>1, <1>4, <3>1, <4>1
        <4>3. j \in Int /\ j - 1 \in 1..Len(chain') /\ (j - 1) + 1 = j
          BY <1>1, <2>1, <4>1, <4>2
        <4> QED BY <2>1, <4>1, <4>3
      <3>2. ASSUME NEW i \in 1..Len(chain'), chain'[i] = d PROVE Waiting(d)'
        <4>1. i + 1 \in 1..Len(chain) /\ chain[i + 1] = d /\ i + 1 # 1 /\ 1 \in 1..Len(chain)
          BY <1>1, <2>1, <3>2
        <4>2. Waiting(d) /\ d # c
          BY <1>1, <4>1 DEF ChainOK
        <4> QED BY <1>4, <4>2
      <3> QED BY <3>1, <3>2
    <2> QED BY <1>6, <2>1, <2>2, <2>3 DEF ChainOK
  <1>8. \A d \in Checkpoints : ViewOK(d)' /\ SealedOK(d)' /\ RingOK(d)'
    BY <1>6 DEF ViewOK, SealedOK, RingOK, At, Running
  <1> QED
    BY <1>5, <1>7, <1>8

-----------------------------------------------------------------------------
(* The simulated state and the fork                                        *)

LEMMA QueueTyped ==
  ASSUME SimOK, NEW c \in Checkpoints, QueueConsolidation(c)
  PROVE  SimOK' /\ sim'.pend # <<>> /\ sim'.pend[Len(sim'.pend)] = PairOf(c)
  <1> DEFINE w == EpochOf(sim.slot) + ExitLookahead + WithdrawabilityDelay
             val == [sim.val EXCEPT ![c.source].withdrawable = w]
             pend == Append(sim.pend, PairOf(c))
  <1>1. c.source \in Validators /\ PairOf(c) \in Pair
    BY ServiceConstants DEF PairOf, Pair
  <1>2. /\ sim.slot \in Nat /\ sim.val \in [Validators -> ValRow] /\ sim.pend \in Seq(Pair)
        /\ sim = [slot |-> sim.slot, val |-> sim.val, pend |-> sim.pend]
    BY DEF SimOK, SimStates
  <1>3. w \in Nat
    <2>1. sim.slot \div SlotsPerEpoch \in Nat
      BY <1>2, ModNat, ServiceConstants
    <2> QED BY <2>1, ServiceConstants DEF EpochOf
  <1>4. sim' = [sim EXCEPT !.val = val, !.pend = pend]
    BY <1>2 DEF QueueConsolidation
  <1> HIDE DEF w
  <1>5. val \in [Validators -> ValRow]
    BY <1>1, <1>2, <1>3 DEF ValRow
  <1>6. pend \in Seq(Pair) /\ Len(pend) \in Nat /\ Len(pend) > 0 /\ pend[Len(pend)] = PairOf(c)
    BY <1>1, <1>2
  <1> HIDE DEF val, pend
  <1>7. sim' = [slot |-> sim.slot, val |-> val, pend |-> pend]
    BY <1>2, <1>4
  <1> QED
    BY <1>2, <1>5, <1>6, <1>7 DEF SimOK, SimStates

\* The source's balance falls to what is above its effective balance.
LEMMA ProcessTyped ==
  ASSUME SimOK, NEW c \in Checkpoints, ProcessConsolidation(c)
  PROVE  /\ SimOK' /\ sim'.slot = sim.slot /\ sim'.pend = sim.pend
         /\ \A v \in Validators : sim'.val[v].withdrawable = sim.val[v].withdrawable
         /\ \A v \in Validators \ {c.source, c.target} : sim'.val[v] = sim.val[v]
         /\ c.source # c.target =>
              LET row == sim.val[c.source]
                  left == IF row.balance <= row.eff THEN 0 ELSE row.balance - row.eff
              IN sim'.val[c.source].balance = left /\ sim'.val[c.source].eff = Rounded(c.source, left)
  <1> DEFINE moved    == MinOf(sim.val[c.source].balance, sim.val[c.source].eff)
             drained  == [sim.val EXCEPT ![c.source].balance = @ - moved]
             credited == [drained EXCEPT ![c.target].balance = @ + moved]
             val == [v \in Validators |->
                       IF v \in {c.source, c.target} THEN [credited[v] EXCEPT !.eff = Rounded(v, credited[v].balance)]
                       ELSE credited[v]]
  <1>1. c.source \in Validators /\ c.target \in Validators
    BY ServiceConstants
  <1>2. /\ sim.slot \in Nat /\ sim.val \in [Validators -> ValRow] /\ sim.pend \in Seq(Pair)
        /\ sim = [slot |-> sim.slot, val |-> sim.val, pend |-> sim.pend]
    BY DEF SimOK, SimStates
  <1>3. sim' = [sim EXCEPT !.val = val]
    BY DEF ProcessConsolidation
  <1>4. moved \in Nat /\ moved <= sim.val[c.source].balance
    BY <1>1, <1>2 DEF MinOf, ValRow
  <1>5. moved = IF sim.val[c.source].balance <= sim.val[c.source].eff THEN sim.val[c.source].balance
                ELSE sim.val[c.source].eff
    BY DEF MinOf
  <1> HIDE DEF moved
  <1>6. /\ drained \in [Validators -> ValRow]
        /\ drained[c.source].balance = sim.val[c.source].balance - moved
        /\ \A v \in Validators : drained[v].withdrawable = sim.val[v].withdrawable
        /\ \A v \in Validators \ {c.source} : drained[v] = sim.val[v]
    <2> DEFINE low == [sim.val[c.source] EXCEPT !.balance = sim.val[c.source].balance - moved]
    <2>1. drained = [sim.val EXCEPT ![c.source] = low]
      OBVIOUS
    <2>2. low \in ValRow /\ low.balance = sim.val[c.source].balance - moved
          /\ low.withdrawable = sim.val[c.source].withdrawable
      <3>1. sim.val[c.source] \in ValRow
        BY <1>1, <1>2
      <3> QED BY <1>4, <3>1 DEF ValRow
    <2> HIDE DEF low, drained
    <2> QED BY <1>1, <1>2, <2>1, <2>2
  <1> HIDE DEF drained
  <1>7. /\ credited \in [Validators -> ValRow]
        /\ \A v \in Validators : credited[v].withdrawable = sim.val[v].withdrawable
        /\ \A v \in Validators \ {c.target} : credited[v] = drained[v]
    BY <1>1, <1>4, <1>6 DEF ValRow
  <1> HIDE DEF credited
  <1>8. \A v \in Validators : /\ val[v] \in ValRow /\ val[v].withdrawable = sim.val[v].withdrawable
                              /\ v \notin {c.source, c.target} => val[v] = sim.val[v]
                              /\ v = c.source => /\ val[v].balance = credited[v].balance
                                                 /\ val[v].eff = Rounded(v, credited[v].balance)
    <2> SUFFICES ASSUME NEW v \in Validators
                 PROVE  /\ val[v] \in ValRow /\ val[v].withdrawable = sim.val[v].withdrawable
                        /\ v \notin {c.source, c.target} => val[v] = sim.val[v]
                        /\ v = c.source => /\ val[v].balance = credited[v].balance
                                           /\ val[v].eff = Rounded(v, credited[v].balance)
      OBVIOUS
    <2>1. credited[v] \in ValRow /\ Rounded(v, credited[v].balance) \in Nat
      BY <1>7, RoundedNat DEF ValRow
    <2>2. CASE v \in {c.source, c.target}
      <3>1. val[v] = [credited[v] EXCEPT !.eff = Rounded(v, credited[v].balance)]
        BY <2>2
      <3> HIDE DEF val
      <3> QED BY <1>7, <2>1, <2>2, <3>1 DEF ValRow
    <2>3. CASE v \notin {c.source, c.target}
      <3>1. val[v] = credited[v]
        BY <2>3
      <3> HIDE DEF val
      <3> QED BY <1>6, <1>7, <2>1, <2>3, <3>1
    <2> QED BY <2>2, <2>3
  <1>9. val = [v \in Validators |-> val[v]]
    OBVIOUS
  <1> HIDE DEF val
  <1>10. val \in [Validators -> ValRow]
    BY <1>8, <1>9
  <1>11. sim' = [slot |-> sim.slot, val |-> val, pend |-> sim.pend]
    BY <1>2, <1>3
  <1>12. sim' \in SimStates
    BY <1>2, <1>10, <1>11 DEF SimStates
  <1>13. ASSUME c.source # c.target
         PROVE  val[c.source].balance = sim.val[c.source].balance - moved
    BY <1>1, <1>6, <1>7, <1>8, <1>13
  <1>14. sim.val[c.source].balance \in Nat /\ sim.val[c.source].eff \in Nat
    BY <1>1, <1>2 DEF ValRow
  <1>15. ASSUME c.source # c.target
         PROVE  val[c.source].eff = Rounded(c.source, val[c.source].balance)
    BY <1>1, <1>8
  <1>16. sim.val[c.source].balance - moved
           = IF sim.val[c.source].balance <= sim.val[c.source].eff THEN 0
             ELSE sim.val[c.source].balance - sim.val[c.source].eff
    BY <1>5, <1>14
  <1> QED
    BY <1>8, <1>11, <1>12, <1>13, <1>15, <1>16 DEF SimOK

LEMMA SealTyped ==
  ASSUME SimOK, NEW ts \in Nat, Seal(ts)
  PROVE  /\ SimOK' /\ tree' = sim' /\ sim'.val = sim.val /\ sim'.pend = sim.pend /\ sim'.slot >= ts
  <1>1. /\ sim.slot \in Nat /\ sim.val \in [Validators -> ValRow] /\ sim.pend \in Seq(Pair)
        /\ sim = [slot |-> sim.slot, val |-> sim.val, pend |-> sim.pend]
    BY DEF SimOK, SimStates
  <1>2. SealedSlot(ts) \in Nat /\ SealedSlot(ts) >= ts
    BY <1>1 DEF SealedSlot, MaxOf
  <1>3. sim' = [slot |-> SealedSlot(ts), val |-> sim.val, pend |-> sim.pend] /\ tree' = sim'
    BY <1>1 DEF Seal
  <1> QED
    BY <1>1, <1>2, <1>3 DEF SimOK, SimStates

LEMMA BlockMined ==
  ASSUME ForkOK, NEW free, free \in {{clock + 1, clock + 2}, {clock + 1}},
         NEW ts \in BlockTimes(free), MineBlock(ts)
  PROVE  /\ ForkOK' /\ clock' = ts /\ ts > clock /\ nextTime' = 0 /\ (nextTime # 0 => ts = nextTime)
         /\ \A i \in 0..(RingLength - 1) :
              ring'[i] = IF i = ts % RingLength THEN [ts |-> ts, root |-> LocalRoot] ELSE ring[i]
  <1>1. clock \in Nat /\ ts \in Nat /\ ts > clock /\ (nextTime # 0 => ts = nextTime)
    BY DEF ForkOK, BlockTimes
  <1>2. clock' = ts /\ nextTime' = 0
    BY DEF MineBlock
  <1>3. RingLength \in Nat \ {0} /\ ts % RingLength \in 0..(RingLength - 1)
    BY <1>1, ModNat, ServiceConstants
  <1> DEFINE i0 == ts % RingLength
             row == [ts |-> ts, root |-> LocalRoot]
  <1>4. ring' = [i \in 0..(RingLength - 1) |-> IF i = i0 THEN row ELSE ring[i]]
    BY DEF MineBlock, ForkOK
  <1>5. row.ts = ts /\ row = [ts |-> row.ts, root |-> row.root]
    OBVIOUS
  <1> HIDE DEF i0, row
  <1>6. DOMAIN ring' = 0..(RingLength - 1) /\ ring' = [i \in DOMAIN ring' |-> ring'[i]]
    BY <1>4
  <1>7. \A i \in 0..(RingLength - 1) : ring'[i] = IF i = i0 THEN row ELSE ring[i]
    BY <1>4
  <1>8. \A i \in DOMAIN ring' : ring'[i] = [ts |-> ring'[i].ts, root |-> ring'[i].root] /\ ring'[i].ts \in Nat
    BY <1>1, <1>5, <1>6, <1>7 DEF ForkOK
  <1> QED
    BY <1>1, <1>2, <1>6, <1>7, <1>8 DEF ForkOK, i0, row

LEMMA SlotWritten ==
  ASSUME ForkOK, NEW ts \in Nat, NEW row, row = [ts |-> row.ts, root |-> row.root], row.ts \in Nat,
         ring' = [ring EXCEPT ![ts % RingLength] = row], clock' = clock, nextTime' = nextTime
  PROVE  /\ ForkOK' /\ ts % RingLength \in 0..(RingLength - 1) /\ ring'[ts % RingLength] = row
         /\ \A i \in 0..(RingLength - 1) \ {ts % RingLength} : ring'[i] = ring[i]
  <1> DEFINE i0 == ts % RingLength
  <1>1. i0 \in 0..(RingLength - 1)
    BY ModNat, ServiceConstants
  <1> HIDE DEF i0
  <1>2. ring' = [i \in 0..(RingLength - 1) |-> IF i = i0 THEN row ELSE ring[i]]
    BY DEF ForkOK, i0
  <1>3. DOMAIN ring' = 0..(RingLength - 1) /\ ring' = [i \in DOMAIN ring' |-> ring'[i]]
    BY <1>2
  <1>4. \A i \in 0..(RingLength - 1) : ring'[i] = IF i = i0 THEN row ELSE ring[i]
    BY <1>2
  <1>5. \A i \in DOMAIN ring' : ring'[i] = [ts |-> ring'[i].ts, root |-> ring'[i].root] /\ ring'[i].ts \in Nat
    BY <1>3, <1>4 DEF ForkOK
  <1> QED
    BY <1>1, <1>3, <1>4, <1>5 DEF ForkOK, i0

\* Writing a timestamp leaves the root, and the other way round.
LEMMA TimeWritten ==
  ASSUME ForkOK, NEW ts \in Nat, WriteTime(ts), clock' = clock, nextTime' = nextTime
  PROVE  /\ ForkOK' /\ ts % RingLength \in 0..(RingLength - 1) /\ ring'[ts % RingLength].ts = ts
         /\ \A i \in 0..(RingLength - 1) \ {ts % RingLength} : ring'[i] = ring[i]
  <1> DEFINE row == [ts |-> ts, root |-> ring[ts % RingLength].root]
  <1>1. ts % RingLength \in 0..(RingLength - 1)
    BY ModNat, ServiceConstants
  <1>2. ring' = [ring EXCEPT ![ts % RingLength] = row]
    <2> DEFINE i0 == ts % RingLength
    <2>1. ring' = [ring EXCEPT ![i0].ts = ts]
      BY DEF WriteTime
    <2>2. ring[i0] = [ts |-> ring[i0].ts, root |-> ring[i0].root] /\ i0 \in DOMAIN ring
      BY <1>1 DEF ForkOK
    <2>3. row = [ts |-> ts, root |-> ring[i0].root]
      OBVIOUS
    <2> HIDE DEF i0, row
    <2>4. [ring[i0] EXCEPT !.ts = ts] = row
      BY <2>2, <2>3
    <2>5. ring' = [ring EXCEPT ![i0] = row]
      BY <2>1, <2>4
    <2> QED BY <2>5 DEF i0
  <1>3. row = [ts |-> row.ts, root |-> row.root] /\ row.ts = ts
    OBVIOUS
  <1> HIDE DEF row
  <1> QED
    BY <1>2, <1>3, SlotWritten

LEMMA RootWritten ==
  ASSUME ForkOK, NEW ts \in Nat, NEW root, WriteRoot(ts, root), clock' = clock, nextTime' = nextTime
  PROVE  /\ ForkOK' /\ ts % RingLength \in 0..(RingLength - 1)
         /\ ring'[ts % RingLength].root = root /\ ring'[ts % RingLength].ts = ring[ts % RingLength].ts
         /\ \A i \in 0..(RingLength - 1) \ {ts % RingLength} : ring'[i] = ring[i]
  <1> DEFINE row == [ts |-> ring[ts % RingLength].ts, root |-> root]
  <1>1. ts % RingLength \in 0..(RingLength - 1)
    BY ModNat, ServiceConstants
  <1>2. ring' = [ring EXCEPT ![ts % RingLength] = row] /\ ring[ts % RingLength].ts \in Nat
    <2> DEFINE i0 == ts % RingLength
    <2>1. ring' = [ring EXCEPT ![i0].root = root]
      BY DEF WriteRoot
    <2>2. /\ ring[i0] = [ts |-> ring[i0].ts, root |-> ring[i0].root] /\ i0 \in DOMAIN ring
          /\ ring[i0].ts \in Nat
      BY <1>1 DEF ForkOK
    <2>3. row = [ts |-> ring[i0].ts, root |-> root]
      OBVIOUS
    <2> HIDE DEF i0, row
    <2>4. [ring[i0] EXCEPT !.root = root] = row
      BY <2>2, <2>3
    <2>5. ring' = [ring EXCEPT ![i0] = row]
      BY <2>1, <2>4
    <2> QED BY <2>2, <2>5 DEF i0
  <1>3. row = [ts |-> row.ts, root |-> row.root] /\ row.root = root /\ row.ts = ring[ts % RingLength].ts
    OBVIOUS
  <1> HIDE DEF row
  <1> QED
    BY <1>2, <1>3, SlotWritten

-----------------------------------------------------------------------------
(* Steps of others than the handlers of checkpoints                        *)

LEMMA HandlersFrame ==
  ASSUME HandlersOK, ForkOK, handler' = handler, clock' \in Nat, clock' >= clock
  PROVE  HandlersOK'
  <1>1. \A c : Waiting(c)' <=> Waiting(c)
    BY DEF Waiting
  <1>2. ASSUME NEW c \in Checkpoints, Waiting(c)
        PROVE  handler'[c].asked \in Nat /\ handler'[c].asked <= clock'
    <2>1. handler[c].asked \in Nat /\ handler[c].asked <= clock
      BY <1>2 DEF HandlersOK
    <2> QED BY <2>1 DEF ForkOK
  <1> QED
    BY <1>1, <1>2 DEF HandlersOK

LEMMA ChainFrame ==
  ASSUME ChainOK, handler' = handler, chain' = chain
  PROVE  ChainOK'
  BY DEF ChainOK, Waiting

LEMMA WaitingTyped ==
  ASSUME HandlersOK, NEW c \in Checkpoints, handler[c].pc \in Running \cup {"chained"}
  PROVE  /\ handler[c].asked \in Nat /\ handler[c].asked <= clock
         /\ handler[c].advance \in Nat \ {0} /\ handler[c].ts \in Nat
         /\ handler[c] = [pc |-> handler[c].pc, asked |-> handler[c].asked, advance |-> handler[c].advance,
                          ts |-> handler[c].ts, root |-> handler[c].root]
  BY DEF HandlersOK, Waiting

LEMMA RipeInt ==
  ASSUME SimOK, NEW c \in Checkpoints
  PROVE  Ripe(c) \in Nat /\ sim.val[c.source].withdrawable \in Nat /\ c.source \in Validators
  <1>1. c.source \in Validators /\ SlotsPerEpoch \in Nat
    BY ServiceConstants
  <1>2. sim.val[c.source].withdrawable \in Nat
    BY <1>1 DEF SimOK, SimStates, ValRow
  <1> QED BY <1>1, <1>2 DEF Ripe

LEMMA ViewFrame ==
  ASSUME ServiceInv, NEW c \in Checkpoints, handler' = handler, sim' = sim, tree' = tree,
         clock' \in Nat, clock' >= clock,
         handler[c].ts # 0 /\ nextTime = handler[c].ts => nextTime' = handler[c].ts \/ clock' >= handler[c].ts
  PROVE  ViewOK(c)' /\ SealedOK(c)'
  <1>1. clock \in Nat
    BY DEF ServiceInv, ForkOK
  <1>2. At(c, Running) => handler[c].ts \in Nat /\ handler[c].asked \in Nat /\ handler[c].advance \in Nat
    BY WaitingTyped DEF ServiceInv, At
  <1>3. ViewOK(c) /\ SealedOK(c)
    BY DEF ServiceInv
  <1>4. Ripe(c) \in Nat
    BY RipeInt DEF ServiceInv
  <1>5. Queued(c)' <=> Queued(c)
    BY DEF Queued
  <1>6. Ripe(c)' = Ripe(c)
    BY DEF Ripe
  <1>7. \A pcs : At(c, pcs)' <=> At(c, pcs)
    BY DEF At
  <1>8. \A pcs : pcs \subseteq Running => (At(c, pcs) => At(c, Running))
    BY DEF At
  <1>9. {"latest"} \subseteq Running /\ {"mine"} \subseteq Running /\ {"injectTime", "injectRoot"} \subseteq Running
    BY DEF Running
  <1>10. ViewOK(c)'
    <2>1. (At(c, {"latest"}) /\ c.kind = "delivered" => clock + handler[c].advance > Ripe(c))'
      BY <1>1, <1>2, <1>3, <1>4, <1>6, <1>7, <1>8, <1>9 DEF ViewOK
    <2>2. (At(c, {"mine"}) => nextTime = handler[c].ts \/ clock >= handler[c].ts)'
      <3>1. SUFFICES ASSUME At(c, {"mine"}) PROVE nextTime' = handler[c].ts \/ clock' >= handler[c].ts
        BY <1>7
      <3>2. At(c, Running) /\ handler[c].ts > handler[c].asked /\ (nextTime = handler[c].ts \/ clock >= handler[c].ts)
        BY <1>3, <1>8, <1>9, <3>1 DEF ViewOK, At
      <3>3. handler[c].ts # 0
        BY <1>2, <3>2
      <3> QED BY <1>1, <1>2, <3>2, <3>3
    <2>3. (At(c, Running \ {"forward"}) => Queued(c))'
      BY <1>3, <1>5, <1>7 DEF ViewOK
    <2> QED
      BY <1>3, <1>6, <1>7, <2>1, <2>2, <2>3 DEF ViewOK
  <1>11. SealedOK(c)'
    BY <1>1, <1>2, <1>3, <1>7, <1>8, <1>9 DEF SealedOK
  <1> QED
    BY <1>10, <1>11

LEMMA UserBlockStep ==
  ASSUME ServiceInv, UserBlock
  PROVE  ServiceInv'
  <1> DEFINE free == {clock + 1, clock + 2}
  <1>1. PICK ts \in BlockTimes(free) : MineBlock(ts)
    BY DEF UserBlock
  <1>2. /\ ForkOK' /\ clock' = ts /\ ts > clock /\ nextTime' = 0 /\ (nextTime # 0 => ts = nextTime)
        /\ \A i \in 0..(RingLength - 1) :
             ring'[i] = IF i = ts % RingLength THEN [ts |-> ts, root |-> LocalRoot] ELSE ring[i]
    BY <1>1, BlockMined DEF ServiceInv
  <1>3. handler' = handler /\ chain' = chain /\ sim' = sim /\ tree' = tree
    BY DEF UserBlock, simVars
  <1>4. clock \in Nat /\ clock' \in Nat /\ ts \in Nat /\ nextTime \in Nat
    BY <1>2 DEF ServiceInv, ForkOK
  <1>5. SimOK' /\ HandlersOK' /\ ChainOK'
    BY <1>2, <1>3, <1>4, HandlersFrame, ChainFrame DEF ServiceInv, SimOK
  <1>6. ASSUME NEW c \in Checkpoints
        PROVE  ViewOK(c)' /\ SealedOK(c)' /\ RingOK(c)'
    <2>1. handler[c].ts # 0 /\ nextTime = handler[c].ts => clock' = handler[c].ts
      BY <1>2
    <2>2. ViewOK(c)' /\ SealedOK(c)'
      <3>1. handler[c].ts # 0 /\ nextTime = handler[c].ts =>
              nextTime' = handler[c].ts \/ clock' >= handler[c].ts
        BY <1>2, <1>4, <2>1
      <3> QED BY <1>2, <1>3, <1>4, <3>1, ViewFrame
    <2>3. RingOK(c)'
      <3> DEFINE h == handler[c].ts
                 i == h % RingLength
      <3>1. SUFFICES ASSUME At(c, {"injectRoot"}), i # BaseTimestamp % RingLength
                     PROVE  ring'[i].ts = h \/ ring'[i].ts >= h + RingLength
        BY <1>3 DEF RingOK, At
      <3>2. h \in Nat /\ clock >= h /\ RingLength \in Nat \ {0}
        BY <3>1, WaitingTyped, ServiceConstants DEF ServiceInv, SealedOK, At, Running
      <3>3. i \in 0..(RingLength - 1)
        BY <3>2, ModNat
      <3>4. ring[i].ts = h \/ ring[i].ts >= h + RingLength
        BY <3>1 DEF ServiceInv, RingOK
      <3>5. CASE i = ts % RingLength
        <4>1. ts >= h + RingLength
          BY <1>2, <1>4, <3>2, <3>5, SameIndex
        <4>2. ring'[i].ts = ts
          BY <1>2, <3>3, <3>5
        <4> QED BY <4>1, <4>2
      <3>6. CASE i # ts % RingLength
        <4>1. ring'[i] = ring[i]
          BY <1>2, <3>3, <3>6
        <4> QED BY <3>4, <4>1
      <3> QED BY <3>5, <3>6
    <2> QED BY <2>2, <2>3
  <1> QED
    BY <1>2, <1>5, <1>6 DEF ServiceInv

LEMMA FillStep ==
  ASSUME ServiceInv, FillNext
  PROVE  ServiceInv'
  <1>1. handler' = handler /\ chain' = chain /\ sim' = sim /\ tree' = tree /\ clock' = clock /\ nextTime' = nextTime
    BY DEF FillNext, FillProofs, RestoreTime, RestoreRoot, simVars, forkVars
  <1>2. clock \in Nat
    BY DEF ServiceInv, ForkOK
  <1>3. SimOK' /\ HandlersOK' /\ ChainOK'
    BY <1>1, <1>2, HandlersFrame, ChainFrame DEF ServiceInv, SimOK
  <1>4. \A c \in Checkpoints : ViewOK(c)' /\ SealedOK(c)'
    BY <1>1, <1>2, ViewFrame
  <1>5. BaseTimestamp \in Nat
    BY ServiceConstants DEF BaseTimestamp
  <1>6. ForkOK' /\ \A i \in 0..(RingLength - 1) : i # BaseTimestamp % RingLength => ring'[i] = ring[i]
    <2>1. CASE ring' = ring
      BY <1>1, <2>1 DEF ServiceInv, ForkOK
    <2>2. CASE WriteTime(BaseTimestamp)
      BY <1>1, <1>5, <2>2, TimeWritten DEF ServiceInv
    <2>3. CASE WriteRoot(BaseTimestamp, BaseState)
      BY <1>1, <1>5, <2>3, RootWritten DEF ServiceInv
    <2> QED
      BY <2>1, <2>2, <2>3 DEF FillNext, FillProofs, RestoreTime, RestoreRoot, forkVars
  <1>7. ASSUME NEW c \in Checkpoints
        PROVE  RingOK(c)'
    <2>1. SUFFICES ASSUME At(c, {"injectRoot"}), handler[c].ts % RingLength # BaseTimestamp % RingLength
                   PROVE  ring'[handler[c].ts % RingLength] = ring[handler[c].ts % RingLength]
      BY <1>1 DEF ServiceInv, RingOK, At
    <2>2. handler[c].ts \in Nat
      BY <2>1, WaitingTyped DEF ServiceInv, At, Running
    <2>3. handler[c].ts % RingLength \in 0..(RingLength - 1)
      BY <2>2, ModNat, ServiceConstants
    <2> QED BY <1>6, <2>1, <2>3
  <1> QED
    BY <1>3, <1>4, <1>6, <1>7 DEF ServiceInv

LEMMA AskStep ==
  ASSUME ServiceInv, NEW c \in Checkpoints, Ask(c)
  PROVE  ServiceInv'
  <1> DEFINE row == [pc |-> "chained", asked |-> clock, advance |-> 1, ts |-> 0, root |-> LocalRoot]
  <1>1. /\ handler[c].pc \in {"new", "failed"} /\ handler' = [handler EXCEPT ![c] = row]
        /\ chain' = Append(chain, c) /\ UNCHANGED <<simVars, forkVars>>
    BY DEF Ask
  <1>2. sim' = sim /\ tree' = tree /\ clock' = clock /\ nextTime' = nextTime /\ ring' = ring /\ clock \in Nat
    BY <1>1 DEF simVars, forkVars, ServiceInv, ForkOK
  <1>3. /\ row.pc = "chained" /\ row.asked = clock /\ row.advance = 1 /\ row.ts = 0
        /\ row = [pc |-> row.pc, asked |-> row.asked, advance |-> row.advance, ts |-> row.ts, root |-> row.root]
    OBVIOUS
  <1> HIDE DEF row
  <1>4. /\ DOMAIN handler' = Checkpoints /\ handler' = [d \in Checkpoints |-> handler'[d]]
        /\ handler'[c] = row /\ \A d \in Checkpoints \ {c} : handler'[d] = handler[d]
    <2>1. handler' = [d \in Checkpoints |-> IF d = c THEN row ELSE handler[d]]
      BY <1>1 DEF ServiceInv, HandlersOK
    <2> QED BY <2>1
  <1>5. ~Waiting(c) /\ (\A d \in Checkpoints : Waiting(d)' <=> Waiting(d) \/ d = c)
    BY <1>1, <1>3, <1>4 DEF Waiting, Running
  <1>6. HandlersOK'
    <2> SUFFICES ASSUME NEW d \in Checkpoints, Waiting(d)'
                 PROVE  /\ handler'[d] = [pc |-> handler'[d].pc, asked |-> handler'[d].asked,
                                          advance |-> handler'[d].advance, ts |-> handler'[d].ts,
                                          root |-> handler'[d].root]
                        /\ handler'[d].asked \in Nat /\ handler'[d].asked <= clock'
                        /\ handler'[d].advance \in Nat \ {0} /\ handler'[d].ts \in Nat
      BY <1>4 DEF HandlersOK
    <2>1. CASE d = c
      BY <1>2, <1>3, <1>4, <2>1
    <2>2. CASE d # c
      <3>1. Waiting(d) /\ handler'[d] = handler[d]
        BY <1>4, <1>5, <2>2
      <3> QED BY <1>2, <3>1 DEF ServiceInv, HandlersOK
    <2> QED BY <2>1, <2>2
  <1>7. ChainOK'
    <2>1. chain \in Seq(Checkpoints) /\ Len(chain) \in Nat
      BY DEF ServiceInv, ChainOK
    <2>2. /\ chain' \in Seq(Checkpoints) /\ Len(chain') = Len(chain) + 1 /\ chain'[Len(chain) + 1] = c
          /\ \A i \in 1..Len(chain) : chain'[i] = chain[i]
      BY <1>1, <2>1
    <2>3. \A i \in 1..Len(chain) : chain[i] # c
      BY <1>5 DEF ServiceInv, ChainOK
    <2>4. \A i, j \in 1..Len(chain') : chain'[i] = chain'[j] => i = j
      <3>1. ASSUME NEW i \in 1..Len(chain'), NEW j \in 1..Len(chain'), chain'[i] = chain'[j]
            PROVE  i = j
        <4>1. i \in 1..Len(chain) \/ i = Len(chain) + 1
          BY <2>1, <2>2
        <4>2. j \in 1..Len(chain) \/ j = Len(chain) + 1
          BY <2>1, <2>2
        <4>3. \A k, l \in 1..Len(chain) : chain[k] = chain[l] => k = l
          BY DEF ServiceInv, ChainOK
        <4> QED BY <2>2, <2>3, <3>1, <4>1, <4>2, <4>3
      <3> QED BY <3>1
    <2>5. \A d \in Checkpoints : Waiting(d)' <=> \E i \in 1..Len(chain') : chain'[i] = d
      <3>1. \A d \in Checkpoints : Waiting(d) <=> \E i \in 1..Len(chain) : chain[i] = d
        BY DEF ServiceInv, ChainOK
      <3>2. ASSUME NEW d
            PROVE  (\E i \in 1..Len(chain') : chain'[i] = d) <=> (\E i \in 1..Len(chain) : chain[i] = d) \/ d = c
        <4>1. \A i \in 1..Len(chain') : i \in 1..Len(chain) \/ i = Len(chain) + 1
          BY <2>1, <2>2
        <4>2. Len(chain) + 1 \in 1..Len(chain') /\ \A i \in 1..Len(chain) : i \in 1..Len(chain')
          BY <2>1, <2>2
        <4> QED BY <2>2, <4>1, <4>2
      <3> QED BY <1>5, <3>1, <3>2
    <2>6. \A d \in Checkpoints : handler'[d].pc \in Running => chain'[1] = d
      <3> SUFFICES ASSUME NEW d \in Checkpoints, handler'[d].pc \in Running PROVE chain'[1] = d
        OBVIOUS
      <3>1. d # c
        BY <1>3, <1>4 DEF Running
      <3>2. handler[d].pc \in Running
        BY <1>4, <3>1
      <3>3. chain[1] = d /\ Len(chain) > 0
        BY <3>2, Alone DEF ServiceInv
      <3> QED BY <2>1, <2>2, <3>3
    <2> QED BY <2>2, <2>4, <2>5, <2>6 DEF ChainOK
  <1>8. ASSUME NEW d \in Checkpoints
        PROVE  ViewOK(d)' /\ SealedOK(d)' /\ RingOK(d)'
    <2>1. CASE d = c
      <3>1. handler'[c].pc \notin Running
        BY <1>3, <1>4 DEF Running
      <3> QED BY <2>1, <3>1 DEF ViewOK, SealedOK, RingOK, At, Running
    <2>2. CASE d # c
      <3>1. handler'[d] = handler[d]
        BY <1>4, <2>2
      <3>2. ViewOK(d) /\ SealedOK(d) /\ RingOK(d)
        BY DEF ServiceInv
      <3> QED BY <1>2, <3>1, <3>2 DEF ViewOK, SealedOK, RingOK, At, Queued, Ripe
    <2> QED BY <2>1, <2>2
  <1> QED
    BY <1>2, <1>6, <1>7, <1>8 DEF ServiceInv, SimOK, ForkOK

-----------------------------------------------------------------------------
(* Steps of the handlers of checkpoints                                    *)

\* The step ends the request.
LEMMA FailStep ==
  ASSUME ServiceInv, NEW c \in Checkpoints,
         handler[c].pc \in Running \/ (At(c, {"chained"}) /\ Serial(c)),
         NEW pc \in {"done", "failed"}, handler' = [handler EXCEPT ![c] = [pc |-> pc]],
         chain' = Tail(chain), SimOK', ForkOK', clock' = clock
  PROVE  ServiceInv'
  BY Ends DEF ServiceInv

\* The step goes on.
LEMMA RunStep ==
  ASSUME ServiceInv, NEW c \in Checkpoints,
         handler[c].pc \in Running \/ (At(c, {"chained"}) /\ Serial(c)),
         NEW pc \in Running, NEW advance \in Nat \ {0}, NEW ts \in Nat, NEW root,
         handler' = [handler EXCEPT ![c] = [pc |-> pc, asked |-> handler[c].asked, advance |-> advance,
                                            ts |-> ts, root |-> root]],
         chain' = chain, SimOK', ForkOK', clock' >= clock,
         ViewOK(c)', SealedOK(c)', RingOK(c)'
  PROVE  ServiceInv'
  <1>1. clock' \in Nat
    BY DEF ForkOK
  <1>2. /\ HandlersOK' /\ ChainOK'
        /\ \A d \in Checkpoints \ {c} : ViewOK(d)' /\ SealedOK(d)' /\ RingOK(d)'
    BY <1>1, GoesOn DEF ServiceInv
  <1> QED
    BY <1>2 DEF ServiceInv

\* `Resume` changes nothing else.
LEMMA Resumed ==
  ASSUME HandlersOK, NEW c \in Checkpoints, handler[c].pc \in Running \cup {"chained"}, NEW pc, Resume(c, pc)
  PROVE  /\ handler' = [handler EXCEPT ![c] = [pc |-> pc, asked |-> handler[c].asked, advance |-> handler[c].advance,
                                               ts |-> handler[c].ts, root |-> handler[c].root]]
         /\ handler'[c].pc = pc /\ handler'[c].asked = handler[c].asked /\ handler'[c].ts = handler[c].ts
         /\ handler'[c].root = handler[c].root /\ handler'[c].advance = handler[c].advance
  <1>1. /\ handler[c] = [pc |-> handler[c].pc, asked |-> handler[c].asked, advance |-> handler[c].advance,
                         ts |-> handler[c].ts, root |-> handler[c].root]
        /\ DOMAIN handler = Checkpoints
    BY WaitingTyped DEF HandlersOK
  <1> DEFINE row == [pc |-> pc, asked |-> handler[c].asked, advance |-> handler[c].advance,
                     ts |-> handler[c].ts, root |-> handler[c].root]
  <1>2. [handler[c] EXCEPT !.pc = pc] = row
    BY <1>1
  <1>3. handler' = [handler EXCEPT ![c] = row]
    BY <1>2 DEF Resume
  <1>4. row.pc = pc /\ row.asked = handler[c].asked /\ row.ts = handler[c].ts /\ row.root = handler[c].root
        /\ row.advance = handler[c].advance
    OBVIOUS
  <1>5. handler'[c] = row
    <2> HIDE DEF row
    <2> QED BY <1>1, <1>3
  <1> QED
    BY <1>3, <1>4, <1>5

LEMMA BeginStep ==
  ASSUME ServiceInv, NEW c \in Checkpoints, Begin(c)
  PROVE  ServiceInv'
  <1>1. At(c, {"chained"}) /\ Serial(c) /\ handler[c].pc \in Running \cup {"chained"}
    BY DEF Begin, At
  <1>2. tree' = tree /\ clock' = clock /\ nextTime' = nextTime /\ ring' = ring /\ ForkOK'
    BY DEF Begin, forkVars, ServiceInv, ForkOK
  <1>3. /\ handler[c].advance \in Nat \ {0} /\ handler[c].ts \in Nat /\ clock \in Nat
    BY <1>1, WaitingTyped DEF ServiceInv, ForkOK
  <1>4. HandlersOK
    BY DEF ServiceInv
  <1>5. CASE c.kind = "accepted"
    <2>1. /\ Resume(c, "latest") /\ chain' = chain
          /\ IF IsReplayed(c) THEN sim' = [sim EXCEPT !.val[c.source].withdrawable = ReplayWithdrawable]
             ELSE QueueConsolidation(c)
      BY <1>5 DEF Begin
    <2>2. SimOK' /\ (~IsReplayed(c) => sim'.pend # <<>> /\ sim'.pend[Len(sim'.pend)] = PairOf(c))
      <3>1. CASE IsReplayed(c)
        <4> DEFINE val == [sim.val EXCEPT ![c.source].withdrawable = ReplayWithdrawable]
        <4>1. c.source \in Validators /\ ReplayWithdrawable \in Nat
          BY ServiceConstants
        <4>2. sim.val \in [Validators -> ValRow] /\ sim \in SimStates
          BY DEF ServiceInv, SimOK, SimStates
        <4>3. sim' = [sim EXCEPT !.val = val]
          BY <2>1, <3>1, <4>2 DEF SimStates
        <4>4. val \in [Validators -> ValRow]
          BY <4>1, <4>2 DEF ValRow
        <4> HIDE DEF val
        <4> QED BY <3>1, <4>2, <4>3, <4>4 DEF SimOK, SimStates
      <3>2. CASE ~IsReplayed(c)
        BY <2>1, <3>2, QueueTyped DEF ServiceInv
      <3> QED BY <3>1, <3>2
    <2>3. handler' = [handler EXCEPT ![c] = [pc |-> "latest", asked |-> handler[c].asked,
                       advance |-> handler[c].advance, ts |-> handler[c].ts, root |-> handler[c].root]]
          /\ handler'[c].pc = "latest"
      BY <1>1, <1>4, <2>1, Resumed
    <2>4. ViewOK(c)' /\ SealedOK(c)' /\ RingOK(c)'
      BY <1>5, <2>2, <2>3 DEF ViewOK, SealedOK, RingOK, At, Queued, IsReplayed
    <2>5. "latest" \in Running /\ clock' >= clock
      BY <1>2, <1>3 DEF Running
    <2> QED
      BY <1>1, <1>2, <1>3, <2>1, <2>2, <2>3, <2>4, <2>5, RunStep
  <1>6. CASE c.kind # "accepted"
    <2>1. c.kind = "delivered"
      BY <1>6, ServiceConstants
    <2>2. sim' = sim /\ SimOK'
      BY <1>6 DEF Begin, ServiceInv, SimOK
    <2>3. CASE Fail(c)
      BY <1>1, <1>2, <2>2, <2>3, FailStep DEF Fail, NextInChain
    <2>4. CASE Resume(c, "forward") /\ chain' = chain
      <3>1. handler' = [handler EXCEPT ![c] = [pc |-> "forward", asked |-> handler[c].asked,
                         advance |-> handler[c].advance, ts |-> handler[c].ts, root |-> handler[c].root]]
            /\ handler'[c].pc = "forward"
        BY <1>1, <1>4, <2>4, Resumed
      <3>2. ViewOK(c)' /\ SealedOK(c)' /\ RingOK(c)'
        BY <2>1, <3>1 DEF ViewOK, SealedOK, RingOK, At
      <3>3. "forward" \in Running /\ clock' >= clock
        BY <1>2, <1>3 DEF Running
      <3> QED
        BY <1>1, <1>2, <1>3, <2>2, <2>4, <3>1, <3>2, <3>3, RunStep
    <2> QED
      BY <1>6, <2>3, <2>4 DEF Begin
  <1> QED
    BY <1>5, <1>6

HandlerRow(pc, asked, advance, ts, root) ==
  [pc |-> pc, asked |-> asked, advance |-> advance, ts |-> ts, root |-> root]

IsRow(row) == row = HandlerRow(row.pc, row.asked, row.advance, row.ts, row.root)

LEMMA FieldChanged ==
  ASSUME NEW row, NEW pc, NEW asked, NEW advance, NEW ts, NEW root, NEW value,
         row = HandlerRow(pc, asked, advance, ts, root)
  PROVE  /\ [row EXCEPT !.pc = value] = HandlerRow(value, asked, advance, ts, root)
         /\ [row EXCEPT !.advance = value] = HandlerRow(pc, asked, value, ts, root)
         /\ [row EXCEPT !.ts = value] = HandlerRow(pc, asked, advance, value, root)
         /\ [row EXCEPT !.root = value] = HandlerRow(pc, asked, advance, ts, value)
  BY DEF HandlerRow

LEMMA AdvanceSet ==
  ASSUME NEW row, IsRow(row), NEW next, NEW value
  PROVE  [row EXCEPT !.pc = next, !.advance = value] = HandlerRow(next, row.asked, value, row.ts, row.root)
  <1> DEFINE mid == [row EXCEPT !.pc = next]
             a == row.asked
             d == row.advance
             t == row.ts
             r == row.root
  <1>1. mid = HandlerRow(next, a, d, t, r)
    BY FieldChanged DEF IsRow
  <1>2. [row EXCEPT !.pc = next, !.advance = value] = [mid EXCEPT !.advance = value]
    OBVIOUS
  <1> HIDE DEF mid, a, d, t, r
  <1>3. [mid EXCEPT !.advance = value] = HandlerRow(next, a, value, t, r)
    BY <1>1 DEF HandlerRow
  <1> QED
    BY <1>2, <1>3 DEF a, d, t, r

LEMMA TimeSet ==
  ASSUME NEW row, IsRow(row), NEW next, NEW value
  PROVE  [row EXCEPT !.pc = next, !.ts = value] = HandlerRow(next, row.asked, row.advance, value, row.root)
  <1> DEFINE mid == [row EXCEPT !.pc = next]
             a == row.asked
             d == row.advance
             t == row.ts
             r == row.root
  <1>1. mid = HandlerRow(next, a, d, t, r)
    BY FieldChanged DEF IsRow
  <1>2. [row EXCEPT !.pc = next, !.ts = value] = [mid EXCEPT !.ts = value]
    OBVIOUS
  <1> HIDE DEF mid, a, d, t, r
  <1>3. [mid EXCEPT !.ts = value] = HandlerRow(next, a, d, value, r)
    BY <1>1 DEF HandlerRow
  <1> QED
    BY <1>2, <1>3 DEF a, d, t, r

LEMMA RootSet ==
  ASSUME NEW row, IsRow(row), NEW next, NEW value
  PROVE  [row EXCEPT !.pc = next, !.root = value] = HandlerRow(next, row.asked, row.advance, row.ts, value)
  <1> DEFINE mid == [row EXCEPT !.pc = next]
             a == row.asked
             d == row.advance
             t == row.ts
             r == row.root
  <1>1. mid = HandlerRow(next, a, d, t, r)
    BY FieldChanged DEF IsRow
  <1>2. [row EXCEPT !.pc = next, !.root = value] = [mid EXCEPT !.root = value]
    OBVIOUS
  <1> HIDE DEF mid, a, d, t, r
  <1>3. [mid EXCEPT !.root = value] = HandlerRow(next, a, d, t, value)
    BY <1>1 DEF HandlerRow
  <1> QED
    BY <1>2, <1>3 DEF a, d, t, r

LEMMA ForwardStep ==
  ASSUME ServiceInv, NEW c \in Checkpoints, FastForward(c)
  PROVE  ServiceInv'
  <1> DEFINE a == IF Ripe(c) > clock THEN Ripe(c) - clock + 1 ELSE 1
             row == [pc |-> "latest", asked |-> handler[c].asked, advance |-> a, ts |-> handler[c].ts,
                     root |-> handler[c].root]
  <1>1. handler[c].pc = "forward" /\ handler[c].pc \in Running \cup {"chained"} /\ handler[c].pc \in Running
    BY DEF FastForward, Running
  <1>2. /\ handler[c] = [pc |-> handler[c].pc, asked |-> handler[c].asked, advance |-> handler[c].advance,
                         ts |-> handler[c].ts, root |-> handler[c].root]
        /\ handler[c].ts \in Nat /\ DOMAIN handler = Checkpoints
    BY <1>1, WaitingTyped DEF ServiceInv, HandlersOK
  <1>3. chain' = chain /\ tree' = tree /\ clock' = clock /\ nextTime' = nextTime /\ ring' = ring /\ ForkOK'
    BY DEF FastForward, forkVars, ServiceInv, ForkOK
  <1>4. SimOK' /\ sim'.pend = sim.pend /\ \A v \in Validators : sim'.val[v].withdrawable = sim.val[v].withdrawable
    BY ProcessTyped DEF ServiceInv, FastForward
  <1>5. clock \in Nat /\ Ripe(c) \in Nat /\ c.source \in Validators
    BY RipeInt DEF ServiceInv, ForkOK
  <1>6. a \in Nat \ {0} /\ clock + a > Ripe(c)
    BY <1>5
  <1>7. handler' = [handler EXCEPT ![c] = row]
    <2>1. handler' = [handler EXCEPT ![c].pc = "latest", ![c].advance = a]
      BY DEF FastForward, Ripe
    <2> HIDE DEF a
    <2> DEFINE h == handler[c]
    <2>2. IsRow(h)
      BY <1>2 DEF HandlerRow, IsRow
    <2>3. row = HandlerRow("latest", h.asked, a, h.ts, h.root)
      BY DEF HandlerRow
    <2>4. [handler EXCEPT ![c].pc = "latest", ![c].advance = a]
            = [handler EXCEPT ![c] = [h EXCEPT !.pc = "latest", !.advance = a]]
      BY <1>2
    <2> HIDE DEF h, row
    <2>5. [h EXCEPT !.pc = "latest", !.advance = a] = row
      BY <2>2, <2>3, AdvanceSet
    <2> QED BY <2>1, <2>4, <2>5
  <1>8. handler'[c] = row /\ row.pc = "latest" /\ row.advance = a
    BY <1>2, <1>7
  <1> HIDE DEF a
  <1>9. c.kind = "delivered"
    BY <1>1 DEF ServiceInv, ViewOK, At
  <1>10. Ripe(c)' = Ripe(c)
    BY <1>4, <1>5 DEF Ripe
  <1>11. ViewOK(c)' /\ SealedOK(c)' /\ RingOK(c)'
    <2> HIDE DEF row
    <2> QED BY <1>3, <1>6, <1>8, <1>9, <1>10 DEF ViewOK, SealedOK, RingOK, At, Queued
  <1>12. "latest" \in Running /\ clock' >= clock
    BY <1>3, <1>5 DEF Running
  <1> QED
    BY <1>1, <1>2, <1>3, <1>4, <1>6, <1>7, <1>11, <1>12, RunStep

LEMMA LatestStep ==
  ASSUME ServiceInv, NEW c \in Checkpoints, ReadLatest(c)
  PROVE  ServiceInv'
  <1> DEFINE t == clock + handler[c].advance
             row == [pc |-> "setTime", asked |-> handler[c].asked, advance |-> handler[c].advance, ts |-> t,
                     root |-> handler[c].root]
  <1>1. handler[c].pc = "latest" /\ handler[c].pc \in Running \cup {"chained"} /\ handler[c].pc \in Running
    BY DEF ReadLatest, Running
  <1>2. /\ handler[c] = [pc |-> handler[c].pc, asked |-> handler[c].asked, advance |-> handler[c].advance,
                         ts |-> handler[c].ts, root |-> handler[c].root]
        /\ handler[c].advance \in Nat \ {0} /\ handler[c].asked \in Nat /\ handler[c].asked <= clock
        /\ DOMAIN handler = Checkpoints
    BY <1>1, WaitingTyped DEF ServiceInv, HandlersOK
  <1>3. /\ chain' = chain /\ tree' = tree /\ clock' = clock /\ nextTime' = nextTime /\ ring' = ring /\ ForkOK'
        /\ sim' = sim /\ SimOK'
    BY DEF ReadLatest, simVars, forkVars, ServiceInv, ForkOK, SimOK
  <1>4. clock \in Nat /\ t \in Nat /\ t > handler[c].asked
    BY <1>2 DEF ServiceInv, ForkOK
  <1>5. handler' = [handler EXCEPT ![c] = row]
    <2>1. handler' = [handler EXCEPT ![c].pc = "setTime", ![c].ts = t]
      BY DEF ReadLatest
    <2> HIDE DEF t
    <2> DEFINE h == handler[c]
    <2>2. IsRow(h)
      BY <1>2 DEF HandlerRow, IsRow
    <2>3. row = HandlerRow("setTime", h.asked, h.advance, t, h.root)
      BY DEF HandlerRow
    <2>4. [handler EXCEPT ![c].pc = "setTime", ![c].ts = t]
            = [handler EXCEPT ![c] = [h EXCEPT !.pc = "setTime", !.ts = t]]
      BY <1>2
    <2> HIDE DEF h, row
    <2>5. [h EXCEPT !.pc = "setTime", !.ts = t] = row
      BY <2>2, <2>3, TimeSet
    <2> QED BY <2>1, <2>4, <2>5
  <1>6. handler'[c] = row /\ row.pc = "setTime" /\ row.ts = t /\ row.asked = handler[c].asked
    BY <1>2, <1>5
  <1>7. Queued(c) /\ (c.kind = "delivered" => t > Ripe(c))
    BY <1>1 DEF ServiceInv, ViewOK, At, Running
  <1> HIDE DEF t
  <1>8. Queued(c)' /\ Ripe(c)' = Ripe(c)
    BY <1>3, <1>7 DEF Queued, Ripe
  <1>9. ViewOK(c)' /\ SealedOK(c)' /\ RingOK(c)'
    <2> HIDE DEF row
    <2> QED BY <1>4, <1>6, <1>7, <1>8 DEF ViewOK, SealedOK, RingOK, At
  <1>10. "setTime" \in Running /\ clock' >= clock
    BY <1>3, <1>4 DEF Running
  <1> QED
    BY <1>1, <1>2, <1>3, <1>4, <1>5, <1>9, <1>10, RunStep

LEMMA SetTimeStep ==
  ASSUME ServiceInv, NEW c \in Checkpoints, SetTime(c)
  PROVE  ServiceInv'
  <1>1. handler[c].pc = "setTime" /\ handler[c].pc \in Running \cup {"chained"} /\ handler[c].pc \in Running
    BY DEF SetTime, Running
  <1>2. /\ handler[c].advance \in Nat \ {0} /\ handler[c].ts \in Nat /\ HandlersOK
    BY <1>1, WaitingTyped DEF ServiceInv
  <1>3. tree' = tree /\ clock' = clock /\ ring' = ring /\ sim' = sim /\ SimOK' /\ clock \in Nat
    BY DEF SetTime, simVars, ServiceInv, ForkOK, SimOK
  <1>4. CASE handler[c].ts > clock
    <2>1. nextTime' = handler[c].ts /\ Resume(c, "mine") /\ chain' = chain
      BY <1>4 DEF SetTime
    <2>2. ForkOK'
      BY <1>2, <1>3, <1>4, <2>1 DEF ServiceInv, ForkOK
    <2>3. handler' = [handler EXCEPT ![c] = [pc |-> "mine", asked |-> handler[c].asked,
                       advance |-> handler[c].advance, ts |-> handler[c].ts, root |-> handler[c].root]]
          /\ handler'[c].pc = "mine" /\ handler'[c].ts = handler[c].ts /\ handler'[c].asked = handler[c].asked
      BY <1>1, <1>2, <2>1, Resumed
    <2>4. Queued(c)' /\ Ripe(c)' = Ripe(c) /\ handler[c].ts > handler[c].asked
          /\ (c.kind = "delivered" => handler[c].ts > Ripe(c))
      BY <1>1, <1>3 DEF ServiceInv, ViewOK, At, Running, Queued, Ripe
    <2>5. ViewOK(c)' /\ SealedOK(c)' /\ RingOK(c)'
      BY <2>1, <2>3, <2>4 DEF ViewOK, SealedOK, RingOK, At
    <2>6. "mine" \in Running /\ clock' >= clock
      BY <1>3 DEF Running
    <2> QED
      BY <1>1, <1>2, <1>3, <2>1, <2>2, <2>3, <2>5, <2>6, RunStep
  <1>5. CASE ~(handler[c].ts > clock)
    <2>1. Fail(c) /\ nextTime' = nextTime
      BY <1>5 DEF SetTime
    <2>2. ForkOK'
      BY <1>3, <2>1 DEF ServiceInv, ForkOK
    <2> QED
      BY <1>1, <1>3, <2>1, <2>2, FailStep DEF Fail, NextInChain
  <1> QED
    BY <1>4, <1>5

LEMMA MineStep ==
  ASSUME ServiceInv, NEW c \in Checkpoints, Mine(c)
  PROVE  ServiceInv'
  <1> DEFINE free == {clock + 1}
             k == IF IsReplayed(c) THEN ReplayState ELSE tree'
             h == handler[c]
             row == HandlerRow("injectTime", h.asked, h.advance, h.ts, k)
  <1>1. handler[c].pc = "mine" /\ handler[c].pc \in Running \cup {"chained"} /\ handler[c].pc \in Running
    BY DEF Mine, Running
  <1>2. /\ IsRow(h) /\ h.ts \in Nat /\ h.advance \in Nat \ {0} /\ h.asked \in Nat /\ DOMAIN handler = Checkpoints
    BY <1>1, WaitingTyped DEF ServiceInv, HandlersOK, IsRow, HandlerRow
  <1>3. PICK ts \in BlockTimes(free) : MineBlock(ts)
    BY DEF Mine
  <1>4. /\ ForkOK' /\ clock' = ts /\ ts > clock /\ (nextTime # 0 => ts = nextTime) /\ clock \in Nat /\ ts \in Nat
    <2>1. /\ ForkOK' /\ clock' = ts /\ ts > clock /\ (nextTime # 0 => ts = nextTime)
      BY <1>3, BlockMined DEF ServiceInv
    <2> QED BY <2>1 DEF ServiceInv, ForkOK
  <1>5. /\ h.ts > h.asked /\ Queued(c) /\ (c.kind = "delivered" => h.ts > Ripe(c))
        /\ (nextTime = h.ts \/ clock >= h.ts)
    BY <1>1 DEF ServiceInv, ViewOK, At, Running
  <1>6. clock' >= h.ts
    BY <1>2, <1>4, <1>5
  <1>7. SimOK' /\ sim'.val = sim.val /\ sim'.pend = sim.pend
        /\ (~IsReplayed(c) => tree' = sim' /\ sim'.slot >= h.ts)
    <2>1. CASE IsReplayed(c)
      BY <2>1 DEF Mine, ServiceInv, SimOK
    <2>2. CASE ~IsReplayed(c)
      <3>1. Seal(h.ts)
        BY <2>2 DEF Mine
      <3> QED BY <1>2, <3>1, SealTyped DEF ServiceInv
    <2> QED BY <2>1, <2>2
  <1>8. handler' = [handler EXCEPT ![c] = row]
    <2>1. handler' = [handler EXCEPT ![c].pc = "injectTime", ![c].root = k]
      BY DEF Mine
    <2> HIDE DEF k
    <2>2. [handler EXCEPT ![c].pc = "injectTime", ![c].root = k]
            = [handler EXCEPT ![c] = [h EXCEPT !.pc = "injectTime", !.root = k]]
      BY <1>2
    <2>3. IsRow(h) /\ row = HandlerRow("injectTime", h.asked, h.advance, h.ts, k)
      BY <1>2
    <2> HIDE DEF h, row
    <2>4. [h EXCEPT !.pc = "injectTime", !.root = k] = row
      BY <2>3, RootSet
    <2> QED BY <2>1, <2>2, <2>4
  <1>9. handler'[c] = row /\ row.pc = "injectTime" /\ row.ts = h.ts /\ row.asked = h.asked /\ row.root = k
    BY <1>2, <1>8 DEF HandlerRow
  <1>10. Queued(c)' /\ Ripe(c)' = Ripe(c)
    BY <1>5, <1>7 DEF Queued, Ripe
  <1>11. ViewOK(c)' /\ RingOK(c)'
    <2> HIDE DEF row, h
    <2> QED BY <1>5, <1>9, <1>10 DEF ViewOK, RingOK, At
  <1>12. SealedOK(c)'
    <2>1. (IsReplayed(c) => row.root = ReplayState) /\ (~IsReplayed(c) => row.root = tree')
      BY <1>9
    <2> HIDE DEF row, h, k
    <2> QED BY <1>6, <1>7, <1>9, <2>1 DEF SealedOK, At
  <1>13. "injectTime" \in Running /\ clock' >= clock /\ chain' = chain
    BY <1>4 DEF Running, Mine
  <1>14. handler' = [handler EXCEPT ![c] = [pc |-> "injectTime", asked |-> handler[c].asked,
                       advance |-> h.advance, ts |-> h.ts, root |-> k]]
    BY <1>8 DEF HandlerRow
  <1> HIDE DEF k
  <1> QED
    BY <1>1, <1>2, <1>4, <1>7, <1>11, <1>12, <1>13, <1>14, RunStep

LEMMA InjectTimeStep ==
  ASSUME ServiceInv, NEW c \in Checkpoints, InjectTime(c)
  PROVE  ServiceInv'
  <1> DEFINE h == handler[c]
  <1>1. h.pc = "injectTime" /\ h.pc \in Running \cup {"chained"} /\ h.pc \in Running
    BY DEF InjectTime, Running
  <1>2. h.ts \in Nat /\ h.advance \in Nat \ {0} /\ HandlersOK
    BY <1>1, WaitingTyped DEF ServiceInv
  <1>3. sim' = sim /\ tree' = tree /\ clock' = clock /\ nextTime' = nextTime /\ chain' = chain /\ SimOK'
    BY DEF InjectTime, simVars, ServiceInv, SimOK
  <1>4. ForkOK' /\ ring'[h.ts % RingLength].ts = h.ts
    BY <1>2, <1>3, TimeWritten DEF InjectTime, ServiceInv
  <1>5. handler' = [handler EXCEPT ![c] = [pc |-> "injectRoot", asked |-> handler[c].asked,
                     advance |-> handler[c].advance, ts |-> handler[c].ts, root |-> handler[c].root]]
        /\ handler'[c].pc = "injectRoot" /\ handler'[c].ts = h.ts /\ handler'[c].asked = h.asked
        /\ handler'[c].root = h.root
    BY <1>1, <1>2, Resumed DEF InjectTime
  <1>6. ViewOK(c) /\ SealedOK(c)
    BY DEF ServiceInv
  <1>7. /\ h.ts > h.asked /\ Queued(c) /\ (c.kind = "delivered" => h.ts > Ripe(c))
        /\ clock >= h.ts /\ (IsReplayed(c) => h.root = ReplayState)
        /\ (~IsReplayed(c) => h.root = tree /\ tree = sim /\ sim.slot >= h.ts)
    BY <1>1, <1>6 DEF ViewOK, SealedOK, At, Running
  <1>8. Queued(c)' /\ Ripe(c)' = Ripe(c)
    BY <1>3, <1>7 DEF Queued, Ripe
  <1> HIDE DEF h
  <1>9. ViewOK(c)' /\ SealedOK(c)' /\ RingOK(c)'
    BY <1>3, <1>4, <1>5, <1>7, <1>8 DEF ViewOK, SealedOK, RingOK, At
  <1>10. "injectRoot" \in Running /\ clock' >= clock
    BY <1>3 DEF Running, ServiceInv, ForkOK
  <1> QED
    BY <1>1, <1>2, <1>3, <1>4, <1>5, <1>9, <1>10, RunStep DEF h

LEMMA InjectRootStep ==
  ASSUME ServiceInv, NEW c \in Checkpoints, InjectRoot(c)
  PROVE  ServiceInv'
  <1>1. handler[c].pc \in Running \cup {"chained"} /\ handler[c].pc \in Running
    BY DEF InjectRoot, Running
  <1>2. handler[c].ts \in Nat
    BY <1>1, WaitingTyped DEF ServiceInv
  <1>3. clock' = clock /\ nextTime' = nextTime /\ SimOK' /\ WriteRoot(handler[c].ts, handler[c].root)
    BY DEF InjectRoot, ServiceInv, SimOK
  <1>4. ForkOK'
    BY <1>2, <1>3, RootWritten DEF ServiceInv
  <1>5. handler' = [handler EXCEPT ![c] = [pc |-> "done"]] /\ chain' = Tail(chain)
    BY DEF InjectRoot, Answer, NextInChain
  <1> QED
    BY <1>1, <1>3, <1>4, <1>5, FailStep

LEMMA CallFailsStep ==
  ASSUME ServiceInv, NEW c \in Checkpoints, CallFails(c)
  PROVE  ServiceInv'
  <1>1. handler[c].pc \in Running
    BY DEF CallFails, Running
  <1>2. SimOK' /\ ForkOK' /\ clock' = clock
    BY DEF CallFails, simVars, forkVars, ServiceInv, SimOK, ForkOK
  <1>3. handler' = [handler EXCEPT ![c] = [pc |-> "failed"]] /\ chain' = Tail(chain)
    BY DEF CallFails, Fail, NextInChain
  <1> QED
    BY <1>1, <1>2, <1>3, FailStep

LEMMA ServiceStarts ==
  ASSUME ServiceInit
  PROVE  ServiceInv
  <1>1. BaseSlot \in Nat /\ FarFuture \in Nat /\ InitialBalance \in [Validators -> Nat]
        /\ RingLength \in Nat \ {0}
    BY ServiceConstants
  <1>2. SimOK
    <2>1. \A v \in Validators : [withdrawable |-> FarFuture, balance |-> InitialBalance[v],
                                 eff |-> Rounded(v, InitialBalance[v])] \in ValRow
      BY <1>1, RoundedNat DEF ValRow
    <2> QED BY <1>1, <2>1 DEF ServiceInit, BaseState, SimOK, SimStates
  <1>3. ForkOK
    <2> DEFINE i0 == BaseTimestamp % RingLength
               ts(i) == IF i = i0 THEN BaseTimestamp ELSE 0
               root(i) == IF i = i0 THEN BaseState ELSE LocalRoot
    <2>1. BaseTimestamp \in Nat /\ nextTime = 0 /\ clock = BaseTimestamp
      BY <1>1 DEF ServiceInit, BaseTimestamp
    <2>2. \A i \in 0..(RingLength - 1) : ring[i] = [ts |-> ts(i), root |-> root(i)]
      BY DEF ServiceInit
    <2>3. DOMAIN ring = 0..(RingLength - 1) /\ ring = [i \in DOMAIN ring |-> ring[i]]
      BY DEF ServiceInit
    <2>4. \A i \in DOMAIN ring : ring[i] = [ts |-> ring[i].ts, root |-> ring[i].root] /\ ring[i].ts \in Nat
      BY <2>1, <2>2, <2>3
    <2> QED BY <2>1, <2>3, <2>4 DEF ForkOK
  <1>4. /\ DOMAIN handler = Checkpoints /\ handler = [c \in Checkpoints |-> handler[c]]
        /\ \A c \in Checkpoints : handler[c].pc = "new"
    BY DEF ServiceInit
  <1>5. \A c \in Checkpoints : ~Waiting(c) /\ handler[c].pc \notin Running
    BY <1>4 DEF Waiting, Running
  <1>6. HandlersOK
    BY <1>4, <1>5 DEF HandlersOK
  <1>7. ChainOK
    <2>1. chain = <<>> /\ Len(chain) = 0 /\ chain \in Seq(Checkpoints)
      BY DEF ServiceInit
    <2> QED BY <1>5, <2>1 DEF ChainOK
  <1>8. \A c \in Checkpoints : ViewOK(c) /\ SealedOK(c) /\ RingOK(c)
    BY <1>5, IdleOK DEF Idle
  <1> QED
    BY <1>2, <1>3, <1>6, <1>7, <1>8 DEF ServiceInv

LEMMA ServiceStep ==
  ASSUME ServiceInv, [Next]_vars
  PROVE  ServiceInv'
  <1>1. CASE UserBlock
    BY <1>1, UserBlockStep
  <1>2. CASE FillNext
    BY <1>2, FillStep
  <1>3. ASSUME NEW c \in Checkpoints, Ask(c) \/ Step(c) \/ CallFails(c)
        PROVE  ServiceInv'
    BY <1>3, AskStep, BeginStep, ForwardStep, LatestStep, SetTimeStep, MineStep, InjectTimeStep,
       InjectRootStep, CallFailsStep DEF Step
  <1>4. CASE UNCHANGED vars
    <2>1. /\ handler' = handler /\ chain' = chain /\ sim' = sim /\ tree' = tree /\ clock' = clock
          /\ nextTime' = nextTime /\ ring' = ring
      BY <1>4 DEF vars, simVars, forkVars
    <2> QED
      BY <2>1 DEF ServiceInv, SimOK, ForkOK, HandlersOK, ChainOK, ViewOK, SealedOK, RingOK, At, Waiting, Queued, Ripe
  <1> QED
    BY <1>1, <1>2, <1>3, <1>4 DEF Next

(***************************************************************************)
(* Only the first handler of the chain runs, what it did to the state is   *)
(* there until it answers, and its root is the one sealed, in every        *)
(* reachable state.                                                        *)
(***************************************************************************)
THEOREM HandlersAlone == Spec => []ServiceInv
  BY ServiceStarts, ServiceStep, PTL DEF Spec

\* The answer that is sent, with what the contracts check of it.
LEMMA AnswerSent ==
  ASSUME ServiceInv, NEW c \in Checkpoints, InjectRoot(c)
  PROVE  \E a : /\ answers' = answers \cup {a} /\ a.request = c
                /\ Verifies(a.source, a.root) /\ a.extra.tree = a.root
                /\ c.kind = "accepted" => a.extra.entry = PairOf(c)
                /\ a.ts % RingLength # BaseTimestamp % RingLength =>
                     a.inRing.root = a.root /\ (a.inRing.ts = a.ts \/ a.inRing.ts >= a.ts + RingLength)
                /\ a.ts > a.asked
                /\ c.kind = "delivered" => /\ a.source.fields.withdrawable <= EpochOf(a.root.slot)
                                           /\ a.extra.balance = sim.val[c.source].balance
  <1> DEFINE h == handler[c]
             extra == IF c.kind = "accepted" THEN EntryProof(c) ELSE BalanceProof(c)
             a == [request |-> c, asked |-> h.asked, ts |-> h.ts, root |-> h.root, source |-> SourceProof(c),
                   extra |-> extra, inRing |-> ring'[h.ts % RingLength]]
  <1>1. answers' = answers \cup {a}
    BY DEF InjectRoot, Answer
  <1>2. /\ a.request = c /\ a.asked = h.asked /\ a.ts = h.ts /\ a.root = h.root /\ a.source = SourceProof(c)
        /\ a.extra = extra /\ a.inRing = ring'[h.ts % RingLength]
    OBVIOUS
  <1> HIDE DEF a, extra
  <1>3. h.pc = "injectRoot" /\ ViewOK(c) /\ SealedOK(c) /\ RingOK(c)
    BY DEF ServiceInv, InjectRoot
  <1>4. /\ h.ts > h.asked /\ Queued(c) /\ (c.kind = "delivered" => h.ts > Ripe(c))
        /\ (IsReplayed(c) => h.root = ReplayState)
        /\ (~IsReplayed(c) => h.root = tree /\ tree = sim /\ sim.slot >= h.ts)
    BY <1>3 DEF ViewOK, SealedOK, At, Running
  <1>5. Verifies(SourceProof(c), h.root)
    BY <1>4 DEF SourceProof, ValidatorProof, Verifies
  <1>6. extra.tree = h.root /\ (c.kind = "accepted" => extra.entry = PairOf(c))
    BY <1>4 DEF extra, EntryProof, BalanceProof, Queued, IsReplayed
  <1>7. h.ts \in Nat
    BY <1>3, WaitingTyped DEF ServiceInv, Running
  <1>8. ASSUME h.ts % RingLength # BaseTimestamp % RingLength
        PROVE  /\ ring'[h.ts % RingLength].root = h.root
               /\ ring'[h.ts % RingLength].ts = h.ts \/ ring'[h.ts % RingLength].ts >= h.ts + RingLength
    <2>1. /\ ring'[h.ts % RingLength].root = h.root
          /\ ring'[h.ts % RingLength].ts = ring[h.ts % RingLength].ts
      BY <1>7, RootWritten DEF ServiceInv, InjectRoot
    <2> QED BY <1>3, <1>8, <2>1 DEF RingOK, At
  <1>9. ASSUME c.kind = "delivered"
        PROVE  /\ SourceProof(c).fields.withdrawable <= EpochOf(h.root.slot)
               /\ extra.balance = sim.val[c.source].balance
    <2>1. ~IsReplayed(c)
      BY <1>9 DEF IsReplayed
    <2>2. SourceProof(c).fields = sim.val[c.source] /\ extra.balance = sim.val[c.source].balance
      BY <1>4, <1>9, <2>1 DEF SourceProof, ValidatorProof, extra, BalanceProof
    <2>3. sim.slot \in Nat /\ sim.slot > Ripe(c)
      BY <1>4, <1>7, <1>9, <2>1, RipeInt DEF ServiceInv, SimOK, SimStates
    <2>4. sim.val[c.source].withdrawable <= EpochOf(sim.slot)
      BY <2>3, RipeInt, EpochReached DEF ServiceInv, Ripe
    <2> QED BY <1>4, <2>1, <2>2, <2>4
  <1> QED
    BY <1>1, <1>2, <1>4, <1>5, <1>6, <1>8, <1>9

LEMMA AnswersKept ==
  ASSUME [Next]_vars
  PROVE  answers' = answers \/ \E c \in Checkpoints : InjectRoot(c)
  BY DEF Next, vars, UserBlock, FillNext, FillProofs, RestoreTime, RestoreRoot, Ask, Step, CallFails, Fail,
         Begin, FastForward, ReadLatest, SetTime, Mine, InjectTime

(***************************************************************************)
(* Every answer is one a contract on the fork accepts, for any requests,   *)
(* failures, fills and blocks between the awaits of a handler.             *)
(***************************************************************************)
THEOREM AnswersVerified == Spec => []AnswersVerify
  <1>1. ServiceInit => AnswersVerify
    BY DEF ServiceInit, AnswersVerify, Given
  <1>2. ServiceInv /\ AnswersVerify /\ [Next]_vars => AnswersVerify'
    <2> SUFFICES ASSUME ServiceInv, AnswersVerify, [Next]_vars PROVE AnswersVerify'
      OBVIOUS
    <2>1. CASE answers' = answers
      BY <2>1 DEF AnswersVerify, Given
    <2>2. ASSUME NEW c \in Checkpoints, InjectRoot(c) PROVE AnswersVerify'
      BY <2>2, AnswerSent DEF AnswersVerify, Given
    <2> QED BY <2>1, <2>2, AnswersKept
  <1> QED
    BY <1>1, <1>2, HandlersAlone, PTL DEF Spec

-----------------------------------------------------------------------------
(* What is left on a delivered source                                      *)

DustInv ==
  \A c \in Deliveries :
    /\ sim.val[c.source].balance < sim.val[c.source].eff + MaxDust
    /\ At(c, Running \ {"forward"}) => sim.val[c.source].balance < MaxDust

SameBalances == \A v \in Validators : sim'.val[v].balance = sim.val[v].balance /\ sim'.val[v].eff = sim.val[v].eff

LEMMA BeginBalances ==
  ASSUME SimOK, NEW c \in Checkpoints, Begin(c)
  PROVE  SameBalances
  <1>1. sim.val \in [Validators -> ValRow] /\ c.source \in Validators /\ sim \in SimStates
    BY ServiceConstants DEF SimOK, SimStates
  <1>2. ASSUME NEW w, sim'.val = [sim.val EXCEPT ![c.source].withdrawable = w]
        PROVE  SameBalances
    BY <1>1, <1>2 DEF SameBalances, ValRow
  <1>3. CASE c.kind = "accepted" /\ IsReplayed(c)
    <2>1. sim'.val = [sim.val EXCEPT ![c.source].withdrawable = ReplayWithdrawable]
      BY <1>1, <1>3 DEF Begin, SimStates
    <2> QED BY <1>2, <2>1
  <1>4. CASE c.kind = "accepted" /\ ~IsReplayed(c)
    <2> DEFINE w == EpochOf(sim.slot) + ExitLookahead + WithdrawabilityDelay
    <2>1. sim'.val = [sim.val EXCEPT ![c.source].withdrawable = w]
      BY <1>1, <1>4 DEF Begin, QueueConsolidation, SimStates
    <2> HIDE DEF w
    <2> QED BY <1>2, <2>1
  <1>5. CASE c.kind # "accepted"
    BY <1>5 DEF Begin, SameBalances
  <1> QED
    BY <1>3, <1>4, <1>5

\* A step that is not a delivery's transition leaves balances, and lets no delivery past it.
LEMMA OtherSteps ==
  ASSUME ServiceInv, [Next]_vars, \A c \in Checkpoints : ~FastForward(c)
  PROVE  /\ SameBalances
         /\ \A c \in Deliveries : At(c, Running \ {"forward"})' => At(c, Running \ {"forward"})
  <1>1. DOMAIN handler = Checkpoints /\ \A d \in Checkpoints : d.kind \in {"accepted", "delivered"}
    BY ServiceConstants DEF ServiceInv, HandlersOK
  <1>2. CASE UserBlock \/ FillNext \/ UNCHANGED vars
    BY <1>2 DEF UserBlock, FillNext, FillProofs, RestoreTime, RestoreRoot, vars, simVars, SameBalances, At
  <1>3. ASSUME NEW c \in Checkpoints, NEW pc, handler'[c].pc = pc,
               \A d \in Checkpoints \ {c} : handler'[d] = handler[d],
               c \in Deliveries /\ pc \in Running \ {"forward"} => handler[c].pc \in Running \ {"forward"}
        PROVE  \A d \in Deliveries : At(d, Running \ {"forward"})' => At(d, Running \ {"forward"})
    BY <1>3 DEF At, Deliveries
  <1>4. ASSUME NEW c \in Checkpoints, Fail(c)
        PROVE  \A d \in Deliveries : At(d, Running \ {"forward"})' => At(d, Running \ {"forward"})
    <2>1. handler'[c].pc = "failed" /\ \A d \in Checkpoints \ {c} : handler'[d] = handler[d]
      BY <1>1, <1>4 DEF Fail
    <2> QED BY <1>3, <2>1 DEF Running
  <1>5. ASSUME NEW c \in Checkpoints, NEW pc, Resume(c, pc), handler[c].pc \in Running \cup {"chained"},
               c \in Deliveries /\ pc \in Running \ {"forward"} => handler[c].pc \in Running \ {"forward"}
        PROVE  \A d \in Deliveries : At(d, Running \ {"forward"})' => At(d, Running \ {"forward"})
    <2>1. handler'[c].pc = pc
      BY <1>5, Resumed DEF ServiceInv
    <2>2. \A d \in Checkpoints \ {c} : handler'[d] = handler[d]
      BY <1>1, <1>5 DEF Resume
    <2> QED BY <1>3, <1>5, <2>1, <2>2
  <1>6. ASSUME NEW c \in Checkpoints, Ask(c) \/ Step(c) \/ CallFails(c)
        PROVE  /\ SameBalances
               /\ \A d \in Deliveries : At(d, Running \ {"forward"})' => At(d, Running \ {"forward"})
    <2>1. CASE Ask(c)
      <3>1. handler'[c].pc = "chained" /\ \A d \in Checkpoints \ {c} : handler'[d] = handler[d]
        BY <1>1, <2>1 DEF Ask
      <3>2. SameBalances
        BY <2>1 DEF Ask, simVars, SameBalances
      <3> QED BY <1>3, <3>1, <3>2 DEF Running
    <2>2. CASE CallFails(c)
      <3>1. SameBalances /\ Fail(c)
        BY <2>2 DEF CallFails, simVars, SameBalances
      <3> QED BY <1>4, <3>1
    <2>3. CASE Begin(c)
      <3>1. SameBalances
        BY <2>3, BeginBalances DEF ServiceInv
      <3>2. Fail(c) \/ Resume(c, "forward") \/ (Resume(c, "latest") /\ c \notin Deliveries)
        BY <2>3 DEF Begin, Deliveries
      <3>3. handler[c].pc \in Running \cup {"chained"}
        BY <2>3 DEF Begin
      <3> QED BY <1>4, <1>5, <3>1, <3>2, <3>3
    <2>4. CASE ReadLatest(c)
      <3>1. handler[c].pc \in Running \ {"forward"} /\ \A d \in Checkpoints \ {c} : handler'[d] = handler[d]
        BY <1>1, <2>4 DEF ReadLatest, Running
      <3>2. SameBalances
        BY <2>4 DEF ReadLatest, simVars, SameBalances
      <3> QED BY <1>3, <3>1, <3>2
    <2>5. CASE SetTime(c)
      <3>1. handler[c].pc \in Running \ {"forward"} /\ (Fail(c) \/ Resume(c, "mine"))
        BY <2>5 DEF SetTime, Running
      <3>2. SameBalances
        BY <2>5 DEF SetTime, simVars, SameBalances
      <3> QED BY <1>4, <1>5, <3>1, <3>2
    <2>6. CASE Mine(c)
      <3>1. handler[c].pc \in Running \ {"forward"} /\ \A d \in Checkpoints \ {c} : handler'[d] = handler[d]
        BY <1>1, <2>6 DEF Mine, Running
      <3>2. handler[c].ts \in Nat
        BY <3>1, WaitingTyped DEF ServiceInv
      <3>3. sim'.val = sim.val
        BY <2>6, <3>2, SealTyped DEF Mine, ServiceInv
      <3> QED BY <1>3, <3>1, <3>3 DEF SameBalances
    <2>7. CASE InjectTime(c)
      <3>1. handler[c].pc \in Running \ {"forward"} /\ Resume(c, "injectRoot")
        BY <2>7 DEF InjectTime, Running
      <3>2. SameBalances
        BY <2>7 DEF InjectTime, simVars, SameBalances
      <3> QED BY <1>5, <3>1, <3>2
    <2>8. CASE InjectRoot(c)
      <3>1. handler'[c].pc = "done" /\ \A d \in Checkpoints \ {c} : handler'[d] = handler[d]
        BY <1>1, <2>8 DEF InjectRoot, Answer
      <3>2. SameBalances
        BY <2>8 DEF InjectRoot, SameBalances
      <3> QED BY <1>3, <3>1, <3>2 DEF Running
    <2> QED
      BY <1>6, <2>1, <2>2, <2>3, <2>4, <2>5, <2>6, <2>7, <2>8 DEF Step
  <1> QED
    BY <1>2, <1>6 DEF Next

LEMMA DustStep ==
  ASSUME ServiceInv, DustInv, [Next]_vars
  PROVE  DustInv'
  <1>1. \A c \in Deliveries : c \in Checkpoints /\ c.source \in Validators
    BY ServiceConstants DEF Deliveries
  <1>2. sim.val \in [Validators -> ValRow] /\ MaxDust \in Nat \ {0}
    BY SourcesDrainable DEF ServiceInv, SimOK, SimStates
  <1>3. CASE \A c \in Checkpoints : ~FastForward(c)
    <2>1. SameBalances
      BY <1>3, OtherSteps
    <2>2. \A c \in Deliveries : At(c, Running \ {"forward"})' => At(c, Running \ {"forward"})
      BY <1>3, OtherSteps
    <2> QED BY <1>1, <2>1, <2>2 DEF DustInv, SameBalances
  <1>4. ASSUME NEW d \in Checkpoints, FastForward(d)
        PROVE  DustInv'
    <2>1. d \in Deliveries /\ handler[d].pc \in Running
      BY <1>4 DEF FastForward, ServiceInv, ViewOK, At, Deliveries, Running
    <2>2. d.source # d.target
      BY <2>1, SourcesDrainable
    <2> DEFINE row == sim.val[d.source]
               left == IF row.balance <= row.eff THEN 0 ELSE row.balance - row.eff
    <2>3. /\ sim'.val[d.source].balance = left /\ sim'.val[d.source].eff = Rounded(d.source, left)
          /\ \A v \in Validators \ {d.source, d.target} : sim'.val[v] = sim.val[v]
      BY <1>4, <2>2, ProcessTyped DEF ServiceInv, FastForward
    <2>4. row.balance \in Nat /\ row.eff \in Nat /\ row.balance < row.eff + MaxDust
      BY <1>1, <1>2, <2>1 DEF ValRow, DustInv
    <2>5. left \in Nat /\ left < MaxDust
      BY <1>2, <2>4
    <2>6. Rounded(d.source, left) \in Nat
      BY <1>1, <2>1, <2>5, RoundedNat
    <2>7. left < Rounded(d.source, left) + MaxDust
      BY <1>2, <2>5, <2>6
    <2>8. \A c \in Checkpoints \ {d} : handler'[c] = handler[c] /\ handler[c].pc \notin Running
      BY <1>4, <2>1, Alone DEF FastForward, ServiceInv, HandlersOK
    <2> HIDE DEF left, row
    <2>9. ASSUME NEW c \in Deliveries
          PROVE  /\ sim'.val[c.source].balance < sim'.val[c.source].eff + MaxDust
                 /\ At(c, Running \ {"forward"})' => sim'.val[c.source].balance < MaxDust
      <3>1. c.source # d.target
        BY <2>1, SourcesDrainable
      <3>2. CASE c.source = d.source
        BY <2>3, <2>5, <2>7, <3>2
      <3>3. CASE c.source # d.source
        <4>1. sim'.val[c.source] = sim.val[c.source]
          BY <1>1, <2>3, <3>1, <3>3
        <4>2. ~At(c, Running \ {"forward"})'
          BY <1>1, <2>8, <3>3 DEF At
        <4> QED BY <4>1, <4>2 DEF DustInv
      <3> QED BY <3>2, <3>3
    <2> QED BY <2>9 DEF DustInv
  <1> QED
    BY <1>3, <1>4

(***************************************************************************)
(* An answer settles the trade it was asked for, whatever came in between: *)
(* its root is later than anything mined before the request, and a         *)
(* delivered source is past its withdrawable epoch and drained to dust.    *)
(***************************************************************************)
THEOREM AnswersSettled == Spec => []AnswersSettle
  <1>1. ServiceInit => DustInv /\ AnswersSettle
    <2> SUFFICES ASSUME ServiceInit PROVE DustInv /\ AnswersSettle
      OBVIOUS
    <2>1. AnswersSettle
      BY DEF ServiceInit, AnswersSettle, Given
    <2>2. \A c \in Deliveries : c \in Checkpoints /\ c.source \in Validators /\ handler[c].pc = "new"
      BY ServiceConstants DEF Deliveries, ServiceInit
    <2>3. \A v \in Validators : /\ sim.val[v].balance = InitialBalance[v]
                                /\ sim.val[v].eff = Rounded(v, InitialBalance[v])
      BY DEF ServiceInit, BaseState
    <2> QED BY <2>1, <2>2, <2>3, SourcesDrainable DEF DustInv, Drainable, At, Running
  <1>2. ServiceInv /\ DustInv /\ AnswersSettle /\ [Next]_vars => DustInv' /\ AnswersSettle'
    <2> SUFFICES ASSUME ServiceInv, DustInv, AnswersSettle, [Next]_vars PROVE DustInv' /\ AnswersSettle'
      OBVIOUS
    <2>1. DustInv'
      BY DustStep
    <2>2. CASE answers' = answers
      BY <2>1, <2>2 DEF AnswersSettle, Given
    <2>3. ASSUME NEW c \in Checkpoints, InjectRoot(c) PROVE AnswersSettle'
      <3>1. c.kind = "delivered" => sim.val[c.source].balance < MaxDust
        BY <2>3 DEF DustInv, Deliveries, InjectRoot, At, Running
      <3>2. PICK a : /\ answers' = answers \cup {a} /\ a.request = c /\ a.ts > a.asked
                     /\ c.kind = "delivered" => /\ a.source.fields.withdrawable <= EpochOf(a.root.slot)
                                                /\ a.extra.balance = sim.val[c.source].balance
        BY <2>3, AnswerSent
      <3> QED BY <3>1, <3>2 DEF AnswersSettle, Given
    <2> QED BY <2>1, <2>2, <2>3, AnswersKept
  <1> QED
    BY <1>1, <1>2, HandlersAlone, PTL DEF Spec
=============================================================================
