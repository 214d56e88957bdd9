------------------------------- MODULE LPVoting -------------------------------
(***************************************************************************)
(* The ledger of sponsored liquidity, src/src/uniswap/LPVoting.sol.  A     *)
(* sponsor's money is shared out by the value of the subscribed positions, *)
(* integrated over the voting period at the reference price in force.      *)
(* Positions accrue lazily: a position is settled when it changes, when a  *)
(* price arrives, when it stops, and once more after the deadline.         *)
(*                                                                         *)
(* The pool that owns it composes these actions with its own hooks and     *)
(* tells them its phase; time is a clock of ticks, a few after Deadline.   *)
(*                                                                         *)
(* External: the Uniswap v4 PositionManager (who owns a position, what     *)
(* liquidity it has, and its calls to the subscriber), the market price,   *)
(* and Value, which stands for PositionValue over TickMath's bounds.       *)
(* Operators named Bug... are mistakes, not code: see PBEAR.               *)
(***************************************************************************)
EXTENDS Integers, Sequences, FiniteSets, PrefixSums

CONSTANTS
  Provider,        \* addresses that may own positions
  Position,        \* ids of positions
  LPPool,          \* v4 pools (their keys)
  PoolOf(_),       \* the pool a position is in
  Value(_, _),     \* PositionValue.value of a liquidity at a price
  Deadline,        \* ticks from opening to the deadline
  LateTicks,       \* bound on the ticks after it
  MaxPriceAge, PriceInterval,   \* MAX_PRICE_AGE and PRICE_INTERVAL
  MaxSponsorships, MaxPositions, MaxAccounts,   \* MAX_SPONSORSHIPS, MAX_POSITIONS, MAX_ACCOUNTS
  Prices,          \* those that PositionValue.checkPrice takes
  Liquidities, MinimumValues   \* inputs

ASSUME LPAssumption ==
  /\ Deadline \in Nat \ {0} /\ LateTicks \in Nat
  /\ MaxPriceAge \in Nat /\ PriceInterval \in Nat
  /\ MaxSponsorships \in Nat /\ MaxPositions \in Nat /\ MaxAccounts \in Nat
  /\ \A liquidity \in Liquidities, price \in Prices : Value(liquidity, price) \in Nat

VARIABLES
  now,
  campaigns,        \* _sponsorships
  positions,        \* _positions: per campaign, a sequence
  accounts,         \* _accounts: per campaign, a sequence without repetition
  accrued,          \* accrued[id][owner]
  allocatedWeight,  \* allocatedWeight[id][owner]
  activeCampaign,   \* _activeCampaign: the campaign of a subscribed position, or 0
  registered,       \* the addresses that ever subscribed
  liquidityOf, ownerOf,   \* external: PositionManager
  slot0,            \* external: the market price of each v4 pool
  earned            \* history: what positions were worth, tick by tick, per owner

ledgerVars == <<campaigns, positions, accounts, accrued, allocatedWeight, activeCampaign, registered>>
marketVars == <<liquidityOf, ownerOf, slot0>>
lpVars     == <<now, ledgerVars, marketVars, earned>>

LPInit ==
  /\ now = 0
  /\ campaigns = << >> /\ positions = << >> /\ accounts = << >>
  /\ accrued = << >> /\ allocatedWeight = << >>
  /\ activeCampaign = [t \in Position |-> 0]
  /\ registered = {}
  /\ liquidityOf \in [Position -> Liquidities]
  /\ ownerOf \in [Position -> Provider]
  /\ slot0 \in [LPPool -> Prices]
  /\ earned = << >>

BugFinalized == \A id \in DOMAIN campaigns : campaigns[id].allocated = campaigns[id].amount

Finalized == \A id \in DOMAIN campaigns : campaigns[id].finalized

Sponsored(k) == \E id \in DOMAIN campaigns : campaigns[id].pool = k

IndexOf(id, t) == CHOOSE i \in DOMAIN positions[id] : positions[id][i].token = t

-----------------------------------------------------------------------------
(* Settling.  `until` stops at the deadline, however late the call.        *)

BugUntil == now

Until == IF now < Deadline THEN now ELSE Deadline

Settled(p) == [p EXCEPT !.settledAt = Until]

Pending(p) == p.rate * (Until - p.settledAt)

\* What settling the positions with the indices I adds, per owner and in total.
PendingOf(id, I, v) ==
  Sum([i \in 1 .. Len(positions[id]) |->
         IF i \in I /\ positions[id][i].owner = v THEN Pending(positions[id][i]) ELSE 0],
      Len(positions[id]))
PendingAll(id, I) ==
  Sum([i \in 1 .. Len(positions[id]) |-> IF i \in I THEN Pending(positions[id][i]) ELSE 0],
      Len(positions[id]))

\* _settle for every index in I, and what the caller then makes of each position.
Settle(id, I, After(_, _)) ==
  /\ accrued' = [accrued EXCEPT ![id] = [v \in Provider |-> @[v] + PendingOf(id, I, v)]]
  /\ positions' = [positions EXCEPT ![id] =
       [i \in DOMAIN @ |-> IF i \in I THEN After(i, Settled(@[i])) ELSE @[i]]]

Rated(p, price) == [p EXCEPT !.rate = Value(p.liquidity, price)]

-----------------------------------------------------------------------------
(* Sponsorship and the subscriber's callbacks.                             *)

\* sponsor: called by the pool, in the transaction of the deposit.
AddCampaign(phase, amount, k, minimumValue) ==
  /\ phase = "Open" /\ now < Deadline
  /\ Len(campaigns) # MaxSponsorships
  /\ minimumValue # 0 /\ amount # 0
  /\ ~Sponsored(k)
  /\ campaigns' = Append(campaigns,
       [pool |-> k, amount |-> amount, minimumValue |-> minimumValue, price |-> slot0[k],
        updatedAt |-> now, sourceBlock |-> 0, totalAccrued |-> 0, settleCursor |-> 0,
        allocationCursor |-> 0, allocated |-> 0, finalized |-> FALSE])
  /\ positions' = Append(positions, << >>)
  /\ accounts' = Append(accounts, << >>)
  /\ accrued' = Append(accrued, [v \in Provider |-> 0])
  /\ allocatedWeight' = Append(allocatedWeight, [v \in Provider |-> 0])
  /\ earned' = Append(earned, [v \in Provider |-> 0])
  /\ UNCHANGED <<now, activeCampaign, registered, marketVars>>

\* A position that was subscribed before keeps its place; it was settled when it stopped.
NotifySubscribe(phase, t, id) ==
  LET s     == campaigns[id]
      owner == ownerOf[t]
      p     == [token |-> t, owner |-> owner, liquidity |-> liquidityOf[t], settledAt |-> now,
                rate |-> Value(liquidityOf[t], s.price), active |-> TRUE]
      seen  == \E i \in DOMAIN positions[id] : positions[id][i].token = t
      known == \E i \in DOMAIN accounts[id] : accounts[id][i] = owner
  IN  /\ now < Deadline /\ phase = "Open"
      /\ activeCampaign[t] = 0
      /\ PoolOf(t) = s.pool
      /\ p.rate >= s.minimumValue
      /\ known \/ Len(accounts[id]) # MaxAccounts
      /\ seen \/ Len(positions[id]) # MaxPositions
      /\ accounts' = [accounts EXCEPT ![id] = IF known THEN @ ELSE Append(@, owner)]
      /\ positions' = [positions EXCEPT ![id] =
           IF seen THEN [@ EXCEPT ![IndexOf(id, t)] = p] ELSE Append(@, p)]
      /\ activeCampaign' = [activeCampaign EXCEPT ![t] = id]
      /\ registered' = registered \cup {owner}
      /\ UNCHANGED <<now, campaigns, accrued, allocatedWeight, marketVars, earned>>

\* Liquidity changes and the manager tells the subscriber, which ignores it
\* after the deadline.
ModifyLiquidity(t, liquidity) ==
  LET id == activeCampaign[t]
      i  == IndexOf(id, t)
  IN  /\ liquidityOf' = [liquidityOf EXCEPT ![t] = liquidity]
      /\ IF now >= Deadline \/ id = 0
         THEN UNCHANGED ledgerVars
         ELSE /\ Settle(id, {i}, LAMBDA j, p : Rated([p EXCEPT !.liquidity = liquidity], campaigns[id].price))
              /\ campaigns' = [campaigns EXCEPT ![id].totalAccrued = @ + PendingAll(id, {i})]
              /\ UNCHANGED <<accounts, allocatedWeight, activeCampaign, registered>>
      /\ UNCHANGED <<now, ownerOf, slot0, earned>>

\* _stop: unsubscribing, or burning the position, also after the deadline.
Stop(t) ==
  LET id == activeCampaign[t]
      i  == IndexOf(id, t)
  IN  /\ id # 0
      /\ Settle(id, {i}, LAMBDA j, p : [p EXCEPT !.active = FALSE, !.rate = 0, !.liquidity = 0])
      /\ campaigns' = [campaigns EXCEPT ![id].totalAccrued = @ + PendingAll(id, {i})]
      /\ activeCampaign' = [activeCampaign EXCEPT ![t] = 0]
      /\ UNCHANGED <<accounts, allocatedWeight, registered>>

Unsubscribe(t) == Stop(t) /\ UNCHANGED <<now, marketVars, earned>>

\* A transfer unsubscribes the position first.
Transfer(t, to) ==
  /\ ownerOf' = [ownerOf EXCEPT ![t] = to]
  /\ IF activeCampaign[t] = 0 THEN UNCHANGED ledgerVars ELSE Stop(t)
  /\ UNCHANGED <<now, liquidityOf, slot0, earned>>

-----------------------------------------------------------------------------
(* Reports: the reference price, and the finalisation, which is open to anyone. *)

Stale(s, sourceBlock, observedAt) ==
  \/ sourceBlock <= s.sourceBlock
  \/ observedAt > now \/ now - observedAt > MaxPriceAge
  \/ now < s.updatedAt + PriceInterval

SetPrice(phase, id, price, sourceBlock, observedAt) ==
  /\ now < Deadline /\ phase = "Open"
  /\ ~Stale(campaigns[id], sourceBlock, observedAt)
  /\ Settle(id, DOMAIN positions[id], LAMBDA j, p : IF p.active THEN Rated(p, price) ELSE p)
  /\ campaigns' = [campaigns EXCEPT ![id] = [campaigns[id] EXCEPT
       !.totalAccrued = @ + PendingAll(id, DOMAIN positions[id]),
       !.price = price, !.sourceBlock = sourceBlock, !.updatedAt = now]]
  /\ UNCHANGED <<now, accounts, allocatedWeight, activeCampaign, registered, marketVars, earned>>

Min2(a, b) == IF a < b THEN a ELSE b

BugShareRoundsUp(s, own, total) ==
  IF total = 0 THEN 0 ELSE (s.amount * own + total - 1) \div total

ShareOf(s, own, total) == IF total = 0 THEN 0 ELSE (s.amount * own) \div total

\* The accounts this call pays, once every position is settled.
Allocation(id, maxItems) ==
  LET s      == campaigns[id]
      settle == Min2(maxItems, Len(positions[id]) - s.settleCursor)
      total  == s.totalAccrued + PendingAll(id, s.settleCursor + 1 .. s.settleCursor + settle)
      n      == Min2(maxItems - settle, Len(accounts[id]) - s.allocationCursor)
  IN  IF s.settleCursor + settle # Len(positions[id]) THEN << >>
      ELSE [i \in 1 .. n |->
              LET v == accounts[id][s.allocationCursor + i]
              IN  [who |-> v,
                   weight |-> ShareOf(s, accrued[id][v] +
                      PendingOf(id, s.settleCursor + 1 .. s.settleCursor + settle, v), total)]]

AllocationWeight(a) == Sum([i \in DOMAIN a |-> a[i].weight], Len(a))

\* finalizeLP: settle the next positions, then allocate to the next accounts.
\* The pool credits `Allocation(id, maxItems)` in the same transaction.
FinalizeLP(phase, id, maxItems) ==
  LET s      == campaigns[id]
      settle == Min2(maxItems, Len(positions[id]) - s.settleCursor)
      I      == s.settleCursor + 1 .. s.settleCursor + settle
      pays   == Allocation(id, maxItems)
      all    == s.settleCursor + settle = Len(positions[id])
  IN  /\ now >= Deadline /\ phase = "Closing"
      /\ maxItems # 0 /\ maxItems <= MaxAccounts
      /\ ~s.finalized
      /\ Settle(id, I, LAMBDA j, p : p)
      /\ campaigns' = [campaigns EXCEPT ![id] = [s EXCEPT
           !.totalAccrued = s.totalAccrued + PendingAll(id, I),
           !.settleCursor = s.settleCursor + settle,
           !.allocationCursor = s.allocationCursor + Len(pays),
           !.allocated = s.allocated + AllocationWeight(pays),
           !.finalized = all /\ s.allocationCursor + Len(pays) = Len(accounts[id])]]
      /\ allocatedWeight' = [allocatedWeight EXCEPT ![id] =
           [v \in Provider |-> IF \E i \in DOMAIN pays : pays[i].who = v
                               THEN pays[CHOOSE i \in DOMAIN pays : pays[i].who = v].weight
                               ELSE @[v]]]
      /\ UNCHANGED <<now, accounts, activeCampaign, registered, marketVars, earned>>

-----------------------------------------------------------------------------
(* The clock and the market.                                               *)

\* During the tick every subscribed position is worth its value at the
\* reference price to whoever owns it.
Tick ==
  /\ now < Deadline + LateTicks
  /\ now' = now + 1
  /\ earned' = IF now >= Deadline THEN earned ELSE [id \in DOMAIN earned |-> [v \in Provider |->
       earned[id][v] + Sum([i \in 1 .. Len(positions[id]) |->
         LET t == positions[id][i].token
         IN  IF activeCampaign[t] = id /\ ownerOf[t] = v
             THEN Value(liquidityOf[t], campaigns[id].price) ELSE 0], Len(positions[id]))]]
  /\ UNCHANGED <<ledgerVars, marketVars>>

MovePrice(k, price) ==
  /\ slot0' = [slot0 EXCEPT ![k] = price]
  /\ UNCHANGED <<now, ledgerVars, liquidityOf, ownerOf, earned>>

-----------------------------------------------------------------------------
(* Safety.                                                                 *)

\* Lazy settling never loses or repeats a moment: whatever changed in between,
\* and however late a position is stopped or settled, what an owner has
\* accrued and what is still pending is the value of its subscribed liquidity
\* over time up to the deadline.
AccrualExact ==
  \A id \in DOMAIN campaigns :
    /\ \A v \in Provider : accrued[id][v] + PendingOf(id, DOMAIN positions[id], v) = earned[id][v]
    /\ campaigns[id].totalAccrued = Sum([i \in DOMAIN accounts[id] |-> accrued[id][accounts[id][i]]],
                                        Len(accounts[id]))

=============================================================================
