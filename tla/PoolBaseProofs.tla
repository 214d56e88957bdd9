----------------------------- MODULE PoolBaseProofs -----------------------------
(***************************************************************************)
(* Facts about the custody of PoolBase.sol that every pool relies on, for  *)
(* any number of tokens, sponsorships and addresses: what a sponsorship    *)
(* and a seat that changes hands do to the weight each address earned.     *)
(* V stands for the addresses, which each pool names for itself.           *)
(***************************************************************************)
EXTENDS PoolBase, PrefixSumProofs

\* A sponsorship never promises its seats more than was paid for it.
Sponsorship(V) ==
  {s \in [amount: Nat, perSeat: Nat, seats: Nat, claimed: Nat, nft: BOOLEAN, members: Seq(V)] :
     s.claimed <= s.seats /\ s.perSeat * s.seats <= s.amount}

CustodyOK(V) ==
  /\ sponsorships \in Seq(Sponsorship(V))
  /\ seatHolder \in Seq([TokenId -> V \cup {NoHolder}])
  /\ Len(seatHolder) = Len(sponsorships)
  /\ nftOwner \in [TokenId -> V \ {NoHolder}]

-----------------------------------------------------------------------------
(* Seats.                                                                  *)

\* How often a list of members names v among its first k entries.
Times(members, v, k) == Cardinality({i \in 1 .. k : members[i] = v})

LEMMA TimesStep ==
  ASSUME NEW members, NEW v, NEW k \in Nat
  PROVE  /\ Times(members, v, 0) = 0
         /\ Times(members, v, k) \in Nat
         /\ Times(members, v, k + 1)
              = Times(members, v, k) + IF members[k + 1] = v THEN 1 ELSE 0
<1> DEFINE E(j) == {i \in 1 .. j : members[i] = v}
<1>1. E(0) = {}
  OBVIOUS
<1>2. IsFiniteSet(E(k)) /\ Cardinality(E(k)) \in Nat
  <2>1. IsFiniteSet(1 .. k)
    BY FS_Interval
  <2>2. E(k) \in SUBSET (1 .. k)
    OBVIOUS
  <2> HIDE DEF E
  <2>3. IsFiniteSet(E(k))
    BY <2>1, <2>2, FS_Subset
  <2> QED BY <2>3, FS_CardinalityType
<1>3. Cardinality(E(k + 1)) = Cardinality(E(k)) + IF members[k + 1] = v THEN 1 ELSE 0
  <2>1. k + 1 \notin E(k) /\ 1 .. (k + 1) = (1 .. k) \cup {k + 1}
    OBVIOUS
  <2>2. CASE members[k + 1] = v
    <3>1. E(k + 1) = E(k) \cup {k + 1}
      BY <2>1, <2>2
    <3> HIDE DEF E
    <3> QED BY <1>2, <2>1, <2>2, <3>1, FS_AddElement
  <2>3. CASE members[k + 1] # v
    <3>1. E(k + 1) = E(k)
      BY <2>1, <2>3
    <3> HIDE DEF E
    <3> QED BY <1>2, <2>3, <3>1
  <2> QED BY <2>2, <2>3
<1> QED BY <1>1, <1>2, <1>3, FS_EmptySet DEF Times

TokensHeld(v, id) == {t \in TokenId : seatHolder[id][t] = v /\ v # NoHolder}

SeatWeight(v) ==
  [id \in 1 .. Len(sponsorships) |-> sponsorships[id].perSeat * SeatsHeld(v, id)]

LEMMA SeatsCounted ==
  ASSUME NEW V, sponsorships \in Seq(Sponsorship(V)), NEW v, NEW id \in 1 .. Len(sponsorships)
  PROVE  /\ sponsorships[id] \in Sponsorship(V)
         /\ Times(sponsorships[id].members, v, Len(sponsorships[id].members)) \in Nat
         /\ IsFiniteSet(TokensHeld(v, id)) /\ Cardinality(TokensHeld(v, id)) \in Nat
         /\ SeatsHeld(v, id) = Times(sponsorships[id].members, v, Len(sponsorships[id].members))
                               + Cardinality(TokensHeld(v, id))
         /\ SeatsHeld(v, id) \in Nat
<1> DEFINE m == sponsorships[id].members
<1>1. sponsorships[id] \in Sponsorship(V) /\ m \in Seq(V) /\ Len(m) \in Nat
      /\ DOMAIN m = 1 .. Len(m)
  <2>1. sponsorships[id] \in Sponsorship(V)
    OBVIOUS
  <2>2. m \in Seq(V)
    BY <2>1 DEF Sponsorship
  <2> QED BY <2>1, <2>2
<1>2. Times(m, v, Len(m)) \in Nat
  BY <1>1, TimesStep
<1>3. TokensHeld(v, id) \in SUBSET TokenId
  BY DEF TokensHeld
<1>4. IsFiniteSet(TokensHeld(v, id)) /\ Cardinality(TokensHeld(v, id)) \in Nat
  BY <1>3, FS_Subset, FS_CardinalityType, TokensAssumption
<1>5. SeatsHeld(v, id) = Times(m, v, Len(m)) + Cardinality(TokensHeld(v, id))
  BY <1>1 DEF SeatsHeld, Times, TokensHeld
<1> QED BY <1>1, <1>2, <1>4, <1>5

LEMMA SeatWeightNat ==
  ASSUME NEW V, sponsorships \in Seq(Sponsorship(V)), NEW v
  PROVE  /\ Len(sponsorships) \in Nat
         /\ SeatWeight(v) \in [1 .. Len(sponsorships) -> Nat]
         /\ SeatWeight(v) \in [1 .. Len(sponsorships) -> Int]
         /\ Sum(SeatWeight(v), Len(sponsorships)) \in Nat
<1>1. Len(sponsorships) \in Nat
  OBVIOUS
<1>2. ASSUME NEW id \in 1 .. Len(sponsorships)
      PROVE  sponsorships[id].perSeat * SeatsHeld(v, id) \in Nat
  <2>1. sponsorships[id].perSeat \in Nat /\ SeatsHeld(v, id) \in Nat
    BY SeatsCounted DEF Sponsorship
  <2> QED BY <2>1
<1>3. SeatWeight(v) \in [1 .. Len(sponsorships) -> Nat]
  BY <1>2 DEF SeatWeight
<1>4. SeatWeight(v) \in [1 .. Len(sponsorships) -> Int]
  BY <1>3
<1> QED BY <1>1, <1>3, <1>4, SumNat

-----------------------------------------------------------------------------
(* Sponsorships and claims.                                                *)

LEMMA NewSponsorshipOK ==
  ASSUME NEW V, NEW amount \in Nat, NEW seats \in Nat \ {0}, NEW nft \in BOOLEAN,
         NEW members \in Seq(V), Len(members) <= seats
  PROVE  NewSponsorship(amount, seats, nft, members) \in Sponsorship(V)
<1>1. amount \div seats \in Nat /\ (amount \div seats) * seats <= amount
  BY Quotient
<1>2. Len(members) \in Nat
  OBVIOUS
<1> QED BY <1>1, <1>2 DEF NewSponsorship, Sponsorship

LEMMA PushKeeps ==
  ASSUME NEW V, CustodyOK(V), NEW s \in Sponsorship(V), PushSponsorship(s)
  PROVE  /\ CustodyOK(V)'
         /\ Len(sponsorships') = Len(sponsorships) + 1
         /\ \A id \in 1 .. Len(sponsorships) :
              sponsorships'[id] = sponsorships[id] /\ seatHolder'[id] = seatHolder[id]
         /\ sponsorships'[Len(sponsorships) + 1] = s
         /\ seatHolder'[Len(sponsorships) + 1] = [t \in TokenId |-> NoHolder]
<1>1. [t \in TokenId |-> NoHolder] \in [TokenId -> V \cup {NoHolder}]
  OBVIOUS
<1> QED BY <1>1 DEF CustodyOK, PushSponsorship

\* A new sponsorship: the addresses it lists earn their shares, and nobody
\* holds a seat of it yet.
LEMMA PushEarns ==
  ASSUME NEW V, CustodyOK(V), NEW s \in Sponsorship(V), PushSponsorship(s), NEW v
  PROVE  /\ s.perSeat * Times(s.members, v, Len(s.members)) \in Nat
         /\ Sum(SeatWeight(v)', Len(sponsorships'))
              = Sum(SeatWeight(v), Len(sponsorships)) + s.perSeat * Times(s.members, v, Len(s.members))
<1> DEFINE f == SeatWeight(v)
           g == SeatWeight(v)'
<1>0. PICK n : n = Len(sponsorships)
  OBVIOUS
<1>1. /\ sponsorships \in Seq(Sponsorship(V)) /\ n \in Nat /\ Len(seatHolder) = n
      /\ seatHolder \in Seq([TokenId -> V \cup {NoHolder}])
  BY <1>0 DEF CustodyOK
<1>2. /\ sponsorships' \in Seq(Sponsorship(V)) /\ Len(sponsorships') = n + 1
      /\ \A id \in 1 .. n : sponsorships'[id] = sponsorships[id] /\ seatHolder'[id] = seatHolder[id]
      /\ sponsorships'[n + 1] = s /\ seatHolder'[n + 1] = [t \in TokenId |-> NoHolder]
  BY <1>0, PushKeeps DEF CustodyOK
<1>3. f \in [1 .. n -> Int] /\ Sum(f, n) \in Nat
  BY <1>0, <1>1, SeatWeightNat
<1>4. \A id \in 1 .. n : SeatsHeld(v, id)' = SeatsHeld(v, id)
  BY <1>2 DEF SeatsHeld
<1>5. SeatsHeld(v, n + 1)' = Times(s.members, v, Len(s.members))
  <2>1. {t \in TokenId : seatHolder'[n + 1][t] = v /\ v # NoHolder} = {}
    BY <1>2
  <2>2. s.members \in Seq(V) /\ Len(s.members) \in Nat /\ DOMAIN s.members = 1 .. Len(s.members)
    BY DEF Sponsorship
  <2>3. SeatsHeld(v, n + 1)' = Times(s.members, v, Len(s.members)) + Cardinality({})
    BY <1>2, <2>1, <2>2 DEF SeatsHeld, Times
  <2>4. Times(s.members, v, Len(s.members)) \in Nat
    BY <2>2, TimesStep
  <2> QED BY <2>3, <2>4, FS_EmptySet
<1>6. s.perSeat * Times(s.members, v, Len(s.members)) \in Nat
  <2>1. s.members \in Seq(V) /\ Len(s.members) \in Nat /\ s.perSeat \in Nat
    BY DEF Sponsorship
  <2>2. Times(s.members, v, Len(s.members)) \in Nat
    BY <2>1, TimesStep
  <2> QED BY <2>1, <2>2
<1>7. g = [id \in 1 .. (n + 1) |-> sponsorships'[id].perSeat * SeatsHeld(v, id)']
  BY <1>2 DEF SeatWeight
<1>8. \A id \in 1 .. n : g[id] = f[id]
  BY <1>0, <1>1, <1>2, <1>4, <1>7 DEF SeatWeight
<1>9. g[n + 1] = s.perSeat * Times(s.members, v, Len(s.members))
  BY <1>1, <1>2, <1>5, <1>7
<1>10. g \in [1 .. (n + 1) -> Int]
  <2>1. \A id \in 1 .. (n + 1) : g[id] \in Int
    BY <1>1, <1>3, <1>6, <1>8, <1>9
  <2> QED BY <1>7, <2>1
<1> HIDE DEF f, g
<1>11. Sum(g, n + 1) = Sum(f, n) + g[n + 1]
  BY <1>1, <1>3, <1>8, <1>10, SumExtends
<1>12. Sum(SeatWeight(v)', Len(sponsorships')) = Sum(g, n + 1)
  BY <1>2 DEF g
<1> QED BY <1>0, <1>3, <1>6, <1>9, <1>11, <1>12 DEF f

LEMMA TakeKeeps ==
  ASSUME NEW V, CustodyOK(V), NEW who \in V, NEW id \in 1 .. Len(sponsorships), NEW t \in TokenId,
         TakeSeat(who, id, t)
  PROVE  /\ CustodyOK(V)'
         /\ who # NoHolder /\ seatHolder[id][t] # who /\ seatHolder[id][t] \in V \cup {NoHolder}
         /\ Len(sponsorships') = Len(sponsorships) /\ Len(seatHolder') = Len(sponsorships)
         /\ \A j \in 1 .. Len(sponsorships) :
              /\ sponsorships[j] \in Sponsorship(V)
              /\ sponsorships'[j].members = sponsorships[j].members
              /\ sponsorships'[j].perSeat = sponsorships[j].perSeat
              /\ sponsorships'[j].amount = sponsorships[j].amount
              /\ sponsorships'[j].claimed
                   = sponsorships[j].claimed + IF j = id /\ seatHolder[id][t] = NoHolder THEN 1 ELSE 0
              /\ j # id => seatHolder'[j] = seatHolder[j]
         /\ \A u \in TokenId : seatHolder'[id][u] = IF u = t THEN who ELSE seatHolder[id][u]
<1>0. PICK n, h : n = Len(sponsorships) /\ h = seatHolder[id][t]
  OBVIOUS
<1>1. /\ sponsorships \in Seq(Sponsorship(V)) /\ n \in Nat /\ Len(seatHolder) = n
      /\ seatHolder \in Seq([TokenId -> V \cup {NoHolder}])
      /\ nftOwner \in [TokenId -> V \ {NoHolder}]
  BY <1>0 DEF CustodyOK
<1>2. /\ sponsorships[id] \in Sponsorship(V) /\ seatHolder[id] \in [TokenId -> V \cup {NoHolder}]
      /\ id \in 1 .. n /\ DOMAIN sponsorships = 1 .. n /\ DOMAIN seatHolder = 1 .. n
  BY <1>0, <1>1
<1>3. /\ nftOwner[t] = who /\ h # who /\ nftOwner' = nftOwner
      /\ h = NoHolder => sponsorships[id].claimed < sponsorships[id].seats
  BY <1>0 DEF TakeSeat, SeatClaimable
<1>4. who # NoHolder /\ h \in V \cup {NoHolder}
  BY <1>0, <1>1, <1>2, <1>3
<1>5. PICK s : s = IF h = NoHolder THEN [sponsorships[id] EXCEPT !.claimed = @ + 1]
                   ELSE sponsorships[id]
  OBVIOUS
<1>6. /\ s \in Sponsorship(V) /\ s.members = sponsorships[id].members
      /\ s.perSeat = sponsorships[id].perSeat /\ s.amount = sponsorships[id].amount
      /\ s.claimed = sponsorships[id].claimed + IF h = NoHolder THEN 1 ELSE 0
  BY <1>2, <1>3, <1>5 DEF Sponsorship
<1>7. sponsorships' = [sponsorships EXCEPT ![id] = s]
  <2>1. CASE h = NoHolder
    BY <1>0, <1>5, <2>1 DEF TakeSeat
  <2>2. CASE h # NoHolder
    <3>1. s = sponsorships[id] /\ sponsorships' = sponsorships
      BY <1>0, <1>5, <2>2 DEF TakeSeat
    <3>2. [sponsorships EXCEPT ![id] = sponsorships[id]] = sponsorships
      BY <1>0, <1>1
    <3> QED BY <3>1, <3>2
  <2> QED BY <2>1, <2>2
<1>8. /\ sponsorships' \in Seq(Sponsorship(V)) /\ Len(sponsorships') = n
      /\ \A j \in 1 .. n : sponsorships'[j] = IF j = id THEN s ELSE sponsorships[j]
  BY <1>0, <1>1, <1>2, <1>6, <1>7
<1>9. PICK g : g = [seatHolder[id] EXCEPT ![t] = who]
  OBVIOUS
<1>10. g \in [TokenId -> V \cup {NoHolder}] /\ \A u \in TokenId : g[u] = IF u = t THEN who ELSE seatHolder[id][u]
  BY <1>2, <1>9
<1>11. seatHolder' = [seatHolder EXCEPT ![id] = g]
  BY <1>9 DEF TakeSeat
<1>12. /\ seatHolder' \in Seq([TokenId -> V \cup {NoHolder}]) /\ Len(seatHolder') = n
       /\ \A j \in 1 .. n : seatHolder'[j] = IF j = id THEN g ELSE seatHolder[j]
  BY <1>0, <1>1, <1>2, <1>10, <1>11
<1>13. CustodyOK(V)'
  BY <1>1, <1>3, <1>8, <1>12 DEF CustodyOK
<1>14. \A j \in 1 .. n : sponsorships[j] \in Sponsorship(V) /\ sponsorships[j].claimed \in Nat
  BY <1>0, <1>1 DEF Sponsorship
<1> QED BY <1>0, <1>2, <1>3, <1>4, <1>6, <1>8, <1>10, <1>12, <1>13, <1>14

\* A seat that changes hands moves its share from the previous holder, if
\* there is one, to the claimant.
LEMMA TakeEarns ==
  ASSUME NEW V, CustodyOK(V), NEW who \in V, NEW id \in 1 .. Len(sponsorships), NEW t \in TokenId,
         TakeSeat(who, id, t), NEW v
  PROVE  Sum(SeatWeight(v)', Len(sponsorships'))
           = Sum(SeatWeight(v), Len(sponsorships))
             + (IF v = who THEN sponsorships[id].perSeat ELSE 0)
             - (IF v = seatHolder[id][t] /\ v # NoHolder THEN sponsorships[id].perSeat ELSE 0)
<1> DEFINE f == SeatWeight(v)
           g == SeatWeight(v)'
<1>0. PICK n, h, p, H, K : /\ n = Len(sponsorships) /\ h = seatHolder[id][t] /\ p = sponsorships[id].perSeat
                           /\ H = TokensHeld(v, id) /\ K = TokensHeld(v, id)'
  OBVIOUS
<1>1. /\ sponsorships \in Seq(Sponsorship(V)) /\ n \in Nat /\ Len(seatHolder) = n
      /\ seatHolder \in Seq([TokenId -> V \cup {NoHolder}])
      /\ seatHolder[id] \in [TokenId -> V \cup {NoHolder}]
      /\ who # NoHolder /\ h # who /\ p \in Nat /\ sponsorships[id] \in Sponsorship(V)
  <2>1. /\ sponsorships \in Seq(Sponsorship(V)) /\ n \in Nat /\ Len(seatHolder) = n
        /\ seatHolder \in Seq([TokenId -> V \cup {NoHolder}])
    BY <1>0 DEF CustodyOK
  <2>2. sponsorships[id] \in Sponsorship(V) /\ seatHolder[id] \in [TokenId -> V \cup {NoHolder}]
    BY <1>0, <2>1
  <2>3. p \in Nat
    BY <1>0, <2>2 DEF Sponsorship
  <2> QED BY <1>0, <2>1, <2>2, <2>3, TakeKeeps
<1>2. /\ Len(sponsorships') = n /\ Len(seatHolder') = n
      /\ \A j \in 1 .. n : /\ sponsorships'[j].members = sponsorships[j].members
                           /\ sponsorships'[j].perSeat = sponsorships[j].perSeat
                           /\ j # id => seatHolder'[j] = seatHolder[j]
      /\ \A u \in TokenId : seatHolder'[id][u] = IF u = t THEN who ELSE seatHolder[id][u]
  <2> HIDE DEF f, g
  <2> QED BY <1>0, TakeKeeps
<1>3. f \in [1 .. n -> Nat] /\ f \in [1 .. n -> Int] /\ Sum(f, n) \in Nat
  BY <1>0, <1>1, SeatWeightNat
<1>4. \A j \in 1 .. n : j # id => SeatsHeld(v, j)' = SeatsHeld(v, j)
  <2> SUFFICES ASSUME NEW j \in 1 .. n, j # id PROVE SeatsHeld(v, j)' = SeatsHeld(v, j)
    OBVIOUS
  <2>1. sponsorships'[j].members = sponsorships[j].members /\ seatHolder'[j] = seatHolder[j]
    BY <1>2
  <2> QED BY <2>1 DEF SeatsHeld
<1>5. /\ IsFiniteSet(H) /\ Cardinality(H) \in Nat /\ SeatsHeld(v, id) \in Nat
      /\ SeatsHeld(v, id)' = SeatsHeld(v, id) + (Cardinality(K) - Cardinality(H))
  <2>1. SeatsHeld(v, id)' = Cardinality({i \in DOMAIN sponsorships'[id].members : sponsorships'[id].members[i] = v})
                            + Cardinality(K)
    BY <1>0 DEF SeatsHeld, TokensHeld
  <2>2. SeatsHeld(v, id) = Cardinality({i \in DOMAIN sponsorships[id].members : sponsorships[id].members[i] = v})
                            + Cardinality(H)
    BY <1>0 DEF SeatsHeld, TokensHeld
  <2>3. sponsorships'[id].members = sponsorships[id].members
    BY <1>0, <1>2
  <2>4. /\ IsFiniteSet(H) /\ Cardinality(H) \in Nat /\ SeatsHeld(v, id) \in Nat
        /\ Times(sponsorships[id].members, v, Len(sponsorships[id].members)) \in Nat
        /\ SeatsHeld(v, id) = Times(sponsorships[id].members, v, Len(sponsorships[id].members)) + Cardinality(H)
    BY <1>0, <1>1, SeatsCounted
  <2>5. IsFiniteSet(K) /\ Cardinality(K) \in Nat
    <3>1. K \in SUBSET TokenId
      BY <1>0 DEF TokensHeld
    <3> QED BY <3>1, FS_Subset, FS_CardinalityType, TokensAssumption
  <2> DEFINE m == Cardinality({i \in DOMAIN sponsorships[id].members : sponsorships[id].members[i] = v})
             m1 == Cardinality({i \in DOMAIN sponsorships'[id].members : sponsorships'[id].members[i] = v})
  <2>6. m1 = m
    BY <2>3
  <2>7. m = Times(sponsorships[id].members, v, Len(sponsorships[id].members))
    <3>1. sponsorships[id].members \in Seq(V)
      BY <1>1 DEF Sponsorship
    <3>2. PICK l : l = sponsorships[id].members
      OBVIOUS
    <3>3. DOMAIN l = 1 .. Len(l)
      BY <3>1, <3>2
    <3> QED BY <3>2, <3>3 DEF Times
  <2>8. SeatsHeld(v, id)' = m1 + Cardinality(K)
    BY <2>1
  <2> HIDE DEF m, m1
  <2> QED BY <2>4, <2>5, <2>6, <2>7, <2>8
<1>6. Cardinality(K) - Cardinality(H) = (IF v = who THEN 1 ELSE 0) - (IF v = h /\ v # NoHolder THEN 1 ELSE 0)
  <2>0. /\ H = {u \in TokenId : seatHolder[id][u] = v /\ v # NoHolder}
        /\ K = {u \in TokenId : seatHolder'[id][u] = v /\ v # NoHolder}
    BY <1>0 DEF TokensHeld
  <2>1. CASE v = who
    <3>1. t \notin H /\ K = H \cup {t}
      BY <1>0, <1>1, <1>2, <2>0, <2>1
    <3>2. Cardinality(K) = Cardinality(H) + 1
      BY <1>5, <3>1, FS_AddElement
    <3> QED BY <1>1, <1>5, <2>1, <3>2
  <2>2. CASE v = h /\ v # NoHolder
    <3>1. t \in H /\ K = H \ {t}
      BY <1>0, <1>1, <1>2, <2>0, <2>2
    <3>2. Cardinality(K) = Cardinality(H) - 1
      BY <1>5, <3>1, FS_RemoveElement
    <3> QED BY <1>1, <1>5, <2>2, <3>2
  <2>3. CASE v # who /\ ~(v = h /\ v # NoHolder)
    <3>1. K = H
      BY <1>0, <1>1, <1>2, <2>0, <2>3
    <3> QED BY <1>5, <2>3, <3>1
  <2> QED BY <2>1, <2>2, <2>3
<1>7. g = [j \in 1 .. n |-> sponsorships'[j].perSeat * SeatsHeld(v, j)']
  BY <1>2 DEF SeatWeight
<1>8. \A j \in 1 .. n : j # id => g[j] = f[j]
  BY <1>0, <1>1, <1>2, <1>4, <1>7 DEF SeatWeight
<1>9. g[id] = f[id] + (IF v = who THEN p ELSE 0) - (IF v = h /\ v # NoHolder THEN p ELSE 0)
  <2>1. f[id] = p * SeatsHeld(v, id) /\ g[id] = p * SeatsHeld(v, id)'
    BY <1>0, <1>2, <1>7 DEF SeatWeight
  <2> HIDE DEF f, g
  <2>2. PICK x : x = SeatsHeld(v, id)
    OBVIOUS
  <2>3. x \in Nat /\ p * (x + 1) = p * x + p /\ p * (x + (1 - 1)) = p * x /\ p * (x - 1) = p * x - p
        /\ p * (x + 0) = p * x /\ p * x \in Nat
    BY <1>1, <1>5, <2>2
  <2>4. g[id] = p * (x + ((IF v = who THEN 1 ELSE 0) - (IF v = h /\ v # NoHolder THEN 1 ELSE 0)))
    BY <1>5, <1>6, <2>1, <2>2
  <2>5. CASE v = who
    BY <1>1, <2>1, <2>2, <2>3, <2>4, <2>5
  <2>6. CASE v = h /\ v # NoHolder
    <3>1. g[id] = p * (x + (0 - 1))
      BY <1>1, <2>4, <2>6
    <3>2. x + (0 - 1) = x - 1
      BY <2>3
    <3> QED BY <1>1, <2>1, <2>2, <2>3, <2>6, <3>1, <3>2
  <2>7. CASE v # who /\ ~(v = h /\ v # NoHolder)
    BY <1>1, <2>1, <2>2, <2>3, <2>4, <2>7
  <2> QED BY <2>5, <2>6, <2>7
<1>10. g \in [1 .. n -> Int]
  <2>1. \A j \in 1 .. n : f[j] \in Int
    BY <1>3
  <2>2. g[id] \in Int
    <3>1. f[id] \in Int /\ p \in Int
      BY <1>0, <1>1, <2>1
    <3> HIDE DEF f, g
    <3> QED BY <1>9, <3>1
  <2>3. \A j \in 1 .. n : g[j] \in Int
    <3> HIDE DEF f, g
    <3> QED BY <1>8, <2>1, <2>2
  <2> QED BY <1>7, <2>3
<1> HIDE DEF f, g
<1>11. Sum(g, n) = Sum(f, n) + (g[id] - f[id])
  BY <1>0, <1>1, <1>3, <1>8, <1>10, SumChanges
<1>12. Sum(SeatWeight(v)', Len(sponsorships')) = Sum(g, n)
  BY <1>2 DEF g
<1>13. f[id] \in Nat
  BY <1>0, <1>3
<1>14. Sum(SeatWeight(v), Len(sponsorships)) = Sum(f, n)
  BY <1>0 DEF f
<1>15. Sum(g, n) = Sum(f, n) + (IF v = who THEN p ELSE 0) - (IF v = h /\ v # NoHolder THEN p ELSE 0)
  <2>1. CASE v = who
    BY <1>1, <1>3, <1>9, <1>11, <1>13, <2>1
  <2>2. CASE v = h /\ v # NoHolder
    BY <1>1, <1>3, <1>9, <1>11, <1>13, <2>2
  <2>3. CASE v # who /\ ~(v = h /\ v # NoHolder)
    BY <1>1, <1>3, <1>9, <1>11, <1>13, <2>3
  <2> QED BY <2>1, <2>2, <2>3
<1> QED BY <1>0, <1>12, <1>14, <1>15
=============================================================================
