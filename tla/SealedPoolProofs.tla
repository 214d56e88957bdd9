--------------------------- MODULE SealedPoolProofs ---------------------------
(***************************************************************************)
(* Pools that are tallied elsewhere, for any number of voters, tokens,     *)
(* projects, deposits and ballots, in the pool or in Arkiv: first what     *)
(* every call of SealedPool keeps, then what CreRankedShares and           *)
(* ZiskRankedShares conclude from it for the results they accept.          *)
(*                                                                         *)
(* SealedInv is the induction hypothesis.  That the votes a roster commits *)
(* to are never worth more than the money behind them is not inductive: it *)
(* needs what each address was given its weight for, seat by seat, and     *)
(* that no sponsorship promises more than was paid for it (MoneyInv); that *)
(* the commitment is the roster needs that nothing of it moves once the    *)
(* first chunk is hashed (ChainInv).  BallotsInv says what a committed     *)
(* ballot rests on, AwardInv that the balance covers what is owed.         *)
(***************************************************************************)
EXTENDS CreRankedShares, ZiskRankedShares, PoolBaseProofs, SequenceTheorems

SealedLedgers ==
  [voters: Seq(Voter), direct: [Voter -> Nat], seat: [Voter -> Nat], totalSeat: Nat, total: Nat]

OnRoster(L, v) == \E i \in DOMAIN L.voters : L.voters[i] = v

NoRepeats(s) == \A i, j \in DOMAIN s : s[i] = s[j] => i = j

Listed(s, w) == [i \in 1 .. Len(s) |-> w[s[i]]]

RosterTotal(s, w) == Sum(Listed(s, w), Len(s))

\* Each voter is listed once, whoever has weight is listed, and the seats add up.
LedgerOK(L) ==
  /\ L \in SealedLedgers
  /\ NoRepeats(L.voters)
  /\ \A v \in Voter : ~OnRoster(L, v) => L.direct[v] = 0 /\ L.seat[v] = 0
  /\ RosterTotal(L.voters, L.seat) = L.totalSeat

-----------------------------------------------------------------------------
(* Totals over a roster.                                                   *)

LEMMA RosterTotalNat ==
  ASSUME NEW s \in Seq(Voter), NEW w \in [Voter -> Nat]
  PROVE  /\ Len(s) \in Nat /\ DOMAIN s = 1 .. Len(s) /\ \A i \in 1 .. Len(s) : s[i] \in Voter
         /\ Listed(s, w) \in [1 .. Len(s) -> Nat] /\ Listed(s, w) \in [1 .. Len(s) -> Int]
         /\ RosterTotal(s, w) \in Nat
<1>1. Len(s) \in Nat /\ DOMAIN s = 1 .. Len(s) /\ \A i \in 1 .. Len(s) : s[i] \in Voter
  OBVIOUS
<1>2. Listed(s, w) \in [1 .. Len(s) -> Nat]
  BY <1>1 DEF Listed
<1>3. Listed(s, w) \in [1 .. Len(s) -> Int]
  BY <1>2
<1> QED BY <1>1, <1>2, <1>3, SumNat DEF RosterTotal

SameBut(w, x, who) == \A v \in Voter : v # who => x[v] = w[v]

\* The voter whose weight changes is on the list, or joins it.
Joins(s, t, w, x, who) ==
  \/ t = s /\ ((\E i \in DOMAIN s : s[i] = who) \/ x[who] = w[who])
  \/ t = Append(s, who) /\ (\A i \in DOMAIN s : s[i] # who) /\ w[who] = 0

\* A total follows the weight of the one voter that changed, who may be new.
LEMMA RosterTotalFollows ==
  ASSUME NEW s \in Seq(Voter), NoRepeats(s), NEW t,
         NEW w \in [Voter -> Nat], NEW x \in [Voter -> Nat], NEW who \in Voter,
         SameBut(w, x, who), Joins(s, t, w, x, who)
  PROVE  RosterTotal(t, x) = RosterTotal(s, w) + (x[who] - w[who])
<1>0. PICK n, f : n = Len(s) /\ f = Listed(s, w)
  OBVIOUS
<1>1. /\ n \in Nat /\ DOMAIN s = 1 .. n /\ \A i \in 1 .. n : s[i] \in Voter
      /\ f \in [1 .. n -> Int] /\ Sum(f, n) \in Nat
      /\ RosterTotal(s, w) = Sum(f, n) /\ \A i \in 1 .. n : f[i] = w[s[i]]
  BY <1>0, RosterTotalNat DEF RosterTotal, Listed
<1>2. x[who] \in Nat /\ w[who] \in Nat
  OBVIOUS
<1>3. CASE t = s /\ \E i \in DOMAIN s : s[i] = who
  <2>1. PICK k \in 1 .. n : s[k] = who
    BY <1>1, <1>3
  <2>2. PICK g : g = Listed(s, x)
    OBVIOUS
  <2>3. g \in [1 .. n -> Int] /\ \A i \in 1 .. n : g[i] = x[s[i]]
    BY <1>0, <2>2, RosterTotalNat DEF Listed
  <2>4. \A i \in 1 .. n : i # k => g[i] = f[i]
    <3>1. \A i \in 1 .. n : i # k => s[i] # who
      BY <1>1, <2>1 DEF NoRepeats
    <3> QED BY <1>1, <2>3, <3>1 DEF SameBut
  <2>5. Sum(g, n) = Sum(f, n) + (g[k] - f[k])
    BY <1>1, <2>3, <2>4, SumChanges
  <2>6. g[k] = x[who] /\ f[k] = w[who]
    BY <1>1, <2>1, <2>3
  <2>7. RosterTotal(t, x) = Sum(g, n)
    BY <1>0, <1>3, <2>2 DEF RosterTotal
  <2> QED BY <1>1, <2>5, <2>6, <2>7
<1>4. CASE t = s /\ x[who] = w[who]
  <2>1. \A i \in 1 .. n : x[s[i]] = w[s[i]]
    BY <1>1, <1>4 DEF SameBut
  <2>2. Listed(s, x) = Listed(s, w)
    BY <1>0, <2>1 DEF Listed
  <2> QED BY <1>1, <1>2, <1>4, <2>2 DEF RosterTotal
<1>5. CASE t = Append(s, who) /\ (\A i \in DOMAIN s : s[i] # who) /\ w[who] = 0
  <2>1. t \in Seq(Voter) /\ Len(t) = n + 1 /\ t[n + 1] = who /\ \A i \in 1 .. n : t[i] = s[i]
    BY <1>0, <1>1, <1>5
  <2>2. PICK g : g = Listed(t, x)
    OBVIOUS
  <2>3. g \in [1 .. (n + 1) -> Int] /\ \A i \in 1 .. (n + 1) : g[i] = x[t[i]]
    BY <2>1, <2>2, RosterTotalNat DEF Listed
  <2>4. \A i \in 1 .. n : g[i] = f[i]
    <3> SUFFICES ASSUME NEW i \in 1 .. n PROVE g[i] = f[i]
      OBVIOUS
    <3>0. s[i] # who
      BY <1>1, <1>5
    <3>1. i \in 1 .. (n + 1) /\ s[i] \in Voter /\ s[i] # who /\ t[i] = s[i]
      BY <1>1, <2>1, <3>0
    <3> QED BY <1>1, <2>3, <3>1 DEF SameBut
  <2>5. Sum(g, n + 1) = Sum(f, n) + g[n + 1]
    BY <1>1, <2>3, <2>4, SumExtends
  <2>6. g[n + 1] = x[who]
    BY <1>1, <2>1, <2>3
  <2>7. RosterTotal(t, x) = Sum(g, n + 1)
    BY <2>1, <2>2 DEF RosterTotal
  <2> QED BY <1>1, <1>2, <1>5, <2>5, <2>6, <2>7
<1> QED BY <1>3, <1>4, <1>5 DEF Joins

-----------------------------------------------------------------------------
(* Operations on the ledger.                                               *)

\* The ledger M is L with the voters of the roster still on it.
Extends(M, L) == \A v \in Voter : OnRoster(L, v) => OnRoster(M, v)

\* One address's weight changes, and it is listed unless it ends with none.
LEMMA CreditKeeps ==
  ASSUME NEW L, LedgerOK(L), NEW M \in SealedLedgers, NEW who \in Voter,
         \A v \in Voter : v # who => M.direct[v] = L.direct[v] /\ M.seat[v] = L.seat[v],
         M.totalSeat = L.totalSeat + (M.seat[who] - L.seat[who]),
         \/ M.voters = L.voters /\ (OnRoster(L, who) \/ (M.direct[who] = 0 /\ M.seat[who] = 0))
         \/ M.voters = Append(L.voters, who) /\ ~OnRoster(L, who)
  PROVE  /\ LedgerOK(M) /\ Extends(M, L)
         /\ M.voters # L.voters => OnRoster(M, who)
         /\ RosterTotal(M.voters, M.direct)
              = RosterTotal(L.voters, L.direct) + (M.direct[who] - L.direct[who])
<1>1. /\ L.voters \in Seq(Voter) /\ NoRepeats(L.voters) /\ Len(L.voters) \in Nat
      /\ DOMAIN L.voters = 1 .. Len(L.voters)
      /\ L.direct \in [Voter -> Nat] /\ L.seat \in [Voter -> Nat]
      /\ \A v \in Voter : ~OnRoster(L, v) => L.direct[v] = 0 /\ L.seat[v] = 0
      /\ RosterTotal(L.voters, L.seat) = L.totalSeat
  BY RosterTotalNat DEF LedgerOK, SealedLedgers
<1>2. /\ M.voters \in Seq(Voter) /\ M.direct \in [Voter -> Nat] /\ M.seat \in [Voter -> Nat]
  BY DEF SealedLedgers
<1>3. \/ M.voters = L.voters
           /\ ((\E i \in DOMAIN L.voters : L.voters[i] = who)
               \/ (M.direct[who] = L.direct[who] /\ M.seat[who] = L.seat[who]))
      \/ M.voters = Append(L.voters, who) /\ (\A i \in DOMAIN L.voters : L.voters[i] # who)
           /\ L.direct[who] = 0 /\ L.seat[who] = 0
  BY <1>1 DEF OnRoster
<1>4. PICK s, t, d, e, x, y : s = L.voters /\ t = M.voters /\ d = L.direct /\ e = M.direct
                              /\ x = L.seat /\ y = M.seat
  OBVIOUS
<1>5. RosterTotal(t, e) = RosterTotal(s, d) + (e[who] - d[who])
  <2>1. /\ s \in Seq(Voter) /\ NoRepeats(s) /\ d \in [Voter -> Nat] /\ e \in [Voter -> Nat]
        /\ SameBut(d, e, who) /\ Joins(s, t, d, e, who)
    BY <1>1, <1>2, <1>3, <1>4 DEF SameBut, Joins
  <2> QED BY <2>1, RosterTotalFollows
<1>6. RosterTotal(t, y) = RosterTotal(s, x) + (y[who] - x[who])
  <2>1. /\ s \in Seq(Voter) /\ NoRepeats(s) /\ x \in [Voter -> Nat] /\ y \in [Voter -> Nat]
        /\ SameBut(x, y, who) /\ Joins(s, t, x, y, who)
    BY <1>1, <1>2, <1>3, <1>4 DEF SameBut, Joins
  <2> QED BY <2>1, RosterTotalFollows
<1>7. CASE M.voters = L.voters
  <2>1. \A v \in Voter : OnRoster(M, v) <=> OnRoster(L, v)
    BY <1>7 DEF OnRoster
  <2>2. \A v \in Voter : ~OnRoster(M, v) => M.direct[v] = 0 /\ M.seat[v] = 0
    BY <1>1, <1>3, <1>7, <2>1 DEF OnRoster
  <2> QED BY <1>1, <1>4, <1>5, <1>6, <1>7, <2>1, <2>2 DEF LedgerOK, Extends
<1>8. CASE M.voters = Append(L.voters, who) /\ (\A i \in DOMAIN L.voters : L.voters[i] # who)
  <2>0. PICK n : n = Len(L.voters)
    OBVIOUS
  <2>1. /\ n \in Nat /\ DOMAIN t = 1 .. (n + 1) /\ DOMAIN s = 1 .. n /\ t[n + 1] = who
        /\ \A i \in 1 .. n : t[i] = s[i]
    BY <1>1, <1>4, <1>8, <2>0
  <2>2. \A i \in 1 .. n : s[i] # who
    BY <1>4, <1>8, <2>1
  <2>3. NoRepeats(t)
    <3> SUFFICES ASSUME NEW i \in 1 .. (n + 1), NEW j \in 1 .. (n + 1), t[i] = t[j] PROVE i = j
      BY <2>1 DEF NoRepeats
    <3>1. \A a, b \in 1 .. n : s[a] = s[b] => a = b
      BY <1>1, <1>4, <2>1 DEF NoRepeats
    <3>2. CASE i = n + 1
      BY <2>1, <2>2, <3>2
    <3>3. CASE j = n + 1
      BY <2>1, <2>2, <3>3
    <3>4. CASE i \in 1 .. n /\ j \in 1 .. n
      BY <2>1, <3>1, <3>4
    <3> QED BY <2>1, <3>2, <3>3, <3>4
  <2>4. OnRoster(M, who) /\ \A v \in Voter : OnRoster(L, v) => OnRoster(M, v)
    <3>1. n + 1 \in DOMAIN t /\ \A i \in 1 .. n : i \in DOMAIN t
      BY <2>1
    <3> QED BY <1>4, <2>1, <3>1 DEF OnRoster
  <2>5. \A v \in Voter : ~OnRoster(M, v) => M.direct[v] = 0 /\ M.seat[v] = 0
    BY <1>1, <2>4
  <2> QED BY <1>1, <1>4, <1>5, <1>6, <2>3, <2>4, <2>5 DEF LedgerOK, Extends
<1> QED BY <1>3, <1>7, <1>8


LEMMA RegisterEffect ==
  ASSUME NEW L \in SealedLedgers, NEW v \in Voter
  PROVE  LET M == Register(L, v)
         IN  /\ M \in SealedLedgers /\ OnRoster(M, v)
             /\ M.voters = IF OnRoster(L, v) THEN L.voters ELSE Append(L.voters, v)
             /\ M.direct = L.direct /\ M.seat = L.seat
             /\ M.totalSeat = L.totalSeat /\ M.total = L.total
<1> DEFINE M == Register(L, v)
<1>1. L.voters \in Seq(Voter) /\ Len(L.voters) \in Nat
  BY DEF SealedLedgers
<1>2. CASE OnRoster(L, v)
  <2>1. M = L
    BY <1>2 DEF Register, OnRoster
  <2> QED BY <1>2, <2>1
<1>3. CASE ~OnRoster(L, v)
  <2>1. PICK s : s = Append(L.voters, v)
    OBVIOUS
  <2>2. M = [L EXCEPT !.voters = s]
    BY <1>3, <2>1 DEF Register, OnRoster
  <2>3. s \in Seq(Voter) /\ Len(L.voters) + 1 \in DOMAIN s /\ s[Len(L.voters) + 1] = v
    BY <1>1, <2>1
  <2> HIDE DEF M
  <2>4. /\ M \in SealedLedgers /\ M.voters = s /\ M.direct = L.direct /\ M.seat = L.seat
        /\ M.totalSeat = L.totalSeat /\ M.total = L.total
    BY <2>2, <2>3 DEF SealedLedgers
  <2>5. OnRoster(M, v)
    BY <2>3, <2>4 DEF OnRoster
  <2> QED BY <1>3, <2>1, <2>4, <2>5 DEF M
<1> QED BY <1>2, <1>3

\* A voter that is listed before it has weight or a ballot.
LEMMA RegisterKeeps ==
  ASSUME NEW L, LedgerOK(L), NEW who \in Voter
  PROVE  LET M == Register(L, who)
         IN  /\ LedgerOK(M) /\ Extends(M, L) /\ OnRoster(M, who)
             /\ M.direct = L.direct /\ M.seat = L.seat
             /\ M.totalSeat = L.totalSeat /\ M.total = L.total
             /\ RosterTotal(M.voters, M.direct) = RosterTotal(L.voters, L.direct)
<1> DEFINE M == Register(L, who)
<1>1. /\ L \in SealedLedgers /\ L.voters \in Seq(Voter) /\ L.direct \in [Voter -> Nat]
      /\ L.seat \in [Voter -> Nat] /\ L.totalSeat \in Nat
  BY DEF LedgerOK, SealedLedgers
<1>2. /\ M \in SealedLedgers /\ OnRoster(M, who)
      /\ M.voters = IF OnRoster(L, who) THEN L.voters ELSE Append(L.voters, who)
      /\ M.direct = L.direct /\ M.seat = L.seat
      /\ M.totalSeat = L.totalSeat /\ M.total = L.total
  BY <1>1, RegisterEffect
<1> HIDE DEF M
<1>3. /\ LedgerOK(M) /\ Extends(M, L)
      /\ RosterTotal(M.voters, M.direct)
           = RosterTotal(L.voters, L.direct) + (M.direct[who] - L.direct[who])
  <2>1. M.totalSeat = L.totalSeat + (M.seat[who] - L.seat[who])
    BY <1>1, <1>2
  <2>2. \/ M.voters = L.voters /\ (OnRoster(L, who) \/ (M.direct[who] = 0 /\ M.seat[who] = 0))
        \/ M.voters = Append(L.voters, who) /\ ~OnRoster(L, who)
    BY <1>2
  <2>3. \A v \in Voter : v # who => M.direct[v] = L.direct[v] /\ M.seat[v] = L.seat[v]
    BY <1>2
  <2> QED BY <1>2, <2>1, <2>2, <2>3, CreditKeeps
<1>4. RosterTotal(M.voters, M.direct) = RosterTotal(L.voters, L.direct)
  <2>1. RosterTotal(L.voters, L.direct) \in Nat
    BY <1>1, RosterTotalNat
  <2> QED BY <1>1, <1>2, <1>3, <2>1
<1> QED BY <1>2, <1>3, <1>4 DEF M

LEMMA ContributionKeeps ==
  ASSUME NEW L, LedgerOK(L), NEW who \in Voter, NEW amount \in Nat
  PROVE  LET M == OnContribution(L, who, amount)
         IN  /\ LedgerOK(M) /\ Extends(M, L) /\ OnRoster(M, who)
             /\ M.direct = [L.direct EXCEPT ![who] = @ + amount] /\ M.seat = L.seat
             /\ M.totalSeat = L.totalSeat /\ M.total = L.total
             /\ RosterTotal(M.voters, M.direct) = RosterTotal(L.voters, L.direct) + amount
<1> DEFINE M == OnContribution(L, who, amount)
<1>1. /\ L \in SealedLedgers /\ L.voters \in Seq(Voter) /\ L.direct \in [Voter -> Nat]
      /\ L.seat \in [Voter -> Nat] /\ L.totalSeat \in Nat
  BY DEF LedgerOK, SealedLedgers
<1>2. PICK d : d = [L.direct EXCEPT ![who] = @ + amount]
  OBVIOUS
<1>3. PICK T : T = [L EXCEPT !.direct = d]
  OBVIOUS
<1>4. d \in [Voter -> Nat] /\ d[who] = L.direct[who] + amount /\ \A v \in Voter : v # who => d[v] = L.direct[v]
  BY <1>1, <1>2
<1>5. /\ T \in SealedLedgers /\ T.voters = L.voters /\ T.direct = d /\ T.seat = L.seat
      /\ T.totalSeat = L.totalSeat /\ T.total = L.total
  BY <1>1, <1>3, <1>4 DEF SealedLedgers
<1>6. M = Register(T, who)
  <2>1. T = [L EXCEPT !.direct[who] = @ + amount]
    BY <1>1, <1>2, <1>3 DEF SealedLedgers
  <2> QED BY <2>1 DEF OnContribution
<1>7. /\ M \in SealedLedgers /\ OnRoster(M, who)
      /\ M.voters = IF OnRoster(T, who) THEN T.voters ELSE Append(T.voters, who)
      /\ M.direct = T.direct /\ M.seat = T.seat
      /\ M.totalSeat = T.totalSeat /\ M.total = T.total
  BY <1>5, <1>6, RegisterEffect
<1>8. OnRoster(T, who) <=> OnRoster(L, who)
  BY <1>5 DEF OnRoster
<1> HIDE DEF M
<1>9. /\ LedgerOK(M) /\ Extends(M, L)
      /\ RosterTotal(M.voters, M.direct)
           = RosterTotal(L.voters, L.direct) + (M.direct[who] - L.direct[who])
  <2>1. M.totalSeat = L.totalSeat + (M.seat[who] - L.seat[who])
    BY <1>1, <1>5, <1>7
  <2>2. \/ M.voters = L.voters /\ (OnRoster(L, who) \/ (M.direct[who] = 0 /\ M.seat[who] = 0))
        \/ M.voters = Append(L.voters, who) /\ ~OnRoster(L, who)
    BY <1>5, <1>7, <1>8
  <2>3. \A v \in Voter : v # who => M.direct[v] = L.direct[v] /\ M.seat[v] = L.seat[v]
    BY <1>4, <1>5, <1>7
  <2> QED BY <1>7, <2>1, <2>2, <2>3, CreditKeeps
<1>10. M.direct[who] - L.direct[who] = amount
  BY <1>1, <1>4, <1>5, <1>7
<1> QED BY <1>2, <1>5, <1>7, <1>9, <1>10 DEF M

LEMMA SeatGrantKeeps ==
  ASSUME NEW L, LedgerOK(L), NEW who \in Voter, NEW p \in Nat
  PROVE  LET M == OnSeatGranted(L, who, p)
         IN  /\ LedgerOK(M) /\ Extends(M, L) /\ OnRoster(M, who)
             /\ M.direct = L.direct /\ M.seat = [L.seat EXCEPT ![who] = @ + p]
             /\ M.totalSeat = L.totalSeat + p /\ M.total = L.total
             /\ RosterTotal(M.voters, M.direct) = RosterTotal(L.voters, L.direct)
<1> DEFINE M == OnSeatGranted(L, who, p)
<1>1. /\ L \in SealedLedgers /\ L.voters \in Seq(Voter) /\ L.direct \in [Voter -> Nat]
      /\ L.seat \in [Voter -> Nat] /\ L.totalSeat \in Nat
  BY DEF LedgerOK, SealedLedgers
<1>2. PICK x : x = [L.seat EXCEPT ![who] = @ + p]
  OBVIOUS
<1>0. PICK s : s = L.totalSeat + p
  OBVIOUS
<1>3. PICK T : T = [L EXCEPT !.seat = x, !.totalSeat = s]
  OBVIOUS
<1>4. x \in [Voter -> Nat] /\ x[who] = L.seat[who] + p /\ \A v \in Voter : v # who => x[v] = L.seat[v]
  BY <1>1, <1>2
<1>5. /\ T \in SealedLedgers /\ T.voters = L.voters /\ T.direct = L.direct /\ T.seat = x
      /\ T.totalSeat = L.totalSeat + p /\ T.total = L.total
  <2>1. s \in Nat
    BY <1>0, <1>1
  <2> QED BY <1>0, <1>1, <1>3, <1>4, <2>1 DEF SealedLedgers
<1>6. M = Register(T, who)
  <2>1. T = [L EXCEPT !.seat[who] = @ + p, !.totalSeat = @ + p]
    BY <1>0, <1>1, <1>2, <1>3 DEF SealedLedgers
  <2> QED BY <2>1 DEF OnSeatGranted
<1>7. /\ M \in SealedLedgers /\ OnRoster(M, who)
      /\ M.voters = IF OnRoster(T, who) THEN T.voters ELSE Append(T.voters, who)
      /\ M.direct = T.direct /\ M.seat = T.seat
      /\ M.totalSeat = T.totalSeat /\ M.total = T.total
  BY <1>5, <1>6, RegisterEffect
<1>8. OnRoster(T, who) <=> OnRoster(L, who)
  BY <1>5 DEF OnRoster
<1> HIDE DEF M
<1>9. M.seat[who] - L.seat[who] = p /\ M.direct[who] - L.direct[who] = 0
  BY <1>1, <1>4, <1>5, <1>7
<1>10. /\ LedgerOK(M) /\ Extends(M, L)
       /\ RosterTotal(M.voters, M.direct)
            = RosterTotal(L.voters, L.direct) + (M.direct[who] - L.direct[who])
  <2>1. M.totalSeat = L.totalSeat + (M.seat[who] - L.seat[who])
    BY <1>5, <1>7, <1>9
  <2>2. \/ M.voters = L.voters /\ (OnRoster(L, who) \/ (M.direct[who] = 0 /\ M.seat[who] = 0))
        \/ M.voters = Append(L.voters, who) /\ ~OnRoster(L, who)
    BY <1>5, <1>7, <1>8
  <2>3. \A v \in Voter : v # who => M.direct[v] = L.direct[v] /\ M.seat[v] = L.seat[v]
    BY <1>4, <1>5, <1>7
  <2> QED BY <1>7, <2>1, <2>2, <2>3, CreditKeeps
<1>11. RosterTotal(M.voters, M.direct) = RosterTotal(L.voters, L.direct)
  <2>1. RosterTotal(L.voters, L.direct) \in Nat
    BY <1>1, RosterTotalNat
  <2> QED BY <1>9, <1>10, <2>1
<1> QED BY <1>2, <1>5, <1>7, <1>10, <1>11 DEF M


LEMMA RevokeKeeps ==
  ASSUME NEW L, LedgerOK(L), NEW who \in Voter, NEW p \in Nat, CanRevoke(L, who, p)
  PROVE  LET M == OnSeatRevoked(L, who, p)
         IN  /\ LedgerOK(M) /\ Extends(M, L) /\ M.voters = L.voters
             /\ M.direct = L.direct /\ M.seat = [L.seat EXCEPT ![who] = @ - p]
             /\ M.totalSeat = L.totalSeat - p /\ M.total = L.total
<1> DEFINE M == OnSeatRevoked(L, who, p)
<1>1. /\ L \in SealedLedgers /\ L.voters \in Seq(Voter) /\ L.direct \in [Voter -> Nat]
      /\ L.seat \in [Voter -> Nat] /\ L.totalSeat \in Nat
      /\ NoRepeats(L.voters) /\ RosterTotal(L.voters, L.seat) = L.totalSeat
      /\ \A v \in Voter : ~OnRoster(L, v) => L.direct[v] = 0 /\ L.seat[v] = 0
  BY DEF LedgerOK, SealedLedgers
<1>2. PICK x, k : x = [L.seat EXCEPT ![who] = @ - p] /\ k = L.totalSeat - p
  OBVIOUS
<1>3. L.seat[who] >= p /\ (~OnRoster(L, who) => p = 0 /\ L.direct[who] = 0 /\ L.seat[who] = 0)
  <2>1. L.seat[who] >= p /\ L.seat[who] \in Nat
    BY <1>1 DEF CanRevoke
  <2> QED BY <1>1, <2>1
<1>4. x \in [Voter -> Nat] /\ x[who] = L.seat[who] - p /\ \A v \in Voter : v # who => x[v] = L.seat[v]
  BY <1>1, <1>2, <1>3
<1>5. RosterTotal(L.voters, x) = L.totalSeat - p
  <2>1. (\E i \in DOMAIN L.voters : L.voters[i] = who) \/ x[who] = L.seat[who]
    BY <1>1, <1>3, <1>4 DEF OnRoster
  <2>2. PICK s, w : s = L.voters /\ w = L.seat
    OBVIOUS
  <2>3. RosterTotal(s, x) = RosterTotal(s, w) + (x[who] - w[who])
    <3>1. /\ s \in Seq(Voter) /\ NoRepeats(s) /\ w \in [Voter -> Nat] /\ x \in [Voter -> Nat]
          /\ SameBut(w, x, who) /\ Joins(s, s, w, x, who)
      BY <1>1, <1>4, <2>1, <2>2 DEF SameBut, Joins
    <3> QED BY <3>1, RosterTotalFollows
  <2>4. w[who] \in Nat
    BY <1>1, <2>2
  <2> QED BY <1>1, <1>4, <2>2, <2>3, <2>4
<1>6. k \in Nat
  <2>1. RosterTotal(L.voters, x) \in Nat
    BY <1>1, <1>4, RosterTotalNat
  <2> QED BY <1>2, <1>5, <2>1
<1>7. M = [L EXCEPT !.seat = x, !.totalSeat = k]
  BY <1>1, <1>2 DEF OnSeatRevoked, SealedLedgers
<1> HIDE DEF M
<1>8. /\ M \in SealedLedgers /\ M.voters = L.voters /\ M.direct = L.direct /\ M.seat = x
      /\ M.totalSeat = k /\ M.total = L.total
  BY <1>1, <1>4, <1>6, <1>7 DEF SealedLedgers
<1>9. LedgerOK(M) /\ Extends(M, L)
  <2>1. M.totalSeat = L.totalSeat + (M.seat[who] - L.seat[who])
    <3>1. L.seat[who] \in Nat
      BY <1>1
    <3> QED BY <1>1, <1>2, <1>4, <1>8, <3>1
  <2>2. M.voters = L.voters /\ (OnRoster(L, who) \/ (M.direct[who] = 0 /\ M.seat[who] = 0))
    BY <1>3, <1>4, <1>8
  <2>3. \A v \in Voter : v # who => M.direct[v] = L.direct[v] /\ M.seat[v] = L.seat[v]
    BY <1>4, <1>8
  <2> QED BY <1>8, <2>1, <2>2, <2>3, CreditKeeps
<1> QED BY <1>2, <1>8, <1>9 DEF M

LEMMA BudgetKeeps ==
  ASSUME NEW L, LedgerOK(L), NEW amount \in Nat
  PROVE  LET M == AddBudget(L, amount)
         IN  /\ LedgerOK(M) /\ Extends(M, L) /\ M.voters = L.voters
             /\ M.direct = L.direct /\ M.seat = L.seat /\ M.totalSeat = L.totalSeat
             /\ M.total = L.total + amount
<1> DEFINE M == AddBudget(L, amount)
<1>1. L \in SealedLedgers /\ L.total \in Nat
  BY DEF LedgerOK, SealedLedgers
<1>2. PICK k : k = L.total + amount
  OBVIOUS
<1>3. M = [L EXCEPT !.total = k] /\ k \in Nat
  BY <1>1, <1>2 DEF AddBudget
<1> HIDE DEF M
<1>4. /\ M \in SealedLedgers /\ M.voters = L.voters /\ M.direct = L.direct /\ M.seat = L.seat
      /\ M.totalSeat = L.totalSeat /\ M.total = k
  BY <1>1, <1>3 DEF SealedLedgers
<1>5. \A v \in Voter : OnRoster(M, v) <=> OnRoster(L, v)
  BY <1>4 DEF OnRoster
<1>6. LedgerOK(M) /\ Extends(M, L)
  BY <1>4, <1>5 DEF LedgerOK, Extends
<1> QED BY <1>2, <1>4, <1>6 DEF M


\* The loop of sponsor() exists as a function and unfolds one seat at a time.
LEMMA GrantSeatsUnfold ==
  ASSUME NEW L, NEW members, Len(members) \in Nat, NEW p
  PROVE  \E granted :
           /\ granted[0] = L
           /\ \A i \in 1 .. Len(members) : granted[i] = OnSeatGranted(granted[i - 1], members[i], p)
           /\ GrantSeats(L, members, p) = granted[Len(members)]
<1> DEFINE n == Len(members)
           IsLoop(f, k) == f = [i \in 0 .. k |-> IF i = 0 THEN L ELSE OnSeatGranted(f[i - 1], members[i], p)]
           G == {k \in Nat : k <= n => \E f : IsLoop(f, k)}
<1>1. 0 \in G
  <2> DEFINE f == [i \in 0 .. 0 |-> L]
  <2>1. IsLoop(f, 0)
    OBVIOUS
  <2> QED BY <2>1
<1>2. ASSUME NEW k \in G PROVE k + 1 \in G
  <2> SUFFICES ASSUME k + 1 <= n PROVE \E f : IsLoop(f, k + 1)
    <3> HIDE DEF IsLoop
    <3> QED OBVIOUS
  <2>1. PICK f : IsLoop(f, k)
    OBVIOUS
  <2> DEFINE g == [i \in 0 .. (k + 1) |-> IF i = k + 1 THEN OnSeatGranted(f[k], members[k + 1], p) ELSE f[i]]
  <2>2. \A i \in 0 .. (k + 1) : g[i] = IF i = 0 THEN L ELSE OnSeatGranted(g[i - 1], members[i], p)
    <3> TAKE i \in 0 .. (k + 1)
    <3>1. CASE i = k + 1
      <4>1. g[i] = OnSeatGranted(f[k], members[k + 1], p) /\ g[i - 1] = f[k]
        BY <3>1
      <4> HIDE DEF g
      <4> QED BY <3>1, <4>1
    <3>2. CASE i # k + 1
      <4>1. i \in 0 .. k /\ g[i] = f[i] /\ (i # 0 => g[i - 1] = f[i - 1])
        BY <3>2
      <4>2. f[i] = IF i = 0 THEN L ELSE OnSeatGranted(f[i - 1], members[i], p)
        BY <4>1, <2>1
      <4> HIDE DEF g
      <4> QED BY <4>1, <4>2
    <3> QED BY <3>1, <3>2
  <2>3. IsLoop(g, k + 1)
    <3>1. g = [i \in 0 .. (k + 1) |-> g[i]]
      OBVIOUS
    <3> HIDE DEF g
    <3> QED BY <2>2, <3>1
  <2> HIDE DEF g, IsLoop
  <2> QED BY <2>3
<1>3. n \in G
  <2> HIDE DEF G
  <2> G \in SUBSET Nat
    BY DEF G
  <2> QED BY <1>1, <1>2, InductionOnSets
<1> DEFINE granted == CHOOSE f : IsLoop(f, n)
<1>4. IsLoop(granted, n)
  <2>1. \E f : IsLoop(f, n)
    BY <1>3
  <2> HIDE DEF IsLoop
  <2> QED BY <2>1
<1>5. GrantSeats(L, members, p) = granted[n]
  BY DEF GrantSeats
<1> HIDE DEF granted
<1>6. granted[0] = L /\ \A i \in 1 .. n : granted[i] = OnSeatGranted(granted[i - 1], members[i], p)
  BY <1>4
<1> QED BY <1>5, <1>6

\* A list sponsorship gives every named address its share as often as it is
\* named, and leaves the money given directly alone.
LEMMA GrantSeatsKeeps ==
  ASSUME NEW L, LedgerOK(L), NEW members \in Seq(Voter), NEW p \in Nat
  PROVE  LET M == GrantSeats(L, members, p)
         IN  /\ LedgerOK(M) /\ Extends(M, L)
             /\ M.direct = L.direct /\ M.total = L.total
             /\ M.totalSeat = L.totalSeat + p * Len(members)
             /\ \A v \in Voter : M.seat[v] = L.seat[v] + p * Times(members, v, Len(members))
             /\ RosterTotal(M.voters, M.direct) = RosterTotal(L.voters, L.direct)
<1> DEFINE n == Len(members)
<1>0. n \in Nat /\ \A i \in 1 .. n : members[i] \in Voter
  OBVIOUS
<1>1. PICK granted :
        /\ granted[0] = L
        /\ \A i \in 1 .. n : granted[i] = OnSeatGranted(granted[i - 1], members[i], p)
        /\ GrantSeats(L, members, p) = granted[n]
  <2>1. Len(members) \in Nat
    OBVIOUS
  <2>2. PICK g : g = GrantSeats(L, members, p)
    OBVIOUS
  <2> QED BY <2>1, <2>2, GrantSeatsUnfold
<1> HIDE DEF n
<1> DEFINE Good(k, M) == /\ LedgerOK(M) /\ Extends(M, L)
                         /\ M.direct = L.direct /\ M.total = L.total
                         /\ M.totalSeat = L.totalSeat + p * k
                         /\ \A v \in Voter : M.seat[v] = L.seat[v] + p * Times(members, v, k)
                         /\ RosterTotal(M.voters, M.direct) = RosterTotal(L.voters, L.direct)
           G == {k \in Nat : k <= n => Good(k, granted[k])}
<1>2. L.totalSeat \in Nat /\ L.seat \in [Voter -> Nat]
  BY DEF LedgerOK, SealedLedgers
<1>3. 0 \in G
  <2>1. \A v \in Voter : Times(members, v, 0) = 0
    BY TimesStep
  <2> QED BY <1>1, <1>2, <2>1 DEF Extends
<1>4. ASSUME NEW k \in G, k < n PROVE k + 1 \in G
  <2> DEFINE A == granted[k]
             v == members[k + 1]
             M == OnSeatGranted(A, v, p)
  <2>1. k \in Nat /\ k + 1 \in 1 .. n /\ (k + 1) - 1 = k
    BY <1>0, <1>4
  <2>2. Good(k, A)
    BY <1>4, <1>0, <2>1
  <2>3. v \in Voter /\ granted[k + 1] = M
    BY <1>0, <1>1, <2>1
  <2> HIDE DEF v, A
  <2>4. p * (k + 1) = p * k + p /\ p * k \in Nat
    BY <2>1
  <2>5. LedgerOK(A)
    BY <2>2
  <2>6. /\ LedgerOK(M) /\ Extends(M, A)
        /\ M.direct = A.direct /\ M.seat = [A.seat EXCEPT ![v] = @ + p]
        /\ M.totalSeat = A.totalSeat + p /\ M.total = A.total
        /\ RosterTotal(M.voters, M.direct) = RosterTotal(A.voters, A.direct)
    BY <2>3, <2>5, SeatGrantKeeps
  <2>7. ASSUME NEW u \in Voter
        PROVE  M.seat[u] = L.seat[u] + p * Times(members, u, k + 1)
    <3>1. A.seat \in [Voter -> Nat] /\ A.seat[u] = L.seat[u] + p * Times(members, u, k)
      BY <2>2 DEF LedgerOK, SealedLedgers
    <3>2. Times(members, u, k) \in Nat
          /\ Times(members, u, k + 1) = Times(members, u, k) + IF v = u THEN 1 ELSE 0
      <4> HIDE DEF G, Good, M
      <4> QED BY <2>1, TimesStep DEF v
    <3>3. M.seat[u] = A.seat[u] + IF v = u THEN p ELSE 0
      BY <2>3, <2>6, <3>1
    <3>5. L.seat[u] \in Nat
      BY <1>2
    <3> HIDE DEF G, Good, M
    <3>4. p * (Times(members, u, k) + 1) = p * Times(members, u, k) + p
          /\ p * Times(members, u, k) \in Nat
      BY <3>2, ProductStep
    <3>6. CASE v = u
      <4>1. PICK a, b : a = p * Times(members, u, k) /\ b = L.seat[u]
        OBVIOUS
      <4>2. p * Times(members, u, k + 1) = a + p
        BY <3>2, <3>4, <3>6, <4>1
      <4>3. M.seat[u] = (b + a) + p
        BY <3>1, <3>3, <3>6, <4>1
      <4>4. a \in Nat /\ b \in Nat
        BY <3>4, <3>5, <4>1
      <4> QED BY <4>1, <4>2, <4>3, <4>4
    <3>7. CASE v # u
      BY <3>1, <3>2, <3>3, <3>4, <3>5, <3>7
    <3> QED BY <3>6, <3>7
  <2>8. Good(k + 1, M)
    <3>1. Extends(M, L)
      BY <2>2, <2>6 DEF Extends
    <3>2. M.totalSeat = L.totalSeat + p * (k + 1) /\ M.total = L.total /\ M.direct = L.direct
      BY <1>2, <2>2, <2>4, <2>6
    <3>3. RosterTotal(M.voters, M.direct) = RosterTotal(L.voters, L.direct)
      BY <2>2, <2>6
    <3> QED BY <2>6, <2>7, <3>1, <3>2, <3>3
  <2> HIDE DEF Good, M
  <2> QED BY <2>1, <2>3, <2>8
<1>5. Good(n, granted[n])
  <2> HIDE DEF Good
  <2>1. G \in SUBSET Nat
    OBVIOUS
  <2> HIDE DEF G
  <2>2. 0 .. n \subseteq G
    BY <1>0, <1>3, <1>4, <2>1, InductionUpTo
  <2> QED BY <1>0, <2>2 DEF G
<1> QED BY <1>1, <1>5 DEF n


-----------------------------------------------------------------------------
(* The induction hypothesis.                                               *)

SealedTypeOK ==
  /\ costs \in Seq(Nat \ {0})
  /\ directBallot \in [Voter -> Seq(Nat)] /\ sealedBallot \in [Voter -> Seq(Nat)]
  /\ publicRefs \in [Voter -> [payload: Seq(Nat), revision: Nat]]
  /\ sealedRefs \in [Voter -> [payload: Seq(Nat), revision: Nat]]
  /\ arkivBallots \in BOOLEAN /\ votingOpen \in BOOLEAN /\ pastDeadline \in BOOLEAN
  /\ closed \in BOOLEAN /\ finality \in {"None", "Attested", "Proven", "Abandoned"}
  /\ balance \in Nat /\ contributed \in [Voter -> Nat]
  /\ CustodyOK(Voter)

\* What was paid for each sponsorship, and what was handed out of it so far.
Paid == [id \in 1 .. Len(sponsorships) |-> sponsorships[id].amount]

Handed == [id \in 1 .. Len(sponsorships) |-> sponsorships[id].perSeat * sponsorships[id].claimed]

\* Where every unit of weight and of the budget comes from.
MoneyInv ==
  /\ ledger.direct = contributed
  /\ \A v \in Voter : ledger.seat[v] = Sum(SeatWeight(v), Len(sponsorships))
  /\ ledger.total = RosterTotal(ledger.voters, ledger.direct) + Sum(Paid, Len(sponsorships))
  /\ ledger.totalSeat = Sum(Handed, Len(sponsorships))

NoBallots ==
  \A v \in Voter : /\ directBallot[v] = << >> /\ sealedBallot[v] = << >>
                   /\ publicRefs[v] = NoRef /\ sealedRefs[v] = NoRef

\* A voter with a ballot is listed; the ballot fits the projects and is backed.
BallotOK(v) ==
  /\ publicRefs[v].revision = 0 => publicRefs[v].payload = << >>
  /\ sealedRefs[v].revision = 0 => sealedRefs[v].payload = << >>
  /\ PublicBallot(v) # << >> => /\ OnRoster(ledger, v)
                                /\ contributed[v] > 0 /\ contributed[v] >= MinDirectVote
                                /\ Len(PublicBallot(v)) = Len(costs)
  /\ SealedBallot(v) # << >> => OnRoster(ledger, v) /\ Len(SealedBallot(v)) = 1 + Len(costs)

BallotsInv == (~votingOpen => NoBallots) /\ \A v \in Voter : BallotOK(v)

Entries == [voter: Voter, direct: Nat, seat: Nat, public: Seq(Nat), sealed: Seq(Nat)]

\* The chain is the roster as far as it is walked, from the deadline on only.
ChainInv ==
  /\ voterChain \in Seq(Entries)
  /\ closeCursor \in 0 .. Len(ledger.voters) /\ Len(voterChain) = closeCursor
  /\ \A i \in 1 .. closeCursor : voterChain[i] = Roster[i]
  /\ closed => closeCursor = Len(ledger.voters) /\ inputsHash = Commitment(Roster)
  /\ closeCursor > 0 \/ closed \/ finality # "None" => votingOpen /\ pastDeadline
  /\ finality = "None" /\ (closeCursor > 0 \/ closed) => balance >= ledger.total

FundedCosts == [c \in 1 .. Len(costs) |-> IF c \in funded THEN costs[c] ELSE 0]

ClaimedCosts == [c \in 1 .. Len(costs) |-> IF c \in claimed THEN costs[c] ELSE 0]

\* What the result cost, what of it was paid, and the money for the rest.
AwardInv ==
  /\ claimed \subseteq funded /\ funded \subseteq 1 .. Len(costs)
  /\ claimedTotal = Sum(ClaimedCosts, Len(costs))
  /\ spent = Sum(FundedCosts, Len(costs))
  /\ finality = "None" => funded = {}
  /\ finality # "None" => balance >= spent - claimedTotal

SealedInv == SealedTypeOK /\ LedgerOK(ledger) /\ MoneyInv /\ BallotsInv /\ ChainInv /\ AwardInv

-----------------------------------------------------------------------------
(* Phases, the roster, and what each part of SealedInv depends on.         *)

LEMMA Phases ==
  /\ phase = "Setup" => ~votingOpen /\ finality = "None" /\ ~closed
  /\ phase = "Open" => votingOpen /\ ~pastDeadline /\ finality = "None" /\ ~closed
  /\ phase = "Closing" => votingOpen /\ pastDeadline /\ finality = "None" /\ ~closed
  /\ phase = "Tally" => finality = "None" /\ closed
  /\ phase = "Done" => finality # "None"
BY DEF phase

LEMMA RosterIs ==
  ASSUME SealedTypeOK, LedgerOK(ledger)
  PROVE  /\ Len(ledger.voters) \in Nat /\ DOMAIN ledger.voters = 1 .. Len(ledger.voters)
         /\ Roster \in Seq(Entries) /\ Len(Roster) = Len(ledger.voters)
         /\ \A i \in 1 .. Len(ledger.voters) :
              LET v == ledger.voters[i]
              IN  v \in Voter /\ Roster[i] = Entry(v, PublicBallot(v), SealedBallot(v))
         /\ \A i \in 1 .. Len(ledger.voters) : Roster[i] \in Entries
<1> DEFINE n == Len(ledger.voters)
<1>1. /\ n \in Nat /\ DOMAIN ledger.voters = 1 .. n /\ \A i \in 1 .. n : ledger.voters[i] \in Voter
      /\ ledger.direct \in [Voter -> Nat] /\ ledger.seat \in [Voter -> Nat]
  BY DEF LedgerOK, SealedLedgers
<1> HIDE DEF n
<1>2. ASSUME NEW v \in Voter PROVE Entry(v, PublicBallot(v), SealedBallot(v)) \in Entries
  <2>1. PublicBallot(v) \in Seq(Nat) /\ SealedBallot(v) \in Seq(Nat)
    BY DEF SealedTypeOK, PublicBallot, SealedBallot
  <2> QED BY <1>1, <2>1 DEF Entry, Entries
<1>3. Roster = [i \in 1 .. n |-> Entry(ledger.voters[i], PublicBallot(ledger.voters[i]),
                                         SealedBallot(ledger.voters[i]))]
  BY <1>1 DEF Roster
<1>4. \A i \in 1 .. n : Roster[i] \in Entries
  BY <1>1, <1>2, <1>3
<1>5. Roster \in Seq(Entries) /\ Len(Roster) = n
  <2>1. Roster \in [1 .. n -> Entries]
    BY <1>3, <1>4
  <2> QED BY <1>1, <2>1
<1> QED BY <1>1, <1>3, <1>4, <1>5 DEF n

\* Nothing is committed, decided or paid before the deadline of an open vote.
LEMMA Early ==
  ASSUME SealedInv, ~(votingOpen /\ pastDeadline)
  PROVE  /\ closeCursor = 0 /\ ~closed /\ finality = "None" /\ voterChain = << >>
         /\ funded = {} /\ claimed = {} /\ spent = 0 /\ claimedTotal = 0
<1>1. Len(costs) \in Nat /\ closeCursor = 0 /\ ~closed /\ finality = "None" /\ funded = {} /\ claimed = {}
  BY DEF SealedInv, SealedTypeOK, ChainInv, AwardInv
<1>2. /\ FundedCosts \in [1 .. Len(costs) -> Int] /\ ClaimedCosts \in [1 .. Len(costs) -> Int]
      /\ \A c \in 1 .. Len(costs) : FundedCosts[c] = 0 /\ ClaimedCosts[c] = 0
  BY <1>1 DEF FundedCosts, ClaimedCosts
<1>3. Sum(FundedCosts, Len(costs)) = 0 /\ Sum(ClaimedCosts, Len(costs)) = 0
  BY <1>1, <1>2, SumOfZeros
<1>4. voterChain = << >>
  BY <1>1 DEF SealedInv, ChainInv
<1> QED BY <1>1, <1>3, <1>4 DEF SealedInv, AwardInv

\* Before that, only the ledger, the ballots and the money have to be right.
LEMMA EarlyKeeps ==
  ASSUME SealedInv, ~(votingOpen /\ pastDeadline), UNCHANGED <<tallyVars, payVars>>,
         SealedTypeOK', LedgerOK(ledger'), MoneyInv', BallotsInv'
  PROVE  SealedInv'
<1>1. UNCHANGED <<closed, closeCursor, voterChain, inputsHash, finality, funded, spent,
                  claimed, claimedTotal>>
  BY DEF tallyVars, closeVars, resultVars, payVars
<1>2. /\ closeCursor' = 0 /\ ~closed' /\ finality' = "None" /\ voterChain' = << >>
      /\ funded' = {} /\ claimed' = {} /\ spent' = 0 /\ claimedTotal' = 0
  BY <1>1, Early
<1>3. ChainInv'
  <2>1. ledger'.voters \in Seq(Voter)
    BY DEF LedgerOK, SealedLedgers
  <2>2. Len(ledger'.voters) \in Nat /\ << >> \in Seq(Entries)
    BY <2>1
  <2> QED BY <1>2, <2>2 DEF ChainInv
<1>4. AwardInv'
  <2>1. Len(costs') \in Nat
    BY DEF SealedTypeOK
  <2>2. /\ FundedCosts' \in [1 .. Len(costs') -> Int] /\ ClaimedCosts' \in [1 .. Len(costs') -> Int]
        /\ \A c \in 1 .. Len(costs') : FundedCosts'[c] = 0 /\ ClaimedCosts'[c] = 0
    BY <1>2 DEF FundedCosts, ClaimedCosts
  <2>3. Sum(FundedCosts', Len(costs')) = 0 /\ Sum(ClaimedCosts', Len(costs')) = 0
    BY <2>1, <2>2, SumOfZeros
  <2>4. (spent = Sum(FundedCosts, Len(costs)))' /\ (claimedTotal = Sum(ClaimedCosts, Len(costs)))'
    BY <1>2, <2>3
  <2> QED BY <1>2, <2>4 DEF AwardInv
<1>5. LedgerOK(ledger)'
  BY DEF LedgerOK, NoRepeats, OnRoster, RosterTotal, Listed
<1> QED BY <1>3, <1>4, <1>5 DEF SealedInv


-----------------------------------------------------------------------------
(* Where weight and budget come from.                                      *)

LEMMA SumsOfSponsorships ==
  ASSUME CustodyOK(Voter)
  PROVE  /\ Len(sponsorships) \in Nat
         /\ Paid \in [1 .. Len(sponsorships) -> Nat] /\ Paid \in [1 .. Len(sponsorships) -> Int]
         /\ Handed \in [1 .. Len(sponsorships) -> Nat] /\ Handed \in [1 .. Len(sponsorships) -> Int]
         /\ Sum(Paid, Len(sponsorships)) \in Nat /\ Sum(Handed, Len(sponsorships)) \in Nat
         /\ Sum(Handed, Len(sponsorships)) <= Sum(Paid, Len(sponsorships))
<1> DEFINE n == Len(sponsorships)
<1>1. n \in Nat /\ \A id \in 1 .. n : sponsorships[id] \in Sponsorship(Voter)
  BY DEF CustodyOK
<1> HIDE DEF n
<1>2. ASSUME NEW id \in 1 .. n
      PROVE  /\ sponsorships[id].amount \in Nat
             /\ sponsorships[id].perSeat * sponsorships[id].claimed \in Nat
             /\ sponsorships[id].perSeat * sponsorships[id].claimed <= sponsorships[id].amount
  <2>1. PICK a, p, s, k : a = sponsorships[id].amount /\ p = sponsorships[id].perSeat
                          /\ s = sponsorships[id].seats /\ k = sponsorships[id].claimed
    OBVIOUS
  <2>2. a \in Nat /\ p \in Nat /\ s \in Nat /\ k \in Nat /\ k <= s /\ p * s <= a
    BY <1>1, <2>1 DEF Sponsorship
  <2>3. p * k \in Nat /\ p * s \in Nat /\ p * k <= p * s
    BY <2>2, ProductMonotone
  <2>4. p * k <= a
    BY <2>2, <2>3
  <2> QED BY <2>1, <2>2, <2>3, <2>4
<1>3. /\ Paid \in [1 .. n -> Nat] /\ Handed \in [1 .. n -> Nat]
      /\ \A id \in 1 .. n : Handed[id] <= Paid[id]
  BY <1>2 DEF Paid, Handed, n
<1>4. Paid \in [1 .. n -> Int] /\ Handed \in [1 .. n -> Int]
  BY <1>3
<1>5. Sum(Handed, n) <= Sum(Paid, n) /\ Sum(Handed, n) \in Nat /\ Sum(Paid, n) \in Nat
  BY <1>1, <1>3, SumBounds
<1> QED BY <1>1, <1>3, <1>4, <1>5 DEF n

\* Nobody's weight moves, though somebody may have been listed.
LEMMA MoneyStays ==
  ASSUME MoneyInv, UNCHANGED <<sponsorships, seatHolder, contributed>>,
         ledger'.direct = ledger.direct, ledger'.seat = ledger.seat,
         ledger'.totalSeat = ledger.totalSeat, ledger'.total = ledger.total,
         RosterTotal(ledger'.voters, ledger'.direct) = RosterTotal(ledger.voters, ledger.direct)
  PROVE  MoneyInv'
<1>1. Paid' = Paid /\ Handed' = Handed
  BY DEF Paid, Handed
<1>2. \A v : SeatWeight(v)' = SeatWeight(v)
  BY DEF SeatWeight, SeatsHeld
<1>3. RosterTotal(ledger.voters, ledger.direct)' = RosterTotal(ledger'.voters, ledger'.direct)
  BY DEF RosterTotal, Listed
<1>4. ledger'.direct = contributed' /\ \A v \in Voter : ledger'.seat[v] = Sum(SeatWeight(v)', Len(sponsorships'))
  BY <1>2 DEF MoneyInv
<1> HIDE DEF SeatWeight, Paid, Handed
<1>5. /\ ledger'.total = RosterTotal(ledger.voters, ledger.direct)' + Sum(Paid', Len(sponsorships'))
      /\ ledger'.totalSeat = Sum(Handed', Len(sponsorships'))
  BY <1>1, <1>3 DEF MoneyInv
<1> QED BY <1>4, <1>5 DEF MoneyInv

LEMMA MoneyByDeposit ==
  ASSUME MoneyInv, SealedTypeOK, LedgerOK(ledger), NEW who \in Voter, NEW amount \in Nat,
         UNCHANGED <<sponsorships, seatHolder>>,
         contributed' = [contributed EXCEPT ![who] = @ + amount],
         ledger'.direct = [ledger.direct EXCEPT ![who] = @ + amount], ledger'.seat = ledger.seat,
         ledger'.totalSeat = ledger.totalSeat, ledger'.total = ledger.total + amount,
         RosterTotal(ledger'.voters, ledger'.direct)
           = RosterTotal(ledger.voters, ledger.direct) + amount
  PROVE  MoneyInv'
<1>1. Paid' = Paid /\ Handed' = Handed
  BY DEF Paid, Handed
<1>2. \A v : SeatWeight(v)' = SeatWeight(v)
  BY DEF SeatWeight, SeatsHeld
<1>3. RosterTotal(ledger.voters, ledger.direct)' = RosterTotal(ledger'.voters, ledger'.direct)
  BY DEF RosterTotal, Listed
<1>4. ledger'.direct = contributed' /\ \A v \in Voter : ledger'.seat[v] = Sum(SeatWeight(v)', Len(sponsorships'))
  BY <1>2 DEF MoneyInv
<1>5. PICK r, s, r1, t, t1 :
        /\ r = RosterTotal(ledger.voters, ledger.direct) /\ s = Sum(Paid, Len(sponsorships))
        /\ r1 = RosterTotal(ledger'.voters, ledger'.direct) /\ t = ledger.total /\ t1 = ledger'.total
  OBVIOUS
<1>6. r \in Nat /\ s \in Nat
  BY <1>5, RosterTotalNat, SumsOfSponsorships DEF LedgerOK, SealedLedgers, SealedTypeOK
<1>7. t = r + s /\ t1 = t + amount /\ r1 = r + amount
  BY <1>5 DEF MoneyInv
<1>8. t1 = r1 + s
  BY <1>6, <1>7
<1>9. ledger'.totalSeat = Sum(Handed', Len(sponsorships'))
  BY <1>1 DEF MoneyInv
<1> QED BY <1>1, <1>3, <1>4, <1>5, <1>8, <1>9 DEF MoneyInv

LEMMA MoneyByPush ==
  ASSUME MoneyInv, SealedTypeOK, LedgerOK(ledger), NEW s \in Sponsorship(Voter),
         PushSponsorship(s), UNCHANGED contributed,
         ledger'.direct = ledger.direct,
         \A v \in Voter : ledger'.seat[v]
                            = ledger.seat[v] + s.perSeat * Times(s.members, v, Len(s.members)),
         ledger'.totalSeat = ledger.totalSeat + s.perSeat * s.claimed,
         ledger'.total = ledger.total + s.amount,
         RosterTotal(ledger'.voters, ledger'.direct) = RosterTotal(ledger.voters, ledger.direct)
  PROVE  MoneyInv'
<1>0. CustodyOK(Voter) /\ s.amount \in Nat /\ s.perSeat \in Nat /\ s.claimed \in Nat
  BY DEF SealedTypeOK, Sponsorship
<1>1. PICK n, a, b, c, d :
        /\ n = Len(sponsorships) /\ a = Paid /\ b = Paid' /\ c = Handed /\ d = Handed'
  OBVIOUS
<1>2. /\ n \in Nat /\ a \in [1 .. n -> Int] /\ c \in [1 .. n -> Int] /\ Sum(a, n) \in Nat /\ Sum(c, n) \in Nat
  BY <1>0, <1>1, SumsOfSponsorships
<1>3. /\ Len(sponsorships') = n + 1 /\ sponsorships'[n + 1] = s
      /\ \A id \in 1 .. n : sponsorships'[id] = sponsorships[id]
  BY <1>0, <1>1, PushKeeps
<1>4. s.perSeat * s.claimed \in Nat
  BY <1>0
<1>5. /\ b = [id \in 1 .. (n + 1) |-> sponsorships'[id].amount]
      /\ d = [id \in 1 .. (n + 1) |-> sponsorships'[id].perSeat * sponsorships'[id].claimed]
  BY <1>1, <1>3 DEF Paid, Handed
<1>6. /\ \A id \in 1 .. n : b[id] = a[id] /\ d[id] = c[id]
      /\ b[n + 1] = s.amount /\ d[n + 1] = s.perSeat * s.claimed
  <2>1. /\ a = [id \in 1 .. n |-> sponsorships[id].amount]
        /\ c = [id \in 1 .. n |-> sponsorships[id].perSeat * sponsorships[id].claimed]
    BY <1>1 DEF Paid, Handed
  <2>2. n + 1 \in 1 .. (n + 1) /\ \A id \in 1 .. n : id \in 1 .. (n + 1)
    BY <1>2
  <2> QED BY <1>3, <1>5, <2>1, <2>2
<1>7. b \in [1 .. (n + 1) -> Int] /\ d \in [1 .. (n + 1) -> Int]
  <2>1. \A id \in 1 .. (n + 1) : b[id] \in Int /\ d[id] \in Int
    BY <1>0, <1>2, <1>4, <1>6
  <2> QED BY <1>5, <2>1
<1>8. Sum(b, n + 1) = Sum(a, n) + s.amount /\ Sum(d, n + 1) = Sum(c, n) + s.perSeat * s.claimed
  <2>1. Sum(b, n + 1) = Sum(a, n) + b[n + 1]
    BY <1>2, <1>6, <1>7, SumExtends
  <2>2. Sum(d, n + 1) = Sum(c, n) + d[n + 1]
    BY <1>2, <1>6, <1>7, SumExtends
  <2> QED BY <1>6, <2>1, <2>2
<1>9. \A v \in Voter : ledger'.seat[v] = Sum(SeatWeight(v)', Len(sponsorships'))
  <2> TAKE v \in Voter
  <2>1. Sum(SeatWeight(v)', Len(sponsorships'))
              = Sum(SeatWeight(v), Len(sponsorships)) + s.perSeat * Times(s.members, v, Len(s.members))
    BY <1>0, PushEarns
  <2>2. ledger.seat[v] = Sum(SeatWeight(v), Len(sponsorships))
    BY DEF MoneyInv
  <2> QED BY <2>1, <2>2
<1>10. RosterTotal(ledger.voters, ledger.direct)' = RosterTotal(ledger'.voters, ledger'.direct)
  BY DEF RosterTotal, Listed
<1>11. PICK r, r1, t, t1 :
        /\ r = RosterTotal(ledger.voters, ledger.direct)
        /\ r1 = RosterTotal(ledger'.voters, ledger'.direct) /\ t = ledger.total /\ t1 = ledger'.total
  OBVIOUS
<1>12. t1 = r1 + Sum(b, n + 1)
  <2>1. r \in Nat
    BY <1>11, RosterTotalNat DEF LedgerOK, SealedLedgers
  <2>2. t = r + Sum(a, n) /\ t1 = t + s.amount /\ r1 = r
    BY <1>1, <1>11 DEF MoneyInv
  <2> QED BY <1>0, <1>2, <1>8, <2>1, <2>2
<1>13. ledger'.totalSeat = Sum(d, n + 1)
  <2>1. ledger.totalSeat = Sum(c, n)
    BY <1>1 DEF MoneyInv
  <2> QED BY <1>8, <2>1
<1>14. ledger'.direct = contributed'
  BY DEF MoneyInv
<1>15. /\ ledger'.total = RosterTotal(ledger.voters, ledger.direct)' + Sum(Paid', Len(sponsorships'))
       /\ ledger'.totalSeat = Sum(Handed', Len(sponsorships'))
  BY <1>1, <1>3, <1>10, <1>11, <1>12, <1>13
<1> QED BY <1>9, <1>14, <1>15 DEF MoneyInv

LEMMA MoneyByClaim ==
  ASSUME MoneyInv, SealedTypeOK, LedgerOK(ledger),
         NEW who \in Voter, NEW id \in 1 .. Len(sponsorships), NEW t \in TokenId,
         TakeSeat(who, id, t), UNCHANGED contributed,
         ledger'.direct = ledger.direct,
         \A v \in Voter :
           ledger'.seat[v] =
             ledger.seat[v]
             + (IF v = who THEN sponsorships[id].perSeat ELSE 0)
             - (IF v = seatHolder[id][t] /\ v # NoHolder THEN sponsorships[id].perSeat ELSE 0),
         ledger'.totalSeat
           = ledger.totalSeat + (IF seatHolder[id][t] = NoHolder THEN sponsorships[id].perSeat ELSE 0),
         ledger'.total = ledger.total,
         RosterTotal(ledger'.voters, ledger'.direct) = RosterTotal(ledger.voters, ledger.direct)
  PROVE  MoneyInv'
<1>0. CustodyOK(Voter)
  BY DEF SealedTypeOK
<1>1. PICK n, a, c, d, h, p, k :
        /\ n = Len(sponsorships) /\ a = Paid /\ c = Handed /\ d = Handed' /\ h = seatHolder[id][t]
        /\ p = sponsorships[id].perSeat /\ k = sponsorships[id].claimed
  OBVIOUS
<1>2. n \in Nat /\ c \in [1 .. n -> Int] /\ Sum(c, n) \in Nat
  BY <1>0, <1>1, SumsOfSponsorships
<1>3. /\ Len(sponsorships') = n
      /\ \A j \in 1 .. n :
              /\ sponsorships[j] \in Sponsorship(Voter)
              /\ sponsorships'[j].perSeat = sponsorships[j].perSeat
              /\ sponsorships'[j].amount = sponsorships[j].amount
              /\ sponsorships'[j].claimed
                   = sponsorships[j].claimed + IF j = id /\ h = NoHolder THEN 1 ELSE 0
  BY <1>0, <1>1, TakeKeeps
<1>4. p \in Nat /\ k \in Nat /\ id \in 1 .. n
  BY <1>1, <1>3 DEF Sponsorship
<1>5. Paid' = a
  <2>1. \A j \in 1 .. n : sponsorships'[j].amount = sponsorships[j].amount
    BY <1>3
  <2> QED BY <1>1, <1>3, <2>1 DEF Paid
<1>6. /\ c = [j \in 1 .. n |-> sponsorships[j].perSeat * sponsorships[j].claimed]
      /\ d = [j \in 1 .. n |-> sponsorships'[j].perSeat * sponsorships'[j].claimed]
  BY <1>1, <1>3 DEF Handed
<1>7. \A j \in 1 .. n : j # id => d[j] = c[j]
  <2> SUFFICES ASSUME NEW j \in 1 .. n, j # id PROVE d[j] = c[j]
    OBVIOUS
  <2>1. sponsorships[j].claimed \in Nat
    BY <1>3 DEF Sponsorship
  <2>2. sponsorships'[j].perSeat = sponsorships[j].perSeat /\ sponsorships'[j].claimed = sponsorships[j].claimed
    BY <1>3, <2>1
  <2> QED BY <1>6, <2>2
<1>8. c[id] = p * k /\ d[id] = p * k + (IF h = NoHolder THEN p ELSE 0) /\ p * k \in Nat
  <2>1. d[id] = p * (k + IF h = NoHolder THEN 1 ELSE 0)
    BY <1>1, <1>3, <1>4, <1>6
  <2>2. p * (k + 1) = p * k + p /\ p * (k + 0) = p * k /\ p * k \in Nat
    BY <1>4
  <2>3. c[id] = p * k
    BY <1>1, <1>4, <1>6
  <2>4. CASE h = NoHolder
    BY <2>1, <2>2, <2>3, <2>4
  <2>5. CASE h # NoHolder
    BY <2>1, <2>2, <2>3, <2>5
  <2> QED BY <2>4, <2>5
<1>9. d \in [1 .. n -> Int]
  <2>1. d[id] \in Int
    BY <1>4, <1>8
  <2>2. \A j \in 1 .. n : d[j] \in Int
    BY <1>2, <1>7, <2>1
  <2> QED BY <1>6, <2>2
<1>10. Sum(d, n) = Sum(c, n) + (IF h = NoHolder THEN p ELSE 0)
  <2>1. Sum(d, n) = Sum(c, n) + (d[id] - c[id])
    BY <1>2, <1>4, <1>7, <1>9, SumChanges
  <2>2. CASE h = NoHolder
    BY <1>2, <1>4, <1>8, <2>1, <2>2
  <2>3. CASE h # NoHolder
    BY <1>2, <1>4, <1>8, <2>1, <2>3
  <2> QED BY <2>2, <2>3
<1>11. \A v \in Voter : ledger'.seat[v] = Sum(SeatWeight(v)', Len(sponsorships'))
  <2> TAKE v \in Voter
  <2>1. PICK old, new, gain, loss :
          /\ old = Sum(SeatWeight(v), Len(sponsorships))
          /\ new = Sum(SeatWeight(v)', Len(sponsorships'))
          /\ gain = (IF v = who THEN sponsorships[id].perSeat ELSE 0)
          /\ loss = (IF v = seatHolder[id][t] /\ v # NoHolder THEN sponsorships[id].perSeat ELSE 0)
    OBVIOUS
  <2>2. new = old + gain - loss
    BY <1>0, <2>1, TakeEarns
  <2>3. ledger.seat[v] = old
    BY <2>1 DEF MoneyInv
  <2>4. ledger'.seat[v] = ledger.seat[v] + gain - loss
    BY <2>1
  <2> QED BY <2>1, <2>2, <2>3, <2>4
<1>12. RosterTotal(ledger.voters, ledger.direct)' = RosterTotal(ledger'.voters, ledger'.direct)
  BY DEF RosterTotal, Listed
<1>13. ledger.total = RosterTotal(ledger.voters, ledger.direct) + Sum(a, n)
       /\ ledger.totalSeat = Sum(c, n) /\ ledger'.direct = contributed'
  BY <1>1 DEF MoneyInv
<1>14. ledger'.totalSeat = Sum(d, n)
  BY <1>1, <1>10, <1>13
<1>15. /\ ledger'.total = RosterTotal(ledger.voters, ledger.direct)' + Sum(Paid', Len(sponsorships'))
       /\ ledger'.totalSeat = Sum(Handed', Len(sponsorships'))
  BY <1>1, <1>3, <1>5, <1>12, <1>13, <1>14
<1> QED BY <1>11, <1>13, <1>15 DEF MoneyInv


-----------------------------------------------------------------------------
(* Ballots.                                                                *)

\* A ballot of somebody else stays good while nobody leaves the roster and no
\* money is taken back.
LEMMA BallotStays ==
  ASSUME NEW v \in Voter, BallotOK(v), contributed \in [Voter -> Nat],
         contributed'[v] \in Nat, contributed[v] <= contributed'[v], MinDirectVote \in Nat,
         UNCHANGED <<costs, arkivBallots>>, Extends(ledger', ledger),
         directBallot'[v] = directBallot[v], sealedBallot'[v] = sealedBallot[v],
         publicRefs'[v] = publicRefs[v], sealedRefs'[v] = sealedRefs[v]
  PROVE  BallotOK(v)'
<1>1. /\ PublicBallot(v)' = PublicBallot(v) /\ SealedBallot(v)' = SealedBallot(v)
      /\ contributed[v] \in Nat
  BY DEF PublicBallot, SealedBallot
<1>2. OnRoster(ledger, v) => OnRoster(ledger, v)'
  BY DEF Extends, OnRoster
<1>3. contributed[v] > 0 /\ contributed[v] >= MinDirectVote
        => contributed'[v] > 0 /\ contributed'[v] >= MinDirectVote
  BY <1>1
<1> QED BY <1>1, <1>2, <1>3 DEF BallotOK

\* A transaction of `who` while the vote is open.
LEMMA BallotsFollow ==
  ASSUME SealedTypeOK, BallotsInv, votingOpen', UNCHANGED <<costs, arkivBallots>>,
         Extends(ledger', ledger),
         \A v \in Voter : contributed'[v] \in Nat /\ contributed[v] <= contributed'[v],
         NEW who \in Voter, BallotOK(who)',
         \A v \in Voter : v # who =>
           /\ directBallot'[v] = directBallot[v] /\ sealedBallot'[v] = sealedBallot[v]
           /\ publicRefs'[v] = publicRefs[v] /\ sealedRefs'[v] = sealedRefs[v]
  PROVE  BallotsInv'
<1>1. ASSUME NEW v \in Voter, v # who PROVE BallotOK(v)'
  <2>1. BallotOK(v) /\ contributed \in [Voter -> Nat] /\ MinDirectVote \in Nat
    BY SealedInputsAssumption DEF BallotsInv, SealedTypeOK
  <2>2. /\ directBallot'[v] = directBallot[v] /\ sealedBallot'[v] = sealedBallot[v]
        /\ publicRefs'[v] = publicRefs[v] /\ sealedRefs'[v] = sealedRefs[v]
    BY <1>1
  <2>3. contributed'[v] \in Nat /\ contributed[v] <= contributed'[v]
    OBVIOUS
  <2> QED BY <2>1, <2>2, <2>3, BallotStays
<1>2. \A v \in Voter : BallotOK(v)'
  BY <1>1
<1> QED BY <1>2 DEF BallotsInv

LEMMA BallotsSame ==
  ASSUME SealedTypeOK, BallotsInv, UNCHANGED <<votingOpen, costs, ballotVars>>,
         Extends(ledger', ledger),
         \A v \in Voter : contributed'[v] \in Nat /\ contributed[v] <= contributed'[v]
  PROVE  BallotsInv'
<1>1. UNCHANGED <<arkivBallots, directBallot, sealedBallot, publicRefs, sealedRefs>>
  BY DEF ballotVars, arkivVars
<1>2. ASSUME NEW v \in Voter PROVE BallotOK(v)'
  <2>1. BallotOK(v) /\ contributed \in [Voter -> Nat] /\ MinDirectVote \in Nat
    BY SealedInputsAssumption DEF BallotsInv, SealedTypeOK
  <2>2. contributed'[v] \in Nat /\ contributed[v] <= contributed'[v]
    OBVIOUS
  <2> QED BY <1>1, <2>1, <2>2, BallotStays
<1>3. NoBallots => NoBallots'
  BY <1>1 DEF NoBallots
<1> QED BY <1>2, <1>3 DEF BallotsInv

LEMMA NoBallotsYet ==
  ASSUME NoBallots'
  PROVE  BallotsInv'
<1>1. ASSUME NEW v \in Voter PROVE BallotOK(v)'
  BY DEF NoBallots, BallotOK, PublicBallot, SealedBallot, NoRef
<1> QED BY <1>1 DEF BallotsInv

-----------------------------------------------------------------------------
(* One lemma per call: it keeps SealedInv.                                 *)

LEMMA CreateProjectKeeps ==
  ASSUME SealedInv, NEW cost \in Costs, CreateProject(cost)
  PROVE  SealedInv'
<1>1. /\ ~votingOpen /\ cost \in 1 .. MaxWeight /\ costs' = Append(costs, cost)
      /\ UNCHANGED <<ledger, ballotVars, tallyVars, poolVars>>
  BY Phases DEF CreateProject
<1>2. UNCHANGED <<votingOpen, pastDeadline, balance, sponsorships, seatHolder, nftOwner, contributed,
                  arkivBallots, directBallot, sealedBallot, publicRefs, sealedRefs, closed, finality>>
      /\ UNCHANGED payVars
  BY <1>1 DEF poolVars, seatVars, ballotVars, arkivVars, tallyVars, closeVars, resultVars
<1>3. costs' \in Seq(Nat \ {0})
  <2>1. costs \in Seq(Nat \ {0}) /\ cost \in Nat \ {0}
    BY <1>1, SealedInputsAssumption DEF SealedInv, SealedTypeOK
  <2> QED BY <1>1, <2>1
<1>4. SealedTypeOK'
  BY <1>2, <1>3 DEF SealedInv, SealedTypeOK, CustodyOK
<1>5. MoneyInv'
  BY <1>1, <1>2, MoneyStays DEF SealedInv
<1>6. BallotsInv'
  <2>1. NoBallots'
    BY <1>1, <1>2 DEF SealedInv, BallotsInv, NoBallots
  <2> QED BY <2>1, NoBallotsYet
<1>7. LedgerOK(ledger') /\ UNCHANGED <<tallyVars, payVars>>
  BY <1>1, <1>2 DEF SealedInv
<1> QED BY <1>1, <1>4, <1>5, <1>6, <1>7, EarlyKeeps

LEMMA EnableArkivBallotsKeeps ==
  ASSUME SealedInv, EnableArkivBallots
  PROVE  SealedInv'
<1>1. /\ ~votingOpen /\ arkivBallots' = TRUE
      /\ UNCHANGED <<costs, ledger, directBallot, sealedBallot, publicRefs, sealedRefs, tallyVars, poolVars>>
  BY Phases DEF EnableArkivBallots
<1>2. UNCHANGED <<votingOpen, pastDeadline, balance, sponsorships, seatHolder, nftOwner, contributed,
                  closed, finality>>
      /\ UNCHANGED payVars
  BY <1>1 DEF poolVars, seatVars, tallyVars, closeVars, resultVars
<1>3. SealedTypeOK'
  BY <1>1, <1>2 DEF SealedInv, SealedTypeOK, CustodyOK
<1>4. MoneyInv'
  BY <1>1, <1>2, MoneyStays DEF SealedInv
<1>5. BallotsInv'
  <2>1. NoBallots'
    BY <1>1, <1>2 DEF SealedInv, BallotsInv, NoBallots
  <2> QED BY <2>1, NoBallotsYet
<1>6. LedgerOK(ledger') /\ UNCHANGED <<tallyVars, payVars>>
  BY <1>1, <1>2 DEF SealedInv
<1> QED BY <1>1, <1>3, <1>4, <1>5, <1>6, EarlyKeeps

LEMMA OpenVotingKeeps ==
  ASSUME SealedInv, OpenVoting
  PROVE  SealedInv'
<1>1. /\ ~votingOpen /\ ~pastDeadline /\ votingOpen' = TRUE
      /\ UNCHANGED <<costs, ledger, ballotVars, tallyVars, pastDeadline, balance, seatVars, payVars,
                     contributed>>
  BY Phases DEF OpenVoting
<1>2. UNCHANGED <<sponsorships, seatHolder, nftOwner, arkivBallots, directBallot, sealedBallot,
                  publicRefs, sealedRefs, closed, finality>>
  BY <1>1 DEF seatVars, tallyVars, closeVars, resultVars, ballotVars, arkivVars
<1>3. SealedTypeOK'
  BY <1>1, <1>2 DEF SealedInv, SealedTypeOK, CustodyOK
<1>4. MoneyInv'
  BY <1>1, <1>2, MoneyStays DEF SealedInv
<1>5. BallotsInv'
  <2>1. NoBallots'
    BY <1>1, <1>2 DEF SealedInv, BallotsInv, NoBallots
  <2> QED BY <2>1, NoBallotsYet
<1>6. LedgerOK(ledger') /\ UNCHANGED <<tallyVars, payVars>>
  BY <1>1 DEF SealedInv
<1> QED BY <1>1, <1>3, <1>4, <1>5, <1>6, EarlyKeeps

LEMMA DepositAccepted ==
  ASSUME SealedInv, NEW amount \in Amounts, NEW fee \in Fees, AcceptDeposit(amount, fee)
  PROVE  /\ amount \in Nat /\ balance' \in Nat /\ balance' >= balance
         /\ votingOpen /\ ~pastDeadline /\ finality = "None"
<1>1. /\ amount \in Nat /\ fee \in Nat /\ fee <= amount /\ balance' = balance + amount - fee
      /\ balance \in Nat
  BY SealedInputsAssumption DEF AcceptDeposit, Deposit, SealedInv, SealedTypeOK
<1>2. votingOpen /\ ~pastDeadline /\ finality = "None"
  BY Phases DEF AcceptDeposit
<1> QED BY <1>1, <1>2

\* Budget and weight of a contribution.
LEMMA ContributionOnBudget ==
  ASSUME SealedInv, NEW who \in Voter, NEW amount \in Nat
  PROVE  LET M == OnContribution(AddBudget(ledger, amount), who, amount)
         IN  /\ LedgerOK(M) /\ Extends(M, ledger) /\ OnRoster(M, who)
             /\ M.direct = [ledger.direct EXCEPT ![who] = @ + amount] /\ M.seat = ledger.seat
             /\ M.totalSeat = ledger.totalSeat /\ M.total = ledger.total + amount
             /\ RosterTotal(M.voters, M.direct) = RosterTotal(ledger.voters, ledger.direct) + amount
<1> DEFINE T == AddBudget(ledger, amount)
           M == OnContribution(T, who, amount)
<1>1. /\ LedgerOK(T) /\ Extends(T, ledger) /\ T.voters = ledger.voters
      /\ T.direct = ledger.direct /\ T.seat = ledger.seat /\ T.totalSeat = ledger.totalSeat
      /\ T.total = ledger.total + amount
  BY BudgetKeeps DEF SealedInv
<1> HIDE DEF T
<1>2. /\ LedgerOK(M) /\ Extends(M, T) /\ OnRoster(M, who)
      /\ M.direct = [T.direct EXCEPT ![who] = @ + amount] /\ M.seat = T.seat
      /\ M.totalSeat = T.totalSeat /\ M.total = T.total
      /\ RosterTotal(M.voters, M.direct) = RosterTotal(T.voters, T.direct) + amount
  BY <1>1, ContributionKeeps
<1> HIDE DEF M
<1>3. Extends(M, ledger)
  BY <1>1, <1>2 DEF Extends
<1> QED BY <1>1, <1>2, <1>3 DEF M, T

LEMMA CreditGrows ==
  ASSUME SealedInv, NEW who \in Voter, NEW amount \in Nat,
         contributed' = [contributed EXCEPT ![who] = @ + amount]
  PROVE  /\ contributed' \in [Voter -> Nat] /\ contributed'[who] = contributed[who] + amount
         /\ \A v \in Voter : contributed'[v] \in Nat /\ contributed[v] <= contributed'[v]
<1>1. PICK c, d : c = contributed /\ d = contributed'
  OBVIOUS
<1>2. c \in [Voter -> Nat] /\ d = [c EXCEPT ![who] = @ + amount]
  BY <1>1 DEF SealedInv, SealedTypeOK
<1>3. c[who] + amount \in Nat /\ \A v \in Voter : c[v] \in Nat
  BY <1>2
<1>4. d \in [Voter -> Nat] /\ d[who] = c[who] + amount /\ \A v \in Voter : v # who => d[v] = c[v]
  BY <1>2, <1>3
<1>5. \A v \in Voter : d[v] \in Nat /\ c[v] <= d[v]
  <2> TAKE v \in Voter
  <2>1. CASE v = who
    BY <1>3, <1>4, <2>1
  <2>2. CASE v # who
    BY <1>3, <1>4, <2>2
  <2> QED BY <2>1, <2>2
<1> QED BY <1>1, <1>4, <1>5

LEMMA ContributeKeeps ==
  ASSUME SealedInv, NEW who \in Voter, NEW amount \in Amounts, NEW fee \in Fees,
         Contribute(who, amount, fee)
  PROVE  SealedInv'
<1>1. /\ AcceptDeposit(amount, fee)
      /\ ledger' = OnContribution(AddBudget(ledger, amount), who, amount)
      /\ contributed' = [contributed EXCEPT ![who] = @ + amount]
      /\ UNCHANGED <<costs, ballotVars, tallyVars, votingOpen, pastDeadline, seatVars, payVars>>
  BY DEF Contribute
<1>2. /\ amount \in Nat /\ balance' \in Nat /\ votingOpen /\ ~pastDeadline
  BY <1>1, DepositAccepted
<1>3. UNCHANGED <<sponsorships, seatHolder, nftOwner, arkivBallots, directBallot, sealedBallot,
                  publicRefs, sealedRefs, closed, finality>>
  BY <1>1 DEF seatVars, tallyVars, closeVars, resultVars, ballotVars, arkivVars
<1>4. /\ contributed' \in [Voter -> Nat]
      /\ \A v \in Voter : contributed'[v] \in Nat /\ contributed[v] <= contributed'[v]
  BY <1>1, <1>2, CreditGrows
<1>5. /\ LedgerOK(ledger') /\ Extends(ledger', ledger)
      /\ ledger'.direct = [ledger.direct EXCEPT ![who] = @ + amount] /\ ledger'.seat = ledger.seat
      /\ ledger'.totalSeat = ledger.totalSeat /\ ledger'.total = ledger.total + amount
      /\ RosterTotal(ledger'.voters, ledger'.direct)
           = RosterTotal(ledger.voters, ledger.direct) + amount
  BY <1>1, <1>2, ContributionOnBudget
<1>6. SealedTypeOK'
  BY <1>1, <1>2, <1>3, <1>4 DEF SealedInv, SealedTypeOK, CustodyOK
<1>7. MoneyInv'
  BY <1>1, <1>2, <1>3, <1>5, MoneyByDeposit DEF SealedInv
<1>8. BallotsInv'
  BY <1>1, <1>4, <1>5, BallotsSame DEF SealedInv
<1>9. UNCHANGED <<tallyVars, payVars>>
  BY <1>1
<1> QED BY <1>2, <1>5, <1>6, <1>7, <1>8, <1>9, EarlyKeeps

\* Only custody and the ledger change, and no money given directly is taken.
LEMMA SponsoredKeeps ==
  ASSUME SealedInv, votingOpen, ~pastDeadline, balance' \in Nat, CustodyOK(Voter)', MoneyInv',
         LedgerOK(ledger'), Extends(ledger', ledger),
         UNCHANGED <<costs, ballotVars, tallyVars, votingOpen, pastDeadline, payVars, contributed>>
  PROVE  SealedInv'
<1>1. UNCHANGED <<arkivBallots, directBallot, sealedBallot, publicRefs, sealedRefs, closed, finality>>
  BY DEF tallyVars, closeVars, resultVars, ballotVars, arkivVars
<1>2. SealedTypeOK'
  BY <1>1 DEF SealedInv, SealedTypeOK
<1>3. \A v \in Voter : contributed'[v] \in Nat /\ contributed[v] <= contributed'[v]
  BY DEF SealedInv, SealedTypeOK
<1>4. BallotsInv'
  BY <1>3, BallotsSame DEF SealedInv
<1> QED BY <1>2, <1>4, EarlyKeeps


LEMMA SponsorKeeps ==
  ASSUME SealedInv, NEW amount \in Amounts, NEW fee \in Fees, NEW members \in MemberLists,
         Sponsor(amount, fee, members)
  PROVE  SealedInv'
<1>0. PICK s, L : /\ s = NewSponsorship(amount, Len(members), FALSE, members)
                  /\ L = AddBudget(ledger, amount)
  OBVIOUS
<1>1. /\ AcceptDeposit(amount, fee) /\ PushSponsorship(s)
      /\ ledger' = GrantSeats(L, members, s.perSeat)
      /\ UNCHANGED <<costs, ballotVars, tallyVars, votingOpen, pastDeadline, payVars, contributed>>
  BY <1>0 DEF Sponsor
<1>2. /\ amount \in Nat /\ balance' \in Nat /\ votingOpen /\ ~pastDeadline
  BY <1>1, DepositAccepted
<1>3. members \in Seq(Voter) /\ Len(members) \in Nat \ {0}
  <2>1. members \in Seq(Voter) /\ members # << >>
    BY SealedInputsAssumption
  <2> QED BY <2>1
<1>4. /\ s \in Sponsorship(Voter) /\ s.members = members /\ s.perSeat \in Nat
      /\ s.claimed = Len(members) /\ s.amount = amount
  <2>1. Len(members) <= Len(members) /\ FALSE \in BOOLEAN
    BY <1>3
  <2>2. NewSponsorship(amount, Len(members), FALSE, members) \in Sponsorship(Voter)
    BY <1>2, <1>3, <2>1, NewSponsorshipOK
  <2> QED BY <1>0, <2>1, <2>2 DEF NewSponsorship, Sponsorship
<1>5. /\ LedgerOK(L) /\ Extends(L, ledger) /\ L.voters = ledger.voters
      /\ L.direct = ledger.direct /\ L.seat = ledger.seat /\ L.totalSeat = ledger.totalSeat
      /\ L.total = ledger.total + amount
  BY <1>0, <1>2, BudgetKeeps DEF SealedInv
<1>6. /\ LedgerOK(ledger') /\ Extends(ledger', L)
      /\ ledger'.direct = L.direct /\ ledger'.total = L.total
      /\ ledger'.totalSeat = L.totalSeat + s.perSeat * Len(members)
      /\ \A v \in Voter : ledger'.seat[v] = L.seat[v] + s.perSeat * Times(members, v, Len(members))
      /\ RosterTotal(ledger'.voters, ledger'.direct) = RosterTotal(L.voters, L.direct)
  <2>1. PICK p : p = s.perSeat
    OBVIOUS
  <2>2. p \in Nat /\ ledger' = GrantSeats(L, members, p)
    BY <1>1, <1>4, <2>1
  <2>3. LET M == GrantSeats(L, members, p)
        IN  /\ LedgerOK(M) /\ Extends(M, L)
            /\ M.direct = L.direct /\ M.total = L.total
            /\ M.totalSeat = L.totalSeat + p * Len(members)
            /\ \A v \in Voter : M.seat[v] = L.seat[v] + p * Times(members, v, Len(members))
            /\ RosterTotal(M.voters, M.direct) = RosterTotal(L.voters, L.direct)
    BY <1>3, <1>5, <2>2, GrantSeatsKeeps
  <2> QED BY <2>1, <2>2, <2>3
<1>7. Extends(ledger', ledger)
  BY <1>5, <1>6 DEF Extends
<1>8. CustodyOK(Voter)'
  BY <1>1, <1>4, PushKeeps DEF SealedInv, SealedTypeOK
<1>9. MoneyInv'
  <2>1. /\ ledger'.direct = ledger.direct /\ ledger'.total = ledger.total + s.amount
        /\ ledger'.totalSeat = ledger.totalSeat + s.perSeat * s.claimed
        /\ \A v \in Voter : ledger'.seat[v]
                              = ledger.seat[v] + s.perSeat * Times(s.members, v, Len(s.members))
        /\ RosterTotal(ledger'.voters, ledger'.direct) = RosterTotal(ledger.voters, ledger.direct)
    BY <1>4, <1>5, <1>6
  <2>2. MoneyInv /\ SealedTypeOK /\ LedgerOK(ledger) /\ UNCHANGED contributed
    BY <1>1 DEF SealedInv
  <2> QED BY <1>1, <1>4, <2>1, <2>2, MoneyByPush
<1> QED BY <1>1, <1>2, <1>6, <1>7, <1>8, <1>9, SponsoredKeeps

LEMMA SponsorNFTKeeps ==
  ASSUME SealedInv, NEW amount \in Amounts, NEW fee \in Fees, NEW seats \in SeatCounts,
         SponsorNFT(amount, fee, seats)
  PROVE  SealedInv'
<1>0. PICK s : s = NewSponsorship(amount, SeatsFor(seats), TRUE, << >>)
  OBVIOUS
<1>1. /\ AcceptDeposit(amount, fee) /\ PushSponsorship(s) /\ SeatsFor(seats) # 0
      /\ ledger' = AddBudget(ledger, amount)
      /\ UNCHANGED <<costs, ballotVars, tallyVars, votingOpen, pastDeadline, payVars, contributed>>
  BY <1>0 DEF SponsorNFT
<1>2. /\ amount \in Nat /\ balance' \in Nat /\ votingOpen /\ ~pastDeadline
  BY <1>1, DepositAccepted
<1>3. SeatsFor(seats) \in Nat \ {0} /\ << >> \in Seq(Voter) /\ Len(<< >>) <= SeatsFor(seats)
  BY <1>1, SealedInputsAssumption, TokensAssumption, FS_CardinalityType DEF SeatsFor
<1>4. /\ s \in Sponsorship(Voter) /\ s.members = << >> /\ s.perSeat \in Nat /\ s.claimed = 0
      /\ s.amount = amount
  <2>1. PICK n : n = SeatsFor(seats)
    OBVIOUS
  <2>2. NewSponsorship(amount, n, TRUE, << >>) \in Sponsorship(Voter)
    BY <1>2, <1>3, <2>1, NewSponsorshipOK
  <2> QED BY <1>0, <2>1, <2>2 DEF NewSponsorship, Sponsorship
<1>5. /\ LedgerOK(ledger') /\ Extends(ledger', ledger) /\ ledger'.voters = ledger.voters
      /\ ledger'.direct = ledger.direct /\ ledger'.seat = ledger.seat
      /\ ledger'.totalSeat = ledger.totalSeat /\ ledger'.total = ledger.total + amount
  BY <1>1, <1>2, BudgetKeeps DEF SealedInv
<1>6. ledger.totalSeat \in Nat /\ ledger.seat \in [Voter -> Nat]
  BY DEF SealedInv, LedgerOK, SealedLedgers
<1>7. CustodyOK(Voter)'
  BY <1>1, <1>4, PushKeeps DEF SealedInv, SealedTypeOK
<1>8. MoneyInv'
  <2>1. \A v \in Voter : ledger'.seat[v]
                           = ledger.seat[v] + s.perSeat * Times(s.members, v, Len(s.members))
    <3> TAKE v \in Voter
    <3>1. Times(s.members, v, Len(s.members)) = 0
      BY <1>4, TimesStep
    <3>2. ledger.seat[v] \in Nat
      BY <1>6
    <3> QED BY <1>4, <1>5, <3>1, <3>2
  <2>2. ledger'.totalSeat = ledger.totalSeat + s.perSeat * s.claimed
        /\ ledger'.total = ledger.total + s.amount
    BY <1>4, <1>5, <1>6
  <2>3. RosterTotal(ledger'.voters, ledger'.direct) = RosterTotal(ledger.voters, ledger.direct)
    BY <1>5
  <2>4. MoneyInv /\ SealedTypeOK /\ LedgerOK(ledger) /\ UNCHANGED contributed
    BY <1>1 DEF SealedInv
  <2> QED BY <1>1, <1>4, <1>5, <2>1, <2>2, <2>3, <2>4, MoneyByPush
<1> QED BY <1>1, <1>2, <1>5, <1>7, <1>8, SponsoredKeeps

LEMMA ClaimSeatKeeps ==
  ASSUME SealedInv, NEW who \in Voter, NEW id \in DOMAIN sponsorships, NEW t \in TokenId,
         ClaimSeat(who, id, t)
  PROVE  SealedInv'
<1>0. PICK h, p, L : /\ h = seatHolder[id][t] /\ p = sponsorships[id].perSeat
                     /\ L = IF h = NoHolder THEN ledger ELSE OnSeatRevoked(ledger, h, p)
  OBVIOUS
<1>1. /\ votingOpen /\ ~pastDeadline /\ TakeSeat(who, id, t)
      /\ h # NoHolder => CanRevoke(ledger, h, p)
      /\ ledger' = OnSeatGranted(L, who, p)
      /\ UNCHANGED <<costs, ballotVars, tallyVars, votingOpen, pastDeadline, balance, payVars, contributed>>
  BY <1>0, Phases DEF ClaimSeat
<1>2. /\ SealedTypeOK /\ CustodyOK(Voter) /\ LedgerOK(ledger) /\ MoneyInv
      /\ id \in 1 .. Len(sponsorships) /\ balance' \in Nat
  <2>1. SealedTypeOK /\ CustodyOK(Voter) /\ LedgerOK(ledger) /\ MoneyInv /\ balance \in Nat
    BY DEF SealedInv, SealedTypeOK
  <2>2. sponsorships \in Seq(Sponsorship(Voter))
    BY <2>1 DEF CustodyOK
  <2> QED BY <1>1, <2>1, <2>2
<1>3. /\ CustodyOK(Voter)' /\ who # NoHolder /\ h # who /\ h \in Voter \cup {NoHolder}
      /\ sponsorships[id] \in Sponsorship(Voter)
  BY <1>0, <1>1, <1>2, TakeKeeps
<1>4. p \in Nat
  BY <1>0, <1>3 DEF Sponsorship
<1>5. PICK q : q = IF h = NoHolder THEN 0 ELSE p
  OBVIOUS
<1>6. /\ LedgerOK(L) /\ Extends(L, ledger) /\ L.voters = ledger.voters
      /\ L.direct = ledger.direct /\ L.total = ledger.total
      /\ L.totalSeat = ledger.totalSeat - q
      /\ \A v \in Voter : L.seat[v] = ledger.seat[v] - (IF v = h /\ v # NoHolder THEN p ELSE 0)
  <2>0. ledger.totalSeat \in Nat /\ ledger.seat \in [Voter -> Nat]
    BY <1>2 DEF LedgerOK, SealedLedgers
  <2>1. CASE h = NoHolder
    <3>1. L = ledger /\ q = 0
      BY <1>0, <1>5, <2>1
    <3>2. Extends(L, ledger)
      BY <3>1 DEF Extends
    <3> QED BY <1>2, <2>0, <2>1, <3>1, <3>2
  <2>2. CASE h # NoHolder
    <3>1. L = OnSeatRevoked(ledger, h, p) /\ q = p /\ h \in Voter /\ CanRevoke(ledger, h, p)
      BY <1>0, <1>1, <1>3, <1>5, <2>2
    <3>2. /\ LedgerOK(L) /\ Extends(L, ledger) /\ L.voters = ledger.voters
          /\ L.direct = ledger.direct /\ L.seat = [ledger.seat EXCEPT ![h] = @ - p]
          /\ L.totalSeat = ledger.totalSeat - p /\ L.total = ledger.total
      BY <1>2, <1>4, <3>1, RevokeKeeps
    <3>3. \A v \in Voter : L.seat[v] = ledger.seat[v] - (IF v = h /\ v # NoHolder THEN p ELSE 0)
      <4> TAKE v \in Voter
      <4>1. ledger.seat[v] \in Nat
        BY <2>0
      <4>2. CASE v = h
        BY <1>4, <2>0, <2>2, <3>2, <4>1, <4>2
      <4>3. CASE v # h
        BY <1>4, <2>0, <2>2, <3>2, <4>1, <4>3
      <4> QED BY <4>2, <4>3
    <3> QED BY <3>1, <3>2, <3>3
  <2> QED BY <2>1, <2>2
<1>7. /\ LedgerOK(ledger') /\ Extends(ledger', L)
      /\ ledger'.direct = L.direct /\ ledger'.seat = [L.seat EXCEPT ![who] = @ + p]
      /\ ledger'.totalSeat = L.totalSeat + p /\ ledger'.total = L.total
      /\ RosterTotal(ledger'.voters, ledger'.direct) = RosterTotal(L.voters, L.direct)
  BY <1>1, <1>4, <1>6, SeatGrantKeeps
<1>8. Extends(ledger', ledger)
  BY <1>6, <1>7 DEF Extends
<1>9. MoneyInv'
  <2>0. L.seat \in [Voter -> Nat] /\ ledger.seat \in [Voter -> Nat] /\ ledger.totalSeat \in Nat
    BY <1>2, <1>6 DEF LedgerOK, SealedLedgers
  <2>1. ASSUME NEW v \in Voter
        PROVE  ledger'.seat[v] = ledger.seat[v] + (IF v = who THEN p ELSE 0)
                                                - (IF v = h /\ v # NoHolder THEN p ELSE 0)
    <3>1. L.seat[v] \in Nat /\ ledger.seat[v] \in Nat
          /\ L.seat[v] = ledger.seat[v] - (IF v = h /\ v # NoHolder THEN p ELSE 0)
      BY <1>6, <2>0
    <3>2. ledger'.seat[v] = L.seat[v] + (IF v = who THEN p ELSE 0)
      <4>1. CASE v = who
        BY <1>7, <2>0, <4>1
      <4>2. CASE v # who
        BY <1>7, <2>0, <3>1, <4>2
      <4> QED BY <4>1, <4>2
    <3>3. CASE v = who
      BY <1>3, <1>4, <3>1, <3>2, <3>3
    <3>4. CASE v # who
      BY <1>4, <3>1, <3>2, <3>4
    <3> QED BY <3>3, <3>4
  <2>2. ledger'.totalSeat = ledger.totalSeat + (IF h = NoHolder THEN p ELSE 0)
    <3>1. CASE h = NoHolder
      BY <1>4, <1>5, <1>6, <1>7, <2>0, <3>1
    <3>2. CASE h # NoHolder
      BY <1>4, <1>5, <1>6, <1>7, <2>0, <3>2
    <3> QED BY <3>1, <3>2
  <2>3. /\ ledger'.direct = ledger.direct /\ ledger'.total = ledger.total
        /\ RosterTotal(ledger'.voters, ledger'.direct) = RosterTotal(ledger.voters, ledger.direct)
    BY <1>6, <1>7
  <2>4. \A v \in Voter :
           ledger'.seat[v] =
             ledger.seat[v]
             + (IF v = who THEN sponsorships[id].perSeat ELSE 0)
             - (IF v = seatHolder[id][t] /\ v # NoHolder THEN sponsorships[id].perSeat ELSE 0)
    BY <1>0, <2>1
  <2>5. ledger'.totalSeat
           = ledger.totalSeat + (IF seatHolder[id][t] = NoHolder THEN sponsorships[id].perSeat ELSE 0)
    BY <1>0, <2>2
  <2> QED BY <1>1, <1>2, <2>3, <2>4, <2>5, MoneyByClaim
<1> QED BY <1>1, <1>2, <1>3, <1>7, <1>8, <1>9, SponsoredKeeps


\* A ballot without money, in any of the four stores.
LEMMA BallotKeeps ==
  ASSUME SealedInv, votingOpen, ~pastDeadline, NEW who \in Voter,
         ledger' = Register(ledger, who), UNCHANGED <<costs, tallyVars, poolVars, arkivBallots>>,
         directBallot' \in [Voter -> Seq(Nat)], sealedBallot' \in [Voter -> Seq(Nat)],
         publicRefs' \in [Voter -> [payload: Seq(Nat), revision: Nat]],
         sealedRefs' \in [Voter -> [payload: Seq(Nat), revision: Nat]],
         \A v \in Voter : v # who =>
           /\ directBallot'[v] = directBallot[v] /\ sealedBallot'[v] = sealedBallot[v]
           /\ publicRefs'[v] = publicRefs[v] /\ sealedRefs'[v] = sealedRefs[v],
         OnRoster(ledger', who) => BallotOK(who)'
  PROVE  SealedInv'
<1>1. UNCHANGED <<votingOpen, pastDeadline, balance, sponsorships, seatHolder, nftOwner, contributed,
                  closed, finality>>
      /\ UNCHANGED payVars
  BY DEF poolVars, seatVars, tallyVars, closeVars, resultVars
<1>2. /\ LedgerOK(ledger') /\ Extends(ledger', ledger) /\ OnRoster(ledger', who)
      /\ ledger'.direct = ledger.direct /\ ledger'.seat = ledger.seat
      /\ ledger'.totalSeat = ledger.totalSeat /\ ledger'.total = ledger.total
      /\ RosterTotal(ledger'.voters, ledger'.direct) = RosterTotal(ledger.voters, ledger.direct)
  BY RegisterKeeps DEF SealedInv
<1>3. SealedTypeOK'
  BY <1>1 DEF SealedInv, SealedTypeOK, CustodyOK
<1>4. MoneyInv'
  BY <1>1, <1>2, MoneyStays DEF SealedInv
<1>5. \A v \in Voter : contributed'[v] \in Nat /\ contributed[v] <= contributed'[v]
  BY <1>1 DEF SealedInv, SealedTypeOK
<1>6. BallotsInv'
  <2>1. SealedTypeOK /\ BallotsInv /\ votingOpen' /\ UNCHANGED <<costs, arkivBallots>> /\ BallotOK(who)'
    BY <1>1, <1>2 DEF SealedInv
  <2> QED BY <1>2, <1>5, <2>1, BallotsFollow
<1>7. UNCHANGED <<tallyVars, payVars>>
  BY <1>1
<1> QED BY <1>2, <1>3, <1>4, <1>6, <1>7, EarlyKeeps

\* What a ballot that may be public finds behind it.
LEMMA BackedByMoney ==
  ASSUME SealedInv, NEW who \in Voter, Backed(ledger, who)
  PROVE  contributed[who] > 0 /\ contributed[who] >= MinDirectVote
BY DEF SealedInv, MoneyInv, Backed

LEMMA VoteKeeps ==
  ASSUME SealedInv, NEW who \in Voter, NEW ranks \in PublicInputs, Vote(who, ranks)
  PROVE  SealedInv'
<1>1. /\ votingOpen /\ ~pastDeadline /\ ~arkivBallots /\ Backed(ledger, who)
      /\ Len(ranks) = Len(costs)
      /\ directBallot' = [directBallot EXCEPT ![who] = ranks] /\ ledger' = Register(ledger, who)
      /\ UNCHANGED <<costs, sealedBallot, arkivVars, sealedRefs, tallyVars, poolVars>>
  BY Phases DEF Vote, ValidRanks
<1>2. /\ SealedTypeOK /\ ranks \in Seq(Nat) /\ BallotOK(who)
      /\ UNCHANGED <<arkivBallots, publicRefs, contributed>>
  BY <1>1, SealedInputsAssumption DEF SealedInv, BallotsInv, arkivVars, poolVars
<1>3. /\ directBallot' \in [Voter -> Seq(Nat)] /\ directBallot'[who] = ranks
      /\ \A v \in Voter : v # who => directBallot'[v] = directBallot[v]
  BY <1>1, <1>2 DEF SealedTypeOK
<1>4. OnRoster(ledger', who) => BallotOK(who)'
  <2>1. PublicBallot(who)' = ranks /\ SealedBallot(who)' = SealedBallot(who)
    BY <1>1, <1>2, <1>3 DEF PublicBallot, SealedBallot
  <2>2. OnRoster(ledger', who) => OnRoster(ledger, who)'
    BY DEF OnRoster
  <2>3. contributed[who] > 0 /\ contributed[who] >= MinDirectVote
    BY <1>1, BackedByMoney
  <2> QED BY <1>1, <1>2, <2>1, <2>2, <2>3 DEF BallotOK
<1> QED BY <1>1, <1>2, <1>3, <1>4, BallotKeeps DEF SealedTypeOK

LEMMA VoteSealedKeeps ==
  ASSUME SealedInv, NEW who \in Voter, NEW ciphertext \in SealedInputs, VoteSealed(who, ciphertext)
  PROVE  SealedInv'
<1>1. /\ votingOpen /\ ~pastDeadline /\ ~arkivBallots
      /\ Len(ciphertext) = 1 + Len(costs)
      /\ sealedBallot' = [sealedBallot EXCEPT ![who] = ciphertext] /\ ledger' = Register(ledger, who)
      /\ UNCHANGED <<costs, directBallot, arkivVars, sealedRefs, tallyVars, poolVars>>
  BY Phases DEF VoteSealed, CastSealed, RightLength
<1>2. /\ SealedTypeOK /\ ciphertext \in Seq(Nat) /\ BallotOK(who)
      /\ UNCHANGED <<arkivBallots, publicRefs, contributed>>
  BY <1>1, SealedInputsAssumption DEF SealedInv, BallotsInv, arkivVars, poolVars
<1>3. /\ sealedBallot' \in [Voter -> Seq(Nat)] /\ sealedBallot'[who] = ciphertext
      /\ \A v \in Voter : v # who => sealedBallot'[v] = sealedBallot[v]
  BY <1>1, <1>2 DEF SealedTypeOK
<1>4. OnRoster(ledger', who) => BallotOK(who)'
  <2>1. SealedBallot(who)' = ciphertext /\ PublicBallot(who)' = PublicBallot(who)
    BY <1>1, <1>2, <1>3 DEF PublicBallot, SealedBallot
  <2>2. OnRoster(ledger', who) => OnRoster(ledger, who)'
    BY DEF OnRoster
  <2> QED BY <1>1, <1>2, <2>1, <2>2 DEF BallotOK
<1> QED BY <1>1, <1>2, <1>3, <1>4, BallotKeeps DEF SealedTypeOK

\* What storing a reference to a ballot does.
LEMMA RefStored ==
  ASSUME NEW refs \in [Voter -> [payload: Seq(Nat), revision: Nat]], NEW who \in Voter,
         NEW payload \in Seq(Nat), NEW after,
         after = [refs EXCEPT ![who] = [payload |-> payload, revision |-> @.revision + 1]]
  PROVE  /\ after \in [Voter -> [payload: Seq(Nat), revision: Nat]]
         /\ after[who].payload = payload /\ after[who].revision # 0
         /\ \A v \in Voter : v # who => after[v] = refs[v]
<1>1. refs[who].revision \in Nat
  OBVIOUS
<1>2. PICK r : r = [payload |-> payload, revision |-> refs[who].revision + 1]
  OBVIOUS
<1>3. r \in [payload: Seq(Nat), revision: Nat] /\ r.payload = payload /\ r.revision # 0
  BY <1>1, <1>2
<1>4. after = [refs EXCEPT ![who] = r]
  BY <1>2
<1> QED BY <1>3, <1>4

LEMMA VoteArkivKeeps ==
  ASSUME SealedInv, NEW who \in Voter, NEW ranks \in PublicInputs, NEW revision \in 0 .. MaxRevision,
         VoteArkiv(who, ranks, revision)
  PROVE  SealedInv'
<1>1. /\ votingOpen /\ ~pastDeadline /\ arkivBallots /\ Backed(ledger, who)
      /\ Len(ranks) = Len(costs) /\ UNCHANGED arkivBallots
      /\ publicRefs' = [publicRefs EXCEPT ![who] = [payload |-> ranks, revision |-> @.revision + 1]]
      /\ ledger' = Register(ledger, who)
      /\ UNCHANGED <<costs, directBallot, sealedBallot, sealedRefs, tallyVars, poolVars>>
  BY Phases DEF VoteArkiv, AcceptPublicArkiv, ValidRanks, StoreBallot
<1>2. /\ SealedTypeOK /\ ranks \in Seq(Nat) /\ BallotOK(who) /\ UNCHANGED contributed
  BY <1>1, SealedInputsAssumption DEF SealedInv, BallotsInv, poolVars
<1>3. /\ publicRefs' \in [Voter -> [payload: Seq(Nat), revision: Nat]]
      /\ publicRefs'[who].payload = ranks /\ publicRefs'[who].revision # 0
      /\ \A v \in Voter : v # who => publicRefs'[v] = publicRefs[v]
  BY <1>1, <1>2, RefStored DEF SealedTypeOK
<1>4. OnRoster(ledger', who) => BallotOK(who)'
  <2>1. PublicBallot(who)' = ranks /\ SealedBallot(who)' = SealedBallot(who)
    BY <1>1, <1>3 DEF PublicBallot, SealedBallot
  <2>2. OnRoster(ledger', who) => OnRoster(ledger, who)'
    BY DEF OnRoster
  <2>3. contributed[who] > 0 /\ contributed[who] >= MinDirectVote
    BY <1>1, BackedByMoney
  <2> QED BY <1>1, <1>2, <1>3, <2>1, <2>2, <2>3 DEF BallotOK
<1> QED BY <1>1, <1>2, <1>3, <1>4, BallotKeeps DEF SealedTypeOK

LEMMA VoteSealedArkivKeeps ==
  ASSUME SealedInv, NEW who \in Voter, NEW ciphertext \in SealedInputs,
         NEW revision \in 0 .. MaxRevision, VoteSealedArkiv(who, ciphertext, revision)
  PROVE  SealedInv'
<1>1. /\ votingOpen /\ ~pastDeadline /\ arkivBallots
      /\ Len(ciphertext) = 1 + Len(costs) /\ UNCHANGED arkivBallots
      /\ sealedRefs' = [sealedRefs EXCEPT ![who] = [payload |-> ciphertext, revision |-> @.revision + 1]]
      /\ ledger' = Register(ledger, who)
      /\ UNCHANGED <<costs, directBallot, sealedBallot, publicRefs, tallyVars, poolVars>>
  BY Phases DEF VoteSealedArkiv, CastSealedArkiv, RightLength, SealedArkiv!StoreBallot
<1>2. /\ SealedTypeOK /\ ciphertext \in Seq(Nat) /\ BallotOK(who) /\ UNCHANGED contributed
  BY <1>1, SealedInputsAssumption DEF SealedInv, BallotsInv, poolVars
<1>3. /\ sealedRefs' \in [Voter -> [payload: Seq(Nat), revision: Nat]]
      /\ sealedRefs'[who].payload = ciphertext /\ sealedRefs'[who].revision # 0
      /\ \A v \in Voter : v # who => sealedRefs'[v] = sealedRefs[v]
  BY <1>1, <1>2, RefStored DEF SealedTypeOK
<1>4. OnRoster(ledger', who) => BallotOK(who)'
  <2>1. SealedBallot(who)' = ciphertext /\ PublicBallot(who)' = PublicBallot(who)
    BY <1>1, <1>3 DEF PublicBallot, SealedBallot
  <2>2. OnRoster(ledger', who) => OnRoster(ledger, who)'
    BY DEF OnRoster
  <2> QED BY <1>1, <1>2, <1>3, <2>1, <2>2 DEF BallotOK
<1> QED BY <1>1, <1>2, <1>3, <1>4, BallotKeeps DEF SealedTypeOK

LEMMA CastBallotKeeps ==
  ASSUME SealedInv, NEW who \in Voter, NEW amount \in Amounts, NEW fee \in Fees,
         NEW ranks \in PublicInputs, NEW revision \in 0 .. MaxRevision,
         CastBallot(who, amount, fee, ranks, revision)
  PROVE  SealedInv'
<1>0. PICK L : L = OnContribution(AddBudget(ledger, amount), who, amount)
  OBVIOUS
<1>1. /\ AcceptDeposit(amount, fee) /\ arkivBallots /\ Backed(L, who) /\ Len(ranks) = Len(costs)
      /\ contributed' = [contributed EXCEPT ![who] = @ + amount]
      /\ UNCHANGED arkivBallots
      /\ publicRefs' = [publicRefs EXCEPT ![who] = [payload |-> ranks, revision |-> @.revision + 1]]
      /\ ledger' = Register(L, who)
      /\ UNCHANGED <<costs, directBallot, sealedBallot, sealedRefs, tallyVars, votingOpen, pastDeadline,
                     seatVars, payVars>>
  BY <1>0 DEF CastBallot, AcceptPublicArkiv, ValidRanks, StoreBallot
<1>2. /\ amount \in Nat /\ balance' \in Nat /\ votingOpen /\ ~pastDeadline
  BY <1>1, DepositAccepted
<1>3. UNCHANGED <<sponsorships, seatHolder, nftOwner, closed, finality>>
  BY <1>1 DEF seatVars, tallyVars, closeVars, resultVars
<1>4. /\ contributed' \in [Voter -> Nat]
      /\ \A v \in Voter : contributed'[v] \in Nat /\ contributed[v] <= contributed'[v]
  BY <1>1, <1>2, CreditGrows
<1>5. /\ LedgerOK(L) /\ Extends(L, ledger)
      /\ L.direct = [ledger.direct EXCEPT ![who] = @ + amount] /\ L.seat = ledger.seat
      /\ L.totalSeat = ledger.totalSeat /\ L.total = ledger.total + amount
      /\ RosterTotal(L.voters, L.direct) = RosterTotal(ledger.voters, ledger.direct) + amount
  BY <1>0, <1>2, ContributionOnBudget
<1>6. /\ LedgerOK(ledger') /\ Extends(ledger', L) /\ OnRoster(ledger', who)
      /\ ledger'.direct = L.direct /\ ledger'.seat = L.seat
      /\ ledger'.totalSeat = L.totalSeat /\ ledger'.total = L.total
      /\ RosterTotal(ledger'.voters, ledger'.direct) = RosterTotal(L.voters, L.direct)
  BY <1>1, <1>5, RegisterKeeps
<1>7. Extends(ledger', ledger)
  BY <1>5, <1>6 DEF Extends
<1>8. /\ SealedTypeOK /\ MoneyInv /\ BallotsInv /\ LedgerOK(ledger) /\ ranks \in Seq(Nat) /\ BallotOK(who)
  BY SealedInputsAssumption DEF SealedInv, BallotsInv
<1>9. /\ publicRefs' \in [Voter -> [payload: Seq(Nat), revision: Nat]]
      /\ publicRefs'[who].payload = ranks /\ publicRefs'[who].revision # 0
      /\ \A v \in Voter : v # who => publicRefs'[v] = publicRefs[v]
  BY <1>1, <1>8, RefStored DEF SealedTypeOK
<1>10. SealedTypeOK'
  BY <1>1, <1>2, <1>3, <1>4, <1>8, <1>9 DEF SealedTypeOK, CustodyOK
<1>11. MoneyInv'
  <2>1. /\ ledger'.direct = [ledger.direct EXCEPT ![who] = @ + amount] /\ ledger'.seat = ledger.seat
        /\ ledger'.totalSeat = ledger.totalSeat /\ ledger'.total = ledger.total + amount
        /\ RosterTotal(ledger'.voters, ledger'.direct)
             = RosterTotal(ledger.voters, ledger.direct) + amount
    BY <1>5, <1>6
  <2> QED BY <1>1, <1>2, <1>3, <1>8, <2>1, MoneyByDeposit
<1>12. BallotsInv'
  <2>1. PublicBallot(who)' = ranks /\ SealedBallot(who)' = SealedBallot(who)
    BY <1>1, <1>9 DEF PublicBallot, SealedBallot
  <2>2. OnRoster(ledger, who)' /\ Extends(ledger', ledger)
    BY <1>6, <1>7 DEF OnRoster
  <2>3. contributed'[who] > 0 /\ contributed'[who] >= MinDirectVote
    <3>1. L.direct = contributed'
      BY <1>1, <1>5, <1>8 DEF MoneyInv
    <3> QED BY <1>1, <3>1 DEF Backed
  <2>4. BallotOK(who)'
    BY <1>1, <1>8, <1>9, <2>1, <2>2, <2>3 DEF BallotOK
  <2>5. votingOpen' /\ UNCHANGED <<costs, arkivBallots>>
    BY <1>1, <1>2
  <2>6. \A v \in Voter : v # who =>
           /\ directBallot'[v] = directBallot[v] /\ sealedBallot'[v] = sealedBallot[v]
           /\ publicRefs'[v] = publicRefs[v] /\ sealedRefs'[v] = sealedRefs[v]
    BY <1>1, <1>9
  <2> QED BY <1>4, <1>7, <1>8, <2>4, <2>5, <2>6, BallotsFollow
<1>13. UNCHANGED <<tallyVars, payVars>>
  BY <1>1
<1> QED BY <1>2, <1>6, <1>10, <1>11, <1>12, <1>13, EarlyKeeps


-----------------------------------------------------------------------------
(* From the deadline on.                                                   *)

LEMMA RosterSame ==
  ASSUME UNCHANGED <<costs, ledger, ballotVars>>
  PROVE  /\ Roster' = Roster /\ Commitment(Roster)' = Commitment(Roster)
         /\ \A v : PublicBallot(v)' = PublicBallot(v) /\ SealedBallot(v)' = SealedBallot(v)
<1>1. UNCHANGED <<arkivBallots, directBallot, sealedBallot, publicRefs, sealedRefs>>
  BY DEF ballotVars, arkivVars
<1>2. \A v : PublicBallot(v)' = PublicBallot(v) /\ SealedBallot(v)' = SealedBallot(v)
  BY <1>1 DEF PublicBallot, SealedBallot
<1>3. Roster' = Roster
  BY <1>2 DEF Roster, Entry
<1> QED BY <1>2, <1>3 DEF Commitment

\* Nothing a roster or a ballot is made of moves.
LEMMA InputsSame ==
  ASSUME SealedInv,
         UNCHANGED <<costs, ledger, ballotVars, votingOpen, sponsorships, seatHolder, contributed>>,
         nftOwner' \in [TokenId -> Voter \ {NoHolder}], pastDeadline' \in BOOLEAN, balance' \in Nat,
         closed' \in BOOLEAN, finality' \in {"None", "Attested", "Proven", "Abandoned"},
         ChainInv', AwardInv'
  PROVE  SealedInv'
<1>1. UNCHANGED <<arkivBallots, directBallot, sealedBallot, publicRefs, sealedRefs>>
  BY DEF ballotVars, arkivVars
<1>2. SealedTypeOK'
  BY <1>1 DEF SealedInv, SealedTypeOK, CustodyOK
<1>3. MoneyInv'
  BY MoneyStays DEF SealedInv
<1>4. BallotsInv'
  <2>1. \A v \in Voter : contributed'[v] \in Nat /\ contributed[v] <= contributed'[v]
    BY DEF SealedInv, SealedTypeOK
  <2>2. Extends(ledger', ledger)
    BY DEF Extends
  <2> QED BY <2>1, <2>2, BallotsSame DEF SealedInv
<1>5. LedgerOK(ledger)'
  BY DEF SealedInv, LedgerOK, NoRepeats, OnRoster, RosterTotal, Listed
<1> QED BY <1>2, <1>3, <1>4, <1>5 DEF SealedInv

\* What was walked of the roster stays what it was.
LEMMA ChainSame ==
  ASSUME SealedInv, UNCHANGED <<costs, ledger, ballotVars, votingOpen, closeVars>>,
         pastDeadline => pastDeadline',
         finality' # "None" => votingOpen /\ pastDeadline,
         finality' = "None" => finality = "None" /\ balance' >= balance,
         balance' \in Nat
  PROVE  ChainInv'
<1>1. UNCHANGED <<closed, closeCursor, voterChain, inputsHash>>
  BY DEF closeVars
<1>2. Roster' = Roster /\ Commitment(Roster)' = Commitment(Roster)
  BY RosterSame
<1>3. balance \in Nat /\ ledger.total \in Nat /\ ChainInv
  BY DEF SealedInv, SealedTypeOK, LedgerOK, SealedLedgers
<1>4. /\ closeCursor > 0 \/ closed \/ finality' # "None" => votingOpen /\ pastDeadline'
      /\ finality' = "None" /\ (closeCursor > 0 \/ closed) => balance' >= ledger.total
  BY <1>3 DEF ChainInv
<1> QED BY <1>1, <1>2, <1>3, <1>4 DEF ChainInv

LEMMA AwardSame ==
  ASSUME SealedInv, UNCHANGED <<costs, payVars, resultVars>>,
         finality # "None" => balance' >= spent - claimedTotal
  PROVE  AwardInv'
<1>1. UNCHANGED <<claimed, claimedTotal, finality, funded, spent>>
  BY DEF payVars, resultVars
<1>2. FundedCosts' = FundedCosts /\ ClaimedCosts' = ClaimedCosts
  BY <1>1 DEF FundedCosts, ClaimedCosts
<1> QED BY <1>1, <1>2 DEF SealedInv, AwardInv

\* The next entries of the roster join the chain.
LEMMA CloseResolvedKeeps ==
  ASSUME SealedInv, votingOpen, pastDeadline, finality = "None", ~closed,
         NEW m \in Nat, m <= Len(ledger.voters) - closeCursor,
         NEW entries, entries = [i \in 1 .. m |-> Roster[closeCursor + i]],
         CloseResolved(entries),
         UNCHANGED <<costs, ledger, ballotVars, resultVars, poolVars>>
  PROVE  SealedInv'
<1>0. PICK n, c, R, ch : n = Len(ledger.voters) /\ c = closeCursor /\ R = Roster /\ ch = voterChain
  OBVIOUS
<1>1. /\ n \in Nat /\ R \in Seq(Entries) /\ Len(R) = n /\ \A i \in 1 .. n : R[i] \in Entries
  BY <1>0, RosterIs DEF SealedInv
<1>2. /\ c \in 0 .. n /\ ch \in Seq(Entries) /\ Len(ch) = c /\ \A i \in 1 .. c : ch[i] = R[i]
      /\ m <= n - c
  BY <1>0 DEF SealedInv, ChainInv
<1>3. entries \in Seq(Entries) /\ Len(entries) = m /\ \A i \in 1 .. m : entries[i] = R[c + i]
  <2>1. \A i \in 1 .. m : c + i \in 1 .. n /\ R[c + i] \in Entries
    BY <1>1, <1>2
  <2>2. entries = [i \in 1 .. m |-> R[c + i]]
    BY <1>0
  <2> QED BY <2>1, <2>2
<1>4. /\ closeCursor' = c + m /\ voterChain' = ch \o entries
      /\ closed' = (closeCursor' = n)
      /\ inputsHash' = IF closed' THEN Commitment(voterChain') ELSE inputsHash
      /\ c = 0 => balance >= ledger.total
  BY <1>0, <1>3 DEF CloseResolved, BalanceCovers
<1>5. PICK k, h : k = c + m /\ h = voterChain'
  OBVIOUS
<1>6. /\ k \in 0 .. n /\ h \in Seq(Entries) /\ Len(h) = k
      /\ \A i \in 1 .. k : h[i] = IF i <= c THEN ch[i] ELSE entries[i - c]
  <2>1. k \in 0 .. n /\ c \in Nat /\ h = ch \o entries
    BY <1>1, <1>2, <1>4, <1>5
  <2>2. /\ ch \in Seq(Entries) /\ entries \in Seq(Entries) /\ Len(ch) = c /\ Len(entries) = m
        /\ k = Len(ch) + Len(entries)
    BY <1>2, <1>3, <1>5
  <2>3. /\ h \in Seq(Entries) /\ Len(h) = Len(ch) + Len(entries)
        /\ \A i \in 1 .. Len(ch) + Len(entries) :
             h[i] = IF i <= Len(ch) THEN ch[i] ELSE entries[i - Len(ch)]
    BY <2>1, <2>2, ConcatProperties
  <2> QED BY <2>1, <2>2, <2>3
<1>7. \A i \in 1 .. k : h[i] = R[i]
  <2> TAKE i \in 1 .. k
  <2>1. CASE i <= c
    BY <1>2, <1>6, <2>1
  <2>2. CASE ~(i <= c)
    <3>1. i - c \in 1 .. m /\ c + (i - c) = i
      BY <1>2, <1>5, <1>6, <2>2
    <3>2. h[i] = entries[i - c]
      BY <1>6, <2>2
    <3>3. entries[i - c] = R[c + (i - c)]
      BY <1>3, <3>1
    <3> QED BY <3>1, <3>2, <3>3
  <2> QED BY <2>1, <2>2
<1>8. Roster' = R /\ Commitment(Roster)' = Commitment(R)
  BY <1>0, RosterSame
<1>9. /\ UNCHANGED <<votingOpen, pastDeadline, balance, sponsorships, seatHolder, nftOwner, contributed,
                     finality, funded, spent>>
      /\ UNCHANGED payVars
  BY DEF poolVars, seatVars, resultVars
<1>10. balance >= ledger.total
  BY <1>0, <1>2, <1>4 DEF SealedInv, ChainInv
<1>11. closed' => k = n /\ inputsHash' = Commitment(R)
  <2>1. ASSUME k = n PROVE h = R
    BY <1>1, <1>6, <1>7, <2>1
  <2> QED BY <1>4, <1>5, <2>1
<1>12. ChainInv'
  <2>1. ledger' = ledger /\ Len(ledger'.voters) = n /\ closeCursor' = k /\ voterChain' = h
    BY <1>0, <1>4, <1>5
  <2>2. balance' >= ledger'.total
    BY <1>9, <1>10, <2>1
  <2> QED BY <1>6, <1>7, <1>8, <1>9, <1>11, <2>1, <2>2 DEF ChainInv
<1>13. AwardInv'
  <2>1. finality # "None" => balance' >= spent - claimedTotal
    OBVIOUS
  <2> QED BY <1>9, <2>1, AwardSame
<1>14. nftOwner' \in [TokenId -> Voter \ {NoHolder}] /\ balance' \in Nat /\ pastDeadline' \in BOOLEAN
       /\ finality' \in {"None", "Attested", "Proven", "Abandoned"} /\ closed' \in BOOLEAN
  BY <1>4, <1>9 DEF SealedInv, SealedTypeOK, CustodyOK
<1> QED BY <1>9, <1>12, <1>13, <1>14, InputsSame

LEMMA CloseKeeps ==
  ASSUME SealedInv, NEW maxVoters \in Nat, Close(maxVoters)
  PROVE  SealedInv'
<1>0. PICK m, n, c : /\ m = IF maxVoters < Remaining THEN maxVoters ELSE Remaining
                     /\ n = Len(ledger.voters) /\ c = closeCursor
  OBVIOUS
<1>1. n \in Nat /\ c \in 0 .. n /\ Remaining = n - c
  BY <1>0, RosterIs DEF SealedInv, ChainInv, Remaining
<1>2. m \in Nat /\ m <= n - c
  BY <1>0, <1>1
<1>3. PICK entries :
        entries = [i \in 1 .. m |->
                     Entry(NextVoter(i), directBallot[NextVoter(i)], sealedBallot[NextVoter(i)])]
  OBVIOUS
<1>4. /\ votingOpen /\ pastDeadline /\ finality = "None" /\ ~closed /\ ~arkivBallots
      /\ CloseResolved(entries)
      /\ UNCHANGED <<costs, ledger, ballotVars, resultVars, poolVars>>
  BY <1>0, <1>3, Phases DEF Close
<1>5. entries = [i \in 1 .. m |-> Roster[closeCursor + i]]
  <2> SUFFICES ASSUME NEW i \in 1 .. m
               PROVE  Entry(NextVoter(i), directBallot[NextVoter(i)], sealedBallot[NextVoter(i)])
                        = Roster[closeCursor + i]
    BY <1>3
  <2>1. c + i \in 1 .. n
    BY <1>1, <1>2
  <2>2. Roster[closeCursor + i] = Entry(NextVoter(i), PublicBallot(NextVoter(i)), SealedBallot(NextVoter(i)))
    BY <1>0, <2>1, RosterIs DEF SealedInv, NextVoter
  <2> QED BY <1>4, <2>2 DEF PublicBallot, SealedBallot
<1> QED BY <1>0, <1>2, <1>4, <1>5, CloseResolvedKeeps

Pages == [public: Seq(Nat), sealed: Seq(Nat)]

LEMMA CloseArkivKeeps ==
  ASSUME SealedInv, NEW cursor, NEW ballots \in Seq(Pages), CloseArkiv(cursor, ballots)
  PROVE  SealedInv'
<1>0. PICK m, n, c : m = Len(ballots) /\ n = Len(ledger.voters) /\ c = closeCursor
  OBVIOUS
<1>1. n \in Nat /\ c \in 0 .. n /\ Remaining = n - c
  BY <1>0, RosterIs DEF SealedInv, ChainInv, Remaining
<1>2. m \in Nat /\ m <= n - c /\ DOMAIN ballots = 1 .. m
  BY <1>0, <1>1 DEF CloseArkiv
<1>3. PICK entries :
        entries = [i \in 1 .. m |-> Entry(NextVoter(i), ballots[i].public, ballots[i].sealed)]
  OBVIOUS
<1>4. /\ votingOpen /\ pastDeadline /\ finality = "None" /\ ~closed /\ arkivBallots
      /\ CloseResolved(entries)
      /\ UNCHANGED <<costs, ledger, ballotVars, resultVars, poolVars>>
  BY <1>2, <1>3, Phases DEF CloseArkiv
<1>5. entries = [i \in 1 .. m |-> Roster[closeCursor + i]]
  <2> SUFFICES ASSUME NEW i \in 1 .. m
               PROVE  Entry(NextVoter(i), ballots[i].public, ballots[i].sealed)
                        = Roster[closeCursor + i]
    BY <1>3
  <2>1. c + i \in 1 .. n
    BY <1>1, <1>2
  <2>2. NextVoter(i) \in Voter
        /\ Roster[closeCursor + i] = Entry(NextVoter(i), PublicBallot(NextVoter(i)), SealedBallot(NextVoter(i)))
    BY <1>0, <2>1, RosterIs DEF SealedInv, NextVoter
  <2>3. CheckBallot(NextVoter(i), ballots[i].public)
        /\ SealedArkiv!CheckBallot(NextVoter(i), ballots[i].sealed)
    BY <1>2 DEF CloseArkiv
  <2>4. BallotOK(NextVoter(i))
    BY <2>2 DEF SealedInv, BallotsInv
  <2>5. ballots[i].public = PublicBallot(NextVoter(i)) /\ ballots[i].sealed = SealedBallot(NextVoter(i))
    BY <1>4, <2>3, <2>4 DEF CheckBallot, SealedArkiv!CheckBallot, BallotOK, PublicBallot, SealedBallot
  <2> QED BY <2>2, <2>5
<1> QED BY <1>0, <1>2, <1>4, <1>5, CloseResolvedKeeps


-----------------------------------------------------------------------------
(* The result and the payout.                                              *)

Lists(order) == \A i \in DOMAIN order : order[i] \in DOMAIN costs

\* A list of different projects costs what its projects cost.
LEMMA CostOfOrder ==
  ASSUME costs \in Seq(Nat \ {0}), NEW order \in Seq(Nat),
         Lists(order), NoRepeats(order)
  PROVE  /\ CostOf(order) \in Nat
         /\ CostOf(order)
              = Sum([c \in 1 .. Len(costs) |->
                       IF c \in {order[i] : i \in DOMAIN order} THEN costs[c] ELSE 0], Len(costs))
<1> DEFINE f == [i \in DOMAIN order |-> costs[order[i]]]
           In(k) == {order[i] : i \in 1 .. k}
           g(k) == [c \in 1 .. Len(costs) |-> IF c \in In(k) THEN costs[c] ELSE 0]
<1>0. PICK n, m : n = Len(costs) /\ m = Len(order)
  OBVIOUS
<1>1. /\ n \in Nat /\ m \in Nat /\ DOMAIN costs = 1 .. n /\ DOMAIN order = 1 .. m
      /\ \A c \in 1 .. n : costs[c] \in Nat
      /\ \A i \in 1 .. m : order[i] \in 1 .. n
      /\ \A i, j \in 1 .. m : order[i] = order[j] => i = j
  <2>1. n \in Nat /\ DOMAIN costs = 1 .. n /\ \A c \in 1 .. n : costs[c] \in Nat
    BY <1>0
  <2>2. m \in Nat /\ DOMAIN order = 1 .. m
    BY <1>0
  <2> QED BY <2>1, <2>2 DEF Lists, NoRepeats
<1>2. f \in [1 .. m -> Nat] /\ f \in [1 .. m -> Int] /\ \A i \in 1 .. m : f[i] = costs[order[i]]
  <2>1. \A i \in 1 .. m : costs[order[i]] \in Nat /\ costs[order[i]] \in Int
    BY <1>1
  <2> QED BY <1>1, <2>1
<1>3. ASSUME NEW k \in Nat PROVE g(k) \in [1 .. n -> Int]
  BY <1>0, <1>1
<1>4. g(0) \in [1 .. n -> Int] /\ \A c \in 1 .. n : g(0)[c] = 0
  BY <1>0, <1>1
<1>5. ASSUME NEW k \in Nat, k < m
      PROVE  /\ order[k + 1] \in 1 .. n
             /\ \A c \in 1 .. n : c # order[k + 1] => g(k + 1)[c] = g(k)[c]
             /\ g(k + 1)[order[k + 1]] = f[k + 1] /\ g(k)[order[k + 1]] = 0
  <2>1. k + 1 \in 1 .. m /\ order[k + 1] \in 1 .. n /\ \A i \in 1 .. k : i \in 1 .. m /\ i # k + 1
    BY <1>1, <1>5
  <2>2. order[k + 1] \notin In(k) /\ In(k + 1) = In(k) \cup {order[k + 1]}
    <3>1. 1 .. (k + 1) = (1 .. k) \cup {k + 1}
      BY <1>5
    <3>2. \A i \in 1 .. k : order[i] # order[k + 1]
      BY <1>1, <2>1
    <3> QED BY <3>1, <3>2
  <2>3. f[k + 1] = costs[order[k + 1]]
    BY <1>2, <2>1
  <2> HIDE DEF In, f
  <2> QED BY <1>0, <2>1, <2>2, <2>3
<1> DEFINE F == PrefixSum(f, m)
           G == {k \in Nat : k <= m => F[k] = Sum(g(k), n)}
<1> HIDE DEF f, g, In
<1>6. F[0] = 0 /\ \A i \in 1 .. m : F[i] = F[i - 1] + f[i]
  BY <1>1, <1>2, PrefixSumUnfold
<1> HIDE DEF F
<1>7. 0 \in G
  <2>1. Sum(g(0), n) = 0
    <3>1. PICK z : z = g(0)
      OBVIOUS
    <3>2. Sum(z, n) = 0
      BY <1>1, <1>4, <3>1, SumOfZeros
    <3> QED BY <3>1, <3>2
  <2> QED BY <1>6, <2>1
<1>8. ASSUME NEW k \in G, k < m PROVE k + 1 \in G
  <2>1. k \in Nat /\ k + 1 \in Nat /\ k + 1 \in 1 .. m /\ (k + 1) - 1 = k /\ F[k] = Sum(g(k), n)
    BY <1>1, <1>8
  <2>2. F[k + 1] = F[k] + f[k + 1]
    BY <1>6, <2>1
  <2>3. PICK a, b, c : a = g(k) /\ b = g(k + 1) /\ c = order[k + 1]
    OBVIOUS
  <2>4. /\ a \in [1 .. n -> Int] /\ b \in [1 .. n -> Int] /\ c \in 1 .. n
        /\ \A d \in 1 .. n : d # c => b[d] = a[d]
        /\ b[c] = f[k + 1] /\ a[c] = 0
    BY <1>3, <1>5, <1>8, <2>1, <2>3
  <2>5. Sum(b, n) = Sum(a, n) + (b[c] - a[c])
    <3> HIDE DEF G
    <3>1. /\ n \in Nat /\ a \in [1 .. n -> Int] /\ b \in [1 .. n -> Int] /\ c \in 1 .. n
          /\ \A d \in 1 .. n : d # c => b[d] = a[d]
      BY <1>1, <2>4
    <3> QED BY <3>1, SumChanges
  <2>6. Sum(b, n) = Sum(a, n) + f[k + 1]
    <3>1. f[k + 1] \in Int
      BY <1>2, <2>1
    <3> QED BY <2>4, <2>5, <3>1
  <2> QED BY <2>1, <2>2, <2>3, <2>6
<1>9. F[m] = Sum(g(m), n)
  <2>1. G \in SUBSET Nat
    OBVIOUS
  <2>2. 0 .. m \subseteq G
    <3> HIDE DEF G
    <3> QED BY <1>1, <1>7, <1>8, <2>1, InductionUpTo
  <2> QED BY <1>1, <2>2
<1>10. Sum(f, m) \in Nat /\ Sum(f, m) = F[m]
  BY <1>1, <1>2, SumNat DEF Sum, F
<1>11. CostOf(order) = Sum(f, m)
  BY <1>0 DEF CostOf, f
<1>12. In(m) = {order[i] : i \in DOMAIN order}
  BY <1>1 DEF In
<1> QED BY <1>0, <1>9, <1>10, <1>11, <1>12 DEF g

LEMMA AwardPart ==
  ASSUME SealedInv
  PROVE  /\ claimedTotal \in Nat /\ spent \in Nat /\ balance \in Nat /\ Len(costs) \in Nat
         /\ claimedTotal <= spent
         /\ ClaimedCosts \in [1 .. Len(costs) -> Nat] /\ ClaimedCosts \in [1 .. Len(costs) -> Int]
         /\ FundedCosts \in [1 .. Len(costs) -> Int]
         /\ \A c \in 1 .. Len(costs) : costs[c] \in Nat \ {0}
<1>1. /\ costs \in Seq(Nat \ {0}) /\ balance \in Nat /\ claimed \subseteq funded
      /\ spent = Sum(FundedCosts, Len(costs)) /\ claimedTotal = Sum(ClaimedCosts, Len(costs))
  BY DEF SealedInv, SealedTypeOK, AwardInv
<1>2. Len(costs) \in Nat /\ \A c \in 1 .. Len(costs) : costs[c] \in Nat \ {0}
  BY <1>1
<1>3. /\ ClaimedCosts \in [1 .. Len(costs) -> Nat] /\ FundedCosts \in [1 .. Len(costs) -> Nat]
      /\ \A c \in 1 .. Len(costs) : ClaimedCosts[c] <= FundedCosts[c]
  BY <1>1, <1>2 DEF ClaimedCosts, FundedCosts
<1>4. ClaimedCosts \in [1 .. Len(costs) -> Int] /\ FundedCosts \in [1 .. Len(costs) -> Int]
  BY <1>3
<1>5. Sum(ClaimedCosts, Len(costs)) <= Sum(FundedCosts, Len(costs))
      /\ Sum(ClaimedCosts, Len(costs)) \in Nat /\ Sum(FundedCosts, Len(costs)) \in Nat
  BY <1>2, <1>3, SumBounds
<1> QED BY <1>1, <1>2, <1>3, <1>4, <1>5

\* A round is decided within what the pool holds.
LEMMA FinalizeKeeps ==
  ASSUME SealedInv, NEW order \in Seq(Nat), NEW how \in {"Attested", "Proven", "Abandoned"},
         votingOpen, pastDeadline, CostOf(order) <= balance, Finalize(order, how)
  PROVE  SealedInv'
<1>1. /\ finality = "None" /\ finality' = how /\ how # "None"
      /\ \A i \in DOMAIN order : order[i] \in DOMAIN costs
      /\ \A i, j \in DOMAIN order : order[i] = order[j] => i = j
      /\ funded' = {order[i] : i \in DOMAIN order} /\ spent' = CostOf(order)
      /\ UNCHANGED <<costs, ledger, ballotVars, closeVars, poolVars>>
  BY DEF Finalize, ValidResult
<1>2. UNCHANGED <<votingOpen, pastDeadline, balance, sponsorships, seatHolder, nftOwner, contributed,
                  claimed, claimedTotal, closed>>
  BY <1>1 DEF poolVars, seatVars, payVars, closeVars
<1>3. /\ costs \in Seq(Nat \ {0}) /\ balance \in Nat
      /\ nftOwner \in [TokenId -> Voter \ {NoHolder}] /\ closed \in BOOLEAN /\ AwardInv
  BY DEF SealedInv, SealedTypeOK, CustodyOK
<1>4. Len(costs) \in Nat /\ DOMAIN costs = 1 .. Len(costs)
  BY <1>3
<1>5. /\ CostOf(order) \in Nat
      /\ spent' = Sum(FundedCosts', Len(costs))
  <2>1. /\ CostOf(order) \in Nat
        /\ CostOf(order)
              = Sum([c \in 1 .. Len(costs) |->
                       IF c \in {order[i] : i \in DOMAIN order} THEN costs[c] ELSE 0], Len(costs))
    BY <1>1, <1>3, CostOfOrder DEF Lists, NoRepeats
  <2>2. FundedCosts' = [c \in 1 .. Len(costs) |->
                          IF c \in {order[i] : i \in DOMAIN order} THEN costs[c] ELSE 0]
    BY <1>1 DEF FundedCosts
  <2> QED BY <1>1, <2>1, <2>2
<1>6. claimed = {} /\ claimedTotal = 0
  <2>1. claimed = {}
    BY <1>1, <1>3 DEF AwardInv
  <2>2. ClaimedCosts \in [1 .. Len(costs) -> Int] /\ \A c \in 1 .. Len(costs) : ClaimedCosts[c] = 0
    BY <2>1 DEF ClaimedCosts
  <2> QED BY <1>3, <1>4, <2>1, <2>2, SumOfZeros DEF AwardInv
<1>7. AwardInv'
  <2>1. ClaimedCosts' = ClaimedCosts
    BY <1>1, <1>2 DEF ClaimedCosts
  <2>2. claimedTotal' = Sum(ClaimedCosts', Len(costs'))
    BY <1>1, <1>2, <1>3, <2>1 DEF AwardInv
  <2>3. balance' >= spent' - claimedTotal'
    BY <1>1, <1>2, <1>3, <1>5, <1>6
  <2>4. claimed' \subseteq funded' /\ funded' \subseteq 1 .. Len(costs')
    BY <1>1, <1>2, <1>4, <1>6
  <2>5. spent' = Sum(FundedCosts', Len(costs'))
    BY <1>1, <1>5
  <2> QED BY <1>1, <2>2, <2>3, <2>4, <2>5 DEF AwardInv
<1>8. ChainInv'
  <2>1. /\ finality' # "None" => votingOpen /\ pastDeadline
        /\ finality' = "None" => finality = "None" /\ balance' >= balance
        /\ balance' \in Nat /\ (pastDeadline => pastDeadline')
    BY <1>1, <1>2, <1>3
  <2> QED BY <1>1, <1>2, <2>1, ChainSame
<1>9. /\ nftOwner' \in [TokenId -> Voter \ {NoHolder}] /\ balance' \in Nat /\ pastDeadline' \in BOOLEAN
      /\ finality' \in {"None", "Attested", "Proven", "Abandoned"} /\ closed' \in BOOLEAN
  BY <1>1, <1>2, <1>3 DEF SealedInv, SealedTypeOK
<1> QED BY <1>1, <1>2, <1>7, <1>8, <1>9, InputsSame

\* A result for a closed round costs at most what the pool held when it closed.
LEMMA ResultKeeps ==
  ASSUME SealedInv, phase = "Tally", NEW order \in Seq(Nat),
         NEW how \in {"Attested", "Proven", "Abandoned"}, Finalize(order, how)
  PROVE  SealedInv'
<1>1. /\ closed /\ finality = "None"
  BY Phases
<1>2. votingOpen /\ pastDeadline /\ balance >= ledger.total
  BY <1>1 DEF SealedInv, ChainInv
<1>3. CostOf(order) <= balance
  <2>1. CostOf(order) <= ledger.total /\ CostOf(order) \in Nat
    BY CostOfOrder DEF Finalize, ValidResult, Lists, NoRepeats, SealedInv, SealedTypeOK
  <2>2. ledger.total \in Nat /\ balance \in Nat
    BY DEF SealedInv, SealedTypeOK, LedgerOK, SealedLedgers
  <2> QED BY <1>2, <2>1, <2>2
<1> QED BY <1>2, <1>3, FinalizeKeeps

LEMMA AbandonKeeps ==
  ASSUME SealedInv, Abandon
  PROVE  SealedInv'
<1>1. (phase = "Tally" \/ phase = "Closing") /\ Finalize(<< >>, "Abandoned")
  BY DEF Abandon
<1>2. << >> \in Seq(Nat)
  OBVIOUS
<1>3. votingOpen /\ pastDeadline
  <2>1. CASE phase = "Tally"
    BY <2>1, Phases DEF SealedInv, ChainInv
  <2>2. CASE phase = "Closing"
    BY <2>2, Phases
  <2> QED BY <1>1, <2>1, <2>2
<1>4. CostOf(<< >>) = 0
  <2>1. [i \in DOMAIN << >> |-> costs[<< >>[i]]] \in [1 .. 0 -> Int]
    OBVIOUS
  <2> QED BY <2>1, EmptySum DEF CostOf
<1>5. CostOf(<< >>) <= balance
  BY <1>4 DEF SealedInv, SealedTypeOK
<1> QED BY <1>1, <1>2, <1>3, <1>5, FinalizeKeeps

LEMMA ClaimKeeps ==
  ASSUME SealedInv, NEW c \in DOMAIN costs, Claim(c)
  PROVE  SealedInv'
<1>1. /\ finality # "None" /\ c \in funded /\ c \notin claimed
      /\ claimed' = claimed \cup {c} /\ claimedTotal' = claimedTotal + costs[c]
      /\ balance >= costs[c] /\ balance' = balance - costs[c]
      /\ UNCHANGED <<costs, ledger, ballotVars, tallyVars, votingOpen, pastDeadline, seatVars, contributed>>
  BY Phases DEF Claim, PayProject
<1>2. /\ UNCHANGED <<finality, funded, spent, closed, sponsorships, seatHolder, nftOwner>>
      /\ UNCHANGED closeVars
  BY <1>1 DEF tallyVars, closeVars, resultVars, seatVars
<1>3. /\ claimedTotal \in Nat /\ spent \in Nat /\ balance \in Nat /\ Len(costs) \in Nat
      /\ ClaimedCosts \in [1 .. Len(costs) -> Int] /\ c \in 1 .. Len(costs)
      /\ costs[c] \in Nat \ {0} /\ \A d \in 1 .. Len(costs) : costs[d] \in Nat
  <2>1. costs \in Seq(Nat \ {0})
    BY DEF SealedInv, SealedTypeOK
  <2> QED BY <2>1, AwardPart
<1>4. balance' \in Nat
  BY <1>1, <1>3
<1>5. claimedTotal' = Sum(ClaimedCosts', Len(costs))
  <2>1. ClaimedCosts' = [d \in 1 .. Len(costs) |-> IF d \in claimed \cup {c} THEN costs[d] ELSE 0]
    BY <1>1 DEF ClaimedCosts
  <2>2. PICK f, g, n : f = ClaimedCosts /\ g = ClaimedCosts' /\ n = Len(costs)
    OBVIOUS
  <2>3. f = [d \in 1 .. n |-> IF d \in claimed THEN costs[d] ELSE 0]
    BY <2>2 DEF ClaimedCosts
  <2>4. /\ n \in Nat /\ f \in [1 .. n -> Int] /\ g \in [1 .. n -> Int] /\ c \in 1 .. n
        /\ \A d \in 1 .. n : d # c => g[d] = f[d]
        /\ g[c] = costs[c] /\ f[c] = 0
    BY <1>1, <1>3, <2>1, <2>2, <2>3
  <2>5. Sum(g, n) = Sum(f, n) + (g[c] - f[c])
    BY <2>4, SumChanges
  <2>6. claimedTotal = Sum(f, n)
    BY <2>2 DEF SealedInv, AwardInv
  <2> QED BY <1>1, <1>3, <2>2, <2>4, <2>5, <2>6
<1>6. AwardInv'
  <2>1. /\ claimed \subseteq funded /\ funded \subseteq 1 .. Len(costs)
        /\ spent = Sum(FundedCosts, Len(costs)) /\ balance >= spent - claimedTotal
    BY <1>1 DEF SealedInv, AwardInv
  <2>2. balance' >= spent' - claimedTotal'
    <3>1. PICK p, b, s, k : p = costs[c] /\ b = balance /\ s = spent /\ k = claimedTotal
      OBVIOUS
    <3>2. balance' = b - p /\ spent' = s /\ claimedTotal' = k + p
      BY <1>1, <1>2, <3>1
    <3>3. p \in Nat /\ b \in Nat /\ s \in Nat /\ k \in Nat /\ b >= s - k
      BY <1>3, <2>1, <3>1
    <3> QED BY <3>2, <3>3
  <2>3. FundedCosts' = FundedCosts
    BY <1>1, <1>2 DEF FundedCosts
  <2>4. claimed' \subseteq funded' /\ funded' \subseteq 1 .. Len(costs')
    BY <1>1, <1>2, <2>1
  <2>5. spent' = Sum(FundedCosts', Len(costs')) /\ claimedTotal' = Sum(ClaimedCosts', Len(costs'))
    BY <1>1, <1>2, <1>5, <2>1, <2>3
  <2> QED BY <1>1, <1>2, <2>2, <2>4, <2>5 DEF AwardInv
<1>7. ChainInv'
  <2>1. finality' # "None" => votingOpen /\ pastDeadline
    BY <1>1 DEF SealedInv, ChainInv
  <2> QED BY <1>1, <1>2, <1>4, <2>1, ChainSame
<1>8. /\ nftOwner' \in [TokenId -> Voter \ {NoHolder}] /\ pastDeadline' \in BOOLEAN
      /\ finality' \in {"None", "Attested", "Proven", "Abandoned"} /\ closed' \in BOOLEAN
  BY <1>1, <1>2 DEF SealedInv, SealedTypeOK, CustodyOK
<1> QED BY <1>1, <1>2, <1>4, <1>6, <1>7, <1>8, InputsSame

\* A sweep leaves what is still owed; gifts, transfers and time take nothing.
LEMMA OutsideKeeps ==
  ASSUME SealedInv,
         UNCHANGED <<costs, ledger, ballotVars, tallyVars, votingOpen, sponsorships, seatHolder,
                     payVars, contributed>>,
         nftOwner' \in [TokenId -> Voter \ {NoHolder}],
         pastDeadline' \in BOOLEAN, pastDeadline => pastDeadline',
         balance' \in Nat, finality = "None" => balance' >= balance,
         finality # "None" => balance' >= spent - claimedTotal
  PROVE  SealedInv'
<1>1. UNCHANGED <<resultVars, closeVars, finality, closed>>
  BY DEF tallyVars, resultVars, closeVars
<1>2. AwardInv'
  BY <1>1, AwardSame
<1>3. ChainInv'
  <2>1. finality' # "None" => votingOpen /\ pastDeadline
    BY <1>1 DEF SealedInv, ChainInv
  <2> QED BY <1>1, <2>1, ChainSame
<1>4. finality' \in {"None", "Attested", "Proven", "Abandoned"} /\ closed' \in BOOLEAN
  BY <1>1 DEF SealedInv, SealedTypeOK
<1> QED BY <1>2, <1>3, <1>4, InputsSame

LEMMA EnvironmentKeeps ==
  ASSUME SealedInv,
         \/ SweepLeftover
         \/ \E amount \in Amounts : ReceiveGift(amount)
         \/ \E t \in TokenId, to \in Voter : MoveNFT(t, to)
         \/ DeadlineComes
         \/ GraceEnds
  PROVE  SealedInv'
<1>1. /\ balance \in Nat /\ pastDeadline \in BOOLEAN /\ nftOwner \in [TokenId -> Voter \ {NoHolder}]
      /\ finality # "None" => balance >= spent - claimedTotal
      /\ spent \in Nat /\ claimedTotal \in Nat /\ claimedTotal <= spent
  BY AwardPart DEF SealedInv, SealedTypeOK, CustodyOK, AwardInv
<1>2. CASE SweepLeftover
  <2>1. /\ finality # "None" /\ balance' = spent - claimedTotal
        /\ UNCHANGED <<costs, ledger, ballotVars, tallyVars, votingOpen, pastDeadline, seatVars,
                       payVars, contributed>>
    BY <1>2, Phases DEF SweepLeftover, Sweep
  <2>2. UNCHANGED <<sponsorships, seatHolder, nftOwner>>
    BY <2>1 DEF seatVars
  <2>3. balance' \in Nat /\ balance' >= spent - claimedTotal
    BY <1>1, <2>1
  <2> QED BY <1>1, <2>1, <2>2, <2>3, OutsideKeeps
<1>3. ASSUME NEW amount \in Amounts, ReceiveGift(amount) PROVE SealedInv'
  <2>1. /\ balance' = balance + amount
        /\ UNCHANGED <<costs, ledger, ballotVars, tallyVars, votingOpen, pastDeadline, seatVars,
                       payVars, contributed>>
    BY <1>3 DEF ReceiveGift, Donate
  <2>2. UNCHANGED <<sponsorships, seatHolder, nftOwner>>
    BY <2>1 DEF seatVars
  <2>3. balance' \in Nat /\ balance' >= balance /\ (finality # "None" => balance' >= spent - claimedTotal)
    BY <1>1, <2>1, SealedInputsAssumption
  <2> QED BY <1>1, <2>1, <2>2, <2>3, OutsideKeeps
<1>4. ASSUME NEW t \in TokenId, NEW to \in Voter, MoveNFT(t, to) PROVE SealedInv'
  <2>1. /\ to # NoHolder /\ nftOwner' = [nftOwner EXCEPT ![t] = to]
        /\ UNCHANGED <<costs, ledger, ballotVars, tallyVars, votingOpen, pastDeadline, balance,
                       sponsorships, seatHolder, payVars, contributed>>
    BY <1>4 DEF MoveNFT, TransferNFT
  <2>2. nftOwner' \in [TokenId -> Voter \ {NoHolder}] /\ balance' >= balance
    BY <1>1, <2>1
  <2> QED BY <1>1, <2>1, <2>2, OutsideKeeps
<1>5. CASE DeadlineComes
  <2>1. /\ pastDeadline' = TRUE
        /\ UNCHANGED <<costs, ledger, ballotVars, tallyVars, votingOpen, balance, seatVars,
                       payVars, contributed>>
    BY <1>5 DEF DeadlineComes, DeadlinePasses
  <2>2. UNCHANGED <<sponsorships, seatHolder, nftOwner>> /\ balance' >= balance
    BY <1>1, <2>1 DEF seatVars
  <2> QED BY <1>1, <2>1, <2>2, OutsideKeeps
<1>6. CASE GraceEnds
  <2>1. UNCHANGED <<costs, ledger, ballotVars, tallyVars, poolVars>>
    BY <1>6 DEF GraceEnds
  <2>2. /\ UNCHANGED <<votingOpen, pastDeadline, balance, sponsorships, seatHolder, nftOwner, contributed>>
        /\ UNCHANGED payVars /\ balance' >= balance
    BY <1>1, <2>1 DEF poolVars, seatVars
  <2> QED BY <1>1, <2>1, <2>2, OutsideKeeps
<1> QED BY <1>2, <1>3, <1>4, <1>5, <1>6


-----------------------------------------------------------------------------
(* The induction.                                                          *)

LEMMA SealedInitHolds ==
  ASSUME SealedInit
  PROVE  SealedInv
<1>1. /\ costs = << >> /\ Len(costs) = 0 /\ 1 .. Len(costs) = {}
      /\ ledger = [voters |-> << >>, direct |-> [v \in Voter |-> 0],
                   seat |-> [v \in Voter |-> 0], totalSeat |-> 0, total |-> 0]
      /\ directBallot = [v \in Voter |-> << >>] /\ sealedBallot = [v \in Voter |-> << >>]
      /\ arkivBallots = FALSE
      /\ publicRefs = [v \in Voter |-> NoRef] /\ sealedRefs = [v \in Voter |-> NoRef]
      /\ finality = "None" /\ closed = FALSE /\ closeCursor = 0 /\ voterChain = << >>
      /\ funded = {} /\ spent = 0 /\ votingOpen = FALSE /\ pastDeadline = FALSE
      /\ balance = 0 /\ sponsorships = << >> /\ seatHolder = << >>
      /\ nftOwner \in [TokenId -> Voter \ {NoHolder}]
      /\ claimed = {} /\ claimedTotal = 0 /\ contributed = [v \in Voter |-> 0]
  BY DEF SealedInit
<1>2. /\ ledger.voters = << >> /\ Len(ledger.voters) = 0 /\ DOMAIN ledger.voters = {}
      /\ ledger.direct = [v \in Voter |-> 0] /\ ledger.seat = [v \in Voter |-> 0]
      /\ ledger.totalSeat = 0 /\ ledger.total = 0 /\ ledger \in SealedLedgers
  <2>1. << >> \in Seq(Voter) /\ [v \in Voter |-> 0] \in [Voter -> Nat]
    OBVIOUS
  <2> QED BY <1>1, <2>1 DEF SealedLedgers
<1>3. SealedTypeOK
  <2>1. /\ << >> \in Seq(Sponsorship(Voter)) /\ << >> \in Seq([TokenId -> Voter \cup {NoHolder}])
        /\ Len(seatHolder) = Len(sponsorships) /\ << >> \in Seq(Nat \ {0})
    BY <1>1
  <2>2. NoRef \in [payload: Seq(Nat), revision: Nat] /\ << >> \in Seq(Nat)
    BY DEF NoRef
  <2>3. /\ directBallot \in [Voter -> Seq(Nat)] /\ sealedBallot \in [Voter -> Seq(Nat)]
        /\ publicRefs \in [Voter -> [payload: Seq(Nat), revision: Nat]]
        /\ sealedRefs \in [Voter -> [payload: Seq(Nat), revision: Nat]]
        /\ contributed \in [Voter -> Nat]
    BY <1>1, <2>2
  <2> QED BY <1>1, <2>1, <2>3 DEF SealedTypeOK, CustodyOK
<1>4. \A w \in [Voter -> Nat] : RosterTotal(ledger.voters, w) = 0
  <2> SUFFICES ASSUME NEW w \in [Voter -> Nat] PROVE RosterTotal(ledger.voters, w) = 0
    OBVIOUS
  <2>1. Listed(ledger.voters, w) \in [1 .. 0 -> Int]
    BY <1>2 DEF Listed
  <2> QED BY <1>2, <2>1, EmptySum DEF RosterTotal
<1>5. LedgerOK(ledger)
  <2>1. ledger.seat \in [Voter -> Nat] /\ \A v \in Voter : ledger.direct[v] = 0 /\ ledger.seat[v] = 0
    BY <1>2
  <2> QED BY <1>2, <1>4, <2>1 DEF LedgerOK, NoRepeats
<1>6. MoneyInv
  <2>1. Len(sponsorships) = 0 /\ Paid \in [1 .. 0 -> Int] /\ Handed \in [1 .. 0 -> Int]
    BY <1>1 DEF Paid, Handed
  <2>2. Sum(Paid, 0) = 0 /\ Sum(Handed, 0) = 0
    BY <2>1, EmptySum
  <2>3. ASSUME NEW v \in Voter PROVE ledger.seat[v] = Sum(SeatWeight(v), Len(sponsorships))
    <3>1. SeatWeight(v) \in [1 .. 0 -> Int] /\ ledger.seat[v] = 0
      BY <1>2, <2>1 DEF SeatWeight
    <3> QED BY <2>1, <3>1, EmptySum
  <2>4. RosterTotal(ledger.voters, ledger.direct) = 0
    <3>1. ledger.direct \in [Voter -> Nat]
      BY <1>2
    <3> QED BY <1>4, <3>1
  <2> QED BY <1>1, <1>2, <2>1, <2>2, <2>3, <2>4 DEF MoneyInv
<1>7. BallotsInv
  <2>1. NoBallots
    BY <1>1 DEF NoBallots
  <2>2. \A v \in Voter : PublicBallot(v) = << >> /\ SealedBallot(v) = << >>
    BY <1>1 DEF PublicBallot, SealedBallot
  <2>3. \A v \in Voter : BallotOK(v)
    BY <2>1, <2>2 DEF BallotOK, NoBallots, NoRef
  <2> QED BY <2>1, <2>3 DEF BallotsInv
<1>8. ChainInv
  <2>1. << >> \in Seq(Entries) /\ Len(<< >>) = 0
    OBVIOUS
  <2> QED BY <1>1, <1>2, <2>1 DEF ChainInv
<1>9. AwardInv
  <2>1. ClaimedCosts \in [1 .. 0 -> Int] /\ FundedCosts \in [1 .. 0 -> Int]
    BY <1>1 DEF ClaimedCosts, FundedCosts
  <2>2. Sum(ClaimedCosts, Len(costs)) = 0 /\ Sum(FundedCosts, Len(costs)) = 0
    BY <1>1, <2>1, EmptySum
  <2> QED BY <1>1, <2>2 DEF AwardInv
<1> QED BY <1>3, <1>5, <1>6, <1>7, <1>8, <1>9 DEF SealedInv

LEMMA CloseStepsKeep ==
  ASSUME SealedInv, CloseSteps
  PROVE  SealedInv'
<1>1. ASSUME NEW maxVoters \in 0 .. Cardinality(Voter), Close(maxVoters) PROVE SealedInv'
  <2>1. maxVoters \in Nat
    OBVIOUS
  <2> QED BY <1>1, <2>1, CloseKeeps
<1>2. ASSUME NEW cursor \in 0 .. Cardinality(Voter), NEW n \in 0 .. Cardinality(Voter),
             NEW ballots \in [1 .. n -> Payload], CloseArkiv(cursor, ballots)
      PROVE  SealedInv'
  <2>1. Payload \subseteq Pages
    <3>1. PublicInputs \subseteq Seq(Nat) /\ SealedInputs \subseteq Seq(Nat)
      BY SealedInputsAssumption, Zenon
    <3>2. << >> \in Seq(Nat)
      OBVIOUS
    <3> SUFFICES ASSUME NEW p \in Payload PROVE p \in Pages
      OBVIOUS
    <3>3. p = [public |-> p.public, sealed |-> p.sealed]
          /\ p.public \in PublicInputs \cup {<< >>} /\ p.sealed \in SealedInputs \cup {<< >>}
      BY DEF Payload
    <3>4. p.public \in Seq(Nat) /\ p.sealed \in Seq(Nat)
      BY <3>1, <3>2, <3>3, Zenon
    <3> QED BY <3>3, <3>4 DEF Pages
  <2>2. ballots \in [1 .. n -> Pages] /\ n \in Nat
    BY <2>1
  <2>3. ballots \in Seq(Pages)
    BY <2>2
  <2> QED BY <1>2, <2>3, CloseArkivKeeps
<1> QED BY <1>1, <1>2 DEF CloseSteps

LEMMA DepositStepsKeep ==
  ASSUME SealedInv, DepositSteps
  PROVE  SealedInv'
<1>1. ASSUME NEW who \in Voter, NEW amount \in Amounts, NEW fee \in Fees, Contribute(who, amount, fee)
      PROVE  SealedInv'
  BY <1>1, ContributeKeeps
<1>2. ASSUME NEW amount \in Amounts, NEW fee \in Fees, NEW members \in MemberLists,
             Sponsor(amount, fee, members)
      PROVE  SealedInv'
  BY <1>2, SponsorKeeps
<1>3. ASSUME NEW amount \in Amounts, NEW fee \in Fees, NEW seats \in SeatCounts,
             SponsorNFT(amount, fee, seats)
      PROVE  SealedInv'
  BY <1>3, SponsorNFTKeeps
<1>4. ASSUME NEW who \in Voter, NEW amount \in Amounts, NEW fee \in Fees, NEW ranks \in PublicInputs,
             NEW revision \in 0 .. MaxRevision, CastBallot(who, amount, fee, ranks, revision)
      PROVE  SealedInv'
  BY <1>4, CastBallotKeeps
<1> QED BY <1>1, <1>2, <1>3, <1>4 DEF DepositSteps

LEMMA BallotStepsKeep ==
  ASSUME SealedInv, PublicSteps \/ SealedSteps
  PROVE  SealedInv'
<1>1. ASSUME NEW who \in Voter, NEW ranks \in PublicInputs, Vote(who, ranks) PROVE SealedInv'
  BY <1>1, VoteKeeps
<1>2. ASSUME NEW who \in Voter, NEW ranks \in PublicInputs, NEW revision \in 0 .. MaxRevision,
             VoteArkiv(who, ranks, revision)
      PROVE  SealedInv'
  BY <1>2, VoteArkivKeeps
<1>3. ASSUME NEW who \in Voter, NEW ciphertext \in SealedInputs, VoteSealed(who, ciphertext)
      PROVE  SealedInv'
  BY <1>3, VoteSealedKeeps
<1>4. ASSUME NEW who \in Voter, NEW ciphertext \in SealedInputs, NEW revision \in 0 .. MaxRevision,
             VoteSealedArkiv(who, ciphertext, revision)
      PROVE  SealedInv'
  BY <1>4, VoteSealedArkivKeeps
<1> QED BY <1>1, <1>2, <1>3, <1>4 DEF PublicSteps, SealedSteps

LEMMA SealedNextKeeps ==
  ASSUME SealedInv, SealedNext
  PROVE  SealedInv'
<1>1. ASSUME NEW cost \in Costs, CreateProject(cost) PROVE SealedInv'
  BY <1>1, CreateProjectKeeps
<1>2. CASE EnableArkivBallots
  BY <1>2, EnableArkivBallotsKeeps
<1>3. CASE OpenVoting
  BY <1>3, OpenVotingKeeps
<1>4. CASE DepositSteps
  BY <1>4, DepositStepsKeep
<1>5. ASSUME NEW who \in Voter, NEW id \in DOMAIN sponsorships, NEW t \in TokenId, ClaimSeat(who, id, t)
      PROVE  SealedInv'
  BY <1>5, ClaimSeatKeeps
<1>6. CASE PublicSteps \/ SealedSteps
  BY <1>6, BallotStepsKeep
<1>7. CASE CloseSteps
  BY <1>7, CloseStepsKeep
<1>8. CASE Abandon
  BY <1>8, AbandonKeeps
<1>9. ASSUME NEW c \in DOMAIN costs, Claim(c) PROVE SealedInv'
  BY <1>9, ClaimKeeps
<1>10. CASE \/ SweepLeftover
            \/ \E amount \in Amounts : ReceiveGift(amount)
            \/ \E t \in TokenId, to \in Voter : MoveNFT(t, to)
            \/ DeadlineComes
            \/ GraceEnds
  BY <1>10, EnvironmentKeeps
<1> QED BY <1>1, <1>2, <1>3, <1>4, <1>5, <1>6, <1>7, <1>8, <1>9, <1>10 DEF SealedNext, CommonSteps

LEMMA SealedStutterKeeps ==
  ASSUME SealedInv, UNCHANGED sealedVars
  PROVE  SealedInv'
<1>1. /\ UNCHANGED <<costs, ledger, ballotVars, tallyVars, votingOpen, pastDeadline, balance,
                     payVars, contributed>>
      /\ UNCHANGED <<sponsorships, seatHolder, nftOwner>>
  BY DEF sealedVars, poolVars, seatVars
<1>2. /\ balance \in Nat /\ pastDeadline \in BOOLEAN /\ nftOwner \in [TokenId -> Voter \ {NoHolder}]
      /\ finality # "None" => balance >= spent - claimedTotal
  BY DEF SealedInv, SealedTypeOK, CustodyOK, AwardInv
<1>3. balance' >= balance
  BY <1>1, <1>2
<1> QED BY <1>1, <1>2, <1>3, OutsideKeeps


-----------------------------------------------------------------------------
(* Results.                                                                *)

Result == <<finality, fundedOrder, closed, inputsHash>>

\* No call of SealedPool itself decides a round but abandon, and a decided
\* round keeps its result and the inputs it was decided for.
LEMMA OnlyAbandonDecides ==
  ASSUME SealedNext
  PROVE  finality' \in {"None", "Abandoned"} \/ UNCHANGED Result
<1>1. ASSUME UNCHANGED tallyVars PROVE UNCHANGED Result
  BY <1>1 DEF tallyVars, closeVars, resultVars, Result
<1>2. CASE CommonSteps /\ ~Abandon
  <2>1. UNCHANGED tallyVars
    BY <1>2
    DEF CommonSteps, CreateProject, EnableArkivBallots, OpenVoting, DepositSteps, Contribute, Sponsor,
        SponsorNFT, CastBallot, AcceptPublicArkiv, ClaimSeat, PublicSteps, Vote, VoteArkiv, Claim,
        SweepLeftover, ReceiveGift, MoveNFT, GraceEnds
  <2> QED BY <1>1, <2>1
<1>3. CASE Abandon
  BY <1>3 DEF Abandon, Finalize
<1>4. CASE SealedSteps
  BY <1>1, <1>4 DEF SealedSteps, VoteSealed, CastSealed, VoteSealedArkiv, CastSealedArkiv
<1>5. CASE CloseSteps
  BY <1>5, Phases DEF CloseSteps, Close, CloseArkiv, resultVars
<1>6. CASE DeadlineComes
  BY <1>1, <1>6 DEF DeadlineComes
<1> QED BY <1>2, <1>3, <1>4, <1>5, <1>6 DEF SealedNext

-----------------------------------------------------------------------------
(* The pool that takes reports.                                            *)

ReportOK(r) ==
  /\ r.kind = "close" => r.maxVoters \in Nat
  /\ r.kind = "closeArkiv" => r.ballots \in Seq(Pages)
  /\ r.kind = "result" => r.order \in Seq(Nat)

AttestedAsReported ==
  finality = "Attested" =>
    closed /\ \E r \in reports : r.kind = "result" /\ r.order = fundedOrder /\ r.inputs = inputsHash

CreInv == SealedInv /\ (\A r \in reports : ReportOK(r)) /\ AttestedAsReported

LEMMA PageIsPages ==
  ASSUME SealedInv
  PROVE  Page \in Seq(Pages)
<1>1. PICK m, n, c : /\ m = IF CloseChunk < Remaining THEN CloseChunk ELSE Remaining
                     /\ n = Len(ledger.voters) /\ c = closeCursor
  OBVIOUS
<1>2. n \in Nat /\ c \in 0 .. n /\ Remaining = n - c
  BY <1>1, RosterIs DEF SealedInv, ChainInv, Remaining
<1>3. m \in Nat /\ m <= n - c
  BY <1>1, <1>2, CreAssumption
<1>4. ASSUME NEW i \in 1 .. m
      PROVE  [public |-> PublicBallot(NextVoter(i)), sealed |-> SealedBallot(NextVoter(i))] \in Pages
  <2>1. c + i \in 1 .. n
    BY <1>2, <1>3
  <2>2. NextVoter(i) \in Voter
    BY <1>1, <2>1, RosterIs DEF SealedInv, NextVoter
  <2>3. PublicBallot(NextVoter(i)) \in Seq(Nat) /\ SealedBallot(NextVoter(i)) \in Seq(Nat)
    BY <2>2 DEF SealedInv, SealedTypeOK, PublicBallot, SealedBallot
  <2> QED BY <2>3 DEF Pages
<1>5. Page = [i \in 1 .. m |-> [public |-> PublicBallot(NextVoter(i)), sealed |-> SealedBallot(NextVoter(i))]]
  BY <1>1 DEF Page
<1>6. Page \in [1 .. m -> Pages]
  BY <1>4, <1>5
<1> QED BY <1>3, <1>6

\* A report adds nothing but itself.
LEMMA SendReportKeeps ==
  ASSUME CreInv, NEW r, ReportOK(r), SendReport(r)
  PROVE  CreInv'
<1>1. reports' = reports \cup {r} /\ UNCHANGED sealedVars
  BY DEF SendReport
<1>2. SealedInv'
  BY <1>1, SealedStutterKeeps DEF CreInv
<1>3. UNCHANGED Result
  BY <1>1 DEF sealedVars, tallyVars, closeVars, resultVars, Result
<1>4. \A q \in reports' : ReportOK(q)
  BY <1>1 DEF CreInv
<1>5. AttestedAsReported'
  BY <1>1, <1>3 DEF CreInv, AttestedAsReported, Result
<1> QED BY <1>2, <1>4, <1>5 DEF CreInv

LEMMA CreNextKeeps ==
  ASSUME CreInv, Next
  PROVE  CreInv'
<1>1. SealedInv /\ (\A r \in reports : ReportOK(r)) /\ AttestedAsReported
  BY DEF CreInv
<1>2. ASSUME SealedInv', UNCHANGED reports,
             finality' \in {"None", "Abandoned"} \/ UNCHANGED Result
      PROVE  CreInv'
  BY <1>1, <1>2 DEF CreInv, AttestedAsReported, Result
<1>3. CASE SealedNext /\ UNCHANGED reports
  BY <1>1, <1>2, <1>3, SealedNextKeeps, OnlyAbandonDecides
<1>4. CASE ReportClose
  <2>1. PICK r : /\ r = IF arkivBallots
                        THEN [kind |-> "closeArkiv", cursor |-> closeCursor, ballots |-> Page]
                        ELSE [kind |-> "close", maxVoters |-> CloseChunk]
                 /\ SendReport(r)
    BY <1>4 DEF ReportClose
  <2>2. Page \in Seq(Pages) /\ CloseChunk \in Nat
    BY <1>1, PageIsPages, CreAssumption
  <2>3. ReportOK(r)
    BY <2>1, <2>2 DEF ReportOK
  <2> QED BY <2>1, <2>3, SendReportKeeps
<1>5. ASSUME NEW order \in Orders, ReportResult(order) \/ ReportElsewhere(order) PROVE CreInv'
  <2>1. PICK r : /\ r \in {[kind |-> "result", inputs |-> inputsHash, order |-> order],
                            [kind |-> "result", inputs |-> OtherInputs, order |-> order]}
                 /\ SendReport(r)
    BY <1>5 DEF ReportResult, ReportElsewhere
  <2>2. order \in Seq(Nat)
    <3>1. Orders \subseteq Seq(Nat)
      BY SealedInputsAssumption
    <3> QED BY <3>1
  <2>3. ReportOK(r)
    BY <2>1, <2>2 DEF ReportOK
  <2> QED BY <2>1, <2>3, SendReportKeeps
<1>6. ASSUME NEW r \in reports, OnReport(r) PROVE CreInv'
  <2>1. ReportOK(r) /\ UNCHANGED reports
    BY <1>1, <1>6 DEF OnReport
  <2>2. CASE r.kind = "close" /\ Close(r.maxVoters)
    <3>1. r.maxVoters \in Nat
      BY <2>1, <2>2 DEF ReportOK
    <3>2. SealedInv'
      BY <1>1, <2>2, <3>1, CloseKeeps
    <3>3. finality' = "None"
      BY <2>2, Phases DEF Close, resultVars
    <3> QED BY <1>2, <2>1, <3>2, <3>3
  <2>3. CASE r.kind = "closeArkiv" /\ CloseArkiv(r.cursor, r.ballots)
    <3>1. r.ballots \in Seq(Pages)
      BY <2>1, <2>3 DEF ReportOK
    <3>2. SealedInv'
      BY <1>1, <2>3, <3>1, CloseArkivKeeps
    <3>3. finality' = "None"
      BY <2>3, Phases DEF CloseArkiv, resultVars
    <3> QED BY <1>2, <2>1, <3>2, <3>3
  <2>4. CASE TakeResult(r)
    <3>1. /\ r.kind = "result" /\ phase = "Tally" /\ r.inputs = inputsHash
          /\ Finalize(r.order, "Attested")
      BY <2>4 DEF TakeResult
    <3>2. r.order \in Seq(Nat)
      BY <2>1, <3>1 DEF ReportOK
    <3>3. SealedInv'
      BY <1>1, <3>1, <3>2, ResultKeeps
    <3>4. closed' /\ fundedOrder' = r.order /\ inputsHash' = inputsHash
      BY <3>1, Phases DEF Finalize, closeVars
    <3>5. AttestedAsReported'
      BY <2>1, <3>1, <3>4 DEF AttestedAsReported
    <3> QED BY <1>1, <2>1, <3>3, <3>5 DEF CreInv
  <2> QED BY <1>6, <2>2, <2>3, <2>4 DEF OnReport
<1> QED BY <1>3, <1>4, <1>5, <1>6 DEF Next

\* CreInv holds in every reachable state of the CRE pool, whatever its users
\* send, however reports are delayed, repeated or reordered, and whichever
\* mixture of transactions and reports closes the roster.
THEOREM CreInvariant == Spec => []CreInv
<1>1. Init => CreInv
  BY SealedInitHolds DEF Init, CreInv, AttestedAsReported, SealedInit
<1>2. CreInv /\ UNCHANGED vars => CreInv'
  <2> SUFFICES ASSUME CreInv, UNCHANGED vars PROVE CreInv'
    OBVIOUS
  <2>1. UNCHANGED reports /\ UNCHANGED sealedVars
    BY DEF vars
  <2>2. SealedInv'
    BY <2>1, SealedStutterKeeps DEF CreInv
  <2>3. UNCHANGED Result
    BY <2>1 DEF sealedVars, tallyVars, closeVars, resultVars, Result
  <2> QED BY <2>1, <2>2, <2>3 DEF CreInv, AttestedAsReported, Result
<1>3. CreInv /\ [Next]_vars => CreInv'
  BY <1>2, CreNextKeeps
<1> QED BY <1>1, <1>3, PTL DEF Spec


-----------------------------------------------------------------------------
(* The pool that takes proofs.                                             *)

\* A proven list is what the guest computes from the inputs of this pool with
\* the tallier's secret.
ProvenAsComputed ==
  finality = "Proven" => closed /\ fundedOrder = Outcome(inputsHash, tallierPk)

ZiskInv == SealedInv /\ ProvenAsComputed

LEMMA ZiskNextKeeps ==
  ASSUME ZiskInv, ZiskNext
  PROVE  ZiskInv'
<1>1. SealedInv /\ ProvenAsComputed
  BY DEF ZiskInv
<1>2. CASE SealedNext
  <2>1. SealedInv'
    BY <1>1, <1>2, SealedNextKeeps
  <2>2. finality' \in {"None", "Abandoned"} \/ UNCHANGED Result
    BY <1>2, OnlyAbandonDecides
  <2> QED BY <1>1, <2>1, <2>2 DEF ZiskInv, ProvenAsComputed, Result
<1>3. ASSUME NEW order \in Orders, NEW inputs \in {inputsHash, OtherRound}, NEW key \in Key,
             FinalizeProven(order, Committed(inputs, key))
      PROVE  ZiskInv'
  <2>1. /\ phase = "Tally" /\ Committed(inputs, key) = ExpectedOutput(order)
        /\ Finalize(order, "Proven")
    BY <1>3 DEF FinalizeProven
  <2>2. order \in Seq(Nat)
    BY SealedInputsAssumption
  <2>3. SealedInv'
    BY <1>1, <2>1, <2>2, ResultKeeps
  <2>4. closed' /\ fundedOrder' = order /\ inputsHash' = inputsHash
    BY <2>1, Phases DEF Finalize, closeVars
  <2>5. order = Outcome(inputsHash, tallierPk)
    <3>1. inputs = inputsHash /\ key = tallierPk /\ Outcome(inputs, key) = order
      BY <2>1 DEF Committed, ExpectedOutput
    <3> QED BY <3>1
  <2>6. ProvenAsComputed'
    BY <2>4, <2>5 DEF ProvenAsComputed
  <2> QED BY <2>3, <2>6 DEF ZiskInv
<1> QED BY <1>2, <1>3 DEF ZiskNext, FinalizeByAnyone

\* ZiskInv holds in every reachable state of the ZisK pool, whatever its users
\* send and whatever proofs are offered.
THEOREM ZiskInvariant == ZiskSpec => []ZiskInv
<1>1. SealedInit => ZiskInv
  BY SealedInitHolds DEF ZiskInv, ProvenAsComputed, SealedInit
<1>2. ZiskInv /\ UNCHANGED sealedVars => ZiskInv'
  <2> SUFFICES ASSUME ZiskInv, UNCHANGED sealedVars PROVE ZiskInv'
    OBVIOUS
  <2>1. SealedInv'
    BY SealedStutterKeeps DEF ZiskInv
  <2>2. UNCHANGED Result
    BY DEF sealedVars, tallyVars, closeVars, resultVars, Result
  <2> QED BY <2>1, <2>2 DEF ZiskInv, ProvenAsComputed, Result
<1>3. ZiskInv /\ [ZiskNext]_sealedVars => ZiskInv'
  BY <1>2, ZiskNextKeeps
<1> QED BY <1>1, <1>3, PTL DEF ZiskSpec

-----------------------------------------------------------------------------
(* What follows for the inputs and the results.                            *)

LEMMA InputsCommitted ==
  ASSUME SealedInv
  PROVE  CommittedInputs
<1>0. PICK c, n : c = closeCursor /\ n = Len(ledger.voters)
  OBVIOUS
<1>1. /\ n \in Nat /\ Roster \in Seq(Entries) /\ Len(Roster) = n
      /\ \A i \in 1 .. n : Roster[i] \in Entries
  BY <1>0, RosterIs DEF SealedInv
<1>2. /\ voterChain \in Seq(Entries) /\ c \in 0 .. n /\ Len(voterChain) = c
      /\ \A i \in 1 .. c : voterChain[i] = Roster[i]
  BY <1>0 DEF SealedInv, ChainInv
<1>3. PICK s : s = SubSeq(Roster, 1, c)
  OBVIOUS
<1>4. s \in Seq(Entries) /\ Len(s) = c /\ \A i \in 1 .. c : s[i] = Roster[i]
  <2>1. /\ 1 \in Int /\ c \in Int /\ \A i \in 1 .. c : Roster[i] \in Entries
    BY <1>1, <1>2
  <2>2. /\ s \in Seq(Entries) /\ Len(s) = IF 1 <= c THEN c - 1 + 1 ELSE 0
        /\ \A i \in 1 .. (c - 1 + 1) : s[i] = Roster[1 + i - 1]
    BY <1>3, <2>1, SubSeqProperties
  <2>3. \A i \in 1 .. c : 1 + i - 1 = i
    OBVIOUS
  <2> QED BY <1>2, <2>2, <2>3
<1>5. voterChain = s
  BY <1>2, <1>4, SeqEqual
<1> QED BY <1>0, <1>3, <1>5 DEF CommittedInputs, SealedInv, ChainInv

\* However the roster is closed, in whatever chunks and by whom, the chain is
\* the roster as it is now and the commitment is the pool's inputs until the
\* end (SealedPool.sol:299-343): CommittedInputs.
THEOREM CommitsToTheRoster == Spec => []CommittedInputs
<1>1. CreInv => CommittedInputs
  BY InputsCommitted DEF CreInv
<1> QED BY <1>1, CreInvariant, PTL

\* An attested result was reported for exactly the roster, weights and ballots
\* the pool holds (CreRankedShares.sol, onReport): ResultCountsTheseInputs.
THEOREM AttestedForTheseInputs == Spec => []ResultCountsTheseInputs
<1>1. CreInv => ResultCountsTheseInputs
  BY DEF CreInv, AttestedAsReported, ResultCountsTheseInputs, SealedInv, ChainInv
<1> QED BY <1>1, CreInvariant, PTL

\* A proven result is what the guest computes with the tallier's secret from
\* exactly the inputs the pool holds, whatever other proofs exist, of other
\* inputs or under other keys (ZiskRankedShares.sol, finalize):
\* FundsProvenOutcome.
THEOREM ProvenForTheseInputs == ZiskSpec => []FundsProvenOutcome
<1>1. ZiskInv => FundsProvenOutcome
  BY DEF ZiskInv, ProvenAsComputed, FundsProvenOutcome, SealedInv, ChainInv
<1> QED BY <1>1, ZiskInvariant, PTL

-----------------------------------------------------------------------------
(* What follows for the roster and the ballots.                            *)

LEMMA BallotsBacked ==
  ASSUME SealedInv
  PROVE  BallotsAreBacked
BY DEF SealedInv, BallotsInv, BallotOK, BallotsAreBacked

LEMMA RosterAddsUp ==
  ASSUME SealedInv
  PROVE  RosterComplete
<1>0. PICK s, d, w, n : /\ s = ledger.voters /\ d = ledger.direct /\ w = ledger.seat
                        /\ n = Len(ledger.voters)
  OBVIOUS
<1>1. /\ s \in Seq(Voter) /\ d \in [Voter -> Nat] /\ w \in [Voter -> Nat]
      /\ NoRepeats(s) /\ n = Len(s) /\ n \in Nat /\ DOMAIN s = 1 .. n
      /\ \A v \in Voter : ~OnRoster(ledger, v) => d[v] = 0 /\ w[v] = 0
      /\ RosterTotal(s, w) = ledger.totalSeat
      /\ ledger.totalSeat \in Nat /\ ledger.total \in Nat
  BY <1>0 DEF SealedInv, LedgerOK, SealedLedgers
<1>2. ASSUME NEW v \in Voter
      PROVE  LET places == {i \in DOMAIN s : s[i] = v}
             IN  IF d[v] + w[v] > 0 \/ PublicBallot(v) # << >> \/ SealedBallot(v) # << >>
                 THEN Cardinality(places) = 1 ELSE Cardinality(places) <= 1
  <2> DEFINE places == {i \in DOMAIN s : s[i] = v}
  <2>1. CASE OnRoster(ledger, v)
    <3>1. PICK k \in DOMAIN s : s[k] = v
      BY <1>0, <2>1 DEF OnRoster
    <3>2. places = {k}
      BY <1>1, <3>1 DEF NoRepeats
    <3> HIDE DEF places
    <3>3. Cardinality(places) = 1
      BY <3>2, FS_Singleton
    <3>4. 1 <= 1
      OBVIOUS
    <3> QED BY <3>3, <3>4 DEF places
  <2>2. CASE ~OnRoster(ledger, v)
    <3>1. places = {}
      BY <1>0, <2>2 DEF OnRoster
    <3>2. d[v] + w[v] = 0 /\ PublicBallot(v) = << >> /\ SealedBallot(v) = << >>
      BY <1>1, <2>2 DEF SealedInv, BallotsInv, BallotOK
    <3> HIDE DEF places
    <3>3. Cardinality(places) = 0
      BY <3>1, FS_EmptySet
    <3>4. Cardinality(places) <= 1
      BY <3>3
    <3> QED BY <3>2, <3>4 DEF places
  <2> QED BY <2>1, <2>2
<1>3. ASSUME NEW v \in Voter PROVE w[v] = EarnedSeats(v)
  BY <1>0 DEF EarnedSeats, SealedInv, MoneyInv, SeatWeight
<1>4. /\ Sum([i \in DOMAIN s |-> w[s[i]]], n) = RosterTotal(s, w)
      /\ Sum([i \in DOMAIN s |-> d[s[i]]], n) = RosterTotal(s, d)
  BY <1>1 DEF RosterTotal, Listed
<1>5. RosterTotal(s, d) + ledger.totalSeat <= ledger.total
  <2>1. PICK p, h : p = Sum(Paid, Len(sponsorships)) /\ h = Sum(Handed, Len(sponsorships))
    OBVIOUS
  <2>2. p \in Nat /\ h \in Nat /\ h <= p
    BY <2>1, SumsOfSponsorships DEF SealedInv, SealedTypeOK
  <2>3. RosterTotal(s, d) \in Nat
    BY <1>1, RosterTotalNat
  <2>4. ledger.total = RosterTotal(s, d) + p /\ ledger.totalSeat = h
    BY <1>0, <2>1 DEF SealedInv, MoneyInv
  <2> QED BY <2>2, <2>3, <2>4
<1> QED BY <1>0, <1>1, <1>2, <1>3, <1>4, <1>5 DEF RosterComplete

\* Whoever has weight or a ballot is listed once, with the weight of the seats
\* it holds, and the votes the roster commits to are never worth more than the
\* money behind them (SealedPool.sol:195-297): RosterComplete.
THEOREM RosterIsComplete == Spec => []RosterComplete
<1>1. CreInv => RosterComplete
  BY RosterAddsUp DEF CreInv
<1> QED BY <1>1, CreInvariant, PTL

\* The same for the pool that takes proofs: RosterComplete.
THEOREM ProvenRosterIsComplete == ZiskSpec => []RosterComplete
<1>1. ZiskInv => RosterComplete
  BY RosterAddsUp DEF ZiskInv
<1> QED BY <1>1, ZiskInvariant, PTL

\* Every public ballot the pool commits to has its voter's own money behind it
\* and every ballot fits this round's projects, whichever way it was cast
\* (SealedPool.sol:202-297): BallotsAreBacked.
THEOREM OnlyBackedBallots == Spec => []BallotsAreBacked
<1>1. CreInv => BallotsAreBacked
  BY BallotsBacked DEF CreInv
<1> QED BY <1>1, CreInvariant, PTL

\* The same for the pool that takes proofs: BallotsAreBacked.
THEOREM ProvenBallotsAreBacked == ZiskSpec => []BallotsAreBacked
<1>1. ZiskInv => BallotsAreBacked
  BY BallotsBacked DEF ZiskInv
<1> QED BY <1>1, ZiskInvariant, PTL


-----------------------------------------------------------------------------
(* The pool keeps what Escrow promises.                                    *)

Award == IF finality # "None"
         THEN [c \in 1 .. Len(costs) |-> IF c \in funded THEN costs[c] ELSE 0] ELSE << >>

Promised == [Promise!Next]_<<balance, finality # "None", Award, claimed>>

LEMMA PromiseSum == \A f, n : Promise!Sum(f, n) = Sum(f, n)
BY DEF Promise!Sum, Promise!PrefixSum, Sum, PrefixSum

\* What is owed is what the funded projects cost less what was claimed.
LEMMA OwedIs == SealedInv /\ finality # "None" => Promise!Owed = spent - claimedTotal
<1> SUFFICES ASSUME SealedInv, finality # "None" PROVE Promise!Owed = spent - claimedTotal
  OBVIOUS
<1> DEFINE n == Len(costs)
           owed == [c \in 1 .. n |-> IF c \in claimed THEN 0 ELSE FundedCosts[c]]
<1>1. /\ n \in Nat /\ ClaimedCosts \in [1 .. n -> Int] /\ claimedTotal \in Nat /\ spent \in Nat
      /\ FundedCosts \in [1 .. n -> Int] /\ \A c \in 1 .. n : costs[c] \in Nat
  BY AwardPart
<1>2. /\ claimed \subseteq funded /\ claimedTotal = Sum(ClaimedCosts, n)
      /\ spent = Sum(FundedCosts, n)
  BY DEF SealedInv, AwardInv
<1>3. Award = FundedCosts /\ Len(Award) = n
  <2>1. Award = FundedCosts
    BY DEF Award, FundedCosts
  <2>2. Len([c \in 1 .. n |-> IF c \in funded THEN costs[c] ELSE 0]) = n
    BY <1>1
  <2> QED BY <2>1, <2>2 DEF FundedCosts
<1>4. Promise!Owed = Sum(owed, n)
  <2>1. Promise!Owed = Promise!Sum([c \in 1 .. Len(Award) |-> IF c \in claimed THEN 0 ELSE Award[c]], Len(Award))
    BY DEF Promise!Owed, Award
  <2>2. Promise!Owed = Promise!Sum(owed, n)
    BY <1>3, <2>1
  <2> HIDE DEF owed, n
  <2> QED BY <2>2, PromiseSum
<1>5. owed \in [1 .. n -> Int] /\ \A c \in 1 .. n : FundedCosts[c] = ClaimedCosts[c] + owed[c]
  <2>1. \A c \in 1 .. n : FundedCosts[c] \in Int
    BY <1>1
  <2>2. owed \in [1 .. n -> Int]
    BY <2>1
  <2> QED BY <1>1, <1>2, <2>1, <2>2 DEF FundedCosts, ClaimedCosts
<1> HIDE DEF owed, n
<1>6. Sum(FundedCosts, n) = Sum(ClaimedCosts, n) + Sum(owed, n)
  BY <1>1, <1>5, SumOfSums
<1>7. Sum(owed, n) \in Int
  <2>1. PrefixSum(owed, n) \in [0 .. n -> Int]
    BY <1>1, <1>5, PrefixSumUnfold
  <2> QED BY <1>1, <2>1 DEF Sum
<1> QED BY <1>1, <1>2, <1>4, <1>6, <1>7

LEMMA OwedNext == (SealedInv /\ finality # "None" => Promise!Owed = spent - claimedTotal)'
BY OwedIs, PTL

LEMMA SpentNat == SealedInv => spent \in Nat /\ claimedTotal \in Nat
BY AwardPart

LEMMA SpentNext == (SealedInv => spent \in Nat /\ claimedTotal \in Nat)'
BY SpentNat, PTL

\* Deposits, gifts and whatever moves no money.
LEMMA ReceiptIsPromised ==
  ASSUME SealedInv, balance' >= balance, UNCHANGED <<finality, funded, claimed>>,
         UNCHANGED costs \/ finality = "None"
  PROVE  Promised
<1>1. UNCHANGED <<finality # "None", Award, claimed>>
  BY DEF Award
<1>2. Promise!Receive
  BY <1>1 DEF Promise!Receive, Award
<1> QED BY <1>2 DEF Promised, Promise!Next

LEMMA DecisionIsPromised ==
  ASSUME SealedInv, SealedInv', NEW order, NEW how \in {"Attested", "Proven", "Abandoned"},
         Finalize(order, how)
  PROVE  Promised
<1>1. finality = "None" /\ finality' # "None" /\ UNCHANGED <<balance, claimed, claimedTotal>>
  BY DEF Finalize, poolVars, payVars
<1>2. claimed' = {}
  BY <1>1 DEF SealedInv, AwardInv
<1>3. balance' >= spent' - claimedTotal'
  BY <1>1 DEF SealedInv, AwardInv
<1>4. Promise!Owed' = spent' - claimedTotal'
  BY <1>1, OwedNext
<1>5. balance \in Nat /\ spent' \in Nat /\ claimedTotal' \in Nat
  <2>1. balance \in Nat
    BY DEF SealedInv, SealedTypeOK
  <2> QED BY <2>1, SpentNext
<1>6. Promise!Owed' <= balance
  BY <1>1, <1>3, <1>4, <1>5
<1>7. Promise!Decide
  BY <1>1, <1>2, <1>6 DEF Promise!Decide
<1> QED BY <1>7 DEF Promised, Promise!Next

LEMMA ClaimIsPromised ==
  ASSUME SealedInv, NEW c \in DOMAIN costs, Claim(c)
  PROVE  Promised
<1>1. /\ finality # "None" /\ c \in funded /\ c \notin claimed
      /\ claimed' = claimed \cup {c} /\ balance' = balance - costs[c]
      /\ UNCHANGED <<costs, funded, finality>>
  BY Phases DEF Claim, PayProject, tallyVars, resultVars
<1>2. c \in 1 .. Len(costs) /\ costs[c] \in Nat \ {0}
  <2>1. costs \in Seq(Nat \ {0})
    BY DEF SealedInv, SealedTypeOK
  <2> QED BY <2>1
<1>3. Award' = Award
  BY <1>1 DEF Award
<1>4. c \in DOMAIN Award /\ Award[c] = costs[c]
  BY <1>1, <1>2 DEF Award
<1>5. \E d \in DOMAIN Award \ claimed :
        Award[d] > 0 /\ claimed' = claimed \cup {d} /\ balance' = balance - Award[d]
  BY <1>1, <1>2, <1>4
<1>6. Promise!Pay
  BY <1>1, <1>3, <1>5 DEF Promise!Pay, Award
<1> QED BY <1>6 DEF Promised, Promise!Next

LEMMA SweepIsPromised ==
  ASSUME SealedInv, SweepLeftover
  PROVE  Promised
<1>1. /\ finality # "None" /\ balance' = spent - claimedTotal
      /\ UNCHANGED <<costs, funded, finality, claimed>>
  BY Phases DEF SweepLeftover, Sweep, payVars, tallyVars, resultVars
<1>2. Promise!Owed = spent - claimedTotal
  BY <1>1, OwedIs
<1>3. balance >= spent - claimedTotal /\ spent \in Nat /\ claimedTotal \in Nat
  BY <1>1, AwardPart DEF SealedInv, AwardInv
<1>4. Promise!Owed <= balance' /\ balance' <= balance
  BY <1>1, <1>2, <1>3
<1>5. Award' = Award
  BY <1>1 DEF Award
<1>6. Promise!Release
  BY <1>1, <1>4, <1>5 DEF Promise!Release, Award
<1> QED BY <1>6 DEF Promised, Promise!Next

LEMMA SealedNextIsPromised ==
  ASSUME SealedInv, SealedInv', SealedNext
  PROVE  Promised
<1>0. balance \in Nat
  BY DEF SealedInv, SealedTypeOK
<1>1. ASSUME UNCHANGED tallyVars, UNCHANGED payVars, balance' >= balance, UNCHANGED costs
      PROVE  Promised
  BY <1>1, ReceiptIsPromised DEF tallyVars, resultVars, payVars
<1>2. ASSUME UNCHANGED tallyVars, UNCHANGED poolVars, UNCHANGED costs \/ phase = "Setup"
      PROVE  Promised
  BY <1>0, <1>2, Phases, ReceiptIsPromised DEF tallyVars, resultVars, poolVars, payVars
<1>3. CASE \E cost \in Costs : CreateProject(cost)
  BY <1>2, <1>3 DEF CreateProject
<1>4. CASE EnableArkivBallots \/ OpenVoting
  <2>1. UNCHANGED <<tallyVars, payVars, balance, costs>>
    BY <1>4 DEF EnableArkivBallots, OpenVoting, poolVars
  <2> QED BY <1>0, <1>1, <2>1
<1>5. CASE DepositSteps
  <2>1. ASSUME NEW amount \in Amounts, NEW fee \in Fees, AcceptDeposit(amount, fee)
        PROVE  balance' >= balance
    <3>1. amount \in Nat /\ fee \in Nat
      BY SealedInputsAssumption
    <3> QED BY <1>0, <2>1, <3>1 DEF AcceptDeposit, Deposit
  <2>2. balance' >= balance
    BY <1>5, <2>1 DEF DepositSteps, Contribute, Sponsor, SponsorNFT, CastBallot
  <2>3. UNCHANGED <<tallyVars, payVars, costs>>
    BY <1>5 DEF DepositSteps, Contribute, Sponsor, SponsorNFT, CastBallot, AcceptPublicArkiv
  <2> QED BY <1>1, <2>2, <2>3
<1>6. CASE \E who \in Voter, id \in DOMAIN sponsorships, t \in TokenId : ClaimSeat(who, id, t)
  <2>1. UNCHANGED <<tallyVars, payVars, balance, costs>>
    BY <1>6 DEF ClaimSeat
  <2> QED BY <1>0, <1>1, <2>1
<1>7. CASE PublicSteps \/ SealedSteps
  <2>1. UNCHANGED <<tallyVars, poolVars, costs>>
    BY <1>7
    DEF PublicSteps, Vote, VoteArkiv, AcceptPublicArkiv, SealedSteps, VoteSealed, CastSealed,
        VoteSealedArkiv, CastSealedArkiv
  <2> QED BY <1>2, <2>1
<1>8. CASE CloseSteps
  <2>1. UNCHANGED <<resultVars, poolVars, costs>>
    BY <1>8 DEF CloseSteps, Close, CloseArkiv
  <2> QED BY <1>0, <2>1, ReceiptIsPromised DEF resultVars, poolVars, payVars
<1>9. CASE Abandon
  BY <1>9, DecisionIsPromised DEF Abandon
<1>10. CASE \E c \in DOMAIN costs : Claim(c)
  BY <1>10, ClaimIsPromised
<1>11. CASE SweepLeftover
  BY <1>11, SweepIsPromised
<1>12. ASSUME NEW amount \in Amounts, ReceiveGift(amount) PROVE Promised
  <2>1. amount \in Nat
    BY SealedInputsAssumption
  <2>2. balance' >= balance /\ UNCHANGED <<tallyVars, payVars, costs>>
    BY <1>0, <1>12, <2>1 DEF ReceiveGift, Donate
  <2> QED BY <1>1, <2>2
<1>13. CASE (\E t \in TokenId, to \in Voter : MoveNFT(t, to)) \/ DeadlineComes \/ GraceEnds
  <2>1. UNCHANGED <<tallyVars, payVars, balance, costs>>
    BY <1>13 DEF MoveNFT, TransferNFT, DeadlineComes, DeadlinePasses, GraceEnds, poolVars
  <2> QED BY <1>0, <1>1, <2>1
<1> QED BY <1>3, <1>4, <1>5, <1>6, <1>7, <1>8, <1>9, <1>10, <1>11, <1>12, <1>13
        DEF SealedNext, CommonSteps

LEMMA SealedStutterIsPromised == UNCHANGED sealedVars => Promised
BY DEF sealedVars, poolVars, payVars, tallyVars, resultVars, Promised, Award

LEMMA CreIsPromised ==
  ASSUME CreInv, CreInv', [Next]_vars
  PROVE  Promised
<1>1. SealedInv /\ SealedInv'
  BY DEF CreInv
<1>2. CASE SealedNext
  BY <1>1, <1>2, SealedNextIsPromised
<1>3. CASE UNCHANGED sealedVars
  BY <1>3, SealedStutterIsPromised
<1>4. ASSUME NEW r \in reports, OnReport(r) PROVE Promised
  <2>1. CASE TakeResult(r)
    BY <1>1, <2>1, DecisionIsPromised DEF TakeResult
  <2>2. CASE Close(r.maxVoters) \/ CloseArkiv(r.cursor, r.ballots)
    <3>1. UNCHANGED <<resultVars, poolVars, costs>>
      BY <2>2 DEF Close, CloseArkiv
    <3>2. balance \in Nat
      BY <1>1 DEF SealedInv, SealedTypeOK
    <3> QED BY <1>1, <3>1, <3>2, ReceiptIsPromised DEF resultVars, poolVars, payVars
  <2> QED BY <1>4, <2>1, <2>2 DEF OnReport
<1>5. CASE Next /\ ~SealedNext /\ ~(\E r \in reports : OnReport(r))
  BY <1>3, <1>5 DEF Next, ReportClose, ReportResult, ReportElsewhere, SendReport
<1> QED BY <1>2, <1>3, <1>4, <1>5 DEF vars

LEMMA PromiseStarts == SealedInit => Promise!Init
BY DEF SealedInit, Promise!Init

\* The CRE pool implements Escrow whatever it is reported: it decides once,
\* never awards more than it holds, pays each award at most once and in full,
\* and lets the owner take only what no award still needs: ImplementsEscrow.
THEOREM CreKeepsItsPromise == Spec => ImplementsEscrow
<1>1. Init => Promise!Init
  BY PromiseStarts DEF Init
<1>2. CreInv /\ CreInv' /\ [Next]_vars => Promised
  BY CreIsPromised
<1>3. CreInv /\ CreInv' /\ [Next]_vars => [Promise!Next]_(Promise!escrowVars)
  BY <1>2 DEF Promised, Promise!escrowVars, Award
<1> QED BY <1>1, <1>3, CreInvariant, PTL DEF Spec, ImplementsEscrow, Promise!Spec

\* And so does the ZisK pool, whatever it is sent with a proof.
THEOREM ZiskKeepsItsPromise == ZiskSpec => ImplementsEscrow
<1>1. SealedInit => Promise!Init
  BY PromiseStarts
<1>2. ASSUME ZiskInv, ZiskInv', [ZiskNext]_sealedVars PROVE Promised
  <2>1. SealedInv /\ SealedInv'
    BY <1>2 DEF ZiskInv
  <2>2. CASE SealedNext
    BY <2>1, <2>2, SealedNextIsPromised
  <2>3. CASE UNCHANGED sealedVars
    BY <2>3, SealedStutterIsPromised
  <2>4. ASSUME NEW order \in Orders, NEW inputs \in {inputsHash, OtherRound}, NEW key \in Key,
               FinalizeProven(order, Committed(inputs, key))
        PROVE  Promised
    BY <2>1, <2>4, DecisionIsPromised DEF FinalizeProven
  <2> QED BY <1>2, <2>2, <2>3, <2>4 DEF ZiskNext, FinalizeByAnyone
<1>3. ZiskInv /\ ZiskInv' /\ [ZiskNext]_sealedVars => [Promise!Next]_(Promise!escrowVars)
  BY <1>2 DEF Promised, Promise!escrowVars, Award
<1> QED BY <1>1, <1>3, ZiskInvariant, PTL DEF ZiskSpec, ImplementsEscrow, Promise!Spec
=============================================================================
