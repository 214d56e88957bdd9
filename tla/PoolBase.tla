------------------------------- MODULE PoolBase -------------------------------
(***************************************************************************)
(* What every pool does around its tally, src/src/PoolBase.sol: custody of *)
(* the token, sponsorships, NFT seats, claims and sweep.  PoolBase is an   *)
(* abstract contract whose hooks (_isOpen, _onSeatGranted, _isFunded ...)  *)
(* a concrete pool fills in; here each operation is the part of the action *)
(* that PoolBase itself performs, and the pool's module conjoins its hooks.*)
(*                                                                         *)
(* External: the ERC-20 token, which may take a fee from what it transfers *)
(* in, the ERC-721 collection, and the block timestamp.                    *)
(* Operators named Bug... are mistakes, not code: see PBEAR.               *)
(***************************************************************************)
EXTENDS Integers, Sequences, FiniteSets

CONSTANTS
  TokenId,   \* the ids of the sponsored NFT collection
  NoHolder   \* address(0)

ASSUME TokensAssumption == IsFiniteSet(TokenId)

VARIABLES
  votingOpen,
  pastDeadline,   \* block.timestamp >= votingDeadline
  balance,        \* token.balanceOf(address(this))
  sponsorships,   \* _sponsorships
  seatHolder,     \* seatHolder[id][tokenId]
  nftOwner,       \* external: ownerOf(tokenId)
  claimed,        \* the set of projects that were paid
  claimedTotal,
  contributed     \* history: the sum of each address's Contributed events

seatVars == <<sponsorships, seatHolder, nftOwner>>
payVars  == <<claimed, claimedTotal>>
poolVars == <<votingOpen, pastDeadline, balance, seatVars, payVars, contributed>>

-----------------------------------------------------------------------------
(* Deposits.                                                               *)

\* The budget is credited with `amount` whatever the token delivered.
Deposit(amount, fee) ==
  /\ ~pastDeadline
  /\ amount # 0
  /\ fee <= amount
  /\ balance' = balance + amount - fee

\* `members` is a history field: the calldata of a list sponsorship.
NewSponsorship(amount, seats, nft, members) ==
  [amount |-> amount, perSeat |-> amount \div seats, seats |-> seats,
   claimed |-> Len(members), nft |-> nft, members |-> members]

PushSponsorship(s) ==
  /\ sponsorships' = Append(sponsorships, s)
  /\ seatHolder' = Append(seatHolder, [t \in TokenId |-> NoHolder])
  /\ UNCHANGED nftOwner

\* seats = 0 asks the collection for its supply.
SeatsFor(seats) == IF seats = 0 THEN Cardinality(TokenId) ELSE seats

BugClaimableLate(who, id, t) ==
  /\ seatHolder[id][t] = NoHolder => ~pastDeadline
  /\ sponsorships[id].nft
  /\ nftOwner[t] = who
  /\ seatHolder[id][t] # who
  /\ seatHolder[id][t] = NoHolder => sponsorships[id].claimed < sponsorships[id].seats

SeatClaimable(who, id, t) ==
  /\ ~pastDeadline
  /\ sponsorships[id].nft
  /\ nftOwner[t] = who
  /\ seatHolder[id][t] # who
  /\ seatHolder[id][t] = NoHolder => sponsorships[id].claimed < sponsorships[id].seats

\* History: how many seats of sponsorship `id` an address was given or claimed.
SeatsHeld(v, id) ==
  Cardinality({i \in DOMAIN sponsorships[id].members : sponsorships[id].members[i] = v})
  + Cardinality({t \in TokenId : seatHolder[id][t] = v /\ v # NoHolder})

TakeSeat(who, id, t) ==
  /\ SeatClaimable(who, id, t)
  /\ sponsorships' = IF seatHolder[id][t] = NoHolder
                     THEN [sponsorships EXCEPT ![id].claimed = @ + 1]
                     ELSE sponsorships
  /\ seatHolder' = [seatHolder EXCEPT ![id][t] = who]
  /\ UNCHANGED nftOwner

-----------------------------------------------------------------------------
(* Payouts.                                                                *)

PayProject(c, cost) ==
  /\ c \notin claimed
  /\ claimed' = claimed \cup {c}
  /\ claimedTotal' = claimedTotal + cost
  /\ balance >= cost
  /\ balance' = balance - cost

BugSweepAll(owed) == balance' = 0 /\ UNCHANGED payVars

Sweep(owed) ==
  /\ balance >= owed
  /\ balance' = owed
  /\ UNCHANGED payVars

BugBalanceExceeds(budget) == balance > budget

BalanceCovers(budget) == balance >= budget

-----------------------------------------------------------------------------
(* The environment.                                                        *)

\* Anyone can send tokens to the pool without calling it.
Donate(amount) ==
  /\ balance' = balance + amount
  /\ UNCHANGED <<votingOpen, pastDeadline, seatVars, payVars, contributed>>

TransferNFT(t, to) ==
  /\ to # NoHolder
  /\ nftOwner' = [nftOwner EXCEPT ![t] = to]
  /\ UNCHANGED <<votingOpen, pastDeadline, balance, sponsorships, seatHolder, payVars, contributed>>

DeadlinePasses ==
  /\ ~pastDeadline
  /\ pastDeadline' = TRUE
  /\ UNCHANGED <<votingOpen, balance, seatVars, payVars, contributed>>
=============================================================================
