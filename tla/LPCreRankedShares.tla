--------------------------- MODULE LPCreRankedShares ---------------------------
(***************************************************************************)
(* A CRE pool whose sponsors may also reward liquidity,                    *)
(* src/src/uniswap/LPCreRankedShares.sol: LPVoting keeps the ledger of     *)
(* positions, and what it allocates after the deadline becomes seat weight *)
(* before the pool may close.  The workflow of src/cre/src/lp-workflow.ts  *)
(* drives both: it reports prices while the vote is open, finalises the    *)
(* campaigns, and only then closes and tallies.                            *)
(***************************************************************************)
EXTENDS CreRankedShares, LPVoting

CONSTANTS
  LPChunks,       \* chunk sizes anyone may finalise with
  MaxLPChanges    \* bound on what owners do with their positions

ASSUME LPChunksAssumption == LPChunks \subseteq Nat

VARIABLES
  lpInstalled,   \* lpVoting # address(0)
  lpBudget, lpGranted,
  changes        \* history: bounds what owners do

lpPoolVars == <<lpInstalled, lpBudget, lpGranted, changes>>
lpAllVars  == <<vars, lpVars, lpPoolVars>>

LPSpecInit ==
  /\ Init /\ LPInit
  /\ lpInstalled = FALSE /\ lpBudget = 0 /\ lpGranted = 0 /\ changes = 0

-----------------------------------------------------------------------------
(* The pool.                                                               *)

SetLPVoting ==
  /\ phase = "Setup" /\ ~lpInstalled
  /\ lpInstalled' = TRUE
  /\ UNCHANGED <<vars, lpVars, lpBudget, lpGranted, changes>>

SponsorLP(amount, fee, k, minimumValue) ==
  /\ lpInstalled
  /\ AcceptDeposit(amount, fee)
  /\ ledger' = AddBudget(ledger, amount)
  /\ lpBudget' = lpBudget + amount
  /\ AddCampaign(phase, amount, k, minimumValue)
  /\ UNCHANGED <<costs, ballotVars, tallyVars, pastGrace, votingOpen, pastDeadline, seatVars,
                 payVars, contributed, reports, lpInstalled, lpGranted, changes>>

CanCredit(amount) == phase = "Closing" /\ amount <= lpBudget - lpGranted

\* creditLP for each account in turn; crediting nothing is skipped.
Credit(L, pays) ==
  LET credited[i \in 0 .. Len(pays)] ==
        IF i = 0 \/ pays[i].weight = 0
        THEN (IF i = 0 THEN L ELSE credited[i - 1])
        ELSE OnSeatGranted(credited[i - 1], pays[i].who, pays[i].weight)
  IN  credited[Len(pays)]

Finalize_LP(id, maxItems) ==
  LET pays == Allocation(id, maxItems)
  IN  /\ FinalizeLP(phase, id, maxItems)
      /\ CanCredit(AllocationWeight(pays))
      /\ ledger' = Credit(ledger, pays)
      /\ lpGranted' = lpGranted + AllocationWeight(pays)
      /\ UNCHANGED <<costs, ballotVars, tallyVars, pastGrace, deposits, poolVars,
                     lpInstalled, lpBudget, changes>>

CanVoteLP(who) == CanVoteSealed(who) \/ (lpInstalled /\ who \in registered)

VoteLP ==
  \E who \in Voter, ciphertext \in SealedInputs :
    /\ CanVoteLP(who)
    /\ \/ CastSealed(who, ciphertext)
       \/ \E revision \in 0 .. MaxRevision : CastSealedArkiv(who, ciphertext, revision)

BugBeforeClose == TRUE

BeforeClose == lpInstalled => Finalized

-----------------------------------------------------------------------------
(* The workflow, lpActions: one price or finalisation report per campaign. *)

PriceReport(id) ==
  /\ phase = "Open"
  /\ now >= campaigns[id].updatedAt + PriceInterval
  /\ now > campaigns[id].sourceBlock
  /\ SendReport([kind |-> "price", id |-> id, price |-> slot0[campaigns[id].pool],
                 sourceBlock |-> now, observedAt |-> now])

FinalizeReport(id) ==
  /\ phase = "Closing" /\ ~campaigns[id].finalized
  /\ SendReport([kind |-> "finalize", id |-> id, maxItems |-> CloseChunk])

\* It goes on to the pool itself only when every campaign is final.
Workflow ==
  /\ \/ \E id \in DOMAIN campaigns : PriceReport(id) \/ FinalizeReport(id)
     \/ Finalized /\ ReportClose
     \/ \E order \in Orders : ReportResult(order)
  /\ UNCHANGED <<lpVars, lpPoolVars>>

OnLPReport(r) ==
  \/ /\ r.kind = "price"
     /\ SetPrice(phase, r.id, r.price, r.sourceBlock, r.observedAt)
     /\ UNCHANGED <<vars, lpPoolVars>>
  \/ r.kind = "finalize" /\ Finalize_LP(r.id, r.maxItems) /\ UNCHANGED reports
  \/ /\ r.kind \in {"close", "closeArkiv"} => BeforeClose
     /\ OnReport(r)
     /\ UNCHANGED <<lpVars, lpPoolVars>>

-----------------------------------------------------------------------------

Owners ==
  /\ changes < MaxLPChanges
  /\ changes' = changes + 1
  /\ \/ \E t \in Position, id \in DOMAIN campaigns : NotifySubscribe(phase, t, id)
     \/ \E t \in Position, l \in Liquidities : l # liquidityOf[t] /\ ModifyLiquidity(t, l)
     \/ \E t \in Position : Unsubscribe(t)
     \/ \E t \in Position, to \in Provider : to # ownerOf[t] /\ Transfer(t, to)
     \/ \E k \in LPPool, price \in Prices : price # slot0[k] /\ MovePrice(k, price)
  /\ UNCHANGED <<vars, lpInstalled, lpBudget, lpGranted>>

TimePasses ==
  /\ Tick
  /\ IF now' = Deadline THEN DeadlineComes /\ UNCHANGED reports ELSE UNCHANGED vars
  /\ UNCHANGED lpPoolVars

AnyoneFinalizes ==
  \E id \in DOMAIN campaigns, n \in LPChunks : Finalize_LP(id, n) /\ UNCHANGED reports

AnyoneCloses == BeforeClose /\ CloseSteps /\ UNCHANGED <<reports, lpVars, lpPoolVars>>

LPNext ==
  \/ CommonSteps /\ UNCHANGED <<reports, lpVars, lpPoolVars>>
  \/ VoteLP /\ UNCHANGED <<reports, lpVars, lpPoolVars>>
  \/ SetLPVoting
  \/ \E amount \in Amounts, fee \in Fees, k \in LPPool, minimum \in MinimumValues :
       SponsorLP(amount, fee, k, minimum)
  \/ Owners
  \/ AnyoneFinalizes
  \/ AnyoneCloses
  \/ Workflow
  \/ \E r \in reports : OnLPReport(r)
  \/ TimePasses

LPSpec == LPSpecInit /\ [][LPNext]_lpAllVars

-----------------------------------------------------------------------------

\* What the pool granted for liquidity is what the campaigns allocated, within
\* what their sponsors deposited; so crediting a share is never refused, which
\* would leave the round impossible to close.
CreditsCovered ==
  /\ lpGranted = Sum([id \in DOMAIN campaigns |-> campaigns[id].allocated], Len(campaigns))
  /\ lpBudget  = Sum([id \in DOMAIN campaigns |-> campaigns[id].amount], Len(campaigns))
  /\ \A id \in DOMAIN campaigns, n \in LPChunks :
       phase = "Closing" /\ ~campaigns[id].finalized => CanCredit(AllocationWeight(Allocation(id, n)))

\* With no workflow at all, a funded round reaches its tally: the campaigns can
\* be finalised by anyone, and the pool does not wait for anything else.
ClosesWithoutWorkflow ==
  (phase = "Closing" /\ BalanceCovers(ledger.total) /\ ~arkivBallots) ~> (phase \in {"Tally", "Done"})
=============================================================================
