------------------------------- MODULE CastVote --------------------------------
(***************************************************************************)
(* Contributing and voting in one transaction from the web client:         *)
(* prepareVote and castVote of web/app/lib/cast-vote.ts, called by         *)
(* submitVote of routes/vote.tsx, against castBallot of a public pool.     *)
(*                                                                         *)
(* One voter may have the page open twice; the pages share the draft in    *)
(* localStorage.  External: the wallet, which may cancel a transaction or  *)
(* send it again at a higher price under another hash, the token, with or  *)
(* without permits, and the chain, which mines the account's transactions  *)
(* in order.  A ballot's content is left out: its revision and the number  *)
(* of the draft stand for its id.                                          *)
(* Operators named Bug... are mistakes, not code: see PBEAR.               *)
(***************************************************************************)
EXTENDS Integers, Sequences, FiniteSets, SequencesExt

CONSTANTS
  Pages,         \* browser tabs of the voter
  Purse,         \* the voter's tokens
  MaxVotes,     \* bound on prepared votes
  MaxSent,       \* bound on transactions the pages send
  MaxReplaced    \* bound on those the wallet replaces

ASSUME CastAssumption ==
  Purse \in Nat /\ MaxVotes \in Nat /\ MaxSent \in Nat /\ MaxReplaced \in Nat

VARIABLES
  chain,      \* pool and token, as far as they concern the voter
  mempool,    \* the account's transactions, by nonce
  fate,       \* of every hash sent: "waiting", "success", "reverted" or "replaced"
  landed,     \* the ballots the pool accepted, in order
  saved,      \* the draft in localStorage
  page,       \* what every page does and shows
  drafts,     \* how many votes were prepared
  told        \* drafts whose voter was told that the vote is recorded

castVars == <<chain, mempool, fate, landed, saved, page, drafts, told>>

NoDraft == [serial |-> 0, amount |-> 0, revision |-> 0, approvalTx |-> 0, voteTx |-> 0]
Resting == [pc |-> "idle", draft |-> NoDraft, permit |-> 0, offersEdit |-> FALSE]

\* "Edit ranking" is offered for a draft without a transaction.
Editable(d) == d # NoDraft /\ d.voteTx = 0 /\ d.approvalTx = 0

CastInit ==
  /\ chain \in [permits: BOOLEAN, closed: {FALSE}, revision: {0}, paid: {0},
                allowance: {0}, nonce: {1}]
  /\ mempool = << >> /\ fate = << >> /\ landed = << >>
  /\ saved = NoDraft
  /\ page = [w \in Pages |-> Resting]
  /\ drafts = 0 /\ told = {}

-----------------------------------------------------------------------------
(* The pool and the token.                                                 *)

BugStale(revision) == TRUE

\* castBallot is given the revision the voter saw (_storeBallot).
Expected(revision) == revision = chain.revision + 1

\* A permit that is no longer good is swallowed; the allowance still decides.
AfterPermit(tx) ==
  IF tx.amount > 0 /\ tx.permit = chain.nonce
  THEN [chain EXCEPT !.allowance = tx.amount, !.nonce = @ + 1] ELSE chain

Accepts(tx) ==
  /\ ~chain.closed
  /\ Expected(tx.revision)
  /\ tx.amount <= AfterPermit(tx).allowance /\ chain.paid + tx.amount <= Purse

CastBallot(tx) ==
  IF Accepts(tx)
  THEN /\ chain' = [AfterPermit(tx) EXCEPT !.revision = @ + 1, !.paid = @ + tx.amount,
                                           !.allowance = @ - tx.amount]
       /\ landed' = Append(landed, tx)
       /\ fate' = [fate EXCEPT ![tx.hash] = "success"]
  ELSE fate' = [fate EXCEPT ![tx.hash] = "reverted"] /\ UNCHANGED <<chain, landed>>

Approve(tx) ==
  /\ chain' = [chain EXCEPT !.allowance = tx.amount]
  /\ fate' = [fate EXCEPT ![tx.hash] = "success"]
  /\ UNCHANGED landed

MineFirst ==
  /\ mempool # << >>
  /\ mempool' = Tail(mempool)
  /\ IF Head(mempool).revision = 0 THEN Approve(Head(mempool)) ELSE CastBallot(Head(mempool))
  /\ UNCHANGED <<saved, page, drafts, told>>

Replace(i) ==
  /\ Cardinality({h \in DOMAIN fate : fate[h] = "replaced"}) < MaxReplaced
  /\ \/ mempool' = RemoveAt(mempool, i)
        /\ fate' = [fate EXCEPT ![mempool[i].hash] = "replaced"]
     \/ mempool' = [mempool EXCEPT ![i].hash = Len(fate) + 1]
        /\ fate' = Append([fate EXCEPT ![mempool[i].hash] = "replaced"], "waiting")
  /\ UNCHANGED <<chain, landed, saved, page, drafts, told>>

PassDeadline ==
  /\ ~chain.closed
  /\ chain' = [chain EXCEPT !.closed = TRUE]
  /\ UNCHANGED <<mempool, fate, landed, saved, page, drafts, told>>

-----------------------------------------------------------------------------
(* A page.                                                                 *)

Goes(w, pc)    == page' = [page EXCEPT ![w].pc = pc]
Holds(w, d, pc) == page' = [page EXCEPT ![w].pc = pc, ![w].draft = d]
\* run: whatever happened, the page shows what is in localStorage.
Ends(w)        == page' = [page EXCEPT ![w] = [Resting EXCEPT !.offersEdit = Editable(saved')]]

\* readVoting and readContribution, each at one block.
Round == [open |-> ~chain.closed, direct |-> chain.paid, revision |-> chain.revision]
Funds == [balance |-> Purse - chain.paid, allowance |-> chain.allowance]

\* votingBlockReason of a public pool.
MayVote(round, amount) == round.open /\ round.direct + amount > 0

ResumeDraft(w) ==
  /\ page[w].pc = "idle" /\ saved # NoDraft
  /\ Holds(w, saved, IF saved.voteTx # 0 THEN "voteWait" ELSE "check")
  /\ UNCHANGED <<chain, mempool, fate, landed, saved, drafts, told>>

PrepareVote(w, amount) ==
  /\ page[w].pc = "idle" /\ saved = NoDraft /\ drafts < MaxVotes
  /\ MayVote(Round, amount)
  /\ drafts' = drafts + 1
  /\ Holds(w, [NoDraft EXCEPT !.serial = drafts + 1, !.amount = amount,
                              !.revision = Round.revision + 1], "check")
  /\ UNCHANGED <<chain, mempool, fate, landed, saved, told>>

\* "Edit ranking", offered for the draft the page showed last.
Discard(w) ==
  /\ page[w].pc = "idle" /\ page[w].offersEdit
  /\ saved' = NoDraft
  /\ Ends(w)
  /\ UNCHANGED <<chain, mempool, fate, landed, drafts, told>>

\* The draft is checked against a fresh read, then saved.
CheckDraft(w) ==
  /\ page[w].pc = "check"
  /\ LET d == page[w].draft
     IN  IF MayVote(Round, d.amount) /\ Round.revision + 1 = d.revision
         THEN /\ saved' = d
              /\ Goes(w, IF d.approvalTx # 0 THEN "approvalAgain" ELSE "funds")
         ELSE UNCHANGED saved /\ Ends(w)
  /\ UNCHANGED <<chain, mempool, fate, landed, drafts, told>>

ReadFunds(w) ==
  /\ page[w].pc = "funds"
  /\ UNCHANGED saved
  /\ LET amount == page[w].draft.amount
     IN  IF amount > Funds.balance THEN Ends(w)
         ELSE IF amount = 0 \/ Funds.allowance >= amount THEN Goes(w, "simulate")
         ELSE IF chain.permits
         THEN page' = [page EXCEPT ![w].pc = "simulate", ![w].permit = chain.nonce]
         ELSE Goes(w, "approve")
  /\ UNCHANGED <<chain, mempool, fate, landed, drafts, told>>

\* writeContract: the wallet sends; the page learns the hash one step later.
Send(tx) ==
  /\ Len(fate) < MaxSent
  /\ mempool' = Append(mempool, tx)
  /\ fate' = Append(fate, "waiting")

SendApproval(w) ==
  /\ page[w].pc = "approve"
  /\ Send([serial |-> page[w].draft.serial, amount |-> page[w].draft.amount,
           revision |-> 0, permit |-> 0, hash |-> Len(fate) + 1])
  /\ Holds(w, [page[w].draft EXCEPT !.approvalTx = Len(fate) + 1], "approvalSent")
  /\ UNCHANGED <<chain, landed, saved, drafts, told>>

VoteTx(w) ==
  [serial |-> page[w].draft.serial, amount |-> page[w].draft.amount,
   revision |-> page[w].draft.revision, permit |-> page[w].permit, hash |-> Len(fate) + 1]

SimulateVote(w) ==
  /\ page[w].pc = "simulate"
  /\ UNCHANGED saved
  /\ IF Accepts(VoteTx(w)) THEN Goes(w, "confirm") ELSE Ends(w)
  /\ UNCHANGED <<chain, mempool, fate, landed, drafts, told>>

SendVote(w) ==
  /\ page[w].pc = "confirm"
  /\ Send(VoteTx(w))
  /\ Holds(w, [page[w].draft EXCEPT !.voteTx = Len(fate) + 1], "voteSent")
  /\ UNCHANGED <<chain, landed, saved, drafts, told>>

SaveHash(w) ==
  /\ page[w].pc \in {"approvalSent", "voteSent"}
  /\ saved' = page[w].draft
  /\ Goes(w, IF page[w].pc = "voteSent" THEN "voteWait" ELSE "approvalWait")
  /\ UNCHANGED <<chain, mempool, fate, landed, drafts, told>>

\* viem answers with the receipt of the transaction that replaced the one asked for.
Receipt(hash) ==
  IF fate[hash] = "replaced" THEN {"success", "reverted"}
  ELSE {fate[hash]} \ {"waiting"}

ApprovalMined(w) ==
  /\ page[w].pc \in {"approvalWait", "approvalAgain"}
  /\ saved' = [page[w].draft EXCEPT !.approvalTx = 0]
  /\ \E status \in Receipt(page[w].draft.approvalTx) :
       IF status = "success"
       THEN Holds(w, saved', IF page[w].pc = "approvalWait" THEN "simulate" ELSE "funds")
       ELSE Ends(w)
  /\ UNCHANGED <<chain, mempool, fate, landed, drafts, told>>

BugRecorded(hash) == TRUE

\* The pool's event in the receipt of this very hash; a replaced hash has none.
Recorded(hash) == fate[hash] = "success"

VoteMined(w) ==
  /\ page[w].pc = "voteWait"
  /\ LET d == page[w].draft
     IN  \E status \in Receipt(d.voteTx) :
           CASE status = "reverted" ->
                  saved' = [d EXCEPT !.voteTx = 0] /\ UNCHANGED told
             [] status = "success" /\ Recorded(d.voteTx) ->
                  saved' = NoDraft /\ told' = told \cup {d}
             [] OTHER -> UNCHANGED <<saved, told>>
  /\ Ends(w)
  /\ UNCHANGED <<chain, mempool, fate, landed, drafts>>

\* A call fails, a wait times out, the wallet refuses, or the tab is closed.
Leave(w) ==
  /\ page[w].pc # "idle" \/ page[w].offersEdit # Editable(saved)
  /\ UNCHANGED saved
  /\ Ends(w)
  /\ UNCHANGED <<chain, mempool, fate, landed, drafts, told>>

PageSteps(w) ==
  \/ ResumeDraft(w) \/ Discard(w) \/ CheckDraft(w) \/ ReadFunds(w) \/ SendApproval(w)
  \/ SimulateVote(w) \/ SendVote(w) \/ SaveHash(w) \/ ApprovalMined(w) \/ VoteMined(w)
  \/ Leave(w)
  \/ \E amount \in 0 .. 1 : PrepareVote(w, amount)

CastNext ==
  \/ MineFirst \/ PassDeadline
  \/ \E i \in DOMAIN mempool : Replace(i)
  \/ \E w \in Pages : PageSteps(w)

CastSpec == CastInit /\ [][CastNext]_castVars

-----------------------------------------------------------------------------

\* A draft is contributed and counted at most once, however often it is sent:
\* from two pages, again after its hash was lost with a closed tab, or repriced
\* ("This will not send another contribution or vote.", vote.tsx:280).
PaidOnce == \A i, j \in DOMAIN landed : landed[i].serial = landed[j].serial => i = j

\* A voter who is told that the vote is recorded has that draft's ballot and
\* contribution in the pool (vote.tsx:160), also when the wallet cancelled the
\* transaction the page waited for.
ToldTruly ==
  \A d \in told : \E i \in DOMAIN landed : landed[i].serial = d.serial /\ landed[i].hash = d.voteTx
=============================================================================
