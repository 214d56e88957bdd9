------------------------------ MODULE TallyPorts ------------------------------
(***************************************************************************)
(* The round of Tally, counted a second time by every other implementation *)
(* of the algorithm, from the weights and ballots the contract started     *)
(* with: the reference, the Rust crate, shared/pbear.ts, the ZisK guest,   *)
(* the CRE workflow and the Noir chain of proofs.  For the backends with   *)
(* sealed ballots, any subset of the roster may have sealed its ballot.    *)
(***************************************************************************)
EXTENDS Tally, NoirTally

CONSTANT Numbers   \* what a forger writes in a step

ASSUME NumbersAssumption == Numbers \subseteq Nat

Entries == [i \in DOMAIN ledger.voters |->
              [weight |-> initial[ledger.voters[i]], ballot |-> ballot[ledger.voters[i]]]]

Unvoted == budget - Sum([i \in DOMAIN Entries |-> Entries[i].weight], Len(Entries))

\* The roster's places that may have sealed their ballots.
Sealings == {S \in SUBSET DOMAIN Entries : Cardinality(S) <= NSealedMax}

\* What the voters outside, and inside, `sealers` put in each block.
PublicBlock(sealers) ==
  LET voted == Ordered(Len(Entries), {i \in DOMAIN Entries \ sealers : Entries[i].ballot # << >>})
  IN  [k \in DOMAIN voted |-> Entries[voted[k]]]
SealedBlock(sealers) ==
  LET sealed == Ordered(Len(Entries), sealers) IN [k \in DOMAIN sealed |-> Entries[sealed[k]]]

\* The records `votersFrom` gives a backend, a ciphertext being what it decrypts to.
VoterRecords(sealers) ==
  [i \in DOMAIN Entries |->
     [directWeight |-> IF i \in sealers THEN 0 ELSE Entries[i].weight,
      directBallot |-> IF i \in sealers THEN << >> ELSE Entries[i].ballot,
      seatWeight   |-> IF i \in sealers THEN Entries[i].weight ELSE 0,
      sealedBallot |-> IF i \in sealers THEN Entries[i].ballot ELSE << >>]]

Report(sealers) == PbearTranscript(costs, PublicBlock(sealers), SealedBlock(sealers), budget)

\* The state once every sealed ballot was taken in.
Start(sealers) == Ingested(Len(costs), budget, SealedBlock(sealers))

\* The state that the last proof ends in.
ProofChain(sealers, transcript) ==
  TallyChain(Start(sealers), costs, transcript)[Bound(Len(costs))]

\* The states after proving just these steps, one by one.
ProofsOf(sealers, steps) ==
  LET state[i \in 0 .. Len(steps)] ==
        IF i = 0 THEN Start(sealers) ELSE TallyStep(state[i - 1], costs, steps[i])
  IN  state

\* The contract is the definition (zisk/crates/pbear/src/lib.rs:4): from the
\* same weights and ballots the reference, the Rust crate and shared/pbear.ts,
\* wherever its entries are cut in two blocks, fund the same projects in the
\* same order.  They loop over arrays with a running maximum and no uint8.
PortsAgree ==
  tallyDone =>
    /\ Pbear(costs, Entries, Unvoted).funded = fundedOrder
    /\ TallyRs(costs, Entries, Unvoted, budget + 1).funded = fundedOrder
    /\ \A n \in 0 .. Len(Entries) :
         PbearTranscript(costs, SubSeq(Entries, 1, n), SubSeq(Entries, n + 1, Len(Entries)),
                              budget).funded = fundedOrder

\* Whoever sealed, a pool of either backend, which has at most 31 projects
\* (SealedPool.sol:60), funds the same projects in the same order: the ZisK
\* guest, which turns every other weight into abstaining money, the CRE workflow,
\* which is given the budget, and the Noir proofs, which zero the weight of a
\* ballot they cannot decrypt.
BackendsAgree ==
  tallyDone /\ Len(costs) <= 31 =>
    \A sealers \in Sealings :
      LET report == Report(sealers)
          proved == ProofChain(sealers, report.transcript)
      IN  /\ GuestRun(costs, VoterRecords(sealers), budget, budget + 1).funded = report.funded
          /\ proved.done /\ ~proved.broken /\ proved.funded = report.funded

\* The transcript the workflow reports passes the public audit and takes every
\* step of the proofs, ending in the hash the contract stored: an honest
\* report can always be proved and never looks like a forgery.
HonestReportStands ==
  tallyDone =>
    \A sealers \in Sealings :
      LET report == Report(sealers)
          proved == ProofChain(sealers, report.transcript)
      IN  /\ ReplayPublic(costs, PublicBlock(sealers), report.transcript, budget)
          /\ Len(report.transcript) <= 2 * Len(costs)
          /\ ~proved.broken /\ proved.tHash = report.transcript

\* The level and the supports, and the choice and its total, that a forger may write.
Claims  == [level : Numbers, pub : [1 .. Len(costs) -> Numbers]]
Choices == [best : Numbers \cup DOMAIN costs, total : Numbers]

\* The audit judges the public half of a report and the proofs the sealed
\* half.  Together they leave nothing open: after any part of the true
\* transcript they take, of all steps there are, only its next one, and
\* neither an early end nor a further step, so step by step a report that
\* passes both is the true result.  (AuditReads is the first thing AuditStep
\* asks; it stands in front of the choices to spare TLC trying them all.)
ForgedReportFalls ==
  tallyDone =>
    \A sealers \in Sealings :
      LET true  == Report(sealers).transcript
          pub   == PublicBlock(sealers)
          ranks == RanksOf(pub)
      IN  \A n \in 0 .. Len(true) :
            LET prefix  == SubSeq(true, 1, n)
                proved  == ProofsOf(sealers, prefix)[n]
                audited == ReplayRun(costs, pub, prefix, budget)
                support == SupportOf(audited, ranks, DOMAIN ranks, costs)
            IN  /\ n < Len(true) => ~(proved.done /\ ReplayPublic(costs, pub, prefix, budget))
                /\ \A claim \in Claims :
                     AuditReads(audited, claim.level, claim.pub, support, costs, budget) =>
                       \A choice \in Choices :
                         LET step == [level |-> claim.level, pub |-> claim.pub,
                                      best |-> choice.best, total |-> choice.total]
                             next == TallyStep(proved, costs, step)
                         IN  /\ AuditStep(audited, step, support, ranks, costs, budget).ok
                             /\ ~next.broken /\ Len(next.tHash) = n + 1
                             => n < Len(true) /\ step = true[n + 1]
=============================================================================
