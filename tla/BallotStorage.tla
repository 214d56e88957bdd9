----------------------------- MODULE BallotStorage -----------------------------
(***************************************************************************)
(* The worker that copies accepted ballots to Arkiv: syncPool of           *)
(* cre/scripts/lib/ballot-storage.ts in the loop of sync-ballots.ts.  It   *)
(* journals every transaction it signs before it broadcasts it, so that    *)
(* after a crash, a lost call or a timeout it can send the same one again. *)
(*                                                                         *)
(* A ballot is named by its id: pool, place in the pool's roster and       *)
(* revision.  External: the voters, the Arkiv node with its mempool, the   *)
(* nonces of the worker's account and its entities.  The end of the        *)
(* retention period, uploads by other accounts and a file emptied while a  *)
(* transaction is waiting are left out.                                    *)
(* Operators named Bug... are mistakes, not code: see PBEAR.               *)
(***************************************************************************)
EXTENDS Integers, Sequences, FiniteSets

CONSTANTS
  Pools,         \* --pools, a sequence
  Places,        \* how many ballot references a pool has
  MaxAccepted,   \* bound on the revisions of a reference
  MaxFaults      \* bound on crashes, lost calls, dropped and reverted transactions

ASSUME StorageAssumption ==
  /\ Len(Pools) \in Nat \ {0} /\ DOMAIN Pools = 1 .. Len(Pools)
  /\ Places \in Nat /\ MaxAccepted \in Nat /\ MaxFaults \in Nat

VARIABLES
  accepted,   \* the accepted revision of every reference; 0 for none
  journal,    \* the file: what is saved of every ballot
  memory,     \* the journal object of the process
  worker,     \* where the process is, with the rows it read from its pool
  signed,     \* how many transactions were signed: the last one's hash
  nonce,      \* the account's next nonce on Arkiv
  waiting,    \* transactions in the node's mempool
  outcome,    \* of every mined transaction: "stored" or "reverted"
  faults

nodeVars == <<nonce, waiting, outcome>>
syncVars == <<accepted, journal, memory, worker, signed, nodeVars, faults>>

PoolAt  == DOMAIN Pools
Ballots == [pool: PoolAt, place: 1 .. Places, revision: 1 .. MaxAccepted]

NoRecord == [hash |-> 0, nonce |-> 0, entity |-> FALSE, verified |-> FALSE]
NoRows   == [s \in 1 .. Places |-> 0]

SyncInit ==
  /\ accepted = [p \in PoolAt |-> NoRows]
  /\ journal = [b \in Ballots |-> NoRecord] /\ memory = journal
  /\ worker = [pc |-> "pool", pool |-> 1, rows |-> NoRows, at |-> 1]
  /\ signed = 0 /\ nonce = 0 /\ waiting = {} /\ outcome = << >>
  /\ faults = 0

Fault == faults < MaxFaults /\ faults' = faults + 1

\* The ballot the worker is at.
Here   == [pool |-> worker.pool, place |-> worker.at, revision |-> worker.rows[worker.at]]
Record == memory[Here]

\* The entities of a ballot are its transactions that were mined and stored.
Stored(b) == {h \in DOMAIN outcome : outcome[h].ballot = b /\ outcome[h].stored}

-----------------------------------------------------------------------------
(* The Arkiv node and the pools.                                           *)

Accept(p, s) ==
  /\ accepted[p][s] < MaxAccepted
  /\ accepted' = [accepted EXCEPT ![p][s] = @ + 1]
  /\ UNCHANGED <<journal, memory, worker, signed, nodeVars, faults>>

Tx(b, r) == [hash |-> r.hash, nonce |-> r.nonce, ballot |-> b]

\* A node keeps one transaction per nonce, and none whose nonce is used up: of
\* two with the same nonce the one that pays enough more, whichever that is.
MempoolsAfter(tx) ==
  LET rivals == {other \in waiting : other.nonce = tx.nonce}
  IN  IF tx.nonce < nonce THEN {waiting}
      ELSE {(waiting \ rivals) \cup {tx}} \cup {waiting : other \in rivals}

\* eth_getTransactionCount at "pending".
PendingNonce ==
  CHOOSE n \in nonce .. nonce + Cardinality(waiting) :
    /\ \A tx \in waiting : tx.nonce # n
    /\ \A k \in nonce .. n - 1 : \E tx \in waiting : tx.nonce = k

Mine(tx) ==
  /\ tx.nonce = nonce
  /\ nonce' = nonce + 1
  /\ waiting' = waiting \ {tx}
  /\ \/ outcome' = [h \in DOMAIN outcome \cup {tx.hash} |->
                      IF h = tx.hash THEN [ballot |-> tx.ballot, stored |-> TRUE] ELSE outcome[h]]
        /\ UNCHANGED faults
     \/ outcome' = [h \in DOMAIN outcome \cup {tx.hash} |->
                      IF h = tx.hash THEN [ballot |-> tx.ballot, stored |-> FALSE] ELSE outcome[h]]
        /\ Fault
  /\ UNCHANGED <<accepted, journal, memory, worker, signed>>

Drop(tx) ==
  /\ waiting' = waiting \ {tx}
  /\ Fault
  /\ UNCHANGED <<accepted, journal, memory, worker, signed, nonce, outcome>>

-----------------------------------------------------------------------------
(* The worker.  What throws ends the pool's turn; the loop goes on.        *)

NextPool == [pc |-> "pool", pool |-> IF worker.pool = Len(Pools) THEN 1 ELSE worker.pool + 1,
             rows |-> NoRows, at |-> 1]
NextBallot == [worker EXCEPT !.pc = "ballot", !.at = @ + 1]

Save(r) == memory' = [memory EXCEPT ![Here] = r] /\ journal' = [memory EXCEPT ![Here] = r]

\* Any call of a step may fail without having had an effect.
Throws ==
  /\ worker.pc # "down"
  /\ Fault
  /\ worker' = NextPool
  /\ UNCHANGED <<accepted, journal, memory, signed, nodeVars>>

ReadPool ==
  /\ worker.pc = "pool"
  /\ worker' = [worker EXCEPT !.pc = "ballot", !.rows = accepted[worker.pool]]
  /\ UNCHANGED <<accepted, journal, memory, signed, nodeVars, faults>>

ToDo ==
  /\ worker.pc = "ballot" /\ worker.at <= Places
  /\ worker.rows[worker.at] # 0
  /\ ~Record.verified

Skip ==
  /\ worker.pc = "ballot" /\ ~ToDo
  /\ worker' = IF worker.at > Places THEN NextPool ELSE NextBallot
  /\ UNCHANGED <<accepted, journal, memory, signed, nodeVars, faults>>

\* A read-back that failed before.
ReadBackAgain ==
  /\ ToDo /\ Record.entity
  /\ worker' = [worker EXCEPT !.pc = "readback"]
  /\ UNCHANGED <<accepted, journal, memory, signed, nodeVars, faults>>

\* confirm: the saved transaction is broadcast again, verbatim.
Resume ==
  /\ ToDo /\ ~Record.entity /\ Record.hash # 0
  /\ waiting' \in MempoolsAfter(Tx(Here, Record))
  /\ worker' = [worker EXCEPT !.pc = "confirm"]
  /\ UNCHANGED <<accepted, journal, memory, signed, nonce, outcome, faults>>

\* The worker's own entity, found by its ballot_id.
AdoptStored ==
  /\ ToDo /\ Record.hash = 0 /\ ~Record.entity /\ Stored(Here) # {}
  /\ Save([NoRecord EXCEPT !.entity = TRUE, !.verified = TRUE])
  /\ worker' = NextBallot
  /\ UNCHANGED <<accepted, signed, nodeVars, faults>>

NewRecord == [NoRecord EXCEPT !.hash = signed + 1, !.nonce = PendingNonce]

BugSign ==
  /\ ToDo /\ Record.hash = 0 /\ ~Record.entity /\ Stored(Here) = {}
  /\ signed' = signed + 1
  /\ memory' = [memory EXCEPT ![Here] = NewRecord]
  /\ worker' = [worker EXCEPT !.pc = "broadcast"]
  /\ UNCHANGED <<accepted, journal, nodeVars, faults>>

\* The transaction is saved before anybody sees it.
Sign ==
  /\ ToDo /\ Record.hash = 0 /\ ~Record.entity /\ Stored(Here) = {}
  /\ signed' = signed + 1
  /\ Save(NewRecord)
  /\ worker' = [worker EXCEPT !.pc = "broadcast"]
  /\ UNCHANGED <<accepted, nodeVars, faults>>

\* The node may get the transaction although the call fails.
Broadcast ==
  /\ worker.pc = "broadcast"
  /\ waiting' \in MempoolsAfter(Tx(Here, Record))
  /\ \/ worker' = [worker EXCEPT !.pc = "receipt"] /\ UNCHANGED faults
     \/ worker' = NextPool /\ Fault
  /\ UNCHANGED <<accepted, journal, memory, signed, nonce, outcome>>

\* A receipt with the entity; the SDK waits for it the first time, confirm later.
Confirmed ==
  /\ worker.pc \in {"receipt", "confirm"}
  /\ Record.hash \in DOMAIN outcome /\ outcome[Record.hash].stored
  /\ Save([Record EXCEPT !.entity = TRUE])
  /\ worker' = [worker EXCEPT !.pc = "readback"]
  /\ UNCHANGED <<accepted, signed, nodeVars, faults>>

BugForget == UNCHANGED <<memory, journal>>

Forget == Save(NoRecord)

\* A reverted transaction is forgotten, but only by confirm.
Reverted ==
  /\ worker.pc \in {"receipt", "confirm"}
  /\ Record.hash \in DOMAIN outcome /\ ~outcome[Record.hash].stored
  /\ IF worker.pc = "confirm" THEN Forget ELSE UNCHANGED <<memory, journal>>
  /\ worker' = NextPool
  /\ UNCHANGED <<accepted, signed, nodeVars, faults>>

TimesOut ==
  /\ worker.pc \in {"receipt", "confirm"}
  /\ Record.hash \notin DOMAIN outcome
  /\ worker' = NextPool
  /\ UNCHANGED <<accepted, journal, memory, signed, nodeVars, faults>>

ReadBack ==
  /\ worker.pc = "readback"
  /\ Save([Record EXCEPT !.verified = TRUE])
  /\ worker' = NextBallot
  /\ UNCHANGED <<accepted, signed, nodeVars, faults>>

WorkerSteps ==
  \/ ReadPool \/ Skip \/ ReadBackAgain \/ Resume \/ AdoptStored \/ Sign \/ Broadcast
  \/ Confirmed \/ Reverted \/ TimesOut \/ ReadBack

Crash ==
  /\ worker.pc # "down"
  /\ Fault
  /\ worker' = [pc |-> "down", pool |-> 1, rows |-> NoRows, at |-> 1]
  /\ UNCHANGED <<accepted, journal, memory, signed, nodeVars>>

\* An operator inspects the lock and starts the worker again, with its state
\* file or, once nothing of it is waiting, with an empty one.
Restart ==
  /\ worker.pc = "down"
  /\ worker' = [worker EXCEPT !.pc = "pool"]
  /\ \/ memory' = journal
     \/ waiting = {} /\ memory' = [b \in Ballots |-> NoRecord]
  /\ journal' = memory'
  /\ UNCHANGED <<accepted, signed, nodeVars, faults>>

SyncNext ==
  \/ \E p \in PoolAt, s \in 1 .. Places : Accept(p, s)
  \/ WorkerSteps \/ Throws \/ Crash \/ Restart
  \/ \E tx \in waiting : Mine(tx) \/ Drop(tx)

SyncSpec == SyncInit /\ [][SyncNext]_syncVars

\* The worker runs, an operator restarts it, and Arkiv mines what it has.
SyncFairness ==
  /\ WF_syncVars(WorkerSteps)
  /\ WF_syncVars(Restart)
  /\ WF_syncVars(\E tx \in waiting : Mine(tx))

-----------------------------------------------------------------------------

\* Storage is paid for once: whatever is lost, dropped, reverted, repeated or
\* restarted, no ballot gets a second entity ("Re-broadcasting the same signed
\* transaction cannot create a second entity", ballot-storage.ts:26).
StoredOnce == \A b \in Ballots : Cardinality(Stored(b)) <= 1

\* "Saved transactions will resume on retry" (sync-ballots.ts:32): the saved
\* transaction of a ballot was mined, or can still be.
Overtaken(b) ==
  LET r == journal[b]
  IN  r.hash # 0 /\ ~r.verified /\ r.hash \notin DOMAIN outcome /\ r.nonce < nonce

SavedCanResume == \A b \in Ballots : accepted[b.pool][b.place] = b.revision => ~Overtaken(b)

\* Every ballot that stays its voter's last one is stored and verified in the
\* end, after any finite number of faults, unless a saved transaction of its
\* pool lost its nonce: then confirm throws at that ballot for ever and the
\* ballots behind it wait with it (ballot-storage.ts:74).
BallotsGetStored ==
  \A b \in Ballots :
    (accepted[b.pool][b.place] = b.revision) ~>
      \/ accepted[b.pool][b.place] > b.revision
      \/ journal[b].verified
      \/ \E c \in Ballots : c.pool = b.pool /\ Overtaken(c)
=============================================================================
