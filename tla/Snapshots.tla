------------------------------- MODULE Snapshots -------------------------------
(***************************************************************************)
(* The round snapshots every page of the web client shows: the cache of    *)
(* web/api/services/snapshot.ts, which joins callers to a read that is     *)
(* already running, and the polling of web/app/hooks/use-snapshot.ts by a  *)
(* client that waits to see its own transaction.                           *)
(*                                                                         *)
(* A snapshot is the block it was read at.  External: the chain, whose     *)
(* block number the RPC client remembers for a while, calls that fail, and *)
(* the clock, by which any snapshot may get too old at any time.           *)
(* Operators named Bug... are mistakes, not code: see PBEAR.               *)
(***************************************************************************)
EXTENDS Integers, Sequences, FiniteSets, SequencesExt

CONSTANTS
  Clients,       \* users
  Senders,       \* those who send transactions
  PoolOf,        \* the pool a user looks at
  MaxEntries,    \* MAX_ENTRIES
  MaxBlock,      \* bound on the chain's length
  MaxFailures    \* bound on reads that fail

ASSUME SnapshotAssumption ==
  Senders \subseteq Clients /\ MaxEntries \in Nat \ {0} /\ MaxBlock \in Nat /\ MaxFailures \in Nat

VARIABLES
  head,       \* the chain's last block
  known,      \* the block number the RPC client last asked for
  entries,    \* the cache: of every pool the block of its snapshot, if it
              \* is fresh, and the read that is pending
  stored,     \* pools with a snapshot, the oldest first
  reads,      \* reads that run
  client,     \* where every user's request is, and what the user sees
  failures

apiVars == <<head, known, entries, stored, reads, client, failures>>

CachedPools == {PoolOf[c] : c \in Clients}
NoEntry     == [block |-> 0, fresh |-> FALSE, pending |-> 0]

\* after: the block of the user's last transaction; want: the one asked for.
ApiInit ==
  /\ head = 1 /\ known = 1
  /\ entries = [p \in CachedPools |-> NoEntry] /\ stored = << >> /\ reads = {}
  /\ client = [c \in Clients |-> [pc |-> "idle", after |-> 0, want |-> 0, read |-> 0,
                                  value |-> 0, shown |-> 0]]
  /\ failures = 0

\* A block is mined, perhaps with a transaction of one of the users (markMined).
NewBlock(mine) ==
  /\ head < MaxBlock
  /\ head' = head + 1
  /\ client' = [c \in Clients |->
                  IF c \in mine THEN [client[c] EXCEPT !.after = head'] ELSE client[c]]
  /\ UNCHANGED <<known, entries, stored, reads, failures>>

AskBlockNumber ==
  /\ known < head
  /\ known' = head
  /\ UNCHANGED <<head, entries, stored, reads, client, failures>>

GetTooOld(p) ==
  /\ entries[p].fresh
  /\ entries' = [entries EXCEPT ![p].fresh = FALSE]
  /\ UNCHANGED <<head, known, stored, reads, client, failures>>

-----------------------------------------------------------------------------
(* get.                                                                    *)

NewRead == CHOOSE i \in 1 .. Cardinality(reads) + 1 : \A r \in reads : r.id # i

\* A pending read is joined, whatever block it is of; a new one begins with the
\* block number (readRound).
JoinOrStart(c, asked) ==
  LET p == PoolOf[c]
  IN  IF entries[p].pending # 0
      THEN /\ client' = [client EXCEPT ![c] = [asked EXCEPT !.read = entries[p].pending]]
           /\ UNCHANGED <<entries, reads>>
      ELSE /\ client' = [client EXCEPT ![c] = [asked EXCEPT !.read = NewRead]]
           /\ reads' = reads \cup {[id |-> NewRead, pool |-> p, block |-> known, before |-> entries[p]]}
           /\ entries' = [entries EXCEPT ![p].pending = NewRead]

\* The answer of a request the user no longer waits for goes to another query.
Shows(c, block) ==
  IF client[c].want = client[c].after
  THEN [client[c] EXCEPT !.pc = "idle", !.value = 0, !.read = 0, !.shown = block]
  ELSE [client[c] EXCEPT !.pc = "idle", !.value = 0, !.read = 0]

Request(c) ==
  /\ client[c].pc = "idle"
  /\ LET e     == entries[PoolOf[c]]
         asked == [client[c] EXCEPT !.pc = "first", !.want = client[c].after]
     IN  IF e.block # 0 /\ e.fresh /\ e.block >= client[c].after
         THEN /\ client' = [client EXCEPT ![c].shown = e.block]
              /\ UNCHANGED <<entries, reads>>
         ELSE JoinOrStart(c, asked)
  /\ UNCHANGED <<head, known, stored, failures>>

\* At most two reads a request; the client polls again when that is too few.
Answer(c) ==
  /\ client[c].value # 0
  /\ IF client[c].pc = "first" /\ client[c].value < client[c].want
     THEN JoinOrStart(c, [client[c] EXCEPT !.pc = "second", !.value = 0])
     ELSE /\ client' = [client EXCEPT ![c] = Shows(c, client[c].value)]
          /\ UNCHANGED <<entries, reads>>
  /\ UNCHANGED <<head, known, stored, failures>>

-----------------------------------------------------------------------------
(* start.                                                                  *)

BugEvictable(e) == TRUE

\* An entry with a pending read is never evicted.
Evictable(e) == e.pending = 0

\* A snapshot that is put again goes to the end of the map's order.
KeptWith(p) == Append(RemoveFirst(stored, p), p)

Oldest(kept, put) == SelectInSeq(kept, LAMBDA p : Evictable(put[p]))

\* entries.set, then evictIfFull: the oldest snapshot goes.
Put(r) ==
  LET put   == [entries EXCEPT ![r.pool] = [block |-> r.block, fresh |-> TRUE, pending |-> 0]]
      kept  == KeptWith(r.pool)
      full  == Cardinality({p \in CachedPools : put[p] # NoEntry}) > MaxEntries
      old   == Oldest(kept, put)
  IN  IF full
      THEN entries' = [put EXCEPT ![kept[old]] = NoEntry] /\ stored' = RemoveAt(kept, old)
      ELSE entries' = put /\ stored' = kept

Got(c, block) == [client[c] EXCEPT !.value = block, !.read = 0]

FinishRead(r) ==
  /\ reads' = reads \ {r}
  /\ Put(r)
  /\ client' = [c \in Clients |->
                  IF client[c].read = r.id /\ client[c].value = 0
                  THEN Got(c, r.block) ELSE client[c]]
  /\ UNCHANGED <<head, known, failures>>

BugAfterFailure(r) == entries[r.pool]

\* The rejected promise must not stay in the map.
AfterFailure(r) == [r.before EXCEPT !.fresh = entries[r.pool].fresh]

GivesUp(c) == [client[c] EXCEPT !.pc = "idle", !.read = 0]

FailRead(r) ==
  /\ failures < MaxFailures
  /\ failures' = failures + 1
  /\ reads' = reads \ {r}
  /\ entries' = [entries EXCEPT ![r.pool] = AfterFailure(r)]
  /\ client' = [c \in Clients |->
                  IF client[c].read = r.id THEN GivesUp(c) ELSE client[c]]
  /\ UNCHANGED <<head, known, stored>>

ReadSteps(p)   == \E r \in reads : r.pool = p /\ FinishRead(r)
ClientSteps(c) == Request(c) \/ Answer(c)

ApiNext ==
  \/ \E mine \in SUBSET Senders : NewBlock(mine)
  \/ AskBlockNumber
  \/ \E p \in CachedPools : GetTooOld(p)
  \/ \E c \in Clients : ClientSteps(c)
  \/ \E p \in CachedPools : ReadSteps(p)
  \/ \E r \in reads : FailRead(r)

ApiSpec == ApiInit /\ [][ApiNext]_apiVars

\* Reads end, clients poll, and a block number is not remembered for ever.
ApiFairness ==
  /\ \A p \in CachedPools : WF_apiVars(ReadSteps(p))
  /\ WF_apiVars(AskBlockNumber)
  /\ \A c \in Clients : WF_apiVars(ClientSteps(c))

-----------------------------------------------------------------------------

\* Whatever is evicted, a pool has one read running, which all callers join
\* ("start a duplicate read instead of joining the one already running",
\* snapshot.ts:54-56), and the cache knows it.
OneRead ==
  \A r \in reads : entries[r.pool].pending = r.id /\ \A s \in reads : s.pool = r.pool => s = r

\* "poll faster until it catches up" (use-snapshot.ts:9): a user comes to see a
\* block no older than the user's last transaction, although requests join
\* reads begun before it, reads fail and others fill the cache.
CatchesUp ==
  \A c \in Senders : \A b \in 1 .. MaxBlock : (client[c].after >= b) ~> (client[c].shown >= b)
=============================================================================
