---------------------------- MODULE ActorsProofs ----------------------------
(***************************************************************************)
(* The actors around a pool, for any number of clients, ballots, voters    *)
(* and prover runs: the cache of chain reads, the worker that stores       *)
(* ballots, and the Noir pool with everyone who sends it proofs.           *)
(*                                                                         *)
(* None of the four properties is inductive.  That callers who ask         *)
(* together get one read needs that the promise the cache hands out is     *)
(* that of a read under way (CacheInv).  That no ballot is stored twice    *)
(* needs which transactions of the account can still be mined: those under *)
(* a nonce not used yet, of which the saved one is the only one the worker *)
(* would wait for (StorageInv).  The chain of proofs needs that every      *)
(* checkpoint is a prefix of one walk along a roster that no longer        *)
(* changes, and what any sequence of proofs, from any sender, can make of  *)
(* the committed state (ProverInv).                                        *)
(***************************************************************************)
EXTENDS BallotStorage, Snapshots, Prover, PrefixSumProofs, SequenceTheorems, FiniteSetTheorems

-----------------------------------------------------------------------------
(* Snapshots: the cache.                                                   *)

CacheEntry == [block : Nat, fresh : BOOLEAN, pending : Nat]
PoolRead   == [id : Nat \ {0}, pool : CachedPools, block : Nat, before : CacheEntry]

Caller     == [pc : {"idle", "first", "second"}, after : Nat, want : Nat,
               read : Nat, value : Nat, shown : Nat]

CacheTypes ==
  /\ head \in Nat \ {0} /\ known \in Nat \ {0}
  /\ entries \in [CachedPools -> CacheEntry]
  /\ stored \in Seq(CachedPools)
  /\ reads \subseteq PoolRead /\ IsFiniteSet(reads)
  /\ client \in [Clients -> Caller]

\* The cache knows every read that runs, and what to put back when it fails
\* promises no read.
ReadsAreKnown ==
  \A r \in reads : entries[r.pool].pending = r.id /\ r.before.pending = 0

\* What is pending runs: no caller joins a promise that was settled.
PendingRuns ==
  \A p \in CachedPools : entries[p].pending # 0 => \E r \in reads : r.pool = p

ReadsAreDistinct ==
  /\ \A r, s \in reads : r.pool = s.pool => r = s
  /\ \A r, s \in reads : r.id = s.id => r = s

\* Whoever waits has no answer yet and waits for a read of the pool asked for.
WaitingIsAnswered ==
  \A c \in Clients :
    /\ client[c].pc = "idle" => client[c].read = 0 /\ client[c].value = 0
    /\ client[c].read # 0 =>
         client[c].value = 0 /\ \E r \in reads : r.id = client[c].read /\ r.pool = PoolOf[c]



CacheInv == CacheTypes /\ ReadsAreKnown /\ PendingRuns /\ ReadsAreDistinct /\ WaitingIsAnswered

\* Among one more numbers than there are elements, one is free.
LEMMA FreeNumber ==
  ASSUME NEW S, IsFiniteSet(S), NEW f \in [S -> Int], NEW a \in Nat
  PROVE  /\ Cardinality(S) \in Nat
         /\ \E i \in a .. a + Cardinality(S) : \A x \in S : f[x] # i
<1> DEFINE n == Cardinality(S)
           D == a .. a + n
<1>1. n \in Nat
  BY FS_CardinalityType
<1>2. SUFFICES ASSUME \A i \in D : \E x \in S : f[x] = i PROVE FALSE
  BY <1>1
<1> DEFINE g == [i \in D |-> CHOOSE x \in S : f[x] = i]
<1>3. \A i \in D : g[i] \in S /\ f[g[i]] = i
  BY <1>2
<1>4. IsFiniteSet(D) /\ Cardinality(D) = n + 1
  <2>1. a \in Int /\ a + n \in Int /\ ~(a > a + n) /\ (a + n) - a + 1 = n + 1
    BY <1>1
  <2> HIDE DEF n
  <2> QED BY <2>1, FS_Interval
<1>5. g \in [D -> S] /\ Cardinality(S) < Cardinality(D)
  BY <1>1, <1>3, <1>4
<1> HIDE DEF g, D
<1>6. \E x, y \in D : x # y /\ g[x] = g[y]
  BY <1>4, <1>5, FS_PigeonHole
<1> QED BY <1>3, <1>6

\* There is a number that no read has.
LEMMA NewReadIsNew ==
  ASSUME CacheTypes
  PROVE  NewRead \in Nat \ {0} /\ \A r \in reads : r.id # NewRead
<1> DEFINE n == Cardinality(reads)
           f == [r \in reads |-> r.id]
<1>1. IsFiniteSet(reads) /\ f \in [reads -> Int] /\ \A r \in reads : f[r] = r.id
  BY DEF CacheTypes, PoolRead
<1> HIDE DEF f
<1>2. n \in Nat /\ \E i \in 1 .. 1 + n : \A r \in reads : f[r] # i
  BY <1>1, FreeNumber
<1>3. \E i \in 1 .. n + 1 : \A r \in reads : r.id # i
  BY <1>1, <1>2
<1>4. NewRead \in 1 .. n + 1 /\ \A r \in reads : r.id # NewRead
  BY <1>3 DEF NewRead
<1> QED BY <1>2, <1>4

\* What RemoveAt leaves is a sequence of the same elements.
LEMMA RemoveAtKeeps ==
  ASSUME NEW S, NEW s \in Seq(S), NEW i \in 1 .. Len(s)
  PROVE  RemoveAt(s, i) \in Seq(S)
<1>1. SubSeq(s, 1, i - 1) \in Seq(S)
  BY SubSeqProperties, ElementOfSeq, LenProperties
<1>2. SubSeq(s, i + 1, Len(s)) \in Seq(S)
  BY SubSeqProperties, ElementOfSeq, LenProperties
<1> QED BY <1>1, <1>2, ConcatProperties DEF RemoveAt

LEMMA LeastOf ==
  ASSUME NEW I \in SUBSET Nat, I # {}
  PROVE  Min(I) \in I
BY LeastElement DEF Min

LEMMA RemoveFirstKeeps ==
  ASSUME NEW S, NEW s \in Seq(S), NEW e
  PROVE  RemoveFirst(s, e) \in Seq(S)
<1> DEFINE I == {i \in 1 .. Len(s) : s[i] = e}
<1>1. CASE I = {}
  BY <1>1 DEF RemoveFirst
<1>2. CASE I # {}
  <2>1. Len(s) \in Nat
    BY LenProperties
  <2>2. I \in SUBSET Nat
    BY <2>1
  <2>3. Min(I) \in I
    BY <1>2, <2>2, LeastOf
  <2>4. RemoveFirst(s, e) = RemoveAt(s, Min(I))
    BY <1>2 DEF RemoveFirst, SelectInSeq
  <2> QED BY <2>3, <2>4, RemoveAtKeeps
<1> QED BY <1>1, <1>2

\* The entry that goes when the cache is full exists and has no pending read:
\* the snapshot just put has none.
LEMMA OldestEvictable ==
  ASSUME NEW S, stored \in Seq(S), NEW q \in S, NEW put, Evictable(put[q])
  PROVE  /\ KeptWith(q) \in Seq(S)
         /\ Oldest(KeptWith(q), put) \in 1 .. Len(KeptWith(q))
         /\ put[KeptWith(q)[Oldest(KeptWith(q), put)]].pending = 0
<1> DEFINE kept == KeptWith(q)
           I    == {i \in 1 .. Len(kept) : Evictable(put[kept[i]])}
<1>1. /\ kept \in Seq(S) /\ Len(kept) \in Nat /\ Len(kept) \in 1 .. Len(kept) /\ kept[Len(kept)] = q
  BY RemoveFirstKeeps, AppendProperties, LenProperties DEF KeptWith
<1> HIDE DEF kept
<1>3. I # {} /\ I \in SUBSET Nat
  BY <1>1
<1>4. Oldest(kept, put) = Min(I)
  BY <1>3 DEF Oldest, SelectInSeq
<1>5. Oldest(kept, put) \in I
  <2> HIDE DEF I
  <2> QED BY <1>3, <1>4, LeastOf
<1>6. Oldest(kept, put) \in 1 .. Len(kept) /\ put[kept[Oldest(kept, put)]].pending = 0
  BY <1>5 DEF Evictable
<1> QED BY <1>1, <1>6 DEF kept

LEMMA CacheInit == SnapshotAssumption /\ ApiInit => CacheInv
<1> SUFFICES ASSUME ApiInit PROVE CacheInv
  OBVIOUS
<1>1. CacheTypes
  BY FS_EmptySet, EmptySeq DEF ApiInit, CacheTypes, CacheEntry, NoEntry, Caller
<1> QED BY <1>1 DEF ApiInit, CacheInv, ReadsAreKnown, PendingRuns, ReadsAreDistinct, WaitingIsAnswered, NoEntry

\* Joining or starting a read, for a caller who waits for none.
LEMMA JoinOrStartKeeps ==
  ASSUME CacheInv, NEW c \in Clients, NEW asked,
         asked \in Caller,
         asked.value = 0, asked.pc # "idle", JoinOrStart(c, asked), UNCHANGED <<head, known, stored>>
  PROVE  CacheInv'
<1> DEFINE p == PoolOf[c]
<1>0. p \in CachedPools /\ entries[p] \in CacheEntry
  BY DEF CachedPools, CacheInv, CacheTypes
<1>1. CASE entries[p].pending # 0
  <2>1. /\ client' = [client EXCEPT ![c] = [asked EXCEPT !.read = entries[p].pending]]
        /\ entries' = entries /\ reads' = reads
    BY <1>1 DEF JoinOrStart
  <2>2. CacheTypes'
    BY <1>0, <2>1 DEF CacheInv, CacheTypes, CacheEntry, Caller
  <2>3. PICK r \in reads : r.pool = p /\ entries[p].pending = r.id
    BY <1>0, <1>1 DEF CacheInv, PendingRuns, ReadsAreKnown
  <2>4. WaitingIsAnswered'
    BY <2>1, <2>3 DEF CacheInv, WaitingIsAnswered, CacheTypes
  <2> QED BY <2>1, <2>2, <2>4 DEF CacheInv, ReadsAreKnown, PendingRuns, ReadsAreDistinct
<1>2. CASE entries[p].pending = 0
  <2> DEFINE n == NewRead
             r == [id |-> n, pool |-> p, block |-> known, before |-> entries[p]]
  <2>1. /\ client' = [client EXCEPT ![c] = [asked EXCEPT !.read = n]]
        /\ reads' = reads \cup {r}
        /\ entries' = [entries EXCEPT ![p].pending = n]
    BY <1>2 DEF JoinOrStart
  <2>2. n \in Nat \ {0} /\ \A s \in reads : s.id # n
    BY NewReadIsNew DEF CacheInv
  <2> HIDE DEF n
  <2>3. r \in PoolRead /\ r.id = n /\ r.pool = p /\ r.before = entries[p]
    BY <1>0, <2>2 DEF PoolRead, CacheInv, CacheTypes
  <2> HIDE DEF r
  <2>4. \A s \in reads : s.pool # p
    BY <1>2 DEF CacheInv, ReadsAreKnown, CacheTypes, PoolRead
  <2>5. entries' \in [CachedPools -> CacheEntry]
        /\ \A x \in CachedPools : entries'[x].pending = IF x = p THEN n ELSE entries[x].pending
    BY <1>0, <2>1, <2>2 DEF CacheInv, CacheTypes, CacheEntry
  <2>6. CacheTypes'
    <3>1. [asked EXCEPT !.read = n] \in Caller
      BY <2>2 DEF Caller
    <3>2. client' \in [Clients -> Caller]
      BY <2>1, <3>1 DEF CacheInv, CacheTypes
    <3>3. stored \in Seq(CachedPools) /\ reads \subseteq PoolRead /\ IsFiniteSet(reads)
          /\ head \in Nat \ {0} /\ known \in Nat \ {0}
      BY DEF CacheInv, CacheTypes
    <3>4. reads' \subseteq PoolRead /\ IsFiniteSet(reads')
      BY <2>1, <2>3, <3>3, FS_AddElement
    <3> QED BY <2>5, <3>2, <3>3, <3>4 DEF CacheTypes
  <2>7. ReadsAreKnown'
    BY <1>0, <1>2, <2>1, <2>3, <2>4, <2>5 DEF CacheInv, ReadsAreKnown, CacheTypes, PoolRead
  <2>8. PendingRuns'
    BY <2>1, <2>3, <2>5 DEF CacheInv, PendingRuns
  <2>9. ReadsAreDistinct'
    BY <2>1, <2>2, <2>3, <2>4 DEF CacheInv, ReadsAreDistinct
  <2>10. WaitingIsAnswered'
    BY <2>1, <2>3 DEF CacheInv, WaitingIsAnswered, CacheTypes
  <2> HIDE DEF p
  <2> QED BY <2>6, <2>7, <2>8, <2>9, <2>10 DEF CacheInv
<1> QED BY <1>1, <1>2

LEMMA FinishReadKeeps ==
  ASSUME CacheInv, SnapshotAssumption, NEW r \in reads, FinishRead(r)
  PROVE  CacheInv'
<1> DEFINE q    == r.pool
           put  == [entries EXCEPT ![q] = [block |-> r.block, fresh |-> TRUE, pending |-> 0]]
           kept == KeptWith(q)
           old  == Oldest(kept, put)
<1>1. /\ r \in PoolRead /\ q \in CachedPools /\ r.block \in Nat
      /\ put \in [CachedPools -> CacheEntry]
      /\ \A p \in CachedPools : put[p] = IF p = q THEN [block |-> r.block, fresh |-> TRUE, pending |-> 0]
                                         ELSE entries[p]
  BY DEF CacheInv, CacheTypes, PoolRead, CacheEntry
<1>2. kept \in Seq(CachedPools) /\ old \in 1 .. Len(kept) /\ put[kept[old]].pending = 0
  <2> Evictable(put[q]) /\ stored \in Seq(CachedPools)
    BY <1>1 DEF Evictable, CacheInv, CacheTypes
  <2> HIDE DEF put, q
  <2> QED BY <1>1, OldestEvictable
<1>3. kept[old] \in CachedPools /\ RemoveAt(kept, old) \in Seq(CachedPools)
  <2> HIDE DEF kept, old
  <2> QED BY <1>2, ElementOfSeq, RemoveAtKeeps
<1>4. \/ entries' = [put EXCEPT ![kept[old]] = NoEntry] /\ stored' = RemoveAt(kept, old)
      \/ entries' = put /\ stored' = kept
  BY DEF FinishRead, Put
<1> HIDE DEF put, kept, old
<1>5. /\ entries' \in [CachedPools -> CacheEntry]
      /\ \A p \in CachedPools : entries'[p].pending = IF p = q THEN 0 ELSE entries[p].pending
      /\ stored' \in Seq(CachedPools)
  <2>1. NoEntry \in CacheEntry /\ NoEntry.pending = 0
    BY DEF NoEntry, CacheEntry
  <2>2. CASE entries' = put /\ stored' = kept
    BY <1>1, <1>2, <2>2
  <2>3. CASE entries' = [put EXCEPT ![kept[old]] = NoEntry] /\ stored' = RemoveAt(kept, old)
    BY <1>1, <1>2, <1>3, <2>1, <2>3
  <2> QED BY <1>4, <2>2, <2>3
<1>6. /\ reads' = reads \ {r} /\ head' = head /\ known' = known
      /\ client' = [c \in Clients |->
                     IF client[c].read = r.id /\ client[c].value = 0
                     THEN Got(c, r.block) ELSE client[c]]
  BY DEF FinishRead
<1>13. \A c \in Clients : /\ Got(c, r.block) \in Caller
                         /\ Got(c, r.block).read = 0 /\ Got(c, r.block).pc = client[c].pc
  <2> TAKE c \in Clients
  <2>1. client[c] \in Caller
    BY DEF CacheInv, CacheTypes
  <2> QED BY <1>1, <2>1 DEF Got, Caller
<1>7. CacheTypes'
  BY <1>1, <1>5, <1>6, <1>13, FS_RemoveElement DEF CacheInv, CacheTypes
<1>8. \A s \in reads' : s \in reads /\ s \in PoolRead /\ s.pool \in CachedPools /\ s.pool # q /\ s.id # r.id
  BY <1>6 DEF CacheInv, CacheTypes, ReadsAreDistinct, PoolRead
<1>9. ReadsAreKnown'
  BY <1>5, <1>8 DEF CacheInv, ReadsAreKnown
<1>10. PendingRuns'
  BY <1>5, <1>6 DEF CacheInv, PendingRuns
<1>11. ReadsAreDistinct'
  BY <1>8 DEF CacheInv, ReadsAreDistinct
<1>12. WaitingIsAnswered'
  BY <1>1, <1>6, <1>13 DEF CacheInv, WaitingIsAnswered, CacheTypes, PoolRead
<1> QED BY <1>7, <1>9, <1>10, <1>11, <1>12 DEF CacheInv

LEMMA FailReadKeeps ==
  ASSUME CacheInv, NEW r \in reads, FailRead(r)
  PROVE  CacheInv'
<1> DEFINE q == r.pool
<1>1. /\ r \in PoolRead /\ q \in CachedPools /\ r.before \in CacheEntry /\ r.before.pending = 0
  BY DEF CacheInv, CacheTypes, PoolRead, ReadsAreKnown
<1>2. /\ reads' = reads \ {r} /\ UNCHANGED <<head, known, stored>>
      /\ entries' = [entries EXCEPT ![q] = AfterFailure(r)]
      /\ client' = [c \in Clients |->
                     IF client[c].read = r.id THEN GivesUp(c) ELSE client[c]]
  BY DEF FailRead
<1>3. AfterFailure(r) \in CacheEntry /\ AfterFailure(r).pending = 0
  BY <1>1 DEF AfterFailure, CacheEntry, CacheInv, CacheTypes
<1>5. /\ entries' \in [CachedPools -> CacheEntry]
      /\ \A p \in CachedPools : entries'[p].pending = IF p = q THEN 0 ELSE entries[p].pending
  BY <1>1, <1>2, <1>3 DEF CacheInv, CacheTypes
<1>6. \A c \in Clients : /\ GivesUp(c) \in Caller
                         /\ GivesUp(c).read = 0 /\ GivesUp(c).value = client[c].value
  BY DEF GivesUp, CacheInv, CacheTypes, Caller
<1>7. CacheTypes'
  BY <1>1, <1>2, <1>5, <1>6, FS_RemoveElement DEF CacheInv, CacheTypes
<1>8. \A s \in reads' : s \in reads /\ s \in PoolRead /\ s.pool \in CachedPools /\ s.pool # q /\ s.id # r.id
  BY <1>2 DEF CacheInv, CacheTypes, ReadsAreDistinct, PoolRead
<1>9. ReadsAreKnown'
  BY <1>5, <1>8 DEF CacheInv, ReadsAreKnown
<1>10. PendingRuns'
  BY <1>2, <1>5 DEF CacheInv, PendingRuns
<1>11. ReadsAreDistinct'
  BY <1>8 DEF CacheInv, ReadsAreDistinct
<1>12. WaitingIsAnswered'
  BY <1>1, <1>2, <1>6 DEF CacheInv, WaitingIsAnswered, CacheTypes, PoolRead
<1> QED BY <1>7, <1>9, <1>10, <1>11, <1>12 DEF CacheInv

\* The steps that leave the reads and what is pending alone.
LEMMA QuietStepKeeps ==
  ASSUME CacheInv, CacheTypes', reads' = reads,
         \A p \in CachedPools : entries'[p].pending = entries[p].pending,
         \A c \in Clients : \/ client'[c].read = 0 /\ client'[c].value = 0
                            \/ /\ client'[c].read = client[c].read /\ client'[c].value = client[c].value
                               /\ client'[c].pc = client[c].pc
  PROVE  CacheInv'
<1>1. \A r \in reads : r.pool \in CachedPools
  BY DEF CacheInv, CacheTypes, PoolRead
<1> QED BY <1>1 DEF CacheInv, ReadsAreKnown, PendingRuns, ReadsAreDistinct, WaitingIsAnswered

LEMMA CacheStep == SnapshotAssumption /\ CacheInv /\ [ApiNext]_apiVars => CacheInv'
<1> SUFFICES ASSUME SnapshotAssumption, CacheInv, [ApiNext]_apiVars PROVE CacheInv'
  OBVIOUS
<1>1. ASSUME NEW mine \in SUBSET Senders, NewBlock(mine) PROVE CacheInv'
  <2>1. /\ head' \in Nat \ {0} /\ UNCHANGED <<known, entries, stored, reads>>
        /\ client' = [c \in Clients |->
                       IF c \in mine THEN [client[c] EXCEPT !.after = head'] ELSE client[c]]
    BY <1>1 DEF NewBlock, CacheInv, CacheTypes
  <2>2. \A c \in Clients : /\ client'[c] \in Caller
                           /\ client'[c].read = client[c].read /\ client'[c].value = client[c].value
                           /\ client'[c].pc = client[c].pc
    <3> TAKE c \in Clients
    <3>1. client[c] \in Caller
      BY DEF CacheInv, CacheTypes
    <3>2. client'[c] = client[c] \/ client'[c] = [client[c] EXCEPT !.after = head']
      BY <2>1
    <3> QED BY <2>1, <3>1, <3>2 DEF Caller
  <2>3. client' \in [Clients -> Caller]
    BY <2>1, <2>2
  <2>4. CacheTypes'
    BY <2>1, <2>3 DEF CacheInv, CacheTypes
  <2> QED BY <2>1, <2>2, <2>4, QuietStepKeeps
<1>2. CASE AskBlockNumber
  <2>1. CacheTypes'
    BY <1>2 DEF AskBlockNumber, CacheInv, CacheTypes
  <2> QED BY <1>2, <2>1, QuietStepKeeps DEF AskBlockNumber
<1>3. ASSUME NEW p \in CachedPools, GetTooOld(p) PROVE CacheInv'
  <2>1. entries' = [entries EXCEPT ![p].fresh = FALSE] /\ UNCHANGED <<head, known, stored, reads, client>>
    BY <1>3 DEF GetTooOld
  <2>2. /\ entries' \in [CachedPools -> CacheEntry]
        /\ \A q \in CachedPools : entries'[q].pending = entries[q].pending
    BY <2>1 DEF CacheInv, CacheTypes, CacheEntry
  <2>3. CacheTypes'
    BY <2>1, <2>2 DEF CacheInv, CacheTypes
  <2> QED BY <2>1, <2>2, <2>3, QuietStepKeeps
<1>4. ASSUME NEW c \in Clients, Request(c) PROVE CacheInv'
  <2> DEFINE e     == entries[PoolOf[c]]
             asked == [client[c] EXCEPT !.pc = "first", !.want = client[c].after]
  <2>0. PoolOf[c] \in CachedPools /\ e \in CacheEntry
    BY DEF CachedPools, CacheInv, CacheTypes
  <2>1. CASE e.block # 0 /\ e.fresh /\ e.block >= client[c].after
    <3>0. /\ client' = [client EXCEPT ![c].shown = e.block]
          /\ UNCHANGED <<head, known, stored, entries, reads>>
      BY <1>4, <2>1 DEF Request
    <3>1. /\ client' \in [Clients -> Caller]
          /\ \A d \in Clients : /\ client'[d].read = client[d].read /\ client'[d].value = client[d].value
                                /\ client'[d].pc = client[d].pc
      <4>1. client[c] \in Caller /\ client \in [Clients -> Caller] /\ e.block \in Nat
        BY <2>0 DEF CacheInv, CacheTypes, CacheEntry
      <4> HIDE DEF e
      <4> DEFINE s == [client[c] EXCEPT !.shown = e.block]
      <4>3. s \in Caller /\ s.read = client[c].read /\ s.value = client[c].value /\ s.pc = client[c].pc
        BY <4>1 DEF Caller
      <4>4. client' = [client EXCEPT ![c] = s]
        BY <3>0
      <4> HIDE DEF s
      <4> QED BY <4>1, <4>3, <4>4
    <3>2. CacheTypes'
      BY <3>0, <3>1 DEF CacheInv, CacheTypes
    <3> QED BY <3>0, <3>1, <3>2, QuietStepKeeps
  <2>2. CASE ~(e.block # 0 /\ e.fresh /\ e.block >= client[c].after)
    <3>1. JoinOrStart(c, asked) /\ UNCHANGED <<head, known, stored>>
      BY <1>4, <2>2 DEF Request
    <3>2. asked \in Caller /\ asked.value = 0 /\ asked.pc # "idle"
      <4>1. client[c].value = 0 /\ client[c] \in Caller
        BY <1>4 DEF CacheInv, CacheTypes, WaitingIsAnswered, Request
      <4> QED BY <4>1 DEF Caller
    <3> HIDE DEF asked
    <3> QED BY <3>1, <3>2, JoinOrStartKeeps
  <2> QED BY <2>1, <2>2
<1>5. ASSUME NEW c \in Clients, Answer(c) PROVE CacheInv'
  <2>1. CASE client[c].pc = "first" /\ client[c].value < client[c].want
    <3> DEFINE asked == [client[c] EXCEPT !.pc = "second", !.value = 0]
    <3>1. JoinOrStart(c, asked) /\ UNCHANGED <<head, known, stored>>
      BY <1>5, <2>1 DEF Answer
    <3>2. asked \in Caller /\ asked.value = 0 /\ asked.pc # "idle"
      BY DEF CacheInv, CacheTypes, Caller
    <3> HIDE DEF asked
    <3> QED BY <3>1, <3>2, JoinOrStartKeeps
  <2>2. CASE ~(client[c].pc = "first" /\ client[c].value < client[c].want)
    <3>1. client' = [client EXCEPT ![c] = Shows(c, client[c].value)] /\ UNCHANGED <<head, known, stored, entries, reads>>
      BY <1>5, <2>2 DEF Answer
    <3>2. /\ Shows(c, client[c].value) \in Caller
          /\ Shows(c, client[c].value).read = 0 /\ Shows(c, client[c].value).value = 0
      BY DEF Shows, CacheInv, CacheTypes, Caller
    <3>3. CacheTypes'
      BY <3>1, <3>2 DEF CacheInv, CacheTypes
    <3>4. \A d \in Clients : (client'[d].read = 0 /\ client'[d].value = 0) \/ client'[d] = client[d]
      BY <3>1, <3>2 DEF CacheInv, CacheTypes
    <3> QED BY <3>1, <3>3, <3>4, QuietStepKeeps
  <2> QED BY <2>1, <2>2
<1>6. ASSUME NEW p \in CachedPools, ReadSteps(p) PROVE CacheInv'
  BY <1>6, FinishReadKeeps DEF ReadSteps
<1>7. ASSUME NEW r \in reads, FailRead(r) PROVE CacheInv'
  BY <1>7, FailReadKeeps
<1>8. CASE UNCHANGED apiVars
  BY <1>8 DEF apiVars, CacheInv, CacheTypes, ReadsAreKnown, PendingRuns, ReadsAreDistinct, WaitingIsAnswered
<1> QED BY <1>1, <1>2, <1>3, <1>4, <1>5, <1>6, <1>7, <1>8 DEF ApiNext, ClientSteps

\* The cache hands out only promises of reads that run, never two for one pool,
\* and whoever waits for one will be answered by it (snapshot-cache.ts:19).
THEOREM CacheIsInvariant == ApiSpec => []CacheInv
<1>1. ApiInit => CacheInv
  BY CacheInit, SnapshotAssumption
<1>2. CacheInv /\ [ApiNext]_apiVars => CacheInv'
  BY CacheStep, SnapshotAssumption
<1> QED BY <1>1, <1>2, PTL DEF ApiSpec

\* However many clients ask for a pool at once, and however reads end in
\* between, no two reads of one pool run at the same time.
THEOREM OneReadAlways == ApiSpec => []OneRead
<1>1. CacheInv => OneRead
  BY DEF CacheInv, ReadsAreKnown, ReadsAreDistinct, OneRead
<1> QED BY <1>1, CacheIsInvariant, PTL

-----------------------------------------------------------------------------
(* BallotStorage: what is paid for.                                        *)

SavedRecord == [hash : Nat, nonce : Nat, entity : BOOLEAN, verified : BOOLEAN]
Rows        == [1 .. Places -> 0 .. MaxAccepted]
Transaction == [hash : Nat, nonce : Nat, ballot : Ballots]
WorkerPc    == {"pool", "ballot", "broadcast", "receipt", "confirm", "readback", "down"}

StorageTypes ==
  /\ accepted \in [PoolAt -> Rows]
  /\ memory \in [Ballots -> SavedRecord] /\ journal = memory
  /\ worker \in [pc : WorkerPc, pool : PoolAt, rows : Rows, at : Nat \ {0}]
  /\ signed \in Nat /\ nonce \in Nat
  /\ IsFiniteSet(waiting) /\ waiting \subseteq Transaction
  /\ DOMAIN outcome \subseteq 1 .. signed

\* Where the worker is in the middle of a ballot it has one, and what it is
\* about to broadcast it has saved.
AtABallot ==
  /\ worker.pc \in {"broadcast", "receipt", "confirm", "readback"} => Here \in Ballots
  /\ worker.pc = "broadcast" => Record.hash # 0

\* Every saved transaction is one that was signed, for this ballot alone.
SavedWereSigned ==
  /\ \A b \in Ballots : memory[b].hash <= signed
  /\ \A b, c \in Ballots : memory[b].hash # 0 /\ memory[b].hash = memory[c].hash => b = c

\* What waits in the mempool is the saved transaction of its ballot, not mined.
WaitingIsSaved ==
  \A tx \in waiting : /\ tx.hash # 0 /\ tx.hash \notin DOMAIN outcome
                      /\ tx.hash = memory[tx.ballot].hash /\ tx.nonce = memory[tx.ballot].nonce

\* A mined transaction has used up its nonce: broadcast again, it is refused.
MinedIsRefused ==
  \A b \in Ballots : memory[b].hash \in DOMAIN outcome => memory[b].nonce < nonce

\* A ballot whose saved transaction may still be mined has no entity.
SavedIsFirst ==
  \A b \in Ballots : memory[b].hash # 0 /\ memory[b].hash \notin DOMAIN outcome => Stored(b) = {}

OneEntity == \A b \in Ballots : \A g, h \in Stored(b) : g = h

StorageInv ==
  /\ StorageTypes /\ AtABallot /\ SavedWereSigned /\ WaitingIsSaved
  /\ MinedIsRefused /\ SavedIsFirst /\ OneEntity

\* The node has a next nonce for the account.
LEMMA PendingNonceIsNat ==
  ASSUME StorageTypes
  PROVE  PendingNonce \in Nat
<1> DEFINE n       == Cardinality(waiting)
           f       == [tx \in waiting |-> tx.nonce]
           Free(i) == \A tx \in waiting : tx.nonce # i
           T       == {i \in nonce .. nonce + n : Free(i)}
<1>1. f \in [waiting -> Int] /\ IsFiniteSet(waiting) /\ nonce \in Nat /\ \A tx \in waiting : f[tx] = tx.nonce
  BY DEF StorageTypes, Transaction
<1> HIDE DEF f
<1>2. n \in Nat /\ \E i \in nonce .. nonce + n : \A tx \in waiting : f[tx] # i
  BY <1>1, FreeNumber
<1>3. T \in SUBSET Nat /\ T # {}
  BY <1>1, <1>2
<1>4. PICK m \in T : \A k \in T : m <= k
  BY <1>3, LeastElement
<1>5. \A k \in nonce .. m - 1 : \E tx \in waiting : tx.nonce = k
  BY <1>1, <1>2, <1>4
<1>6. PendingNonce \in nonce .. nonce + n
  BY <1>4, <1>5 DEF PendingNonce
<1> QED BY <1>1, <1>2, <1>6

LEMMA StorageInit == StorageAssumption /\ SyncInit => StorageInv
<1> SUFFICES ASSUME StorageAssumption, SyncInit PROVE StorageInv
  OBVIOUS
<1>1. \A b \in Ballots : memory[b] = NoRecord
  BY DEF SyncInit
<1>2. DOMAIN outcome = {} /\ waiting = {} /\ signed = 0
  BY DEF SyncInit
<1>3. NoRows \in Rows /\ 1 \in PoolAt
  BY DEF NoRows, Rows, StorageAssumption, PoolAt
<1>4. StorageTypes
  <2>1. accepted \in [PoolAt -> Rows]
    BY <1>3 DEF SyncInit
  <2>2. memory \in [Ballots -> SavedRecord] /\ journal = memory
    BY DEF SyncInit, NoRecord, SavedRecord
  <2>3. worker \in [pc : WorkerPc, pool : PoolAt, rows : Rows, at : Nat \ {0}]
    BY <1>3 DEF SyncInit, WorkerPc
  <2> QED BY <1>2, <2>1, <2>2, <2>3, FS_EmptySet DEF StorageTypes, SyncInit
<1>5. AtABallot
  BY DEF AtABallot, SyncInit
<1>6. SavedWereSigned /\ WaitingIsSaved /\ MinedIsRefused /\ SavedIsFirst
  BY <1>1, <1>2 DEF SavedWereSigned, WaitingIsSaved, MinedIsRefused, SavedIsFirst, NoRecord
<1>7. OneEntity
  BY <1>2 DEF OneEntity, Stored
<1> QED BY <1>4, <1>5, <1>6, <1>7 DEF StorageInv

\* The ballot the worker is about to do something for.
LEMMA ToDoIsABallot ==
  ASSUME StorageInv, StorageAssumption, ToDo
  PROVE  Here \in Ballots
<1>1. worker.at \in 1 .. Places /\ worker.pool \in PoolAt /\ worker.rows \in Rows
  BY DEF StorageInv, StorageTypes, ToDo, StorageAssumption
<1>2. worker.rows[worker.at] \in 1 .. MaxAccepted
  BY <1>1 DEF Rows, ToDo, StorageAssumption
<1> QED BY <1>1, <1>2 DEF Here, Ballots

\* Steps that change nothing but the worker and what was accepted.
LEMMA WorkerMoves ==
  ASSUME StorageInv, UNCHANGED <<journal, memory, signed, nodeVars>>,
         accepted' \in [PoolAt -> Rows],
         worker' \in [pc : WorkerPc, pool : PoolAt, rows : Rows, at : Nat \ {0}],
         \/ worker'.pc \notin {"broadcast", "receipt", "confirm", "readback"}
         \/ /\ worker'.pc # "broadcast" /\ Here' \in Ballots
         \/ worker' = worker
  PROVE  StorageInv'
<1>1. StorageTypes'
  BY DEF StorageInv, StorageTypes, nodeVars
<1>2. AtABallot'
  BY DEF StorageInv, AtABallot, Here, Record
<1>3. \A b \in Ballots : Stored(b)' = Stored(b)
  BY DEF Stored, nodeVars
<1>4. SavedWereSigned' /\ WaitingIsSaved' /\ MinedIsRefused'
  BY DEF StorageInv, SavedWereSigned, WaitingIsSaved, MinedIsRefused, nodeVars
<1>5. SavedIsFirst' /\ OneEntity'
  BY <1>3 DEF StorageInv, SavedIsFirst, OneEntity, nodeVars
<1> QED BY <1>1, <1>2, <1>4, <1>5 DEF StorageInv

\* Steps of the worker that save a record of its ballot, with the transaction
\* it has or, once that was mined, with none.
LEMMA RecordChanges ==
  ASSUME StorageInv, Here \in Ballots, NEW r \in SavedRecord, Save(r),
         UNCHANGED <<accepted, signed, nodeVars>>,
         worker' \in [pc : WorkerPc, pool : PoolAt, rows : Rows, at : Nat \ {0}],
         \/ worker'.pc \notin {"broadcast", "receipt", "confirm", "readback"}
         \/ worker'.pc # "broadcast" /\ Here' = Here,
         \/ r.hash = Record.hash /\ r.nonce = Record.nonce
         \/ r.hash = 0 /\ (Record.hash = 0 \/ Record.hash \in DOMAIN outcome)
  PROVE  StorageInv'
<1>1. /\ memory' = [memory EXCEPT ![Here] = r] /\ journal' = memory'
      /\ memory \in [Ballots -> SavedRecord]
  BY DEF Save, StorageInv, StorageTypes
<1>2. StorageTypes'
  BY <1>1 DEF StorageInv, StorageTypes, nodeVars
<1>3. AtABallot'
  BY DEF AtABallot
<1>4. \A b \in Ballots : /\ Stored(b)' = Stored(b)
                         /\ memory'[b] = IF b = Here THEN r ELSE memory[b]
  BY <1>1 DEF Stored, nodeVars
<1>5. SavedWereSigned'
  BY <1>4 DEF StorageInv, SavedWereSigned, Record, StorageTypes
<1>6. WaitingIsSaved'
  <2> SUFFICES ASSUME NEW tx \in waiting
               PROVE  /\ tx.hash # 0 /\ tx.hash \notin DOMAIN outcome
                      /\ tx.hash = memory'[tx.ballot].hash /\ tx.nonce = memory'[tx.ballot].nonce
    BY DEF WaitingIsSaved, nodeVars
  <2>1. tx.ballot \in Ballots
    BY DEF StorageInv, StorageTypes, Transaction
  <2> QED BY <1>4, <2>1 DEF StorageInv, WaitingIsSaved, Record
<1>7. 0 \notin DOMAIN outcome
  BY DEF StorageInv, StorageTypes, Transaction
<1>8. MinedIsRefused'
  BY <1>4, <1>7 DEF StorageInv, MinedIsRefused, Record, nodeVars
<1>9. SavedIsFirst' /\ OneEntity'
  BY <1>4 DEF StorageInv, SavedIsFirst, OneEntity, nodeVars, Record
<1> QED BY <1>2, <1>3, <1>5, <1>6, <1>8, <1>9 DEF StorageInv

LEMMA SignKeeps ==
  ASSUME StorageInv, StorageAssumption, Sign
  PROVE  StorageInv'
<1> DEFINE r == NewRecord
<1>0. Here \in Ballots /\ Record.hash = 0 /\ Stored(Here) = {}
  BY ToDoIsABallot DEF Sign
<1>1. r \in SavedRecord /\ r.hash = signed + 1
  <2>1. \A h, n \in Nat : LET x == [NoRecord EXCEPT !.hash = h, !.nonce = n]
                          IN  x \in SavedRecord /\ x.hash = h
    BY DEF NoRecord, SavedRecord
  <2>2. PendingNonce \in Nat /\ signed + 1 \in Nat
    BY PendingNonceIsNat DEF StorageInv, StorageTypes
  <2> QED BY <2>1, <2>2, Zenon DEF NewRecord
<1>2. /\ memory' = [memory EXCEPT ![Here] = r] /\ journal' = memory'
      /\ memory \in [Ballots -> SavedRecord] /\ signed \in Nat /\ signed' = signed + 1
      /\ UNCHANGED <<accepted, nodeVars>>
      /\ worker' = [worker EXCEPT !.pc = "broadcast"]
  BY DEF Sign, Save, StorageInv, StorageTypes
<1> HIDE DEF r
<1>3. /\ worker' \in [pc : WorkerPc, pool : PoolAt, rows : Rows, at : Nat \ {0}]
      /\ Here' = Here
  BY <1>2 DEF StorageInv, StorageTypes, Here, WorkerPc
<1>4. StorageTypes'
  <2>1. memory' \in [Ballots -> SavedRecord]
    BY <1>1, <1>2
  <2>2. DOMAIN outcome \subseteq 1 .. signed + 1
    <3>1. DOMAIN outcome \subseteq 1 .. signed /\ signed \in Nat
      BY DEF StorageInv, StorageTypes
    <3> QED BY <3>1
  <2> QED BY <1>2, <1>3, <2>1, <2>2 DEF StorageInv, StorageTypes, nodeVars
<1>5. \A b \in Ballots : /\ Stored(b)' = Stored(b)
                         /\ memory'[b] = IF b = Here THEN r ELSE memory[b]
  BY <1>2 DEF Stored, nodeVars
<1>6. AtABallot'
  BY <1>0, <1>1, <1>2, <1>3, <1>5 DEF AtABallot, Record
<1>7. SavedWereSigned'
  <2>1. \A b \in Ballots : memory[b].hash \in Nat /\ memory[b].hash <= signed
    BY <1>2 DEF StorageInv, SavedWereSigned, SavedRecord
  <2>2. \A b \in Ballots : memory'[b].hash = IF b = Here THEN signed + 1 ELSE memory[b].hash
    BY <1>1, <1>5
  <2>3. \A b, c \in Ballots : memory[b].hash # 0 /\ memory[b].hash = memory[c].hash => b = c
    BY DEF StorageInv, SavedWereSigned
  <2>4. signed \in Nat /\ signed' = signed + 1
    BY <1>2
  <2>5. \A b \in Ballots : memory'[b].hash <= signed'
    BY <2>1, <2>2, <2>4
  <2>6. ASSUME NEW b \in Ballots, NEW c \in Ballots, memory'[b].hash # 0, memory'[b].hash = memory'[c].hash
        PROVE  b = c
    BY <2>1, <2>2, <2>3, <2>4, <2>6
  <2> QED BY <2>5, <2>6 DEF SavedWereSigned
<1>8. signed + 1 \notin DOMAIN outcome
  BY <1>2 DEF StorageInv, StorageTypes
<1>9. WaitingIsSaved'
  <2> SUFFICES ASSUME NEW tx \in waiting
               PROVE  /\ tx.hash # 0 /\ tx.hash \notin DOMAIN outcome
                      /\ tx.hash = memory'[tx.ballot].hash /\ tx.nonce = memory'[tx.ballot].nonce
    BY <1>2 DEF WaitingIsSaved, nodeVars
  <2>1. tx.ballot \in Ballots
    BY DEF StorageInv, StorageTypes, Transaction
  <2> QED BY <1>0, <1>5, <2>1 DEF StorageInv, WaitingIsSaved, Record
<1>10. MinedIsRefused'
  BY <1>1, <1>2, <1>5, <1>8 DEF StorageInv, MinedIsRefused, nodeVars
<1>11. SavedIsFirst' /\ OneEntity'
  BY <1>0, <1>2, <1>5 DEF StorageInv, SavedIsFirst, OneEntity, nodeVars
<1> QED BY <1>4, <1>6, <1>7, <1>9, <1>10, <1>11 DEF StorageInv

\* The saved transaction of the worker's ballot reaches the node.
LEMMA SendingKeeps ==
  ASSUME StorageInv, Here \in Ballots, Record.hash # 0,
         waiting' \in MempoolsAfter(Tx(Here, Record)),
         UNCHANGED <<accepted, journal, memory, signed, nonce, outcome>>,
         worker' \in [pc : WorkerPc, pool : PoolAt, rows : Rows, at : Nat \ {0}],
         \/ worker'.pc \notin {"broadcast", "receipt", "confirm", "readback"}
         \/ worker'.pc # "broadcast" /\ Here' = Here
  PROVE  StorageInv'
<1> DEFINE tx == Tx(Here, Record)
<1>1. /\ tx.ballot = Here /\ tx.hash = memory[Here].hash /\ tx.nonce = memory[Here].nonce
      /\ tx.hash # 0 /\ tx \in Transaction
  BY DEF Transaction, Tx, Record, StorageInv, StorageTypes, SavedRecord
<1>2. \/ waiting' = waiting
      \/ /\ waiting' \subseteq waiting \cup {tx}
         /\ ~ tx.nonce < nonce
  BY DEF MempoolsAfter
<1> HIDE DEF tx
<1>3. StorageTypes'
  <2>1. IsFiniteSet(waiting') /\ waiting' \subseteq Transaction
    <3>1. IsFiniteSet(waiting) /\ waiting \subseteq Transaction
      BY DEF StorageInv, StorageTypes
    <3>2. IsFiniteSet(waiting \cup {tx}) /\ waiting \cup {tx} \subseteq Transaction
      BY <1>1, <3>1, FS_AddElement
    <3> QED BY <1>2, <3>1, <3>2, FS_Subset
  <2> QED BY <2>1 DEF StorageInv, StorageTypes
<1>4. AtABallot'
  BY DEF AtABallot
<1>5. WaitingIsSaved'
  <2>1. waiting' = waiting \/ (waiting' \subseteq waiting \cup {tx} /\ tx.hash \notin DOMAIN outcome)
    BY <1>1, <1>2 DEF StorageInv, MinedIsRefused, StorageTypes, Transaction
  <2> QED BY <1>1, <2>1 DEF StorageInv, WaitingIsSaved
<1>6. \A b \in Ballots : Stored(b)' = Stored(b)
  BY DEF Stored
<1>7. SavedWereSigned' /\ MinedIsRefused'
  BY DEF StorageInv, SavedWereSigned, MinedIsRefused
<1>8. SavedIsFirst' /\ OneEntity'
  BY <1>6 DEF StorageInv, SavedIsFirst, OneEntity
<1> QED BY <1>3, <1>4, <1>5, <1>7, <1>8 DEF StorageInv

LEMMA MineKeeps ==
  ASSUME StorageInv, NEW tx \in waiting, Mine(tx)
  PROVE  StorageInv'
<1> DEFINE b0 == tx.ballot
<1>1. /\ b0 \in Ballots /\ tx.hash # 0 /\ tx.hash \notin DOMAIN outcome
      /\ tx.hash = memory[b0].hash /\ tx.nonce = memory[b0].nonce /\ tx.nonce = nonce
      /\ nonce \in Nat /\ nonce' = nonce + 1 /\ waiting' = waiting \ {tx}
      /\ UNCHANGED <<accepted, journal, memory, worker, signed>>
  BY DEF StorageInv, StorageTypes, WaitingIsSaved, Mine, Transaction
<1>2. PICK fate \in BOOLEAN : outcome' = [h \in DOMAIN outcome \cup {tx.hash} |->
                                  IF h = tx.hash THEN [ballot |-> b0, stored |-> fate] ELSE outcome[h]]
  BY DEF Mine
<1>3. /\ DOMAIN outcome' = DOMAIN outcome \cup {tx.hash}
      /\ \A h \in DOMAIN outcome : outcome'[h] = outcome[h]
      /\ outcome'[tx.hash].ballot = b0
  BY <1>1, <1>2
<1>4. StorageTypes'
  <2>1. tx.hash \in 1 .. signed
    BY <1>1 DEF StorageInv, StorageTypes, SavedWereSigned, SavedRecord
  <2>2. IsFiniteSet(waiting')
    BY <1>1, FS_RemoveElement DEF StorageInv, StorageTypes
  <2> QED BY <1>1, <1>3, <2>1, <2>2 DEF StorageInv, StorageTypes
<1>5. AtABallot'
  BY <1>1 DEF StorageInv, AtABallot, Here, Record
<1>6. SavedWereSigned'
  BY <1>1 DEF StorageInv, SavedWereSigned
<1>7. WaitingIsSaved'
  \* Another waiting transaction is another ballot's.
  <2> SUFFICES ASSUME NEW x \in waiting, x # tx PROVE x.hash # tx.hash
    BY <1>1, <1>3 DEF StorageInv, WaitingIsSaved
  <2>1. x \in Transaction /\ tx \in Transaction
    BY DEF StorageInv, StorageTypes, Transaction
  <2>2. x.hash = memory[x.ballot].hash /\ x.nonce = memory[x.ballot].nonce
    BY DEF StorageInv, WaitingIsSaved
  <2>3. SUFFICES ASSUME x.hash = tx.hash PROVE FALSE
    OBVIOUS
  <2>4. x.ballot = tx.ballot
    BY <1>1, <2>1, <2>2, <2>3 DEF StorageInv, SavedWereSigned, Transaction
  <2>5. \A y \in Transaction : y = [hash |-> y.hash, nonce |-> y.nonce, ballot |-> y.ballot]
    BY DEF Transaction
  <2>6. x.nonce = tx.nonce
    BY <1>1, <2>2, <2>4
  <2> QED BY <2>1, <2>3, <2>4, <2>5, <2>6
<1>8. MinedIsRefused'
  <2> SUFFICES ASSUME NEW b \in Ballots, memory[b].hash \in DOMAIN outcome' PROVE memory[b].nonce < nonce + 1
    BY <1>1 DEF MinedIsRefused
  <2>1. memory[b].nonce \in Nat
    BY DEF StorageInv, StorageTypes, SavedRecord
  <2>2. CASE memory[b].hash = tx.hash
    <3>1. b = b0
      BY <1>1, <2>2 DEF StorageInv, SavedWereSigned
    <3>2. memory[b].nonce = nonce
      BY <1>1, <3>1
    <3> HIDE <1>1
    <3> QED BY <2>1, <3>2
  <2>3. CASE memory[b].hash \in DOMAIN outcome
    BY <1>1, <2>1, <2>3 DEF StorageInv, MinedIsRefused
  <2> QED BY <1>3, <2>2, <2>3
<1>9. Stored(b0) = {}
  BY <1>1 DEF StorageInv, SavedIsFirst
<1>10. \A b \in Ballots : Stored(b)' \subseteq IF b = b0 THEN {tx.hash} ELSE Stored(b)
  BY <1>1, <1>3, <1>9 DEF Stored
<1>11. OneEntity'
  BY <1>10 DEF StorageInv, OneEntity
<1>12. SavedIsFirst'
  <2> SUFFICES ASSUME NEW b \in Ballots, memory[b].hash # 0, memory[b].hash \notin DOMAIN outcome'
               PROVE  Stored(b)' = {}
    BY <1>1 DEF SavedIsFirst
  <2>1. b # b0 /\ memory[b].hash \notin DOMAIN outcome
    BY <1>1, <1>3
  <2> QED BY <1>10, <2>1 DEF StorageInv, SavedIsFirst
<1> QED BY <1>4, <1>5, <1>6, <1>7, <1>8, <1>11, <1>12 DEF StorageInv

LEMMA DropKeeps ==
  ASSUME StorageInv, NEW tx \in waiting, Drop(tx)
  PROVE  StorageInv'
<1>1. /\ waiting' = waiting \ {tx}
      /\ UNCHANGED <<accepted, journal, memory, worker, signed, nonce, outcome>>
  BY DEF Drop
<1>2. IsFiniteSet(waiting')
  BY <1>1, FS_RemoveElement DEF StorageInv, StorageTypes
<1>3. StorageTypes'
  BY <1>1, <1>2 DEF StorageInv, StorageTypes
<1>4. \A b \in Ballots : Stored(b)' = Stored(b)
  BY <1>1 DEF Stored
<1>5. AtABallot' /\ SavedWereSigned' /\ WaitingIsSaved' /\ MinedIsRefused'
  BY <1>1 DEF StorageInv, AtABallot, Here, Record, SavedWereSigned, WaitingIsSaved, MinedIsRefused
<1>6. SavedIsFirst' /\ OneEntity'
  BY <1>1, <1>4 DEF StorageInv, SavedIsFirst, OneEntity
<1> QED BY <1>3, <1>5, <1>6 DEF StorageInv

LEMMA RestartKeeps ==
  ASSUME StorageInv, Restart
  PROVE  StorageInv'
<1>1. /\ worker.pc = "down" /\ worker' = [worker EXCEPT !.pc = "pool"] /\ journal' = memory'
      /\ UNCHANGED <<accepted, signed, nodeVars>>
      /\ worker \in [pc : WorkerPc, pool : PoolAt, rows : Rows, at : Nat \ {0}]
  BY DEF Restart, StorageInv, StorageTypes
<1>2. worker' \in [pc : WorkerPc, pool : PoolAt, rows : Rows, at : Nat \ {0}] /\ worker'.pc = "pool"
  BY <1>1 DEF WorkerPc
<1>3. CASE memory' = journal
  BY <1>1, <1>2, <1>3, WorkerMoves DEF StorageInv, StorageTypes
<1>4. CASE waiting = {} /\ memory' = [b \in Ballots |-> NoRecord]
  <2>1. \A b \in Ballots : memory'[b].hash = 0
    BY <1>4 DEF NoRecord
  <2>2. memory' \in [Ballots -> SavedRecord]
    BY <1>4 DEF NoRecord, SavedRecord
  <2>3. StorageTypes' /\ AtABallot'
    BY <1>1, <1>2, <2>2 DEF StorageInv, StorageTypes, AtABallot, nodeVars
  <2>4. 0 \notin DOMAIN outcome /\ signed \in Nat
    BY DEF StorageInv, StorageTypes, Transaction
  <2>5. SavedWereSigned' /\ WaitingIsSaved' /\ MinedIsRefused' /\ SavedIsFirst'
    BY <1>1, <1>4, <2>1, <2>4 DEF SavedWereSigned, WaitingIsSaved, MinedIsRefused, SavedIsFirst, nodeVars
  <2>6. OneEntity'
    BY <1>1 DEF StorageInv, OneEntity, Stored, nodeVars
  <2> QED BY <2>3, <2>5, <2>6 DEF StorageInv
<1> QED BY <1>3, <1>4 DEF Restart

\* The worker's next place is one it can be at.
LEMMA NextPlaces ==
  ASSUME StorageTypes, StorageAssumption
  PROVE  LET Worker == [pc : WorkerPc, pool : PoolAt, rows : Rows, at : Nat \ {0}]
         IN  /\ NextPool \in Worker /\ NextPool.pc = "pool"
             /\ NextBallot \in Worker /\ NextBallot.pc = "ballot"
             /\ \A pc \in WorkerPc : /\ [worker EXCEPT !.pc = pc] \in Worker
                                     /\ [worker EXCEPT !.pc = pc].pc = pc
             /\ [pc |-> "down", pool |-> 1, rows |-> NoRows, at |-> 1] \in Worker
<1> DEFINE Worker == [pc : WorkerPc, pool : PoolAt, rows : Rows, at : Nat \ {0}]
<1>1. worker \in Worker /\ "pool" \in WorkerPc /\ "ballot" \in WorkerPc /\ "down" \in WorkerPc
  BY DEF StorageTypes, WorkerPc
<1>2. NoRows \in Rows
  BY DEF NoRows, Rows, StorageAssumption
<1>3. (IF worker.pool = Len(Pools) THEN 1 ELSE worker.pool + 1) \in PoolAt /\ 1 \in PoolAt
  BY <1>1 DEF PoolAt, StorageAssumption
<1>4. NextPool \in Worker /\ NextPool.pc = "pool"
  <2> DEFINE q == IF worker.pool = Len(Pools) THEN 1 ELSE worker.pool + 1
  <2>1. q \in PoolAt
    BY <1>3
  <2>2. NextPool = [pc |-> "pool", pool |-> q, rows |-> NoRows, at |-> 1]
    BY DEF NextPool
  <2> HIDE DEF q
  <2> QED BY <1>1, <1>2, <2>1, <2>2
<1>5. NextBallot \in Worker /\ NextBallot.pc = "ballot"
  <2>1. \A a \in Nat \ {0} : /\ [worker EXCEPT !.pc = "ballot", !.at = a] \in Worker
                             /\ [worker EXCEPT !.pc = "ballot", !.at = a].pc = "ballot"
    BY <1>1
  <2>2. worker.at + 1 \in Nat \ {0}
    BY <1>1
  <2> HIDE DEF Worker
  <2> QED BY <2>1, <2>2, Zenon DEF NextBallot
<1>6. \A pc \in WorkerPc : /\ [worker EXCEPT !.pc = pc] \in Worker
                           /\ [worker EXCEPT !.pc = pc].pc = pc
  BY <1>1
<1>7. [pc |-> "down", pool |-> 1, rows |-> NoRows, at |-> 1] \in Worker
  BY <1>1, <1>2, <1>3
<1> HIDE DEF Worker
<1> QED BY <1>4, <1>5, <1>6, <1>7 DEF Worker

LEMMA WorkerStepsKeep ==
  ASSUME StorageInv, StorageAssumption, WorkerSteps
  PROVE  StorageInv'
<1> DEFINE Worker == [pc : WorkerPc, pool : PoolAt, rows : Rows, at : Nat \ {0}]
<1>0. /\ worker \in Worker /\ accepted \in [PoolAt -> Rows]
      /\ memory \in [Ballots -> SavedRecord]
  BY DEF StorageInv, StorageTypes
<1>1. NextPool \in Worker /\ NextPool.pc = "pool"
  BY NextPlaces DEF StorageInv
<1>2. NextBallot \in Worker /\ NextBallot.pc = "ballot"
  BY NextPlaces DEF StorageInv
<1>3. \A pc \in WorkerPc : /\ [worker EXCEPT !.pc = pc] \in Worker
                           /\ [worker EXCEPT !.pc = pc].pc = pc
  BY <1>0
<1>4. \A pc \in WorkerPc : worker' = [worker EXCEPT !.pc = pc] => Here' = Here
  BY <1>0 DEF Here
<1>5. {"broadcast", "receipt", "confirm", "readback", "pool", "ballot"} \subseteq WorkerPc
  BY DEF WorkerPc
<1>6. worker.pc \in {"broadcast", "receipt", "confirm", "readback"} => Here \in Ballots
  BY DEF StorageInv, AtABallot
<1>7. Here \in Ballots => Record \in SavedRecord
  BY <1>0 DEF Record
<1> HIDE DEF Worker
<1>11. CASE ReadPool
  <2>1. /\ worker' = [worker EXCEPT !.pc = "ballot", !.rows = accepted[worker.pool]]
        /\ UNCHANGED <<accepted, journal, memory, signed, nodeVars>>
    BY <1>11 DEF ReadPool
  <2>2. worker' \in Worker /\ worker'.pc = "ballot"
    <3>1. accepted[worker.pool] \in Rows
      BY <1>0 DEF Worker
    <3>2. \A rows \in Rows : LET w == [worker EXCEPT !.pc = "ballot", !.rows = rows]
                             IN  w \in Worker /\ w.pc = "ballot"
      BY <1>0, <1>5 DEF Worker
    <3> QED BY <2>1, <3>1, <3>2, Zenon
  <2> QED BY <1>0, <2>1, <2>2, WorkerMoves DEF Worker
<1>12. CASE Skip
  BY <1>0, <1>1, <1>2, <1>12, WorkerMoves DEF Skip, Worker
<1>13. CASE ReadBackAgain
  <2>1. /\ worker' = [worker EXCEPT !.pc = "readback"] /\ Here \in Ballots
        /\ UNCHANGED <<accepted, journal, memory, signed, nodeVars>>
    BY <1>13, ToDoIsABallot DEF ReadBackAgain
  <2>2. worker' \in Worker /\ worker'.pc # "broadcast" /\ Here' \in Ballots
    BY <1>3, <1>4, <1>5, <2>1
  <2> QED BY <1>0, <2>1, <2>2, WorkerMoves DEF Worker
<1>14. CASE Resume
  <2>1. /\ worker' = [worker EXCEPT !.pc = "confirm"] /\ Here \in Ballots /\ Record.hash # 0
        /\ waiting' \in MempoolsAfter(Tx(Here, Record))
        /\ UNCHANGED <<accepted, journal, memory, signed, nonce, outcome>>
    BY <1>14, ToDoIsABallot DEF Resume
  <2>2. worker' \in Worker /\ worker'.pc # "broadcast" /\ Here' = Here
    BY <1>3, <1>4, <1>5, <2>1
  <2> QED BY <2>1, <2>2, SendingKeeps DEF Worker
<1>15. CASE AdoptStored
  <2> DEFINE r == [NoRecord EXCEPT !.entity = TRUE, !.verified = TRUE]
  <2>1. /\ Save(r) /\ worker' = NextBallot /\ Here \in Ballots /\ Record.hash = 0
        /\ UNCHANGED <<accepted, signed, nodeVars>>
    BY <1>15, ToDoIsABallot DEF AdoptStored
  <2>2. r \in SavedRecord /\ r.hash = 0
    BY DEF NoRecord, SavedRecord
  <2> HIDE DEF r
  <2> QED BY <1>2, <2>1, <2>2, RecordChanges DEF Worker
<1>16. CASE Sign
  BY <1>16, SignKeeps
<1>17. CASE Broadcast
  <2>1. /\ Here \in Ballots /\ Record.hash # 0
        /\ waiting' \in MempoolsAfter(Tx(Here, Record))
        /\ worker' = [worker EXCEPT !.pc = "receipt"] \/ worker' = NextPool
        /\ UNCHANGED <<accepted, journal, memory, signed, nonce, outcome>>
    BY <1>6, <1>17 DEF Broadcast, StorageInv, AtABallot
  <2>2. /\ worker' \in Worker
        /\ worker'.pc = "pool" \/ (worker'.pc # "broadcast" /\ Here' = Here)
    BY <1>1, <1>3, <1>4, <1>5, <2>1
  <2> QED BY <2>1, <2>2, SendingKeeps DEF Worker
<1>18. CASE Confirmed
  <2> DEFINE r == [Record EXCEPT !.entity = TRUE]
  <2>1. /\ Save(r) /\ worker' = [worker EXCEPT !.pc = "readback"] /\ Here \in Ballots
        /\ UNCHANGED <<accepted, signed, nodeVars>>
    BY <1>6, <1>18 DEF Confirmed
  <2>2. r \in SavedRecord /\ r.hash = Record.hash /\ r.nonce = Record.nonce
    BY <1>7, <2>1 DEF SavedRecord
  <2>3. worker' \in Worker /\ worker'.pc # "broadcast" /\ Here' = Here
    BY <1>3, <1>4, <1>5, <2>1
  <2> HIDE DEF r
  <2> QED BY <2>1, <2>2, <2>3, RecordChanges DEF Worker
<1>19. CASE Reverted
  <2>1. /\ worker' = NextPool /\ Here \in Ballots /\ Record.hash \in DOMAIN outcome
        /\ Save(NoRecord) \/ UNCHANGED <<memory, journal>>
        /\ UNCHANGED <<accepted, signed, nodeVars>>
    BY <1>6, <1>19 DEF Reverted, Forget
  <2>2. NoRecord \in SavedRecord /\ NoRecord.hash = 0
    BY DEF NoRecord, SavedRecord
  <2>3. CASE Save(NoRecord)
    BY <1>1, <2>1, <2>2, <2>3, RecordChanges DEF Worker
  <2>4. CASE UNCHANGED <<memory, journal>>
    BY <1>0, <1>1, <2>1, <2>4, WorkerMoves DEF Worker
  <2> QED BY <2>1, <2>3, <2>4
<1>20. CASE TimesOut
  BY <1>0, <1>1, <1>20, WorkerMoves DEF TimesOut, Worker
<1>21. CASE ReadBack
  <2> DEFINE r == [Record EXCEPT !.verified = TRUE]
  <2>1. /\ Save(r) /\ worker' = NextBallot /\ Here \in Ballots
        /\ UNCHANGED <<accepted, signed, nodeVars>>
    BY <1>6, <1>21 DEF ReadBack
  <2>2. r \in SavedRecord /\ r.hash = Record.hash /\ r.nonce = Record.nonce
    BY <1>7, <2>1 DEF SavedRecord
  <2> HIDE DEF r
  <2> QED BY <1>2, <2>1, <2>2, RecordChanges DEF Worker
<1> QED BY <1>11, <1>12, <1>13, <1>14, <1>15, <1>16, <1>17, <1>18, <1>19, <1>20, <1>21 DEF WorkerSteps

LEMMA AcceptKeeps ==
  ASSUME StorageInv, StorageAssumption, NEW p \in PoolAt, NEW s \in 1 .. Places, Accept(p, s)
  PROVE  StorageInv'
<1>1. /\ accepted' = [accepted EXCEPT ![p][s] = @ + 1] /\ accepted[p][s] < MaxAccepted
      /\ accepted \in [PoolAt -> Rows]
      /\ UNCHANGED <<journal, memory, worker, signed, nodeVars>>
      /\ worker \in [pc : WorkerPc, pool : PoolAt, rows : Rows, at : Nat \ {0}]
  BY DEF Accept, StorageInv, StorageTypes
<1>2. accepted[p] \in Rows
  BY <1>1
<1>3. [accepted[p] EXCEPT ![s] = accepted[p][s] + 1] \in Rows
  <2>1. accepted[p][s] \in 0 .. MaxAccepted
    BY <1>2 DEF Rows
  <2>2. accepted[p][s] + 1 \in 0 .. MaxAccepted
    BY <1>1, <2>1 DEF StorageAssumption
  <2> QED BY <1>2, <2>2 DEF Rows
<1>4. accepted' \in [PoolAt -> Rows]
  BY <1>1, <1>3
<1> QED BY <1>1, <1>4, WorkerMoves

LEMMA StorageStep == StorageAssumption /\ StorageInv /\ [SyncNext]_syncVars => StorageInv'
<1> SUFFICES ASSUME StorageAssumption, StorageInv, [SyncNext]_syncVars PROVE StorageInv'
  OBVIOUS
<1> DEFINE Worker == [pc : WorkerPc, pool : PoolAt, rows : Rows, at : Nat \ {0}]
<1>0. worker \in Worker /\ accepted \in [PoolAt -> Rows]
  BY DEF StorageInv, StorageTypes
<1>2. CASE Throws
  <2>1. NextPool \in Worker /\ NextPool.pc = "pool"
    BY NextPlaces DEF StorageInv
  <2> QED BY <1>0, <1>2, <2>1, WorkerMoves DEF Throws
<1>3. CASE Crash
  <2>1. /\ worker' = [pc |-> "down", pool |-> 1, rows |-> NoRows, at |-> 1]
        /\ UNCHANGED <<accepted, journal, memory, signed, nodeVars>>
    BY <1>3 DEF Crash
  <2>2. worker' \in Worker /\ worker'.pc = "down"
    BY <2>1, NextPlaces DEF StorageInv
  <2> QED BY <1>0, <2>1, <2>2, WorkerMoves
<1>4. CASE UNCHANGED syncVars
  BY <1>0, <1>4, WorkerMoves DEF syncVars
<1>5. CASE SyncNext
  BY <1>2, <1>3, <1>5, AcceptKeeps, WorkerStepsKeep, RestartKeeps, MineKeeps, DropKeeps DEF SyncNext
<1> QED BY <1>4, <1>5

\* What the state file says, what the account signed and what can still be mined
\* agree through every crash, restart, timeout and lost transaction.
THEOREM StorageIsInvariant == SyncSpec => []StorageInv
<1>1. SyncInit => StorageInv
  BY StorageInit, StorageAssumption
<1>2. StorageInv /\ [SyncNext]_syncVars => StorageInv'
  BY StorageStep, StorageAssumption
<1> QED BY <1>1, <1>2, PTL DEF SyncSpec

\* No ballot is ever paid for twice (ballot-storage.ts:26).
THEOREM StoredOnceAlways == SyncSpec => []StoredOnce
<1>1. StorageInv => StoredOnce
  <2> SUFFICES ASSUME StorageInv, NEW b \in Ballots PROVE Cardinality(Stored(b)) <= 1
    BY DEF StoredOnce
  <2>1. \A g, h \in Stored(b) : g = h
    BY DEF StorageInv, OneEntity
  <2>2. CASE Stored(b) = {}
    BY <2>2, FS_EmptySet
  <2>3. CASE Stored(b) # {}
    <3>1. PICK h : Stored(b) = {h}
      BY <2>1, <2>3
    <3>2. Cardinality({h}) = 1
      BY FS_Singleton
    <3>3. Cardinality(Stored(b)) = 1
      BY <3>1, <3>2
    <3> QED BY <3>3
  <2> QED BY <2>2, <2>3
<1> QED BY <1>1, StorageIsInvariant, PTL

-----------------------------------------------------------------------------
(* NoirRankedShares: the roster and its sealed ballots.                    *)

SealedEntry == [voter : Voter, weight : Nat, ciphertext : Ciphertexts \cup {NoVote}]

\* 1 for every voter of the roster with a sealed ballot.
Seals(vs, s) == [i \in 1 .. Len(vs) |-> IF s[vs[i]] = NoVote THEN 0 ELSE 1]

VoteTypes ==
  /\ voters \in Seq(Voter)
  /\ \A i, j \in 1 .. Len(voters) : voters[i] = voters[j] => i = j
  /\ seatWeight \in [Voter -> Nat]
  /\ sealed \in [Voter -> Ciphertexts \cup {NoVote}]

Registered(v) == \E i \in 1 .. Len(voters) : voters[i] = v

\* Whoever holds a seat or sealed a ballot is in the roster, and a slot counts
\* one of them.
VoteInv ==
  /\ VoteTypes
  /\ \A v \in Voter : seatWeight[v] > 0 \/ sealed[v] # NoVote => Registered(v)
  /\ sealedCount = Sum(Seals(voters, sealed), Len(voters))
  /\ sealedCount <= NSealedMax

LEMMA RosterLength ==
  ASSUME VoteTypes
  PROVE  /\ Len(voters) \in Nat /\ DOMAIN voters = 1 .. Len(voters)
         /\ \A i \in 1 .. Len(voters) : voters[i] \in Voter
         /\ Seals(voters, sealed) \in [1 .. Len(voters) -> Nat]
         /\ \A i \in 1 .. Len(voters) : Entry(voters[i]) \in SealedEntry
<1>1. Len(voters) \in Nat /\ DOMAIN voters = 1 .. Len(voters) /\ \A i \in 1 .. Len(voters) : voters[i] \in Voter
  BY LenProperties, ElementOfSeq DEF VoteTypes
<1>2. Seals(voters, sealed) \in [1 .. Len(voters) -> Nat]
  BY DEF Seals
<1>3. \A i \in 1 .. Len(voters) : Entry(voters[i]) \in SealedEntry
  BY <1>1 DEF Entry, SealedEntry, VoteTypes
<1> QED BY <1>1, <1>2, <1>3

\* The loop that lists the sealed ballots exists and unfolds one voter at a time.
LEMMA SealedUpToUnfold ==
  ASSUME Len(voters) \in Nat
  PROVE  /\ SealedUpTo[0] = << >>
         /\ \A i \in 1 .. Len(voters) :
              SealedUpTo[i] = IF sealed[voters[i]] = NoVote THEN SealedUpTo[i - 1]
                              ELSE Append(SealedUpTo[i - 1], Entry(voters[i]))
<1> DEFINE n == Len(voters)
           Step(x, i) == IF sealed[voters[i]] = NoVote THEN x ELSE Append(x, Entry(voters[i]))
           IsLoop(f, k) == f = [i \in 0 .. k |-> IF i = 0 THEN << >> ELSE Step(f[i - 1], i)]
           G == {k \in Nat : \E f : IsLoop(f, k)}
<1> HIDE DEF Step
<1>1. 0 \in G
  <2> DEFINE f == [i \in 0 .. 0 |-> << >>]
  <2>1. IsLoop(f, 0)
    OBVIOUS
  <2> HIDE DEF IsLoop
  <2> QED BY <2>1
<1>2. ASSUME NEW k \in G PROVE k + 1 \in G
  <2>1. PICK f : IsLoop(f, k)
    OBVIOUS
  <2> DEFINE g == [i \in 0 .. (k + 1) |-> IF i = k + 1 THEN Step(f[k], k + 1) ELSE f[i]]
  <2>2. \A i \in 0 .. (k + 1) : g[i] = IF i = 0 THEN << >> ELSE Step(g[i - 1], i)
    <3> TAKE i \in 0 .. (k + 1)
    <3>1. CASE i = k + 1
      <4>1. g[i] = Step(f[k], k + 1) /\ g[i - 1] = f[k]
        BY <3>1
      <4> HIDE DEF g
      <4> QED BY <3>1, <4>1
    <3>2. CASE i # k + 1
      <4>1. i \in 0 .. k /\ g[i] = f[i] /\ (i # 0 => g[i - 1] = f[i - 1])
        BY <3>2
      <4>2. f[i] = IF i = 0 THEN << >> ELSE Step(f[i - 1], i)
        BY <4>1, <2>1
      <4> HIDE DEF g
      <4> QED BY <4>1, <4>2
    <3> QED BY <3>1, <3>2
  <2>3. IsLoop(g, k + 1)
    <3>1. g = [i \in 0 .. (k + 1) |-> g[i]]
      OBVIOUS
    <3> HIDE DEF g
    <3> QED BY <2>2, <3>1
  <2> HIDE DEF g, IsLoop
  <2> QED BY <2>3
<1>3. \E f : IsLoop(f, n)
  <2>1. G = Nat
    <3> HIDE DEF G
    <3> G \in SUBSET Nat
      BY DEF G
    <3> QED BY <1>1, <1>2, InductionOnSets
  <2> HIDE DEF IsLoop
  <2> QED BY <2>1
<1> DEFINE upTo == CHOOSE f : IsLoop(f, n)
<1>4. IsLoop(upTo, n)
  <2> HIDE DEF IsLoop
  <2> QED BY <1>3
<1>5. SealedUpTo = upTo
  BY DEF SealedUpTo, Step
<1> HIDE DEF upTo
<1>6. upTo[0] = << >> /\ \A i \in 1 .. n : upTo[i] = Step(upTo[i - 1], i)
  BY <1>4
<1> QED BY <1>5, <1>6 DEF Step

\* It lists entries, and has as many as voters with a sealed ballot.
LEMMA SealedUpToCounts ==
  ASSUME VoteTypes
  PROVE  \A i \in 0 .. Len(voters) :
           /\ SealedUpTo[i] \in Seq(SealedEntry)
           /\ Len(SealedUpTo[i]) = PrefixSum(Seals(voters, sealed), Len(voters))[i]
<1> DEFINE n == Len(voters)
           F == Seals(voters, sealed)
           P == PrefixSum(F, n)
           G == {k \in Nat : k <= n => SealedUpTo[k] \in Seq(SealedEntry) /\ Len(SealedUpTo[k]) = P[k]}
<1>1. /\ n \in Nat /\ F \in [1 .. n -> Nat] /\ F \in [1 .. n -> Int]
      /\ \A i \in 1 .. n : Entry(voters[i]) \in SealedEntry
      /\ \A i \in 1 .. n : F[i] = IF sealed[voters[i]] = NoVote THEN 0 ELSE 1
  BY RosterLength DEF Seals
<1>2. /\ SealedUpTo[0] = << >>
      /\ \A i \in 1 .. n : SealedUpTo[i] = IF sealed[voters[i]] = NoVote THEN SealedUpTo[i - 1]
                                           ELSE Append(SealedUpTo[i - 1], Entry(voters[i]))
  BY <1>1, SealedUpToUnfold
<1> HIDE DEF n, F
<1>3. P[0] = 0 /\ (\A i \in 1 .. n : P[i] = P[i - 1] + F[i]) /\ \A i \in 0 .. n : P[i] \in Nat
  BY <1>1, PrefixSumUnfold, PrefixSumNat
<1> HIDE DEF P
<1>4. 0 \in G
  BY <1>2, <1>3, EmptySeq
<1>5. ASSUME NEW k \in G PROVE k + 1 \in G
  <2> SUFFICES ASSUME k + 1 <= n
               PROVE  SealedUpTo[k + 1] \in Seq(SealedEntry) /\ Len(SealedUpTo[k + 1]) = P[k + 1]
    OBVIOUS
  <2>1. k \in Nat /\ k + 1 \in 1 .. n /\ k \in 0 .. n /\ (k + 1) - 1 = k
    BY <1>1
  <2>2. SealedUpTo[k] \in Seq(SealedEntry) /\ Len(SealedUpTo[k]) = P[k]
    BY <1>1, <2>1
  <2>3. P[k + 1] = P[k] + F[k + 1] /\ P[k] \in Nat
    BY <1>3, <2>1
  <2>4. CASE sealed[voters[k + 1]] = NoVote
    <3>1. SealedUpTo[k + 1] = SealedUpTo[k] /\ F[k + 1] = 0
      BY <1>1, <1>2, <2>1, <2>4
    <3> QED BY <2>2, <2>3, <3>1
  <2>5. CASE sealed[voters[k + 1]] # NoVote
    <3>1. SealedUpTo[k + 1] = Append(SealedUpTo[k], Entry(voters[k + 1])) /\ F[k + 1] = 1
      BY <1>1, <1>2, <2>1, <2>5
    <3>2. Entry(voters[k + 1]) \in SealedEntry
      BY <1>1, <2>1
    <3> QED BY <2>2, <2>3, <3>1, <3>2, AppendProperties
  <2> QED BY <2>4, <2>5
<1>6. G = Nat
  <2> HIDE DEF G
  <2> G \in SUBSET Nat
    BY DEF G
  <2> QED BY <1>4, <1>5, InductionOnSets
<1> QED BY <1>1, <1>6 DEF n, F, P

\* A running total of naturals is at most the whole.
LEMMA PrefixSumAtMost ==
  ASSUME NEW n \in Nat, NEW f \in [1 .. n -> Nat], NEW i \in 0 .. n
  PROVE  PrefixSum(f, n)[i] <= Sum(f, n)
<1> DEFINE P == PrefixSum(f, n)
           G == {k \in Nat : i + k <= n => P[i] <= P[i + k]}
<1>1. P \in [0 .. n -> Nat] /\ \A j \in 1 .. n : P[j - 1] <= P[j]
  BY PrefixSumNat
<1> HIDE DEF P
<1>2. 0 \in G
  BY <1>1
<1>3. ASSUME NEW k \in G PROVE k + 1 \in G
  <2> SUFFICES ASSUME i + (k + 1) <= n PROVE P[i] <= P[i + (k + 1)]
    OBVIOUS
  <2>1. i + (k + 1) \in 1 .. n /\ i + k \in 0 .. n /\ (i + (k + 1)) - 1 = i + k
    OBVIOUS
  <2>2. P[i] <= P[i + k] /\ P[i + k] <= P[i + (k + 1)]
    BY <1>1, <2>1
  <2> QED BY <1>1, <2>1, <2>2
<1>4. G = Nat
  <2> HIDE DEF G
  <2> G \in SUBSET Nat
    BY DEF G
  <2> QED BY <1>2, <1>3, InductionOnSets
<1>5. n - i \in Nat /\ i + (n - i) = n
  OBVIOUS
<1>6. \A k \in Nat : i + k <= n => P[i] <= P[i + k]
  BY <1>4
<1>7. P[i] <= P[n]
  <2>1. PICK k \in Nat : i + k = n
    BY <1>5
  <2> QED BY <1>6, <2>1
<1> QED BY <1>7 DEF Sum, P

LEMMA RosterCount ==
  ASSUME VoteInv
  PROVE  /\ sealedCount \in Nat
         /\ SealedRoster \in Seq(SealedEntry) /\ Len(SealedRoster) = sealedCount
         /\ \A i \in 0 .. Len(voters) : /\ SealedUpTo[i] \in Seq(SealedEntry)
                                        /\ Len(SealedUpTo[i]) \in Nat
                                        /\ Len(SealedUpTo[i]) <= sealedCount
<1> DEFINE n == Len(voters)
           F == Seals(voters, sealed)
<1>1. VoteTypes /\ n \in Nat /\ F \in [1 .. n -> Nat] /\ sealedCount = Sum(F, n) /\ n \in 0 .. n
  BY RosterLength DEF VoteInv
<1>2. \A i \in 0 .. n : SealedUpTo[i] \in Seq(SealedEntry) /\ Len(SealedUpTo[i]) = PrefixSum(F, n)[i]
  BY <1>1, SealedUpToCounts
<1> HIDE DEF n, F
<1>3. Sum(F, n) \in Nat /\ \A i \in 0 .. n : PrefixSum(F, n)[i] <= Sum(F, n)
  BY <1>1, SumNat, PrefixSumAtMost
<1>4. PrefixSum(F, n)[n] = Sum(F, n)
  BY DEF Sum
<1>5. \A i \in 0 .. n : Len(SealedUpTo[i]) \in Nat
  BY <1>2, LenProperties
<1> QED BY <1>1, <1>2, <1>3, <1>4, <1>5 DEF SealedRoster, n

\* Registering leaves the sealed ballots of the roster as they are.
LEMMA RegisterKeeps ==
  ASSUME VoteInv, NEW v \in Voter, Register(v), UNCHANGED <<sealed, sealedCount>>,
         seatWeight' \in [Voter -> Nat],
         \A w \in Voter : w # v /\ seatWeight'[w] > 0 => seatWeight[w] > 0
  PROVE  VoteInv'
<1> DEFINE n == Len(voters)
<1>1. /\ VoteTypes /\ n \in Nat /\ DOMAIN voters = 1 .. n /\ \A i \in 1 .. n : voters[i] \in Voter
      /\ Seals(voters, sealed) \in [1 .. n -> Int]
  BY RosterLength DEF VoteInv
<1>2. CASE Registered(v)
  <2>1. voters' = voters
    <3>1. \E i \in DOMAIN voters : voters[i] = v
      BY <1>1, <1>2 DEF Registered
    <3> QED BY <3>1 DEF Register
  <2>2. VoteTypes' /\ \A w \in Voter : Registered(w)' <=> Registered(w)
    BY <1>1, <2>1 DEF VoteTypes, Registered
  <2> QED BY <1>2, <2>1, <2>2 DEF VoteInv
<1>3. CASE ~Registered(v)
  <2>1. voters' = Append(voters, v)
    <3>1. ~\E i \in DOMAIN voters : voters[i] = v
      BY <1>1, <1>3 DEF Registered
    <3> QED BY <3>1 DEF Register
  <2>2. voters \in Seq(Voter)
    BY <1>1 DEF VoteTypes
  <2>3. /\ voters' \in Seq(Voter) /\ Len(voters') = n + 1
        /\ \A i \in 1 .. n : voters'[i] = voters[i]
        /\ voters'[n + 1] = v
    BY <2>1, <2>2, <1>1, AppendProperties
  <2>4. \A i, j \in 1 .. Len(voters') : voters'[i] = voters'[j] => i = j
    <3> SUFFICES ASSUME NEW i \in 1 .. n + 1, NEW j \in 1 .. n + 1, voters'[i] = voters'[j] PROVE i = j
      BY <2>3
    <3>1. \A k \in 1 .. n : voters'[k] # v
      BY <1>3, <2>3 DEF Registered
    <3>2. CASE i \in 1 .. n /\ j \in 1 .. n
      BY <1>1, <2>3, <3>2 DEF VoteTypes
    <3>3. CASE i = n + 1 \/ j = n + 1
      <4> HIDE DEF n
      <4> QED BY <1>1, <2>3, <3>1, <3>3
    <3> QED BY <1>1, <3>2, <3>3
  <2>5. VoteTypes'
    BY <1>1, <2>3, <2>4 DEF VoteTypes
  <2>6. Registered(v)' /\ \A w \in Voter : Registered(w) => Registered(w)'
    <3>1. n + 1 \in 1 .. Len(voters') /\ 1 .. n \subseteq 1 .. Len(voters')
      BY <1>1, <2>3
    <3> QED BY <2>3, <3>1 DEF Registered
  <2>7. sealed[v] = NoVote
    BY <1>3 DEF VoteInv
  <2>8. Sum(Seals(voters', sealed), n + 1) = Sum(Seals(voters, sealed), n)
    <3> DEFINE f == Seals(voters', sealed)
               g == Seals(voters, sealed)
    <3>1. /\ f \in [1 .. (n + 1) -> Int] /\ g \in [1 .. n -> Int]
          /\ \A i \in 1 .. n : f[i] = g[i]
          /\ f[n + 1] = 0
      <4>1. n + 1 \in 1 .. n + 1 /\ 1 .. n \subseteq 1 .. n + 1 /\ Len(voters') = n + 1
        BY <1>1, <2>3
      <4>2. f = [i \in 1 .. n + 1 |-> IF sealed[voters'[i]] = NoVote THEN 0 ELSE 1]
        BY <4>1 DEF Seals
      <4>3. g = [i \in 1 .. n |-> IF sealed[voters[i]] = NoVote THEN 0 ELSE 1]
        BY DEF Seals
      <4> HIDE DEF f, g, n
      <4>4. n \in Nat /\ n + 1 \in 1 .. n + 1
        BY <1>1
      <4>5. f \in [1 .. (n + 1) -> Int] /\ g \in [1 .. n -> Int]
        BY <4>2, <4>3
      <4>6. \A i \in 1 .. n : f[i] = g[i]
        BY <2>3, <4>1, <4>2, <4>3
      <4>7. f[n + 1] = 0
        BY <2>3, <2>7, <4>2, <4>4
      <4> QED BY <4>5, <4>6, <4>7
    <3> HIDE DEF f, g, n
    <3>2. Sum(f, n + 1) = Sum(g, n) + f[n + 1]
      BY <1>1, <3>1, SumExtends
    <3>3. Sum(g, n) \in Int
      <4>1. g \in [1 .. n -> Nat] /\ n \in Nat
        BY <1>1, RosterLength DEF g, n
      <4>2. Sum(g, n) \in Nat
        BY <4>1, SumNat
      <4> QED BY <4>2
    <3> QED BY <3>1, <3>2, <3>3 DEF f, g
  <2>9. sealedCount' = Sum(Seals(voters, sealed)', Len(voters'))
    BY <2>3, <2>8 DEF VoteInv, Seals
  <2> QED BY <2>5, <2>6, <2>9 DEF VoteInv
<1> QED BY <1>2, <1>3

\* A voter's first sealed ballot takes a slot, later ones do not.
LEMMA SealKeeps ==
  ASSUME VoteInv, NEW v \in Voter, NEW ct \in Ciphertexts, NoirAssumption, VoteSealed(v, ct)
  PROVE  VoteInv'
<1> DEFINE n == Len(voters)
<1>1. /\ VoteTypes /\ n \in Nat /\ DOMAIN voters = 1 .. n /\ \A i \in 1 .. n : voters[i] \in Voter
      /\ Seals(voters, sealed) \in [1 .. n -> Int]
  BY RosterLength DEF VoteInv
<1>2. /\ sealed' = [sealed EXCEPT ![v] = ct] /\ UNCHANGED <<voters, seatWeight>>
      /\ seatWeight[v] > 0 /\ (sealed[v] = NoVote => sealedCount < NSealedMax)
      /\ sealedCount' = sealedCount + (IF sealed[v] = NoVote THEN 1 ELSE 0)
      /\ ct # NoVote /\ NSealedMax \in Nat
  BY DEF VoteSealed, NoirAssumption
<1>3. PICK m \in 1 .. n : voters[m] = v
  BY <1>2 DEF VoteInv, Registered
<1>4. VoteTypes'
  BY <1>1, <1>2 DEF VoteTypes
<1>5. /\ \A w \in Voter : sealed'[w] = IF w = v THEN ct ELSE sealed[w]
  BY <1>1, <1>2 DEF VoteTypes
<1>6. \A w \in Voter : seatWeight'[w] > 0 \/ sealed'[w] # NoVote => Registered(w)'
  BY <1>2, <1>5 DEF VoteInv, Registered
<1>7. Sum(Seals(voters, sealed'), n) = Sum(Seals(voters, sealed), n) + (IF sealed[v] = NoVote THEN 1 ELSE 0)
  <2> DEFINE f == Seals(voters, sealed)
             g == Seals(voters, sealed')
  <2>1. /\ f \in [1 .. n -> Int] /\ g \in [1 .. n -> Int]
        /\ \A i \in 1 .. n : i # m => g[i] = f[i]
        /\ g[m] - f[m] = IF sealed[v] = NoVote THEN 1 ELSE 0
    <3>1. \A i \in 1 .. n : i # m => voters[i] # v
      BY <1>1, <1>3 DEF VoteTypes
    <3>2. f = [i \in 1 .. n |-> IF sealed[voters[i]] = NoVote THEN 0 ELSE 1]
      BY DEF Seals
    <3>3. g = [i \in 1 .. n |-> IF sealed'[voters[i]] = NoVote THEN 0 ELSE 1]
      BY DEF Seals
    <3> HIDE DEF f, g, n
    <3>4. \A i \in 1 .. n : i # m => sealed'[voters[i]] = sealed[voters[i]]
      BY <1>1, <1>5, <3>1
    <3>5. sealed'[voters[m]] = ct
      BY <1>3, <1>5
    <3>6. f \in [1 .. n -> Int] /\ g \in [1 .. n -> Int]
      BY <3>2, <3>3
    <3>7. \A i \in 1 .. n : i # m => g[i] = f[i]
      BY <3>2, <3>3, <3>4
    <3>8. f[m] = (IF sealed[v] = NoVote THEN 0 ELSE 1) /\ g[m] = 1
      BY <1>2, <1>3, <3>2, <3>3, <3>5
    <3> QED BY <3>6, <3>7, <3>8
  <2> HIDE DEF f, g, n
  <2>2. Sum(g, n) = Sum(f, n) + (g[m] - f[m])
    <3>1. n \in Nat /\ m \in 1 .. n
      BY <1>1, <1>3
    <3>2. f \in [1 .. n -> Int] /\ g \in [1 .. n -> Int]
      BY <2>1
    <3>3. \A i \in 1 .. n : i # m => g[i] = f[i]
      BY <2>1
    <3> QED BY ONLY <3>1, <3>2, <3>3, SumChanges
  <2> DEFINE d == g[m] - f[m]
  <2>3. Sum(g, n) = Sum(f, n) + d /\ d = IF sealed[v] = NoVote THEN 1 ELSE 0
    BY <2>1, <2>2
  <2> HIDE DEF d
  <2>4. Sum(g, n) = Sum(f, n) + (IF sealed[v] = NoVote THEN 1 ELSE 0)
    BY <2>3
  <2> QED BY <2>4 DEF f, g
<1>8. sealedCount' = Sum(Seals(voters, sealed)', Len(voters'))
  BY <1>2, <1>7 DEF VoteInv, Seals
<1>9. sealedCount \in Nat /\ sealedCount <= NSealedMax
  <2>1. sealedCount \in Nat
    BY RosterCount
  <2> QED BY <2>1 DEF VoteInv
<1>10. sealedCount' <= NSealedMax
  <2>1. CASE sealed[v] = NoVote
    <3>1. sealedCount < NSealedMax /\ sealedCount' = sealedCount + 1
      BY <1>2, <2>1
    <3> QED BY <1>2, <1>9, <3>1
  <2>2. CASE sealed[v] # NoVote
    <3>1. sealedCount' = sealedCount + 0
      BY <1>2, <2>2
    <3> QED BY <1>9, <3>1
  <2> QED BY <2>1, <2>2
<1> QED BY <1>4, <1>6, <1>8, <1>10 DEF VoteInv

\* The number of the batch that the j-th sealed ballot falls into.
BatchOf(j, b) == (j + b - 1) \div b

LEMMA Ceiling ==
  ASSUME NEW j \in Nat, NEW b \in Nat \ {0}
  PROVE  /\ BatchOf(j, b) \in Nat
         /\ j <= BatchOf(j, b) * b /\ BatchOf(j, b) * b < j + b
         /\ \A k \in Nat : j <= k * b /\ k * b < j + b => k = BatchOf(j, b)
         /\ j % b = 0 <=> BatchOf(j, b) * b = j
<1> DEFINE x == j + b - 1
           q == BatchOf(j, b)
<1>1. x \in Nat /\ b \in Nat /\ b > 0
  OBVIOUS
<1>2. q \in Nat /\ q * b <= x /\ x < (q + 1) * b
  <2>1. q = x \div b
    BY DEF x, BatchOf
  <2> HIDE DEF x, q
  <2> QED BY <1>1, <2>1, Quotient
<1> HIDE DEF q
<1>3. q * b \in Nat /\ (q + 1) * b = q * b + b
  BY <1>2
<1>4. j <= q * b /\ q * b < j + b
  BY <1>2, <1>3
<1>5. ASSUME NEW k \in Nat, j <= k * b, k * b < j + b
      PROVE  k = q
  <2>1. k * b \in Nat /\ (k + 1) * b = k * b + b
    OBVIOUS
  <2>2. k * b < (q + 1) * b /\ q * b < (k + 1) * b
    BY <1>3, <1>4, <1>5, <2>1
  <2>3. k < q + 1 /\ q < k + 1
    BY <1>1, <1>2, <2>2, ProductOrder
  <2> QED BY <1>2, <2>3
<1>6. j % b = 0 <=> q * b = j
  <2>1. PICK d, r : d = j \div b /\ r = j % b
    OBVIOUS
  <2>2. d \in Nat /\ r \in 0 .. b - 1 /\ j = d * b + r /\ d * b \in Nat
    BY <2>1
  <2>3. ASSUME r = 0 PROVE q * b = j
    <3>1. j <= d * b /\ d * b < j + b
      BY <2>2, <2>3
    <3>2. d = q
      BY <1>5, <2>2, <3>1
    <3> QED BY <2>2, <2>3, <3>2
  <2>4. ASSUME q * b = j PROVE r = 0
    <3>1. d * b <= q * b /\ q * b < (d + 1) * b /\ d * b < (q + 1) * b
      BY <1>3, <2>2, <2>4
    <3>2. q < d + 1 /\ d < q + 1
      BY <1>1, <1>2, <2>2, <3>1, ProductOrder
    <3>3. q = d
      BY <1>2, <2>2, <3>2
    <3> QED BY <2>2, <2>4, <3>3
  <2> QED BY <2>1, <2>3, <2>4
<1> QED BY <1>2, <1>4, <1>5, <1>6 DEF q

LEMMA CeilingMonotone ==
  ASSUME NEW x \in Nat, NEW y \in Nat, x <= y, NEW b \in Nat \ {0}
  PROVE  BatchOf(x, b) <= BatchOf(y, b)
<1>1. PICK p, q : p = BatchOf(x, b) /\ q = BatchOf(y, b)
  OBVIOUS
<1>2. p \in Nat /\ p * b < x + b /\ q \in Nat /\ y <= q * b
  BY <1>1, Ceiling
<1>3. p * b \in Nat /\ q * b \in Nat /\ (q + 1) * b = q * b + b
  BY <1>2
<1>4. p * b < (q + 1) * b
  BY <1>2, <1>3
<1>5. p < q + 1
  BY <1>2, <1>4, ProductOrder
<1> QED BY <1>1, <1>2, <1>5

\* What a sequence starts with does not depend on what is appended to it.
LEMMA SubSeqOfAppend ==
  ASSUME NEW S, NEW s \in Seq(S), NEW e \in S, NEW m \in 0 .. Len(s)
  PROVE  SubSeq(Append(s, e), 1, m) = SubSeq(s, 1, m)
<1>1. /\ Len(s) \in Nat /\ \A i \in 1 .. Len(s) : s[i] \in S
      /\ \A i \in 1 .. Len(s) : Append(s, e)[i] = s[i]
  BY LenProperties, ElementOfSeq, AppendProperties
<1>2. m \in Int /\ 1 \in Int /\ \A i \in 1 .. m : s[i] \in S /\ Append(s, e)[i] = s[i]
  BY <1>1
<1> DEFINE t == Append(s, e)
<1>3. \A i \in 1 .. m : t[i] \in S /\ t[i] = s[i]
  BY <1>2
<1> HIDE DEF t
<1>4. /\ SubSeq(s, 1, m) \in Seq(S) /\ Len(SubSeq(s, 1, m)) = IF 1 <= m THEN m - 1 + 1 ELSE 0
      /\ \A i \in 1 .. m - 1 + 1 : SubSeq(s, 1, m)[i] = s[1 + i - 1]
  BY <1>2, SubSeqProperties
<1>5. /\ SubSeq(t, 1, m) \in Seq(S) /\ Len(SubSeq(t, 1, m)) = IF 1 <= m THEN m - 1 + 1 ELSE 0
      /\ \A i \in 1 .. m - 1 + 1 : SubSeq(t, 1, m)[i] = t[1 + i - 1]
  BY <1>2, <1>3, SubSeqProperties
<1> DEFINE u == SubSeq(s, 1, m)
           v == SubSeq(t, 1, m)
<1>6. m - 1 + 1 = m /\ \A i \in 1 .. m : 1 + i - 1 = i
  BY <1>1
<1>7. u \in Seq(S) /\ v \in Seq(S) /\ Len(u) = Len(v) /\ \A i \in 1 .. Len(u) : u[i] = v[i]
  <2>1. Len(u) = m /\ Len(v) = m
    BY <1>1, <1>4, <1>5
  <2>2. \A i \in 1 .. m : u[i] = s[i] /\ v[i] = t[i]
    BY <1>4, <1>5, <1>6
  <2> HIDE DEF u, v
  <2>3. \A i \in 1 .. m : u[i] = v[i]
    BY <1>3, <2>2
  <2>4. u \in Seq(S) /\ v \in Seq(S)
    BY <1>4, <1>5 DEF u, v
  <2> QED BY <2>1, <2>3, <2>4
<1> HIDE DEF u, v
<1>8. u = v
  BY <1>7, SeqEqual
<1> QED BY <1>8 DEF u, v, t

-----------------------------------------------------------------------------
(* NoirRankedShares: closing walks the roster.                             *)

\* What the checkpoint of batch k holds once the chain over the sealed
\* ballots has come to `chain`.
CheckpointAt(chain, k) ==
  IF k * Batch <= Len(chain) THEN SubSeq(chain, 1, k * Batch)
  ELSE IF Len(chain) = sealedCount /\ k * Batch < Len(chain) + Batch THEN chain
  ELSE << >>

CheckpointsAt(chain) == [k \in 0 .. MaxBatches |-> CheckpointAt(chain, k)]

\* The walk after the first i voters.
WalkedTo(pub, i) ==
  [pub |-> pub, chain |-> SealedUpTo[i], j |-> Len(SealedUpTo[i]), checkpoint |-> CheckpointsAt(SealedUpTo[i])]

LEMMA BatchCounts ==
  ASSUME VoteInv
  PROVE  /\ Batch \in Nat \ {0} /\ NSealedMax \in Nat \ {0} /\ MaxBatches \in Nat \ {0}
         /\ Total \in Nat \ {0} /\ Total <= MaxBatches
         /\ sealedCount \in Nat /\ sealedCount <= NSealedMax
         /\ ((sealedCount <= Total * Batch /\ Total * Batch < sealedCount + Batch) \/ sealedCount = 0)
<1>1. /\ Batch \in Nat \ {0} /\ NSealedMax \in Nat \ {0}
      /\ sealedCount \in Nat /\ sealedCount <= NSealedMax
  BY NoirAssumption, RosterCount DEF NoirAssumption, VoteInv
<1>2. /\ MaxBatches \in Nat /\ NSealedMax <= MaxBatches * Batch
      /\ MaxBatches = BatchOf(NSealedMax, Batch)
  <2>1. MaxBatches = BatchOf(NSealedMax, Batch)
    BY DEF MaxBatches, BatchOf
  <2> QED BY <1>1, <2>1, Ceiling
<1>3. MaxBatches # 0
  BY <1>1, <1>2
<1>4. CASE sealedCount = 0
  BY <1>1, <1>2, <1>3, <1>4 DEF Total
<1>5. CASE sealedCount # 0
  <2>1. Total = BatchOf(sealedCount, Batch)
    BY <1>5 DEF Total, BatchOf
  <2>2. Total \in Nat /\ sealedCount <= Total * Batch /\ Total * Batch < sealedCount + Batch
    BY <1>1, <2>1, Ceiling
  <2>3. Total <= MaxBatches
    BY <1>1, <1>2, <2>1, CeilingMonotone
  <2>4. Total # 0
    BY <1>1, <1>5, <2>2
  <2> QED BY <1>1, <1>2, <1>3, <2>2, <2>3, <2>4
<1> QED BY <1>4, <1>5

\* Before the first sealed ballot every checkpoint is still empty.
LEMMA EmptyCheckpoints ==
  ASSUME sealedCount \in Nat
  PROVE  CheckpointsAt(<< >>) = [k \in 0 .. MaxBatches |-> << >>]
<1>1. ASSUME NEW k \in 0 .. MaxBatches PROVE CheckpointAt(<< >>, k) = << >>
  <2>1. Len(<< >>) = 0
    BY EmptySeq
  <2>2. CASE k * Batch <= 0
    <3>1. Batch \in Nat /\ k \in Nat /\ k * Batch \in Int
      BY NoirAssumption DEF NoirAssumption
    <3>2. SubSeq(<< >>, 1, k * Batch) = << >>
      BY <2>2, <3>1, SubSeqEmpty
    <3> QED BY <3>2 DEF CheckpointAt
  <2>3. CASE ~(k * Batch <= 0)
    BY <2>1, <2>3 DEF CheckpointAt
  <2> QED BY <2>2, <2>3
<1> QED BY <1>1 DEF CheckpointsAt

\* One more sealed ballot updates the checkpoint of its batch, if it is due.
LEMMA CheckpointsGrow ==
  ASSUME VoteInv, NEW chain \in Seq(SealedEntry), NEW e \in SealedEntry, Len(chain) + 1 <= sealedCount,
         NEW j, j = Len(chain) + 1, NEW longer, longer = Append(chain, e)
  PROVE  CheckpointsAt(longer) =
           IF j % Batch = 0 \/ j = sealedCount
           THEN [CheckpointsAt(chain) EXCEPT ![(j + Batch - 1) \div Batch] = longer]
           ELSE CheckpointsAt(chain)
<1> DEFINE q == BatchOf(j, Batch)
<1>1. /\ Batch \in Nat \ {0} /\ sealedCount \in Nat /\ sealedCount <= NSealedMax /\ NSealedMax \in Nat
      /\ Len(chain) \in Nat /\ j \in Nat /\ j <= sealedCount /\ Len(chain) = j - 1
      /\ longer \in Seq(SealedEntry) /\ Len(longer) = j
  BY BatchCounts, LenProperties, AppendProperties
<1>2. /\ q \in Nat /\ j <= q * Batch /\ q * Batch < j + Batch
      /\ \A k \in Nat : j <= k * Batch /\ k * Batch < j + Batch => k = q
      /\ j % Batch = 0 <=> q * Batch = j
  <2>1. j \in Nat /\ Batch \in Nat \ {0}
    BY <1>1
  <2> QED BY <2>1, Ceiling
<1>3. q \in 0 .. MaxBatches
  <2>1. q <= MaxBatches
    <3>1. MaxBatches = BatchOf(NSealedMax, Batch)
      BY DEF MaxBatches, BatchOf
    <3>2. j <= NSealedMax
      BY <1>1
    <3> QED BY <1>1, <3>1, <3>2, CeilingMonotone
  <2>2. MaxBatches \in Nat
    BY BatchCounts
  <2> HIDE DEF q
  <2> QED BY <1>2, <2>1, <2>2
<1> HIDE DEF q
<1>4. ASSUME NEW k \in 0 .. MaxBatches
      PROVE  CheckpointAt(longer, k) =
               IF (j % Batch = 0 \/ j = sealedCount) /\ k = q THEN longer ELSE CheckpointAt(chain, k)
  <2>1. k \in Nat /\ k * Batch \in Nat
    BY <1>1
  <2>2. PICK b \in Nat : b = k * Batch
    BY <2>1
  <2>3. CASE b <= j - 1
    <3>1. CheckpointAt(chain, k) = SubSeq(chain, 1, b) /\ CheckpointAt(longer, k) = SubSeq(longer, 1, b)
      BY <1>1, <2>2, <2>3 DEF CheckpointAt
    <3>2. b \in 0 .. Len(chain)
      BY <1>1, <2>2, <2>3
    <3>3. SubSeq(longer, 1, b) = SubSeq(chain, 1, b)
      BY <3>2, SubSeqOfAppend
    <3>4. k # q
      BY <1>1, <1>2, <2>2, <2>3
    <3> QED BY <3>1, <3>3, <3>4
  <2>4. CASE b = j
    <3>1. k = q
      BY <1>1, <1>2, <2>1, <2>2, <2>4
    <3>2. j % Batch = 0
      BY <1>2, <2>2, <2>4, <3>1
    <3>3. CheckpointAt(longer, k) = SubSeq(longer, 1, Len(longer))
      BY <1>1, <2>2, <2>4 DEF CheckpointAt
    <3>4. SubSeq(longer, 1, Len(longer)) = longer
      BY <1>1, SubSeqFull
    <3> QED BY <3>1, <3>2, <3>3, <3>4
  <2>5. CASE b > j
    <3>1. /\ CheckpointAt(longer, k) = IF j = sealedCount /\ b < j + Batch THEN longer ELSE << >>
          /\ CheckpointAt(chain, k) = << >>
      <4>1. ~(b <= j) /\ ~(b <= j - 1) /\ j - 1 # sealedCount
        <5>1. b \in Nat /\ j \in Nat /\ sealedCount \in Nat /\ j <= sealedCount
          BY <1>1, <2>2
        <5> QED BY ONLY <5>1, <2>5
      <4>2. CheckpointAt(longer, k) = IF j = sealedCount /\ b < j + Batch THEN longer ELSE << >>
        BY <1>1, <2>2, <4>1 DEF CheckpointAt
      <4>3. CheckpointAt(chain, k) = << >>
        BY <1>1, <2>2, <4>1 DEF CheckpointAt
      <4> QED BY <4>2, <4>3
    <3>2. (j % Batch = 0 \/ j = sealedCount) /\ k = q <=> j = sealedCount /\ b < j + Batch
      BY <1>1, <1>2, <2>1, <2>2, <2>5
    <3> QED BY <3>1, <3>2
  <2> QED BY <1>1, <2>2, <2>3, <2>4, <2>5
<1> DEFINE old == CheckpointsAt(chain)
<1>5. old = [k \in 0 .. MaxBatches |-> CheckpointAt(chain, k)]
  BY DEF CheckpointsAt
<1>6. CheckpointsAt(longer) = [k \in 0 .. MaxBatches |-> CheckpointAt(longer, k)]
  BY DEF CheckpointsAt
<1> HIDE DEF old
<1>7. CASE j % Batch = 0 \/ j = sealedCount
  <2>1. CheckpointsAt(longer) = [old EXCEPT ![q] = longer]
    BY <1>3, <1>4, <1>5, <1>6, <1>7
  <2> QED BY <1>7, <2>1 DEF q, old, BatchOf
<1>8. CASE ~(j % Batch = 0 \/ j = sealedCount)
  <2>1. CheckpointsAt(longer) = old
    BY <1>4, <1>5, <1>6, <1>8
  <2> QED BY <1>8, <2>1 DEF old
<1> QED BY <1>7, <1>8

LEMMA WalkVoterStep ==
  ASSUME VoteInv, NEW i \in 1 .. Len(voters), NEW pub
  PROVE  \E p : WalkVoter(WalkedTo(pub, i - 1), voters[i]) = WalkedTo(p, i)
<1> DEFINE v == voters[i]
           chain == SealedUpTo[i - 1]
           p == IF v \in hasDirect THEN Append(pub, v) ELSE pub
           w == WalkedTo(pub, i - 1)
<1>1. /\ Len(voters) \in Nat /\ i - 1 \in 0 .. Len(voters) /\ i \in 0 .. Len(voters)
      /\ SealedUpTo[i] = IF sealed[v] = NoVote THEN chain ELSE Append(chain, Entry(v))
      /\ Entry(v) \in SealedEntry
  <2>1. Len(voters) \in Nat /\ Entry(v) \in SealedEntry
    BY RosterLength DEF VoteInv
  <2> QED BY <2>1, SealedUpToUnfold
<1>2. /\ chain \in Seq(SealedEntry) /\ Len(chain) \in Nat
      /\ Len(SealedUpTo[i]) <= sealedCount
  BY <1>1, RosterCount
<1>3. /\ w.pub = pub /\ w.chain = chain /\ w.j = Len(chain) /\ w.checkpoint = CheckpointsAt(chain)
      /\ [w EXCEPT !.pub = p] = WalkedTo(p, i - 1)
  <2> DEFINE checkpoints == CheckpointsAt(chain)
  <2>1. w = [pub |-> pub, chain |-> chain, j |-> Len(chain), checkpoint |-> checkpoints]
    BY DEF WalkedTo
  <2>2. WalkedTo(p, i - 1) = [pub |-> p, chain |-> chain, j |-> Len(chain), checkpoint |-> checkpoints]
    BY DEF WalkedTo
  <2> HIDE DEF w, p, chain, checkpoints
  <2>3. w.pub = pub /\ w.chain = chain /\ w.j = Len(chain) /\ w.checkpoint = checkpoints
    BY <2>1
  <2>4. [w EXCEPT !.pub = p] = WalkedTo(p, i - 1)
    BY <2>1, <2>2
  <2> QED BY <2>3, <2>4 DEF checkpoints
<1> HIDE DEF w, p, v, chain
<1>4. CASE sealed[v] = NoVote
  <2>1. WalkVoter(w, v) = [w EXCEPT !.pub = IF v \in hasDirect THEN Append(w.pub, v) ELSE w.pub]
    BY <1>4 DEF WalkVoter
  <2>2. WalkVoter(w, v) = WalkedTo(p, i - 1)
    BY <1>3, <2>1 DEF p
  <2>3. WalkedTo(p, i - 1) = WalkedTo(p, i)
    BY <1>1, <1>4 DEF WalkedTo, chain
  <2> QED BY <2>2, <2>3 DEF w, v
<1>5. CASE sealed[v] # NoVote
  <2> DEFINE j == Len(chain) + 1
             longer == Append(chain, Entry(v))
  <2>1. SealedUpTo[i] = longer /\ Len(longer) = j /\ j <= sealedCount
    <3>1. SealedUpTo[i] = longer
      BY <1>1, <1>5
    <3>2. Len(longer) = j
      BY <1>1, <1>2, AppendProperties
    <3> QED BY <1>2, <3>1, <3>2
  <2>2. WalkVoter(w, v) =
          [pub |-> p, chain |-> longer, j |-> j,
           checkpoint |-> IF j % Batch = 0 \/ j = sealedCount
                          THEN [CheckpointsAt(chain) EXCEPT ![(j + Batch - 1) \div Batch] = longer]
                          ELSE CheckpointsAt(chain)]
    BY <1>3, <1>5 DEF WalkVoter, p
  <2>3. CheckpointsAt(longer) =
          IF j % Batch = 0 \/ j = sealedCount
          THEN [CheckpointsAt(chain) EXCEPT ![(j + Batch - 1) \div Batch] = longer]
          ELSE CheckpointsAt(chain)
    BY <1>1, <1>2, <2>1, CheckpointsGrow
  <2>4. WalkedTo(p, i) = [pub |-> p, chain |-> longer, j |-> j, checkpoint |-> CheckpointsAt(longer)]
    BY <2>1 DEF WalkedTo
  <2> QED BY <2>2, <2>3, <2>4 DEF w, v
<1> QED BY <1>4, <1>5

\* The loop of close exists, and walks on voter by voter.
LEMMA WalkedFollows ==
  ASSUME VoteInv, closeCursor \in 0 .. Len(voters), Walk = WalkedTo(hPub, closeCursor),
         NEW end \in closeCursor .. Len(voters)
  PROVE  \E pub : Walked(end) = WalkedTo(pub, end)
<1> DEFINE a == closeCursor
           Step(x, i) == WalkVoter(x, voters[i])
           IsLoop(f, k) == f = [i \in a .. k |-> IF i = a THEN Walk ELSE Step(f[i - 1], i)]
           G == {k \in Nat : \E f : IsLoop(f, a + k)}
<1>1. a \in Nat /\ end \in a .. Len(voters) /\ Len(voters) \in Nat
  BY RosterLength DEF VoteInv
<1> HIDE DEF Step, a
<1>2. 0 \in G
  <2> DEFINE f == [i \in a .. a |-> Walk]
  <2>1. IsLoop(f, a)
    BY <1>1
  <2>2. a + 0 = a
    BY <1>1
  <2> HIDE DEF IsLoop, f
  <2> QED BY <2>1, <2>2
<1>3. ASSUME NEW k \in G PROVE k + 1 \in G
  <2>1. PICK f : IsLoop(f, a + k)
    OBVIOUS
  <2> DEFINE m == a + k
             g == [i \in a .. (m + 1) |-> IF i = m + 1 THEN Step(f[m], m + 1) ELSE f[i]]
  <2>2. m \in Nat /\ m >= a /\ a + (k + 1) = m + 1 /\ a \in Nat /\ IsLoop(f, m)
    BY <1>1, <2>1
  <2> HIDE DEF m
  <2>3. \A i \in a .. (m + 1) : g[i] = IF i = a THEN Walk ELSE Step(g[i - 1], i)
    <3> TAKE i \in a .. (m + 1)
    <3>1. CASE i = m + 1
      <4>1. g[i] = Step(f[m], m + 1) /\ g[i - 1] = f[m] /\ i # a
        BY <2>2, <3>1
      <4> HIDE DEF g
      <4> QED BY <3>1, <4>1
    <3>2. CASE i # m + 1
      <4>1. i \in a .. m /\ g[i] = f[i] /\ (i # a => g[i - 1] = f[i - 1])
        BY <2>2, <3>2
      <4>2. f[i] = IF i = a THEN Walk ELSE Step(f[i - 1], i)
        BY <4>1, <2>2
      <4> HIDE DEF g
      <4> QED BY <4>1, <4>2
    <3> QED BY <3>1, <3>2
  <2>4. IsLoop(g, m + 1)
    <3>1. g = [i \in a .. (m + 1) |-> g[i]]
      OBVIOUS
    <3> HIDE DEF g
    <3> QED BY <2>3, <3>1
  <2> HIDE DEF g, IsLoop
  <2> QED BY <2>2, <2>4
<1>4. \E f : IsLoop(f, end)
  <2>1. G = Nat
    <3> HIDE DEF G
    <3> G \in SUBSET Nat
      BY DEF G
    <3> QED BY <1>2, <1>3, InductionOnSets
  <2>2. PICK k \in Nat : a + k = end
    <3>1. end - a \in Nat /\ a + (end - a) = end
      BY <1>1
    <3> QED BY <3>1
  <2> HIDE DEF IsLoop
  <2> QED BY <2>1, <2>2
<1> DEFINE walked == CHOOSE f : IsLoop(f, end)
<1>5. IsLoop(walked, end)
  <2> HIDE DEF IsLoop
  <2> QED BY <1>4
<1>6. Walked(end) = walked[end]
  BY DEF Walked, Step, a
<1> HIDE DEF walked
<1>7. walked[a] = Walk /\ \A i \in (a + 1) .. end : walked[i] = Step(walked[i - 1], i)
  BY <1>1, <1>5
<1> DEFINE H == {k \in Nat : a + k <= end => \E pub : walked[a + k] = WalkedTo(pub, a + k)}
<1> HIDE DEF IsLoop
<1>8. 0 \in H
  <2>1. a + 0 = a /\ Walk = WalkedTo(hPub, a)
    BY <1>1 DEF a
  <2> QED BY <1>7, <2>1
<1>9. ASSUME NEW k \in H PROVE k + 1 \in H
  <2> SUFFICES ASSUME a + (k + 1) <= end
               PROVE  \E pub : walked[a + (k + 1)] = WalkedTo(pub, a + (k + 1))
    OBVIOUS
  <2>1. PICK i : i = a + (k + 1)
    OBVIOUS
  <2>2. i - 1 = a + k /\ i \in (a + 1) .. end /\ i \in 1 .. Len(voters) /\ a + k <= end
    BY <1>1, <2>1
  <2>3. PICK pub : walked[i - 1] = WalkedTo(pub, i - 1)
    BY <2>2
  <2>4. walked[i] = WalkVoter(WalkedTo(pub, i - 1), voters[i])
    BY <1>7, <2>2, <2>3 DEF Step
  <2>5. \E p : walked[i] = WalkedTo(p, i)
    BY <2>2, <2>4, WalkVoterStep
  <2> QED BY <2>1, <2>5
<1>10. H = Nat
  <2> HIDE DEF H
  <2> H \in SUBSET Nat
    BY DEF H
  <2> QED BY <1>8, <1>9, InductionOnSets
<1>11. PICK k \in Nat : a + k = end
  <2>1. end - a \in Nat /\ a + (end - a) = end
    BY <1>1
  <2> QED BY <2>1
<1>12. a + k <= end => \E pub : walked[a + k] = WalkedTo(pub, a + k)
  BY <1>10
<1>13. \E pub : walked[end] = WalkedTo(pub, end)
  BY <1>1, <1>11, <1>12
<1> QED BY <1>6, <1>13

\* What phase allows, and that closing has walked the roster up to closeCursor.
PhaseInv ==
  /\ pastDeadline \in BOOLEAN /\ closed \in BOOLEAN
  /\ ~pastDeadline => closeCursor = 0 /\ ~closed
  /\ reported \in Transcripts \cup {NoReport}

CloseInv ==
  /\ closeCursor \in 0 .. Len(voters)
  /\ Walk = WalkedTo(hPub, closeCursor)
  /\ closed => closeCursor = Len(voters) /\ numBatches = Total
  /\ ~closed => numBatches = 0

LEMMA PhaseFacts ==
  ASSUME PhaseInv
  PROVE  /\ phase = "Open" => finality = "None" /\ ~closed /\ ~pastDeadline /\ closeCursor = 0
         /\ phase = "Closing" => finality = "None" /\ ~closed /\ pastDeadline
         /\ phase = "Tally" => finality = "None" /\ closed /\ pastDeadline
<1>1. CASE finality # "None"
  BY <1>1 DEF phase
<1>2. CASE finality = "None" /\ closed
  BY <1>2 DEF phase, PhaseInv
<1>3. CASE finality = "None" /\ ~closed /\ pastDeadline
  BY <1>3 DEF phase, PhaseInv
<1>4. CASE finality = "None" /\ ~closed /\ ~pastDeadline
  BY <1>4 DEF phase, PhaseInv
<1> QED BY <1>1, <1>2, <1>3, <1>4 DEF PhaseInv

\* Nothing is walked before closing starts, whatever the roster.
LEMMA NothingWalked ==
  VoteInv => \A pub : WalkedTo(pub, 0) = [pub |-> pub, chain |-> << >>, j |-> 0,
                                          checkpoint |-> [k \in 0 .. MaxBatches |-> << >>]]
<1> SUFFICES ASSUME VoteInv
             PROVE  \A pub : WalkedTo(pub, 0) = [pub |-> pub, chain |-> << >>, j |-> 0,
                                                 checkpoint |-> [k \in 0 .. MaxBatches |-> << >>]]
  OBVIOUS
<1>1. SealedUpTo[0] = << >> /\ Len(<< >>) = 0
  BY RosterLength, SealedUpToUnfold, EmptySeq DEF VoteInv
<1>2. CheckpointsAt(<< >>) = [k \in 0 .. MaxBatches |-> << >>]
  BY RosterCount, EmptyCheckpoints
<1> QED BY <1>1, <1>2 DEF WalkedTo

LEMMA NothingWalkedNext ==
  (VoteInv => \A pub : WalkedTo(pub, 0) = [pub |-> pub, chain |-> << >>, j |-> 0,
                                           checkpoint |-> [k \in 0 .. MaxBatches |-> << >>]])'
BY NothingWalked, PTL

\* While the pool is open, closing stays where it starts.
LEMMA OpenKeeps ==
  ASSUME VoteInv, VoteInv', PhaseInv, CloseInv, phase = "Open",
         UNCHANGED <<pastDeadline, closeVars, reportVars>>
  PROVE  PhaseInv' /\ CloseInv'
<1>1. ~closed /\ closeCursor = 0 /\ closeCursor' = 0 /\ ~closed' /\ numBatches' = 0
  BY PhaseFacts DEF closeVars, CloseInv
<1>2. PhaseInv'
  BY <1>1 DEF PhaseInv, closeVars, reportVars
<1>3. Len(voters)' \in Nat
  BY LenProperties DEF VoteInv, VoteTypes
<1>4. Walk' = Walk /\ hPub' = hPub
  BY DEF Walk, closeVars
<1>5. WalkedTo(hPub, 0)' = WalkedTo(hPub, 0)
  <2> DEFINE empty == [k \in 0 .. MaxBatches |-> << >>]
  <2>1. WalkedTo(hPub, 0) = [pub |-> hPub, chain |-> << >>, j |-> 0, checkpoint |-> empty]
    BY NothingWalked
  <2>2. WalkedTo(hPub, 0)' = [pub |-> hPub', chain |-> << >>, j |-> 0, checkpoint |-> empty']
    BY NothingWalkedNext
  <2>3. empty' = empty
    BY DEF MaxBatches
  <2> HIDE DEF empty
  <2> QED BY <1>4, <2>1, <2>2, <2>3
<1>6. CloseInv'
  BY <1>1, <1>3, <1>4, <1>5 DEF CloseInv
<1> QED BY <1>2, <1>6

\* What closing looks at stays as it is once the vote is over.
LEMMA WalkedSame ==
  ASSUME UNCHANGED voteVars, NEW pub, NEW i
  PROVE  WalkedTo(pub, i)' = WalkedTo(pub, i) /\ SealedUpTo' = SealedUpTo /\ Total' = Total
<1>1. SealedUpTo' = SealedUpTo
  BY SMT DEF SealedUpTo, Entry, voteVars
<1>2. sealedCount' = sealedCount
  BY DEF voteVars
<1>3. \A k : CheckpointAt(SealedUpTo[i], k)' = CheckpointAt(SealedUpTo[i], k)
  BY <1>1, <1>2 DEF CheckpointAt
<1>4. CheckpointsAt(SealedUpTo[i])' = CheckpointsAt(SealedUpTo[i])
  BY <1>1, <1>3 DEF CheckpointsAt, MaxBatches
<1>5. Total' = Total
  BY <1>2 DEF Total
<1> QED BY <1>1, <1>4, <1>5 DEF WalkedTo

LEMMA VoteSame ==
  ASSUME VoteInv, UNCHANGED voteVars
  PROVE  VoteInv'
BY DEF VoteInv, VoteTypes, Registered, Seals, voteVars

LEMMA CloseSame ==
  ASSUME CloseInv, UNCHANGED <<voteVars, closeVars>>
  PROVE  CloseInv'
<1>1. WalkedTo(hPub, closeCursor)' = WalkedTo(hPub, closeCursor) /\ Total' = Total
  <2>1. \A pub, i : WalkedTo(pub, i)' = WalkedTo(pub, i) /\ Total' = Total
    BY WalkedSame
  <2> QED BY <2>1 DEF closeVars, WalkedTo
<1> QED BY <1>1 DEF CloseInv, Walk, closeVars, voteVars

LEMMA CloseKeeps ==
  ASSUME VoteInv, PhaseInv, CloseInv, NEW maxVoters \in Nat, Close(maxVoters)
  PROVE  VoteInv' /\ PhaseInv' /\ CloseInv'
<1> DEFINE end == IF closeCursor + maxVoters > Len(voters) THEN Len(voters) ELSE closeCursor + maxVoters
           w == Walked(end)
<1>1. /\ phase = "Closing" /\ closeCursor' = end
      /\ hPub' = w.pub /\ hSealed' = w.chain /\ sealedCursor' = w.j /\ checkpoint' = w.checkpoint
      /\ closed' = (end = Len(voters))
      /\ numBatches' = IF end # Len(voters) THEN numBatches
                       ELSE IF sealedCount = 0 THEN 1 ELSE (sealedCount + Batch - 1) \div Batch
      /\ UNCHANGED <<voteVars, pastDeadline, reportVars>>
  BY DEF Close
<1>2. end \in closeCursor .. Len(voters) /\ end \in 0 .. Len(voters)
  <2>1. Len(voters) \in Nat /\ closeCursor \in 0 .. Len(voters)
    BY RosterLength DEF VoteInv, CloseInv
  <2> QED BY <2>1
<1> HIDE DEF end
<1>3. PICK pub : w = WalkedTo(pub, end)
  BY <1>2, WalkedFollows DEF CloseInv
<1> HIDE DEF w
<1>4. Walk' = WalkedTo(hPub, closeCursor)'
  <2>1. Walk' = [pub |-> w.pub, chain |-> w.chain, j |-> w.j, checkpoint |-> w.checkpoint]
    BY <1>1 DEF Walk
  <2>2. Walk' = WalkedTo(pub, end) /\ hPub' = pub
    BY <1>1, <1>3, <2>1 DEF WalkedTo
  <2>3. \A p, i : WalkedTo(p, i)' = WalkedTo(p, i)
    BY <1>1, WalkedSame
  <2> QED BY <1>1, <2>2, <2>3 DEF WalkedTo
<1>5. numBatches' = IF end # Len(voters) THEN numBatches ELSE Total
  BY <1>1 DEF Total
<1>6. ~closed /\ pastDeadline /\ pastDeadline' /\ Total' = Total /\ voters' = voters
  BY <1>1, PhaseFacts, WalkedSame DEF voteVars
<1>7. CloseInv'
  BY <1>1, <1>2, <1>4, <1>5, <1>6 DEF CloseInv
<1>8. PhaseInv'
  BY <1>1, <1>6 DEF PhaseInv, reportVars
<1> QED BY <1>1, <1>7, <1>8, VoteSame

-----------------------------------------------------------------------------
(* Prover: the chain of proofs.                                            *)

\* Batches come first, each taking the committed state one batch further; from
\* then on it is the state after every batch and some groups, and a round was
\* only proven with the groups of the transcript that was reported.  What ends
\* a round otherwise is the list of the report, or none without one.
StateOK(cursor, state, ingested, how, order) ==
  /\ cursor \in 0 .. numBatches
  /\ cursor < numBatches => state = StateAfter(cursor, << >>)
  /\ cursor = numBatches => /\ ingested = StateAfter(numBatches, << >>)
                            /\ \E g : state = StateAfter(numBatches, g)
  /\ how = "Proven" => /\ closed /\ cursor = numBatches /\ reported # NoReport
                       /\ state = StateAfter(numBatches, Groups(reported))
                       /\ order = OrderOf(reported)
  /\ how = "Attested" => reported # NoReport /\ order = OrderOf(reported)
  /\ how = "Abandoned" => reported = NoReport /\ order = << >>

ChainInv == StateOK(ingestCursor, stateCommit, ingestedState, finality, fundedOrder)

\* The same of the copy that a call works on, unless a proof was refused.
ChainOK(c) ==
  \E cursor, state, ingested, how, order, ok :
    /\ c = [ingestCursor |-> cursor, state |-> state, ingested |-> ingested,
            finality |-> how, order |-> order, ok |-> ok]
    /\ ok => StateOK(cursor, state, ingested, how, order)

IsProof(p) ==
  (\E k : p = IngestProof(k)) \/ (\E groups : p = TallyProof(groups)) \/ p.about # ThisRound

LEMMA ForeignIsProof ==
  ASSUME NEW p \in ForeignProofs
  PROVE  IsProof(p)
<1>1. ThisRound # OtherRound
  BY DEF ThisRound, OtherRound
<1>2. ASSUME NEW k, p = Foreign(IngestProof(k)) PROVE IsProof(p)
  <2> DEFINE q == IngestProof(k)
             out == Misread(q.stateOut)
             other == OtherRound
             z == [q EXCEPT !.about = other, !.stateOut = out]
  <2>1. p = z
    BY <1>2 DEF Foreign
  <2> HIDE DEF out, other
  <2>2. z.about = other
    BY DEF IngestProof
  <2> HIDE DEF z
  <2> QED BY <1>1, <2>1, <2>2 DEF IsProof, other
<1>3. ASSUME NEW groups, p = Foreign(TallyProof(groups)) PROVE IsProof(p)
  <2> DEFINE q == TallyProof(groups)
             out == Misread(q.stateOut)
             other == OtherRound
             z == [q EXCEPT !.about = other, !.stateOut = out]
  <2>1. p = z
    BY <1>3 DEF Foreign
  <2> HIDE DEF out, other
  <2>2. z.about = other
    BY DEF TallyProof
  <2> HIDE DEF z
  <2> QED BY <1>1, <2>1, <2>2 DEF IsProof, other
<1> QED BY <1>2, <1>3 DEF ForeignProofs

LEMMA RefusedIsOK ==
  ASSUME NEW c, ChainOK(c)
  PROVE  ChainOK(Refused(c))
<1>1. PICK cursor, state, ingested, how, order, ok :
        c = [ingestCursor |-> cursor, state |-> state, ingested |-> ingested,
             finality |-> how, order |-> order, ok |-> ok]
  BY DEF ChainOK
<1> DEFINE no == FALSE
<1>2. Refused(c) = [ingestCursor |-> cursor, state |-> state, ingested |-> ingested,
                    finality |-> how, order |-> order, ok |-> no]
  <2>1. Refused(c) = [c EXCEPT !.ok = no]
    BY Zenon DEF Refused
  <2> HIDE DEF no
  <2> QED BY <1>1, <2>1
<1>3. no => StateOK(cursor, state, ingested, how, order)
  OBVIOUS
<1> HIDE DEF no
<1> QED BY <1>2, <1>3 DEF ChainOK

\* A batch is taken in after those before it.
LEMMA IngestIsOK ==
  ASSUME NEW c, ChainOK(c), c.ok, c.finality = "None", c.ingestCursor < numBatches, numBatches \in Nat,
         NEW p, IsProof(p)
  PROVE  ChainOK(AdvanceIngest(c, p))
<1>1. PICK cursor, state, ingested, how, order, ok :
        /\ c = [ingestCursor |-> cursor, state |-> state, ingested |-> ingested,
                finality |-> how, order |-> order, ok |-> ok]
        /\ ok => StateOK(cursor, state, ingested, how, order)
  BY DEF ChainOK
<1>2. how = "None" /\ cursor < numBatches /\ cursor \in 0 .. numBatches
  BY <1>1 DEF StateOK
<1>3. CASE p.kind = "ingest" /\ p.k = cursor /\ p.n = sealedCount /\ p.about = ThisRound
           /\ p.hIn = checkpoint[cursor] /\ p.hOut = checkpoint[cursor + 1] /\ p.stateIn = state
  <2>1. PICK k : p = IngestProof(k)
    <3>1. \A groups : TallyProof(groups).kind = "tally"
      BY DEF TallyProof
    <3> QED BY <1>3, <3>1 DEF IsProof
  <2>2. p.stateOut = StateAfter(cursor + 1, << >>)
    BY <1>3, <2>1 DEF IngestProof
  <2> DEFINE out == StateAfter(cursor + 1, << >>)
             taken == IF cursor + 1 = numBatches THEN out ELSE ingested
             d == [ingestCursor |-> cursor + 1, state |-> out, ingested |-> taken,
                   finality |-> how, order |-> order, ok |-> ok]
  <2> HIDE DEF out
  <2>3. AdvanceIngest(c, p) = d
    <3>1. AdvanceIngest(c, p) = [c EXCEPT !.state = p.stateOut, !.ingestCursor = cursor + 1,
                                   !.ingested = IF cursor + 1 = numBatches THEN p.stateOut ELSE @]
      BY <1>1, <1>3 DEF AdvanceIngest
    <3> QED BY <1>1, <2>2, <3>1 DEF out
  <2>4. StateOK(cursor + 1, out, taken, how, order)
    <3>1. cursor + 1 \in 0 .. numBatches
      BY <1>2
    <3>2. cursor + 1 = numBatches => taken = StateAfter(numBatches, << >>) /\ out = StateAfter(numBatches, << >>)
      BY DEF out
    <3> QED BY <1>2, <3>1, <3>2 DEF StateOK, out
  <2> HIDE DEF taken
  <2> QED BY <2>3, <2>4 DEF ChainOK
<1>4. CASE ~(p.kind = "ingest" /\ p.k = cursor /\ p.n = sealedCount /\ p.about = ThisRound
             /\ p.hIn = checkpoint[cursor] /\ p.hOut = checkpoint[cursor + 1] /\ p.stateIn = state)
  <2>1. AdvanceIngest(c, p) = Refused(c)
    BY <1>1, <1>4 DEF AdvanceIngest
  <2> QED BY <2>1, RefusedIsOK
<1> QED BY <1>3, <1>4

\* A proof of a group keeps every batch taken in; the last one must have taken
\* exactly the groups of the report.
LEMMA TallyIsOK ==
  ASSUME NEW c, ChainOK(c), c.ok, c.finality = "None", c.ingestCursor = numBatches,
         numBatches = Total, Total \in Nat \ {0}, closed,
         NEW p, IsProof(p), NEW restart, NEW isCoordinator
  PROVE  ChainOK(AdvanceTally(c, p, restart, isCoordinator))
<1>1. PICK cursor, state, ingested, how, order, ok :
        /\ c = [ingestCursor |-> cursor, state |-> state, ingested |-> ingested,
                finality |-> how, order |-> order, ok |-> ok]
        /\ ok => StateOK(cursor, state, ingested, how, order)
  BY DEF ChainOK
<1>2. how = "None" /\ cursor = numBatches /\ cursor \in 0 .. numBatches
      /\ ingested = StateAfter(numBatches, << >>)
  BY <1>1 DEF StateOK
<1> DEFINE from == IF restart THEN c.ingested ELSE c.state
           refuses == (restart /\ ~isCoordinator) \/ p.kind # "tally" \/ reported = NoReport
                      \/ p.about # ThisRound \/ p.stateIn # from
           ends == p.stateOut.groups = Groups(reported) /\ p.order = OrderOf(reported)
<1>3. AdvanceTally(c, p, restart, isCoordinator) =
        IF refuses THEN Refused(c)
        ELSE IF ~p.done THEN [c EXCEPT !.state = p.stateOut]
        ELSE IF ends THEN [c EXCEPT !.state = p.stateOut, !.finality = "Proven", !.order = p.order]
        ELSE Refused(c)
  BY DEF AdvanceTally
<1>4. CASE refuses
  BY <1>3, <1>4, RefusedIsOK
<1>5. CASE ~refuses
  <2>1. PICK groups : p = TallyProof(groups)
    <3>1. \A k : IngestProof(k).kind = "ingest"
      BY DEF IngestProof
    <3> QED BY <1>5, <3>1 DEF IsProof
  <2>2. p.stateOut = StateAfter(numBatches, groups) /\ reported # NoReport
    BY <1>5, <2>1 DEF TallyProof
  <2> HIDE DEF refuses, ends
  <2>3. CASE ~p.done
    <3> DEFINE out == StateAfter(numBatches, groups)
               d == [ingestCursor |-> cursor, state |-> out, ingested |-> ingested,
                     finality |-> how, order |-> order, ok |-> ok]
    <3> HIDE DEF out
    <3>1. AdvanceTally(c, p, restart, isCoordinator) = d
      <4>1. AdvanceTally(c, p, restart, isCoordinator) = [c EXCEPT !.state = out]
        BY <1>3, <1>5, <2>2, <2>3 DEF out
      <4> QED BY <1>1, <4>1
    <3>2. StateOK(cursor, out, ingested, how, order)
      BY <1>2 DEF StateOK, out
    <3> QED BY <3>1, <3>2 DEF ChainOK
  <2>4. CASE p.done /\ ends
    <3> DEFINE out == StateAfter(numBatches, groups)
               o == p.order
               d == [ingestCursor |-> cursor, state |-> out, ingested |-> ingested,
                     finality |-> "Proven", order |-> o, ok |-> ok]
    <3>1. groups = Groups(reported) /\ o = OrderOf(reported)
      <4>1. out.groups = groups
        BY DEF StateAfter
      <4> QED BY <2>2, <2>4, <4>1 DEF ends
    <3> HIDE DEF out, o
    <3>2. AdvanceTally(c, p, restart, isCoordinator) = d
      <4>1. AdvanceTally(c, p, restart, isCoordinator) =
              [c EXCEPT !.state = out, !.finality = "Proven", !.order = o]
        BY <1>3, <1>5, <2>2, <2>4 DEF out, o
      <4> QED BY <1>1, <4>1
    <3>3. StateOK(cursor, out, ingested, "Proven", o)
      BY <1>2, <2>2, <3>1 DEF StateOK, out
    <3> QED BY <3>2, <3>3 DEF ChainOK
  <2>5. CASE p.done /\ ~ends
    <3>1. AdvanceTally(c, p, restart, isCoordinator) = Refused(c)
      BY <1>3, <1>5, <2>5
    <3> QED BY <3>1, RefusedIsOK
  <2> QED BY <2>3, <2>4, <2>5
<1> QED BY <1>4, <1>5

LEMMA AdvanceIsOK ==
  ASSUME NEW c, ChainOK(c), c.ok, c.finality = "None",
         numBatches = Total, Total \in Nat \ {0}, closed,
         NEW p, IsProof(p), NEW restart, NEW isCoordinator
  PROVE  ChainOK(AdvanceOne(c, p, restart, isCoordinator))
<1>1. c.ingestCursor \in 0 .. numBatches
  <2>1. PICK cursor, state, ingested, how, order, ok :
          /\ c = [ingestCursor |-> cursor, state |-> state, ingested |-> ingested,
                  finality |-> how, order |-> order, ok |-> ok]
          /\ ok => StateOK(cursor, state, ingested, how, order)
    BY DEF ChainOK
  <2> QED BY <2>1 DEF StateOK
<1>2. CASE c.ingestCursor < numBatches
  BY <1>2, IngestIsOK DEF AdvanceOne
<1>3. CASE ~(c.ingestCursor < numBatches)
  <2>1. c.ingestCursor = numBatches
    BY <1>1, <1>3
  <2> QED BY <1>3, <2>1, TallyIsOK DEF AdvanceOne
<1> QED BY <1>2, <1>3

\* A call with several proofs, whatever they are and whoever sends them.
LEMMA AdvancesIsOK ==
  ASSUME ChainInv, numBatches = Total, Total \in Nat \ {0}, closed,
         NEW S, NEW proofs \in Seq(S), \A i \in 1 .. Len(proofs) : IsProof(proofs[i]),
         NEW restart, NEW isCoordinator
  PROVE  ChainOK(Advances(proofs, restart, isCoordinator))
<1> DEFINE n == Len(proofs)
           First(a) == restart /\ ~a.restarted /\ a.c.ingestCursor = numBatches
           Step(a, i) == IF ~a.c.ok THEN a
                         ELSE IF a.c.finality # "None" THEN [a EXCEPT !.c = Refused(a.c)]
                         ELSE [c |-> AdvanceOne(a.c, proofs[i], First(a), isCoordinator),
                               restarted |-> a.restarted \/ First(a)]
           Begin == [c |-> Chain, restarted |-> FALSE]
           IsLoop(f, k) == f = [i \in 0 .. k |-> IF i = 0 THEN Begin ELSE Step(f[i - 1], i)]
           G == {k \in Nat : \E f : IsLoop(f, k)}
           Fine(a) == \E c, r : a = [c |-> c, restarted |-> r] /\ ChainOK(c)
<1>1. n \in Nat
  BY LenProperties
<1>2. ChainOK(Chain)
  <2> DEFINE yes == TRUE
             d == [ingestCursor |-> ingestCursor, state |-> stateCommit, ingested |-> ingestedState,
                   finality |-> finality, order |-> fundedOrder, ok |-> yes]
  <2>1. Chain = d
    BY DEF Chain
  <2>2. yes => StateOK(ingestCursor, stateCommit, ingestedState, finality, fundedOrder)
    BY DEF ChainInv
  <2> HIDE DEF yes
  <2> QED BY <2>1, <2>2 DEF ChainOK
<1>3. Fine(Begin)
  <2> DEFINE no == FALSE
  <2>1. Begin = [c |-> Chain, restarted |-> no]
    OBVIOUS
  <2> HIDE DEF no, Begin
  <2> QED BY <1>2, <2>1
<1>4. ASSUME NEW a, Fine(a), NEW i \in 1 .. n PROVE Fine(Step(a, i))
  <2>1. PICK c, r : a = [c |-> c, restarted |-> r] /\ ChainOK(c)
    BY <1>4
  <2>2. a.c = c /\ a.restarted = r
    BY <2>1
  <2> HIDE DEF First
  <2>3. CASE ~c.ok
    <3>1. Step(a, i) = a
      BY <2>2, <2>3
    <3> QED BY <1>4, <3>1
  <2>4. CASE c.ok /\ c.finality # "None"
    <3> DEFINE d == Refused(c)
    <3>1. Step(a, i) = [a EXCEPT !.c = d]
      BY <2>2, <2>4
    <3>2. ChainOK(d)
      BY <2>1, RefusedIsOK
    <3> HIDE DEF d, Step
    <3>3. Step(a, i) = [c |-> d, restarted |-> r]
      BY <2>1, <3>1
    <3> QED BY <3>2, <3>3
  <2>5. CASE c.ok /\ c.finality = "None"
    <3> DEFINE d == AdvanceOne(c, proofs[i], First(a), isCoordinator)
               again == a.restarted \/ First(a)
    <3>1. Step(a, i) = [c |-> d, restarted |-> again]
      BY <2>2, <2>5
    <3>2. IsProof(proofs[i])
      BY <1>1
    <3>3. ChainOK(d)
      BY <2>1, <2>5, <3>2, AdvanceIsOK
    <3> HIDE DEF d, Step, again
    <3> QED BY <3>1, <3>3
  <2> QED BY <2>3, <2>4, <2>5
<1> HIDE DEF Step, Begin, Fine
<1>5. 0 \in G
  <2> DEFINE f == [i \in 0 .. 0 |-> Begin]
  <2>1. IsLoop(f, 0)
    OBVIOUS
  <2> HIDE DEF IsLoop
  <2> QED BY <2>1
<1>6. ASSUME NEW k \in G PROVE k + 1 \in G
  <2>1. PICK f : IsLoop(f, k)
    OBVIOUS
  <2> DEFINE g == [i \in 0 .. (k + 1) |-> IF i = k + 1 THEN Step(f[k], k + 1) ELSE f[i]]
  <2>2. \A i \in 0 .. (k + 1) : g[i] = IF i = 0 THEN Begin ELSE Step(g[i - 1], i)
    <3> TAKE i \in 0 .. (k + 1)
    <3>1. CASE i = k + 1
      <4>1. g[i] = Step(f[k], k + 1) /\ g[i - 1] = f[k]
        BY <3>1
      <4> HIDE DEF g
      <4> QED BY <3>1, <4>1
    <3>2. CASE i # k + 1
      <4>1. i \in 0 .. k /\ g[i] = f[i] /\ (i # 0 => g[i - 1] = f[i - 1])
        BY <3>2
      <4>2. f[i] = IF i = 0 THEN Begin ELSE Step(f[i - 1], i)
        BY <4>1, <2>1
      <4> HIDE DEF g
      <4> QED BY <4>1, <4>2
    <3> QED BY <3>1, <3>2
  <2>3. IsLoop(g, k + 1)
    <3>1. g = [i \in 0 .. (k + 1) |-> g[i]]
      OBVIOUS
    <3> HIDE DEF g
    <3> QED BY <2>2, <3>1
  <2> HIDE DEF g, IsLoop
  <2> QED BY <2>3
<1>7. \E f : IsLoop(f, n)
  <2>1. G = Nat
    <3> HIDE DEF G
    <3> G \in SUBSET Nat
      BY DEF G
    <3> QED BY <1>5, <1>6, InductionOnSets
  <2> HIDE DEF IsLoop
  <2> QED BY <1>1, <2>1
<1> DEFINE after == CHOOSE f : IsLoop(f, n)
<1>8. IsLoop(after, n)
  <2> HIDE DEF IsLoop
  <2> QED BY <1>7
<1>9. Advances(proofs, restart, isCoordinator) = after[n].c
  BY DEF Advances, Step, Begin, First
<1> HIDE DEF after
<1>10. after[0] = Begin /\ \A i \in 1 .. n : after[i] = Step(after[i - 1], i)
  BY <1>1, <1>8
<1> DEFINE H == {k \in Nat : k <= n => Fine(after[k])}
<1> HIDE DEF IsLoop
<1>11. 0 \in H
  BY <1>3, <1>10
<1>12. ASSUME NEW k \in H PROVE k + 1 \in H
  <2> SUFFICES ASSUME k + 1 <= n PROVE Fine(after[k + 1])
    OBVIOUS
  <2>1. k + 1 \in 1 .. n /\ k <= n /\ (k + 1) - 1 = k
    BY <1>1
  <2>2. Fine(after[k]) /\ after[k + 1] = Step(after[k], k + 1)
    BY <1>10, <2>1
  <2> QED BY <1>4, <2>1, <2>2
<1>13. Fine(after[n])
  <2>1. H = Nat
    <3> HIDE DEF H
    <3> H \in SUBSET Nat
      BY DEF H
    <3> QED BY <1>11, <1>12, InductionOnSets
  <2> QED BY <1>1, <2>1
<1>14. ChainOK(after[n].c)
  <2>1. PICK c, r : after[n] = [c |-> c, restarted |-> r] /\ ChainOK(c)
    BY <1>13 DEF Fine
  <2>2. after[n].c = c
    BY <2>1
  <2> QED BY <2>1, <2>2
<1> QED BY <1>9, <1>14

\* What a state stands for does not change once the vote is over.
LEMMA StateSame ==
  ASSUME UNCHANGED voteVars
  PROVE  /\ \A k, g : StateAfter(k, g)' = StateAfter(k, g)
         /\ SealedRoster' = SealedRoster
<1>1. SealedUpTo' = SealedUpTo
  BY SMT DEF SealedUpTo, Entry, voteVars
<1>2. SealedRoster' = SealedRoster /\ sealedCount' = sealedCount
  BY <1>1 DEF SealedRoster, voteVars
<1> QED BY <1>2 DEF StateAfter, Min2

LEMMA ChainSame ==
  ASSUME ChainInv, UNCHANGED <<voteVars, chainVars, finalVars, numBatches>>,
         finality # "None" => UNCHANGED <<reported, closed>>
  PROVE  ChainInv'
BY StateSame DEF ChainInv, StateOK, chainVars, finalVars

LEMMA AdvanceManyKeeps ==
  ASSUME VoteInv, PhaseInv, CloseInv, ChainInv,
         NEW S, NEW proofs \in Seq(S), \A i \in 1 .. Len(proofs) : IsProof(proofs[i]),
         NEW restart, NEW isCoordinator, AdvanceMany(proofs, restart, isCoordinator)
  PROVE  VoteInv' /\ PhaseInv' /\ CloseInv' /\ ChainInv'
<1> DEFINE c == Advances(proofs, restart, isCoordinator)
<1>1. /\ phase = "Tally" /\ c.ok
      /\ ingestCursor' = c.ingestCursor /\ stateCommit' = c.state /\ ingestedState' = c.ingested
      /\ finality' = c.finality /\ fundedOrder' = c.order
      /\ UNCHANGED <<voteVars, pastDeadline, closeVars, reportVars>>
  BY DEF AdvanceMany, Accepts
<1>2. closed /\ numBatches = Total /\ Total \in Nat \ {0}
  BY <1>1, PhaseFacts, BatchCounts DEF CloseInv
<1>3. ChainOK(c)
  BY <1>2, AdvancesIsOK
<1> HIDE DEF c
<1>4. StateOK(c.ingestCursor, c.state, c.ingested, c.finality, c.order)
  BY <1>1, <1>3 DEF ChainOK
<1>5. numBatches' = numBatches /\ closed' = closed /\ reported' = reported
  BY <1>1 DEF closeVars, reportVars
<1>6. ChainInv'
  BY <1>1, <1>4, <1>5, StateSame DEF ChainInv, StateOK
<1>7. PhaseInv'
  BY <1>1 DEF PhaseInv, closeVars, reportVars
<1> QED BY <1>1, <1>6, <1>7, VoteSame, CloseSame

-----------------------------------------------------------------------------
(* Prover: the runs.                                                       *)

\* A run that goes on works for a transcript, and what it has pending is a
\* sequence of names of proofs.
IsRun(x) ==
  \E pc, k, t, g, restart, pending :
    /\ x = [pc |-> pc, k |-> k, transcript |-> t, g |-> g, restart |-> restart, pending |-> pending]
    /\ k \in Int /\ g \in Int
    /\ pc \in {"ingest", "plan", "tally", "flush"} => t \in Transcripts
    /\ \E S : pending \in Seq(S)

RunsInv == runs = [r \in Run |-> runs[r]] /\ \A r \in Run : IsRun(runs[r])

ProverInv == VoteInv /\ PhaseInv /\ CloseInv /\ ChainInv /\ RunsInv

LEMMA NamedProofs ==
  ASSUME NEW S, NEW names \in Seq(S)
  PROVE  /\ \E T : ProofsOf(names) \in Seq(T)
         /\ \A i \in 1 .. Len(ProofsOf(names)) : IsProof(ProofsOf(names)[i])
<1> DEFINE n == Len(names)
           T == {ProofOf(names[i]) : i \in 1 .. n}
           p == ProofsOf(names)
<1>1. n \in Nat /\ DOMAIN names = 1 .. n
  BY LenProperties
<1>2. p = [i \in 1 .. n |-> ProofOf(names[i])]
  BY <1>1 DEF ProofsOf
<1> HIDE DEF p, n
<1>3. p \in [1 .. n -> T]
  BY <1>2
<1> HIDE DEF T
<1>4. p \in Seq(T)
  BY <1>1, <1>3, SeqDef
<1>5. Len(p) = n
  BY <1>1, <1>3, <1>4, LenProperties
<1>6. \A name : IsProof(ProofOf(name))
  BY DEF IsProof, ProofOf
<1>7. \A i \in 1 .. n : IsProof(p[i])
  BY <1>2, <1>6
<1> QED BY <1>4, <1>5, <1>7 DEF p

LEMMA OneProof ==
  ASSUME NEW p, IsProof(p)
  PROVE  /\ \E T : <<p>> \in Seq(T)
         /\ \A i \in 1 .. Len(<<p>>) : IsProof(<<p>>[i])
<1> DEFINE q == <<p>>
<1>2. q \in Seq({p}) /\ Len(q) = 1 /\ q[1] = p
  OBVIOUS
<1> HIDE DEF q
<1>3. \A i \in 1 .. Len(q) : IsProof(q[i])
  BY <1>2
<1> QED BY <1>2, <1>3 DEF q

LEMMA SetKeeps ==
  ASSUME RunsInv, NEW r \in Run, NEW x, IsRun(x), Set(r, x)
  PROVE  RunsInv'
<1>1. runs' = [runs EXCEPT ![r] = x]
  BY DEF Set
<1>2. \A s \in Run : runs'[s] = IF s = r THEN x ELSE runs[s]
  BY <1>1 DEF RunsInv
<1>3. runs' = [s \in Run |-> runs'[s]]
  BY <1>1 DEF RunsInv
<1> QED BY <1>2, <1>3 DEF RunsInv

LEMMA IdleIsRun ==
  ASSUME NEW pc, pc \notin {"ingest", "plan", "tally", "flush"}
  PROVE  IsRun([Idle EXCEPT !.pc = pc])
<1> DEFINE no == FALSE
           none == NoReport
<1>1. Idle = [pc |-> "idle", k |-> 0, transcript |-> none, g |-> 0, restart |-> no, pending |-> << >>]
  BY DEF Idle
<1>2. << >> \in Seq({})
  BY EmptySeq
<1> HIDE DEF no, none
<1>3. [Idle EXCEPT !.pc = pc] =
        [pc |-> pc, k |-> 0, transcript |-> none, g |-> 0, restart |-> no, pending |-> << >>]
  BY <1>1
<1>4. 0 \in Int
  OBVIOUS
<1> QED BY <1>2, <1>3, <1>4 DEF IsRun

\* What a call with proofs does to the pool and to the run that sends it.
LEMMA SendKeeps ==
  ASSUME VoteInv, PhaseInv, CloseInv, ChainInv, RunsInv, NEW r \in Run,
         NEW S, NEW names \in Seq(S), NEW restart, NEW next, IsRun(next), Send(r, names, restart, next)
  PROVE  VoteInv' /\ PhaseInv' /\ CloseInv' /\ ChainInv' /\ RunsInv'
<1>1. CASE AdvanceMany(ProofsOf(names), restart, TRUE) /\ Set(r, next)
  <2>1. RunsInv'
    BY <1>1, SetKeeps
  <2>2. VoteInv' /\ PhaseInv' /\ CloseInv' /\ ChainInv'
    <3> DEFINE proofs == ProofsOf(names)
               yes == TRUE
    <3>1. AdvanceMany(proofs, restart, yes)
      BY <1>1
    <3>2. PICK T : proofs \in Seq(T) /\ \A i \in 1 .. Len(proofs) : IsProof(proofs[i])
      BY NamedProofs
    <3> HIDE DEF proofs, yes
    <3> QED BY <3>1, <3>2, AdvanceManyKeeps
  <2> QED BY <2>1, <2>2
<1>2. ASSUME NEW pc, pc \in {"failed", "over"}, Set(r, [Idle EXCEPT !.pc = pc]), UNCHANGED noirVars
      PROVE  VoteInv' /\ PhaseInv' /\ CloseInv' /\ ChainInv' /\ RunsInv'
  <2>1. RunsInv'
    <3>1. IsRun([Idle EXCEPT !.pc = pc])
      BY <1>2, IdleIsRun
    <3> QED BY <1>2, <3>1, SetKeeps
  <2>2. UNCHANGED <<voteVars, pastDeadline, closeVars, reportVars, chainVars, finalVars>>
    BY <1>2 DEF noirVars
  <2>3. VoteInv' /\ PhaseInv' /\ CloseInv' /\ ChainInv'
    BY <2>2, VoteSame, CloseSame, ChainSame DEF PhaseInv, closeVars, reportVars
  <2> QED BY <2>1, <2>3
<1> QED BY <1>1, <1>2 DEF Send

LEMMA StartKeeps ==
  ASSUME ProverInv, NEW r \in Run, Start(r)
  PROVE  ProverInv'
<1>1. UNCHANGED noirVars
  BY DEF Start
<1>2. VoteInv' /\ PhaseInv' /\ CloseInv' /\ ChainInv'
  <2> UNCHANGED <<voteVars, pastDeadline, closeVars, reportVars, chainVars, finalVars>>
    BY <1>1 DEF noirVars
  <2> QED BY VoteSame, CloseSame, ChainSame DEF ProverInv, PhaseInv, closeVars, reportVars
<1>3. CASE finality # "None"
  <2>1. Set(r, [Idle EXCEPT !.pc = "over"]) /\ IsRun([Idle EXCEPT !.pc = "over"])
    BY <1>3, IdleIsRun DEF Start
  <2> QED BY <1>2, <2>1, SetKeeps DEF ProverInv
<1>4. CASE finality = "None"
  <2> DEFINE pc == IF Snapshot.ingestCursor < numBatches THEN "ingest" ELSE "plan"
             t == Planned(Snapshot)
             a == Snapshot.ingestCursor
             no == FALSE
             none == NoReport
             x == [Idle EXCEPT !.pc = pc, !.k = a, !.transcript = t]
  <2>1. Set(r, x)
    BY <1>4 DEF Start
  <2>2. a \in Int
    BY DEF Snapshot, ProverInv, ChainInv, StateOK
  <2>3. t \in Transcripts
    <3>1. Snapshot.transcript = reported
      BY DEF Snapshot
    <3> QED BY <3>1, ProverAssumption DEF Planned, ProverAssumption, ProverInv, PhaseInv
  <2>4. Idle = [pc |-> "idle", k |-> 0, transcript |-> none, g |-> 0, restart |-> no, pending |-> << >>]
    BY DEF Idle
  <2> HIDE DEF pc, t, a, no, none
  <2>5. x = [pc |-> pc, k |-> a, transcript |-> t, g |-> 0, restart |-> no, pending |-> << >>]
    <3>1. x = [Idle EXCEPT !.pc = pc, !.k = a, !.transcript = t]
      OBVIOUS
    <3> HIDE DEF x
    <3> QED BY <2>4, <3>1
  <2>6. << >> \in Seq({}) /\ 0 \in Int
    BY EmptySeq
  <2> HIDE DEF x
  <2>7. IsRun(x)
    BY <2>2, <2>3, <2>5, <2>6 DEF IsRun
  <2> QED BY <1>2, <2>1, <2>7, SetKeeps DEF ProverInv
<1> QED BY <1>3, <1>4

LEMMA IngestStepKeeps ==
  ASSUME ProverInv, NEW r \in Run, IngestStep(r)
  PROVE  ProverInv'
<1> DEFINE run == runs[r]
<1>1. PICK pc, k, t, g, restart, pending :
        /\ run = [pc |-> pc, k |-> k, transcript |-> t, g |-> g, restart |-> restart, pending |-> pending]
        /\ k \in Int /\ g \in Int
        /\ pc \in {"ingest", "plan", "tally", "flush"} => t \in Transcripts
        /\ \E S : pending \in Seq(S)
  BY DEF ProverInv, RunsInv, IsRun
<1>2. run.pc = pc /\ run.k = k /\ pc = "ingest" /\ t \in Transcripts
  BY <1>1 DEF IngestStep
<1>3. CASE batched
  <2> DEFINE names == [i \in 1 .. Total - run.k |-> Batch_(run.k + i - 1)]
             x == [run EXCEPT !.pending = names, !.pc = "plan"]
  <2>1. Set(r, x) /\ UNCHANGED <<noirVars, published>>
    BY <1>2, <1>3 DEF IngestStep
  <2>2. \E S : names \in Seq(S)
    <3> DEFINE m == Total - run.k
               S == {Batch_(run.k + i - 1) : i \in 1 .. m}
    <3>1. m \in Int
      BY <1>1, <1>2, BatchCounts DEF ProverInv
    <3>2. names \in [1 .. m -> S]
      OBVIOUS
    <3> HIDE DEF names, m, S
    <3>3. CASE m \in Nat
      BY <3>2, <3>3, SeqDef
    <3>4. CASE m \notin Nat
      <4>1. 1 .. m = 1 .. 0 /\ 0 \in Nat
        BY <3>1, <3>4
      <4>2. names \in [1 .. 0 -> S]
        BY <3>2, <4>1
      <4> QED BY <4>1, <4>2, SeqDef
    <3> QED BY <3>3, <3>4
  <2> HIDE DEF names
  <2>3. x = [pc |-> "plan", k |-> k, transcript |-> t, g |-> g, restart |-> restart, pending |-> names]
    <3>1. x = [run EXCEPT !.pending = names, !.pc = "plan"]
      OBVIOUS
    <3> HIDE DEF x, run
    <3> QED BY <1>1, <3>1
  <2> HIDE DEF x
  <2>4. IsRun(x)
    BY <1>1, <1>2, <2>2, <2>3 DEF IsRun
  <2>5. RunsInv'
    BY <2>1, <2>4, SetKeeps DEF ProverInv
  <2>6. VoteInv' /\ PhaseInv' /\ CloseInv' /\ ChainInv'
    <3> UNCHANGED <<voteVars, pastDeadline, closeVars, reportVars, chainVars, finalVars>>
      BY <2>1 DEF noirVars
    <3> QED BY VoteSame, CloseSame, ChainSame DEF ProverInv, PhaseInv, closeVars, reportVars
  <2> QED BY <2>5, <2>6 DEF ProverInv
<1>4. CASE ~batched
  <2> DEFINE q == IF run.k + 1 = Total THEN "plan" ELSE "ingest"
             x == [run EXCEPT !.k = @ + 1, !.pc = q]
             names == <<Batch_(run.k)>>
             no == FALSE
  <2>1. Send(r, names, no, x)
    BY <1>4 DEF IngestStep
  <2>2. \E S : names \in Seq(S)
    <3> DEFINE b == Batch_(run.k)
    <3> HIDE DEF b
    <3>1. <<b>> \in Seq({b})
      OBVIOUS
    <3> QED BY <3>1 DEF b
  <2> HIDE DEF names, no, q
  <2>3. x = [pc |-> q, k |-> k + 1, transcript |-> t, g |-> g, restart |-> restart, pending |-> pending]
    <3>1. x = [run EXCEPT !.k = k + 1, !.pc = q]
      BY <1>2
    <3> HIDE DEF x, run
    <3> QED BY <1>1, <3>1
  <2>4. k + 1 \in Int
    BY <1>1
  <2> HIDE DEF x
  <2>5. IsRun(x)
    BY <1>1, <1>2, <2>3, <2>4 DEF IsRun
  <2> QED BY <2>1, <2>2, <2>5, SendKeeps DEF ProverInv
<1> QED BY <1>3, <1>4

LEMMA TallyStepKeeps ==
  ASSUME ProverInv, NEW r \in Run, TallyStep(r)
  PROVE  ProverInv'
<1> DEFINE run == runs[r]
           last == run.g + 1 = Len(Groups(run.transcript))
           x == IF last THEN [Idle EXCEPT !.pc = "over"] ELSE [run EXCEPT !.g = @ + 1, !.restart = FALSE]
           names == <<Group_(run.transcript, run.g)>>
<1>1. PICK pc, k, t, g, restart, pending :
        /\ run = [pc |-> pc, k |-> k, transcript |-> t, g |-> g, restart |-> restart, pending |-> pending]
        /\ k \in Int /\ g \in Int
        /\ pc \in {"ingest", "plan", "tally", "flush"} => t \in Transcripts
        /\ \E S : pending \in Seq(S)
  BY DEF ProverInv, RunsInv, IsRun
<1>2. run.pc = pc /\ run.g = g /\ pc = "tally" /\ t \in Transcripts
  BY <1>1 DEF TallyStep
<1>3. Send(r, names, run.restart, x)
  BY DEF TallyStep
<1>4. \E S : names \in Seq(S)
  <2> DEFINE b == Group_(run.transcript, run.g)
  <2> HIDE DEF b
  <2>1. <<b>> \in Seq({b})
    OBVIOUS
  <2> QED BY <2>1 DEF b
<1> HIDE DEF names, last
<1>5. CASE last
  <2>1. IsRun([Idle EXCEPT !.pc = "over"])
    BY IdleIsRun
  <2> QED BY <1>3, <1>4, <1>5, <2>1, SendKeeps DEF ProverInv
<1>6. CASE ~last
  <2> DEFINE no == FALSE
             y == [run EXCEPT !.g = @ + 1, !.restart = no]
  <2>1. Send(r, names, run.restart, y)
    BY <1>3, <1>6
  <2> HIDE DEF no, x
  <2>2. y = [pc |-> pc, k |-> k, transcript |-> t, g |-> g + 1, restart |-> no, pending |-> pending]
    <3>1. y = [run EXCEPT !.g = g + 1, !.restart = no]
      BY <1>2
    <3> HIDE DEF y, run
    <3> QED BY <1>1, <3>1
  <2>3. g + 1 \in Int
    BY <1>1
  <2> HIDE DEF y
  <2>4. IsRun(y)
    BY <1>1, <1>2, <2>2, <2>3 DEF IsRun
  <2> QED BY <1>4, <2>1, <2>4, SendKeeps DEF ProverInv
<1> QED BY <1>5, <1>6

LEMMA FlushKeeps ==
  ASSUME ProverInv, NEW r \in Run, Flush(r)
  PROVE  ProverInv'
<1>1. PICK pc, k, t, g, restart, pending :
        /\ runs[r] = [pc |-> pc, k |-> k, transcript |-> t, g |-> g, restart |-> restart, pending |-> pending]
        /\ \E S : pending \in Seq(S)
  BY DEF ProverInv, RunsInv, IsRun
<1>2. Send(r, pending, restart, [Idle EXCEPT !.pc = "over"])
  BY <1>1 DEF Flush
<1>3. IsRun([Idle EXCEPT !.pc = "over"])
  BY IdleIsRun
<1> QED BY <1>1, <1>2, <1>3, SendKeeps DEF ProverInv

LEMMA PlanIsInt ==
  ASSUME NEW onChain, NEW t \in Transcripts
  PROVE  PlanTally(onChain, t).g \in Int /\ Len(Groups(t)) \in Int
<1>1. Len(Groups(t)) \in Nat
  BY NoirAssumption DEF NoirAssumption
<1>2. \A g \in Matching(onChain, t) : g \in Int
  BY <1>1 DEF Matching
<1>3. CASE Matching(onChain, t) = {}
  BY <1>1, <1>3 DEF PlanTally
<1>4. CASE Matching(onChain, t) # {}
  <2>1. (CHOOSE g \in Matching(onChain, t) : TRUE) \in Matching(onChain, t)
    BY <1>4
  <2>2. PlanTally(onChain, t).g = CHOOSE g \in Matching(onChain, t) : TRUE
    BY <1>4 DEF PlanTally
  <2> QED BY <1>1, <1>2, <2>1, <2>2
<1> QED BY <1>3, <1>4

LEMMA PlanStepKeeps ==
  ASSUME ProverInv, NEW r \in Run, PlanStep(r)
  PROVE  ProverInv'
<1> DEFINE run == runs[r]
           plan == PlanTally(stateCommit, run.transcript)
           none == Groups(run.transcript) = << >> \/ reported = NoReport
           there == stateCommit = Reaches(run.transcript, Len(Groups(run.transcript)))
           over == [Idle EXCEPT !.pc = "over"]
           more == [i \in 1 .. Len(Groups(run.transcript)) - plan.g |-> Group_(run.transcript, plan.g + i - 1)]
           flush == [run EXCEPT !.pc = "flush"]
           batch == [run EXCEPT !.pc = "flush", !.restart = plan.restart, !.pending = @ \o more]
           tally == [run EXCEPT !.pc = "tally", !.g = plan.g, !.restart = plan.restart]
<1>1. PICK pc, k, t, g, restart, pending :
        /\ run = [pc |-> pc, k |-> k, transcript |-> t, g |-> g, restart |-> restart, pending |-> pending]
        /\ k \in Int /\ g \in Int
        /\ pc \in {"ingest", "plan", "tally", "flush"} => t \in Transcripts
        /\ \E S : pending \in Seq(S)
  BY DEF ProverInv, RunsInv, IsRun
<1>2. run.pc = pc /\ run.pending = pending /\ run.transcript = t /\ pc = "plan" /\ t \in Transcripts
  BY <1>1 DEF PlanStep
<1>3. UNCHANGED noirVars
      /\ Set(r, IF none THEN (IF run.pending = << >> THEN over ELSE flush)
                ELSE IF there THEN over ELSE IF batched THEN batch ELSE tally)
  BY DEF PlanStep
<1>4. plan.g \in Int /\ Len(Groups(run.transcript)) \in Int
  BY <1>2, PlanIsInt
<1>5. IsRun(over)
  BY IdleIsRun
<1>6. \E S : more \in Seq(S)
  <2> DEFINE m == Len(Groups(run.transcript)) - plan.g
             S == {Group_(run.transcript, plan.g + i - 1) : i \in 1 .. m}
  <2>1. m \in Int
    BY <1>4
  <2>2. more \in [1 .. m -> S]
    OBVIOUS
  <2> HIDE DEF more, m, S
  <2>3. CASE m \in Nat
    BY <2>2, <2>3, SeqDef
  <2>4. CASE m \notin Nat
    <3>1. 1 .. m = 1 .. 0 /\ 0 \in Nat
      BY <2>1, <2>4
    <3>2. more \in [1 .. 0 -> S]
      BY <2>2, <3>1
    <3> QED BY <3>1, <3>2, SeqDef
  <2> QED BY <2>3, <2>4
<1> HIDE DEF more, none, there, plan
<1>7. IsRun(flush)
  <2>1. flush = [run EXCEPT !.pc = "flush"]
    OBVIOUS
  <2> HIDE DEF flush, run
  <2>2. flush = [pc |-> "flush", k |-> k, transcript |-> t, g |-> g, restart |-> restart, pending |-> pending]
    BY <1>1, <2>1
  <2> QED BY <1>1, <1>2, <2>2 DEF IsRun
<1>8. IsRun(batch)
  <2> DEFINE all == pending \o more
             again == plan.restart
  <2>1. batch = [run EXCEPT !.pc = "flush", !.restart = again, !.pending = all]
    BY <1>2
  <2>2. \E S : all \in Seq(S)
    <3>1. PICK S, T : pending \in Seq(S) /\ more \in Seq(T)
      BY <1>1, <1>6
    <3>2. pending \in Seq(S \cup T) /\ more \in Seq(S \cup T)
      BY <3>1, SeqMonotonic
    <3> QED BY <3>2, ConcatProperties
  <2> HIDE DEF batch, run, all, again
  <2>3. batch = [pc |-> "flush", k |-> k, transcript |-> t, g |-> g, restart |-> again, pending |-> all]
    BY <1>1, <2>1
  <2> QED BY <1>1, <1>2, <2>2, <2>3 DEF IsRun
<1>9. IsRun(tally)
  <2> DEFINE again == plan.restart
             from == plan.g
  <2>1. tally = [run EXCEPT !.pc = "tally", !.g = from, !.restart = again]
    OBVIOUS
  <2> HIDE DEF tally, run, again, from
  <2>2. tally = [pc |-> "tally", k |-> k, transcript |-> t, g |-> from, restart |-> again, pending |-> pending]
    BY <1>1, <2>1
  <2>3. from \in Int
    BY <1>4 DEF from
  <2> QED BY <1>1, <1>2, <2>2, <2>3 DEF IsRun
<1> HIDE DEF over, flush, batch, tally
<1>10. \E x : Set(r, x) /\ IsRun(x)
  BY <1>3, <1>5, <1>7, <1>8, <1>9
<1>11. RunsInv'
  BY <1>10, SetKeeps DEF ProverInv
<1>12. VoteInv' /\ PhaseInv' /\ CloseInv' /\ ChainInv'
  <2> UNCHANGED <<voteVars, pastDeadline, closeVars, reportVars, chainVars, finalVars>>
    BY <1>3 DEF noirVars
  <2> QED BY VoteSame, CloseSame, ChainSame DEF ProverInv, PhaseInv, closeVars, reportVars
<1> QED BY <1>11, <1>12 DEF ProverInv

LEMMA StartsIdle == IsRun(Idle)
<1>1. Idle = [Idle EXCEPT !.pc = "idle"]
  <2> DEFINE no == FALSE
             none == NoReport
  <2>1. Idle = [pc |-> "idle", k |-> 0, transcript |-> none, g |-> 0, restart |-> no, pending |-> << >>]
    BY DEF Idle
  <2> HIDE DEF no, none
  <2>2. [Idle EXCEPT !.pc = "idle"] =
          [pc |-> "idle", k |-> 0, transcript |-> none, g |-> 0, restart |-> no, pending |-> << >>]
    BY <2>1
  <2> QED BY <2>1, <2>2
<1>2. IsRun([Idle EXCEPT !.pc = "idle"])
  BY IdleIsRun
<1> QED BY <1>1, <1>2

LEMMA AgainKeeps ==
  ASSUME ProverInv, NEW r \in Run, Again(r)
  PROVE  ProverInv'
<1>1. Set(r, Idle) /\ UNCHANGED noirVars
  BY DEF Again
<1>3. RunsInv'
  BY <1>1, StartsIdle, SetKeeps DEF ProverInv
<1>4. VoteInv' /\ PhaseInv' /\ CloseInv' /\ ChainInv'
  <2> UNCHANGED <<voteVars, pastDeadline, closeVars, reportVars, chainVars, finalVars>>
    BY <1>1 DEF noirVars
  <2> QED BY VoteSame, CloseSame, ChainSame DEF ProverInv, PhaseInv, closeVars, reportVars
<1> QED BY <1>3, <1>4 DEF ProverInv

LEMMA AnyoneKeeps ==
  ASSUME ProverInv, AnyoneAdvances
  PROVE  ProverInv'
<1>1. PICK p \in {ProofOf(name) : name \in published} \cup ForeignProofs, restart \in BOOLEAN :
        AdvanceMany(<<p>>, restart, FALSE)
  BY DEF AnyoneAdvances
<1> DEFINE proofs == <<p>>
           no == FALSE
<1>2. AdvanceMany(proofs, restart, no)
  BY <1>1
<1>3. PICK T : proofs \in Seq(T) /\ \A i \in 1 .. Len(proofs) : IsProof(proofs[i])
  <2>1. \A name : IsProof(ProofOf(name))
    BY DEF IsProof, ProofOf
  <2>2. IsProof(p)
    BY <2>1, ForeignIsProof
  <2> QED BY <2>2, OneProof
<1> HIDE DEF proofs, no
<1>4. VoteInv' /\ PhaseInv' /\ CloseInv' /\ ChainInv'
  BY <1>2, <1>3, AdvanceManyKeeps DEF ProverInv
<1>5. runs' = runs
  BY DEF AnyoneAdvances, proverVars
<1> QED BY <1>4, <1>5 DEF ProverInv, RunsInv

\* While the pool is open no batch has been taken in.
LEMMA ChainOpen ==
  ASSUME PhaseInv, CloseInv, ChainInv, phase = "Open", UNCHANGED <<closeVars, reportVars, chainVars, finalVars>>
  PROVE  ChainInv'
<1>1. finality = "None" /\ numBatches = 0 /\ numBatches' = 0
  BY PhaseFacts DEF CloseInv, closeVars
<1>2. \A g : StateAfter(0, g) = NoState /\ StateAfter(0, g)' = NoState
  BY DEF StateAfter
<1>3. /\ ingestCursor = 0 /\ stateCommit = NoState /\ ingestedState = NoState
      /\ ingestCursor' = 0 /\ stateCommit' = NoState /\ ingestedState' = NoState /\ finality' = "None"
  BY <1>1, <1>2 DEF ChainInv, StateOK, chainVars, finalVars
<1>4. StateAfter(numBatches, << >>)' = NoState
  BY <1>1, <1>2
<1>5. \E g : stateCommit' = StateAfter(numBatches, g)'
  BY <1>3, <1>4
<1> QED BY <1>1, <1>3, <1>4, <1>5 DEF ChainInv, StateOK

LEMMA VotingKeeps ==
  ASSUME VoteInv, PhaseInv, CloseInv, ChainInv,
         \/ \E v \in Voter : GrantSeat(v) \/ Vote(v)
         \/ \E v, w \in Voter : MoveSeat(v, w)
         \/ \E v \in Voter, ct \in Ciphertexts : VoteSealed(v, ct)
  PROVE  VoteInv' /\ PhaseInv' /\ CloseInv' /\ ChainInv'
<1>1. phase = "Open" /\ UNCHANGED <<pastDeadline, closeVars, reportVars, chainVars, finalVars>>
  BY DEF GrantSeat, Vote, MoveSeat, VoteSealed
<1>2. seatWeight \in [Voter -> Nat]
  BY DEF VoteInv, VoteTypes
<1>3. VoteInv'
  <2>1. ASSUME NEW v \in Voter, GrantSeat(v) PROVE VoteInv'
    <3>1. /\ Register(v) /\ UNCHANGED <<sealed, sealedCount>>
          /\ seatWeight' = [seatWeight EXCEPT ![v] = @ + 1]
      BY <2>1 DEF GrantSeat
    <3>2. seatWeight' \in [Voter -> Nat] /\ \A w \in Voter : w # v /\ seatWeight'[w] > 0 => seatWeight[w] > 0
      BY <1>2, <3>1
    <3> QED BY <3>1, <3>2, RegisterKeeps
  <2>2. ASSUME NEW v \in Voter, Vote(v) PROVE VoteInv'
    <3>1. Register(v) /\ UNCHANGED <<sealed, sealedCount, seatWeight>>
      BY <2>2 DEF Vote
    <3>2. seatWeight' \in [Voter -> Nat] /\ \A w \in Voter : w # v /\ seatWeight'[w] > 0 => seatWeight[w] > 0
      BY <1>2, <3>1
    <3> QED BY <3>1, <3>2, RegisterKeeps
  <2>3. ASSUME NEW v \in Voter, NEW w \in Voter, MoveSeat(v, w) PROVE VoteInv'
    <3>1. /\ Register(w) /\ UNCHANGED <<sealed, sealedCount>> /\ v # w /\ seatWeight[v] > 0
          /\ seatWeight' = [seatWeight EXCEPT ![v] = @ - 1, ![w] = @ + 1]
      BY <2>3 DEF MoveSeat
    <3>2. seatWeight[v] - 1 \in Nat /\ seatWeight[w] + 1 \in Nat
      BY <1>2, <3>1
    <3>3. /\ seatWeight' \in [Voter -> Nat]
          /\ \A x \in Voter : x # w /\ seatWeight'[x] > 0 => seatWeight[x] > 0
      BY <1>2, <3>1, <3>2
    <3> QED BY <3>1, <3>3, RegisterKeeps
  <2>4. ASSUME NEW v \in Voter, NEW ct \in Ciphertexts, VoteSealed(v, ct) PROVE VoteInv'
    BY <2>4, NoirAssumption, SealKeeps
  <2> QED BY <2>1, <2>2, <2>3, <2>4
<1> QED BY <1>1, <1>3, OpenKeeps, ChainOpen

LEMMA PoolStepsKeep ==
  ASSUME VoteInv, PhaseInv, CloseInv, ChainInv, PoolSteps
  PROVE  VoteInv' /\ PhaseInv' /\ CloseInv' /\ ChainInv'
<1>1. CASE \/ \E v \in Voter : GrantSeat(v) \/ Vote(v)
           \/ \E v, w \in Voter : MoveSeat(v, w)
           \/ \E v \in Voter, ct \in Ciphertexts : VoteSealed(v, ct)
  BY <1>1, VotingKeeps
<1>2. CASE DeadlinePasses
  <2>1. pastDeadline' = TRUE /\ UNCHANGED <<voteVars, closeVars, reportVars, chainVars, finalVars>>
    BY <1>2 DEF DeadlinePasses
  <2>2. PhaseInv'
    BY <2>1 DEF PhaseInv, closeVars, reportVars
  <2>3. ChainInv'
    BY <2>1, ChainSame DEF closeVars, reportVars
  <2> QED BY <2>1, <2>2, <2>3, VoteSame, CloseSame
<1>3. ASSUME NEW maxVoters \in 0 .. Cardinality(Voter), Close(maxVoters)
      PROVE  VoteInv' /\ PhaseInv' /\ CloseInv' /\ ChainInv'
  <2>1. maxVoters \in Nat
    OBVIOUS
  <2>2. VoteInv' /\ PhaseInv' /\ CloseInv'
    BY <1>3, <2>1, CloseKeeps
  <2>3. /\ phase = "Closing" /\ UNCHANGED <<voteVars, reportVars, chainVars, finalVars>>
    BY <1>3 DEF Close
  <2>4. finality = "None" /\ ~closed /\ numBatches = 0
    BY <2>3, PhaseFacts DEF CloseInv
  <2>5. \A g : StateAfter(0, g) = NoState
    BY DEF StateAfter
  <2>6. /\ ingestCursor' = 0 /\ stateCommit' = NoState /\ ingestedState' = NoState /\ finality' = "None"
    BY <2>3, <2>4, <2>5 DEF ChainInv, StateOK, chainVars, finalVars
  <2>7. numBatches' \in Nat
    <3>1. Total' = Total /\ Total \in Nat
      BY <2>3, WalkedSame, BatchCounts
    <3>2. closed' \in BOOLEAN
      BY <2>2 DEF PhaseInv
    <3> QED BY <2>2, <3>1, <3>2 DEF CloseInv
  <2>8. StateAfter(0, << >>)' = NoState /\ \A g : StateAfter(0, g)' = NoState
    BY DEF StateAfter
  <2>9. numBatches' = 0 => /\ StateAfter(numBatches, << >>)' = NoState
                           /\ \E g : stateCommit' = StateAfter(numBatches, g)'
    BY <2>6, <2>8
  <2>10. StateAfter(ingestCursor, << >>)' = NoState
    BY <2>6, <2>8
  <2>11. ChainInv'
    BY <2>6, <2>7, <2>9, <2>10 DEF ChainInv, StateOK
  <2> QED BY <2>2, <2>11
<1>4. ASSUME NEW root, NEW t \in Transcripts, OnReport(root, t)
      PROVE  VoteInv' /\ PhaseInv' /\ CloseInv' /\ ChainInv'
  <2>1. /\ phase = "Tally" /\ reported' = t
        /\ UNCHANGED <<voteVars, pastDeadline, closeVars, chainVars, finalVars>>
    BY <1>4 DEF OnReport
  <2>2. finality = "None"
    BY <2>1, PhaseFacts
  <2>3. PhaseInv'
    BY <2>1 DEF PhaseInv, closeVars
  <2>4. ChainInv'
    BY <2>1, <2>2, ChainSame DEF closeVars
  <2> QED BY <2>1, <2>3, <2>4, VoteSame, CloseSame
<1>5. CASE AcceptProvisional \/ Abandon
  <2>1. /\ UNCHANGED <<voteVars, pastDeadline, closeVars, reportVars, chainVars>>
        /\ finality' \in {"Attested", "Abandoned"}
        /\ finality' = "Attested" => reported # NoReport /\ fundedOrder' = OrderOf(reported)
        /\ finality' = "Abandoned" => reported = NoReport /\ fundedOrder' = << >>
    BY <1>5 DEF AcceptProvisional, Abandon, Finalize
  <2>2. PhaseInv'
    BY <2>1 DEF PhaseInv, closeVars, reportVars
  <2>3. ChainInv'
    BY <2>1, StateSame DEF ChainInv, StateOK, closeVars, chainVars, reportVars
  <2> QED BY <2>1, <2>2, <2>3, VoteSame, CloseSame
<1>6. CASE ProofGraceEnds \/ AbandonGraceEnds
  <2>1. UNCHANGED <<voteVars, pastDeadline, closeVars, reported, chainVars, finalVars>>
    BY <1>6 DEF ProofGraceEnds, AbandonGraceEnds, reportVars
  <2>2. PhaseInv'
    BY <2>1 DEF PhaseInv, closeVars
  <2>3. ChainInv'
    BY <2>1, ChainSame DEF closeVars
  <2> QED BY <2>1, <2>2, <2>3, VoteSame, CloseSame
<1> QED BY <1>1, <1>2, <1>3, <1>4, <1>5, <1>6, Zenon DEF PoolSteps

LEMMA NoirStarts ==
  ASSUME NoirInit
  PROVE  VoteInv /\ PhaseInv /\ CloseInv /\ ChainInv
<1> DEFINE n == Cardinality(Contributors)
<1>1. n \in Nat /\ Contributors \subseteq Voter /\ Batch \in Nat \ {0} /\ NSealedMax \in Nat \ {0}
  <2>1. /\ IsFiniteSet(Contributors) /\ Contributors \subseteq Voter
        /\ Batch \in Nat \ {0} /\ NSealedMax \in Nat \ {0}
    BY NoirAssumption DEF NoirAssumption
  <2>2. n \in Nat
    BY <2>1, FS_CardinalityType
  <2> QED BY <2>1, <2>2
<1>2. voters \in [1 .. n -> Contributors] /\ \A i, j \in 1 .. n : voters[i] = voters[j] => i = j
  <2>1. voters \in Orders(Contributors)
    BY DEF NoirInit
  <2>2. Orders(Contributors) =
          {s \in [1 .. n -> Contributors] : \A i, j \in DOMAIN s : s[i] = s[j] => i = j}
    BY DEF Orders
  <2> HIDE DEF n
  <2> QED BY <2>1, <2>2
<1> HIDE DEF n
<1>3. voters \in Seq(Voter) /\ Len(voters) = n
  <2>1. voters \in Seq(Contributors)
    BY <1>1, <1>2, SeqDef
  <2>2. voters \in Seq(Voter)
    BY <1>1, <2>1, SeqMonotonic
  <2> QED BY <1>1, <1>2, <2>2, LenProperties
<1>4. VoteTypes
  BY <1>2, <1>3 DEF NoirInit, VoteTypes
<1>5. VoteInv
  <2>1. sealedCount = Sum(Seals(voters, sealed), Len(voters))
    <3> DEFINE f == Seals(voters, sealed)
    <3>1. \A i \in 1 .. n : sealed[voters[i]] = NoVote
      BY <1>1, <1>2 DEF NoirInit
    <3>2. f \in [1 .. n -> Int] /\ \A i \in 1 .. n : f[i] = 0
      BY <1>3, <3>1 DEF Seals
    <3> HIDE DEF f
    <3>3. Sum(f, n) = 0
      BY <1>1, <3>2, SumOfZeros
    <3> QED BY <1>3, <3>3 DEF NoirInit, f
  <2>2. \A v \in Voter : ~(seatWeight[v] > 0) /\ sealed[v] = NoVote
    BY DEF NoirInit
  <2>3. sealedCount <= NSealedMax
    BY <1>1 DEF NoirInit
  <2> QED BY <1>4, <2>1, <2>2, <2>3 DEF VoteInv
<1>6. PhaseInv
  BY DEF PhaseInv, NoirInit
<1>7. CloseInv
  <2>1. WalkedTo(hPub, 0) = [pub |-> hPub, chain |-> << >>, j |-> 0,
                             checkpoint |-> [k \in 0 .. MaxBatches |-> << >>]]
    BY <1>5, NothingWalked
  <2>2. Walk = WalkedTo(hPub, closeCursor) /\ closeCursor = 0
    BY <2>1 DEF NoirInit, Walk
  <2> QED BY <1>1, <1>3, <2>2 DEF NoirInit, CloseInv
<1>8. ChainInv
  <2>1. \A g : StateAfter(0, g) = NoState
    BY DEF StateAfter
  <2> QED BY <2>1 DEF NoirInit, ChainInv, StateOK
<1> QED BY <1>5, <1>6, <1>7, <1>8

LEMMA ProverStarts ==
  ASSUME NoirInit, ProverInit
  PROVE  ProverInv
<1>1. RunsInv
  BY StartsIdle DEF RunsInv, ProverInit
<1> QED BY <1>1, NoirStarts DEF ProverInv

LEMMA ProverStep ==
  ASSUME ProverInv, [ProverNext]_<<noirVars, proverVars>>
  PROVE  ProverInv'
<1>1. CASE PoolSteps /\ UNCHANGED proverVars
  BY <1>1, PoolStepsKeep DEF ProverInv, RunsInv, proverVars
<1>2. ASSUME NEW r \in Run, Start(r) \/ Steps(r) \/ Again(r) PROVE ProverInv'
  BY <1>2, StartKeeps, IngestStepKeeps, PlanStepKeeps, TallyStepKeeps, FlushKeeps, AgainKeeps DEF Steps
<1>3. CASE AnyoneAdvances
  BY <1>3, AnyoneKeeps
<1>4. CASE UNCHANGED <<noirVars, proverVars>>
  <2>1. UNCHANGED <<voteVars, pastDeadline, closeVars, reportVars, chainVars, finalVars>> /\ runs' = runs
    BY <1>4 DEF noirVars, proverVars
  <2> QED BY <2>1, VoteSame, CloseSame, ChainSame DEF ProverInv, PhaseInv, RunsInv, closeVars, reportVars
<1> QED BY <1>1, <1>2, <1>3, <1>4 DEF ProverNext

\* Whoever votes, closes, reports and proves, and in whatever order, the committed
\* state is that of the batches taken in so far and of some groups after them.
THEOREM ProverIsInvariant == ProverSpec => []ProverInv
<1>1. NoirInit /\ ProverInit => ProverInv
  BY ProverStarts
<1>2. ProverInv /\ [ProverNext]_<<noirVars, proverVars>> => ProverInv'
  BY ProverStep
<1> QED BY <1>1, <1>2, PTL DEF ProverSpec

LEMMA FirstPart ==
  ASSUME VoteInv
  PROVE  SubSeq(SealedRoster, 1, sealedCount) = SealedRoster
<1>1. SealedRoster \in Seq(SealedEntry) /\ Len(SealedRoster) = sealedCount
  BY RosterCount
<1>2. SubSeq(SealedRoster, 1, Len(SealedRoster)) = SealedRoster
  BY <1>1, SubSeqFull
<1> QED BY <1>1, <1>2

LEMMA CheckpointsDo ==
  ASSUME ProverInv
  PROVE  CheckpointsFollow
<1>1. VoteInv /\ CloseInv
  BY DEF ProverInv
<1>2. /\ SealedRoster \in Seq(SealedEntry) /\ Len(SealedRoster) = sealedCount /\ sealedCount \in Nat
      /\ Batch \in Nat \ {0} /\ Total \in Nat \ {0} /\ Total <= MaxBatches /\ MaxBatches \in Nat
      /\ ((sealedCount <= Total * Batch /\ Total * Batch < sealedCount + Batch) \/ sealedCount = 0)
  BY <1>1, RosterCount, BatchCounts
<1>3. SubSeq(SealedRoster, 1, sealedCount) = SealedRoster
  BY <1>1, FirstPart
<1>4. ASSUME closed, NEW k \in 0 .. numBatches
      PROVE  checkpoint[k] = SubSeq(SealedRoster, 1, Min2(k * Batch, sealedCount))
  <2>1. numBatches = Total /\ closeCursor = Len(voters) /\ k \in 0 .. MaxBatches /\ k \in Nat /\ k <= Total
    BY <1>1, <1>2, <1>4 DEF CloseInv
  <2>2. checkpoint[k] = CheckpointAt(SealedRoster, k)
    <3>1. checkpoint = CheckpointsAt(SealedRoster)
      <4>1. Walk.checkpoint = checkpoint
        BY DEF Walk
      <4> QED BY <1>1, <2>1, <4>1 DEF CloseInv, WalkedTo, SealedRoster
    <3> QED BY <2>1, <3>1 DEF CheckpointsAt
  <2>3. PICK b \in Nat : b = k * Batch
    BY <1>2, <2>1
  <2>4. CASE b <= sealedCount
    <3>1. Min2(b, sealedCount) = b
      BY <1>2, <2>3, <2>4 DEF Min2
    <3>2. CheckpointAt(SealedRoster, k) = SubSeq(SealedRoster, 1, b)
      BY <1>2, <2>3, <2>4 DEF CheckpointAt
    <3> QED BY <2>2, <2>3, <3>1, <3>2
  <2>5. CASE b > sealedCount
    <3>1. Min2(b, sealedCount) = sealedCount
      BY <1>2, <2>3, <2>5 DEF Min2
    <3>2. CASE sealedCount = 0
      <4>1. SealedRoster = << >>
        BY <1>2, <3>2, EmptySeq
      <4>2. CheckpointAt(SealedRoster, k) = << >>
        BY <1>2, <2>3, <2>5, <4>1 DEF CheckpointAt
      <4> QED BY <1>3, <2>2, <2>3, <3>1, <4>1, <4>2
    <3>3. CASE sealedCount # 0
      <4>1. b < sealedCount + Batch
        <5>1. k * Batch <= Total * Batch
          <6>1. Batch * k <= Batch * Total
            BY <1>2, <2>1, ProductMonotone
          <6>2. Batch * k = k * Batch /\ Batch * Total = Total * Batch
            BY <1>2, <2>1
          <6> QED BY <6>1, <6>2
        <5>2. PICK m \in Nat : m = Total * Batch
          BY <1>2
        <5>3. b <= m /\ m < sealedCount + Batch
          BY <1>2, <2>3, <3>3, <5>1, <5>2
        <5> QED BY <1>2, <2>3, <5>2, <5>3
      <4>2. CheckpointAt(SealedRoster, k) = SealedRoster
        <5>1. ~(b <= sealedCount)
          BY <1>2, <2>3, <2>5
        <5> QED BY <1>2, <2>3, <4>1, <5>1 DEF CheckpointAt
      <4> QED BY <1>3, <2>2, <2>3, <3>1, <4>2
    <3> QED BY <3>2, <3>3
  <2> QED BY <1>2, <2>3, <2>4, <2>5
<1> QED BY <1>2, <1>4 DEF CheckpointsFollow

LEMMA DecidedIs ==
  ASSUME ProverInv
  PROVE  DecidedAsReported
<1> SUFFICES ASSUME finality = "Proven"
             PROVE  stateCommit = [batches |-> numBatches, sealed |-> SealedRoster, groups |-> Groups(reported)]
  BY DEF DecidedAsReported, ProverInv, ChainInv, StateOK
<1>1. /\ VoteInv /\ closed
      /\ stateCommit = StateAfter(numBatches, Groups(reported)) /\ fundedOrder = OrderOf(reported)
  BY DEF ProverInv, ChainInv, StateOK
<1>2. numBatches = Total /\ Total \in Nat \ {0} /\ sealedCount \in Nat /\ Batch \in Nat \ {0}
      /\ ((sealedCount <= Total * Batch /\ Total * Batch < sealedCount + Batch) \/ sealedCount = 0)
  BY <1>1, BatchCounts DEF ProverInv, CloseInv
<1>3. Min2(Total * Batch, sealedCount) = sealedCount
  <2>1. PICK m \in Nat : m = Total * Batch
    BY <1>2
  <2>2. sealedCount <= m
    BY <1>2, <2>1
  <2> QED BY <1>2, <2>1, <2>2 DEF Min2
<1>4. SubSeq(SealedRoster, 1, sealedCount) = SealedRoster
  BY <1>1, FirstPart
<1> QED BY <1>1, <1>2, <1>3, <1>4 DEF StateAfter

\* For any roster, batch size and chunking of close, the checkpoints are the
\* prefixes of the chain that the proofs of the batches start and end with.
THEOREM CheckpointsAlways == ProverSpec => []CheckpointsFollow
<1>1. ProverInv => CheckpointsFollow
  BY CheckpointsDo
<1> QED BY <1>1, ProverIsInvariant, PTL

\* Whatever proofs outsiders and the coordinator's runs send, the round ends with
\* the reported list or none without a report, and a proven one was proved from
\* every sealed ballot along the reported transcript.
THEOREM DecidedAlways == ProverSpec => []DecidedAsReported
<1>1. ProverInv => DecidedAsReported
  BY DecidedIs
<1> QED BY <1>1, ProverIsInvariant, PTL
=============================================================================
