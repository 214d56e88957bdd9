---------------------------- MODULE WebClientProofs ----------------------------
(***************************************************************************)
(* Proofs about what users do with a web client, while others do the same: *)
(* proposing, reviewing and publishing (ProposalReview), then casting a    *)
(* vote (CastVote), for any users, organizer keys, costs, tabs and bounds. *)
(*                                                                         *)
(* None of the properties is inductive alone.  ReviewInv adds what the     *)
(* contracts keep between proposals, projects and the list of private      *)
(* acceptances, and what is still true of things somebody read earlier: an *)
(* open edit or review, a publication that is prepared or in the mempool.  *)
(* CastInv adds that every copy of a draft, open, saved, in the mempool or *)
(* accepted, names one revision, and every copy of a hash one draft.       *)
(***************************************************************************)
EXTENDS ProposalReview, CastVote, TLAPS, SequenceTheorems

-----------------------------------------------------------------------------
(* The inductive invariant.                                                *)

Terms ==
  [cost : Nat, organizer : OrganizerKey \cup {NoOrganizer}, content : Nat]

Proposals ==
  [proposer : User, terms : Terms, status : {"Pending", "Accepted", "Rejected"},
   projectId : Nat]

\* What a user may have open.
Proposing == [does : {"propose"}, next : Terms]
Editing   == [does : {"edit"}, id : Nat, revision : Nat, read : Terms, next : Terms]
Reviewing == [does : {"accept", "reject"}, id : Nat, revision : Nat, read : Terms]

Publications == [by : User, ids : Seq(Nat), keys : Seq(Nat)]

ReviewTypeOK ==
  /\ owner \in User
  /\ votingOpen \in BOOLEAN /\ pastDeadline \in BOOLEAN
  /\ proposals \in Seq(Proposals)
  /\ Len(proposals) <= MaxProposals
  /\ revision \in Seq(Nat)
  /\ Len(revision) = Len(proposals)
  /\ projects \in Seq(Terms)
  /\ Len(projects) <= MaxProjects
  /\ organizerKey \in OrganizerKey \cup {NoOrganizer}
  /\ started \in BOOLEAN /\ published \in BOOLEAN
  /\ keyCommitment \in [Ids -> Nat]
  /\ accepted \in Seq(Nat)
  /\ proposalKey \in [Ids -> Nat]
  /\ projectKey \in [1 .. MaxProjects -> Nat]
  /\ drafted \in Nat
  /\ \A u \in User : desk[u] # Idle => desk[u] \in Proposing \cup Editing \cup Reviewing
  /\ desk = [u \in User |-> desk[u]]
  /\ prepared # Idle => prepared \in Publications
  /\ sent # Idle => sent \in Publications

\* Every submission passed ProposalPrivacy.record: the round started, and the
\* commitment is the current revision's.
CommitmentInv ==
  /\ proposals # << >> => started
  /\ \A id \in DOMAIN proposals : keyCommitment[id] = KeyOf(proposals[id].terms)

\* The list of ProposalPrivacy names every accepted private proposal once.
AcceptedInv ==
  /\ \A i, j \in DOMAIN accepted : accepted[i] = accepted[j] => i = j
  /\ \A i \in DOMAIN accepted :
       /\ accepted[i] \in DOMAIN proposals
       /\ IsAccepted(accepted[i])
       /\ keyCommitment[accepted[i]] # NoKey
  /\ \A id \in DOMAIN proposals :
       IsAccepted(id) /\ keyCommitment[id] # NoKey => id \in ToSet(accepted)

\* Accepted proposals and projects match one to one, but for the owner's own
\* projects, which have no key.
ProjectInv ==
  /\ \A id \in DOMAIN proposals : IsAccepted(id) =>
       /\ proposals[id].projectId \in DOMAIN projects
       /\ projects[proposals[id].projectId] = proposals[id].terms
  /\ \A i, j \in DOMAIN proposals :
       /\ IsAccepted(i) /\ IsAccepted(j)
       /\ proposals[i].projectId = proposals[j].projectId
       => i = j
  /\ \A id \in DOMAIN proposals : ~IsAccepted(id) => proposals[id].projectId = 0
  /\ \A c \in DOMAIN projects : KeyOf(projects[c]) # NoKey =>
       \E id \in DOMAIN proposals : IsAccepted(id) /\ proposals[id].projectId = c

\* Publication and opening are one step.
OpeningInv == ~votingOpen => projectKey = [c \in 1 .. MaxProjects |-> NoKey] /\ ~published

\* A publication, however old, holds keys of accepted proposals only.
GoodPublication(p) ==
  /\ DOMAIN p.keys = DOMAIN p.ids
  /\ \A i \in DOMAIN p.ids :
       /\ p.ids[i] \in DOMAIN proposals
       /\ IsAccepted(p.ids[i])
       /\ KeyOf(proposals[p.ids[i]].terms) = p.keys[i]

PublicationInv ==
  /\ prepared # Idle => GoodPublication(prepared)
  /\ sent # Idle => GoodPublication(sent)

\* What is open at a desk is the revision it says, as far as that one is current.
DeskInv ==
  \A u \in User : desk[u] # Idle /\ desk[u].does # "propose" =>
    /\ desk[u].id \in DOMAIN proposals
    /\ desk[u].revision <= revision[desk[u].id]
    /\ desk[u].revision = revision[desk[u].id] => desk[u].read = proposals[desk[u].id].terms

ReviewInv ==
  /\ ReviewTypeOK
  /\ CommitmentInv
  /\ PrivateOrPublic
  /\ AcceptedInv
  /\ ProjectInv
  /\ OpeningInv
  /\ ReadableOnceOpen
  /\ PublicationInv
  /\ OnlyAcceptedDisclosed
  /\ DeskInv

-----------------------------------------------------------------------------
(* Terms, desks and lists.                                                 *)

LEMMA KeyTyped == ASSUME NEW terms \in Terms PROVE KeyOf(terms) \in Nat
BY DEF KeyOf, NoKey, Terms

\* What is open at a desk, by what it does.
LEMMA AtDesk ==
  ASSUME ReviewTypeOK, NEW u \in User, desk[u] # Idle
  PROVE  /\ desk[u].does \in {"propose", "edit", "accept", "reject"}
         /\ desk[u].does \in {"propose", "edit"} => desk[u].next \in Terms
         /\ desk[u].does # "propose" =>
              /\ desk[u].id \in Nat
              /\ desk[u].revision \in Nat
              /\ desk[u].read \in Terms
BY DEF ReviewTypeOK, Proposing, Editing, Reviewing

\* A list and one more element.
LEMMA Longer ==
  ASSUME NEW S, NEW s \in Seq(S), NEW e \in S, NEW t, t = Append(s, e)
  PROVE  /\ t \in Seq(S)
         /\ Len(s) \in Nat
         /\ Len(t) = Len(s) + 1
         /\ DOMAIN s = 1 .. Len(s)
         /\ DOMAIN t = 1 .. Len(s) + 1
         /\ DOMAIN t = DOMAIN s \cup {Len(s) + 1}
         /\ Len(s) + 1 \notin DOMAIN s
         /\ \A i \in DOMAIN s : t[i] = s[i]
         /\ t[Len(s) + 1] = e
<1>1. Len(t) = Len(s) + 1 /\ t \in Seq(S)
  BY AppendProperties
<1>2. \A i \in 1 .. Len(s) : t[i] = s[i]
  BY AppendProperties
<1>3. t[Len(s) + 1] = e
  BY AppendProperties
<1>4. Len(s) \in Nat /\ DOMAIN s = 1 .. Len(s)
  BY LenProperties
<1>5. DOMAIN t = 1 .. Len(t)
  BY <1>1, LenProperties
<1> QED BY <1>1, <1>2, <1>3, <1>4, <1>5

\* A list with one element replaced.
LEMMA Replaced ==
  ASSUME NEW S, NEW s \in Seq(S), NEW i \in DOMAIN s, NEW e \in S,
         NEW t, t = [s EXCEPT ![i] = e]
  PROVE  /\ t \in Seq(S)
         /\ Len(t) = Len(s)
         /\ DOMAIN t = DOMAIN s
         /\ t[i] = e
         /\ \A j \in DOMAIN s : j # i => t[j] = s[j]
<1>1. DOMAIN s = 1 .. Len(s) /\ Len(s) \in Nat
  BY LenProperties
<1>2. t \in Seq(S) /\ Len(t) = Len(s)
  BY <1>1, ExceptSeq
<1> QED BY <1>1, <1>2

-----------------------------------------------------------------------------
(* Steps of the client.                                                    *)

\* Something is opened at a desk: the contracts and the publication stay.
LEMMA OpenKeeps ==
  ASSUME ReviewInv, NEW u \in User, NEW work, Open(u, work), drafted' \in Nat,
         work \in Proposing \cup Editing \cup Reviewing,
         work.does # "propose" =>
           /\ work.id \in DOMAIN proposals
           /\ work.revision = revision[work.id]
           /\ work.read = proposals[work.id].terms
  PROVE  ReviewInv'
<1>0. /\ UNCHANGED <<owner, votingOpen, pastDeadline>>
      /\ UNCHANGED <<proposals, revision, projects>>
      /\ UNCHANGED <<organizerKey, started, published, keyCommitment, accepted,
                     proposalKey, projectKey>>
      /\ UNCHANGED <<prepared, sent, disclosed>>
  BY DEF Open, poolVars, reviewVars, privacyVars, openingVars
<1>1. /\ desk'[u] = work
      /\ \A v \in User : v # u => desk'[v] = desk[v]
      /\ desk' = [v \in User |-> desk'[v]]
  <2>1. desk' = [desk EXCEPT ![u] = work] /\ desk = [v \in User |-> desk[v]]
    BY DEF Open, ReviewInv, ReviewTypeOK
  <2> QED BY <2>1
<1>2. ReviewTypeOK'
  <2>1. \A v \in User : desk'[v] # Idle => desk'[v] \in Proposing \cup Editing \cup Reviewing
    BY <1>1 DEF ReviewInv, ReviewTypeOK
  <2> QED BY <1>0, <1>1, <2>1 DEF ReviewInv, ReviewTypeOK, Proposing, Editing, Reviewing,
               Proposals, Terms, Publications
<1>3. CommitmentInv' /\ PrivateOrPublic' /\ ReadableOnceOpen' /\ OpeningInv'
  BY <1>0 DEF ReviewInv, CommitmentInv, PrivateOrPublic, ReadableOnceOpen, OpeningInv
<1>4. AcceptedInv' /\ ProjectInv' /\ OnlyAcceptedDisclosed' /\ PublicationInv'
  BY <1>0 DEF ReviewInv, AcceptedInv, ProjectInv, OnlyAcceptedDisclosed, PublicationInv,
     GoodPublication, IsAccepted
<1>5. DeskInv'
  <2> SUFFICES ASSUME NEW v \in User, desk'[v] # Idle, desk'[v].does # "propose"
               PROVE  /\ desk'[v].id \in DOMAIN proposals
                      /\ desk'[v].revision <= revision[desk'[v].id]
                      /\ desk'[v].revision = revision[desk'[v].id]
                           => desk'[v].read = proposals[desk'[v].id].terms
    BY <1>0 DEF DeskInv
  <2>1. CASE v = u
    <3>1. work.id \in DOMAIN proposals /\ work.revision = revision[work.id]
      BY <2>1, <1>1
    <3>2. work.revision \in Nat
      BY <2>1, <1>1 DEF Proposing, Editing, Reviewing
    <3> QED BY <2>1, <3>1, <3>2, <1>1
  <2>2. CASE v # u
    BY <2>2, <1>1 DEF ReviewInv, DeskInv
  <2> QED BY <2>1, <2>2
<1> QED BY <1>2, <1>3, <1>4, <1>5 DEF ReviewInv

LEMMA Drafted ==
  ASSUME ReviewInv, Draft, NEW cost \in Costs, NEW o \in OrganizerKey \cup {NoOrganizer}
  PROVE  drafted' \in Nat /\ NewTerms(cost, o) \in Terms
BY BoundsAssumption DEF ReviewInv, ReviewTypeOK, Draft, NewTerms, Terms

LEMMA DraftProposalKeeps ==
  ASSUME ReviewInv, NEW u \in User, NEW cost \in Costs, DraftProposal(u, cost)
  PROVE  ReviewInv'
<1> DEFINE work == [does |-> "propose", next |-> NewTerms(cost, organizerKey)]
<1>1. drafted' \in Nat /\ NewTerms(cost, organizerKey) \in Terms
  BY Drafted DEF DraftProposal, ReviewInv, ReviewTypeOK
<1>2. work \in Proposing /\ work.does = "propose"
  BY <1>1 DEF Proposing
<1>3. Open(u, work)
  BY DEF DraftProposal
<1> HIDE DEF work
<1> QED BY <1>1, <1>2, <1>3, OpenKeeps

\* A proposal and its revision, as the state holds them.
LEMMA OnChain ==
  ASSUME ReviewInv, NEW id \in DOMAIN proposals
  PROVE  /\ id \in Nat /\ id \in Ids
         /\ proposals[id] \in Proposals
         /\ proposals[id].terms \in Terms
         /\ id \in DOMAIN revision /\ revision[id] \in Nat
<1>1. proposals \in Seq(Proposals) /\ revision \in Seq(Nat)
  BY DEF ReviewInv, ReviewTypeOK
<1>2. DOMAIN proposals = 1 .. Len(proposals) /\ DOMAIN revision = 1 .. Len(revision)
  BY <1>1, LenProperties
<1>3. Len(proposals) \in Nat /\ Len(proposals) <= MaxProposals /\ Len(revision) = Len(proposals)
  BY <1>1, LenProperties DEF ReviewInv, ReviewTypeOK
<1>4. id \in Nat /\ id \in Ids /\ id \in DOMAIN revision
  BY <1>2, <1>3, BoundsAssumption DEF Ids
<1>5. proposals[id] \in Proposals /\ revision[id] \in Nat
  BY <1>1, <1>4, ElementOfSeq, <1>2
<1> QED BY <1>4, <1>5 DEF Proposals

LEMMA DraftEditKeeps ==
  ASSUME ReviewInv, NEW u \in User, NEW id \in DOMAIN proposals, NEW cost \in Costs,
         DraftEdit(u, id, cost)
  PROVE  ReviewInv'
<1> DEFINE next == NewTerms(cost, proposals[id].terms.organizer)
           work == [does |-> "edit", id |-> id, revision |-> revision[id],
                    read |-> proposals[id].terms, next |-> next]
<1>1. proposals[id].terms.organizer \in OrganizerKey \cup {NoOrganizer}
  BY OnChain DEF Terms
<1>2. drafted' \in Nat /\ next \in Terms
  BY <1>1, Drafted DEF DraftEdit
<1>3. Open(u, work)
  BY DEF DraftEdit
<1> HIDE DEF next
<1>4. /\ work \in Editing
      /\ work.id = id /\ work.revision = revision[id] /\ work.read = proposals[id].terms
  BY <1>2, OnChain DEF Editing
<1> HIDE DEF work
<1> QED BY <1>2, <1>3, <1>4, OpenKeeps

LEMMA ReviewKeeps ==
  ASSUME ReviewInv, NEW u \in User, NEW id \in DOMAIN proposals,
         NEW decision \in {"accept", "reject"}, Review(u, id, decision)
  PROVE  ReviewInv'
<1> DEFINE work == [does |-> decision, id |-> id, revision |-> revision[id],
                    read |-> proposals[id].terms]
<1>1. drafted' \in Nat
  BY DEF Review, ReviewInv, ReviewTypeOK
<1>2. Open(u, work)
  BY DEF Review
<1>3. /\ work \in Reviewing
      /\ work.id = id /\ work.revision = revision[id] /\ work.read = proposals[id].terms
  BY OnChain DEF Reviewing
<1> HIDE DEF work
<1> QED BY <1>1, <1>2, <1>3, OpenKeeps

-----------------------------------------------------------------------------
(* Steps that move no proposal, project or desk.                           *)

\* Only the owner, the deadline, or what is prepared or sent changes.
LEMMA StillKeeps ==
  ASSUME ReviewInv, UNCHANGED <<votingOpen, reviewVars, privacyVars, clientVars>>,
         owner' \in User, pastDeadline' \in BOOLEAN,
         prepared' # Idle => prepared' \in Publications /\ GoodPublication(prepared'),
         sent' # Idle => sent' \in Publications /\ GoodPublication(sent'),
         \A k \in disclosed' \ disclosed : \E id \in DOMAIN proposals :
            IsAccepted(id) /\ KeyOf(proposals[id].terms) = k
  PROVE  ReviewInv'
<1>0. /\ UNCHANGED votingOpen
      /\ UNCHANGED <<proposals, revision, projects>>
      /\ UNCHANGED <<organizerKey, started, published, keyCommitment, accepted,
                     proposalKey, projectKey>>
      /\ UNCHANGED <<drafted, desk>>
  BY DEF reviewVars, privacyVars, clientVars
<1>1. ReviewTypeOK'
  BY <1>0 DEF ReviewInv, ReviewTypeOK
<1>2. CommitmentInv' /\ PrivateOrPublic' /\ ReadableOnceOpen' /\ OpeningInv'
  BY <1>0 DEF ReviewInv, CommitmentInv, PrivateOrPublic, ReadableOnceOpen, OpeningInv
<1>3. AcceptedInv' /\ ProjectInv' /\ DeskInv'
  BY <1>0 DEF ReviewInv, AcceptedInv, ProjectInv, DeskInv, IsAccepted
<1>4. PublicationInv'
  BY <1>0 DEF PublicationInv, GoodPublication, IsAccepted
<1>5. OnlyAcceptedDisclosed'
  <2> SUFFICES ASSUME NEW k \in disclosed'
               PROVE  \E id \in DOMAIN proposals : IsAccepted(id) /\ KeyOf(proposals[id].terms) = k
    BY <1>0 DEF OnlyAcceptedDisclosed, IsAccepted
  <2> QED BY DEF ReviewInv, OnlyAcceptedDisclosed
<1> QED BY <1>1, <1>2, <1>3, <1>4, <1>5 DEF ReviewInv

LEMMA TransferOwnershipKeeps ==
  ASSUME ReviewInv, NEW u \in User, TransferOwnership(u) PROVE ReviewInv'
BY StillKeeps DEF TransferOwnership, openingVars, ReviewInv, ReviewTypeOK, PublicationInv

LEMMA DeadlinePassesKeeps == ASSUME ReviewInv, DeadlinePasses PROVE ReviewInv'
BY StillKeeps DEF DeadlinePasses, openingVars, ReviewInv, ReviewTypeOK, PublicationInv

LEMMA PublicationRevertsKeeps == ASSUME ReviewInv, PublicationReverts PROVE ReviewInv'
BY StillKeeps DEF PublicationReverts, poolVars, ReviewInv, ReviewTypeOK, PublicationInv

\* What the organizer prepares is good: the list names accepted proposals.
LEMMA PrepareKeeps == ASSUME ReviewInv, NEW u \in User, Prepare(u) PROVE ReviewInv'
<1> PICK p : p = Publication(u)
  OBVIOUS
<1>1. /\ p.by = u /\ p.ids = accepted
      /\ p.keys = [i \in DOMAIN accepted |-> KeyOf(proposals[accepted[i]].terms)]
      /\ p = [by |-> u, ids |-> accepted, keys |-> p.keys]
  BY DEF Publication
<1>2. accepted \in Seq(Nat) /\ DOMAIN accepted = 1 .. Len(accepted) /\ Len(accepted) \in Nat
  BY LenProperties DEF ReviewInv, ReviewTypeOK
<1>3. \A i \in DOMAIN accepted : accepted[i] \in DOMAIN proposals /\ IsAccepted(accepted[i])
  BY DEF ReviewInv, AcceptedInv
<1>4. \A i \in DOMAIN accepted : KeyOf(proposals[accepted[i]].terms) \in Nat
  BY <1>3, OnChain, KeyTyped
<1>5. p.keys \in [1 .. Len(accepted) -> Nat]
  BY <1>1, <1>2, <1>4
<1>6. p.keys \in Seq(Nat)
  BY <1>5, <1>2, SeqDef
<1>7. p \in Publications
  BY <1>1, <1>2, <1>6 DEF Publications
<1>8. GoodPublication(p)
  BY <1>1, <1>3 DEF GoodPublication
<1>9. prepared' = p /\ UNCHANGED <<poolVars, reviewVars, privacyVars, clientVars, sent, disclosed>>
  BY DEF Prepare
<1> QED BY <1>7, <1>8, <1>9, StillKeeps DEF poolVars, ReviewInv, ReviewTypeOK, PublicationInv

LEMMA SendPublicationKeeps == ASSUME ReviewInv, SendPublication PROVE ReviewInv'
<1>1. CASE prepared.ids = accepted
  <2>1. /\ prepared # Idle /\ sent' = prepared /\ UNCHANGED prepared
        /\ disclosed' = disclosed \cup ToSet(prepared.keys)
        /\ UNCHANGED <<poolVars, reviewVars, privacyVars, clientVars>>
    BY <1>1 DEF SendPublication
  <2>2. prepared \in Publications /\ GoodPublication(prepared)
    BY <2>1 DEF ReviewInv, ReviewTypeOK, PublicationInv
  <2>3. \A k \in disclosed' \ disclosed : \E id \in DOMAIN proposals :
            IsAccepted(id) /\ KeyOf(proposals[id].terms) = k
    BY <2>1, <2>2 DEF ToSet, GoodPublication
  <2> QED BY <2>1, <2>2, <2>3, StillKeeps DEF poolVars, ReviewInv, ReviewTypeOK
<1>2. CASE prepared.ids # accepted
  <2>1. /\ prepared' = Idle /\ UNCHANGED <<sent, disclosed>>
        /\ UNCHANGED <<poolVars, reviewVars, privacyVars, clientVars>>
    BY <1>2 DEF SendPublication
  <2> QED BY <2>1, StillKeeps DEF poolVars, ReviewInv, ReviewTypeOK, PublicationInv
<1> QED BY <1>1, <1>2

-----------------------------------------------------------------------------
(* Transactions on proposals.                                              *)

\* A desk is cleared.
LEMMA Closed ==
  ASSUME ReviewInv, NEW u \in User, Close(u)
  PROVE  /\ drafted' \in Nat
         /\ desk'[u] = Idle
         /\ \A v \in User : v # u => desk'[v] = desk[v]
         /\ desk' = [v \in User |-> desk'[v]]
         /\ \A v \in User : desk'[v] # Idle => desk'[v] \in Proposing \cup Editing \cup Reviewing
<1>1. desk' = [desk EXCEPT ![u] = Idle] /\ desk = [v \in User |-> desk[v]]
  BY DEF Close, ReviewInv, ReviewTypeOK
<1>2. /\ desk'[u] = Idle
      /\ \A v \in User : v # u => desk'[v] = desk[v]
      /\ desk' = [v \in User |-> desk'[v]]
  BY <1>1
<1> QED BY <1>2 DEF Close, ReviewInv, ReviewTypeOK

\* A proposal on its way: the list of accepted ones, the projects and every
\* publication are as before.
LEMMA ProposeKeeps ==
  ASSUME ReviewInv, NEW u \in User, Propose(u)
  PROVE  ReviewInv'
<1> PICK n : n = Len(proposals)
  OBVIOUS
<1> PICK next : next = desk[u].next
  OBVIOUS
<1> PICK p : p = [proposer |-> u, terms |-> next, status |-> "Pending", projectId |-> 0]
  OBVIOUS
<1>0. /\ UNCHANGED <<owner, votingOpen, pastDeadline>>
      /\ UNCHANGED projects
      /\ UNCHANGED <<organizerKey, published, accepted, proposalKey, projectKey>>
      /\ UNCHANGED <<prepared, sent, disclosed>>
  BY DEF Propose, Record, poolVars, openingVars
<1>1. /\ n < MaxProposals
      /\ proposals' = Append(proposals, p)
      /\ revision' = Append(revision, FirstRevision)
      /\ (organizerKey = NoOrganizer) <=> (KeyOf(next) = NoKey)
      /\ started' = TRUE
      /\ keyCommitment' = [keyCommitment EXCEPT ![n + 1] = KeyOf(next)]
  BY DEF Propose, Record
<1>2. next \in Terms /\ KeyOf(next) \in Nat
  BY AtDesk, KeyTyped DEF Propose, Doing, ReviewInv
<1>3. p \in Proposals /\ p.terms = next /\ p.status = "Pending" /\ p.projectId = 0
  BY <1>2 DEF Proposals
<1>4. /\ proposals \in Seq(Proposals) /\ revision \in Seq(Nat)
      /\ Len(revision) = n /\ keyCommitment \in [Ids -> Nat]
  BY DEF ReviewInv, ReviewTypeOK
<1>5. /\ proposals' \in Seq(Proposals) /\ n \in Nat /\ Len(proposals') = n + 1
      /\ DOMAIN proposals = 1 .. n
      /\ DOMAIN proposals' = DOMAIN proposals \cup {n + 1}
      /\ n + 1 \notin DOMAIN proposals
      /\ \A i \in DOMAIN proposals : proposals'[i] = proposals[i]
      /\ proposals'[n + 1] = p
  BY <1>1, <1>3, <1>4, Longer
<1>6. /\ revision' \in Seq(Nat) /\ Len(revision') = n + 1
      /\ \A i \in DOMAIN proposals : revision'[i] = revision[i] /\ revision[i] \in Nat
  <2>1. FirstRevision \in Nat
    BY DEF FirstRevision
  <2>2. DOMAIN revision = 1 .. n
    BY <1>4, LenProperties
  <2> QED BY <1>1, <1>4, <1>5, <2>1, <2>2, Longer, OnChain
<1>7. /\ n + 1 \in Ids
      /\ keyCommitment' \in [Ids -> Nat]
      /\ keyCommitment'[n + 1] = KeyOf(next)
      /\ \A i \in DOMAIN proposals : keyCommitment'[i] = keyCommitment[i]
  <2>1. n + 1 \in Ids
    BY <1>1, <1>5, BoundsAssumption DEF Ids
  <2> QED BY <1>1, <1>2, <1>4, <1>5, <2>1, OnChain
<1>8. ReviewTypeOK'
  <2>1. n + 1 <= MaxProposals
    BY <1>1, <1>5, BoundsAssumption
  <2>2. Close(u)
    BY DEF Propose
  <2>3. /\ drafted' \in Nat
        /\ desk' = [v \in User |-> desk'[v]]
        /\ \A v \in User : desk'[v] # Idle => desk'[v] \in Proposing \cup Editing \cup Reviewing
    BY <2>2, Closed
  <2> QED BY <1>0, <1>1, <1>5, <1>6, <1>7, <2>1, <2>3 DEF ReviewInv, ReviewTypeOK
<1>9. CommitmentInv'
  BY <1>1, <1>3, <1>5, <1>7 DEF ReviewInv, CommitmentInv
<1>10. PrivateOrPublic'
  BY <1>0, <1>1, <1>5, <1>7 DEF ReviewInv, PrivateOrPublic
<1>11. AcceptedInv'
  BY <1>0, <1>3, <1>5, <1>7 DEF ReviewInv, AcceptedInv, IsAccepted
<1>12. ProjectInv'
  BY <1>0, <1>3, <1>5 DEF ReviewInv, ProjectInv, IsAccepted
<1>13. OpeningInv' /\ ReadableOnceOpen'
  BY <1>0 DEF ReviewInv, OpeningInv, ReadableOnceOpen
<1>14. PublicationInv'
  BY <1>0, <1>5 DEF ReviewInv, PublicationInv, GoodPublication, IsAccepted
<1>15. OnlyAcceptedDisclosed'
  BY <1>0, <1>5 DEF ReviewInv, OnlyAcceptedDisclosed, IsAccepted
<1>16. DeskInv'
  <2>1. Close(u)
    BY DEF Propose
  <2>2. desk'[u] = Idle /\ \A v \in User : v # u => desk'[v] = desk[v]
    BY <2>1, Closed
  <2> QED BY <1>5, <1>6, <2>2 DEF ReviewInv, DeskInv
<1> QED BY <1>8, <1>9, <1>10, <1>11, <1>12, <1>13, <1>14, <1>15, <1>16 DEF ReviewInv

LEMMA EditProposalKeeps ==
  ASSUME ReviewInv, NEW u \in User, EditProposal(u)
  PROVE  ReviewInv'
<1> PICK id : id = desk[u].id
  OBVIOUS
<1> PICK next : next = desk[u].next
  OBVIOUS
<1> PICK p : p = [proposals[id] EXCEPT !.terms = next]
  OBVIOUS
<1>0. /\ UNCHANGED <<owner, votingOpen, pastDeadline>>
      /\ UNCHANGED projects
      /\ UNCHANGED <<organizerKey, published, accepted, proposalKey, projectKey>>
      /\ UNCHANGED <<prepared, sent, disclosed>>
      /\ Close(u) /\ desk[u] # Idle /\ desk[u].does = "edit"
  BY DEF EditProposal, Record, Doing, poolVars, openingVars
<1>1. /\ proposals[id].status = "Pending" /\ revision[id] = desk[u].revision
      /\ proposals' = [proposals EXCEPT ![id].terms = next]
      /\ revision' = [revision EXCEPT ![id] = desk[u].revision + 1]
      /\ (organizerKey = NoOrganizer) <=> (KeyOf(next) = NoKey)
      /\ started' = TRUE
      /\ keyCommitment' = [keyCommitment EXCEPT ![id] = KeyOf(next)]
  BY DEF EditProposal, PendingAt, Record
<1>2. id \in DOMAIN proposals
  BY <1>0 DEF ReviewInv, DeskInv
<1>3. next \in Terms /\ KeyOf(next) \in Nat
  BY <1>0, AtDesk, KeyTyped DEF ReviewInv
<1>4. /\ proposals[id] \in Proposals /\ id \in Ids /\ id \in DOMAIN revision
      /\ revision[id] \in Nat
  BY <1>2, OnChain
<1>5. p \in Proposals /\ p.terms = next /\ p.status = "Pending"
      /\ p.projectId = proposals[id].projectId
  BY <1>1, <1>3, <1>4 DEF Proposals
<1>6. /\ proposals \in Seq(Proposals) /\ revision \in Seq(Nat)
      /\ Len(revision) = Len(proposals) /\ keyCommitment \in [Ids -> Nat]
  BY DEF ReviewInv, ReviewTypeOK
<1>7. /\ proposals' \in Seq(Proposals) /\ Len(proposals') = Len(proposals)
      /\ DOMAIN proposals' = DOMAIN proposals
      /\ proposals'[id] = p
      /\ \A i \in DOMAIN proposals : i # id => proposals'[i] = proposals[i]
  <2>1. proposals' = [proposals EXCEPT ![id] = p]
    BY <1>1
  <2> QED BY <2>1, <1>2, <1>5, <1>6, Replaced
<1>8. /\ revision' \in Seq(Nat) /\ Len(revision') = Len(revision)
      /\ revision'[id] = revision[id] + 1
      /\ \A i \in DOMAIN proposals : i # id => revision'[i] = revision[i]
  <2>1. revision[id] + 1 \in Nat /\ revision' = [revision EXCEPT ![id] = revision[id] + 1]
    BY <1>1, <1>4
  <2> QED BY <2>1, <1>4, <1>6, Replaced, OnChain
<1>9. /\ keyCommitment' \in [Ids -> Nat]
      /\ keyCommitment'[id] = KeyOf(next)
      /\ \A i \in Ids : i # id => keyCommitment'[i] = keyCommitment[i]
  BY <1>1, <1>3, <1>4, <1>6
<1>10. /\ drafted' \in Nat
       /\ desk'[u] = Idle /\ \A v \in User : v # u => desk'[v] = desk[v]
       /\ desk' = [v \in User |-> desk'[v]]
       /\ \A v \in User : desk'[v] # Idle => desk'[v] \in Proposing \cup Editing \cup Reviewing
  BY <1>0, Closed
<1>11. ReviewTypeOK'
  BY <1>0, <1>1, <1>7, <1>8, <1>9, <1>10 DEF ReviewInv, ReviewTypeOK
<1>12. \A i \in DOMAIN proposals : i # id => keyCommitment'[i] = keyCommitment[i]
  BY <1>9, OnChain
<1>13. CommitmentInv' /\ PrivateOrPublic'
  BY <1>0, <1>1, <1>5, <1>7, <1>9, <1>12 DEF ReviewInv, CommitmentInv, PrivateOrPublic
<1>14. AcceptedInv'
  BY <1>0, <1>1, <1>2, <1>5, <1>7, <1>12 DEF ReviewInv, AcceptedInv, IsAccepted
<1>15. ProjectInv'
  BY <1>0, <1>1, <1>2, <1>5, <1>7 DEF ReviewInv, ProjectInv, IsAccepted
<1>16. OpeningInv' /\ ReadableOnceOpen'
  BY <1>0 DEF ReviewInv, OpeningInv, ReadableOnceOpen
<1>17. PublicationInv' /\ OnlyAcceptedDisclosed'
  BY <1>0, <1>1, <1>2, <1>7
  DEF ReviewInv, PublicationInv, GoodPublication, OnlyAcceptedDisclosed, IsAccepted
<1>18. DeskInv'
  <2> SUFFICES ASSUME NEW v \in User, desk'[v] # Idle, desk'[v].does # "propose"
               PROVE  /\ desk'[v].id \in DOMAIN proposals
                      /\ desk'[v].revision <= revision'[desk'[v].id]
                      /\ desk'[v].revision = revision'[desk'[v].id]
                           => desk'[v].read = proposals'[desk'[v].id].terms
    BY <1>7 DEF DeskInv
  <2>1. desk'[v] = desk[v]
    BY <1>10
  <2>2. /\ desk[v].id \in DOMAIN proposals
        /\ desk[v].revision <= revision[desk[v].id]
        /\ desk[v].revision = revision[desk[v].id] => desk[v].read = proposals[desk[v].id].terms
    BY <2>1 DEF ReviewInv, DeskInv
  <2>3. desk[v].revision \in Nat
    BY <2>1, AtDesk DEF ReviewInv
  <2>4. CASE desk[v].id = id
    BY <2>1, <2>2, <2>3, <2>4, <1>4, <1>8
  <2>5. CASE desk[v].id # id
    BY <2>1, <2>2, <2>5, <1>7, <1>8
  <2> QED BY <2>4, <2>5
<1> QED BY <1>11, <1>13, <1>14, <1>15, <1>16, <1>17, <1>18 DEF ReviewInv

\* What a decision finds: a pending proposal, and nothing of it on the list.
LEMMA Undecided ==
  ASSUME ReviewInv, NEW id \in DOMAIN proposals, proposals[id].status = "Pending"
  PROVE  /\ ~IsAccepted(id)
         /\ \A i \in DOMAIN accepted : accepted[i] # id
BY DEF ReviewInv, AcceptedInv, IsAccepted

\* Desks and publications survive a decision, which changes no terms.
LEMMA DecisionKeeps ==
  ASSUME ReviewInv, NEW u \in User, NEW id \in DOMAIN proposals,
         proposals[id].status = "Pending", Close(u), UNCHANGED <<prepared, sent, disclosed>>,
         UNCHANGED revision,
         DOMAIN proposals' = DOMAIN proposals,
         proposals'[id].terms = proposals[id].terms,
         \A i \in DOMAIN proposals : i # id => proposals'[i] = proposals[i]
  PROVE  PublicationInv' /\ OnlyAcceptedDisclosed' /\ DeskInv'
<1>1. ~IsAccepted(id)
  BY Undecided
<1>2. \A i \in DOMAIN proposals : proposals'[i].terms = proposals[i].terms
  OBVIOUS
<1>3. \A i \in DOMAIN proposals : IsAccepted(i) => proposals'[i] = proposals[i]
  BY <1>1
<1>4. PublicationInv'
  BY <1>2, <1>3 DEF ReviewInv, PublicationInv, GoodPublication, IsAccepted
<1>5. OnlyAcceptedDisclosed'
  BY <1>2, <1>3 DEF ReviewInv, OnlyAcceptedDisclosed, IsAccepted
<1>6. desk'[u] = Idle /\ \A v \in User : v # u => desk'[v] = desk[v]
  BY Closed
<1>7. DeskInv'
  BY <1>2, <1>6 DEF ReviewInv, DeskInv
<1> QED BY <1>4, <1>5, <1>7

LEMMA AcceptProposalKeeps ==
  ASSUME ReviewInv, NEW u \in User, AcceptProposal(u)
  PROVE  ReviewInv'
<1> PICK id : id = desk[u].id
  OBVIOUS
<1> PICK c : c = Len(projects) + 1
  OBVIOUS
<1> PICK p : p = [proposals[id] EXCEPT !.status = "Accepted", !.projectId = c]
  OBVIOUS
<1>0. /\ UNCHANGED <<owner, votingOpen, pastDeadline>>
      /\ UNCHANGED <<revision, organizerKey, started, published, keyCommitment,
                     proposalKey, projectKey>>
      /\ UNCHANGED <<prepared, sent, disclosed>>
      /\ Close(u) /\ desk[u] # Idle /\ desk[u].does = "accept" /\ Setup
  BY DEF AcceptProposal, Doing, poolVars, openingVars
<1>1. /\ proposals[id].status = "Pending"
      /\ Len(projects) < MaxProjects
      /\ projects' = Append(projects, proposals[id].terms)
      /\ proposals' = [proposals EXCEPT ![id].status = "Accepted", ![id].projectId = c]
      /\ NoteAcceptance(id)
  BY DEF AcceptProposal, PendingAt, NewProjectId
<1>2. id \in DOMAIN proposals
  BY <1>0 DEF ReviewInv, DeskInv
<1>3. proposals[id] \in Proposals /\ proposals[id].terms \in Terms /\ id \in Nat
  BY <1>2, OnChain
<1>4. /\ proposals \in Seq(Proposals) /\ projects \in Seq(Terms) /\ accepted \in Seq(Nat)
  BY DEF ReviewInv, ReviewTypeOK
<1>5. /\ projects' \in Seq(Terms) /\ Len(projects') = c /\ c \in Nat /\ c # 0
      /\ DOMAIN projects' = DOMAIN projects \cup {c}
      /\ c \notin DOMAIN projects
      /\ \A d \in DOMAIN projects : projects'[d] = projects[d]
      /\ projects'[c] = proposals[id].terms
  BY <1>1, <1>3, <1>4, Longer
<1>6. p \in Proposals /\ p.terms = proposals[id].terms /\ p.status = "Accepted" /\ p.projectId = c
  BY <1>3, <1>5 DEF Proposals
<1>7. /\ proposals' \in Seq(Proposals) /\ Len(proposals') = Len(proposals)
      /\ DOMAIN proposals' = DOMAIN proposals
      /\ proposals'[id] = p
      /\ \A i \in DOMAIN proposals : i # id => proposals'[i] = proposals[i]
  <2>1. proposals' = [proposals EXCEPT ![id] = p]
    BY <1>1
  <2> QED BY <2>1, <1>2, <1>4, <1>6, Replaced
<1>8. ~IsAccepted(id) /\ \A i \in DOMAIN accepted : accepted[i] # id
  BY <1>1, <1>2, Undecided
<1>9. ASSUME keyCommitment[id] = NoKey
      PROVE  AcceptedInv' /\ accepted' \in Seq(Nat)
  <2>1. accepted' = accepted
    BY <1>1, <1>9 DEF NoteAcceptance
  <2>2. AcceptedInv'
    BY <1>0, <1>2, <1>6, <1>7, <1>8, <1>9, <2>1 DEF ReviewInv, AcceptedInv, IsAccepted
  <2> QED BY <2>1, <2>2, <1>4
<1>10. ASSUME keyCommitment[id] # NoKey
       PROVE  AcceptedInv' /\ accepted' \in Seq(Nat)
  <2>1. accepted' = Append(accepted, id)
    BY <1>1, <1>10 DEF NoteAcceptance
  <2> PICK n : n = Len(accepted)
    OBVIOUS
  <2>2. /\ accepted' \in Seq(Nat)
        /\ DOMAIN accepted' = DOMAIN accepted \cup {n + 1}
        /\ n + 1 \notin DOMAIN accepted
        /\ \A i \in DOMAIN accepted : accepted'[i] = accepted[i]
        /\ accepted'[n + 1] = id
    BY <2>1, <1>3, <1>4, Longer
  <2>3. \A i \in DOMAIN proposals : proposals'[i].status = "Accepted" <=> IsAccepted(i) \/ i = id
    BY <1>6, <1>7 DEF IsAccepted
  <2>4. \A i, j \in DOMAIN accepted' : accepted'[i] = accepted'[j] => i = j
    BY <2>2, <1>8 DEF ReviewInv, AcceptedInv
  <2>5. \A i \in DOMAIN accepted' :
          /\ accepted'[i] \in DOMAIN proposals
          /\ proposals'[accepted'[i]].status = "Accepted"
          /\ keyCommitment[accepted'[i]] # NoKey
    <3>1. \A i \in DOMAIN accepted :
            /\ accepted[i] \in DOMAIN proposals
            /\ proposals[accepted[i]].status = "Accepted"
            /\ keyCommitment[accepted[i]] # NoKey
      BY DEF ReviewInv, AcceptedInv, IsAccepted
    <3>2. \A i \in DOMAIN accepted : proposals'[accepted[i]] = proposals[accepted[i]]
      BY <3>1, <1>7, <1>8
    <3>3. ASSUME NEW i \in DOMAIN accepted'
          PROVE  /\ accepted'[i] \in DOMAIN proposals
                 /\ proposals'[accepted'[i]].status = "Accepted"
                 /\ keyCommitment[accepted'[i]] # NoKey
      <4>1. CASE i \in DOMAIN accepted
        <5>1. accepted'[i] = accepted[i]
          BY <4>1, <2>2
        <5> QED BY <4>1, <5>1, <3>1, <3>2
      <4>2. CASE i = n + 1
        <5>1. accepted'[i] = id
          BY <4>2, <2>2
        <5> QED BY <5>1, <1>2, <1>6, <1>7, <1>10
      <4> QED BY <3>3, <4>1, <4>2, <2>2
    <3> QED BY <3>3
  <2>6. \A i \in DOMAIN proposals :
          proposals'[i].status = "Accepted" /\ keyCommitment[i] # NoKey => i \in ToSet(accepted')
    <3>1. ToSet(accepted') = ToSet(accepted) \cup {id}
      BY <2>2 DEF ToSet
    <3> QED BY <3>1, <2>3 DEF ReviewInv, AcceptedInv
  <2> QED BY <2>2, <2>4, <2>5, <2>6, <1>0, <1>7 DEF AcceptedInv, IsAccepted
<1>11. AcceptedInv' /\ accepted' \in Seq(Nat)
  BY <1>9, <1>10
<1>12. ReviewTypeOK'
  <2>1. /\ drafted' \in Nat /\ desk' = [v \in User |-> desk'[v]]
        /\ \A v \in User : desk'[v] # Idle => desk'[v] \in Proposing \cup Editing \cup Reviewing
    BY <1>0, Closed
  <2>2. c <= MaxProjects
    <3>1. Len(projects) \in Nat
      BY <1>4, LenProperties
    <3> QED BY <3>1, <1>1, BoundsAssumption
  <2> QED BY <1>0, <1>5, <1>7, <1>11, <2>1, <2>2 DEF ReviewInv, ReviewTypeOK
<1>13. CommitmentInv' /\ PrivateOrPublic'
  <2>1. started
    BY <1>2 DEF ReviewInv, CommitmentInv
  <2>2. \A i \in DOMAIN proposals : proposals'[i].terms = proposals[i].terms
    BY <1>6, <1>7
  <2> QED BY <2>1, <2>2, <1>0, <1>7 DEF ReviewInv, CommitmentInv, PrivateOrPublic
<1>14. ProjectInv'
  <2>1. \A i \in DOMAIN proposals : proposals'[i].status = "Accepted" <=> IsAccepted(i) \/ i = id
    BY <1>6, <1>7 DEF IsAccepted
  <2>2. \A i \in DOMAIN proposals : IsAccepted(i) =>
          /\ i # id /\ proposals'[i] = proposals[i]
          /\ proposals[i].projectId \in DOMAIN projects
          /\ projects[proposals[i].projectId] = proposals[i].terms
    BY <1>7, <1>8 DEF ReviewInv, ProjectInv
  <2>3. \A i \in DOMAIN proposals : proposals'[i].status = "Accepted" =>
          /\ proposals'[i].projectId \in DOMAIN projects'
          /\ projects'[proposals'[i].projectId] = proposals'[i].terms
    <3>1. ASSUME NEW i \in DOMAIN proposals, IsAccepted(i)
          PROVE  /\ proposals'[i].projectId \in DOMAIN projects'
                 /\ projects'[proposals'[i].projectId] = proposals'[i].terms
      <4> PICK d : d = proposals[i].projectId
        OBVIOUS
      <4>1. d \in DOMAIN projects /\ projects[d] = proposals[i].terms /\ proposals'[i] = proposals[i]
        BY <2>2, <3>1
      <4> QED BY <4>1, <1>5
    <3>2. /\ proposals'[id].projectId \in DOMAIN projects'
          /\ projects'[proposals'[id].projectId] = proposals'[id].terms
      BY <1>5, <1>6, <1>7
    <3> QED BY <2>1, <3>1, <3>2
  <2>4. \A i, j \in DOMAIN proposals :
          proposals'[i].status = "Accepted" /\ proposals'[j].status = "Accepted" /\ proposals'[i].projectId = proposals'[j].projectId
            => i = j
    <3>1. \A i, j \in DOMAIN proposals : IsAccepted(i) /\ IsAccepted(j)
             /\ proposals[i].projectId = proposals[j].projectId => i = j
      BY DEF ReviewInv, ProjectInv
    <3>2. \A i \in DOMAIN proposals : IsAccepted(i) => proposals'[i].projectId # c
      BY <2>2, <1>5
    <3>3. proposals'[id].projectId = c
      BY <1>6, <1>7
    <3> QED BY <2>1, <2>2, <3>1, <3>2, <3>3
  <2>5. \A i \in DOMAIN proposals : proposals'[i].status # "Accepted" => proposals'[i].projectId = 0
    BY <2>1, <1>7 DEF ReviewInv, ProjectInv
  <2>6. \A d \in DOMAIN projects' : KeyOf(projects'[d]) # NoKey =>
          \E i \in DOMAIN proposals : proposals'[i].status = "Accepted" /\ proposals'[i].projectId = d
    <3>1. \A d \in DOMAIN projects : KeyOf(projects[d]) # NoKey =>
            \E i \in DOMAIN proposals : IsAccepted(i) /\ proposals[i].projectId = d
      BY DEF ReviewInv, ProjectInv
    <3>2. ASSUME NEW d \in DOMAIN projects', KeyOf(projects'[d]) # NoKey
          PROVE  \E i \in DOMAIN proposals : proposals'[i].status = "Accepted" /\ proposals'[i].projectId = d
      <4>1. CASE d = c
        BY <4>1, <1>2, <1>6, <1>7, <2>1
      <4>2. CASE d \in DOMAIN projects
        <5>1. PICK i \in DOMAIN proposals : IsAccepted(i) /\ proposals[i].projectId = d
          BY <4>2, <3>1, <3>2, <1>5
        <5> QED BY <5>1, <2>1, <2>2
      <4> QED BY <3>2, <4>1, <4>2, <1>5
    <3> QED BY <3>2
  <2> QED BY <2>3, <2>4, <2>5, <2>6, <1>7 DEF ProjectInv, IsAccepted
<1>15. OpeningInv'
  BY <1>0 DEF ReviewInv, OpeningInv
<1>16. ReadableOnceOpen'
  BY <1>0 DEF ReviewInv, ReadableOnceOpen, Setup
<1>17. PublicationInv' /\ OnlyAcceptedDisclosed' /\ DeskInv'
  BY <1>0, <1>1, <1>2, <1>6, <1>7, DecisionKeeps
<1> QED BY <1>11, <1>12, <1>13, <1>14, <1>15, <1>16, <1>17 DEF ReviewInv

LEMMA RejectProposalKeeps ==
  ASSUME ReviewInv, NEW u \in User, RejectProposal(u)
  PROVE  ReviewInv'
<1> PICK id : id = desk[u].id
  OBVIOUS
<1> PICK p : p = [proposals[id] EXCEPT !.status = "Rejected"]
  OBVIOUS
<1>0. /\ UNCHANGED <<owner, votingOpen, pastDeadline>>
      /\ UNCHANGED <<revision, projects>>
      /\ UNCHANGED <<organizerKey, started, published, keyCommitment, accepted,
                     proposalKey, projectKey>>
      /\ UNCHANGED <<prepared, sent, disclosed>>
      /\ Close(u) /\ desk[u] # Idle /\ desk[u].does = "reject"
  BY DEF RejectProposal, Doing, poolVars, privacyVars, openingVars
<1>1. /\ proposals[id].status = "Pending"
      /\ proposals' = [proposals EXCEPT ![id].status = "Rejected"]
  BY DEF RejectProposal, PendingAt
<1>2. id \in DOMAIN proposals
  BY <1>0 DEF ReviewInv, DeskInv
<1>3. proposals[id] \in Proposals
  BY <1>2, OnChain
<1>4. /\ p \in Proposals /\ p.terms = proposals[id].terms
      /\ p.status = "Rejected" /\ p.projectId = proposals[id].projectId
  BY <1>3 DEF Proposals
<1>5. /\ proposals' \in Seq(Proposals) /\ Len(proposals') = Len(proposals)
      /\ DOMAIN proposals' = DOMAIN proposals
      /\ proposals'[id] = p
      /\ \A i \in DOMAIN proposals : i # id => proposals'[i] = proposals[i]
  <2>1. proposals' = [proposals EXCEPT ![id] = p] /\ proposals \in Seq(Proposals)
    BY <1>1 DEF ReviewInv, ReviewTypeOK
  <2> QED BY <2>1, <1>2, <1>4, Replaced
<1>6. ReviewTypeOK'
  <2>1. /\ drafted' \in Nat /\ desk' = [v \in User |-> desk'[v]]
        /\ \A v \in User : desk'[v] # Idle => desk'[v] \in Proposing \cup Editing \cup Reviewing
    BY <1>0, Closed
  <2> QED BY <1>0, <1>5, <2>1 DEF ReviewInv, ReviewTypeOK
<1>7. \A i \in DOMAIN proposals :
        proposals'[i].terms = proposals[i].terms /\ proposals'[i].projectId = proposals[i].projectId
        /\ (proposals'[i].status = "Accepted" <=> proposals[i].status = "Accepted")
  BY <1>1, <1>4, <1>5
<1>8. CommitmentInv' /\ PrivateOrPublic'
  <2>1. started
    BY <1>2 DEF ReviewInv, CommitmentInv
  <2> QED BY <2>1, <1>0, <1>5, <1>7 DEF ReviewInv, CommitmentInv, PrivateOrPublic
<1>9. AcceptedInv'
  BY <1>0, <1>5, <1>7 DEF ReviewInv, AcceptedInv, IsAccepted
<1>10. ProjectInv'
  BY <1>0, <1>5, <1>7 DEF ReviewInv, ProjectInv, IsAccepted
<1>11. OpeningInv' /\ ReadableOnceOpen'
  BY <1>0 DEF ReviewInv, OpeningInv, ReadableOnceOpen
<1>12. PublicationInv' /\ OnlyAcceptedDisclosed' /\ DeskInv'
  BY <1>0, <1>1, <1>2, <1>4, <1>5, DecisionKeeps
<1> QED BY <1>6, <1>8, <1>9, <1>10, <1>11, <1>12 DEF ReviewInv

LEMMA AddProjectKeeps ==
  ASSUME ReviewInv, NEW cost \in Costs, AddProject(cost)
  PROVE  ReviewInv'
<1> PICK c : c = Len(projects) + 1
  OBVIOUS
<1> PICK terms : terms = [cost |-> cost, organizer |-> NoOrganizer, content |-> 0]
  OBVIOUS
<1>0. /\ UNCHANGED <<owner, votingOpen, pastDeadline>>
      /\ UNCHANGED <<proposals, revision>>
      /\ UNCHANGED <<organizerKey, started, published, keyCommitment, accepted,
                     proposalKey, projectKey>>
      /\ UNCHANGED <<drafted, desk>>
      /\ UNCHANGED <<prepared, sent, disclosed>>
      /\ ~votingOpen /\ Len(projects) < MaxProjects
      /\ projects' = Append(projects, terms)
  BY DEF AddProject, poolVars, privacyVars, clientVars, openingVars
<1>1. terms \in Terms /\ KeyOf(terms) = NoKey
  BY BoundsAssumption DEF Terms, KeyOf
<1>2. projects \in Seq(Terms)
  BY DEF ReviewInv, ReviewTypeOK
<1>3. /\ projects' \in Seq(Terms) /\ Len(projects') = c /\ Len(projects) \in Nat
      /\ DOMAIN projects' = DOMAIN projects \cup {c}
      /\ c \notin DOMAIN projects
      /\ \A d \in DOMAIN projects : projects'[d] = projects[d]
      /\ projects'[c] = terms
  BY <1>0, <1>1, <1>2, Longer
<1>4. ReviewTypeOK'
  <2>1. c <= MaxProjects
    BY <1>0, <1>3, BoundsAssumption
  <2> QED BY <2>1, <1>0, <1>3 DEF ReviewInv, ReviewTypeOK
<1>5. CommitmentInv' /\ PrivateOrPublic' /\ OpeningInv' /\ ReadableOnceOpen'
  BY <1>0 DEF ReviewInv, CommitmentInv, PrivateOrPublic, OpeningInv, ReadableOnceOpen
<1>6. AcceptedInv' /\ PublicationInv' /\ OnlyAcceptedDisclosed' /\ DeskInv'
  BY <1>0 DEF ReviewInv, AcceptedInv, PublicationInv, GoodPublication, OnlyAcceptedDisclosed,
     DeskInv, IsAccepted
<1>7. ProjectInv'
  <2>1. \A id \in DOMAIN proposals : IsAccepted(id) =>
          /\ proposals[id].projectId \in DOMAIN projects'
          /\ projects'[proposals[id].projectId] = proposals[id].terms
    <3>1. ASSUME NEW id \in DOMAIN proposals, IsAccepted(id)
          PROVE  /\ proposals[id].projectId \in DOMAIN projects'
                 /\ projects'[proposals[id].projectId] = proposals[id].terms
      <4> PICK d : d = proposals[id].projectId
        OBVIOUS
      <4>1. d \in DOMAIN projects /\ projects[d] = proposals[id].terms
        BY <3>1 DEF ReviewInv, ProjectInv
      <4> QED BY <4>1, <1>3
    <3> QED BY <3>1
  <2>2. \A d \in DOMAIN projects' : KeyOf(projects'[d]) # NoKey =>
          \E id \in DOMAIN proposals : IsAccepted(id) /\ proposals[id].projectId = d
    BY <1>1, <1>3 DEF ReviewInv, ProjectInv
  <2> QED BY <2>1, <2>2, <1>0 DEF ReviewInv, ProjectInv, IsAccepted
<1> QED BY <1>4, <1>5, <1>6, <1>7 DEF ReviewInv

\* A key is registered only while there is no proposal.
LEMMA SetOrganizerKeyKeeps ==
  ASSUME ReviewInv, NEW k \in OrganizerKey, SetOrganizerKey(k)
  PROVE  ReviewInv'
<1>0. /\ UNCHANGED <<owner, votingOpen, pastDeadline>>
      /\ UNCHANGED <<proposals, revision, projects>>
      /\ UNCHANGED <<started, published, keyCommitment, accepted, proposalKey, projectKey>>
      /\ UNCHANGED <<drafted, desk>>
      /\ UNCHANGED <<prepared, sent, disclosed>>
      /\ organizerKey' = k /\ ~started
  BY DEF SetOrganizerKey, CanRegister, poolVars, reviewVars, clientVars, openingVars
<1>1. proposals = << >>
  BY <1>0 DEF ReviewInv, CommitmentInv
<1>2. PrivateOrPublic'
  BY <1>0, <1>1 DEF PrivateOrPublic
<1>3. ReviewTypeOK'
  BY <1>0 DEF ReviewInv, ReviewTypeOK
<1>4. CommitmentInv' /\ OpeningInv' /\ ReadableOnceOpen'
  BY <1>0 DEF ReviewInv, CommitmentInv, OpeningInv, ReadableOnceOpen
<1>5. AcceptedInv' /\ ProjectInv' /\ PublicationInv' /\ OnlyAcceptedDisclosed' /\ DeskInv'
  BY <1>0 DEF ReviewInv, AcceptedInv, ProjectInv, PublicationInv, GoodPublication,
     OnlyAcceptedDisclosed, DeskInv, IsAccepted
<1> QED BY <1>2, <1>3, <1>4, <1>5 DEF ReviewInv

-----------------------------------------------------------------------------
(* Opening the vote.                                                       *)

\* Opening keeps what speaks of proposals, desks and publications.
LEMMA OpeningKeeps ==
  ASSUME ReviewInv, UNCHANGED <<owner, pastDeadline, reviewVars, organizerKey, started,
                                keyCommitment, accepted, clientVars, disclosed>>,
         prepared' \in {prepared, Idle}, sent' \in {sent, Idle},
         votingOpen' = TRUE, published' \in BOOLEAN,
         proposalKey' \in [Ids -> Nat], projectKey' \in [1 .. MaxProjects -> Nat],
         \A c \in 1 .. MaxProjects :
           projectKey'[c] = IF c \in DOMAIN projects THEN KeyOf(projects[c]) ELSE NoKey
  PROVE  ReviewInv'
<1>0. /\ UNCHANGED <<owner, pastDeadline, organizerKey, started, keyCommitment, accepted,
                     disclosed>>
      /\ UNCHANGED <<proposals, revision, projects>>
      /\ UNCHANGED <<drafted, desk>>
  BY DEF reviewVars, clientVars
<1>1. ReviewTypeOK'
  BY <1>0 DEF ReviewInv, ReviewTypeOK
<1>2. CommitmentInv' /\ PrivateOrPublic' /\ OpeningInv' /\ ReadableOnceOpen'
  BY <1>0 DEF ReviewInv, CommitmentInv, PrivateOrPublic, OpeningInv, ReadableOnceOpen
<1>3. AcceptedInv' /\ ProjectInv' /\ OnlyAcceptedDisclosed' /\ DeskInv'
  BY <1>0 DEF ReviewInv, AcceptedInv, ProjectInv, OnlyAcceptedDisclosed, DeskInv, IsAccepted
<1>4. PublicationInv'
  BY <1>0 DEF ReviewInv, PublicationInv, GoodPublication, IsAccepted
<1> QED BY <1>1, <1>2, <1>3, <1>4 DEF ReviewInv

\* A project with a key came from a proposal on the list.
LEMMA Keyed ==
  ASSUME ReviewInv, NEW c \in DOMAIN projects, KeyOf(projects[c]) # NoKey
  PROVE  \E i \in DOMAIN accepted : proposals[accepted[i]].projectId = c
<1>1. PICK id \in DOMAIN proposals : IsAccepted(id) /\ proposals[id].projectId = c
  BY DEF ReviewInv, ProjectInv
<1>2. projects[c] = proposals[id].terms
  BY <1>1 DEF ReviewInv, ProjectInv
<1>3. keyCommitment[id] # NoKey
  BY <1>2 DEF ReviewInv, CommitmentInv
<1>4. id \in ToSet(accepted)
  BY <1>1, <1>3 DEF ReviewInv, AcceptedInv
<1> QED BY <1>1, <1>4 DEF ToSet

\* A project that came from a proposal on the list has the key of that proposal.
LEMMA KeyedBy ==
  ASSUME ReviewInv, NEW i \in DOMAIN accepted, NEW c, c = proposals[accepted[i]].projectId
  PROVE  /\ c \in DOMAIN projects
         /\ KeyOf(projects[c]) = keyCommitment[accepted[i]]
         /\ keyCommitment[accepted[i]] # NoKey
         /\ \A j \in DOMAIN accepted : proposals[accepted[j]].projectId = c => j = i
<1> PICK id : id = accepted[i]
  OBVIOUS
<1>1. id \in DOMAIN proposals /\ IsAccepted(id) /\ keyCommitment[id] # NoKey
  BY DEF ReviewInv, AcceptedInv
<1>2. c \in DOMAIN projects /\ projects[c] = proposals[id].terms
  BY <1>1 DEF ReviewInv, ProjectInv
<1>3. keyCommitment[id] = KeyOf(proposals[id].terms)
  BY <1>1 DEF ReviewInv, CommitmentInv
<1>4. ASSUME NEW j \in DOMAIN accepted, proposals[accepted[j]].projectId = c
      PROVE  j = i
  <2>1. accepted[j] \in DOMAIN proposals /\ IsAccepted(accepted[j])
    BY DEF ReviewInv, AcceptedInv
  <2>2. accepted[j] = accepted[i]
    BY <2>1, <1>1, <1>4 DEF ReviewInv, ProjectInv
  <2> QED BY <2>2 DEF ReviewInv, AcceptedInv
<1> QED BY <1>1, <1>2, <1>3, <1>4

LEMMA OpenDirectlyKeeps == ASSUME ReviewInv, OpenDirectly PROVE ReviewInv'
<1>1. ~votingOpen /\ projectKey = [c \in 1 .. MaxProjects |-> NoKey] /\ accepted = << >>
  BY DEF OpenDirectly, CanOpen, Setup, NothingToPublish, ReviewInv, OpeningInv
<1>2. \A c \in DOMAIN projects : KeyOf(projects[c]) = NoKey
  BY <1>1, Keyed
<1>3. UNCHANGED privacyVars
  BY DEF OpenDirectly
<1>4. \A c \in 1 .. MaxProjects :
         projectKey'[c] = IF c \in DOMAIN projects THEN KeyOf(projects[c]) ELSE NoKey
  BY <1>1, <1>2, <1>3 DEF privacyVars
<1>5. /\ votingOpen' = TRUE
      /\ UNCHANGED <<owner, pastDeadline, reviewVars, organizerKey, started,
                     keyCommitment, accepted, clientVars, disclosed>>
      /\ prepared' \in {prepared, Idle} /\ sent' \in {sent, Idle}
  BY <1>3 DEF OpenDirectly, privacyVars, openingVars
<1>6. /\ published' \in BOOLEAN
      /\ proposalKey' \in [Ids -> Nat] /\ projectKey' \in [1 .. MaxProjects -> Nat]
  BY <1>3 DEF privacyVars, ReviewInv, ReviewTypeOK
<1> QED BY <1>4, <1>5, <1>6, OpeningKeeps

LEMMA PublishAndOpenKeeps == ASSUME ReviewInv, PublishAndOpen PROVE ReviewInv'
<1> PICK p : p = sent
  OBVIOUS
<1>1. /\ p.ids = accepted
      /\ \A i \in DOMAIN accepted : p.keys[i] = keyCommitment[accepted[i]]
      /\ Publish(p) /\ ~votingOpen
  BY DEF PublishAndOpen, PublicationValid, CanOpen, Setup
<1>2. projectKey = [c \in 1 .. MaxProjects |-> NoKey]
  BY <1>1 DEF ReviewInv, OpeningInv
\* The key published for an id on the list.
<1>3. \A i \in DOMAIN accepted : KeyIn(p, accepted[i]) = keyCommitment[accepted[i]]
  <2> TAKE i \in DOMAIN accepted
  <2>1. \A j \in DOMAIN accepted : accepted[j] = accepted[i] <=> j = i
    BY DEF ReviewInv, AcceptedInv
  <2>2. (CHOOSE j \in DOMAIN p.ids : p.ids[j] = accepted[i]) = i
    BY <2>1, <1>1
  <2> QED BY <2>2, <1>1 DEF KeyIn
<1>4. \A i \in DOMAIN accepted : keyCommitment[accepted[i]] \in Nat
  BY OnChain DEF ReviewInv, ReviewTypeOK, AcceptedInv
<1>5. proposalKey' \in [Ids -> Nat]
  <2>1. \A id \in ToSet(p.ids) : KeyIn(p, id) \in Nat
    BY <1>1, <1>3, <1>4 DEF ToSet
  <2>2. proposalKey \in [Ids -> Nat]
    BY DEF ReviewInv, ReviewTypeOK
  <2> QED BY <1>1, <2>1, <2>2 DEF Publish
<1>6. \A c \in 1 .. MaxProjects :
         projectKey'[c] = IF c \in DOMAIN projects THEN KeyOf(projects[c]) ELSE NoKey
  <2> TAKE c \in 1 .. MaxProjects
  <2>1. projectKey'[c] = IF \E id \in ToSet(p.ids) : proposals[id].projectId = c
                         THEN KeyIn(p, CHOOSE id \in ToSet(p.ids) : proposals[id].projectId = c)
                         ELSE projectKey[c]
    BY <1>1 DEF Publish
  <2>2. CASE \E i \in DOMAIN accepted : proposals[accepted[i]].projectId = c
    <3>1. PICK i \in DOMAIN accepted : proposals[accepted[i]].projectId = c
      BY <2>2
    <3>2. /\ c \in DOMAIN projects /\ KeyOf(projects[c]) = keyCommitment[accepted[i]]
          /\ \A j \in DOMAIN accepted : proposals[accepted[j]].projectId = c => j = i
      BY <3>1, KeyedBy
    <3>3. /\ accepted[i] \in ToSet(p.ids)
          /\ \A id \in ToSet(p.ids) : proposals[id].projectId = c <=> id = accepted[i]
      BY <3>1, <3>2, <1>1 DEF ToSet
    <3>4. (CHOOSE id \in ToSet(p.ids) : proposals[id].projectId = c) = accepted[i]
      BY <3>3
    <3> QED BY <2>1, <3>2, <3>3, <3>4, <1>3
  <2>3. CASE ~ \E i \in DOMAIN accepted : proposals[accepted[i]].projectId = c
    <3>1. ~ \E id \in ToSet(p.ids) : proposals[id].projectId = c
      BY <2>3, <1>1 DEF ToSet
    <3>2. projectKey'[c] = NoKey
      BY <2>1, <3>1, <1>2
    <3>3. c \in DOMAIN projects => KeyOf(projects[c]) = NoKey
      BY <2>3, Keyed
    <3> QED BY <3>2, <3>3
  <2> QED BY <2>2, <2>3
<1>7. projectKey' \in [1 .. MaxProjects -> Nat]
  <2>1. \A c \in DOMAIN projects : KeyOf(projects[c]) \in Nat
    <3>1. \A c \in DOMAIN projects : projects[c] \in Terms
      BY ElementOfSeq, LenProperties DEF ReviewInv, ReviewTypeOK
    <3> QED BY <3>1, KeyTyped
  <2>2. DOMAIN projectKey' = 1 .. MaxProjects /\ projectKey' = [c \in 1 .. MaxProjects |-> projectKey'[c]]
    BY <1>1 DEF Publish
  <2>3. \A c \in 1 .. MaxProjects : projectKey'[c] \in Nat
    BY <1>6, <2>1 DEF NoKey
  <2> QED BY <2>2, <2>3
<1>8. /\ votingOpen' = TRUE /\ published' \in BOOLEAN
      /\ UNCHANGED <<owner, pastDeadline, reviewVars, organizerKey, started,
                     keyCommitment, accepted, clientVars, disclosed>>
      /\ prepared' \in {prepared, Idle} /\ sent' \in {sent, Idle}
  BY DEF PublishAndOpen, Publish
<1> QED BY <1>5, <1>6, <1>7, <1>8, OpeningKeeps

-----------------------------------------------------------------------------
(* The invariant.                                                          *)

LEMMA InitHolds == Init => ReviewInv
<1> SUFFICES ASSUME Init PROVE ReviewInv
  OBVIOUS
<1> USE DEF Init
<1>1. DOMAIN proposals = {} /\ DOMAIN projects = {} /\ DOMAIN accepted = {}
  <2>1. DOMAIN << >> = {}
    OBVIOUS
  <2> QED BY <2>1
<1>2. ReviewTypeOK
  <2>1. /\ proposals \in Seq(Proposals) /\ revision \in Seq(Nat)
        /\ projects \in Seq(Terms) /\ accepted \in Seq(Nat)
        /\ Len(proposals) = 0 /\ Len(revision) = 0 /\ Len(projects) = 0
    OBVIOUS
  <2>2. 0 <= MaxProposals /\ 0 <= MaxProjects
    BY BoundsAssumption
  <2>3. /\ keyCommitment \in [Ids -> Nat] /\ proposalKey \in [Ids -> Nat]
        /\ projectKey \in [1 .. MaxProjects -> Nat]
    BY DEF NoKey
  <2>4. desk = [u \in User |-> desk[u]] /\ \A u \in User : desk[u] = Idle
    OBVIOUS
  <2> QED BY <2>1, <2>2, <2>3, <2>4 DEF ReviewTypeOK
<1>3. CommitmentInv /\ PrivateOrPublic /\ OpeningInv /\ ReadableOnceOpen
  BY <1>1 DEF CommitmentInv, PrivateOrPublic, OpeningInv, ReadableOnceOpen
<1>4. AcceptedInv /\ ProjectInv /\ PublicationInv /\ OnlyAcceptedDisclosed /\ DeskInv
  BY <1>1 DEF AcceptedInv, ProjectInv, PublicationInv, OnlyAcceptedDisclosed, DeskInv
<1> QED BY <1>2, <1>3, <1>4 DEF ReviewInv

LEMMA NextKeeps == ASSUME ReviewInv, Next PROVE ReviewInv'
<1>1. ASSUME NEW u \in User, ClientSteps(u) PROVE ReviewInv'
  BY <1>1, DraftProposalKeeps, DraftEditKeeps, ReviewKeeps, PrepareKeeps DEF ClientSteps
<1>2. ASSUME NEW u \in User, Transactions(u) PROVE ReviewInv'
  BY <1>2, ProposeKeeps, EditProposalKeeps, AcceptProposalKeeps, RejectProposalKeeps
  DEF Transactions
<1>3. ASSUME NEW cost \in Costs, AddProject(cost) PROVE ReviewInv'
  BY <1>3, AddProjectKeeps
<1>4. ASSUME NEW k \in OrganizerKey, SetOrganizerKey(k) PROVE ReviewInv'
  BY <1>4, SetOrganizerKeyKeeps
<1>5. ASSUME NEW u \in User, TransferOwnership(u) PROVE ReviewInv'
  BY <1>5, TransferOwnershipKeeps
<1> QED BY <1>1, <1>2, <1>3, <1>4, <1>5, SendPublicationKeeps, PublishAndOpenKeeps,
       PublicationRevertsKeeps, OpenDirectlyKeeps, DeadlinePassesKeeps DEF Next

LEMMA StutterKeeps == ASSUME ReviewInv, UNCHANGED vars PROVE ReviewInv'
<1>1. UNCHANGED <<votingOpen, reviewVars, privacyVars, clientVars>>
  BY DEF vars, poolVars
<1>2. UNCHANGED <<owner, pastDeadline, prepared, sent, disclosed>>
  BY DEF vars, poolVars, openingVars
<1> QED BY <1>1, <1>2, StillKeeps DEF ReviewInv, ReviewTypeOK, PublicationInv

\* The contracts' bookkeeping of proposals, projects and commitments is
\* consistent in every round, and so is whatever a client read of it earlier
\* (PoolBase.sol's proposal functions, ProposalPrivacy.sol).
THEOREM ReviewInvariant == Spec => []ReviewInv
<1>1. Init => ReviewInv
  BY InitHolds
<1>2. ReviewInv /\ [Next]_vars => ReviewInv'
  BY NextKeeps, StutterKeeps
<1> QED BY <1>1, <1>2, PTL DEF Spec

\* A round is private from its first proposal on or not at all
\* (ProposalPrivacy.sol:45-65): PrivateOrPublic.
THEOREM PrivateFromTheStart == Spec => []PrivateOrPublic
<1>1. ReviewInv => PrivateOrPublic
  BY DEF ReviewInv
<1> QED BY <1>1, ReviewInvariant, PTL

\* Once voting is open every project that came from a private proposal has the
\* key of the accepted revision on chain, and before that none has
\* (ProposalPrivacy.sol's openVoting and requirePublished): ReadableOnceOpen.
THEOREM BallotIsReadable == Spec => []ReadableOnceOpen
<1>1. ReviewInv => ReadableOnceOpen
  BY DEF ReviewInv
<1> QED BY <1>1, ReviewInvariant, PTL

\* No transaction, reverted ones included, ever carried the key of anything but
\* an accepted final revision, whatever was edited, accepted or rejected between
\* preparing the publication and sending it: OnlyAcceptedDisclosed.
THEOREM DraftsStayPrivate == Spec => []OnlyAcceptedDisclosed
<1>1. ReviewInv => OnlyAcceptedDisclosed
  BY DEF ReviewInv
<1> QED BY <1>1, ReviewInvariant, PTL

-----------------------------------------------------------------------------
(* What a step may do to a proposal.                                       *)

\* The step that changes a proposal, said of it.
Read(id) ==
  \E u \in User :
    /\ desk[u] # Idle /\ desk[u].does # "propose"
    /\ desk[u].id = id
    /\ desk[u].read = proposals[id].terms
    /\ proposals'[id].status # proposals[id].status => u = owner

\* The revision at a desk is the current one where a transaction goes through.
LEMMA ReadIt ==
  ASSUME ReviewInv, NEW u \in User, desk[u] # Idle, desk[u].does # "propose",
         desk[u].revision = revision[desk[u].id]
  PROVE  desk[u].id \in DOMAIN proposals /\ desk[u].read = proposals[desk[u].id].terms
BY DEF ReviewInv, DeskInv

LEMMA NothingLost ==
  ASSUME ReviewInv, Next, NEW id \in DOMAIN proposals, proposals'[id] # proposals[id]
  PROVE  Read(id)
<1>1. ASSUME NEW u \in User, ClientSteps(u) PROVE proposals' = proposals
  BY <1>1 DEF ClientSteps, DraftProposal, DraftEdit, Review, Prepare, Open, reviewVars
<1>2. ASSUME NEW u \in User, Propose(u) PROVE FALSE
  <2>1. proposals \in Seq(Proposals)
    BY DEF ReviewInv, ReviewTypeOK
  <2> PICK p : p = [proposer |-> u, terms |-> desk[u].next, status |-> "Pending", projectId |-> 0]
    OBVIOUS
  <2>2. proposals' = Append(proposals, p)
    BY <1>2 DEF Propose
  <2>3. p \in Proposals
    BY <1>2, AtDesk DEF ReviewInv, Propose, Doing, Proposals
  <2>4. proposals'[id] = proposals[id]
    BY <2>1, <2>2, <2>3, Longer
  <2> QED BY <2>4
<1>3. ASSUME NEW u \in User, EditProposal(u) PROVE Read(id)
  <2>1. /\ desk[u] # Idle /\ desk[u].does = "edit"
        /\ desk[u].revision = revision[desk[u].id]
        /\ proposals' = [proposals EXCEPT ![desk[u].id].terms = desk[u].next]
    BY <1>3 DEF EditProposal, Doing, PendingAt
  <2>2. desk[u].id = id
    BY <2>1
  <2>3. desk[u].read = proposals[id].terms
    BY <2>1, <2>2, ReadIt
  <2> PICK p : p = [proposals[id] EXCEPT !.terms = desk[u].next]
    OBVIOUS
  <2>4. p.status = proposals[id].status /\ proposals' = [proposals EXCEPT ![id] = p]
    BY <2>1, <2>2, OnChain DEF Proposals
  <2>5. proposals'[id].status = proposals[id].status
    BY <2>4
  <2> QED BY <2>1, <2>2, <2>3, <2>5 DEF Read
<1>4. ASSUME NEW u \in User, AcceptProposal(u) \/ RejectProposal(u) PROVE Read(id)
  <2>1. /\ desk[u] # Idle /\ desk[u].does # "propose" /\ u = owner
        /\ desk[u].revision = revision[desk[u].id]
    BY <1>4 DEF AcceptProposal, RejectProposal, Doing, PendingAt
  <2>2. desk[u].id = id
    BY <1>4 DEF AcceptProposal, RejectProposal
  <2>3. desk[u].read = proposals[id].terms
    BY <2>1, <2>2, ReadIt
  <2> QED BY <2>1, <2>2, <2>3 DEF Read
<1>5. ASSUME NEW u \in User, TransferOwnership(u) PROVE proposals' = proposals
  BY <1>5 DEF TransferOwnership, reviewVars
<1>6. ASSUME NEW cost \in Costs, AddProject(cost) PROVE proposals' = proposals
  BY <1>6 DEF AddProject
<1>7. ASSUME NEW k \in OrganizerKey, SetOrganizerKey(k) PROVE proposals' = proposals
  BY <1>7 DEF SetOrganizerKey, reviewVars
<1>8. ASSUME SendPublication \/ PublishAndOpen \/ PublicationReverts \/ OpenDirectly
               \/ DeadlinePasses
      PROVE  proposals' = proposals
  BY <1>8 DEF SendPublication, PublishAndOpen, PublicationReverts, OpenDirectly,
     DeadlinePasses, reviewVars
<1> QED BY <1>1, <1>2, <1>3, <1>4, <1>5, <1>6, <1>7, <1>8 DEF Next, Transactions

\* A proposal is replaced, accepted or rejected only by somebody who had its
\* current revision open, and decided only by the owner: the expectedRevision of
\* PoolBase.sol's transactions does what it is for (PoolBase.sol:209-265):
\* NoLostUpdate.
THEOREM SavesAreNotLost == Spec => NoLostUpdate
<1> DEFINE Kept == \A id \in DOMAIN proposals : proposals'[id] # proposals[id] => Read(id)
<1>1. ReviewInv /\ [Next]_vars => [Kept]_vars
  BY NothingLost
<1>2. [Kept]_vars => [\A id \in DOMAIN proposals : proposals'[id] # proposals[id] =>
       \E u \in User :
         /\ desk[u] # Idle /\ desk[u].does # "propose"
         /\ desk[u].id = id
         /\ desk[u].read = proposals[id].terms
         /\ proposals'[id].status # proposals[id].status => u = owner]_vars
  BY DEF Read
<1> HIDE DEF Kept
<1> QED BY <1>1, <1>2, ReviewInvariant, PTL DEF Spec, NoLostUpdate

-----------------------------------------------------------------------------
(* Casting a vote: the inductive invariant.                                *)

Drafts == [serial: Nat, amount: Nat, revision: Nat, approvalTx: Nat, voteTx: Nat]

Txs == [serial: Nat, amount: Nat, revision: Nat, permit: Nat, hash: Nat]

\* What a page may be doing.
Activities ==
  {"idle", "check", "funds", "approve", "approvalSent", "approvalWait", "approvalAgain",
   "simulate", "confirm", "voteSent", "voteWait"}

CastTypeOK ==
  /\ chain \in [permits: BOOLEAN, closed: BOOLEAN, revision: Nat, paid: Nat,
                allowance: Nat, nonce: Nat]
  /\ mempool \in Seq(Txs) /\ landed \in Seq(Txs)
  /\ fate \in Seq({"waiting", "success", "reverted", "replaced"})
  /\ saved \in Drafts
  /\ page \in [Pages -> [pc: Activities, draft: Drafts, permit: Nat, offersEdit: BOOLEAN]]
  /\ drafts \in Nat
  /\ told \subseteq Drafts

\* The drafts that exist, in localStorage and open.
Held == {saved} \cup {page[w].draft : w \in Pages}

DraftsOK ==
  /\ \A d \in Held : d # NoDraft => d.serial \in 1 .. drafts /\ d.revision >= 1
  /\ \A w \in Pages :
       /\ page[w].pc # "idle" => page[w].draft # NoDraft
       /\ page[w].pc \in {"voteSent", "voteWait"} => page[w].draft.voteTx # 0

\* The revision a draft was prepared for, as every copy and transaction of it says.
For(s, r) ==
  \/ \E d \in Held \ {NoDraft} : d.serial = s /\ d.revision = r
  \/ r # 0 /\ \E i \in DOMAIN mempool : mempool[i].serial = s /\ mempool[i].revision = r
  \/ \E i \in DOMAIN landed : landed[i].serial = s /\ landed[i].revision = r

VotesOK ==
  /\ chain.revision = Len(landed)
  /\ \A i \in DOMAIN landed : landed[i].revision = i
  /\ \A s, r : For(s, r) => s \in 1 .. drafts
  /\ \A s, r, q : For(s, r) /\ For(s, q) => r = q

\* The draft whose vote a hash carries, as every copy and transaction says;
\* 0 for an approval.
Carries(hash, serial) ==
  \/ hash # 0 /\ \E d \in Held : d.voteTx = hash /\ d.serial = serial
  \/ \E i \in DOMAIN mempool :
       /\ mempool[i].hash = hash
       /\ serial = IF mempool[i].revision = 0 THEN 0 ELSE mempool[i].serial

LandedAs(hash, serial) ==
  \E i \in DOMAIN landed : landed[i].serial = serial /\ landed[i].hash = hash

HashesOK ==
  /\ \A h, s : Carries(h, s) => h \in 1 .. Len(fate)
  /\ \A h, s, t : Carries(h, s) /\ Carries(h, t) => s = t
  /\ \A h, s : Carries(h, s) /\ s # 0 /\ fate[h] = "success" => LandedAs(h, s)

CastInv == CastTypeOK /\ DraftsOK /\ VotesOK /\ HashesOK /\ ToldTruly

-----------------------------------------------------------------------------
(* What a step of a page may do to the drafts.                             *)

\* A copy made in this step says what a copy said before, or has no transaction.
CopyOf(d, e) ==
  /\ d.serial = e.serial /\ d.revision = e.revision
  /\ d.voteTx \in {0, e.voteTx}

LEMMA Handled ==
  ASSUME CastInv, CastTypeOK', DraftsOK',
         UNCHANGED <<chain, mempool, fate, landed, drafts>>,
         \A d \in Held' : d # NoDraft => \E e \in Held : CopyOf(d, e)
  PROVE  VotesOK' /\ HashesOK'
<1>1. ASSUME NEW s, NEW r, For(s, r)' PROVE For(s, r)
  <2>1. CASE \E d \in Held' \ {NoDraft} : d.serial = s /\ d.revision = r
    <3>1. PICK d \in Held' : d # NoDraft /\ d.serial = s /\ d.revision = r
      BY <2>1
    <3>2. PICK e \in Held : CopyOf(d, e)
      BY <3>1
    <3>3. d.serial \in 1 .. drafts'
      BY <3>1 DEF DraftsOK
    <3>4. e # NoDraft
      BY <3>2, <3>3 DEF CopyOf, NoDraft, CastInv, CastTypeOK
    <3> QED BY <3>1, <3>2, <3>4 DEF CopyOf, For
  <2>2. CASE ~\E d \in Held' \ {NoDraft} : d.serial = s /\ d.revision = r
    BY <1>1, <2>2 DEF For
  <2> QED BY <2>1, <2>2
<1>2. ASSUME NEW h, NEW s, Carries(h, s)' PROVE Carries(h, s)
  <2>1. CASE h # 0 /\ \E d \in Held' : d.voteTx = h /\ d.serial = s
    <3>1. PICK d \in Held' : d.voteTx = h /\ d.serial = s
      BY <2>1
    <3>2. d # NoDraft
      BY <2>1, <3>1 DEF NoDraft
    <3>3. PICK e \in Held : CopyOf(d, e)
      BY <3>1, <3>2
    <3> QED BY <2>1, <3>1, <3>3 DEF CopyOf, Carries
  <2>2. CASE ~(h # 0 /\ \E d \in Held' : d.voteTx = h /\ d.serial = s)
    BY <1>2, <2>2 DEF Carries
  <2> QED BY <2>1, <2>2
<1>3. VotesOK'
  BY <1>1 DEF VotesOK, CastInv
<1>4. HashesOK'
  BY <1>2 DEF HashesOK, CastInv, LandedAs
<1> QED BY <1>3, <1>4

PageStates == [pc: Activities, draft: Drafts, permit: Nat, offersEdit: BOOLEAN]

PageOK(p) ==
  /\ p.pc # "idle" => p.draft # NoDraft
  /\ p.pc \in {"voteSent", "voteWait"} => p.draft.voteTx # 0

\* A step of a page that sends nothing: it may save and keep copies, and tell
\* the voter what has landed.
LEMMA Turned ==
  ASSUME CastInv, NEW w \in Pages, NEW p \in PageStates, page' = [page EXCEPT ![w] = p],
         UNCHANGED <<chain, mempool, fate, landed, drafts>>,
         saved' \in Drafts, PageOK(p),
         \A d \in {saved', p.draft} : d # NoDraft => \E e \in Held \ {NoDraft} : CopyOf(d, e),
         told' \subseteq Drafts, \A d \in told' \ told : LandedAs(d.voteTx, d.serial)
  PROVE  CastInv'
<1>1. CastTypeOK'
  BY DEF CastInv, CastTypeOK, PageStates
<1>2. page'[w] = p /\ \A u \in Pages \ {w} : page'[u] = page[u]
  BY DEF CastInv, CastTypeOK
<1>3. ASSUME NEW d \in Held', d # NoDraft PROVE \E e \in Held \ {NoDraft} : CopyOf(d, e)
  <2>1. d \in {saved', p.draft} \/ d \in Held
    BY <1>2 DEF Held
  <2>2. CopyOf(d, d)
    BY DEF CopyOf
  <2> QED BY <1>3, <2>1, <2>2
<1>4. DraftsOK'
  <2>1. ASSUME NEW d \in Held', d # NoDraft PROVE d.serial \in 1 .. drafts' /\ d.revision >= 1
    <3>1. PICK e \in Held \ {NoDraft} : CopyOf(d, e)
      BY <1>3, <2>1
    <3> QED BY <3>1 DEF CopyOf, CastInv, DraftsOK
  <2>2. ASSUME NEW u \in Pages
        PROVE  /\ page'[u].pc # "idle" => page'[u].draft # NoDraft
               /\ page'[u].pc \in {"voteSent", "voteWait"} => page'[u].draft.voteTx # 0
    BY <1>2 DEF CastInv, DraftsOK, PageOK
  <2> QED BY <2>1, <2>2 DEF DraftsOK
<1>5. VotesOK' /\ HashesOK'
  BY <1>1, <1>3, <1>4, Handled
<1>6. ToldTruly'
  BY DEF CastInv, ToldTruly, LandedAs
<1> QED BY <1>1, <1>4, <1>5, <1>6 DEF CastInv

LEMMA PageTyped ==
  ASSUME CastInv, NEW w \in Pages
  PROVE  /\ page[w] \in PageStates /\ page[w].draft \in Held /\ PageOK(page[w])
         /\ page = [u \in Pages |-> page[u]] /\ saved \in Held
         /\ \A d : CopyOf(d, d)
         /\ \A d \in Held \ {NoDraft} : d.serial \in Nat \ {0}
BY DEF CastInv, CastTypeOK, DraftsOK, PageOK, Held, PageStates, CopyOf

LEMMA RestingOK ==
  NoDraft \in Drafts /\ \A b \in BOOLEAN : [Resting EXCEPT !.offersEdit = b] \in PageStates
<1>1. NoDraft \in Drafts
  BY DEF NoDraft, Drafts
<1>2. ASSUME NEW b \in BOOLEAN PROVE [Resting EXCEPT !.offersEdit = b] \in PageStates
  BY <1>1 DEF Resting, PageStates, Activities
<1> QED BY <1>1, <1>2

\* A page that stops shows what is saved.
LEMMA EndsKeeps ==
  ASSUME CastInv, NEW w \in Pages, Ends(w), UNCHANGED <<chain, mempool, fate, landed, drafts>>,
         saved' \in Drafts,
         saved' # NoDraft => \E e \in Held \ {NoDraft} : CopyOf(saved', e),
         told' \subseteq Drafts, \A d \in told' \ told : LandedAs(d.voteTx, d.serial)
  PROVE  CastInv'
<1> DEFINE p == [Resting EXCEPT !.offersEdit = Editable(saved')]
<1>1. p \in PageStates /\ p.draft = NoDraft /\ p.pc = "idle"
  <2>1. Editable(saved') \in BOOLEAN
    BY DEF Editable
  <2>2. p \in PageStates
    BY <2>1, RestingOK
  <2> QED BY <2>2 DEF Resting
<1>2. page' = [page EXCEPT ![w] = p]
  BY DEF Ends
<1>3. PageOK(p)
  BY <1>1 DEF PageOK
<1> HIDE DEF p
<1> QED BY <1>1, <1>2, <1>3, Turned

\* The page of a step that goes on, in one form.
Onwards(w, pc, d, n) == [page[w] EXCEPT !.pc = pc, !.draft = d, !.permit = n]

LEMMA HoldsIs ==
  ASSUME CastInv, NEW w \in Pages, NEW pc \in Activities, NEW d \in Drafts, Holds(w, d, pc)
  PROVE  page' = [page EXCEPT ![w] = Onwards(w, pc, d, page[w].permit)]
<1>1. page \in [Pages -> PageStates] /\ page[w] \in PageStates
  BY PageTyped DEF CastInv, CastTypeOK, PageStates
<1>2. [page[w] EXCEPT !.pc = pc, !.draft = d] = Onwards(w, pc, d, page[w].permit)
  BY <1>1 DEF PageStates, Onwards
<1>3. [page EXCEPT ![w].pc = pc, ![w].draft = d]
        = [page EXCEPT ![w] = [page[w] EXCEPT !.pc = pc, !.draft = d]]
  BY <1>1
<1> QED BY <1>2, <1>3 DEF Holds

LEMMA GoesIs ==
  ASSUME CastInv, NEW w \in Pages, NEW pc \in Activities, NEW n \in Nat,
         Goes(w, pc) \/ page' = [page EXCEPT ![w].pc = pc, ![w].permit = n]
  PROVE  \E m \in Nat : page' = [page EXCEPT ![w] = Onwards(w, pc, page[w].draft, m)]
<1>1. page \in [Pages -> PageStates] /\ page[w] \in PageStates /\ page[w].permit \in Nat
  BY PageTyped DEF CastInv, CastTypeOK, PageStates
<1>2. CASE Goes(w, pc)
  <2>1. [page[w] EXCEPT !.pc = pc] = Onwards(w, pc, page[w].draft, page[w].permit)
    BY <1>1 DEF PageStates, Onwards
  <2>2. [page EXCEPT ![w].pc = pc] = [page EXCEPT ![w] = [page[w] EXCEPT !.pc = pc]]
    BY <1>1
  <2> QED BY <1>1, <1>2, <2>1, <2>2 DEF Goes
<1>3. CASE page' = [page EXCEPT ![w].pc = pc, ![w].permit = n]
  <2>1. [page[w] EXCEPT !.pc = pc, !.permit = n] = Onwards(w, pc, page[w].draft, n)
    BY <1>1 DEF PageStates, Onwards
  <2>2. [page EXCEPT ![w].pc = pc, ![w].permit = n]
          = [page EXCEPT ![w] = [page[w] EXCEPT !.pc = pc, !.permit = n]]
    BY <1>1
  <2> QED BY <1>3, <2>1, <2>2
<1> QED BY <1>2, <1>3

\* A page that goes on with the draft it has, or a copy of what it has.
LEMMA GoesKeeps ==
  ASSUME CastInv, NEW w \in Pages, NEW d \in Drafts, NEW pc \in Activities, NEW n \in Nat,
         page' = [page EXCEPT ![w] = Onwards(w, pc, d, n)],
         UNCHANGED <<chain, mempool, fate, landed, drafts, told>>,
         d # NoDraft, \E e \in Held \ {NoDraft} : CopyOf(d, e),
         pc \in {"voteSent", "voteWait"} => d.voteTx # 0,
         saved' \in {saved, d}
  PROVE  CastInv'
<1> DEFINE p == Onwards(w, pc, d, n)
<1>1. page[w] \in PageStates
  BY PageTyped
<1>2. p \in PageStates /\ p.draft = d /\ p.pc = pc
  BY <1>1 DEF PageStates, Onwards
<1>3. PageOK(p)
  BY <1>2 DEF PageOK
<1>4. saved' \in Drafts /\ told' \subseteq Drafts
  BY DEF CastInv, CastTypeOK
<1>5. saved \in Held /\ \A e : CopyOf(e, e)
  BY PageTyped
<1> HIDE DEF p
<1>6. ASSUME NEW e \in {saved', p.draft}, e # NoDraft PROVE \E x \in Held \ {NoDraft} : CopyOf(e, x)
  <2>1. e = saved \/ e = d
    BY <1>2, <1>6
  <2> QED BY <1>5, <1>6, <2>1
<1>7. \A e \in told' \ told : LandedAs(e.voteTx, e.serial)
  OBVIOUS
<1>8. page' = [page EXCEPT ![w] = p]
  BY DEF p
<1> QED BY <1>2, <1>3, <1>4, <1>6, <1>7, <1>8, Turned

\* A page that goes on with what it has.
LEMMA StaysKeeps ==
  ASSUME CastInv, NEW w \in Pages, NEW pc \in Activities, NEW n \in Nat,
         Goes(w, pc) \/ page' = [page EXCEPT ![w].pc = pc, ![w].permit = n],
         UNCHANGED <<chain, mempool, fate, landed, drafts, told>>,
         page[w].pc # "idle", pc \in {"voteSent", "voteWait"} => page[w].draft.voteTx # 0,
         saved' \in {saved, page[w].draft}
  PROVE  CastInv'
<1>1. /\ page[w].draft \in Held \ {NoDraft} /\ page[w].draft \in Drafts /\ page[w].permit \in Nat
      /\ CopyOf(page[w].draft, page[w].draft)
  BY PageTyped DEF PageOK, PageStates
<1>2. PICK m \in Nat :
        page' = [page EXCEPT ![w] = Onwards(w, pc, page[w].draft, m)]
  BY GoesIs
<1> QED BY <1>1, <1>2, GoesKeeps

LEMMA PageStepKeeps ==
  ASSUME CastInv, NEW w \in Pages,
         ResumeDraft(w) \/ Discard(w) \/ CheckDraft(w) \/ ReadFunds(w) \/ SimulateVote(w)
           \/ SaveHash(w) \/ ApprovalMined(w) \/ VoteMined(w) \/ Leave(w)
  PROVE  CastInv'
<1>0. /\ page[w].draft \in Held /\ page[w].draft \in Drafts /\ page[w].permit \in Nat
      /\ \A d : CopyOf(d, d)
      /\ page[w].pc # "idle" => page[w].draft # NoDraft
      /\ page[w].pc \in {"voteSent", "voteWait"} => page[w].draft.voteTx # 0
      /\ saved \in Held /\ saved \in Drafts /\ NoDraft \in Drafts /\ told \subseteq Drafts
      /\ chain.nonce \in Nat
  BY PageTyped, RestingOK DEF PageOK, PageStates, CastInv, CastTypeOK
<1>1. ASSUME ResumeDraft(w) PROVE CastInv'
  <2> DEFINE pc == IF saved.voteTx # 0 THEN "voteWait" ELSE "check"
  <2>1. /\ Holds(w, saved, pc) /\ saved # NoDraft /\ saved' = saved
        /\ UNCHANGED <<chain, mempool, fate, landed, drafts, told>>
    BY <1>1 DEF ResumeDraft
  <2>2. pc \in Activities /\ (pc \in {"voteSent", "voteWait"} => saved.voteTx # 0)
    BY DEF Activities
  <2> HIDE DEF pc
  <2>3. page' = [page EXCEPT ![w] = Onwards(w, pc, saved, page[w].permit)]
    BY <1>0, <2>1, <2>2, HoldsIs
  <2> QED BY <1>0, <2>1, <2>2, <2>3, GoesKeeps
<1>2. ASSUME Ends(w), saved' = saved \/ saved' = NoDraft,
             UNCHANGED <<chain, mempool, fate, landed, drafts, told>>
      PROVE CastInv'
  BY <1>0, <1>2, EndsKeeps
<1>3. ASSUME Discard(w) \/ Leave(w) PROVE CastInv'
  BY <1>2, <1>3 DEF Discard, Leave
<1>4. ASSUME CheckDraft(w) PROVE CastInv'
  <2>1. page[w].pc = "check" /\ UNCHANGED <<chain, mempool, fate, landed, drafts, told>>
    BY <1>4 DEF CheckDraft
  <2>2. CASE UNCHANGED saved /\ Ends(w)
    BY <1>2, <2>1, <2>2
  <2>3. CASE /\ saved' = page[w].draft
             /\ Goes(w, IF page[w].draft.approvalTx # 0 THEN "approvalAgain" ELSE "funds")
    <3>1. "approvalAgain" \in Activities /\ "funds" \in Activities
      BY DEF Activities
    <3>2. Goes(w, "approvalAgain") \/ Goes(w, "funds")
      BY <2>3
    <3> QED BY <1>0, <2>1, <2>3, <3>1, <3>2, StaysKeeps
  <2> QED BY <1>4, <2>2, <2>3 DEF CheckDraft
<1>5. ASSUME ReadFunds(w) PROVE CastInv'
  <2>1. /\ page[w].pc = "funds" /\ saved' = saved
        /\ UNCHANGED <<chain, mempool, fate, landed, drafts, told>>
    BY <1>5 DEF ReadFunds
  <2>2. "simulate" \in Activities /\ "approve" \in Activities
    BY DEF Activities
  <2>3. \/ Ends(w) \/ Goes(w, "simulate") \/ Goes(w, "approve")
        \/ page' = [page EXCEPT ![w].pc = "simulate", ![w].permit = chain.nonce]
    BY <1>5 DEF ReadFunds
  <2>4. CASE Ends(w)
    BY <1>2, <2>1, <2>4
  <2>5. CASE Goes(w, "simulate") \/ page' = [page EXCEPT ![w].pc = "simulate", ![w].permit = chain.nonce]
    BY <1>0, <2>1, <2>2, <2>5, StaysKeeps
  <2>6. CASE Goes(w, "approve")
    BY <1>0, <2>1, <2>2, <2>6, StaysKeeps
  <2> QED BY <2>3, <2>4, <2>5, <2>6
<1>6. ASSUME SimulateVote(w) PROVE CastInv'
  <2>1. /\ page[w].pc = "simulate" /\ saved' = saved
        /\ UNCHANGED <<chain, mempool, fate, landed, drafts, told>>
        /\ Goes(w, "confirm") \/ Ends(w)
    BY <1>6 DEF SimulateVote
  <2>2. "confirm" \in Activities
    BY DEF Activities
  <2> QED BY <1>0, <1>2, <2>1, <2>2, StaysKeeps
<1>7. ASSUME SaveHash(w) PROVE CastInv'
  <2>1. /\ page[w].pc \in {"approvalSent", "voteSent"} /\ saved' = page[w].draft
        /\ UNCHANGED <<chain, mempool, fate, landed, drafts, told>>
        /\ Goes(w, IF page[w].pc = "voteSent" THEN "voteWait" ELSE "approvalWait")
    BY <1>7 DEF SaveHash
  <2>2. "voteWait" \in Activities /\ "approvalWait" \in Activities /\ page[w].pc # "idle"
    BY <2>1 DEF Activities
  <2>3. CASE page[w].pc = "voteSent"
    BY <1>0, <2>1, <2>2, <2>3, StaysKeeps
  <2>4. CASE page[w].pc # "voteSent"
    BY <1>0, <2>1, <2>2, <2>4, StaysKeeps
  <2> QED BY <2>3, <2>4
<1>8. ASSUME ApprovalMined(w) PROVE CastInv'
  <2> DEFINE d == [page[w].draft EXCEPT !.approvalTx = 0]
             pc == IF page[w].pc = "approvalWait" THEN "simulate" ELSE "funds"
  <2>1. /\ page[w].pc \in {"approvalWait", "approvalAgain"} /\ saved' = d
        /\ UNCHANGED <<chain, mempool, fate, landed, drafts, told>>
        /\ Holds(w, d, pc) \/ Ends(w)
    BY <1>8 DEF ApprovalMined
  <2>2. d \in Drafts /\ CopyOf(d, page[w].draft) /\ page[w].draft \in Held \ {NoDraft}
    BY <1>0, <2>1 DEF CopyOf, Drafts
  <2>3. d # NoDraft
    <3>1. page[w].draft.serial \in Nat \ {0}
      BY <2>2, PageTyped
    <3> QED BY <2>2, <3>1 DEF CopyOf, NoDraft
  <2>4. pc \in Activities /\ pc \notin {"voteSent", "voteWait"}
    BY DEF Activities
  <2> HIDE DEF d, pc
  <2>5. CASE Ends(w)
    BY <1>0, <2>1, <2>2, <2>5, EndsKeeps
  <2>6. CASE Holds(w, d, pc)
    <3>1. page' = [page EXCEPT ![w] = Onwards(w, pc, d, page[w].permit)]
      BY <1>0, <2>2, <2>4, <2>6, HoldsIs
    <3> QED BY <1>0, <2>1, <2>2, <2>3, <2>4, <3>1, GoesKeeps
  <2> QED BY <2>1, <2>5, <2>6
<1>9. ASSUME VoteMined(w) PROVE CastInv'
  <2> DEFINE d == page[w].draft
             e == [d EXCEPT !.voteTx = 0]
  <2>1. page[w].pc = "voteWait" /\ Ends(w) /\ UNCHANGED <<chain, mempool, fate, landed, drafts>>
    BY <1>9 DEF VoteMined
  <2>2. \/ saved' = e /\ told' = told
        \/ saved' = NoDraft /\ told' = told \cup {d} /\ fate[d.voteTx] = "success"
        \/ saved' = saved /\ told' = told
    BY <1>9 DEF VoteMined, Recorded
  <2>3. d \in Drafts /\ d \in Held \ {NoDraft} /\ d.voteTx # 0 /\ d.serial # 0
    BY <1>0, <2>1, PageTyped
  <2>4. e \in Drafts /\ CopyOf(e, d)
    BY <2>3 DEF CopyOf, Drafts
  <2>5. fate[d.voteTx] = "success" => LandedAs(d.voteTx, d.serial)
    <3>1. Carries(d.voteTx, d.serial)
      BY <2>3 DEF Carries
    <3> QED BY <2>3, <3>1 DEF CastInv, HashesOK
  <2> HIDE DEF d, e
  <2>6. CASE saved' = e /\ told' = told
    BY <1>0, <2>1, <2>3, <2>4, <2>6, EndsKeeps
  <2>7. CASE saved' = NoDraft /\ told' = told \cup {d} /\ fate[d.voteTx] = "success"
    <3>1. told' \subseteq Drafts /\ \A x \in told' \ told : LandedAs(x.voteTx, x.serial)
      BY <1>0, <2>3, <2>5, <2>7
    <3> QED BY <1>0, <2>1, <2>7, <3>1, EndsKeeps
  <2>8. CASE saved' = saved /\ told' = told
    BY <1>2, <2>1, <2>8
  <2> QED BY <2>2, <2>6, <2>7, <2>8
<1> QED BY <1>1, <1>3, <1>4, <1>5, <1>6, <1>7, <1>8, <1>9

-----------------------------------------------------------------------------
(* New drafts and new transactions.                                        *)

Filled(d, s, a, r) == [d EXCEPT !.serial = s, !.amount = a, !.revision = r]

LEMMA FilledIs ==
  ASSUME NEW d \in Drafts, NEW s \in Nat, NEW a \in Nat, NEW r \in Nat
  PROVE  /\ Filled(d, s, a, r) \in Drafts
         /\ Filled(d, s, a, r).serial = s /\ Filled(d, s, a, r).revision = r
         /\ Filled(d, s, a, r).voteTx = d.voteTx
BY DEF Drafts, Filled

LEMMA PrepareVoteKeeps ==
  ASSUME CastInv, NEW w \in Pages, NEW amount \in Nat, PrepareVote(w, amount)
  PROVE  CastInv'
<1> DEFINE d == [NoDraft EXCEPT !.serial = drafts + 1, !.amount = amount,
                                !.revision = Round.revision + 1]
<1>1. /\ drafts' = drafts + 1 /\ drafts \in Nat /\ Holds(w, d, "check")
      /\ UNCHANGED <<chain, mempool, fate, landed, saved, told>>
  BY DEF PrepareVote, CastInv, CastTypeOK
<1>2. /\ d \in Drafts /\ d.serial = drafts + 1 /\ d.revision = chain.revision + 1
      /\ d.voteTx = 0 /\ d # NoDraft /\ chain.revision \in Nat
  <2>1. chain.revision \in Nat /\ Round.revision = chain.revision
    BY DEF CastInv, CastTypeOK, Round
  <2>2. NoDraft \in Drafts /\ NoDraft.voteTx = 0 /\ NoDraft.serial = 0
    BY RestingOK DEF NoDraft
  <2>3. d = Filled(NoDraft, drafts + 1, amount, Round.revision + 1)
    BY DEF Filled
  <2> HIDE DEF d
  <2>4. d \in Drafts /\ d.serial = drafts + 1 /\ d.revision = chain.revision + 1 /\ d.voteTx = 0
    <3>1. PICK s \in Nat : s = drafts + 1
      BY <1>1
    <3>2. PICK r \in Nat : r = Round.revision + 1
      BY <2>1
    <3>3. d = Filled(NoDraft, s, amount, r)
      BY <2>3, <3>1, <3>2
    <3>4. /\ Filled(NoDraft, s, amount, r) \in Drafts
          /\ Filled(NoDraft, s, amount, r).serial = s
          /\ Filled(NoDraft, s, amount, r).revision = r
          /\ Filled(NoDraft, s, amount, r).voteTx = NoDraft.voteTx
      <4>1. s \in Nat /\ r \in Nat /\ amount \in Nat /\ NoDraft \in Drafts
        BY <2>2
      <4> QED BY ONLY <4>1, FilledIs
    <3> QED BY <2>1, <2>2, <3>1, <3>2, <3>3, <3>4
  <2> QED BY <1>1, <2>1, <2>2, <2>4
<1> HIDE DEF d
<1>3. "check" \in Activities /\ "check" \notin {"voteSent", "voteWait"}
  BY DEF Activities
<1>4. page' = [page EXCEPT ![w] = Onwards(w, "check", d, page[w].permit)]
  BY <1>1, <1>2, <1>3, HoldsIs
<1>5. /\ page' \in [Pages -> PageStates]
      /\ page'[w].draft = d /\ page'[w].pc = "check"
      /\ \A u \in Pages \ {w} : page'[u] = page[u]
  BY <1>2, <1>3, <1>4, PageTyped DEF Onwards, PageStates, CastInv, CastTypeOK
<1>6. CastTypeOK'
  BY <1>1, <1>5 DEF CastInv, CastTypeOK, PageStates
<1>7. \A e \in Held' : e = d \/ e \in Held
  BY <1>1, <1>5 DEF Held
<1>8. DraftsOK'
  BY <1>1, <1>2, <1>3, <1>5, <1>7 DEF CastInv, DraftsOK
<1>9. ASSUME NEW s, NEW r, For(s, r)' PROVE For(s, r) \/ (s = drafts + 1 /\ r = chain.revision + 1)
  BY <1>1, <1>2, <1>7, <1>9 DEF For
<1>10. VotesOK'
  <2>1. ASSUME NEW s, NEW r, For(s, r)' PROVE s \in 1 .. drafts'
    BY <1>1, <1>9, <2>1 DEF CastInv, VotesOK
  <2>2. ASSUME NEW s, NEW r, NEW q, For(s, r)', For(s, q)' PROVE r = q
    <3>1. ~\E t : For(drafts + 1, t)
      BY <1>1 DEF CastInv, VotesOK
    <3> QED BY <1>9, <2>2, <3>1 DEF CastInv, VotesOK
  <2> QED BY <1>1, <2>1, <2>2 DEF CastInv, VotesOK
<1>11. ASSUME NEW h, NEW s, Carries(h, s)' PROVE Carries(h, s)
  BY <1>1, <1>2, <1>7, <1>11 DEF Carries
<1>12. HashesOK' /\ ToldTruly'
  BY <1>1, <1>11 DEF CastInv, HashesOK, LandedAs, ToldTruly
<1> QED BY <1>6, <1>8, <1>10, <1>12 DEF CastInv

\* Appending leaves every other entry where it was.
LEMMA Appended ==
  ASSUME NEW S, NEW s \in Seq(S), NEW x \in S
  PROVE  /\ Append(s, x) \in Seq(S) /\ Len(Append(s, x)) = Len(s) + 1 /\ Len(s) \in Nat
         /\ DOMAIN s = 1 .. Len(s) /\ DOMAIN Append(s, x) = 1 .. Len(s) + 1
         /\ \A i \in 1 .. Len(s) : Append(s, x)[i] = s[i]
         /\ Append(s, x)[Len(s) + 1] = x
OBVIOUS

LEMMA SendKeeps ==
  ASSUME CastInv, NEW w \in Pages, NEW x \in Txs, NEW d \in Drafts, NEW pc \in Activities,
         page[w].pc # "idle",
         mempool' = Append(mempool, x), fate' = Append(fate, "waiting"), x.hash = Len(fate) + 1,
         x.serial = page[w].draft.serial, CopyOf([d EXCEPT !.voteTx = 0], page[w].draft),
         \/ /\ x.revision = 0 /\ d.voteTx = page[w].draft.voteTx
            /\ pc \notin {"voteSent", "voteWait"}
         \/ x.revision = page[w].draft.revision /\ d.voteTx = x.hash,
         page' = [page EXCEPT ![w] = Onwards(w, pc, d, page[w].permit)],
         UNCHANGED <<chain, landed, saved, drafts, told>>
  PROVE  CastInv'
<1> DEFINE o == page[w].draft
           n == Len(fate) + 1
<1>1. /\ o \in Drafts /\ o \in Held \ {NoDraft} /\ o.serial \in 1 .. drafts /\ o.revision >= 1
      /\ drafts \in Nat
  BY PageTyped DEF PageOK, PageStates, CastInv, DraftsOK, CastTypeOK
<1>2. d.serial = o.serial /\ d.revision = o.revision /\ d # NoDraft /\ d.serial # 0
  BY <1>1 DEF CopyOf, Drafts, NoDraft
<1>3. /\ page' \in [Pages -> PageStates]
      /\ page'[w].draft = d /\ page'[w].pc = pc
      /\ \A u \in Pages \ {w} : page'[u] = page[u]
  BY PageTyped DEF Onwards, PageStates, CastInv, CastTypeOK
<1>4. /\ mempool' \in Seq(Txs) /\ Len(mempool) \in Nat
      /\ DOMAIN mempool = 1 .. Len(mempool) /\ DOMAIN mempool' = 1 .. Len(mempool) + 1
      /\ \A i \in 1 .. Len(mempool) : mempool'[i] = mempool[i]
      /\ mempool'[Len(mempool) + 1] = x
  BY Appended DEF CastInv, CastTypeOK
<1>5. /\ fate' \in Seq({"waiting", "success", "reverted", "replaced"}) /\ Len(fate) \in Nat
      /\ Len(fate') = n /\ \A h \in 1 .. Len(fate) : fate'[h] = fate[h]
      /\ fate'[n] = "waiting" /\ n # 0
  BY Appended DEF CastInv, CastTypeOK
<1>6. CastTypeOK'
  BY <1>3, <1>4, <1>5 DEF CastInv, CastTypeOK, PageStates
<1>7. \A e \in Held' : e = d \/ e \in Held
  BY <1>3 DEF Held
<1>8. DraftsOK'
  <2>1. ASSUME NEW e \in Held', e # NoDraft PROVE e.serial \in 1 .. drafts' /\ e.revision >= 1
    BY <1>1, <1>2, <1>7, <2>1 DEF CastInv, DraftsOK
  <2>2. pc \in {"voteSent", "voteWait"} => d.voteTx # 0
    BY <1>5
  <2>3. ASSUME NEW u \in Pages
        PROVE  /\ page'[u].pc # "idle" => page'[u].draft # NoDraft
               /\ page'[u].pc \in {"voteSent", "voteWait"} => page'[u].draft.voteTx # 0
    BY <1>2, <1>3, <2>2 DEF CastInv, DraftsOK
  <2> QED BY <2>1, <2>3 DEF DraftsOK
<1> HIDE DEF n
<1>9. For(o.serial, o.revision)
  BY <1>1 DEF For
<1>10. ASSUME NEW s, NEW r, For(s, r)' PROVE For(s, r)
  <2>1. CASE \E e \in Held' \ {NoDraft} : e.serial = s /\ e.revision = r
    BY <1>2, <1>7, <1>9, <2>1 DEF For
  <2>2. CASE r # 0 /\ \E i \in DOMAIN mempool' : mempool'[i].serial = s /\ mempool'[i].revision = r
    <3>1. PICK i \in 1 .. Len(mempool) + 1 : mempool'[i].serial = s /\ mempool'[i].revision = r
      BY <1>4, <2>2
    <3>2. CASE i \in 1 .. Len(mempool)
      BY <1>4, <2>2, <3>1, <3>2 DEF For
    <3>3. CASE i = Len(mempool) + 1
      BY <1>4, <1>9, <2>2, <3>1, <3>3
    <3> QED BY <1>4, <3>2, <3>3
  <2>3. CASE \E i \in DOMAIN landed' : landed'[i].serial = s /\ landed'[i].revision = r
    BY <2>3 DEF For
  <2> QED BY <1>10, <2>1, <2>2, <2>3 DEF For
<1>11. VotesOK'
  BY <1>10 DEF CastInv, VotesOK
<1>12. ASSUME NEW h, NEW s, Carries(h, s)'
       PROVE  Carries(h, s) \/ (h = n /\ s = IF x.revision = 0 THEN 0 ELSE o.serial)
  <2>1. CASE h # 0 /\ \E e \in Held' : e.voteTx = h /\ e.serial = s
    <3>1. PICK e \in Held' : e.voteTx = h /\ e.serial = s
      BY <2>1
    <3>2. CASE e \in Held
      BY <2>1, <3>1, <3>2 DEF Carries
    <3>3. CASE e = d /\ d.voteTx = o.voteTx
      BY <1>1, <1>2, <2>1, <3>1, <3>3 DEF Carries
    <3>4. CASE e = d /\ x.revision = o.revision /\ d.voteTx = x.hash
      BY <1>1, <1>2, <3>1, <3>4 DEF n, Drafts
    <3> QED BY <1>7, <3>2, <3>3, <3>4
  <2>2. CASE \E i \in DOMAIN mempool' :
               /\ mempool'[i].hash = h
               /\ s = IF mempool'[i].revision = 0 THEN 0 ELSE mempool'[i].serial
    <3>1. PICK i \in 1 .. Len(mempool) + 1 :
            /\ mempool'[i].hash = h
            /\ s = IF mempool'[i].revision = 0 THEN 0 ELSE mempool'[i].serial
      BY <1>4, <2>2
    <3>2. CASE i \in 1 .. Len(mempool)
      BY <1>4, <3>1, <3>2 DEF Carries
    <3>3. CASE i = Len(mempool) + 1
      BY <1>4, <3>1, <3>3 DEF n
    <3> QED BY <1>4, <3>2, <3>3
  <2> QED BY <1>12, <2>1, <2>2 DEF Carries
<1>13. HashesOK'
  <2>1. \A h, s : Carries(h, s) => h \in 1 .. Len(fate) /\ h # n
    BY <1>5 DEF CastInv, HashesOK, n
  <2>2. ASSUME NEW h, NEW s, Carries(h, s)' PROVE h \in 1 .. Len(fate')
    BY <1>5, <1>12, <2>1, <2>2 DEF n
  <2>3. ASSUME NEW h, NEW s, NEW t, Carries(h, s)', Carries(h, t)' PROVE s = t
    BY <1>12, <2>1, <2>3 DEF CastInv, HashesOK
  <2>4. ASSUME NEW h, NEW s, Carries(h, s)', s # 0, fate'[h] = "success" PROVE LandedAs(h, s)'
    <3>1. Carries(h, s)
      BY <1>5, <1>12, <2>4
    <3>2. fate[h] = "success"
      BY <1>5, <2>1, <2>4, <3>1
    <3> QED BY <2>4, <3>1, <3>2 DEF CastInv, HashesOK, LandedAs
  <2> QED BY <2>2, <2>3, <2>4 DEF HashesOK
<1>14. ToldTruly'
  BY DEF CastInv, ToldTruly
<1> QED BY <1>6, <1>8, <1>11, <1>13, <1>14 DEF CastInv

\* What the wallet is given.
LEMMA SentIs ==
  ASSUME NEW s \in Nat, NEW a \in Nat, NEW r \in Nat, NEW p \in Nat, NEW h \in Nat
  PROVE  LET x == [serial |-> s, amount |-> a, revision |-> r, permit |-> p, hash |-> h]
         IN  x \in Txs /\ x.serial = s /\ x.revision = r /\ x.hash = h
BY DEF Txs

LEMMA SendApprovalKeeps == ASSUME CastInv, NEW w \in Pages, SendApproval(w) PROVE CastInv'
<1> DEFINE o == page[w].draft
           h == Len(fate) + 1
           x == [serial |-> o.serial, amount |-> o.amount, revision |-> 0, permit |-> 0, hash |-> h]
           d == [o EXCEPT !.approvalTx = h]
<1>1. /\ page[w].pc = "approve" /\ mempool' = Append(mempool, x) /\ fate' = Append(fate, "waiting")
      /\ Holds(w, d, "approvalSent") /\ UNCHANGED <<chain, landed, saved, drafts, told>>
  BY DEF SendApproval, Send
<1>2. o \in Drafts /\ h \in Nat
  BY PageTyped DEF PageStates, CastInv, CastTypeOK
<1>3. x \in Txs /\ x.serial = o.serial /\ x.revision = 0 /\ x.hash = Len(fate) + 1
  <2>1. o.serial \in Nat /\ o.amount \in Nat /\ 0 \in Nat
    BY <1>2 DEF Drafts
  <2> HIDE DEF o, h
  <2>2. x \in Txs /\ x.serial = o.serial /\ x.revision = 0 /\ x.hash = h
    BY <1>2, <2>1, SentIs
  <2> QED BY <2>2 DEF h
<1>4. d \in Drafts /\ CopyOf([d EXCEPT !.voteTx = 0], o) /\ d.voteTx = o.voteTx
  BY <1>2 DEF Drafts, CopyOf
<1> HIDE DEF x, d
<1>5. "approvalSent" \in Activities /\ "approvalSent" \notin {"voteSent", "voteWait"}
  BY DEF Activities
<1>6. page' = [page EXCEPT ![w] = Onwards(w, "approvalSent", d, page[w].permit)]
  BY <1>1, <1>4, <1>5, HoldsIs
<1> QED BY <1>1, <1>3, <1>4, <1>5, <1>6, SendKeeps

LEMMA SendVoteKeeps == ASSUME CastInv, NEW w \in Pages, SendVote(w) PROVE CastInv'
<1> DEFINE o == page[w].draft
           h == Len(fate) + 1
           x == VoteTx(w)
           d == [o EXCEPT !.voteTx = h]
<1>1. /\ page[w].pc = "confirm" /\ mempool' = Append(mempool, x) /\ fate' = Append(fate, "waiting")
      /\ Holds(w, d, "voteSent") /\ UNCHANGED <<chain, landed, saved, drafts, told>>
  BY DEF SendVote, Send
<1>2. o \in Drafts /\ h \in Nat /\ page[w].permit \in Nat
  BY PageTyped DEF PageStates, CastInv, CastTypeOK
<1>3. x \in Txs /\ x.serial = o.serial /\ x.revision = o.revision /\ x.hash = Len(fate) + 1
  <2>1. o.serial \in Nat /\ o.amount \in Nat /\ o.revision \in Nat
    BY <1>2 DEF Drafts
  <2>2. x = [serial |-> o.serial, amount |-> o.amount, revision |-> o.revision,
             permit |-> page[w].permit, hash |-> h]
    BY DEF VoteTx
  <2> HIDE DEF o, h, x
  <2>3. x \in Txs /\ x.serial = o.serial /\ x.revision = o.revision /\ x.hash = h
    BY <1>2, <2>1, <2>2, SentIs
  <2> QED BY <2>3 DEF h
<1>4. d \in Drafts /\ CopyOf([d EXCEPT !.voteTx = 0], o) /\ d.voteTx = Len(fate) + 1
  BY <1>2 DEF Drafts, CopyOf
<1> HIDE DEF x, d
<1>5. "voteSent" \in Activities
  BY DEF Activities
<1>6. page' = [page EXCEPT ![w] = Onwards(w, "voteSent", d, page[w].permit)]
  BY <1>1, <1>4, <1>5, HoldsIs
<1> QED BY <1>1, <1>3, <1>4, <1>5, <1>6, SendKeeps

-----------------------------------------------------------------------------
(* The chain and the wallet.                                               *)

LEMMA MempoolTyped ==
  ASSUME CastInv
  PROVE  /\ mempool \in Seq(Txs) /\ Len(mempool) \in Nat /\ DOMAIN mempool = 1 .. Len(mempool)
         /\ \A i \in 1 .. Len(mempool) : mempool[i] \in Txs
         /\ landed \in Seq(Txs) /\ Len(landed) \in Nat /\ DOMAIN landed = 1 .. Len(landed)
         /\ fate \in Seq({"waiting", "success", "reverted", "replaced"})
         /\ Len(fate) \in Nat /\ DOMAIN fate = 1 .. Len(fate)
BY DEF CastInv, CastTypeOK

\* A transaction that left the mempool, whatever became of it.
LEMMA SettledKeeps ==
  ASSUME CastInv, NEW tx, \E i \in 1 .. Len(mempool) : tx = mempool[i],
         mempool' \in Seq(Txs),
         \A j \in DOMAIN mempool' : \E i \in 1 .. Len(mempool) : mempool'[j] = mempool[i],
         NEW outcome \in {"success", "reverted", "replaced"},
         fate' = [fate EXCEPT ![tx.hash] = outcome],
         CastTypeOK', UNCHANGED <<saved, page, drafts, told>>,
         \/ landed' = landed /\ chain'.revision = chain.revision
            /\ (outcome = "success" => tx.revision = 0)
         \/ /\ landed' = Append(landed, tx) /\ chain'.revision = chain.revision + 1
            /\ tx.revision = chain.revision + 1
  PROVE  CastInv'
<1>1. tx \in Txs /\ tx.hash \in 1 .. Len(fate)
  <2>1. PICK i \in 1 .. Len(mempool) : tx = mempool[i]
    OBVIOUS
  <2>2. Carries(tx.hash, IF tx.revision = 0 THEN 0 ELSE tx.serial)
    BY <2>1, MempoolTyped DEF Carries
  <2> QED BY <2>1, <2>2, MempoolTyped DEF CastInv, HashesOK
<1>2. Held' = Held /\ DraftsOK'
  BY DEF Held, DraftsOK, CastInv
<1>3. chain.revision = Len(landed) /\ Len(landed) \in Nat
  BY MempoolTyped DEF CastInv, VotesOK
<1>4. /\ Len(landed') \in Nat /\ DOMAIN landed' = 1 .. Len(landed') /\ DOMAIN landed = 1 .. Len(landed)
      /\ \A i \in DOMAIN landed : i \in DOMAIN landed' /\ landed'[i] = landed[i]
      /\ \A i \in DOMAIN landed' :
           \/ i \in DOMAIN landed
           \/ landed'[i] = tx /\ i = Len(landed) + 1 /\ tx.revision = Len(landed) + 1
      /\ chain'.revision = Len(landed')
      /\ landed' # landed =>
           Len(landed) + 1 \in DOMAIN landed' /\ landed'[Len(landed) + 1] = tx
      /\ outcome = "success" /\ tx.revision # 0 => landed' # landed
  <2>1. CASE /\ landed' = landed /\ chain'.revision = chain.revision
             /\ (outcome = "success" => tx.revision = 0)
    <3>1. DOMAIN landed = 1 .. Len(landed)
      BY MempoolTyped
    <3> QED BY <1>3, <2>1, <3>1
  <2>2. CASE /\ landed' = Append(landed, tx) /\ chain'.revision = chain.revision + 1
             /\ tx.revision = chain.revision + 1
    <3>1. /\ Len(landed') = Len(landed) + 1 /\ DOMAIN landed = 1 .. Len(landed)
          /\ DOMAIN landed' = 1 .. Len(landed) + 1
          /\ \A i \in 1 .. Len(landed) : landed'[i] = landed[i]
          /\ landed'[Len(landed) + 1] = tx
      <4>1. landed \in Seq(Txs)
        BY MempoolTyped
      <4> QED BY ONLY <1>1, <2>2, <4>1, Appended
    <3>2. landed' # landed
      BY <1>3, <3>1
    <3>3. \A i \in DOMAIN landed' : i \in DOMAIN landed \/ (landed'[i] = tx /\ i = Len(landed) + 1)
      BY <1>3, <3>1
    <3>4. tx.revision = Len(landed) + 1 /\ chain'.revision = Len(landed')
      BY <1>3, <2>2, <3>1
    <3>5. /\ Len(landed) + 1 \in DOMAIN landed'
          /\ \A i \in DOMAIN landed : i \in DOMAIN landed' /\ landed'[i] = landed[i]
      BY <1>3, <3>1
    <3>6. Len(landed') \in Nat /\ DOMAIN landed' = 1 .. Len(landed')
      BY <1>3, <3>1
    <3> QED BY ONLY <3>1, <3>2, <3>3, <3>4, <3>5, <3>6
  <2> QED BY <2>1, <2>2
<1>5. /\ Len(fate') = Len(fate) /\ fate'[tx.hash] = outcome
      /\ \A h \in 1 .. Len(fate) : h # tx.hash => fate'[h] = fate[h]
  BY <1>1, MempoolTyped
<1>6. For(tx.serial, tx.revision) \/ tx.revision = 0
  BY MempoolTyped DEF For
<1>7. ASSUME NEW s, NEW r, For(s, r)' PROVE For(s, r)
  <2>1. CASE \E d \in Held' \ {NoDraft} : d.serial = s /\ d.revision = r
    BY <1>2, <2>1 DEF For
  <2>2. CASE r # 0 /\ \E i \in DOMAIN mempool' : mempool'[i].serial = s /\ mempool'[i].revision = r
    BY <2>2, MempoolTyped DEF For
  <2>3. CASE \E i \in DOMAIN landed' : landed'[i].serial = s /\ landed'[i].revision = r
    <3>1. PICK i \in DOMAIN landed' : landed'[i].serial = s /\ landed'[i].revision = r
      BY <2>3
    <3>2. CASE i \in DOMAIN landed
      BY <1>4, <3>1, <3>2 DEF For
    <3>3. CASE landed'[i] = tx /\ tx.revision = Len(landed) + 1
      <4>1. tx.revision # 0
        BY <1>3, <3>3
      <4> QED BY <1>6, <3>1, <3>3, <4>1
    <3> QED BY <1>4, <3>2, <3>3
  <2> QED BY <1>7, <2>1, <2>2, <2>3 DEF For
<1>8. VotesOK'
  <2>1. ASSUME NEW i \in DOMAIN landed' PROVE landed'[i].revision = i
    BY <1>4 DEF CastInv, VotesOK
  <2> QED BY <1>4, <1>7, <2>1 DEF CastInv, VotesOK
<1>9. ASSUME NEW h, NEW s, Carries(h, s)' PROVE Carries(h, s)
  BY <1>2, <1>9, MempoolTyped DEF Carries
<1>10. ASSUME NEW h, NEW s, LandedAs(h, s) PROVE LandedAs(h, s)'
  BY <1>4, <1>10 DEF LandedAs
<1>11. HashesOK'
  <2>1. ASSUME NEW h, NEW s, Carries(h, s)', s # 0, fate'[h] = "success" PROVE LandedAs(h, s)'
    <3>1. Carries(h, s) /\ h \in 1 .. Len(fate)
      BY <1>9, <2>1 DEF CastInv, HashesOK
    <3>2. CASE h # tx.hash
      BY <1>5, <1>10, <2>1, <3>1, <3>2 DEF CastInv, HashesOK
    <3>3. CASE h = tx.hash
      <4>1. Carries(h, IF tx.revision = 0 THEN 0 ELSE tx.serial)
        BY <3>3, MempoolTyped DEF Carries
      <4>2. s = IF tx.revision = 0 THEN 0 ELSE tx.serial
        BY <3>1, <4>1 DEF CastInv, HashesOK
      <4>3. tx.revision # 0 /\ s = tx.serial
        BY <2>1, <4>2
      <4>4. landed' # landed
        BY <1>4, <1>5, <2>1, <3>3, <4>3
      <4> QED BY <1>4, <3>3, <4>3, <4>4 DEF LandedAs
    <3> QED BY <3>2, <3>3
  <2> QED BY <1>5, <1>9, <2>1 DEF CastInv, HashesOK
<1>12. ToldTruly'
  BY <1>4 DEF CastInv, ToldTruly
<1> QED BY <1>2, <1>8, <1>11, <1>12 DEF CastInv

LEMMA RemovedFrom ==
  ASSUME NEW S, NEW s \in Seq(S), NEW i \in 1 .. Len(s)
  PROVE  /\ RemoveAt(s, i) \in Seq(S)
         /\ \A j \in DOMAIN RemoveAt(s, i) : \E k \in 1 .. Len(s) : RemoveAt(s, i)[j] = s[k]
<1> DEFINE a == SubSeq(s, 1, i - 1)
           b == SubSeq(s, i + 1, Len(s))
<1>1. Len(s) \in Nat /\ i \in Nat /\ 1 <= i /\ i <= Len(s)
  OBVIOUS
<1>2. a \in Seq(S) /\ Len(a) = i - 1 /\ \A j \in 1 .. i - 1 : a[j] = s[j]
  BY <1>1
<1>3. b \in Seq(S) /\ Len(b) = Len(s) - i /\ \A j \in 1 .. Len(s) - i : b[j] = s[i + j]
  BY <1>1
<1> HIDE DEF a, b
<1>4. a \o b \in Seq(S) /\ DOMAIN (a \o b) = 1 .. Len(s) - 1
  BY <1>1, <1>2, <1>3
<1>5. ASSUME NEW j \in 1 .. Len(s) - 1 PROVE \E k \in 1 .. Len(s) : (a \o b)[j] = s[k]
  <2>1. CASE j < i
    <3>1. (a \o b)[j] = s[j] /\ j \in 1 .. Len(s)
      BY <1>1, <1>2, <1>3, <2>1
    <3> QED BY <3>1
  <2>2. CASE j >= i
    <3>1. (a \o b)[j] = b[j - (i - 1)] /\ j - (i - 1) \in 1 .. Len(s) - i
      BY <1>1, <1>2, <1>3, <2>2
    <3>2. b[j - (i - 1)] = s[i + (j - (i - 1))] /\ i + (j - (i - 1)) = j + 1
      BY <1>1, <1>3, <3>1
    <3>3. j + 1 \in 1 .. Len(s)
      BY <1>1
    <3> QED BY <3>1, <3>2, <3>3
  <2>3. j < i \/ j >= i
    BY <1>1
  <2> QED BY <2>1, <2>2, <2>3
<1>6. RemoveAt(s, i) = a \o b
  BY DEF RemoveAt, a, b
<1> QED BY <1>4, <1>5, <1>6

Chains ==
  [permits: BOOLEAN, closed: BOOLEAN, revision: Nat, paid: Nat, allowance: Nat, nonce: Nat]

LEMMA ChainApproved ==
  ASSUME NEW c \in Chains, NEW a \in Nat
  PROVE  /\ [c EXCEPT !.allowance = a] \in Chains
         /\ [c EXCEPT !.allowance = a].revision = c.revision
BY DEF Chains

LEMMA ChainPermitted ==
  ASSUME NEW c \in Chains, NEW a \in Nat, NEW n \in Nat
  PROVE  /\ [c EXCEPT !.allowance = a, !.nonce = n] \in Chains
         /\ [c EXCEPT !.allowance = a, !.nonce = n].revision = c.revision
BY DEF Chains

LEMMA ChainPaid ==
  ASSUME NEW c \in Chains, NEW r \in Nat, NEW p \in Nat, NEW a \in Nat
  PROVE  /\ [c EXCEPT !.revision = r, !.paid = p, !.allowance = a] \in Chains
         /\ [c EXCEPT !.revision = r, !.paid = p, !.allowance = a].revision = r
BY DEF Chains

LEMMA Fated ==
  ASSUME CastInv, NEW tx, \E i \in 1 .. Len(mempool) : tx = mempool[i],
         NEW outcome \in {"success", "reverted", "replaced"}
  PROVE  [fate EXCEPT ![tx.hash] = outcome] \in Seq({"waiting", "success", "reverted", "replaced"})
<1>1. fate \in Seq({"waiting", "success", "reverted", "replaced"})
  BY MempoolTyped
<1>2. tx.hash \in 1 .. Len(fate)
  <2>1. PICK i \in 1 .. Len(mempool) : tx = mempool[i]
    OBVIOUS
  <2>2. Carries(tx.hash, IF tx.revision = 0 THEN 0 ELSE tx.serial)
    BY <2>1, MempoolTyped DEF Carries
  <2> QED BY <2>2 DEF CastInv, HashesOK
<1> QED BY <1>1, <1>2, ExceptSeq

LEMMA MineFirstKeeps == ASSUME CastInv, MineFirst PROVE CastInv'
<1> DEFINE tx == Head(mempool)
<1>1. /\ mempool # << >> /\ mempool' = Tail(mempool) /\ UNCHANGED <<saved, page, drafts, told>>
      /\ \/ tx.revision = 0 /\ Approve(tx)
         \/ tx.revision # 0 /\ CastBallot(tx)
  BY DEF MineFirst
<1>2. /\ mempool \in Seq(Txs) /\ Len(mempool) \in Nat /\ Len(mempool) >= 1 /\ tx = mempool[1]
      /\ tx \in Txs /\ 1 \in 1 .. Len(mempool)
  BY <1>1, MempoolTyped
<1>3. /\ mempool' \in Seq(Txs)
      /\ \A j \in DOMAIN mempool' : \E i \in 1 .. Len(mempool) : mempool'[j] = mempool[i]
  <2>1. /\ mempool' \in Seq(Txs) /\ DOMAIN mempool' = 1 .. Len(mempool) - 1
        /\ \A j \in 1 .. Len(mempool) - 1 : mempool'[j] = mempool[j + 1]
    BY <1>1, <1>2
  <2>2. \A j \in 1 .. Len(mempool) - 1 : j + 1 \in 1 .. Len(mempool)
    BY <1>2
  <2> QED BY <2>1, <2>2
<1>4. chain \in Chains /\ landed \in Seq(Txs)
  BY DEF CastInv, CastTypeOK, Chains
<1> HIDE DEF tx
<1>5. ASSUME NEW outcome \in {"success", "reverted"}, fate' = [fate EXCEPT ![tx.hash] = outcome]
      PROVE  fate' \in Seq({"waiting", "success", "reverted", "replaced"})
  BY <1>2, <1>5, Fated
<1>6. ASSUME tx.revision = 0, Approve(tx) PROVE CastInv'
  <2>1. /\ chain' = [chain EXCEPT !.allowance = tx.amount] /\ landed' = landed
        /\ fate' = [fate EXCEPT ![tx.hash] = "success"]
    BY <1>6 DEF Approve
  <2>2. chain' \in Chains /\ chain'.revision = chain.revision
    <3>1. tx.amount \in Nat
      BY <1>2 DEF Txs
    <3> QED BY <1>4, <2>1, <3>1, ChainApproved
  <2>3. CastTypeOK'
    BY <1>1, <1>3, <1>4, <1>5, <2>1, <2>2 DEF CastInv, CastTypeOK, Chains
  <2> QED BY <1>1, <1>2, <1>3, <1>6, <2>1, <2>2, <2>3, SettledKeeps
<1>7. ASSUME CastBallot(tx), ~Accepts(tx) PROVE CastInv'
  <2>1. fate' = [fate EXCEPT ![tx.hash] = "reverted"] /\ UNCHANGED <<chain, landed>>
    BY <1>7 DEF CastBallot
  <2>2. CastTypeOK'
    BY <1>1, <1>3, <1>4, <1>5, <2>1 DEF CastInv, CastTypeOK
  <2> QED BY <1>1, <1>2, <1>3, <2>1, <2>2, SettledKeeps
<1>8. ASSUME CastBallot(tx), Accepts(tx) PROVE CastInv'
  <2> DEFINE c == AfterPermit(tx)
  <2>1. /\ chain' = [c EXCEPT !.revision = @ + 1, !.paid = @ + tx.amount, !.allowance = @ - tx.amount]
        /\ landed' = Append(landed, tx) /\ fate' = [fate EXCEPT ![tx.hash] = "success"]
    BY <1>8 DEF CastBallot
  <2> HIDE DEF c
  <2>2. c \in Chains /\ c.revision = chain.revision
    <3>1. tx.amount \in Nat /\ chain.nonce \in Nat
      BY <1>2, <1>4 DEF Txs, Chains
    <3>2. c = chain \/ c = [chain EXCEPT !.allowance = tx.amount, !.nonce = chain.nonce + 1]
      BY DEF AfterPermit, c
    <3>3. PICK n \in Nat : n = chain.nonce + 1
      BY <3>1
    <3>4. CASE c = chain
      BY <1>4, <3>4
    <3>5. CASE c = [chain EXCEPT !.allowance = tx.amount, !.nonce = n]
      BY <1>4, <3>1, <3>5, ChainPermitted
    <3> QED BY <3>2, <3>3, <3>4, <3>5
  <2>3. tx.amount <= c.allowance /\ tx.revision = chain.revision + 1
    BY <1>8 DEF Accepts, Expected, c
  <2>4. chain' \in Chains /\ chain'.revision = chain.revision + 1
    <3>0. c.revision \in Nat /\ c.paid \in Nat /\ c.allowance \in Nat /\ tx.amount \in Nat
      BY <1>2, <2>2 DEF Txs, Chains
    <3>1. /\ c.revision + 1 \in Nat /\ c.paid + tx.amount \in Nat /\ c.allowance - tx.amount \in Nat
      BY <2>3, <3>0
    <3>2. PICK r \in Nat : r = c.revision + 1
      BY <3>1
    <3>3. PICK p \in Nat : p = c.paid + tx.amount
      BY <3>1
    <3>4. PICK a \in Nat : a = c.allowance - tx.amount
      BY <3>1
    <3>5. chain' = [c EXCEPT !.revision = r, !.paid = p, !.allowance = a]
      BY <2>1, <3>2, <3>3, <3>4
    <3>6. chain' \in Chains /\ chain'.revision = r
      <4>1. /\ [c EXCEPT !.revision = r, !.paid = p, !.allowance = a] \in Chains
            /\ [c EXCEPT !.revision = r, !.paid = p, !.allowance = a].revision = r
        BY <2>2 DEF Chains
      <4> QED BY ONLY <3>5, <4>1
    <3> QED BY <2>2, <3>2, <3>6
  <2>5. landed' \in Seq(Txs)
    BY <1>2, <1>4, <2>1
  <2>6. CastTypeOK'
    BY <1>1, <1>3, <1>5, <2>1, <2>4, <2>5 DEF CastInv, CastTypeOK, Chains
  <2> QED BY <1>1, <1>2, <1>3, <2>1, <2>3, <2>4, <2>6, SettledKeeps
<1> QED BY <1>1, <1>6, <1>7, <1>8

\* The wallet takes a transaction back.
LEMMA CancelKeeps ==
  ASSUME CastInv, NEW i \in 1 .. Len(mempool), mempool' = RemoveAt(mempool, i),
         fate' = [fate EXCEPT ![mempool[i].hash] = "replaced"],
         UNCHANGED <<chain, landed, saved, page, drafts, told>>
  PROVE  CastInv'
<1> DEFINE tx == mempool[i]
<1>1. /\ mempool' \in Seq(Txs)
      /\ \A j \in DOMAIN mempool' : \E k \in 1 .. Len(mempool) : mempool'[j] = mempool[k]
  <2>1. mempool \in Seq(Txs)
    BY MempoolTyped
  <2> QED BY <2>1, RemovedFrom
<1>2. fate' \in Seq({"waiting", "success", "reverted", "replaced"})
  BY Fated
<1>3. CastTypeOK'
  BY <1>1, <1>2 DEF CastInv, CastTypeOK
<1>4. fate' = [fate EXCEPT ![tx.hash] = "replaced"] /\ \E k \in 1 .. Len(mempool) : tx = mempool[k]
  OBVIOUS
<1> HIDE DEF tx
<1> QED BY <1>1, <1>3, <1>4, SettledKeeps

\* The wallet sends a transaction again at a higher price, under a new hash.
LEMMA RepriceKeeps ==
  ASSUME CastInv, NEW i \in 1 .. Len(mempool),
         mempool' = [mempool EXCEPT ![i].hash = Len(fate) + 1],
         fate' = Append([fate EXCEPT ![mempool[i].hash] = "replaced"], "waiting"),
         UNCHANGED <<chain, landed, saved, page, drafts, told>>
  PROVE  CastInv'
<1> DEFINE tx == mempool[i]
           n == Len(fate) + 1
           x == [tx EXCEPT !.hash = n]
           f == [fate EXCEPT ![tx.hash] = "replaced"]
           r == IF tx.revision = 0 THEN 0 ELSE tx.serial
<1>0. /\ mempool \in Seq(Txs) /\ Len(mempool) \in Nat /\ DOMAIN mempool = 1 .. Len(mempool)
      /\ tx \in Txs /\ Len(fate) \in Nat /\ n \in Nat /\ n # 0
      /\ fate \in Seq({"waiting", "success", "reverted", "replaced"})
  BY MempoolTyped
<1>1. Carries(tx.hash, r) /\ tx.hash \in 1 .. Len(fate)
  <2>1. Carries(tx.hash, r)
    BY <1>0 DEF Carries
  <2> QED BY <2>1 DEF CastInv, HashesOK
<1>2. x \in Txs /\ x.hash = n /\ x.serial = tx.serial /\ x.revision = tx.revision
  BY <1>0 DEF Txs
<1>3. /\ mempool' \in Seq(Txs) /\ DOMAIN mempool' = 1 .. Len(mempool) /\ mempool'[i] = x
      /\ \A j \in 1 .. Len(mempool) : j # i => mempool'[j] = mempool[j]
  <2>1. mempool' = [mempool EXCEPT ![i] = x]
    BY <1>0
  <2> HIDE DEF x
  <2>2. /\ [mempool EXCEPT ![i] = x] \in Seq(Txs)
        /\ Len([mempool EXCEPT ![i] = x]) = Len(mempool)
        /\ \A j \in 1 .. Len(mempool) : [mempool EXCEPT ![i] = x][j] = IF j = i THEN x ELSE mempool[j]
    BY <1>0, <1>2, ExceptSeq
  <2> QED BY <1>0, <2>1, <2>2
<1>4. /\ f \in Seq({"waiting", "success", "reverted", "replaced"}) /\ Len(f) = Len(fate)
      /\ f[tx.hash] = "replaced"
      /\ \A h \in 1 .. Len(fate) : h # tx.hash => f[h] = fate[h]
  BY <1>0, <1>1, ExceptSeq
<1>5. /\ fate' \in Seq({"waiting", "success", "reverted", "replaced"})
      /\ Len(fate') = n /\ fate'[n] = "waiting"
      /\ \A h \in 1 .. Len(fate) : fate'[h] = f[h]
  <2>1. fate' = Append(f, "waiting")
    OBVIOUS
  <2> HIDE DEF f
  <2>2. /\ Append(f, "waiting") \in Seq({"waiting", "success", "reverted", "replaced"})
        /\ Len(Append(f, "waiting")) = Len(f) + 1 /\ Append(f, "waiting")[Len(f) + 1] = "waiting"
        /\ \A h \in 1 .. Len(f) : Append(f, "waiting")[h] = f[h]
    <3>1. f \in Seq({"waiting", "success", "reverted", "replaced"})
      BY <1>4
    <3> QED BY ONLY <3>1, Appended
  <2> QED BY <1>4, <2>1, <2>2
<1> HIDE DEF tx, n, x, f, r
<1>6. CastTypeOK'
  BY <1>3, <1>5 DEF CastInv, CastTypeOK
<1>7. Held' = Held /\ DraftsOK'
  BY DEF Held, DraftsOK, CastInv
<1>8. ASSUME NEW s, NEW q, For(s, q)' PROVE For(s, q)
  <2>1. CASE q # 0 /\ \E j \in DOMAIN mempool' : mempool'[j].serial = s /\ mempool'[j].revision = q
    <3>1. PICK j \in 1 .. Len(mempool) : mempool'[j].serial = s /\ mempool'[j].revision = q
      BY <1>3, <2>1
    <3>2. mempool[j].serial = s /\ mempool[j].revision = q
      BY <1>2, <1>3, <3>1 DEF tx
    <3> QED BY <1>0, <2>1, <3>2 DEF For
  <2>2. CASE ~(q # 0 /\ \E j \in DOMAIN mempool' : mempool'[j].serial = s /\ mempool'[j].revision = q)
    BY <1>7, <1>8, <2>2 DEF For
  <2> QED BY <2>1, <2>2
<1>9. VotesOK'
  BY <1>8 DEF CastInv, VotesOK
<1>10. ASSUME NEW h, NEW s, Carries(h, s)' PROVE Carries(h, s) \/ (h = n /\ s = r)
  <2>1. CASE h # 0 /\ \E d \in Held' : d.voteTx = h /\ d.serial = s
    BY <1>7, <2>1 DEF Carries
  <2>2. CASE \E j \in DOMAIN mempool' :
               /\ mempool'[j].hash = h
               /\ s = IF mempool'[j].revision = 0 THEN 0 ELSE mempool'[j].serial
    <3>1. PICK j \in 1 .. Len(mempool) :
            /\ mempool'[j].hash = h
            /\ s = IF mempool'[j].revision = 0 THEN 0 ELSE mempool'[j].serial
      BY <1>3, <2>2
    <3>2. CASE j = i
      BY <1>2, <1>3, <3>1, <3>2 DEF r
    <3>3. CASE j # i
      BY <1>0, <1>3, <3>1, <3>3 DEF Carries
    <3> QED BY <3>2, <3>3
  <2> QED BY <1>10, <2>1, <2>2 DEF Carries
<1>11. HashesOK'
  <2>1. \A h, s : Carries(h, s) => h \in 1 .. Len(fate) /\ h # n
    BY <1>0 DEF CastInv, HashesOK, n
  <2>2. ASSUME NEW h, NEW s, Carries(h, s)' PROVE h \in 1 .. Len(fate')
    BY <1>0, <1>5, <1>10, <2>1, <2>2 DEF n
  <2>3. ASSUME NEW h, NEW s, NEW t, Carries(h, s)', Carries(h, t)' PROVE s = t
    BY <1>10, <2>1, <2>3 DEF CastInv, HashesOK
  <2>4. ASSUME NEW h, NEW s, Carries(h, s)', s # 0, fate'[h] = "success" PROVE LandedAs(h, s)'
    <3>1. Carries(h, s) /\ h \in 1 .. Len(fate)
      BY <1>5, <1>10, <2>1, <2>4
    <3>2. fate[h] = "success"
      BY <1>4, <1>5, <2>4, <3>1
    <3> QED BY <2>4, <3>1, <3>2 DEF CastInv, HashesOK, LandedAs
  <2> QED BY <2>2, <2>3, <2>4 DEF HashesOK
<1>12. ToldTruly'
  BY DEF CastInv, ToldTruly
<1> QED BY <1>6, <1>7, <1>9, <1>11, <1>12 DEF CastInv

LEMMA DeadlineKeeps == ASSUME CastInv, PassDeadline PROVE CastInv'
<1>1. /\ chain' = [chain EXCEPT !.closed = TRUE]
      /\ UNCHANGED <<mempool, fate, landed, saved, page, drafts, told>>
  BY DEF PassDeadline
<1>2. CastTypeOK' /\ chain'.revision = chain.revision
  BY <1>1 DEF CastInv, CastTypeOK
<1>3. Held' = Held /\ DraftsOK' /\ ToldTruly'
  BY <1>1 DEF Held, DraftsOK, CastInv, ToldTruly
<1>4. ASSUME NEW s, NEW r PROVE For(s, r)' <=> For(s, r)
  BY <1>1, <1>3 DEF For
<1>5. ASSUME NEW h, NEW s PROVE Carries(h, s)' <=> Carries(h, s)
  BY <1>1, <1>3 DEF Carries
<1>6. VotesOK' /\ HashesOK'
  BY <1>1, <1>2, <1>4, <1>5 DEF CastInv, VotesOK, HashesOK, LandedAs
<1> QED BY <1>2, <1>3, <1>6 DEF CastInv

LEMMA CastStarts == CastInit => CastInv
<1> SUFFICES ASSUME CastInit PROVE CastInv
  OBVIOUS
<1>1. NoDraft \in Drafts /\ NoDraft.voteTx = 0 /\ Resting \in PageStates /\ Resting.draft = NoDraft
      /\ Resting.pc = "idle"
  <2>1. NoDraft \in Drafts /\ NoDraft.voteTx = 0
    BY RestingOK DEF NoDraft
  <2> QED BY <2>1 DEF Resting, PageStates, Activities
<1>2. CastTypeOK
  <2>1. chain \in [permits: BOOLEAN, closed: BOOLEAN, revision: Nat, paid: Nat,
                   allowance: Nat, nonce: Nat]
    <3>1. PICK b \in BOOLEAN :
            chain = [permits |-> b, closed |-> FALSE, revision |-> 0, paid |-> 0,
                     allowance |-> 0, nonce |-> 1]
      BY DEF CastInit
    <3> QED BY <3>1
  <2>2. page \in [Pages -> PageStates]
    BY <1>1 DEF CastInit
  <2>3. \A S : << >> \in Seq(S)
    OBVIOUS
  <2> QED BY <1>1, <2>1, <2>2, <2>3 DEF CastInit, CastTypeOK, PageStates
<1>3. Held \subseteq {NoDraft} /\ mempool = << >> /\ landed = << >> /\ told = {} /\ chain.revision = 0
  BY <1>1 DEF CastInit, Held
<1>4. DraftsOK
  BY <1>1, <1>3 DEF CastInit, DraftsOK
<1>5. VotesOK
  BY <1>3 DEF VotesOK, For
<1>6. HashesOK
  BY <1>1, <1>3 DEF HashesOK, Carries
<1>7. ToldTruly
  BY <1>3 DEF ToldTruly
<1> QED BY <1>2, <1>4, <1>5, <1>6, <1>7 DEF CastInv

LEMMA CastStep == CastInv /\ [CastNext]_castVars => CastInv'
<1> SUFFICES ASSUME CastInv, [CastNext]_castVars PROVE CastInv'
  OBVIOUS
<1>1. CASE MineFirst \/ PassDeadline
  BY <1>1, MineFirstKeeps, DeadlineKeeps
<1>2. ASSUME NEW i \in DOMAIN mempool, Replace(i) PROVE CastInv'
  <2>1. i \in 1 .. Len(mempool) /\ UNCHANGED <<chain, landed, saved, page, drafts, told>>
    BY <1>2, MempoolTyped DEF Replace
  <2>2. CASE /\ mempool' = RemoveAt(mempool, i)
             /\ fate' = [fate EXCEPT ![mempool[i].hash] = "replaced"]
    BY <2>1, <2>2, CancelKeeps
  <2>3. CASE /\ mempool' = [mempool EXCEPT ![i].hash = Len(fate) + 1]
             /\ fate' = Append([fate EXCEPT ![mempool[i].hash] = "replaced"], "waiting")
    BY <2>1, <2>3, RepriceKeeps
  <2> QED BY <1>2, <2>2, <2>3 DEF Replace
<1>3. ASSUME NEW w \in Pages, PageSteps(w) PROVE CastInv'
  <2>1. ASSUME NEW amount \in 0 .. 1, PrepareVote(w, amount) PROVE CastInv'
    <3>1. amount \in Nat
      OBVIOUS
    <3> QED BY <2>1, <3>1, PrepareVoteKeeps
  <2> QED BY <1>3, <2>1, PageStepKeeps, SendApprovalKeeps, SendVoteKeeps DEF PageSteps
<1>4. CASE UNCHANGED castVars
  <2>1. UNCHANGED <<chain, mempool, fate, landed, saved, page, drafts, told>>
    BY <1>4 DEF castVars
  <2>2. CastTypeOK' /\ Held' = Held /\ DraftsOK' /\ ToldTruly'
    BY <2>1 DEF CastInv, CastTypeOK, Held, DraftsOK, ToldTruly
  <2>3. \A d \in Held' : CopyOf(d, d) /\ d \in Held
    BY <2>2 DEF CopyOf
  <2> QED BY <2>1, <2>2, <2>3, Handled DEF CastInv
<1> QED BY <1>1, <1>2, <1>3, <1>4 DEF CastNext

\* What the page holds, what the wallet was given and what the pool accepted
\* agree with each other, however often tabs are closed, hashes lost and
\* transactions repriced (cast-vote.ts).
THEOREM CastInvariant == CastSpec => []CastInv
<1>1. CastInit => CastInv
  BY CastStarts
<1>2. CastInv /\ [CastNext]_castVars => CastInv'
  BY CastStep
<1> QED BY <1>1, <1>2, PTL DEF CastSpec

\* A draft is contributed and counted at most once, although it may be sent
\* again from another page or after its hash was lost (vote.tsx:280): the
\* revision it was prepared for is accepted once (ArkivBallots.sol): PaidOnce.
THEOREM PaidAtMostOnce == CastSpec => []PaidOnce
<1>1. CastInv => PaidOnce
  <2> SUFFICES ASSUME CastInv, NEW i \in DOMAIN landed, NEW j \in DOMAIN landed,
                      landed[i].serial = landed[j].serial
               PROVE  i = j
    BY DEF PaidOnce
  <2>1. For(landed[i].serial, landed[i].revision) /\ For(landed[i].serial, landed[j].revision)
    BY DEF For
  <2>2. landed[i].revision = landed[j].revision
    BY <2>1 DEF CastInv, VotesOK
  <2> QED BY <2>2 DEF CastInv, VotesOK
<1> QED BY <1>1, CastInvariant, PTL

\* Whoever is told that the vote is recorded has that draft's ballot and
\* contribution in the pool, under the hash the page waited for
\* (vote.tsx:160): ToldTruly.
THEOREM VotersAreToldTruly == CastSpec => []ToldTruly
<1>1. CastInv => ToldTruly
  BY DEF CastInv
<1> QED BY <1>1, CastInvariant, PTL
=============================================================================
