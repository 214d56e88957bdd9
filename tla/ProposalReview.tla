---------------------------- MODULE ProposalReview ----------------------------
(***************************************************************************)
(* How projects enter a round: proposals, their revisions and their review *)
(* (src/src/PoolBase.sol), the key commitments of encrypted proposals and  *)
(* the publication that opens voting (src/src/ProposalPrivacy.sol), with   *)
(* the steps the web client takes before each transaction: what it reads   *)
(* now is used by a transaction that executes later.                       *)
(*                                                                         *)
(* A revision's terms are its cost, its content and the organizer key that *)
(* content was encrypted for, if any; the recipient stands and falls with  *)
(* them, and who edited last is left out.  A content stands for its own    *)
(* random key, and a commitment for the key it commits to (keccak256 has   *)
(* no collisions here).  Proposals and projects are numbered from 1.       *)
(* Operators named Bug... are mistakes, not code: see PBEAR.               *)
(***************************************************************************)
EXTENDS Integers, Sequences, SequencesExt

CONSTANTS
  User,
  OrganizerKey,    \* Swarm sharing keys an owner may register
  NoOrganizer,     \* no organizer key yet
  Idle,            \* nothing open at a user's desk, nothing prepared or sent
  Costs,           \* costs a proposer may ask for
  MaxProposals,    \* bound on proposals
  MaxDrafts,       \* bound on the contents drafted, by everybody together
  MaxProjects      \* bound on projects (the code's is 255)

ASSUME BoundsAssumption ==
  /\ MaxProposals \in Nat /\ MaxDrafts \in Nat /\ MaxProjects \in Nat
  /\ Costs \subseteq Nat \ {0}
  /\ NoOrganizer \notin OrganizerKey

VARIABLES
  owner,
  votingOpen,
  pastDeadline,
  proposals,       \* [proposer, terms, status, projectId]
  revision,        \* proposalRevision
  projects,        \* the terms of each project
  organizerKey,    \* organizerPublicKey
  started,
  published,
  keyCommitment,
  accepted,        \* _accepted: private proposals in order of acceptance
  proposalKey,
  projectKey,
  drafted,         \* external: contents and keys in use, none drawn twice
  desk,            \* web client: what each user has open, as it was when read
  prepared,        \* web client: the publication the organizer prepared
  sent,            \* the publication in the mempool
  disclosed        \* history: keys that were in the calldata of some transaction

poolVars    == <<owner, votingOpen, pastDeadline>>
reviewVars  == <<proposals, revision, projects>>
privacyVars == <<organizerKey, started, published, keyCommitment, accepted, proposalKey, projectKey>>
clientVars  == <<drafted, desk>>
openingVars == <<prepared, sent, disclosed>>
vars == <<poolVars, reviewVars, privacyVars, clientVars, openingVars>>

NoKey == 0
Ids   == 1 .. MaxProposals
\* The key that opens a revision; content nobody encrypted has none.
KeyOf(terms) == IF terms.organizer = NoOrganizer THEN NoKey ELSE terms.content

Init ==
  /\ owner \in User
  /\ votingOpen = FALSE /\ pastDeadline = FALSE
  /\ proposals = << >> /\ revision = << >> /\ projects = << >>
  /\ organizerKey = NoOrganizer
  /\ started = FALSE /\ published = FALSE
  /\ keyCommitment = [id \in Ids |-> NoKey]
  /\ accepted = << >>
  /\ proposalKey = [id \in Ids |-> NoKey]
  /\ projectKey = [p \in 1 .. MaxProjects |-> NoKey]
  /\ drafted = 0
  /\ desk = [u \in User |-> Idle]
  /\ prepared = Idle /\ sent = Idle /\ disclosed = {}

Setup == ~votingOpen /\ ~pastDeadline

-----------------------------------------------------------------------------
(* The web client reads and drafts.                                        *)

NewTerms(cost, o) == [cost |-> cost, organizer |-> o, content |-> drafted + 1]

Draft == drafted < MaxDrafts /\ drafted' = drafted + 1

\* What a user has open is replaced by the next thing they open: they may give
\* up, or retry after a transaction that reverted.
Open(u, work) ==
  /\ Setup
  /\ desk' = [desk EXCEPT ![u] = work]
  /\ UNCHANGED <<poolVars, reviewVars, privacyVars, openingVars>>

\* A new proposal is encrypted for the organizer key registered at this time.
DraftProposal(u, cost) ==
  /\ Draft
  /\ Open(u, [does |-> "propose", next |-> NewTerms(cost, organizerKey)])

\* An edit starts from the revision on screen and keeps its review context.
DraftEdit(u, id, cost) ==
  /\ proposals[id].status = "Pending"
  /\ u \in {proposals[id].proposer, owner}
  /\ Draft
  /\ Open(u, [does |-> "edit", id |-> id, revision |-> revision[id],
              read |-> proposals[id].terms,
              next |-> NewTerms(cost, proposals[id].terms.organizer)])

\* Before accepting, the client checks that the encrypted content of the
\* revision on screen opens with the registered key.
ReviewCheck(id) ==
  /\ proposals[id].terms.organizer = organizerKey
  /\ KeyOf(proposals[id].terms) = keyCommitment[id]

Review(u, id, decision) ==
  /\ u = owner
  /\ proposals[id].status = "Pending"
  /\ decision = "accept" => ReviewCheck(id)
  /\ UNCHANGED drafted
  /\ Open(u, [does |-> decision, id |-> id, revision |-> revision[id],
              read |-> proposals[id].terms])

-----------------------------------------------------------------------------
(* Transactions on proposals.                                              *)

Doing(u, what) == desk[u] # Idle /\ desk[u].does = what

Close(u) == desk' = [desk EXCEPT ![u] = Idle] /\ UNCHANGED drafted

\* ProposalPrivacy.record
Record(id, commitment) ==
  /\ (organizerKey = NoOrganizer) <=> (commitment = NoKey)
  /\ started' = TRUE
  /\ keyCommitment' = [keyCommitment EXCEPT ![id] = commitment]
  /\ UNCHANGED <<organizerKey, published, accepted, proposalKey, projectKey>>

FirstRevision == 1

Propose(u) ==
  /\ Setup
  /\ Doing(u, "propose")
  /\ Len(proposals) < MaxProposals
  /\ Record(Len(proposals) + 1, KeyOf(desk[u].next))
  /\ proposals' = Append(proposals, [proposer |-> u, terms |-> desk[u].next,
                                     status |-> "Pending", projectId |-> 0])
  /\ revision' = Append(revision, FirstRevision)
  /\ Close(u)
  /\ UNCHANGED <<poolVars, projects, openingVars>>

BugAnyRevision(id, expectedRevision) == proposals[id].status = "Pending"

BugReviewedToo(id, expectedRevision) == revision[id] = expectedRevision

\* _pendingProposal
PendingAt(id, expectedRevision) ==
  /\ proposals[id].status = "Pending"
  /\ revision[id] = expectedRevision

EditProposal(u) ==
  LET id == desk[u].id
  IN  /\ Setup
      /\ Doing(u, "edit")
      /\ PendingAt(id, desk[u].revision)
      /\ u \in {proposals[id].proposer, owner}
      /\ Record(id, KeyOf(desk[u].next))
      /\ proposals' = [proposals EXCEPT ![id].terms = desk[u].next]
      /\ revision' = [revision EXCEPT ![id] = desk[u].revision + 1]
      /\ Close(u)
      /\ UNCHANGED <<poolVars, projects, openingVars>>

\* ProposalPrivacy.accept: public proposals are not on the list.
NoteAcceptance(id) ==
  accepted' = IF keyCommitment[id] = NoKey THEN accepted ELSE Append(accepted, id)

\* The id _createProject returns.
NewProjectId(id) == Len(projects) + 1

AcceptProposal(u) ==
  LET id == desk[u].id
  IN  /\ Setup
      /\ Doing(u, "accept")
      /\ u = owner
      /\ PendingAt(id, desk[u].revision)
      /\ Len(projects) < MaxProjects
      /\ projects' = Append(projects, proposals[id].terms)
      /\ proposals' = [proposals EXCEPT ![id].status = "Accepted",
                                        ![id].projectId = NewProjectId(id)]
      /\ NoteAcceptance(id)
      /\ Close(u)
      /\ UNCHANGED <<poolVars, revision, organizerKey, started, published,
                     keyCommitment, proposalKey, projectKey, openingVars>>

RejectProposal(u) ==
  LET id == desk[u].id
  IN  /\ Setup
      /\ Doing(u, "reject")
      /\ u = owner
      /\ PendingAt(id, desk[u].revision)
      /\ proposals' = [proposals EXCEPT ![id].status = "Rejected"]
      /\ Close(u)
      /\ UNCHANGED <<poolVars, revision, projects, privacyVars, openingVars>>

\* The owner's own projects carry no content and are not reviewed.  The
\* deadline does not stop addProject.
AddProject(cost) ==
  /\ ~votingOpen
  /\ Len(projects) < MaxProjects
  /\ projects' = Append(projects, [cost |-> cost, organizer |-> NoOrganizer, content |-> 0])
  /\ UNCHANGED <<poolVars, proposals, revision, privacyVars, clientVars, openingVars>>

BugRegisterAnytime == Setup

CanRegister == Setup /\ ~started

SetOrganizerKey(k) ==
  /\ CanRegister
  /\ organizerKey' = k
  /\ UNCHANGED <<poolVars, reviewVars, started, published, keyCommitment, accepted,
                 proposalKey, projectKey, clientVars, openingVars>>

-----------------------------------------------------------------------------
(* Opening the vote.                                                       *)

\* What prepareProposalPublication reads and decrypts, at one block.
Publication(u) ==
  [by |-> u, ids |-> accepted,
   keys |-> [i \in DOMAIN accepted |-> KeyOf(proposals[accepted[i]].terms)]]

\* Every accepted descriptor is for the registered key and its commitment.
Preparable ==
  \A id \in ToSet(accepted) :
    /\ proposals[id].terms.organizer = organizerKey
    /\ KeyOf(proposals[id].terms) = keyCommitment[id]

Prepare(u) ==
  /\ Setup
  /\ u = owner
  /\ sent = Idle
  /\ Preparable
  /\ prepared' = Publication(u)
  /\ UNCHANGED <<poolVars, reviewVars, privacyVars, clientVars, sent, disclosed>>

\* The client compares the list once more, then puts the keys in a
\* transaction; from here on they are public whatever becomes of it.
SendPublication ==
  /\ prepared # Idle /\ sent = Idle
  /\ IF prepared.ids = accepted
     THEN /\ sent' = prepared
          /\ disclosed' = disclosed \cup ToSet(prepared.keys)
          /\ UNCHANGED prepared
     ELSE /\ prepared' = Idle
          /\ UNCHANGED <<sent, disclosed>>
  /\ UNCHANGED <<poolVars, reviewVars, privacyVars, clientVars>>

\* PoolBase.openVoting, for the owner or for ProposalPrivacy.
CanOpen == Setup /\ projects # << >>

\* The checks of ProposalPrivacy.openVoting.
PublicationValid(p) ==
  /\ p.by = owner
  /\ ~published
  /\ p.ids = accepted
  /\ \A i \in DOMAIN p.ids : p.keys[i] # NoKey /\ p.keys[i] = keyCommitment[p.ids[i]]

KeyIn(p, id) == p.keys[CHOOSE i \in DOMAIN p.ids : p.ids[i] = id]

Publish(p) ==
  /\ proposalKey' = [id \in Ids |-> IF id \in ToSet(p.ids) THEN KeyIn(p, id) ELSE proposalKey[id]]
  /\ projectKey' = [c \in 1 .. MaxProjects |->
       IF \E id \in ToSet(p.ids) : proposals[id].projectId = c
       THEN KeyIn(p, CHOOSE id \in ToSet(p.ids) : proposals[id].projectId = c)
       ELSE projectKey[c]]
  /\ published' = TRUE

PublishAndOpen ==
  /\ sent # Idle
  /\ PublicationValid(sent) /\ CanOpen
  /\ Publish(sent)
  /\ votingOpen' = TRUE
  /\ prepared' = Idle /\ sent' = Idle
  /\ UNCHANGED <<owner, pastDeadline, reviewVars, organizerKey, started, keyCommitment,
                 accepted, clientVars, disclosed>>

\* The client keeps what it prepared when the transaction reverts.
PublicationReverts ==
  /\ sent # Idle
  /\ ~(PublicationValid(sent) /\ CanOpen)
  /\ sent' = Idle
  /\ UNCHANGED <<poolVars, reviewVars, privacyVars, clientVars, prepared, disclosed>>

BugOpenUnpublished == TRUE

\* requirePublished
NothingToPublish == accepted # << >> => published

OpenDirectly ==
  /\ CanOpen
  /\ NothingToPublish
  /\ votingOpen' = TRUE
  /\ UNCHANGED <<owner, pastDeadline, reviewVars, privacyVars, clientVars, openingVars>>

-----------------------------------------------------------------------------

TransferOwnership(u) ==
  /\ owner' = u
  /\ UNCHANGED <<votingOpen, pastDeadline, reviewVars, privacyVars, clientVars, openingVars>>

DeadlinePasses ==
  /\ ~pastDeadline
  /\ pastDeadline' = TRUE
  /\ UNCHANGED <<owner, votingOpen, reviewVars, privacyVars, clientVars, openingVars>>

ClientSteps(u) ==
  \/ \E cost \in Costs : DraftProposal(u, cost)
  \/ \E id \in DOMAIN proposals, cost \in Costs : DraftEdit(u, id, cost)
  \/ \E id \in DOMAIN proposals, decision \in {"accept", "reject"} : Review(u, id, decision)
  \/ Prepare(u)

Transactions(u) ==
  \/ Propose(u)
  \/ EditProposal(u)
  \/ AcceptProposal(u)
  \/ RejectProposal(u)

Next ==
  \/ \E u \in User : ClientSteps(u) \/ Transactions(u)
  \/ \E cost \in Costs : AddProject(cost)
  \/ \E k \in OrganizerKey : SetOrganizerKey(k)
  \/ SendPublication
  \/ PublishAndOpen
  \/ PublicationReverts
  \/ OpenDirectly
  \/ \E u \in User : TransferOwnership(u)
  \/ DeadlinePasses

Spec == Init /\ [][Next]_vars

-----------------------------------------------------------------------------

IsAccepted(id) == proposals[id].status = "Accepted"

\* A round is private from its first proposal on or not at all: no key is
\* registered, changed or missing once something was submitted
\* (ProposalPrivacy.sol:45-65).
PrivateOrPublic ==
  \A id \in DOMAIN proposals : (keyCommitment[id] = NoKey) <=> (organizerKey = NoOrganizer)

\* Voters can read every ballot entry once voting is open, and before that
\* none: a project has a key on chain exactly if it came from a private
\* proposal, and it is the key of the revision that was accepted.
ReadableOnceOpen ==
  \A c \in 1 .. MaxProjects :
    projectKey[c] = IF votingOpen /\ c \in DOMAIN projects THEN KeyOf(projects[c]) ELSE NoKey

\* Keys leave the organizer's browser only for accepted final revisions, also
\* in a transaction that then reverts.  Drafts, rejected and pending proposals
\* and superseded revisions stay private.
OnlyAcceptedDisclosed ==
  \A k \in disclosed : \E id \in DOMAIN proposals : IsAccepted(id) /\ KeyOf(proposals[id].terms) = k

-----------------------------------------------------------------------------

\* Nobody's save is lost and nothing is decided unread: a revision is replaced,
\* accepted or rejected only by somebody who had that very revision open.
NoLostUpdate ==
  [][\A id \in DOMAIN proposals : proposals'[id] # proposals[id] =>
       \E u \in User :
         /\ desk[u] # Idle /\ desk[u].does # "propose"
         /\ desk[u].id = id
         /\ desk[u].read = proposals[id].terms
         /\ proposals'[id].status # proposals[id].status => u = owner]_vars

=============================================================================
