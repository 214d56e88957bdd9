-------------------------------- MODULE Escrow --------------------------------
(***************************************************************************)
(* What a pool promises about money, whatever rule picks the projects: it  *)
(* holds tokens, decides once which project is awarded how much and never  *)
(* awards more than it holds, pays every award at most once and in full,   *)
(* and lets the owner take only what no award still needs.                 *)
(***************************************************************************)
EXTENDS Integers, Sequences, PrefixSums

VARIABLES
  held,     \* the tokens in the pool
  decided,
  award,    \* once decided: what each project, by its number, is to get
  paid      \* the projects that got it

escrowVars == <<held, decided, award, paid>>

Owed ==
  Sum([c \in 1 .. Len(award) |-> IF c \in paid THEN 0 ELSE award[c]], Len(award))

Init == held = 0 /\ decided = FALSE /\ award = << >> /\ paid = {}

\* Deposits and gifts; gifts also after the decision.
Receive ==
  /\ held' >= held
  /\ UNCHANGED <<decided, award, paid>>

Decide ==
  /\ ~decided /\ decided'
  /\ paid' = {}
  /\ Owed' <= held
  /\ UNCHANGED held

Pay ==
  /\ decided
  /\ \E c \in DOMAIN award \ paid :
       /\ award[c] > 0
       /\ paid' = paid \cup {c}
       /\ held' = held - award[c]
  /\ UNCHANGED <<decided, award>>

Release ==
  /\ decided
  /\ Owed <= held' /\ held' <= held
  /\ UNCHANGED <<decided, award, paid>>

Next == Receive \/ Decide \/ Pay \/ Release

Spec == Init /\ [][Next]_escrowVars
=============================================================================
