---------------------------- MODULE AuditedStore ----------------------------
(***************************************************************************)
(* What src/store.rs promises when no write is cut short: an audited       *)
(* state.  Every change is one admissible op at the end of a history that  *)
(* is never edited, and the state is always the one those ops make.  The   *)
(* process may die at any time; whenever it serves, what it serves is that *)
(* state, never an older or a newer one.                                   *)
(***************************************************************************)
EXTENDS TrustState

CONSTANTS
  Ops,       \* the ops somebody may ask for
  Offline    \* what an absent process serves

VARIABLES
  history,   \* the ops committed so far
  state,     \* what they add up to
  serving    \* the state the process answers from, or Offline

avars == <<history, state, serving>>

AInit == history = << >> /\ state = EmptyStore /\ serving = Offline

\* An admissible op is committed.  The process answers from the new state,
\* unless it was still seeding or died before it could answer.
Commit ==
  /\ \E op \in Ops :
       /\ history' = Append(history, op)
       /\ Applies(state, op)
       /\ state' = Effect(state, op)
  /\ serving' \in {Offline, state'}

Start == serving = Offline /\ serving' = state /\ UNCHANGED <<history, state>>

Die == serving' = Offline /\ UNCHANGED <<history, state>>

ASpec == AInit /\ [][Commit \/ Start \/ Die]_avars
=============================================================================
