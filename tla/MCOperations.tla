---------------------------- MODULE MCOperations -----------------------------
(***************************************************************************)
(* The components around the gateway and the vault-training lock, for TLC. *)
(* They share no state, so a behaviour runs one of them, its `part`, and   *)
(* the others stay in their initial state.                                 *)
(***************************************************************************)
EXTENDS VaultLock, Operations, TLC

VARIABLE part

MCInit ==
  /\ part \in {"lock", "life", "launch", "eval"}
  /\ Init /\ Life!Init /\ Launch!Init /\ Eval!Init
  /\ part = "eval" \/ memUp

\* A bound of the LifeLoop's part: events and hours are at most two ahead of the
\* ticks, no tick is ahead of the events, and an hour takes the place of an event.
Paced ==
  /\ ticks <= events
  /\ events + now <= ticks + 2
  /\ events + now <= MaxEvents

MCNext ==
  \/ part = "lock" /\ Next /\ UNCHANGED <<part, lifeVars, launchVars, evalVars>>
  \/ part = "life" /\ Life!Next /\ Paced' /\ UNCHANGED <<part, vars, launchVars, evalVars>>
  \/ part = "launch" /\ Launch!Next /\ UNCHANGED <<part, vars, lifeVars, evalVars>>
  \/ part = "eval" /\ Eval!Next /\ UNCHANGED <<part, vars, lifeVars, launchVars>>

MCSpec ==
  MCInit /\ [][MCNext]_<<part, vars, lifeVars, launchVars, evalVars>>

MCSymmetry == Permutations(Tickers)
=============================================================================
