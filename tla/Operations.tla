----------------------------- MODULE Operations ------------------------------
(***************************************************************************)
(* What runs around the gateway, side by side: the LifeLoop inside it, the *)
(* launcher that starts and restarts it, and the live evaluation that      *)
(* probes it.  Each has its own state; what it promises is said here in    *)
(* the words of its own module.                                            *)
(***************************************************************************)
EXTENDS Naturals

CONSTANTS
  \* of the LifeLoop
  Topics, Tickers, Every, None, MaxEvents, MaxTicks, MaxHours,
  \* of the launcher
  Launches, Nobody, OnWindows, MaxCrashes,
  \* of the evaluation
  RestartPhase, MaxDeaths, MaxOutages

ASSUME NoneAssumption == None \notin Nat
ASSUME NobodyAssumption == Nobody \notin Launches

VARIABLES
  topics, recent, since, feedback, reasons, tasks, lifePc, job, now, events, ticks,
  unserved, missed, halted, doubled,
  launchPc, mem, gw, gwPort, owner, restart, old, crashes, caught, spared,
  gate, taught, answered,
  at, memUp, gwUp, crashed, failed, report, seen, deaths, outages, quiet, mute

lifeVars == <<topics, recent, since, feedback, reasons, tasks, lifePc, job, now, events,
              ticks, unserved, missed, halted, doubled>>
launchVars == <<launchPc, mem, gw, gwPort, owner, restart, old, crashes, caught, spared,
                gate, taught, answered>>
evalVars == <<at, memUp, gwUp, crashed, failed, report, seen, deaths, outages, quiet, mute>>

Life == INSTANCE LifeLoop WITH pc <- lifePc
Launch == INSTANCE Launcher WITH pc <- launchPc
Eval == INSTANCE LiveEval

-----------------------------------------------------------------------------
\* No ask for a consolidation is lost (LifeLoop).
AskIsServed == Life!AskIsServed

\* What ended in an error after a failure is not run again (LifeLoop).
RepeatedFailureStops == Life!RepeatedFailureStops

\* A restart brings a new gateway, but for those it missed (Launcher).
RestartReplaces == Launch!RestartReplaces

\* A recall the restart gate passes is no echo, unless the old gateway was left
\* listening (Launcher).
RecallIsNoEcho == Launch!RecallIsNoEcho

\* No suite passes by silence (LiveEval).
SilenceIsNoPass == Eval!SilenceIsNoPass

\* A death that was seen and lasts is no pass (LiveEval).
LastingCrashFails == Eval!LastingCrashFails
=============================================================================
