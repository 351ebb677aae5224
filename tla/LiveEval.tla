------------------------------ MODULE LiveEval ------------------------------
(***************************************************************************)
(* The live harness (scripts/live_byon_eval.py): a fixed course of gates,  *)
(* each a question to the gateway or to the memory-service with a verdict  *)
(* on what comes back, and the guard that polls the memory-service so that *)
(* its death is told from a wrong answer.                                  *)
(*                                                                         *)
(* The gateway and the memory-service are other processes: they die, and   *)
(* may be brought back, between any two gates.  A gate is one letter here: *)
(* what its verdict is when nobody answers, and whether the guard is asked *)
(* around it.  What the questions are about is left out.                   *)
(***************************************************************************)
EXTENDS Naturals, Sequences, FiniteSets, SequencesExt

CONSTANTS RestartPhase, \* BYON_EVAL_RESTART_PHASE is set
          MaxDeaths,    \* bound: how often the memory-service dies
          MaxOutages    \* bound: how often the gateway goes

VARIABLES
    at,         \* <<suite, gate>> to come; past the last suite: the report
    memUp, gwUp,
    crashed,    \* the guard's flag
    failed,     \* a graded gate has failed
    report,     \* what is written at the end, or "none"
    seen,       \* history: the guard has seen the death that lasts now
    deaths, outages,
    quiet,      \* history: away since this suite began, and nothing was halted
    mute        \* history: it was away for the whole of a suite

vars == <<at, memUp, gwUp, crashed, failed, report, seen, deaths, outages, quiet, mute>>

-----------------------------------------------------------------------------
(* The gates.                                                              *)

\* Through check(): skipped once the guard has seen the service down, and the
\* guard polls it when the gate is over.
Checked == {"check", "checkLax", "checkPlanted"}

\* Needs a note planted in the memory-service first, and is skipped without.
Planted == {"planted", "checkPlanted"}

\* What counts is that nothing bad comes back: no answer is a pass.
Lax == {"lax", "checkLax"}

\* Mutant: a search that raises leaves the gate to what was found before.
MutVerdicts(g) ==
    IF g \in Planted \union {"memory"} /\ ~memUp THEN {"skip"}
    ELSE IF gwUp \/ g \in {"local", "memory", "recall"} THEN {"pass", "fail"}
    ELSE IF g \in Lax THEN {"pass"} ELSE {"fail"}

\* Verdicts a gate may get.  "memory" drives the memory-service itself and is
\* skipped when that raises; "recall" searches it and finds nothing; "local"
\* runs in the harness's own process; "perhaps" is skipped when there is
\* nothing to grade.
Verdicts(g) ==
    CASE g = "local" -> {"pass", "fail"}
      [] g = "memory" -> IF memUp THEN {"pass", "fail"} ELSE {"skip"}
      [] g = "recall" -> IF memUp THEN {"pass", "fail"} ELSE {"fail"}
      [] g \in Planted /\ ~memUp -> {"skip"}
      [] g = "perhaps" -> IF gwUp THEN {"pass", "fail", "skip"} ELSE {"skip"}
      [] OTHER -> IF gwUp THEN {"pass", "fail"}
                  ELSE IF g \in Lax THEN {"pass"} ELSE {"fail"}

Times(n, g) == [i \in 1 .. n |-> g]

\* 1_identity .. 12_unknown_weboff, then 13_isolation, asked without the guard.
Basic == Times(14, "check") \o <<"lax">>

\* adv_style_learning .. adv_web_disabled; adv_contradiction_recall is content
\* with any status, ERROR among them.
Adversarial == Times(6, "check") \o <<"checkLax">> \o Times(3, "check")

\* pp_system x 3, pp_vault x 3, pp_objective; the two bleeds.
Paraphrase == Times(7, "check") \o Times(2, "checkPlanted")

\* Mutant: a fresh write counts as recalled when no answer is wrong.
MutSubstrate == <<"perhaps", "lax", "lax", "lax", "lax", "perhaps">>

\* Report, writer, lock, bleed, fresh write, error report.
Substrate == <<"perhaps", "lax", "lax", "lax", "strict", "perhaps">>

\* Mode and counts; two of the write burst, batch, tombstone, dry run; apply;
\* bleed and buffer.
Cycle5 == Times(2, "strict") \o Times(5, "memory") \o <<"perhaps">> \o Times(2, "strict")

\* Status and authority, pressure, task, pending; secret; feedback; tick;
\* dispute; snapshots; approval, bleed, buffer, tombstones.
Cycle6 == Times(5, "strict") \o <<"lax", "strict", "lax", "planted", "local">>
          \o Times(4, "strict")

\* Engine signal, autorun; candidate and log; web, approval, secret, pressure;
\* a gate that never fails; authority, level, bleed, tombstones, buffer.
Cycle7 == Times(2, "strict") \o Times(2, "local") \o <<"lax", "strict", "lax", "lax">>
          \o <<"perhaps">> \o Times(5, "strict")

\* Created, reinforced, committed; tier; provenance; retrieved; disputed;
\* answer; archived; four that want nothing found; bleed, tombstones,
\* authority, level.
Cycle8 == Times(3, "strict") \o <<"lax", "strict", "recall", "strict", "planted", "strict">>
          \o Times(4, "lax") \o Times(4, "strict")

\* Merged, disputed, kept apart; canonical; same source; two sources, quality,
\* reasons; weak commit; retrieved; bleed, tombstones, authority, level.
Cycle9 == <<"strict", "local", "strict", "planted", "lax">> \o Times(3, "strict")
          \o <<"local", "recall">> \o Times(4, "strict")

\* The field and what it answers x 10; bleed, lifecycle, tombstones; recall;
\* level.
Cycle10 == Times(13, "strict") \o <<"recall", "strict">>

\* Inferred x 3; from a vault note; reinforced .. authority x 7; policy; bleed,
\* lifecycle; recall; level.
Cycle11 == Times(3, "strict") \o <<"planted">> \o Times(7, "strict")
           \o <<"planted", "strict", "strict", "recall", "strict">>

\* Paths and ranking x 4; vault claim; preference, context x 2; canonical;
\* conflicts, reports, authority x 5; policy; lifecycle; recall; level.
Cycle12 == Times(4, "strict") \o <<"lax">> \o Times(3, "strict") \o <<"planted">>
           \o Times(5, "strict") \o <<"planted", "strict", "recall", "strict">>

\* Context x 2; vault claim; decay x 2 in this process; canonical, explained
\* paths, history, gaps, self-state x 13; policy; authority, lifecycle; recall;
\* level.
Cycle13 == Times(2, "strict") \o <<"lax", "local", "local">> \o Times(13, "strict")
           \o <<"planted", "strict", "strict", "recall", "strict">>

\* Maintenance, gaps, autorun x 10; scores, explanations and self-state x 8 in
\* this process; routing, authority; the secret, where ERROR will do; two
\* recalls; the guard is there; level.
Cycle15 == Times(10, "strict") \o Times(8, "local") \o <<"strict", "strict", "lax">>
           \o Times(2, "strict") \o <<"local", "strict">>

\* Prepared or verified, when a phase is set.
RestartRecall == IF RestartPhase THEN << <<"strict">> >> ELSE << >>

Course == <<Basic, Adversarial, Paraphrase, Substrate, Cycle5, Cycle6, Cycle7, Cycle8,
            Cycle9, Cycle10, Cycle11, Cycle12, Cycle13, Cycle15>> \o RestartRecall

-----------------------------------------------------------------------------
Init ==
    /\ at = <<0, 0>>
    /\ memUp \in BOOLEAN
    /\ gwUp = TRUE
    /\ crashed = FALSE
    /\ failed = FALSE
    /\ report = "none"
    /\ seen = FALSE
    /\ deaths = 0 /\ outages = 0
    /\ quiet = FALSE /\ mute = FALSE

world == <<memUp, gwUp, deaths, outages>>

\* precheck(): a service that is down already is a crash and a failed gate.
Precheck ==
    /\ at = <<0, 0>>
    /\ at' = <<1, 1>>
    /\ crashed' = ~memUp
    /\ failed' = ~memUp
    /\ seen' = ~memUp
    /\ quiet' = ~gwUp
    /\ UNCHANGED <<world, report, mute>>

InCourse == at[1] \in 1 .. Len(Course)
Gate == Course[at[1]][at[2]]
LastOfSuite == at[2] = Len(Course[at[1]])

\* On to the next gate, perhaps in the next suite.
NextGate == IF LastOfSuite THEN <<at[1] + 1, 1>> ELSE <<at[1], at[2] + 1>>

Advance ==
    /\ at' = NextGate
    /\ mute' = (mute \/ (LastOfSuite /\ quiet))
    /\ quiet' = IF LastOfSuite THEN ~gwUp ELSE quiet

\* check(), once the guard has seen the service down: a suite with such a gate is
\* not silent, it is halted.
Skip ==
    /\ InCourse
    /\ Gate \in Checked /\ crashed
    /\ at' = NextGate
    /\ quiet' = (LastOfSuite /\ ~gwUp)
    /\ UNCHANGED <<world, crashed, failed, report, seen, mute>>

\* after_gate(): the service is polled after a checked gate that was run.
AfterGate(g) == crashed \/ (g \in Checked /\ ~memUp)

\* A gate is run and graded.  Those that do not go through check() are run
\* whatever the guard has seen.
Run ==
    /\ InCourse
    /\ Gate \in Checked => ~crashed
    /\ \E v \in Verdicts(Gate) :
        /\ failed' = (failed \/ v = "fail")
        /\ crashed' = IF v = "skip" THEN crashed ELSE AfterGate(Gate)
        /\ seen' = (seen \/ (v # "skip" /\ Gate \in Checked /\ ~memUp))
    /\ Advance
    /\ UNCHANGED <<world, report>>

\* postcheck() and the report: a service found dead only now makes the run
\* unstable, which is not among the fields that are written.
Finish ==
    /\ at[1] = Len(Course) + 1
    /\ report = "none"
    /\ report' = IF failed THEN "failures" ELSE "all_pass"
    /\ UNCHANGED <<at, world, crashed, failed, seen, quiet, mute>>

-----------------------------------------------------------------------------
(* The services.                                                           *)

MemoryDies ==
    /\ memUp /\ deaths < MaxDeaths /\ report = "none"
    /\ memUp' = FALSE
    /\ deaths' = deaths + 1
    /\ UNCHANGED <<at, gwUp, crashed, failed, report, seen, outages, quiet, mute>>

MemoryReturns ==
    /\ ~memUp /\ report = "none"
    /\ memUp' = TRUE
    /\ seen' = FALSE
    /\ UNCHANGED <<at, gwUp, crashed, failed, report, deaths, outages, quiet, mute>>

GatewayGoes ==
    /\ gwUp /\ outages < MaxOutages /\ report = "none"
    /\ gwUp' = FALSE
    /\ outages' = outages + 1
    /\ quiet' = (InCourse /\ at[2] = 1)
    /\ UNCHANGED <<at, memUp, crashed, failed, report, seen, deaths, mute>>

GatewayReturns ==
    /\ ~gwUp /\ report = "none"
    /\ gwUp' = TRUE
    /\ quiet' = FALSE
    /\ UNCHANGED <<at, memUp, crashed, failed, report, seen, deaths, outages, mute>>

Next ==
    \/ Precheck \/ Skip \/ Run \/ Finish
    \/ MemoryDies \/ MemoryReturns \/ GatewayGoes \/ GatewayReturns

Spec == Init /\ [][Next]_vars

-----------------------------------------------------------------------------
\* No suite passes by silence: a run that reports all_pass had the gateway back
\* for some gate of every suite that was not halted (live_byon_eval.py:100 turns
\* a call that fails into an ERROR answer, which many gates are content with).
SilenceIsNoPass == report = "all_pass" => ~mute

\* The gates after the last checked one are run although the guard has stopped
\* the run, and all_pass does not ask it (live_byon_eval.py:423).  Yet a death
\* the guard has seen, and that lasts, is never reported as all_pass: some later
\* gate needs the service itself.
LastingCrashFails == report = "all_pass" => ~seen

\* "A memory-service death is reported as MEMORY_SERVICE_CRASH"
\* (live_byon_eval.py:123), whenever it dies before the report is written.
DeathIsReported == (report # "none" /\ ~memUp) => crashed
=============================================================================
