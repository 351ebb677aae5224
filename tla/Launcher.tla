------------------------------ MODULE Launcher ------------------------------
(***************************************************************************)
(* The one-command launcher (run_byon.py), the children its supervisor     *)
(* starts and stops (app/service_supervisor.py), the script that restarts  *)
(* the app (scripts/restart_app.py), and the gate that teaches a fact,     *)
(* runs that script and asks for the fact again                            *)
(* (scripts/live_restart_recall_eval.py --phase auto).                     *)
(*                                                                         *)
(* A launch starts a memory-service on the one port there is for it and a  *)
(* gateway on the first port it finds free, each as a child process, and   *)
(* asks the port, not the child, whether it is healthy.  Several launches  *)
(* may be under way.  A child binds its port when it boots, or exits.      *)
(***************************************************************************)
EXTENDS Naturals

CONSTANTS Launches,     \* runs of run_byon.py
          Nobody,       \* no process, no port
          OnWindows,    \* restart_app also kills who listens on the ports
          MaxCrashes    \* bound: children that die

GatewayPorts == {8090, 8091}
Ports == GatewayPorts \union {8000}

VARIABLES
    pc,         \* per launch: where run_byon's main is
    mem, gw,    \* per launch: its children
    gwPort,     \* per launch: the gateway port it chose, or attached to
    owner,      \* per port: the launch whose child listens on it
    restart,    \* where restart_app is
    old,        \* history: launches begun before restart_app stopped the launchers
    crashes,    \* children that died by themselves (bound)
    caught,     \* history: launches whose gateway listened on nothing yet when the
                \* listeners were stopped, or was started between them and the launchers
    spared,     \* history: launches of which restart_app left the gateway listening
                \* on its port, or the launcher running
    gate,       \* where the restart-recall gate is
    taught,     \* the launch whose gateway was taught the fact
    answered    \* history: the launch whose gateway was asked for it at the end

children == <<mem, gw, owner>>
recall == <<gate, taught, answered>>
escaped == <<old, caught, spared>>
vars == <<pc, children, gwPort, restart, escaped, crashes, recall>>

Running == {"chosen", "waitMemory", "ready", "waitGateway", "ui", "attached"}

Init ==
    /\ pc = [l \in Launches |-> "off"]
    /\ mem = [l \in Launches |-> "none"]
    /\ gw = [l \in Launches |-> "none"]
    /\ gwPort = [l \in Launches |-> Nobody]
    /\ owner = [p \in Ports |-> Nobody]
    /\ restart = "idle"
    /\ old = {}
    /\ crashes = 0
    /\ caught = {}
    /\ spared = {}
    /\ gate = "idle"
    /\ taught = Nobody
    /\ answered = Nobody

-----------------------------------------------------------------------------
(* run_byon.py, REAL mode.                                                 *)

\* The configured port is free; or a healthy gateway is there and is reused; or
\* it does not answer and the next free port is taken.
Launch(l) ==
    /\ pc[l] = "off"
    /\ \/ /\ owner[8090] = Nobody
          /\ gwPort' = [gwPort EXCEPT ![l] = 8090]
          /\ pc' = [pc EXCEPT ![l] = "chosen"]
       \/ /\ owner[8090] # Nobody
          /\ gwPort' = [gwPort EXCEPT ![l] = 8090]
          /\ pc' = [pc EXCEPT ![l] = "attached"]
       \/ /\ owner[8090] # Nobody
          /\ gwPort' = [gwPort EXCEPT ![l] = 8091]
          /\ pc' = [pc EXCEPT ![l] = "chosen"]
    /\ UNCHANGED <<children, restart, escaped, crashes, recall>>

StartMemory(l) ==
    /\ pc[l] = "chosen"
    /\ mem' = [mem EXCEPT ![l] = "booting"]
    /\ pc' = [pc EXCEPT ![l] = "waitMemory"]
    /\ UNCHANGED <<gw, gwPort, owner, restart, escaped, crashes, recall>>

\* wait_http: the child has not exited, and somebody answers on the port.
Answers(l, child, port) == child[l] # "dead" /\ owner[port] # Nobody

MemoryHealthy(l) ==
    /\ pc[l] = "waitMemory"
    /\ Answers(l, mem, 8000)
    /\ pc' = [pc EXCEPT ![l] = "ready"]
    /\ UNCHANGED <<children, gwPort, restart, escaped, crashes, recall>>

\* After the optional training.
StartGateway(l) ==
    /\ pc[l] = "ready"
    /\ gw' = [gw EXCEPT ![l] = "booting"]
    /\ pc' = [pc EXCEPT ![l] = "waitGateway"]
    /\ caught' = IF restart = "listeners" THEN caught \union {l} ELSE caught
    /\ UNCHANGED <<mem, gwPort, owner, restart, old, spared, crashes, recall>>

GatewayHealthy(l) ==
    /\ pc[l] = "waitGateway"
    /\ Answers(l, gw, gwPort[l])
    /\ pc' = [pc EXCEPT ![l] = "ui"]
    /\ UNCHANGED <<children, gwPort, restart, escaped, crashes, recall>>

\* stop_all: every child of the launch is terminated, and its port is free.
Stopped(child, l) == [child EXCEPT ![l] = IF @ = "none" THEN @ ELSE "dead"]
Freed(gone) == [p \in Ports |-> IF owner[p] \in gone THEN Nobody ELSE owner[p]]

End(l) ==
    /\ mem' = Stopped(mem, l)
    /\ gw' = Stopped(gw, l)
    /\ owner' = Freed({l})
    /\ pc' = [pc EXCEPT ![l] = "ended"]
    /\ UNCHANGED <<gwPort, restart, escaped, crashes, recall>>

\* A child exits early, or its port does not answer in time.
GiveUp(l) == pc[l] \in {"waitMemory", "waitGateway"} /\ End(l)

\* The UI is closed, or Ctrl+C anywhere: finally and atexit stop the children.
Quit(l) == pc[l] \in Running /\ End(l)

-----------------------------------------------------------------------------
(* The children.                                                           *)

MemoryBoots(l) ==
    /\ mem[l] = "booting"
    /\ IF owner[8000] = Nobody
       THEN /\ mem' = [mem EXCEPT ![l] = "serving"]
            /\ owner' = [owner EXCEPT ![8000] = l]
       ELSE /\ mem' = [mem EXCEPT ![l] = "dead"]
            /\ UNCHANGED owner
    /\ UNCHANGED <<pc, gw, gwPort, restart, escaped, crashes, recall>>

GatewayBoots(l) ==
    /\ gw[l] = "booting"
    /\ IF owner[gwPort[l]] = Nobody
       THEN /\ gw' = [gw EXCEPT ![l] = "serving"]
            /\ owner' = [owner EXCEPT ![gwPort[l]] = l]
       ELSE /\ gw' = [gw EXCEPT ![l] = "dead"]
            /\ UNCHANGED owner
    /\ UNCHANGED <<pc, mem, gwPort, restart, escaped, crashes, recall>>

Crash(l) ==
    /\ crashes < MaxCrashes
    /\ crashes' = crashes + 1
    /\ \/ /\ mem[l] = "serving"
          /\ mem' = [mem EXCEPT ![l] = "dead"]
          /\ owner' = [owner EXCEPT ![8000] = Nobody]
          /\ UNCHANGED gw
       \/ /\ gw[l] = "serving"
          /\ gw' = [gw EXCEPT ![l] = "dead"]
          /\ owner' = [owner EXCEPT ![gwPort[l]] = Nobody]
          /\ UNCHANGED mem
    /\ UNCHANGED <<pc, gwPort, restart, escaped, recall>>

-----------------------------------------------------------------------------
(* restart_app.py.                                                         *)

Listening(port) == {owner[port]} \ {Nobody}

\* The listeners on the ports `hit` are killed.
Kill(hit) ==
    /\ mem' = [l \in Launches |-> IF 8000 \in hit /\ owner[8000] = l THEN "dead" ELSE mem[l]]
    /\ gw' = [l \in Launches |-> IF 8090 \in hit /\ owner[8090] = l THEN "dead" ELSE gw[l]]
    /\ owner' = [p \in Ports |-> IF p \in hit THEN Nobody ELSE owner[p]]

\* Mutant: the gateway's port is forgotten.
MutStopListeners ==
    /\ restart = "idle"
    /\ restart' = "listeners"
    /\ Kill({8000})
    /\ caught' = {l \in Launches : gw[l] = "booting"}
    /\ UNCHANGED <<pc, gwPort, old, spared, crashes, recall>>

\* First, and only on Windows, who listens on the ports is killed.  A kill that
\* fails is swallowed.  (The third port is the UI's, a launcher's own.)
StopListeners ==
    /\ restart = "idle"
    /\ restart' = "listeners"
    /\ \E hit \in SUBSET {8000, 8090} :
         /\ OnWindows \/ hit = {}
         /\ Kill(hit)
         /\ spared' = IF 8090 \in hit THEN {} ELSE Listening(8090)
    /\ caught' = {l \in Launches : gw[l] = "booting"}
    /\ UNCHANGED <<pc, gwPort, old, crashes, recall>>

\* Then every run_byon.py, where it stands: no finally, no atexit, and its
\* children go on.  Again a kill that fails is swallowed.
StopLaunchers ==
    /\ restart = "listeners"
    /\ restart' = "freed"
    /\ \E hit \in SUBSET {l \in Launches : pc[l] \in Running} :
         /\ pc' = [l \in Launches |-> IF l \in hit THEN "killed" ELSE pc[l]]
         /\ spared' = spared \union {l \in Launches \ hit : pc[l] \in Running}
    /\ old' = {l \in Launches : pc[l] # "off"}
    /\ UNCHANGED <<children, gwPort, caught, crashes, recall>>

\* The shell runs into its own time limit, or a process cannot be started: the
\* script dies where it is, before it stopped anything or after.
RestartDies ==
    /\ restart \in {"idle", "listeners", "freed"}
    /\ restart' = "died"
    /\ spared' = IF restart = "idle" THEN Listening(8090) ELSE spared
    /\ UNCHANGED <<pc, children, gwPort, old, caught, crashes, recall>>

\* Any answer on the gateway's port counts, and the wait may run out.
WaitHealth ==
    /\ restart = "freed"
    /\ \E l \in Launches \ old : pc[l] # "off"
    /\ restart' = IF owner[8090] # Nobody THEN "up" ELSE "down"
    /\ UNCHANGED <<pc, children, gwPort, escaped, crashes, recall>>

-----------------------------------------------------------------------------
(* live_restart_recall_eval.py.                                            *)

\* The fact is taught: the gateway that answers puts it in its write buffer and
\* has it stored.  Whether it recalls it at once is reported and not checked.
Prepare ==
    /\ gate = "idle"
    /\ restart = "idle"
    /\ owner[8090] # Nobody
    /\ taught' = owner[8090]
    /\ gate' = "prepared"
    /\ UNCHANGED <<pc, children, gwPort, restart, escaped, crashes, answered>>

\* Mutant: the script is started and not waited for.
MutVerify ==
    /\ gate = "prepared"
    /\ answered' = owner[8090]
    /\ gate' = IF owner[8090] = Nobody THEN "failed" ELSE "passed"
    /\ UNCHANGED <<pc, children, gwPort, restart, escaped, crashes, taught>>

\* Whoever answers on the port is asked: the gateway that was taught may know it
\* from its buffer, another one only through a memory-service.  How the script
\* ended is not looked at.
Verify ==
    /\ gate = "prepared"
    /\ restart \in {"up", "down", "died"}
    /\ answered' = owner[8090]
    /\ \/ gate' = "failed"
       \/ /\ owner[8090] # Nobody
          /\ owner[8090] = taught \/ owner[8000] # Nobody
          /\ gate' = "passed"
    /\ UNCHANGED <<pc, children, gwPort, restart, escaped, crashes, taught>>

\* restart_app.py did not end within the gate's own limit.
AutoTimesOut ==
    /\ gate = "prepared"
    /\ restart \in {"idle", "listeners", "freed"}
    /\ gate' = "failed"
    /\ UNCHANGED <<pc, children, gwPort, restart, escaped, crashes, taught, answered>>

Next ==
    \/ \E l \in Launches :
        \/ Launch(l) \/ StartMemory(l) \/ MemoryHealthy(l)
        \/ StartGateway(l) \/ GatewayHealthy(l)
        \/ GiveUp(l) \/ Quit(l)
        \/ MemoryBoots(l) \/ GatewayBoots(l) \/ Crash(l)
    \/ StopListeners \/ StopLaunchers \/ WaitHealth \/ RestartDies
    \/ Prepare \/ Verify \/ AutoTimesOut

Spec == Init /\ [][Next]_vars

-----------------------------------------------------------------------------
\* "Stop the running BYON app and relaunch it": once the restart reports the
\* gateway up, the gateway that answers was started after the ports were freed.
RestartIsReal ==
    restart = "up" => owner[8090] \notin old

\* What holds of it, on either system: an old gateway answers only if it listened
\* on nothing yet when the listeners were stopped and took the port before the new
\* one did, was started between the two kills, or was left alone by them, or its
\* launcher was (restart_app.py:22-36).
RestartReplaces ==
    restart = "up" => owner[8090] \notin old \/ owner[8090] \in caught \union spared

\* "memory survived a restart": a recall that passes the gate is the echo of the
\* gateway that was taught, out of its write buffer, only if that gateway was left
\* listening: its kill failed or is not tried on this system, or the script died
\* before it.  No other race of launches, crashes and kills passes an echo.
RecallIsNoEcho ==
    gate = "passed" /\ answered = taught => taught \in spared
=============================================================================
