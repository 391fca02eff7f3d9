---------------------------- MODULE RelayProcess ----------------------------
(***************************************************************************)
(* The supervisor of the relay process (relay-process.cpp): start, restart *)
(* with a stop that is forced after a while, unexpected ends.  On Windows, *)
(* the platform of the plugin, QProcess::start reports started or          *)
(* FailedToStart before it returns, so startRelay is one step here.  Of    *)
(* lastError only its presence would matter, and it is left out.           *)
(***************************************************************************)
EXTENDS Naturals

VARIABLES
    state,             \* state_
    proc,              \* process_.state() # NotRunning
    intentionalStop,   \* intentional_stop_
    pendingRestart,    \* pending_restart_
    killTimer,         \* terminate_fallback_timer_ is active
    killed,            \* process_.kill() was called on this process
    session            \* how many times session_token_ was generated

pvars == <<state, proc, intentionalStop, pendingRestart, killTimer, killed, session>>

ProcessInit ==
    /\ state = "Idle" /\ session = 0
    /\ proc = FALSE /\ intentionalStop = FALSE /\ pendingRestart = FALSE
    /\ killTimer = FALSE /\ killed = FALSE

(* startRelay, when no process runs: the binary may not be found, the      *)
(* destination may be incomplete, the system may fail to start the binary. *)
StartRelay(found, complete) ==
    /\ session' = IF found THEN session + 1 ELSE session
    /\ \/ state' = "FailedToStart" /\ proc' = FALSE
       \/ found /\ complete /\ state' = "Running" /\ proc' = TRUE

(* Mutant: the flag that marks a stop as meant survives the stop.          *)
CompleteIntentionalStop_KeepsFlag(found, complete) ==
    /\ UNCHANGED intentionalStop
    /\ pendingRestart' = FALSE
    /\ StartRelay(found, complete)

(* completeIntentionalStop: Idle, and the restart that was asked for.      *)
CompleteIntentionalStop(found, complete) ==
    /\ intentionalStop' = FALSE
    /\ pendingRestart' = FALSE
    /\ StartRelay(found, complete)

(* startRelay called by the dock.  With a process it returns at once.      *)
Start(found, complete) ==
    /\ ~proc
    /\ StartRelay(found, complete)
    /\ UNCHANGED <<intentionalStop, pendingRestart, killTimer, killed>>

(* Mutant: the restart asks a running relay to end and arms no timer.      *)
RestartRelay_NoTimer(found, complete) ==
    \/ /\ ~proc /\ CompleteIntentionalStop(found, complete)
       /\ UNCHANGED <<killTimer, killed>>
    \/ /\ proc /\ state' = "Stopping" /\ intentionalStop' = TRUE /\ pendingRestart' = TRUE
       /\ UNCHANGED <<proc, killTimer, killed, session>>

(* restartRelay, with stopRelay, whose only caller it is.  terminate is    *)
(* without effect on a console process that has no window.                 *)
RestartRelay(found, complete) ==
    \/ /\ ~proc /\ CompleteIntentionalStop(found, complete)
       /\ UNCHANGED <<killTimer, killed>>
    \/ /\ proc /\ state' = "Stopping" /\ intentionalStop' = TRUE /\ pendingRestart' = TRUE
       /\ killTimer' = TRUE
       /\ UNCHANGED <<proc, killed, session>>

(* The timer of stopRelay runs out.                                        *)
TerminateFallback ==
    /\ killTimer /\ killTimer' = FALSE
    /\ killed' = (killed \/ (intentionalStop /\ proc))
    /\ UNCHANGED <<state, proc, intentionalStop, pendingRestart, session>>

(* Mutant: the end of a process leaves the timer of its stop running.      *)
OnProcessFinished_TimerRuns(found, complete) ==
    /\ proc /\ killed' = FALSE /\ UNCHANGED killTimer
    /\ \/ intentionalStop /\ CompleteIntentionalStop(found, complete)
       \/ /\ ~intentionalStop /\ state' = "Crashed" /\ proc' = FALSE
          /\ UNCHANGED <<intentionalStop, pendingRestart, session>>

(* onProcessFinished: the process ends, on its own or killed.  An end that *)
(* was not meant is Crashed whatever the exit code.                        *)
OnProcessFinished(found, complete) ==
    /\ proc /\ killed' = FALSE /\ killTimer' = FALSE
    /\ \/ intentionalStop /\ CompleteIntentionalStop(found, complete)
       \/ /\ ~intentionalStop /\ state' = "Crashed" /\ proc' = FALSE
          /\ UNCHANGED <<intentionalStop, pendingRestart, session>>

(* shutdown and the constructor of the next run of OBS, or an end of OBS   *)
(* without shutdown: what was supervised is forgotten.                     *)
Shutdown ==
    /\ state' = "Idle" /\ UNCHANGED session
    /\ proc' = FALSE /\ intentionalStop' = FALSE /\ pendingRestart' = FALSE
    /\ killTimer' = FALSE /\ killed' = FALSE

ProcessNext ==
    \/ \E found, complete \in BOOLEAN :
          \/ Start(found, complete)
          \/ RestartRelay(found, complete)
          \/ OnProcessFinished(found, complete)
    \/ TerminateFallback
    \/ Shutdown

ProcessSpec == ProcessInit /\ [][ProcessNext]_pvars
-----------------------------------------------------------------------------
ProcessTypeOK ==
    /\ state \in {"Idle", "Running", "Stopping", "Crashed", "FailedToStart"}
    /\ proc \in BOOLEAN /\ killTimer \in BOOLEAN /\ killed \in BOOLEAN
    /\ intentionalStop \in BOOLEAN /\ pendingRestart \in BOOLEAN
    /\ session \in Nat

(* What the dock is shown is what the process does: Running exactly with a *)
(* process nobody asked to end, Stopping exactly with one that was.        *)
StateIsProcess ==
    /\ state = "Running" <=> (proc /\ ~intentionalStop)
    /\ state = "Stopping" <=> (proc /\ intentionalStop)

(* A stop ends in a kill if need be, and is followed by the restart.  The  *)
(* timer of a stop never outlives it: it cannot kill the next relay.       *)
StopIsForced ==
    /\ (killTimer \/ killed) <=> intentionalStop
    /\ intentionalStop <=> pendingRestart
    /\ intentionalStop => proc

SupervisorSound == StateIsProcess /\ StopIsForced

Life == INSTANCE RelayLife WITH life <- state

(* The supervisor behaves as RelayLife promises (the refinement).          *)
LifeSteps == Life!Spec
=============================================================================
