--------------------------- MODULE StreamingGuard ---------------------------
(***************************************************************************)
(* A stream of OBS from the operator's click to its end, as the frontend   *)
(* events tell of it, and StreamingGuard (streaming-guard.cpp), which      *)
(* checks before each stream and stops one whose check failed.  The events *)
(* of OBS come in the order STARTING, STARTED, STOPPING, STOPPED; a stream *)
(* that cannot connect, or loses its connection for good, is STOPPED at    *)
(* once.  What QTimer::singleShot(0) queues runs before the operator can   *)
(* do anything else, but may run after replies and other events.           *)
(***************************************************************************)
EXTENDS Sequences

VARIABLES
    stream,     \* where the stream of OBS is
    block,      \* block_next_stream_
    queued,     \* queued calls: blockActiveStream, maybeAutoEnableDelay
    frames,     \* the nested event loops, the innermost first
    failed      \* the check of this stream failed (ghost)

guardvars == <<stream, block, queued, frames, failed>>

(* obs_frontend_streaming_active; also while OBS reconnects.               *)
Active == stream \in {"connected", "live", "stopping"}

Preflight == [kind |-> "preflight"]

GuardInit ==
    /\ stream = "off" /\ block = FALSE /\ queued = {} /\ frames = <<>> /\ failed = FALSE

(* STREAMING_STARTING.  runPreflight returns at once if the relay does not *)
(* run; else it asks for the health of the relay in an event loop of its   *)
(* own.                                                                    *)
Starting(relayRuns) ==
    /\ stream = "off" /\ queued = {}
    /\ UNCHANGED queued
    /\ \/ /\ relayRuns /\ stream' = "preflight" /\ frames' = <<Preflight>> \o frames
          /\ UNCHANGED <<block, failed>>
       \/ /\ ~relayRuns /\ stream' = "connecting" /\ block' = TRUE /\ failed' = TRUE
          /\ UNCHANGED frames

(* Mutant: a failed check is only ever added to block_next_stream_.        *)
Verdict_Sticky(ok) == block' = (block \/ ~ok)

(* block_next_stream_ = !result.ok                                         *)
Verdict(ok) == block' = ~ok

(* The loop ends with the answer or after kHealthTimeoutMs, once no loop   *)
(* runs inside it; OBS goes on to connect in any case.                     *)
PreflightEnds(ok) ==
    /\ frames # <<>> /\ Head(frames) = Preflight /\ frames' = Tail(frames)
    /\ stream' = "connecting" /\ Verdict(ok) /\ failed' = ~ok
    /\ UNCHANGED queued

Connects ==
    /\ stream = "connecting" /\ stream' = "connected"
    /\ UNCHANGED <<block, queued, frames, failed>>

(* Mutant: the flag is taken, and the stop is not queued.                  *)
Started_Unqueued ==
    /\ stream = "connected" /\ stream' = "live"
    /\ queued' = queued \cup {"auto"} /\ block' = FALSE
    /\ UNCHANGED <<frames, failed>>

(* STREAMING_STARTED: the dock's handler, then the guard's.                *)
Started ==
    /\ stream = "connected" /\ stream' = "live"
    /\ queued' = queued \cup {"auto"} \cup {q \in {"block"} : block}
    /\ block' = FALSE
    /\ UNCHANGED <<frames, failed>>

(* blockActiveStream, and the STOPPING it causes.                          *)
BlockActiveStream ==
    /\ "block" \in queued /\ queued' = queued \ {"block"}
    /\ stream' = IF Active THEN "stopping" ELSE stream
    /\ UNCHANGED <<block, frames, failed>>

(* STREAMING_STOPPING on the operator's click.                             *)
Stops ==
    /\ stream = "live" /\ queued = {} /\ stream' = "stopping"
    /\ UNCHANGED <<block, queued, frames, failed>>

(* STREAMING_STOPPED.                                                      *)
Stopped ==
    /\ stream \in {"connecting", "live", "stopping"} /\ stream' = "off" /\ failed' = FALSE
    /\ UNCHANGED <<block, queued, frames>>
-----------------------------------------------------------------------------
(* A stop that is queued, or will be when the stream has started, is meant *)
(* for the stream it meets: the check of that very stream failed.          *)
GuardSpares ==
    Active /\ (block \/ "block" \in queued) => failed

(* A stream whose check failed does not stay on the air, although OBS has  *)
(* no way to refuse it and the guard can only stop it once it has started. *)
BlockedStreamEnds == (failed /\ stream = "live") ~> stream = "off"
=============================================================================
