-------------------------------- MODULE Dock --------------------------------
(***************************************************************************)
(* The dock (delaydeck-dock.cpp) on the one thread it shares with the      *)
(* relay client, the slate scenes and the streaming guard; with the relay  *)
(* process as RelayLife promises it (RelayProcess implements that) and the *)
(* engine as EngineStatus reports it.  One action is the whole handling of *)
(* a signal or a click, up to a question to the operator or a nested loop. *)
(* Both slate scenes are configured.  Labels, errors and the countdown are *)
(* left out: nothing but the display depends on them.                      *)
(***************************************************************************)
EXTENDS SlateScene, RelayClient, StreamingGuard

CONSTANT Budgets     \* the instances: what may happen how often, and how the mode is set at first

ASSUME DockAssumption == \A b \in Budgets : b.delayed \in BOOLEAN

VARIABLES
    life,           \* process_state_
    state,          \* relay_state_
    pending,        \* transition_pending_
    seen,           \* last_status_updated_at_ms_; 0 is none
    toggle,         \* delay_toggle_ is checked
    canToggle,      \* delay_toggle_ is enabled
    startDelayed,   \* start_with_delay_
    autoTriggered,  \* auto_delay_triggered_
    autoPosts,      \* requests of maybeAutoEnableDelay in this stream (ghost)
    budget          \* what may still happen (ghost)

shownvars == <<state, pending, seen, toggle, canToggle>>
modevars == <<startDelayed, autoTriggered, autoPosts>>
dockvars == <<life, shownvars, modevars>>
vars == <<slatevars, evars, session, clientvars, guardvars, dockvars, budget>>

Relay == INSTANCE RelayLife

Spend(what) == budget[what] > 0 /\ budget' = [budget EXCEPT ![what] = @ - 1]

IsTransition(s) == s \in {"BUFFERING_TO_DELAY", "SAFE_HOLD", "RETURNING_TO_REALTIME", "DUMPING"}

(* canOperateDelayToggle.                                                  *)
CanOperate(linked, s, p) ==
    /\ linked = "Connected" /\ life = "Running"
    /\ Active => ~p /\ s \in {"REALTIME", "DELAYED"}

(* delayToggleCheckedForStatus.                                            *)
Checked(status) ==
    CASE status.state \in {"DELAYED", "BUFFERING_TO_DELAY"} -> TRUE
      [] status.state \in {"RETURNING_TO_REALTIME", "DUMPING"} -> FALSE
      [] status.state = "SAFE_HOLD" /\ status.slate # "none" -> status.slate = "enable"
      [] OTHER -> startDelayed

Init ==
    /\ budget \in Budgets
    /\ Relay!Init /\ engine = "off" /\ stamp = 1
    /\ SlateInit /\ ClientInit /\ GuardInit
    /\ state = "" /\ pending = FALSE /\ seen = 0 /\ canToggle = FALSE
    /\ startDelayed = budget.delayed /\ toggle = startDelayed
    /\ autoTriggered = FALSE /\ autoPosts = 0
-----------------------------------------------------------------------------
(* Mutant: a status of the millisecond of the last one is dropped.         *)
Older_OrSame(time) == time <= seen

(* A status with an earlier updatedAt than the last one is dropped.        *)
Older(time) == time < seen

(* maybeAutoEnableDelay, when the dock shows s and p.                      *)
AutoDue(s, p) ==
    /\ startDelayed /\ ~autoTriggered /\ Active
    /\ link = "Connected" /\ s = "REALTIME" /\ ~p

AutoEnable(due, rest) ==
    \/ /\ due /\ controls' = rest \cup Posted("enable")
       /\ autoTriggered' = TRUE /\ autoPosts' = autoPosts + 1
    \/ ~due /\ controls' = rest /\ UNCHANGED <<autoTriggered, autoPosts>>

(* applyStatus, and applyLinkState if the link has just been connected.    *)
ApplyStatus(phase, time, rest) ==
    LET status == Reported[phase] IN
    /\ UNCHANGED startDelayed
    /\ \/ /\ Older(time) /\ controls' = rest
          /\ UNCHANGED <<slatevars, state, pending, seen, autoTriggered, autoPosts>>
          /\ \/ link' = link /\ UNCHANGED <<toggle, canToggle>>
             \/ /\ link' # link /\ toggle' = startDelayed
                /\ canToggle' = CanOperate(link', state, pending)
       \/ /\ ~Older(time) /\ SlateStatus(status)
          /\ state' = status.state /\ pending' = status.pending /\ seen' = time
          /\ toggle' = IF link' = link THEN Checked(status) ELSE startDelayed
          /\ canToggle' = CanOperate(link', status.state, status.pending)
          /\ AutoEnable(AutoDue(status.state, status.pending), rest)

(* Mutant: the pending flag of a relay that is gone is kept.               *)
ApplyLinkDown_KeepsPending ==
    IF link' = link THEN UNCHANGED <<slatevars, shownvars>>
    ELSE /\ state' = "" /\ seen' = 0 /\ UNCHANGED pending
         /\ toggle' = startDelayed /\ canToggle' = FALSE
         /\ ForgetSlate

(* applyLinkState for a link that is not connected, if that is new.        *)
ApplyLinkDown ==
    IF link' = link THEN UNCHANGED <<slatevars, shownvars>>
    ELSE /\ state' = "" /\ pending' = FALSE /\ seen' = 0
         /\ toggle' = startDelayed /\ canToggle' = FALSE
         /\ ForgetSlate

Client == UNCHANGED <<evars, session, guardvars, life, budget>>

Drop(s) == Dropped(s) /\ Client /\ UNCHANGED <<slatevars, shownvars, modevars>>

PollHealth(s) ==
    /\ s <= budget.overlap
    /\ \/ /\ \E to \in {"Disconnected", "Unhealthy"} : HealthFails(s, to)
          /\ ApplyLinkDown /\ Client /\ UNCHANGED modevars
       \/ FetchStatus(s) /\ Client /\ UNCHANGED <<slatevars, shownvars, modevars>>
       \/ /\ FetchForeign(s) /\ Spend("foreign")
          /\ UNCHANGED <<evars, session, guardvars, slatevars, dockvars>>

AnswerStatus(s) == StatusAnswered(s) /\ Client /\ UNCHANGED <<slatevars, shownvars, modevars>>

HandleStatusReply(s) ==
    /\ Client
    /\ \/ /\ \E to \in {"Disconnected", "AuthFailed"} : StatusFails(s, to)
          /\ ApplyLinkDown /\ UNCHANGED modevars
       \/ StatusArrives(s) /\ ApplyStatus(polls[s].phase, polls[s].time, controls)

AnswerControl(c) ==
    /\ \/ ControlAccepted(c)
       \/ ControlRefused(c) /\ UNCHANGED evars
    /\ UNCHANGED <<session, guardvars, slatevars, dockvars, budget>>

(* handleControlReply asks neither for traffic nor for a link.             *)
HandleControlReply(c) ==
    /\ c \in controls /\ c.op = "done"
    /\ UNCHANGED <<accepting, link, polls>> /\ ApplyStatus(c.phase, c.time, controls \ {c})
    /\ Client
-----------------------------------------------------------------------------
(* applyProcessState for every state but Running suspends the traffic; so  *)
(* does onRestartRelayClicked before it.  A start passes through Starting, *)
(* then Running resumes the traffic.                                       *)
ProcessStep ==
    /\ SetTraffic(life' = "Running") /\ ApplyLinkDown
    /\ UNCHANGED <<stamp, guardvars, modevars>>

RelayStarts ==
    /\ Spend("starts") /\ Relay!Start /\ engine' = "off" /\ ProcessStep

RelayStops ==
    /\ budget.starts > 0 /\ Relay!Stop /\ ProcessStep /\ UNCHANGED <<engine, budget>>

RelayDies ==
    /\ budget.starts > 0 /\ Relay!Die /\ engine' = "off" /\ ProcessStep /\ UNCHANGED budget

Engine == UNCHANGED <<session, clientvars, guardvars, slatevars, dockvars>>

EngineBoots == life = "Running" /\ Boot /\ Engine /\ UNCHANGED budget
EngineGoesOn ==
    /\ Continue /\ Engine
    /\ IF stamp' = stamp THEN Spend("hasty") ELSE UNCHANGED budget
EnginePublishes == Active /\ SessionBegins /\ Engine /\ UNCHANGED budget
EngineEnds == (engine = "error" \/ ~Active) /\ SessionEnds /\ Engine /\ UNCHANGED budget
EngineFails == Spend("foreign") /\ Fail /\ Engine
-----------------------------------------------------------------------------
Unguarded == UNCHANGED <<evars, session, clientvars, slatevars, life, shownvars>>

(* Mutant: auto_delay_triggered_ is reset when the stream begins to stop.  *)
StreamOver_AtStopping ==
    /\ autoTriggered' = (autoTriggered /\ stream' # "stopping")
    /\ UNCHANGED <<startDelayed, autoPosts>>

(* handleFrontendEvent: STREAMING_STOPPED resets auto_delay_triggered_.    *)
StreamOver ==
    /\ autoTriggered' = (autoTriggered /\ stream' # "off")
    /\ UNCHANGED <<startDelayed, autoPosts>>

StreamStarting ==
    /\ Spend("streams") /\ Starting(life = "Running") /\ Unguarded
    /\ autoPosts' = 0 /\ UNCHANGED <<startDelayed, autoTriggered>>

(* run: the health of the relay, its ingest port, and checks of settings   *)
(* of OBS that may fail at any time.                                       *)
PreflightReturns(ok) ==
    /\ ok => engine \notin {"off", "error"}
    /\ PreflightEnds(ok) /\ Unguarded /\ UNCHANGED <<modevars, budget>>

StreamSteps ==
    \/ Connects \/ Started \/ BlockActiveStream \/ Stops \/ Stopped

StreamMoves == StreamSteps /\ StreamOver /\ Unguarded /\ UNCHANGED budget

AutoAfterStart ==
    /\ "auto" \in queued /\ queued' = queued \ {"auto"}
    /\ AutoEnable(AutoDue(state, pending), controls)
    /\ UNCHANGED <<evars, session, accepting, link, polls, slatevars, life, shownvars,
                   startDelayed, stream, block, frames, failed, budget>>
-----------------------------------------------------------------------------
(* The questions of the dock are modal: one at a time.                     *)
NoQuestion == \A i \in DOMAIN frames : frames[i] = Preflight

Question(frame) ==
    /\ Spend("clicks") /\ queued = {} /\ NoQuestion /\ frames' = <<frame>> \o frames
    /\ UNCHANGED <<stream, block, queued, failed>>
    /\ UNCHANGED <<evars, session, clientvars, slatevars, life, modevars, state, pending, seen,
                   canToggle>>

(* onDelayToggleChanged up to its question.  refreshSceneSelectors may     *)
(* have enabled the toggle since the last status.                          *)
ClickToggle ==
    /\ canToggle \/ CanOperate(link, state, pending)
    /\ toggle' = ~toggle
    /\ Question([kind |-> "toggle", checked |-> ~toggle, streaming |-> Active,
                 busy |-> pending \/ IsTransition(state)])

ClickDump ==
    /\ link = "Connected" /\ life = "Running"
    /\ UNCHANGED toggle /\ Question([kind |-> "dump"])

Replied ==
    /\ frames' = Tail(frames) /\ queued = {}
    /\ UNCHANGED <<evars, session, accepting, link, polls, slatevars, life, state, pending, seen,
                   canToggle, stream, block, queued, failed, autoPosts, budget>>

Asked(kind) == frames # <<>> /\ Head(frames).kind = kind

AnswerNo ==
    /\ \/ Asked("toggle") /\ toggle' = ~Head(frames).checked
       \/ Asked("dump") /\ UNCHANGED toggle
    /\ Replied /\ UNCHANGED <<startDelayed, autoTriggered, controls>>

(* onDelayToggleChanged after its question: what it found before it, and   *)
(* what the dock shows now.                                                *)
AnswerToggle ==
    LET asked == Head(frames)
        now == asked.streaming /\ link = "Connected" /\ ~asked.busy
        enable == now /\ asked.checked /\ state = "REALTIME"
        return == now /\ ~asked.checked /\ state = "DELAYED"
    IN /\ Asked("toggle") /\ startDelayed' = asked.checked
       /\ controls' = controls \cup (IF enable THEN Posted("enable") ELSE {})
                               \cup (IF return THEN Posted("return") ELSE {})
       /\ autoTriggered' = (autoTriggered \/ enable)
       /\ Replied /\ UNCHANGED toggle

AnswerDump ==
    /\ Asked("dump") /\ startDelayed' = FALSE /\ toggle' = FALSE
    /\ controls' = controls \cup Posted("dump")
    /\ Replied /\ UNCHANGED autoTriggered

OperatorSwitchesScene ==
    /\ Spend("switches") /\ queued = {} /\ (\E to \in Scenes : OperatorSwitches(to))
    /\ UNCHANGED <<evars, session, clientvars, guardvars, dockvars>>
-----------------------------------------------------------------------------
PollChain(s) ==
    PollHealth(s) \/ Drop(s) \/ AnswerStatus(s) \/ HandleStatusReply(s)

ControlSteps == \E c \in controls : AnswerControl(c) \/ HandleControlReply(c)

(* What OBS and the event queue owe.                                       *)
Owed == AutoAfterStart \/ ((stream # "live" \/ "block" \in queued) /\ stream # "connecting"
                              /\ StreamMoves)

Next ==
    \/ (\E s \in Slots : PollChain(s)) \/ ControlSteps
    \/ RelayStarts \/ RelayStops \/ RelayDies
    \/ EngineBoots \/ EngineGoesOn \/ EnginePublishes \/ EngineEnds \/ EngineFails
    \/ StreamStarting \/ StreamMoves \/ AutoAfterStart
    \/ \E ok \in BOOLEAN : PreflightReturns(ok)
    \/ ClickToggle \/ ClickDump \/ AnswerNo \/ AnswerToggle \/ AnswerDump
    \/ OperatorSwitchesScene

(* Timers fire, requests end, queued calls run, OBS carries on with the    *)
(* events it owes, a stop of the relay ends (RestartEnds of RelaySettings) *)
(* and a relay that runs listens.  The operator owes nothing.              *)
Fairness ==
    /\ \A s \in Slots : WF_vars(PollChain(s))
    /\ WF_vars(ControlSteps) /\ WF_vars(Owed)
    /\ WF_vars(EngineBoots) /\ WF_vars(life = "Stopping" /\ RelayStarts)

Spec == Init /\ [][Next]_vars /\ Fairness
-----------------------------------------------------------------------------
(* The types; and the flags of the dock agree: a transition is pending     *)
(* only in a status that is shown, and at most two nested loops run, a     *)
(* question to the operator and the preflight.                             *)
DockTypeOK ==
    /\ SlateTypeOK /\ ClientTypeOK
    /\ engine \in Phase \cup {"off"} /\ stamp \in Nat /\ session \in Nat
    /\ life \in {"Idle", "Running", "Stopping", "Crashed", "FailedToStart"}
    /\ stream \in {"off", "preflight", "connecting", "connected", "live", "stopping"}
    /\ state \in {""} \cup {Reported[p].state : p \in Phase}
    /\ queued \subseteq {"auto", "block"} /\ Len(frames) <= 2
    /\ pending => state # "" /\ seen > 0
    /\ autoTriggered \in BOOLEAN /\ startDelayed \in BOOLEAN /\ seen \in 0..stamp

(* The dock never shows a link to a relay that does not run, whatever      *)
(* replies are still under way from the time it did.                       *)
ConnectedRuns == link = "Connected" => life = "Running" /\ accepting

(* The dock asks for the delay on its own at most once in a stream,        *)
(* however its statuses and the events of OBS interleave.                  *)
AutoOnce == autoPosts <= 1

(* What the dock should show of the engine.                                *)
Agrees ==
    CASE engine = "off" -> link = "Disconnected"
      [] engine = "error" -> link = "Unhealthy"
      [] OTHER -> /\ link = "Connected" /\ state = Reported[engine].state
                  /\ pending = Reported[engine].pending
                  /\ frames = <<>> => toggle = Checked(Reported[engine])
                  /\ ~IsTransition(state) => ~active

(* Once the relay runs and things have calmed down, the dock shows what    *)
(* the engine does and has given the scene back, although replies overtake *)
(* each other and changes may share a millisecond.                         *)
DockCatchesUp == <>[](life = "Running" => Agrees)
=============================================================================
