----------------------------- MODULE RelayClient -----------------------------
(***************************************************************************)
(* RelayClient (relay-client.cpp): the link to the relay, the poll of its  *)
(* health and then its status, and the control requests.  A reply is       *)
(* delivered some time after the relay has answered; requests overlap, and *)
(* their replies come in any order, also after the relay they were sent to *)
(* is gone.  What the dock does with them is in Dock.  The token is set    *)
(* before the relay runs, so a request carries that of the session.  The   *)
(* event socket is RelayEventSocket: nothing comes from it.                *)
(***************************************************************************)
EXTENDS EngineStatus

CONSTANT Slots    \* bound on the polls that overlap

VARIABLES
    session,      \* the session of the relay process, from RelayLife
    accepting,    \* accepting_traffic_; the poll timer runs exactly then
    link,         \* link_state_
    polls,        \* the chains health-then-status that are under way
    controls      \* the control requests that are

clientvars == <<accepting, link, polls, controls>>

Idle == [at |-> "idle"]
Sent(to) == [at |-> "status", to |-> to]
Foreign == [at |-> "foreign"]      \* sent to a stranger on the relay's port
Denied == [at |-> "denied"]
Lost == [at |-> "lost"]
Answered(phase, time) == [at |-> "answered", phase |-> phase, time |-> time]
Control(op, to) == [op |-> op, to |-> to]
Done(phase, time) == [op |-> "done", phase |-> phase, time |-> time]

ClientInit ==
    /\ accepting = FALSE /\ link = "Disconnected"
    /\ polls = [s \in Slots |-> Idle] /\ controls = {}

Goes(s, stage) == polls' = [polls EXCEPT ![s] = stage]

(* A reply that comes while the traffic is suspended changes nothing.      *)
Dropped(s) ==
    /\ ~accepting /\ polls[s].at \in {"answered", "denied", "lost"}
    /\ Goes(s, Idle) /\ UNCHANGED <<accepting, link, controls>>

(* Mutant: a reply is handled although the traffic is suspended.           *)
Open_Always == TRUE

(* What pollHealth, handleHealthReply and handleStatusReply ask first.     *)
Open == accepting

(* pollHealth, from the timer and from resumeTraffic, with its reply: no   *)
(* relay, a relay in ERROR, or fetchStatus.  A reply that comes late is no *)
(* different from an early one, or is lost like that of fetchStatus.       *)
HealthFails(s, to) ==
    /\ Open /\ polls[s] = Idle
    /\ \/ engine = "off" /\ to = "Disconnected"
       \/ engine = "error" /\ to = "Unhealthy"
    /\ link' = to /\ UNCHANGED <<accepting, polls, controls>>

FetchStatus(s) ==
    /\ Open /\ polls[s] = Idle /\ engine \notin {"off", "error"} /\ Goes(s, Sent(session))
    /\ UNCHANGED <<accepting, link, controls>>

(* Something else answers on the port, a relay that OBS left behind when   *)
(* it crashed: it is healthy, and knows another token.                     *)
FetchForeign(s) ==
    /\ Open /\ polls[s] = Idle /\ engine = "off" /\ Goes(s, Foreign)
    /\ UNCHANGED <<accepting, link, controls>>

(* The answer to a status request is on its way, or there will be none.    *)
StatusAnswered(s) ==
    /\ \/ /\ polls[s].at = "status"
          /\ Goes(s, IF engine # "off" /\ polls[s].to = session
                        THEN Answered(engine, stamp) ELSE Lost)
       \/ polls[s] = Foreign /\ Goes(s, Denied)
    /\ UNCHANGED <<accepting, link, controls>>

(* handleStatusReply.                                                      *)
StatusFails(s, to) ==
    /\ Open /\ Goes(s, Idle)
    /\ \/ polls[s] = Lost /\ to = "Disconnected"
       \/ polls[s] = Denied /\ to = "AuthFailed"
    /\ link' = to /\ UNCHANGED <<accepting, controls>>

StatusArrives(s) ==
    /\ Open /\ polls[s].at = "answered" /\ Goes(s, Idle)
    /\ link' = "Connected" /\ UNCHANGED accepting

(* postControl: not without a link.                                        *)
Posted(op) == IF link = "Connected" THEN {Control(op, session)} ELSE {}

(* The relay accepts a request, or refuses it, or is gone; a refusal and   *)
(* an error are shown and nothing more.                                    *)
ControlAccepted(c) ==
    /\ c \in controls /\ c.op # "done" /\ engine # "off" /\ c.to = session /\ Accept(c.op)
    /\ controls' = (controls \ {c}) \cup {Done(engine', stamp')}
    /\ UNCHANGED <<accepting, link, polls>>

ControlRefused(c) ==
    /\ c \in controls /\ c.op # "done"
    /\ engine = "off" \/ c.to # session \/ engine # Begins[c.op][1]
    /\ controls' = controls \ {c}
    /\ UNCHANGED <<accepting, link, polls>>

(* suspendTraffic, and resumeTraffic for a relay that now runs.            *)
SetTraffic(on) ==
    /\ accepting' = on /\ link' = "Disconnected" /\ UNCHANGED <<polls, controls>>
-----------------------------------------------------------------------------
ClientTypeOK ==
    /\ accepting \in BOOLEAN
    /\ link \in {"Disconnected", "Unhealthy", "AuthFailed", "Connected"}
    /\ DOMAIN polls = Slots
    /\ \A s \in Slots :
          \/ polls[s] \in {Idle, Foreign, Denied, Lost}
          \/ polls[s].at = "status" /\ polls[s].to \in 1..session
          \/ polls[s].at = "answered" /\ polls[s].phase \in Phase /\ polls[s].time \in 1..stamp
    /\ \A c \in controls : \/ c.op \in DOMAIN Begins /\ c.to \in 1..session
                           \/ c.op = "done" /\ c.phase \in Phase /\ c.time \in 1..stamp
=============================================================================
