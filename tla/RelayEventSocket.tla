-------------------------- MODULE RelayEventSocket --------------------------
(***************************************************************************)
(* The event socket of the plugin (relay-event-socket.cpp), what           *)
(* RelayClient does with it, and the events handler of the relay at the    *)
(* other end (internal/api/events.go).  The client opens it on every       *)
(* status that arrives and 2 s after it was disconnected.  TCP delivers    *)
(* what the relay sends in order, in pieces of any size; a response or a   *)
(* frame is one element here: the bytes of one that is not complete stay   *)
(* in read_buffer_ and change nothing.                                     *)
(***************************************************************************)
EXTENDS Sequences, Integers, FiniteSetsExt

CONSTANTS
    MaxWire,      \* bound on what the relay sends before it is read
    MaxBreaks     \* bound on the connections that fail or are closed by the relay

VARIABLES
    accepting,    \* running_ and accepting_traffic_ of the client
    linked,       \* link_state_ is Connected
    retry,        \* ws_reconnect_timer_ is active
    tcp,          \* state of socket_
    request,      \* the request line's target that the relay has to answer; <<>> is none
    wire,         \* sent by the relay and not read
    subscribed,   \* the relay has a subscriber at the other end of this connection
    shaken,       \* handshake_complete_
    heard,        \* the last readyRead emitted a status
    breaks        \* what has failed already (ghost)

socketvars == <<tcp, request, wire, subscribed, shaken>>
vars == <<accepting, linked, retry, socketvars, heard, breaks>>

Init ==
    /\ accepting = TRUE /\ linked = FALSE /\ retry = FALSE
    /\ tcp = "unconnected" /\ request = <<>> /\ wire = <<>> /\ subscribed = FALSE
    /\ shaken = FALSE /\ heard = FALSE /\ breaks = 0

(* webSocketUrl.                                                           *)
Url == [path |-> <<"/v1/events">>, query |-> <<"token">>]

(* What sendHandshake puts into the request line.                          *)
Target == Url.path \o Url.query

(* How net/http reads it: the query begins after a question mark.          *)
PathOf(target) ==
    LET marks == {i \in DOMAIN target : target[i] = "?"}
    IN IF marks = {} THEN target ELSE SubSeq(target, 1, Min(marks) - 1)

(* The connection as it is after it was closed; disconnected is emitted if *)
(* there was one, and sets the timer if the client has a link then.        *)
Closed(to, hadLink, running) ==
    /\ tcp' = to /\ request' = <<>> /\ wire' = <<>> /\ subscribed' = FALSE
    /\ shaken' = FALSE
    /\ retry' = (running \/ (tcp = "connected" /\ hadLink))
-----------------------------------------------------------------------------
(* The end of handleStatusReply: connectEvents aborts what there is and    *)
(* opens a new connection.                                                 *)
StatusArrives ==
    /\ accepting /\ linked' = TRUE /\ Closed("connecting", TRUE, retry)
    /\ UNCHANGED <<accepting, heard, breaks>>

(* A failed poll: disconnectEvents, while the link is still shown.         *)
LinkFails ==
    /\ accepting /\ linked' = FALSE /\ Closed("unconnected", linked, FALSE)
    /\ UNCHANGED <<accepting, heard, breaks>>

SuspendTraffic ==
    /\ accepting' = FALSE /\ linked' = FALSE /\ Closed("unconnected", FALSE, FALSE)
    /\ UNCHANGED <<heard, breaks>>

ResumeTraffic ==
    /\ ~accepting /\ accepting' = TRUE
    /\ UNCHANGED <<linked, retry, socketvars, heard, breaks>>

(* ws_reconnect_timer_ calls connectEvents.                                *)
Reconnect ==
    /\ retry /\ UNCHANGED <<accepting, linked, heard, breaks>>
    /\ \/ linked /\ Closed("connecting", TRUE, FALSE)
       \/ ~linked /\ retry' = FALSE /\ UNCHANGED socketvars
-----------------------------------------------------------------------------
SendHandshake ==
    /\ tcp = "connecting" /\ tcp' = "connected" /\ request' = Target
    /\ UNCHANGED <<accepting, linked, retry, wire, subscribed, shaken, heard, breaks>>

Break == breaks < MaxBreaks /\ breaks' = breaks + 1

(* The port is closed: errorOccurred, which nobody listens to.             *)
ConnectFails ==
    /\ tcp = "connecting" /\ tcp' = "unconnected" /\ Break
    /\ UNCHANGED <<accepting, linked, retry, request, wire, subscribed, shaken, heard>>

(* The relay's mux: handleEvents, or no such page.                         *)
HandleEvents ==
    /\ request # <<>> /\ request' = <<>>
    /\ \/ /\ PathOf(request) = Url.path
          /\ wire' = Append(wire, "101") /\ subscribed' = TRUE
       \/ /\ PathOf(request) # Url.path
          /\ wire' = Append(wire, "404") /\ UNCHANGED subscribed
    /\ UNCHANGED <<accepting, linked, retry, tcp, shaken, heard, breaks>>

Publish ==
    /\ subscribed /\ Len(wire) < MaxWire
    /\ \E frame \in {"text", "other"} : wire' = Append(wire, frame)
    /\ UNCHANGED <<accepting, linked, retry, tcp, request, subscribed, shaken, heard, breaks>>

(* The relay closes the connection, with a close frame or without.         *)
RelayCloses ==
    /\ Break
    /\ \/ /\ subscribed /\ subscribed' = FALSE /\ wire' = Append(wire, "close")
          /\ UNCHANGED <<accepting, linked, retry, tcp, request, shaken, heard>>
       \/ /\ tcp = "connected" /\ Closed("unconnected", linked, retry)
          /\ UNCHANGED <<accepting, linked, heard>>

(* onReadyRead: the handshake, then parseFrames as long as there is one.   *)
OnReadyRead(n) ==
    LET data == SubSeq(wire, 1, n)
        frames == IF shaken THEN data ELSE Tail(data)
        closing == \E i \in DOMAIN frames : frames[i] = "close"
    IN /\ tcp = "connected"
       /\ heard' = \E i \in DOMAIN frames :
                      frames[i] = "text" /\ (\A j \in 1..i : frames[j] # "close")
       /\ \/ (Head(data) = "404" \/ closing) /\ Closed("unconnected", linked, retry)
          \/ /\ Head(data) # "404" /\ ~closing
             /\ shaken' = TRUE /\ retry' = (retry /\ shaken)
             /\ wire' = SubSeq(wire, n + 1, Len(wire))
             /\ UNCHANGED <<tcp, request, subscribed>>
       /\ UNCHANGED <<accepting, linked, breaks>>

ReadyRead == \E n \in 1..Len(wire) : OnReadyRead(n)
-----------------------------------------------------------------------------
Next ==
    \/ StatusArrives \/ LinkFails \/ SuspendTraffic \/ ResumeTraffic \/ Reconnect
    \/ SendHandshake \/ ConnectFails \/ HandleEvents \/ Publish \/ RelayCloses \/ ReadyRead

(* A link that stays up is one whose polls go on, each of them answered.   *)
(* The steps of a handshake on the loopback interface take far less than   *)
(* the 3 s between two polls, which would interrupt it.                    *)
Fairness ==
    /\ WF_vars(Reconnect) /\ WF_vars(StatusArrives)
    /\ SF_vars(SendHandshake) /\ SF_vars(HandleEvents) /\ SF_vars(ReadyRead)

Spec == Init /\ [][Next]_vars /\ Fairness
-----------------------------------------------------------------------------
(* The relay publishes its changes at /v1/events?token=..., and the plugin *)
(* opens that: a client whose link stays up is subscribed in the end.      *)
EventsHeard == <>[]linked => <>shaken
=============================================================================
