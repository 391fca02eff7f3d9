---------------------------- MODULE Dock_proofs ----------------------------
(***************************************************************************)
(* Theorems about Dock, for any scenes, any number of overlapping polls    *)
(* and any bounds on what happens.  Each invariant is about a few of the   *)
(* variables: a lemma says what any step may do to those, and the          *)
(* strengthened invariant is shown to survive each kind of step.           *)
(***************************************************************************)
EXTENDS Dock, TLAPS

-----------------------------------------------------------------------------
(* The slate.  While it is on, what will be restored is home, or home is   *)
(* already on the programme: unless the slate was forgotten before.        *)
SlateInv ==
    /\ active => controlled \in Slates
    /\ home \in Scenes /\ active \in BOOLEAN /\ left \in BOOLEAN
    /\ active /\ ~left => IF scene = controlled THEN previous = home ELSE scene = home
    /\ ~active /\ ~left => scene = home

(* What a step may do to the scenes: nothing, forget the slate, handle a   *)
(* status, or be the operator's.                                           *)
LEMMA SlateSteps ==
    ASSUME [Next]_vars
    PROVE  \/ UNCHANGED slatevars
           \/ ForgetSlate
           \/ \E status : SlateStatus(status)
           \/ \E to \in Scenes : OperatorSwitches(to)
<1>1. CASE UNCHANGED vars
  BY <1>1 DEF vars
<1>2. CASE \E s \in Slots : PollChain(s)
  <2> PICK s \in Slots : PollChain(s)
    BY <1>2
  <2>1. CASE PollHealth(s)
    BY <2>1 DEF PollHealth, ApplyLinkDown
  <2>2. CASE Drop(s)
    BY <2>2 DEF Drop
  <2>3. CASE AnswerStatus(s)
    BY <2>3 DEF AnswerStatus
  <2>4. CASE HandleStatusReply(s)
    BY <2>4 DEF HandleStatusReply, ApplyLinkDown, ApplyStatus
  <2> QED
    BY <2>1, <2>2, <2>3, <2>4 DEF PollChain
<1>3. CASE ControlSteps
  <2> PICK c \in controls : AnswerControl(c) \/ HandleControlReply(c)
    BY <1>3 DEF ControlSteps
  <2>1. CASE AnswerControl(c)
    BY <2>1 DEF AnswerControl
  <2>2. CASE HandleControlReply(c)
    BY <2>2 DEF HandleControlReply, ApplyStatus
  <2> QED
    BY <2>1, <2>2
<1>4. CASE RelayStarts \/ RelayStops \/ RelayDies
  BY <1>4 DEF RelayStarts, RelayStops, RelayDies, ProcessStep, ApplyLinkDown
<1>5. CASE EngineBoots \/ EngineGoesOn \/ EnginePublishes \/ EngineEnds \/ EngineFails
  BY <1>5 DEF EngineBoots, EngineGoesOn, EnginePublishes, EngineEnds, EngineFails, Engine
<1>6. CASE StreamStarting \/ StreamMoves \/ \E ok \in BOOLEAN : PreflightReturns(ok)
  BY <1>6 DEF StreamStarting, StreamMoves, PreflightReturns, Unguarded
<1>7. CASE AutoAfterStart \/ ClickToggle \/ ClickDump \/ AnswerNo \/ AnswerToggle \/ AnswerDump
  BY <1>7 DEF AutoAfterStart, ClickToggle, ClickDump, Question, AnswerNo, AnswerToggle,
              AnswerDump, Replied
<1>8. CASE OperatorSwitchesScene
  BY <1>8 DEF OperatorSwitchesScene
<1> QED
  BY <1>1, <1>2, <1>3, <1>4, <1>5, <1>6, <1>7, <1>8 DEF Next

(* A slate that is put on, or changed for the other, keeps the promise.    *)
LEMMA SlateTaken ==
    ASSUME NEW target, target \in Slates, SlateInv, SwitchFor(target)
    PROVE  SlateInv'
<1>1. CASE active /\ scene # controlled /\ Clear /\ UNCHANGED <<scene, home, left>>
  BY <1>1 DEF SlateInv, Clear
<1>2. CASE /\ ~active \/ scene = controlled
           /\ previous' = IF active THEN previous ELSE scene
           /\ active' = TRUE /\ controlled' = target /\ scene' = target
           /\ UNCHANGED <<home, left>>
  <2>1. /\ active' = TRUE /\ controlled' = target /\ scene' = target
        /\ home' = home /\ left' = left
        /\ previous' = IF active THEN previous ELSE scene
    BY <1>2
  <2>2. CASE active
    BY <1>2, <2>1, <2>2 DEF SlateInv
  <2>3. CASE ~active
    BY <2>1, <2>3 DEF SlateInv
  <2> QED
    BY <2>2, <2>3
<1> QED
  BY <1>1, <1>2 DEF SwitchFor

LEMMA SlateStep == SlateInv /\ [Next]_vars => SlateInv'
<1> SUFFICES ASSUME SlateInv, [Next]_vars PROVE SlateInv'
  OBVIOUS
<1>1. CASE UNCHANGED slatevars
  BY <1>1 DEF SlateInv, slatevars
<1>2. CASE ForgetSlate
  BY <1>2 DEF SlateInv, ForgetSlate, Clear
<1>3. ASSUME NEW status, SlateStatus(status) PROVE SlateInv'
  <2>1. TargetFor(status) \in Slates \cup {""}
    BY DEF TargetFor, Slates
  <2>2. CASE TargetFor(status) # "" /\ SwitchFor(TargetFor(status))
    BY <2>1, <2>2, SlateTaken
  <2>3. CASE UNCHANGED slatevars
    BY <2>3 DEF SlateInv, slatevars
  <2>4. CASE RestoreIfOwned
    BY <2>4 DEF SlateInv, RestoreIfOwned, Clear
  <2> QED
    BY <1>3, <2>2, <2>3, <2>4 DEF SlateStatus
<1>4. ASSUME NEW to \in Scenes, OperatorSwitches(to) PROVE SlateInv'
  <2>1. to \notin Slates
    BY SlatesApart DEF Slates
  <2> QED
    BY <1>4, <2>1 DEF SlateInv, OperatorSwitches
<1> QED
  BY <1>1, <1>2, <1>3, <1>4, SlateSteps

(* Outside a transition the viewers see the scene the operator chose last, *)
(* unless the link went down in one.                                       *)
THEOREM SlateComesHome == Spec => []SlateHome
<1>1. Init => SlateInv
  <2> SUFFICES ASSUME Init PROVE SlateInv
    OBVIOUS
  <2>1. (CHOOSE s \in Scenes : TRUE) \in Scenes
    BY SlatesApart
  <2> QED
    BY <2>1 DEF Init, SlateInit, SlateInv
<1>2. SlateInv => SlateHome
  BY DEF SlateInv, SlateHome
<1> QED
  BY <1>1, <1>2, SlateStep, PTL DEF Spec
-----------------------------------------------------------------------------
(* The link.  The traffic flows exactly while the relay runs, and without  *)
(* it the link is down.                                                    *)
LinkInv ==
    /\ accepting = (life = "Running")
    /\ ~accepting => link = "Disconnected"

(* What a step may do to the link: nothing, handle a reply while the       *)
(* traffic flows, or follow the relay process.                             *)
LEMMA LinkSteps ==
    ASSUME [Next]_vars
    PROVE  \/ UNCHANGED <<accepting, link, life>>
           \/ accepting /\ accepting' = accepting /\ life' = life
           \/ accepting' = (life' = "Running") /\ link' = "Disconnected"
<1>1. CASE UNCHANGED vars
  BY <1>1 DEF vars, clientvars, dockvars
<1>2. CASE \E s \in Slots : PollChain(s)
  <2> PICK s \in Slots : PollChain(s)
    BY <1>2
  <2>1. CASE PollHealth(s)
    BY <2>1 DEF PollHealth, HealthFails, FetchStatus, FetchForeign, Open, Client, dockvars
  <2>2. CASE Drop(s)
    BY <2>2 DEF Drop, Dropped, Client
  <2>3. CASE AnswerStatus(s)
    BY <2>3 DEF AnswerStatus, StatusAnswered, Client
  <2>4. CASE HandleStatusReply(s)
    BY <2>4 DEF HandleStatusReply, StatusFails, StatusArrives, Open, Client
  <2> QED
    BY <2>1, <2>2, <2>3, <2>4 DEF PollChain
<1>3. CASE ControlSteps
  <2> PICK c \in controls : AnswerControl(c) \/ HandleControlReply(c)
    BY <1>3 DEF ControlSteps
  <2>1. CASE AnswerControl(c)
    BY <2>1 DEF AnswerControl, ControlAccepted, ControlRefused, dockvars
  <2>2. CASE HandleControlReply(c)
    BY <2>2 DEF HandleControlReply, Client
  <2> QED
    BY <2>1, <2>2
<1>4. CASE RelayStarts \/ RelayStops \/ RelayDies
  BY <1>4 DEF RelayStarts, RelayStops, RelayDies, ProcessStep, SetTraffic
<1>5. CASE EngineBoots \/ EngineGoesOn \/ EnginePublishes \/ EngineEnds \/ EngineFails
  BY <1>5 DEF EngineBoots, EngineGoesOn, EnginePublishes, EngineEnds, EngineFails, Engine,
              clientvars, dockvars
<1>6. CASE StreamStarting \/ StreamMoves \/ \E ok \in BOOLEAN : PreflightReturns(ok)
  BY <1>6 DEF StreamStarting, StreamMoves, PreflightReturns, Unguarded, clientvars
<1>7. CASE AutoAfterStart \/ ClickToggle \/ ClickDump \/ AnswerNo \/ AnswerToggle \/ AnswerDump
  BY <1>7 DEF AutoAfterStart, ClickToggle, ClickDump, Question, AnswerNo, AnswerToggle,
              AnswerDump, Replied, clientvars
<1>8. CASE OperatorSwitchesScene
  BY <1>8 DEF OperatorSwitchesScene, clientvars, dockvars
<1> QED
  BY <1>1, <1>2, <1>3, <1>4, <1>5, <1>6, <1>7, <1>8 DEF Next

(* The dock never shows a link to a relay that does not run, however many  *)
(* polls overlap and whenever their replies come.                          *)
THEOREM LinkNeedsProcess == Spec => []ConnectedRuns
<1>1. Init => LinkInv
  BY DEF Init, ClientInit, Relay!Init, LinkInv
<1>2. LinkInv /\ [Next]_vars => LinkInv'
  BY LinkSteps DEF LinkInv
<1>3. LinkInv => ConnectedRuns
  BY DEF LinkInv, ConnectedRuns
<1> QED
  BY <1>1, <1>2, <1>3, PTL DEF Spec
-----------------------------------------------------------------------------
(* The guard.  A check is under way only in a stream that has not yet      *)
(* connected, and alone; the calls it may queue are queued once the stream *)
(* is live, and a flag that is set tells of the check of this stream.      *)
Frame ==
    [kind : {"preflight", "dump"}]
      \cup [kind : {"toggle"}, checked : BOOLEAN, streaming : BOOLEAN, busy : BOOLEAN]

GuardInv ==
    /\ frames \in Seq(Frame)
    /\ \A i \in DOMAIN frames : frames[i] = Preflight => stream = "preflight"
    /\ \A i, j \in DOMAIN frames : frames[i] = Preflight /\ frames[j] = Preflight => i = j
    /\ stream \in {"preflight", "connecting", "connected"} => queued = {}
    /\ stream \in {"connecting", "connected", "live", "stopping"} =>
          (block \/ "block" \in queued => failed)

Opens(frame) ==
    /\ NoQuestion /\ frame \in Frame /\ frame # Preflight /\ frames' = <<frame>> \o frames
    /\ UNCHANGED <<stream, block, queued, failed>>

Closes ==
    /\ frames # <<>> /\ Head(frames) # Preflight /\ frames' = Tail(frames)
    /\ UNCHANGED <<stream, block, queued, failed>>

(* What a step may do to the guard, its queue and its nested loops.        *)
LEMMA GuardSteps ==
    ASSUME [Next]_vars
    PROVE  \/ UNCHANGED guardvars
           \/ \E on \in BOOLEAN : Starting(on)
           \/ \E ok \in BOOLEAN : PreflightEnds(ok)
           \/ StreamSteps
           \/ queued' = queued \ {"auto"} /\ UNCHANGED <<stream, block, frames, failed>>
           \/ \E frame : Opens(frame)
           \/ Closes
<1>1. CASE UNCHANGED vars
  BY <1>1 DEF vars
<1>2. CASE \E s \in Slots : PollChain(s)
  BY <1>2 DEF PollChain, PollHealth, Drop, AnswerStatus, HandleStatusReply, Client
<1>3. CASE ControlSteps
  BY <1>3 DEF ControlSteps, AnswerControl, HandleControlReply, Client
<1>4. CASE RelayStarts \/ RelayStops \/ RelayDies
  BY <1>4 DEF RelayStarts, RelayStops, RelayDies, ProcessStep
<1>5. CASE EngineBoots \/ EngineGoesOn \/ EnginePublishes \/ EngineEnds \/ EngineFails
  BY <1>5 DEF EngineBoots, EngineGoesOn, EnginePublishes, EngineEnds, EngineFails, Engine
<1>6. CASE StreamStarting \/ StreamMoves \/ \E ok \in BOOLEAN : PreflightReturns(ok)
  <2>1. (life = "Running") \in BOOLEAN
    OBVIOUS
  <2> QED
    BY <1>6, <2>1 DEF StreamStarting, StreamMoves, PreflightReturns
<1>7. CASE AutoAfterStart
  BY <1>7 DEF AutoAfterStart
<1>8. CASE ClickToggle
  <2> DEFINE frame == [kind |-> "toggle", checked |-> ~toggle, streaming |-> Active,
                       busy |-> pending \/ IsTransition(state)]
  <2>1. (~toggle) \in BOOLEAN /\ Active \in BOOLEAN /\ (pending \/ IsTransition(state)) \in BOOLEAN
    BY DEF Active, IsTransition
  <2>2. frame \in Frame
    BY <2>1 DEF Frame
  <2>3. frame # Preflight
    BY DEF Preflight
  <2> HIDE DEF frame
  <2> QED
    BY <1>8, <2>2, <2>3 DEF ClickToggle, Question, Opens, frame
<1>9. CASE ClickDump
  <2>1. [kind |-> "dump"] \in Frame /\ [kind |-> "dump"] # Preflight
    BY DEF Frame, Preflight
  <2> QED
    BY <1>9, <2>1 DEF ClickDump, Question, Opens
<1>10. CASE AnswerNo \/ AnswerToggle \/ AnswerDump
  BY <1>10 DEF AnswerNo, AnswerToggle, AnswerDump, Replied, Asked, Closes, Preflight
<1>11. CASE OperatorSwitchesScene
  BY <1>11 DEF OperatorSwitchesScene
<1> QED
  BY <1>1, <1>2, <1>3, <1>4, <1>5, <1>6, <1>7, <1>8, <1>9, <1>10, <1>11 DEF Next

LEMMA GuardStep == GuardInv /\ [Next]_vars => GuardInv'
<1> SUFFICES ASSUME GuardInv, [Next]_vars PROVE GuardInv'
  OBVIOUS
<1>1. CASE UNCHANGED guardvars
  BY <1>1 DEF GuardInv, guardvars
<1>2. ASSUME NEW on \in BOOLEAN, Starting(on) PROVE GuardInv'
  <2>1. CASE frames' = frames
    BY <1>2, <2>1 DEF GuardInv, Starting
  <2>2. CASE frames' = <<Preflight>> \o frames
    <3>1. \A i \in DOMAIN frames : frames[i] # Preflight
      BY <1>2 DEF GuardInv, Starting
    <3>2. Preflight \in Frame
      BY DEF Preflight, Frame
    <3> HIDE DEF Preflight
    <3>3. /\ frames' \in Seq(Frame)
          /\ \A i, j \in DOMAIN frames' :
                frames'[i] = Preflight /\ frames'[j] = Preflight => i = j
      BY <2>2, <3>1, <3>2 DEF GuardInv
    <3> QED
      BY <1>2, <2>2, <3>1, <3>3 DEF GuardInv, Starting
  <2> QED
    BY <1>2, <2>1, <2>2 DEF Starting
<1>3. ASSUME NEW ok \in BOOLEAN, PreflightEnds(ok) PROVE GuardInv'
  <2>1. 1 \in DOMAIN frames /\ frames[1] = Preflight /\ stream = "preflight"
    BY <1>3 DEF GuardInv, PreflightEnds
  <2>2. frames' \in Seq(Frame) /\ \A i \in DOMAIN frames' : frames'[i] # Preflight
    BY <1>3, <2>1 DEF GuardInv, PreflightEnds
  <2> QED
    BY <1>3, <2>1, <2>2 DEF GuardInv, PreflightEnds, Verdict
<1>4. CASE StreamSteps
  BY <1>4 DEF GuardInv, StreamSteps, Connects, Started, BlockActiveStream, Stops, Stopped, Active
<1>5. CASE queued' = queued \ {"auto"} /\ UNCHANGED <<stream, block, frames, failed>>
  BY <1>5 DEF GuardInv
<1>6. ASSUME NEW frame, Opens(frame) PROVE GuardInv'
  <2>1. /\ frames' \in Seq(Frame)
        /\ \A i \in DOMAIN frames' :
              \/ i = 1 /\ frames'[i] # Preflight
              \/ i > 1 /\ i - 1 \in DOMAIN frames /\ frames'[i] = frames[i - 1]
    BY <1>6 DEF GuardInv, Opens
  <2> QED
    BY <1>6, <2>1 DEF GuardInv, Opens
<1>7. CASE Closes
  <2>1. /\ frames' \in Seq(Frame)
        /\ \A i \in DOMAIN frames' : i + 1 \in DOMAIN frames /\ frames'[i] = frames[i + 1]
    BY <1>7 DEF GuardInv, Closes
  <2> QED
    BY <1>7, <2>1 DEF GuardInv, Closes
<1> QED
  BY <1>1, <1>2, <1>3, <1>4, <1>5, <1>6, <1>7, GuardSteps

LEMMA GuardStart == Init => GuardInv
<1> SUFFICES ASSUME GuardInit PROVE GuardInv
  BY DEF Init
<1>1. frames \in Seq(Frame) /\ DOMAIN frames = {}
  BY DEF GuardInit
<1>2. stream = "off"
  BY DEF GuardInit
<1> QED
  BY <1>1, <1>2 DEF GuardInv

(* A stop that is queued, or will be, is meant for the stream it meets.    *)
THEOREM GuardStopsItsOwn == Spec => []GuardSpares
<1>1. GuardInv => GuardSpares
  BY DEF GuardInv, GuardSpares, Active
<1> QED
  BY <1>1, GuardStart, GuardStep, PTL DEF Spec
-----------------------------------------------------------------------------
(* The request the dock makes on its own.  While a stream is not off and   *)
(* the flag is not set, there has been none; the flag is reset only when   *)
(* the stream is over, and the count when the next one begins.             *)
AutoInv ==
    /\ autoPosts \in 0..1
    /\ stream # "off" /\ ~autoTriggered => autoPosts = 0

(* What a step may do to the flag and the count.                           *)
LEMMA AutoSteps ==
    ASSUME GuardInv, [Next]_vars
    PROVE  \/ UNCHANGED <<stream, autoTriggered, autoPosts>>
           \/ stream' = stream /\ \E s, p, rest : AutoEnable(AutoDue(s, p), rest)
           \/ autoPosts' = 0 /\ autoTriggered' = autoTriggered
           \/ stream # "off" /\ UNCHANGED <<autoTriggered, autoPosts>>
           \/ StreamSteps /\ StreamOver
           \/ stream' = stream /\ autoPosts' = autoPosts /\ (autoTriggered => autoTriggered')
<1>1. CASE UNCHANGED vars
  BY <1>1 DEF vars, guardvars, dockvars, modevars
<1>2. CASE \E s \in Slots : PollChain(s)
  <2> PICK s \in Slots : PollChain(s)
    BY <1>2
  <2>1. CASE PollHealth(s)
    BY <2>1 DEF PollHealth, Client, guardvars, dockvars, modevars
  <2>2. CASE Drop(s) \/ AnswerStatus(s)
    BY <2>2 DEF Drop, AnswerStatus, Client, guardvars, modevars
  <2>3. CASE HandleStatusReply(s)
    BY <2>3 DEF HandleStatusReply, ApplyStatus, Client, guardvars, modevars
  <2> QED
    BY <2>1, <2>2, <2>3 DEF PollChain
<1>3. CASE ControlSteps
  <2> PICK c \in controls : AnswerControl(c) \/ HandleControlReply(c)
    BY <1>3 DEF ControlSteps
  <2>1. CASE AnswerControl(c)
    BY <2>1 DEF AnswerControl, guardvars, dockvars, modevars
  <2>2. CASE HandleControlReply(c)
    BY <2>2 DEF HandleControlReply, ApplyStatus, Client, guardvars
  <2> QED
    BY <2>1, <2>2
<1>4. CASE RelayStarts \/ RelayStops \/ RelayDies
  BY <1>4 DEF RelayStarts, RelayStops, RelayDies, ProcessStep, guardvars, modevars
<1>5. CASE EngineBoots \/ EngineGoesOn \/ EnginePublishes \/ EngineEnds \/ EngineFails
  BY <1>5 DEF EngineBoots, EngineGoesOn, EnginePublishes, EngineEnds, EngineFails, Engine,
              guardvars, dockvars, modevars
<1>6. CASE StreamStarting
  BY <1>6 DEF StreamStarting
<1>7. CASE StreamMoves
  BY <1>7 DEF StreamMoves
<1>8. ASSUME NEW ok \in BOOLEAN, PreflightReturns(ok)
      PROVE  stream # "off" /\ UNCHANGED <<autoTriggered, autoPosts>>
  <2>1. 1 \in DOMAIN frames /\ frames[1] = Preflight
    BY <1>8 DEF GuardInv, PreflightReturns, PreflightEnds
  <2> QED
    BY <1>8, <2>1 DEF GuardInv, PreflightReturns, modevars
<1>9. CASE AutoAfterStart
  BY <1>9 DEF AutoAfterStart
<1>10. CASE ClickToggle \/ ClickDump
  BY <1>10 DEF ClickToggle, ClickDump, Question, modevars
<1>11. CASE AnswerNo \/ AnswerDump
  BY <1>11 DEF AnswerNo, AnswerDump, Replied
<1>12. CASE AnswerToggle
  <2>1. stream' = stream /\ autoPosts' = autoPosts
    BY <1>12 DEF AnswerToggle, Replied
  <2>2. autoTriggered => autoTriggered'
    BY <1>12, Zenon DEF AnswerToggle
  <2> QED
    BY <2>1, <2>2
<1>13. CASE OperatorSwitchesScene
  BY <1>13 DEF OperatorSwitchesScene, guardvars, dockvars, modevars
<1> QED
  BY <1>1, <1>2, <1>3, <1>4, <1>5, <1>6, <1>7, <1>8, <1>9, <1>10, <1>11, <1>12, <1>13 DEF Next

LEMMA AutoStep == GuardInv /\ AutoInv /\ [Next]_vars => AutoInv'
<1> SUFFICES ASSUME GuardInv, AutoInv, [Next]_vars PROVE AutoInv'
  OBVIOUS
<1>1. CASE UNCHANGED <<stream, autoTriggered, autoPosts>>
  BY <1>1 DEF AutoInv
<1>2. ASSUME stream' = stream, NEW s, NEW p, NEW rest, AutoEnable(AutoDue(s, p), rest)
      PROVE  AutoInv'
  <2>1. CASE AutoDue(s, p) /\ autoTriggered' = TRUE /\ autoPosts' = autoPosts + 1
    <3>1. stream # "off" /\ ~autoTriggered
      BY <2>1 DEF AutoDue, Active
    <3>2. autoPosts' = 1
      BY <2>1, <3>1 DEF AutoInv
    <3> QED
      BY <2>1, <3>2 DEF AutoInv
  <2>2. CASE UNCHANGED <<autoTriggered, autoPosts>>
    BY <1>2, <2>2 DEF AutoInv
  <2> QED
    BY <1>2, <2>1, <2>2 DEF AutoEnable
<1>3. CASE autoPosts' = 0 /\ autoTriggered' = autoTriggered
  BY <1>3 DEF AutoInv
<1>4. CASE stream # "off" /\ UNCHANGED <<autoTriggered, autoPosts>>
  BY <1>4 DEF AutoInv
<1>5. CASE StreamSteps /\ StreamOver
  BY <1>5 DEF AutoInv, StreamOver, StreamSteps, Connects, Started, BlockActiveStream, Stops,
              Stopped, Active
<1>6. CASE stream' = stream /\ autoPosts' = autoPosts /\ (autoTriggered => autoTriggered')
  BY <1>6 DEF AutoInv
<1> QED
  BY <1>1, <1>2, <1>3, <1>4, <1>5, <1>6, AutoSteps

(* The dock asks for the delay on its own at most once in a stream.        *)
THEOREM AutoAtMostOnce == Spec => []AutoOnce
<1>1. Init => AutoInv
  <2> SUFFICES ASSUME Init PROVE AutoInv
    OBVIOUS
  <2>1. autoPosts = 0
    BY DEF Init
  <2> QED
    BY <2>1 DEF AutoInv
<1>2. AutoInv => AutoOnce
  BY DEF AutoInv, AutoOnce
<1> QED
  BY <1>1, <1>2, GuardStart, GuardStep, AutoStep, PTL DEF Spec
-----------------------------------------------------------------------------
(* The types, a group of variables at a time.  What a slate has taken the  *)
(* place of is a scene: it can be restored.                                *)
SlateTypeInv == SlateTypeOK /\ (active => previous \in Scenes \cup Slates)

LEMMA SlateTypeStep == SlateTypeInv /\ [Next]_vars => SlateTypeInv'
<1> SUFFICES ASSUME SlateTypeInv, [Next]_vars PROVE SlateTypeInv'
  OBVIOUS
<1> USE DEF SlateTypeInv, SlateTypeOK
<1>1. CASE UNCHANGED slatevars
  BY <1>1 DEF slatevars
<1>2. CASE ForgetSlate
  BY <1>2 DEF ForgetSlate, Clear
<1>3. ASSUME NEW status, SlateStatus(status) PROVE SlateTypeInv'
  <2>1. TargetFor(status) \in Slates \cup {""}
    BY DEF TargetFor, Slates
  <2>2. CASE TargetFor(status) # "" /\ SwitchFor(TargetFor(status))
    <3> DEFINE target == TargetFor(status)
    <3>1. target \in Slates
      BY <2>1, <2>2
    <3> HIDE DEF target
    <3>2. CASE Clear /\ UNCHANGED <<scene, home, left>>
      BY <3>2 DEF Clear
    <3>3. CASE /\ previous' = IF active THEN previous ELSE scene
               /\ active' = TRUE /\ controlled' = target /\ scene' = target
               /\ UNCHANGED <<home, left>>
      <4>1. previous' \in Scenes \cup Slates
        BY <3>3
      <4> QED
        BY <3>1, <3>3, <4>1
    <3> QED
      BY <2>2, <3>2, <3>3 DEF SwitchFor, target
  <2>3. CASE UNCHANGED slatevars
    BY <2>3 DEF slatevars
  <2>4. CASE RestoreIfOwned
    BY <2>4 DEF RestoreIfOwned, Clear
  <2> QED
    BY <1>3, <2>2, <2>3, <2>4 DEF SlateStatus
<1>4. ASSUME NEW to \in Scenes, OperatorSwitches(to) PROVE SlateTypeInv'
  BY <1>4 DEF OperatorSwitches
<1> QED
  BY <1>1, <1>2, <1>3, <1>4, SlateSteps

(* What the phases of the engine report, and where requests lead.          *)
LEMMA Phases ==
    /\ Phase = {"ready", "error", "live", "filling", "holding", "filled", "delayed", "draining",
                "dumping", "dumped", "switching", "switched"}
    /\ \A p \in Phase : Reported[p].state # "" /\ Reported[p].pending \in BOOLEAN
<1>1. Phase = {"ready", "error", "live", "filling", "holding", "filled", "delayed", "draining",
               "dumping", "dumped", "switching", "switched"}
  BY DEF Phase, Reported
<1>2. /\ Reported["ready"] = Status("READY", "none", FALSE)
      /\ Reported["error"] = Status("ERROR", "none", FALSE)
      /\ Reported["live"] = Status("REALTIME", "none", FALSE)
      /\ Reported["filling"] = Status("BUFFERING_TO_DELAY", "none", TRUE)
      /\ Reported["holding"] = Status("SAFE_HOLD", "enable", TRUE)
      /\ Reported["filled"] = Status("DELAYED", "enable", TRUE)
      /\ Reported["delayed"] = Status("DELAYED", "none", FALSE)
      /\ Reported["draining"] = Status("RETURNING_TO_REALTIME", "return", TRUE)
      /\ Reported["dumping"] = Status("DUMPING", "none", TRUE)
      /\ Reported["dumped"] = Status("SAFE_HOLD", "none", TRUE)
      /\ Reported["switching"] = Status("SAFE_HOLD", "return", TRUE)
      /\ Reported["switched"] = Status("REALTIME", "return", TRUE)
  BY DEF Reported
<1> DEFINE Good(status) == status.state # "" /\ status.pending \in BOOLEAN
<1>3. ASSUME NEW a, NEW b, a # "" PROVE Good(Status(a, b, TRUE)) /\ Good(Status(a, b, FALSE))
  BY <1>3 DEF Status
<1>4. \A p \in Phase : Good(Reported[p])
  <2> HIDE DEF Good
  <2>1. /\ Good(Reported["ready"]) /\ Good(Reported["error"]) /\ Good(Reported["live"])
        /\ Good(Reported["filling"]) /\ Good(Reported["holding"]) /\ Good(Reported["filled"])
    BY <1>2, <1>3
  <2>2. /\ Good(Reported["delayed"]) /\ Good(Reported["draining"]) /\ Good(Reported["dumping"])
        /\ Good(Reported["dumped"]) /\ Good(Reported["switching"]) /\ Good(Reported["switched"])
    BY <1>2, <1>3
  <2> QED
    BY <1>1, <2>1, <2>2
<1> QED
  BY <1>1, <1>4

LEMMA Begun ==
    /\ DOMAIN Begins = {"enable", "return", "dump"}
    /\ \A op \in DOMAIN Begins : Begins[op][2] \in Phase
<1>1. DOMAIN Begins = {"enable", "return", "dump"}
  BY DEF Begins
<1>2. /\ Begins["enable"][2] = "filling" /\ Begins["return"][2] = "draining"
      /\ Begins["dump"][2] = "dumping"
  BY DEF Begins
<1>3. {"filling", "draining", "dumping"} \subseteq Phase
  BY Phases
<1> QED
  BY <1>1, <1>2, <1>3

(* The engine and the process it runs in.  Both counters only grow, so     *)
(* what was stamped or sent before keeps its place.                        *)
RunInv ==
    /\ engine \in Phase \cup {"off"} /\ stamp \in Nat \ {0} /\ session \in Nat
    /\ life \in {"Idle", "Running", "Stopping", "Crashed", "FailedToStart"}
    /\ life = "Running" => session > 0

Grows == stamp' >= stamp /\ session' >= session

LEMMA RunStep == RunInv /\ ClientTypeOK /\ [Next]_vars => RunInv' /\ Grows
<1> SUFFICES ASSUME RunInv, ClientTypeOK, [Next]_vars PROVE RunInv' /\ Grows
  OBVIOUS
<1> USE DEF RunInv, Grows
<1>1. ASSUME UNCHANGED <<evars, session, life>> PROVE RunInv' /\ Grows
  BY <1>1 DEF evars
<1>2. ASSUME engine' \in Phase, Tick, UNCHANGED <<session, life>> PROVE RunInv' /\ Grows
  BY <1>2 DEF Tick
<1>3. CASE UNCHANGED vars
  BY <1>3, <1>1 DEF vars, dockvars
<1>4. CASE \E s \in Slots : PollChain(s)
  BY <1>4, <1>1 DEF PollChain, PollHealth, Drop, AnswerStatus, HandleStatusReply, Client, dockvars
<1>5. CASE ControlSteps
  <2> PICK c \in controls : AnswerControl(c) \/ HandleControlReply(c)
    BY <1>5 DEF ControlSteps
  <2>1. CASE ControlAccepted(c) /\ UNCHANGED <<session, dockvars>>
    <3>1. c.op \in DOMAIN Begins
      BY <2>1 DEF ControlAccepted, ClientTypeOK
    <3> QED
      BY <1>2, <2>1, <3>1, Begun DEF ControlAccepted, Accept, dockvars
  <2>2. CASE UNCHANGED <<evars, session, life>>
    BY <2>2, <1>1
  <2> QED
    BY <2>1, <2>2 DEF AnswerControl, HandleControlReply, Client, dockvars
<1>6. CASE RelayStarts \/ RelayStops \/ RelayDies
  BY <1>6 DEF RelayStarts, RelayStops, RelayDies, ProcessStep, Relay!Start, Relay!Stop, Relay!Die,
              Relay!Down
<1>7. CASE EngineBoots \/ EngineGoesOn \/ EnginePublishes \/ EngineEnds \/ EngineFails
  <2>1. UNCHANGED <<session, life>>
    BY <1>7 DEF EngineBoots, EngineGoesOn, EnginePublishes, EngineEnds, EngineFails, Engine, dockvars
  <2>2. engine' \in Phase /\ Tick
    BY <1>7, Phases DEF EngineBoots, EngineGoesOn, EnginePublishes, EngineEnds, EngineFails, Boot,
                Continue, SessionBegins, SessionEnds, Fail
  <2> QED
    BY <1>2, <2>1, <2>2
<1>8. CASE StreamStarting \/ StreamMoves \/ \E ok \in BOOLEAN : PreflightReturns(ok)
  BY <1>8, <1>1 DEF StreamStarting, StreamMoves, PreflightReturns, Unguarded
<1>9. CASE AutoAfterStart \/ ClickToggle \/ ClickDump \/ AnswerNo \/ AnswerToggle \/ AnswerDump
  BY <1>9, <1>1 DEF AutoAfterStart, ClickToggle, ClickDump, Question, AnswerNo, AnswerToggle,
              AnswerDump, Replied
<1>10. CASE OperatorSwitchesScene
  BY <1>10, <1>1 DEF OperatorSwitchesScene, dockvars
<1> QED
  BY <1>3, <1>4, <1>5, <1>6, <1>7, <1>8, <1>9, <1>10 DEF Next

(* Every poll and request under way has a type that tells what it was sent *)
(* to or answered with; each new one is sent to a relay that runs.         *)
Stage(x) ==
    \/ x \in {Idle, Foreign, Denied, Lost}
    \/ x.at = "status" /\ x.to \in 1..session
    \/ x.at = "answered" /\ x.phase \in Phase /\ x.time \in 1..stamp

Request(c) ==
    \/ c.op \in DOMAIN Begins /\ c.to \in 1..session
    \/ c.op = "done" /\ c.phase \in Phase /\ c.time \in 1..stamp

LEMMA Kept ==
    ASSUME RunInv, RunInv', Grows
    PROVE  /\ \A x : Stage(x) => Stage(x)'
           /\ \A c : Request(c) => Request(c)'
<1>1. 1..session \subseteq 1..session' /\ 1..stamp \subseteq 1..stamp'
  BY DEF RunInv, Grows
<1>2. Phase' = Phase
  BY DEF Phase, Reported
<1> QED
  BY <1>1, <1>2 DEF Stage, Request

LEMMA PostedIs ==
    ASSUME RunInv, LinkInv, NEW op \in DOMAIN Begins, NEW c \in Posted(op)
    PROVE  Request(c)
<1>1. link = "Connected" /\ c = Control(op, session)
  BY DEF Posted
<1>2. session \in 1..session
  <2>1. link = "Connected" => life = "Running"
    BY Zenon DEF LinkInv
  <2> QED
    BY <1>1, <2>1 DEF RunInv
<1> QED
  BY <1>1, <1>2 DEF Request, Control

(* A step changes one poll at most, to a stage of its type, and adds       *)
(* requests of theirs.                                                     *)
LEMMA AutoRequests ==
    ASSUME RunInv, LinkInv, NEW due, NEW rest, AutoEnable(due, rest)
    PROVE  \A c \in controls' : c \in rest \/ Request(c)
<1>1. controls' = rest \cup Posted("enable") \/ controls' = rest
  BY DEF AutoEnable
<1>2. "enable" \in DOMAIN Begins
  BY Begun
<1> QED
  BY <1>1, <1>2, PostedIs

LEMMA AppliedRequests ==
    ASSUME RunInv, LinkInv, NEW phase, NEW time, NEW rest, ApplyStatus(phase, time, rest)
    PROVE  \A c \in controls' : c \in rest \/ Request(c)
<1>1. CASE controls' = rest
  BY <1>1
<1>2. CASE AutoEnable(AutoDue(Reported[phase].state, Reported[phase].pending), rest)
  BY <1>2, AutoRequests
<1> QED
  BY <1>1, <1>2 DEF ApplyStatus

PollsStep == polls' = polls \/ \E s \in Slots : \E x : Stage(x)' /\ Goes(s, x)

ControlsStep == \A c \in controls' : c \in controls \/ Request(c)'

LEMMA PollTypes ==
    ASSUME RunInv, RunInv', Grows, LinkInv, ClientTypeOK, NEW s \in Slots, PollChain(s)
    PROVE  PollsStep /\ ControlsStep
<1>1. Stage(Idle)' /\ Stage(Foreign)' /\ Stage(Denied)' /\ Stage(Lost)'
  BY DEF Stage
<1>2. CASE PollHealth(s)
  <2>1. controls' = controls
    BY <1>2 DEF PollHealth, HealthFails, FetchStatus, FetchForeign
  <2>2. polls' = polls \/ Goes(s, Foreign) \/ (accepting /\ Goes(s, Sent(session)) /\ session' = session)
    BY <1>2 DEF PollHealth, HealthFails, FetchStatus, FetchForeign, Open, Client
  <2>3. accepting /\ session' = session => Stage(Sent(session))'
    <3>1. accepting => life = "Running"
      BY Zenon DEF LinkInv
    <3> QED
      BY <3>1 DEF RunInv, Stage, Sent
  <2> QED
    BY <1>1, <2>1, <2>2, <2>3 DEF PollsStep, ControlsStep
<1>3. CASE Drop(s)
  BY <1>1, <1>3 DEF Drop, Dropped, PollsStep, ControlsStep
<1>4. CASE AnswerStatus(s)
  <2>1. engine \in Phase => Stage(Answered(engine, stamp))
    BY DEF RunInv, Stage, Answered
  <2>2. \E x \in {Lost, Denied, Answered(engine, stamp)} :
           Goes(s, x) /\ (x = Answered(engine, stamp) => engine \in Phase \/ x \in {Lost, Denied})
    BY <1>4 DEF AnswerStatus, StatusAnswered, RunInv
  <2>3. controls' = controls
    BY <1>4 DEF AnswerStatus, StatusAnswered
  <2> QED
    BY <1>1, <2>1, <2>2, <2>3, Kept DEF PollsStep, ControlsStep
<1>5. CASE HandleStatusReply(s)
  <2>1. Goes(s, Idle)
    BY <1>5 DEF HandleStatusReply, StatusFails, StatusArrives
  <2>2. controls' = controls \/ ApplyStatus(polls[s].phase, polls[s].time, controls)
    BY <1>5 DEF HandleStatusReply, StatusFails
  <2>3. ControlsStep
    BY <2>2, AppliedRequests, Kept DEF ControlsStep
  <2> QED
    BY <1>1, <2>1, <2>3 DEF PollsStep
<1> QED
  BY <1>2, <1>3, <1>4, <1>5 DEF PollChain

LEMMA ClientTypes ==
    ASSUME RunInv, RunInv', Grows, LinkInv, ClientTypeOK, [Next]_vars
    PROVE  PollsStep /\ ControlsStep
<1>1. ASSUME UNCHANGED <<polls, controls>> PROVE PollsStep /\ ControlsStep
  BY <1>1 DEF PollsStep, ControlsStep
<1>2. CASE UNCHANGED vars
  BY <1>1, <1>2 DEF vars, clientvars
<1>3. CASE \E s \in Slots : PollChain(s)
  BY <1>3, PollTypes
<1>4. CASE ControlSteps
  <2> PICK c \in controls : AnswerControl(c) \/ HandleControlReply(c)
    BY <1>4 DEF ControlSteps
  <2>1. CASE ControlAccepted(c)
    <3>1. engine' = Begins[c.op][2] /\ c.op \in DOMAIN Begins
      BY <2>1 DEF ControlAccepted, Accept, ClientTypeOK
    <3>2. Request(Done(engine, stamp))'
      <4>1. engine' \in Phase' /\ stamp' \in 1..stamp'
        BY <3>1, Begun DEF RunInv, Phase, Reported
      <4> QED
        BY <4>1 DEF Request, Done
    <3> QED
      BY <2>1, <3>2 DEF ControlAccepted, PollsStep, ControlsStep
  <2>2. CASE ControlRefused(c)
    BY <2>2 DEF ControlRefused, PollsStep, ControlsStep
  <2>3. CASE HandleControlReply(c)
    <3>1. \A d \in controls' : d \in controls \ {c} \/ Request(d)
      BY <2>3, AppliedRequests DEF HandleControlReply
    <3> QED
      BY <2>3, <3>1, Kept DEF HandleControlReply, PollsStep, ControlsStep
  <2> QED
    BY <2>1, <2>2, <2>3 DEF AnswerControl
<1>5. CASE RelayStarts \/ RelayStops \/ RelayDies
  BY <1>1, <1>5 DEF RelayStarts, RelayStops, RelayDies, ProcessStep, SetTraffic
<1>6. CASE EngineBoots \/ EngineGoesOn \/ EnginePublishes \/ EngineEnds \/ EngineFails
  BY <1>1, <1>6 DEF EngineBoots, EngineGoesOn, EnginePublishes, EngineEnds, EngineFails, Engine, clientvars
<1>7. CASE StreamStarting \/ StreamMoves \/ \E ok \in BOOLEAN : PreflightReturns(ok)
  BY <1>1, <1>7 DEF StreamStarting, StreamMoves, PreflightReturns, Unguarded, clientvars
<1>8. CASE AutoAfterStart
  BY <1>8, AutoRequests, Kept DEF AutoAfterStart, PollsStep, ControlsStep
<1>9. CASE ClickToggle \/ ClickDump \/ AnswerNo
  BY <1>1, <1>9 DEF ClickToggle, ClickDump, Question, AnswerNo, Replied, clientvars
<1>10. CASE AnswerToggle \/ AnswerDump
  <2>1. polls' = polls
    BY <1>10 DEF AnswerToggle, AnswerDump, Replied
  <2>2. \A d \in controls' : d \in controls \cup Posted("enable") \cup Posted("return") \cup Posted("dump")
    BY <1>10 DEF AnswerToggle, AnswerDump
  <2>3. {"enable", "return", "dump"} \subseteq DOMAIN Begins
    BY Begun
  <2>4. ControlsStep
    BY <2>2, <2>3, PostedIs, Kept DEF ControlsStep
  <2> QED
    BY <2>1, <2>4 DEF PollsStep
<1>11. CASE OperatorSwitchesScene
  BY <1>1, <1>11 DEF OperatorSwitchesScene, clientvars
<1> QED
  BY <1>2, <1>3, <1>4, <1>5, <1>6, <1>7, <1>8, <1>9, <1>10, <1>11 DEF Next

LEMMA LinkTypes ==
    ASSUME ClientTypeOK, [Next]_vars
    PROVE  /\ accepting' \in BOOLEAN
           /\ link' \in {"Disconnected", "Unhealthy", "AuthFailed", "Connected"}
<1>1. ASSUME UNCHANGED <<accepting, link>>
      PROVE  /\ accepting' \in BOOLEAN
             /\ link' \in {"Disconnected", "Unhealthy", "AuthFailed", "Connected"}
  BY <1>1 DEF ClientTypeOK
<1>2. accepting' = accepting \/ accepting' = (life' = "Running")
  BY LinkSteps
<1>3. accepting' \in BOOLEAN
  BY <1>2 DEF ClientTypeOK
<1>4. CASE \E s \in Slots : PollChain(s)
  <2> PICK s \in Slots : PollChain(s)
    BY <1>4
  <2> QED
    BY <1>3 DEF PollChain, PollHealth, HealthFails, FetchStatus, FetchForeign, Drop, Dropped,
                AnswerStatus, StatusAnswered, HandleStatusReply, StatusFails, StatusArrives,
                ClientTypeOK
<1>5. CASE ControlSteps
  BY <1>1, <1>5 DEF ControlSteps, AnswerControl, ControlAccepted, ControlRefused, HandleControlReply
<1>6. CASE RelayStarts \/ RelayStops \/ RelayDies
  BY <1>3, <1>6 DEF RelayStarts, RelayStops, RelayDies, ProcessStep, SetTraffic
<1>7. CASE UNCHANGED clientvars
  BY <1>1, <1>7 DEF clientvars
<1>8. CASE UNCHANGED vars
  BY <1>7, <1>8 DEF vars
<1>9. CASE EngineBoots \/ EngineGoesOn \/ EnginePublishes \/ EngineEnds \/ EngineFails
  BY <1>7, <1>9 DEF EngineBoots, EngineGoesOn, EnginePublishes, EngineEnds, EngineFails, Engine
<1>10. CASE StreamStarting \/ StreamMoves \/ \E ok \in BOOLEAN : PreflightReturns(ok)
  BY <1>7, <1>10 DEF StreamStarting, StreamMoves, PreflightReturns, Unguarded
<1>11. CASE AutoAfterStart \/ ClickToggle \/ ClickDump \/ AnswerNo \/ AnswerToggle \/ AnswerDump
  BY <1>1, <1>11 DEF AutoAfterStart, ClickToggle, ClickDump, Question, AnswerNo, AnswerToggle,
                     AnswerDump, Replied, clientvars
<1>12. CASE OperatorSwitchesScene
  BY <1>7, <1>12 DEF OperatorSwitchesScene
<1> QED
  BY <1>4, <1>5, <1>6, <1>8, <1>9, <1>10, <1>11, <1>12 DEF Next

LEMMA ClientStep ==
    ASSUME RunInv, RunInv', Grows, LinkInv, ClientTypeOK, [Next]_vars
    PROVE  ClientTypeOK'
<1>1. accepting' \in BOOLEAN /\ link' \in {"Disconnected", "Unhealthy", "AuthFailed", "Connected"}
  BY LinkTypes DEF ClientTypeOK
<1>2. DOMAIN polls' = Slots /\ \A s \in Slots : Stage(polls[s])'
  <2>1. DOMAIN polls = Slots /\ \A s \in Slots : Stage(polls[s])
    BY DEF ClientTypeOK, Stage
  <2>2. CASE polls' = polls
    BY <2>1, <2>2, Kept
  <2>3. ASSUME NEW s \in Slots, NEW x, Stage(x)', Goes(s, x)
        PROVE  DOMAIN polls' = Slots /\ \A t \in Slots : Stage(polls[t])'
    <3>1. DOMAIN polls' = Slots /\ \A t \in Slots : polls'[t] = IF t = s THEN x ELSE polls[t]
      BY <2>1, <2>3 DEF Goes
    <3> QED
      BY <2>1, <2>3, <3>1, Kept
  <2> QED
    BY <2>2, <2>3, ClientTypes DEF PollsStep
<1>3. \A c \in controls' : Request(c)'
  <2>1. \A c \in controls : Request(c)
    BY DEF ClientTypeOK, Request
  <2> QED
    BY <2>1, ClientTypes, Kept DEF ControlsStep
<1> QED
  BY <1>1, <1>2, <1>3 DEF ClientTypeOK, Stage, Request

(* What the dock shows comes from an answer that was stamped before.       *)
ShownInv ==
    /\ state \in {""} \cup {Reported[p].state : p \in Phase}
    /\ pending \in BOOLEAN /\ seen \in 0..stamp
    /\ pending => state # "" /\ seen > 0

LEMMA AppliedIsShown ==
    ASSUME RunInv, ShownInv, NEW phase \in Phase, NEW time \in 1..stamp, NEW rest,
           ApplyStatus(phase, time, rest), UNCHANGED stamp
    PROVE  ShownInv'
<1>1. CASE UNCHANGED <<state, pending, seen>>
  BY <1>1 DEF ShownInv, Phase, Reported
<1>2. CASE /\ state' = Reported[phase].state /\ pending' = Reported[phase].pending
           /\ seen' = time
  <2>1. state' # "" /\ pending' \in BOOLEAN
    BY <1>2, Phases
  <2>2. seen' \in 0..stamp' /\ seen' > 0
    BY <1>2 DEF RunInv
  <2>3. state' \in {Reported[p].state : p \in Phase}
    BY <1>2
  <2> HIDE DEF Reported, Phase
  <2> QED
    BY <2>1, <2>2, <2>3 DEF ShownInv
<1> QED
  BY <1>1, <1>2 DEF ApplyStatus

LEMMA ShownStep ==
    ASSUME RunInv, RunInv', Grows, ClientTypeOK, ShownInv, [Next]_vars
    PROVE  ShownInv'
<1>1. ASSUME UNCHANGED <<state, pending, seen>> PROVE ShownInv'
  <2>1. 0..stamp \subseteq 0..stamp'
    BY DEF RunInv, Grows
  <2> QED
    BY <1>1, <2>1 DEF ShownInv
<1>2. ASSUME ApplyLinkDown PROVE ShownInv'
  <2>1. CASE state' = "" /\ pending' = FALSE /\ seen' = 0
    <3>1. stamp' \in Nat /\ seen' = 0
      BY <2>1 DEF RunInv
    <3>2. seen' \in 0..stamp'
      BY <3>1
    <3> QED
      BY <2>1, <3>2, Zenon DEF ShownInv
  <2> QED
    BY <1>1, <1>2, <2>1 DEF ApplyLinkDown, shownvars
<1>3. CASE UNCHANGED vars
  BY <1>1, <1>3 DEF vars, dockvars, shownvars
<1>4. CASE \E s \in Slots : PollChain(s)
  <2> PICK s \in Slots : PollChain(s)
    BY <1>4
  <2>1. CASE PollHealth(s)
    BY <1>1, <1>2, <2>1 DEF PollHealth, dockvars, shownvars
  <2>2. CASE Drop(s) \/ AnswerStatus(s)
    BY <1>1, <2>2 DEF Drop, AnswerStatus, shownvars
  <2>3. CASE HandleStatusReply(s) /\ ~ApplyLinkDown
    <3>1. polls[s].at = "answered" /\ ApplyStatus(polls[s].phase, polls[s].time, controls)
      BY <2>3 DEF HandleStatusReply, StatusArrives
    <3>2. polls[s].phase \in Phase /\ polls[s].time \in 1..stamp
      BY <3>1 DEF ClientTypeOK, Idle, Foreign, Denied, Lost
    <3>3. UNCHANGED stamp
      BY <2>3 DEF HandleStatusReply, Client, evars
    <3> QED
      BY <3>1, <3>2, <3>3, AppliedIsShown
  <2> QED
    BY <1>2, <2>1, <2>2, <2>3 DEF PollChain
<1>5. CASE ControlSteps
  <2> PICK c \in controls : AnswerControl(c) \/ HandleControlReply(c)
    BY <1>5 DEF ControlSteps
  <2>1. CASE AnswerControl(c)
    BY <1>1, <2>1 DEF AnswerControl, dockvars, shownvars
  <2>2. CASE HandleControlReply(c)
    <3>1. c.op = "done" /\ ApplyStatus(c.phase, c.time, controls \ {c}) /\ UNCHANGED stamp
      BY <2>2 DEF HandleControlReply, Client, evars
    <3>2. c.phase \in Phase /\ c.time \in 1..stamp
      BY <3>1, Begun DEF ClientTypeOK
    <3> QED
      BY <3>1, <3>2, AppliedIsShown
  <2> QED
    BY <2>1, <2>2
<1>6. CASE RelayStarts \/ RelayStops \/ RelayDies
  BY <1>2, <1>6 DEF RelayStarts, RelayStops, RelayDies, ProcessStep
<1>7. CASE EngineBoots \/ EngineGoesOn \/ EnginePublishes \/ EngineEnds \/ EngineFails
  BY <1>1, <1>7 DEF EngineBoots, EngineGoesOn, EnginePublishes, EngineEnds, EngineFails, Engine,
                    dockvars, shownvars
<1>8. CASE StreamStarting \/ StreamMoves \/ \E ok \in BOOLEAN : PreflightReturns(ok)
  BY <1>1, <1>8 DEF StreamStarting, StreamMoves, PreflightReturns, Unguarded, shownvars
<1>9. CASE AutoAfterStart \/ ClickToggle \/ ClickDump \/ AnswerNo \/ AnswerToggle \/ AnswerDump
  BY <1>1, <1>9 DEF AutoAfterStart, ClickToggle, ClickDump, Question, AnswerNo, AnswerToggle,
                    AnswerDump, Replied, shownvars
<1>10. CASE OperatorSwitchesScene
  BY <1>1, <1>10 DEF OperatorSwitchesScene, dockvars, shownvars
<1> QED
  BY <1>3, <1>4, <1>5, <1>6, <1>7, <1>8, <1>9, <1>10 DEF Next

(* At most one question and, by GuardInv, one preflight are open.          *)
LoopInv ==
    /\ stream \in {"off", "preflight", "connecting", "connected", "live", "stopping"}
    /\ queued \subseteq {"auto", "block"}
    /\ \A i, j \in DOMAIN frames : frames[i] # Preflight /\ frames[j] # Preflight => i = j

LEMMA LoopStep == GuardInv /\ LoopInv /\ [Next]_vars => LoopInv'
<1> SUFFICES ASSUME GuardInv, LoopInv, [Next]_vars PROVE LoopInv'
  OBVIOUS
<1>1. frames \in Seq(Frame)
  BY DEF GuardInv
<1>2. CASE UNCHANGED guardvars
  BY <1>2 DEF LoopInv, guardvars
<1>3. ASSUME NEW on \in BOOLEAN, Starting(on) PROVE LoopInv'
  <2>1. CASE frames' = frames
    BY <1>3, <2>1 DEF LoopInv, Starting
  <2>2. CASE frames' = <<Preflight>> \o frames
    <3>1. Preflight \in Frame
      BY DEF Preflight, Frame
    <3> HIDE DEF Preflight
    <3>2. \A i \in DOMAIN frames' :
             \/ i = 1 /\ frames'[i] = Preflight
             \/ i > 1 /\ i - 1 \in DOMAIN frames /\ frames'[i] = frames[i - 1]
      BY <1>1, <2>2, <3>1
    <3>3. DOMAIN frames \subseteq Nat /\ DOMAIN frames' \subseteq Nat
      BY <1>1, <2>2, <3>1
    <3> QED
      BY <1>3, <3>2, <3>3 DEF LoopInv, Starting
  <2> QED
    BY <1>3, <2>1, <2>2 DEF Starting
<1>4. ASSUME NEW ok \in BOOLEAN, PreflightEnds(ok) PROVE LoopInv'
  <2>1. \A i \in DOMAIN frames' : i \in Nat /\ i + 1 \in DOMAIN frames /\ frames'[i] = frames[i + 1]
    BY <1>1, <1>4 DEF PreflightEnds
  <2> QED
    BY <1>4, <2>1 DEF LoopInv, PreflightEnds
<1>5. CASE StreamSteps
  BY <1>5 DEF LoopInv, StreamSteps, Connects, Started, BlockActiveStream, Stops, Stopped, Active
<1>6. CASE queued' = queued \ {"auto"} /\ UNCHANGED <<stream, block, frames, failed>>
  BY <1>6 DEF LoopInv
<1>7. ASSUME NEW frame, Opens(frame) PROVE LoopInv'
  <2>1. \A i \in DOMAIN frames' : frames'[i] # Preflight => i = 1
    <3>1. \A i \in DOMAIN frames' : i = 1 \/ (i - 1 \in DOMAIN frames /\ frames'[i] = frames[i - 1])
      BY <1>1, <1>7 DEF Opens
    <3> QED
      BY <1>7, <3>1 DEF Opens, NoQuestion
  <2> QED
    BY <1>7, <2>1 DEF LoopInv, Opens
<1>8. CASE Closes
  <2>1. \A i \in DOMAIN frames' : i \in Nat /\ i + 1 \in DOMAIN frames /\ frames'[i] = frames[i + 1]
    BY <1>1, <1>8 DEF Closes
  <2> QED
    BY <1>8, <2>1 DEF LoopInv, Closes
<1> QED
  BY <1>2, <1>3, <1>4, <1>5, <1>6, <1>7, <1>8, GuardSteps

LEMMA AtMostTwoLoops ==
    ASSUME GuardInv, LoopInv
    PROVE  Len(frames) <= 2
<1> SUFFICES ASSUME Len(frames) >= 3 PROVE FALSE
  BY DEF GuardInv
<1>1. {1, 2, 3} \subseteq DOMAIN frames
  BY DEF GuardInv
<1>2. \A i, j \in {1, 2, 3} : (frames[i] = Preflight <=> frames[j] = Preflight) => i = j
  BY <1>1 DEF GuardInv, LoopInv
<1> QED
  BY <1>2

(* The mode and the automatic request.                                     *)
ModeInv == startDelayed \in BOOLEAN /\ autoTriggered \in BOOLEAN

LEMMA ModeStep == GuardInv /\ ModeInv /\ [Next]_vars => ModeInv'
<1> SUFFICES ASSUME GuardInv, ModeInv, [Next]_vars PROVE ModeInv'
  OBVIOUS
<1> USE DEF ModeInv
<1>1. CASE UNCHANGED vars
  BY <1>1 DEF vars, dockvars, modevars
<1>2. CASE \E s \in Slots : PollChain(s)
  <2> PICK s \in Slots : PollChain(s)
    BY <1>2
  <2>1. CASE PollHealth(s)
    BY <2>1 DEF PollHealth, dockvars, modevars
  <2>2. CASE Drop(s) \/ AnswerStatus(s)
    BY <2>2 DEF Drop, AnswerStatus, modevars
  <2>3. CASE HandleStatusReply(s)
    BY <2>3 DEF HandleStatusReply, ApplyStatus, AutoEnable, modevars
  <2> QED
    BY <2>1, <2>2, <2>3 DEF PollChain
<1>3. CASE ControlSteps
  BY <1>3 DEF ControlSteps, AnswerControl, HandleControlReply, ApplyStatus, AutoEnable, dockvars, modevars
<1>4. CASE RelayStarts \/ RelayStops \/ RelayDies
  BY <1>4 DEF RelayStarts, RelayStops, RelayDies, ProcessStep, modevars
<1>5. CASE EngineBoots \/ EngineGoesOn \/ EnginePublishes \/ EngineEnds \/ EngineFails
  BY <1>5 DEF EngineBoots, EngineGoesOn, EnginePublishes, EngineEnds, EngineFails, Engine, dockvars, modevars
<1>6. CASE StreamStarting \/ \E ok \in BOOLEAN : PreflightReturns(ok)
  BY <1>6 DEF StreamStarting, PreflightReturns, modevars
<1>7. CASE StreamMoves
  BY <1>7, Zenon DEF StreamMoves, StreamOver
<1>8. CASE AutoAfterStart
  BY <1>8 DEF AutoAfterStart, AutoEnable
<1>9. CASE ClickToggle \/ ClickDump \/ OperatorSwitchesScene
  BY <1>9 DEF ClickToggle, ClickDump, Question, OperatorSwitchesScene, dockvars, modevars
<1>10. CASE AnswerNo \/ AnswerDump
  BY <1>10 DEF AnswerNo, AnswerDump
<1>11. CASE AnswerToggle
  <2>1. Head(frames) \in Frame /\ Head(frames).kind = "toggle"
    BY <1>11 DEF AnswerToggle, Asked, GuardInv
  <2>2. Head(frames).checked \in BOOLEAN
    BY <2>1 DEF Frame
  <2>3. startDelayed' = Head(frames).checked
    BY <1>11 DEF AnswerToggle
  <2>4. autoTriggered' \in BOOLEAN
    BY <1>11, Zenon DEF AnswerToggle
  <2> QED
    BY <2>2, <2>3, <2>4
<1> QED
  BY <1>1, <1>2, <1>3, <1>4, <1>5, <1>6, <1>7, <1>8, <1>9, <1>10, <1>11 DEF Next

DockInv ==
    /\ SlateTypeInv /\ LinkInv /\ RunInv /\ ClientTypeOK /\ ShownInv
    /\ GuardInv /\ LoopInv /\ ModeInv

LEMMA DockStart == Init => DockInv
<1> SUFFICES ASSUME Init PROVE DockInv
  OBVIOUS
<1>1. SlateTypeInv
  <2>1. (CHOOSE s \in Scenes : TRUE) \in Scenes
    BY SlatesApart
  <2> QED
    BY <2>1 DEF Init, SlateInit, SlateTypeInv, SlateTypeOK
<1>2. LinkInv /\ RunInv
  <2>1. life = "Idle" /\ session = 0 /\ engine = "off" /\ stamp = 1
    BY DEF Init, Relay!Init
  <2>2. LinkInv
    BY <2>1 DEF Init, ClientInit, LinkInv
  <2> QED
    BY <2>1, <2>2 DEF RunInv
<1>3. ClientTypeOK
  BY DEF Init, ClientInit, ClientTypeOK
<1>4. ShownInv
  <2>1. state = "" /\ pending = FALSE /\ seen = 0 /\ stamp = 1
    BY DEF Init
  <2>2. seen = 0 /\ stamp = 1
    BY <2>1, Zenon
  <2>3. seen \in 0..stamp
    BY <2>2
  <2> QED
    BY <2>1, <2>3, Zenon DEF ShownInv
<1>5. LoopInv
  <2>1. frames = <<>> /\ stream = "off" /\ queued = {}
    BY DEF Init, GuardInit
  <2>2. DOMAIN frames = {}
    BY <2>1
  <2> QED
    BY <2>1, <2>2 DEF LoopInv
<1>6. ModeInv
  BY DockAssumption DEF Init, ModeInv
<1> QED
  BY <1>1, <1>2, <1>3, <1>4, <1>5, <1>6, GuardStart DEF DockInv

LEMMA DockStep == DockInv /\ [Next]_vars => DockInv'
<1> SUFFICES ASSUME DockInv, [Next]_vars PROVE DockInv'
  OBVIOUS
<1>1. /\ SlateTypeInv /\ LinkInv /\ RunInv /\ ClientTypeOK /\ ShownInv
      /\ GuardInv /\ LoopInv /\ ModeInv
  BY DEF DockInv
<1>2. RunInv' /\ Grows
  BY <1>1, RunStep
<1>3. SlateTypeInv' /\ GuardInv' /\ LoopInv' /\ ModeInv'
  BY <1>1, SlateTypeStep, GuardStep, LoopStep, ModeStep
<1>4. ClientTypeOK' /\ ShownInv'
  BY <1>1, <1>2, ClientStep, ShownStep
<1>5. LinkInv'
  BY <1>1, LinkSteps DEF LinkInv
<1> QED
  BY <1>2, <1>3, <1>4, <1>5 DEF DockInv

(* The types; a transition is pending only in a status that is shown; and  *)
(* at most two event loops are nested, however clicks and checks overlap.  *)
THEOREM DockTypeCorrect == Spec => []DockTypeOK
<1>1. DockInv => DockTypeOK
  <2> SUFFICES ASSUME DockInv PROVE DockTypeOK
    OBVIOUS
  <2>1. Len(frames) <= 2
    BY AtMostTwoLoops DEF DockInv
  <2> QED
    BY <2>1 DEF DockInv, DockTypeOK, SlateTypeInv, RunInv, ShownInv, LoopInv, ModeInv
<1> QED
  BY <1>1, DockStart, DockStep, PTL DEF Spec
=============================================================================
