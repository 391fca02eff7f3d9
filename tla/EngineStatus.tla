---------------------------- MODULE EngineStatus ----------------------------
(***************************************************************************)
(* The relay engine as its clients see it: the phases of its operations,   *)
(* each with the status it reports (buildSnapshot and the Run*Sequence     *)
(* functions of internal/state/machine.go; RelayMachine models the engine  *)
(* itself).  A phase is a state, which slate message is shown with a       *)
(* countdown, and whether a transition is pending.  updatedAt is a counter *)
(* here: two changes may fall into the same millisecond.                   *)
(***************************************************************************)
EXTENDS Naturals

VARIABLES
    engine,    \* its phase; "off" when nothing listens
    stamp      \* updatedAt, in the milliseconds the plugin keeps of it

evars == <<engine, stamp>>

Status(state, slate, pending) == [state |-> state, slate |-> slate, pending |-> pending]

Reported ==
    [ready     |-> Status("READY", "none", FALSE),
     error     |-> Status("ERROR", "none", FALSE),
     live      |-> Status("REALTIME", "none", FALSE),
     filling   |-> Status("BUFFERING_TO_DELAY", "none", TRUE),
     holding   |-> Status("SAFE_HOLD", "enable", TRUE),
     filled    |-> Status("DELAYED", "enable", TRUE),
     delayed   |-> Status("DELAYED", "none", FALSE),
     draining  |-> Status("RETURNING_TO_REALTIME", "return", TRUE),
     dumping   |-> Status("DUMPING", "none", TRUE),
     dumped    |-> Status("SAFE_HOLD", "none", TRUE),
     switching |-> Status("SAFE_HOLD", "return", TRUE),
     switched  |-> Status("REALTIME", "return", TRUE)]

Phase == DOMAIN Reported

(* What the goroutine of an accepted operation does next.  The message and *)
(* the claim are given up after the last change of state.                  *)
Follows ==
    {<<"filling", "holding">>, <<"holding", "filled">>, <<"filled", "delayed">>,
     <<"draining", "switching">>, <<"dumping", "dumped">>, <<"dumped", "switching">>,
     <<"switching", "switched">>, <<"switched", "live">>}

Hasty == {<<"holding", "filled">>, <<"filled", "delayed">>, <<"switching", "switched">>,
          <<"switched", "live">>}

(* What a control request starts, from where it is accepted.               *)
Begins ==
    [enable |-> <<"live", "filling">>, return |-> <<"delayed", "draining">>,
     dump |-> <<"delayed", "dumping">>]

(* A phase that only ends an operation may share the millisecond of the    *)
(* change before it; all others wait for something in between.             *)
Tick == stamp' \in {stamp + 1} \cup {t \in {stamp} : <<engine, engine'>> \in Hasty}

Boot == engine = "off" /\ engine' = "ready" /\ Tick

Continue == \E to \in Phase : <<engine, to>> \in Follows /\ engine' = to /\ Tick

(* OBS publishes, with the output up; the session ends; a fatal error.     *)
SessionBegins == engine = "ready" /\ engine' = "live" /\ Tick
SessionEnds == engine \notin {"off", "ready"} /\ engine' = "ready" /\ Tick
Fail == engine \notin {"off", "ready", "error"} /\ engine' = "error" /\ Tick

Accept(op) == engine = Begins[op][1] /\ engine' = Begins[op][2] /\ Tick
=============================================================================
