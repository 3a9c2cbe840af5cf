------------------------------- MODULE Health -------------------------------
(***************************************************************************)
(* The self-heal watchdog of the ts-multinet daemon                        *)
(* (cmd/ts-multinet/control.go): watchNetworkEvents polls for a changed    *)
(* default route or a suspend and signals healthWatch, which probes every  *)
(* tailnet, on a timer and, "forced", after such a signal, and restarts    *)
(* the unhealthy ones.  Requests of the user stop, start and reset         *)
(* tailnets meanwhile.                                                     *)
(*                                                                         *)
(* Time passes in ticks of the health timer.  The watchdog's memory holds  *)
(* the age of its two timestamps, which stops growing where needsRestart   *)
(* can no longer tell the difference (the zero time is oldest).  A request *)
(* and a restart hold cfgMu: one step each.  Module Daemon looks inside.   *)
(***************************************************************************)
EXTENDS Naturals, FiniteSets

CONSTANTS
  Name,            \* tailnets of the config
  Route,           \* default routes
  NoRoute,         \* offline
  NoName,
  UnhealthyAfter,  \* in ticks
  RestartCooldown, \* in ticks
  Blips,           \* may the route change twice between two polls?
  MaxRequests,     \* bound: requests of the user
  MaxDeaths        \* bound: forwarders that exit unexpectedly

ASSUME HealthAssumption ==
  /\ NoRoute \notin Route /\ NoName \notin Name
  /\ UnhealthyAfter \in Nat /\ RestartCooldown \in Nat \ {0}
  /\ Blips \in BOOLEAN
  /\ MaxRequests \in Nat /\ MaxDeaths \in Nat

VARIABLES
  live,     \* tailnets with an instance
  online,   \* those whose node would answer the probe
  exited,   \* those whose forwarder exited
  enrolled, \* history: tailnets whose present identity has been online
  health,   \* d.health: [ever, sinceOnline, sinceRestart] of each tailnet
  route,    \* the default route of the host
  slept,    \* the host was suspended since the last poll
  polled,   \* the route the last poll saw (lastRoutes)
  event,    \* the buffered event channel holds a signal
  tick,     \* the ticker channel holds a tick
  at,       \* healthWatch: "select", "settling", "pass", "restarting"
  force,    \* the pass is forced
  todo,     \* tailnets this pass has yet to probe -> state of that instance
  victim,   \* the tailnet being restarted
  quiet,    \* history: ticks since the watchdog restarted a tailnet
  missed,   \* history: a poll saw the network change, no forced pass since
  used      \* what has been used of each bound

nodeVars == <<live, online, exited, enrolled>>
netVars == <<route, slept, polled>>
loopVars == <<at, force, todo, victim>>
vars == <<nodeVars, health, netVars, event, tick, loopVars, missed, quiet, used>>

NoMemory == [ever |-> FALSE, sinceOnline |-> UnhealthyAfter + 1,
             sinceRestart |-> RestartCooldown]

HealthInit ==
  /\ live \in SUBSET Name
  /\ online = {} /\ exited = {} /\ enrolled = {}
  /\ health = [n \in Name |-> NoMemory]
  /\ route \in Route /\ polled = route /\ slept = FALSE
  /\ event = FALSE /\ tick = FALSE
  /\ at = "select" /\ force = FALSE /\ victim = NoName
  /\ todo = [n \in {} |-> "current"]
  /\ quiet = [n \in Name |-> RestartCooldown]
  /\ missed = FALSE
  /\ used = [requests |-> 0, deaths |-> 0]
-----------------------------------------------------------------------------
(* Poll of watchNetworkEvents: a coalesced send to a channel with room for *)
(* one signal.                                                             *)
Changed == polled # route \/ slept

(* A slip: a signal channel without room. *)
PollUnbuffered ==
  /\ Changed
  /\ polled' = route /\ slept' = FALSE
  /\ event' = (event \/ at = "select")
  /\ missed' = TRUE
  /\ UNCHANGED <<nodeVars, health, route, tick, loopVars, used, quiet>>

PollNetwork ==
  /\ Changed
  /\ polled' = route /\ slept' = FALSE
  /\ event' = TRUE
  /\ missed' = TRUE
  /\ UNCHANGED <<nodeVars, health, route, tick, loopVars, used, quiet>>

Older(h) ==
  [h EXCEPT !.sinceOnline = IF @ > UnhealthyAfter THEN @ ELSE @ + 1,
            !.sinceRestart = IF @ = RestartCooldown THEN @ ELSE @ + 1]

(* The timer: a tick that healthWatch has not taken yet is dropped. *)
Tick ==
  /\ tick' = TRUE
  /\ health' = [n \in Name |-> Older(health[n])]
  /\ quiet' = [n \in Name |->
                 IF quiet[n] = RestartCooldown THEN quiet[n] ELSE quiet[n] + 1]
  /\ UNCHANGED <<nodeVars, netVars, event, loopVars, missed, used>>

BeginPass(forced) ==
  /\ at' = "pass"
  /\ force' = forced
  /\ todo' = [n \in live |-> "current"]
  /\ UNCHANGED victim

TakeTick ==
  /\ at = "select" /\ tick
  /\ tick' = FALSE
  /\ BeginPass(FALSE)
  /\ UNCHANGED <<nodeVars, health, netVars, event, missed, used, quiet>>

TakeEvent ==
  /\ at = "select" /\ event
  /\ event' = FALSE
  /\ at' = "settling"
  /\ UNCHANGED <<nodeVars, health, netVars, tick, force, todo, victim,
                 missed, used, quiet>>

(* resumeSettle is over: the event is dropped if there is no route. *)
Settled ==
  /\ at = "settling"
  /\ IF route = NoRoute
     THEN at' = "select" /\ UNCHANGED <<force, todo, victim, missed>>
     ELSE BeginPass(TRUE) /\ missed' = FALSE
  /\ UNCHANGED <<nodeVars, health, netVars, event, tick, used, quiet>>
-----------------------------------------------------------------------------
NeedsRestart(h, forwarderDead, forced) ==
  /\ h.sinceRestart >= RestartCooldown
  /\ \/ forwarderDead
     \/ forced /\ h.ever
     \/ h.ever /\ h.sinceOnline > UnhealthyAfter

(* tailnetOnline and forwarderDead of the instance in the snapshot: one    *)
(* that was closed since answers no probe.                                 *)
ProbedOnline(n) == todo[n] = "current" /\ n \in online
ProbedDead(n) == IF todo[n] = "current" THEN n \in exited ELSE todo[n] = "closedDead"

Observed(n) ==
  IF ProbedOnline(n)
  THEN [health[n] EXCEPT !.ever = TRUE, !.sinceOnline = 0]
  ELSE health[n]

(* lastOnline moved whatever the probe said. *)
ProbeRefreshes(n) ==
  /\ at = "pass" /\ n \in DOMAIN todo
  /\ LET h == [Observed(n) EXCEPT !.sinceOnline = 0] IN
     IF NeedsRestart(h, ProbedDead(n), force)
     THEN /\ health' = [health EXCEPT ![n] = [h EXCEPT !.sinceRestart = 0]]
          /\ at' = "restarting" /\ victim' = n
          /\ quiet' = [quiet EXCEPT ![n] = 0]
     ELSE health' = [health EXCEPT ![n] = h] /\ UNCHANGED <<at, victim, quiet>>
  /\ todo' = [m \in DOMAIN todo \ {n} |-> todo[m]]
  /\ UNCHANGED <<nodeVars, netVars, event, tick, force, missed, used>>

(* lastRestart not recorded. *)
ProbeNoCooldown(n) ==
  /\ at = "pass" /\ n \in DOMAIN todo
  /\ LET h == Observed(n) IN
     IF NeedsRestart(h, ProbedDead(n), force)
     THEN /\ health' = [health EXCEPT ![n] = [h EXCEPT !.sinceOnline = 0]]
          /\ at' = "restarting" /\ victim' = n
          /\ quiet' = [quiet EXCEPT ![n] = 0]
     ELSE health' = [health EXCEPT ![n] = h] /\ UNCHANGED <<at, victim, quiet>>
  /\ todo' = [m \in DOMAIN todo \ {n} |-> todo[m]]
  /\ UNCHANGED <<nodeVars, netVars, event, tick, force, missed, used>>

(* One round of checkHealth, up to the restart. *)
Probe(n) ==
  /\ at = "pass" /\ n \in DOMAIN todo
  /\ LET h == Observed(n) IN
     IF NeedsRestart(h, ProbedDead(n), force)
     THEN /\ health' = [health EXCEPT ![n] =
                          [h EXCEPT !.sinceRestart = 0, !.sinceOnline = 0]]
          /\ at' = "restarting" /\ victim' = n
          /\ quiet' = [quiet EXCEPT ![n] = 0]
     ELSE health' = [health EXCEPT ![n] = h] /\ UNCHANGED <<at, victim, quiet>>
  /\ todo' = [m \in DOMAIN todo \ {n} |-> todo[m]]
  /\ UNCHANGED <<nodeVars, netVars, event, tick, force, missed, used>>

(* restartTailnet looks the tailnet up by name; its new instance starts    *)
(* offline, or does not start at all.                                      *)
RestartVictim ==
  /\ at = "restarting"
  /\ live' \in {live, live \ {victim}}
  /\ online' = online \ {victim} /\ exited' = exited \ {victim}
  /\ at' = "pass" /\ victim' = NoName
  /\ UNCHANGED <<enrolled, health, netVars, event, tick, force, todo, missed,
                 used, quiet>>

EndPass ==
  /\ at = "pass" /\ todo = [n \in {} |-> "current"]
  /\ at' = "select"
  /\ UNCHANGED <<nodeVars, health, netVars, event, tick, force, todo, victim,
                 missed, used, quiet>>
-----------------------------------------------------------------------------
(* A slip: a closed node still counts as online. *)
CloseKeepsOnline(n) ==
  /\ exited' = exited \ {n} /\ UNCHANGED online
  /\ todo' = [m \in DOMAIN todo |-> IF m = n THEN "closed" ELSE todo[m]]

(* Requests.  The watchdog's snapshot keeps the instance that was closed;  *)
(* its memory is keyed by name and no request touches it.                  *)
CloseInstance(n) ==
  /\ online' = online \ {n} /\ exited' = exited \ {n}
  /\ todo' = [m \in DOMAIN todo |->
                IF m # n \/ todo[m] # "current" THEN todo[m]
                ELSE IF n \in exited THEN "closedDead" ELSE "closed"]

Request == used.requests < MaxRequests /\ used' = [used EXCEPT !.requests = @ + 1]

Enable(n) ==
  /\ Request /\ n \notin live
  /\ live' = live \cup {n}
  /\ UNCHANGED <<online, exited, enrolled, health, netVars, event, tick,
                 loopVars, missed, quiet>>

Disable(n) ==
  /\ Request /\ n \in live
  /\ live' = live \ {n}
  /\ CloseInstance(n)
  /\ UNCHANGED <<enrolled, health, netVars, event, tick, at, force, victim,
                 missed, quiet>>

ResetIdentity(n) ==
  /\ Request
  /\ live' = live \ {n} /\ enrolled' = enrolled \ {n}
  /\ CloseInstance(n)
  /\ UNCHANGED <<health, netVars, event, tick, at, force, victim, missed,
                 quiet>>

HandleRestart(n) ==
  /\ Request /\ n \in live
  /\ live' \in {live, live \ {n}}
  /\ CloseInstance(n)
  /\ UNCHANGED <<enrolled, health, netVars, event, tick, at, force, victim,
                 missed, quiet>>
-----------------------------------------------------------------------------
(* The environment: nodes, forwarders, the network and the lid. *)
GoesOnline(n) ==
  /\ n \in live \ online /\ route # NoRoute
  /\ online' = online \cup {n} /\ enrolled' = enrolled \cup {n}
  /\ UNCHANGED <<live, exited, health, netVars, event, tick, loopVars, missed,
                 used, quiet>>

GoesDark(n) ==
  /\ n \in online
  /\ online' = online \ {n}
  /\ UNCHANGED <<live, exited, enrolled, health, netVars, event, tick,
                 loopVars, missed, used, quiet>>

ForwarderDies(n) ==
  /\ n \in live \ exited
  /\ used.deaths < MaxDeaths /\ used' = [used EXCEPT !.deaths = @ + 1]
  /\ exited' = exited \cup {n}
  /\ UNCHANGED <<live, online, enrolled, health, netVars, event, tick,
                 loopVars, missed, quiet>>

RouteChanges ==
  /\ Blips \/ polled = route
  /\ route' \in (Route \cup {NoRoute}) \ {route}
  /\ online' = IF route' = NoRoute THEN {} ELSE online
  /\ UNCHANGED <<live, exited, enrolled, health, slept, polled, event, tick,
                 loopVars, missed, used, quiet>>

Sleeps ==
  /\ ~slept
  /\ slept' = TRUE
  /\ UNCHANGED <<nodeVars, health, route, polled, event, tick, loopVars,
                 missed, used, quiet>>

WatchLoop == \/ TakeTick \/ TakeEvent \/ Settled \/ RestartVictim \/ EndPass
             \/ \E n \in Name : Probe(n)

HealthNext ==
  \/ PollNetwork \/ Tick \/ WatchLoop \/ RouteChanges \/ Sleeps
  \/ \E n \in Name : \/ Enable(n) \/ Disable(n) \/ ResetIdentity(n) \/ HandleRestart(n)
                     \/ GoesOnline(n) \/ GoesDark(n) \/ ForwarderDies(n)

(* Timers fire, probes and restarts end, and a Go select with two ready    *)
(* cases picks at random: each is taken again and again.                   *)
HealthFairness ==
  /\ WF_vars(PollNetwork) /\ WF_vars(Tick) /\ WF_vars(WatchLoop)
  /\ SF_vars(TakeTick) /\ SF_vars(TakeEvent)

HealthSpec == HealthInit /\ [][HealthNext]_vars /\ HealthFairness
-----------------------------------------------------------------------------
Memory == [ever : BOOLEAN, sinceOnline : 0 .. UnhealthyAfter + 1,
           sinceRestart : 0 .. RestartCooldown]

HealthTypeOK ==
  /\ live \subseteq Name /\ online \subseteq live /\ exited \subseteq live
  /\ enrolled \subseteq Name
  /\ health \in [Name -> Memory] /\ quiet \in [Name -> 0 .. RestartCooldown]
  /\ route \in Route \cup {NoRoute} /\ polled \in Route \cup {NoRoute}
  /\ at \in {"select", "settling", "pass", "restarting"}
  /\ DOMAIN todo \subseteq Name
  /\ \A n \in DOMAIN todo : todo[n] \in {"current", "closed", "closedDead"}
  /\ at = "restarting" <=> victim \in Name

(* The watchdog's record of its last restart of a tailnet is as old as the *)
(* restart, though requests drop the record of what they close and passes  *)
(* write back what they read before.                                       *)
RecordIsTrue == \A n \in Name : health[n].sinceRestart = quiet[n]

HealthInv == HealthTypeOK /\ RecordIsTrue

(* The step by which the watchdog decides to restart n. *)
Restarts(n) == at = "pass" /\ at' = "restarting" /\ victim' = n

(* A long outage does not thrash a tailnet (comment on the constants):     *)
(* between two restarts by the watchdog the whole cooldown passes, also if *)
(* the tailnet was stopped, reset or restarted by a request in between.    *)
RestartsSpaced ==
  [][\A n \in Name : Restarts(n) => quiet[n] = RestartCooldown]_vars

(* The watchdog's purpose: a live tailnet that has been seen online and    *)
(* stays offline is restarted, and again after every cooldown; one with a  *)
(* dead forwarder as well, whether it was ever online or not.              *)
Dark(n) == n \in live /\ ((health[n].ever /\ n \notin online) \/ n \in exited)

DarkNodeRestarted ==
  \A n \in Name : Dark(n) ~> (~Dark(n) \/ health[n].sinceRestart = 0)

(* A resume or a network switch that a poll saw gets a forced pass, unless *)
(* the host is offline, also if it happens during a pass or while another  *)
(* one settles (comment in healthWatch: "drop the event: the route         *)
(* returning fires a fresh one").                                          *)
NetworkChangeHandled == (missed /\ route # NoRoute) ~> (~missed \/ route = NoRoute)

(* A forced pass restarts what is dark (README, Recovery: "dark tailnets   *)
(* are restarted right away"): not a node that has just answered the probe *)
(* and whose forwarder lives.                                              *)
HealthyLeftAlone ==
  [][\A n \in Name : Restarts(n) => ~ProbedOnline(n) \/ ProbedDead(n)]_vars

(* "a node that never connected must not be restarted" (comment on         *)
(* tailnetHealth), unless its forwarder died.                              *)
NeverConnectedLeftAlone ==
  [][\A n \in Name : Restarts(n) => n \in enrolled \/ ProbedDead(n)]_vars
=============================================================================
