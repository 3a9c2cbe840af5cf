------------------------------ MODULE Programs ------------------------------
(***************************************************************************)
(* Four small state machines, checked side by side: the hosts block of     *)
(* ts-multinet, ts-router, ts-unplug-proxy and ts-plug share no state, so  *)
(* a behaviour runs one of them and the others stay as they are.           *)
(***************************************************************************)
EXTENDS Hosts, Router, UnplugProxy, MultiPlug

VARIABLE program    \* the one that runs

programVars == <<hostsVars, routerVars, proxyVars, plugVars, program>>

ProgramsInit ==
  /\ program \in {"hosts", "router", "proxy", "plug"}
  /\ HostsInit /\ ProxyInit /\ PlugInit
  /\ IF program = "router" THEN RouterInit ELSE routes = {} /\ visit = [at |-> "idle"]

ProgramsNext ==
  \/ program = "hosts" /\ HostsNext /\ UNCHANGED <<routerVars, proxyVars, plugVars, program>>
  \/ program = "router" /\ RouterNext /\ UNCHANGED <<hostsVars, proxyVars, plugVars, program>>
  \/ program = "proxy" /\ ProxyNext /\ UNCHANGED <<hostsVars, routerVars, plugVars, program>>
  \/ program = "plug" /\ PlugNext /\ UNCHANGED <<hostsVars, routerVars, proxyVars, program>>

(* The other three make no promise to go on.  In their behaviours ts-plug  *)
(* stays in its first state, where nothing it is fair to is enabled.       *)
ProgramsSpec == ProgramsInit /\ [][ProgramsNext]_programVars /\ PlugFairness

(* A name that ts-router takes over is served, by the upstream of its      *)
(* route and never by the way it came, except for server names that the    *)
(* file spells with capitals, which no client asks for.  ts-unplug-proxy   *)
(* dials a machine's DNS name at that machine, except where another        *)
(* machine has it for its host name, and never outside the tailnet, except *)
(* under a suffix of its own that it does not know.                        *)
RequestsReachTheirHost ==
  RoutedNames /\ OneUpstream /\ NoFeedback /\ RightMachine /\ StrictStays
=============================================================================
