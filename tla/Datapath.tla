------------------------------ MODULE Datapath ------------------------------
(***************************************************************************)
(* The data path of one ts-multinet tailnet over its life: startTailnet    *)
(* and Close (cmd/ts-multinet/tailnet.go), stopTailnet (control.go), the   *)
(* shutdown of the daemon (ts-multinet.go), composed with the forwarder    *)
(* and with the link's registration.  Closing the TUN removes the link and *)
(* with it what resolved knows of it; the cache of resolvedSync outlives   *)
(* the tailnet.                                                            *)
(***************************************************************************)
EXTENDS Forwarder, Resolved

CONSTANTS
  MaxStarts,    \* bound: starts of the tailnet
  MaxFaults     \* bound: edits, resolved restarts and failed calls, together

ASSUME DatapathAssumption ==
  /\ NoKey \notin Key
  /\ MaxStarts \in Nat /\ MaxFaults \in Nat

VARIABLES
  inst,     \* where the tailnet is between start and stop
  starts, faults

dpVars == <<fwdVars, resVars, inst, starts, faults>>

Frame == UNCHANGED <<inst, starts, faults>>
-----------------------------------------------------------------------------
DpInit ==
  /\ inst = "down" /\ starts = 0 /\ faults = 0
  /\ tun = FALSE /\ ctx = FALSE /\ pumps = {} /\ errc = <<>>
  /\ run = [at |-> "done", left |-> 0, err |-> "nil"] /\ dead = FALSE
  /\ flow = NoFlow /\ copies = {} /\ reports = 0
  /\ enabled \in BOOLEAN /\ link = NoLink /\ cache = Uncached /\ key \in Key
  /\ reg = [at |-> "exited", key |-> NoKey] /\ reverting = FALSE

(* startTailnet: TUN, pumps and watcher.                                   *)
Start ==
  /\ inst = "down" /\ starts < MaxStarts
  /\ inst' = "up" /\ starts' = starts + 1
  /\ tun' = TRUE /\ ctx' = TRUE /\ pumps' = Pump /\ errc' = <<>>
  /\ run' = [at |-> "select", left |-> 2, err |-> "nil"] /\ dead' = FALSE
  /\ link' = FreshLink /\ reg' = [at |-> "poll", key |-> NoKey]
  /\ UNCHANGED <<flow, copies, reports, enabled, cache, key, reverting, faults>>

(* stopTailnet: for a stop, a restart, or the watchdog that saw it dead.   *)
Stop ==
  /\ inst = "up"
  /\ Revert
  /\ inst' = "stopping"
  /\ UNCHANGED <<fwdVars, starts, faults>>

CancelThenClose(at) ==
  /\ inst = at /\ ~reverting /\ ctx
  /\ ctx' = FALSE
  /\ UNCHANGED <<resVars, tun, pumps, errc, run, dead, flow, copies, reports>>
  /\ Frame

(* Close: cancel, after resolvectl revert has returned.                    *)
Cancel == CancelThenClose("stopping")

(* The daemon ends: its context is cancelled first, then revertAll, then   *)
(* Close of every tailnet.                                                 *)
Shutdown ==
  /\ inst = "up"
  /\ ctx' = FALSE /\ inst' = "shutdown"
  /\ UNCHANGED <<resVars, tun, pumps, errc, run, dead, flow, copies, reports, starts, faults>>

RevertAll ==
  /\ inst = "shutdown"
  /\ Revert
  /\ inst' = "leaving"
  /\ UNCHANGED <<fwdVars, starts, faults>>

(* The watcher sees the cancelled context at its next poll.                *)
WatcherExits ==
  /\ reg.at = "poll" /\ ~ctx
  /\ reg' = [reg EXCEPT !.at = "exited"]
  /\ UNCHANGED <<fwdVars, enabled, link, cache, key, reverting>> /\ Frame

(* Close has waited for the forwarder and the watcher; the node closes,    *)
(* and the connections dialed through it.                                  *)
Closed ==
  /\ inst \in {"stopping", "leaving"} /\ ~ctx /\ ~reverting
  /\ run.at = "done" /\ reg.at = "exited"
  /\ inst' = IF inst = "stopping" THEN "down" ELSE "exited"
  /\ flow' = [flow EXCEPT !.remote = IF @ = "open" /\ flow.kind # "pipe" THEN "closed" ELSE @]
  /\ UNCHANGED <<resVars, tun, ctx, pumps, errc, run, dead, copies, reports, starts, faults>>
-----------------------------------------------------------------------------
(* run closes the TUN when it leaves its select, and the link is gone.     *)
SelectAndClose ==
  /\ Select
  /\ link' = IF tun' THEN link ELSE NoLink
  /\ UNCHANGED <<enabled, cache, key, reg, reverting>> /\ Frame

Fault == faults < MaxFaults /\ faults' = faults + 1 /\ UNCHANGED <<fwdVars, inst, starts>>

(* Bound: flows are played on hosts without resolved, a container for one: *)
(* the two have nothing in common.                                         *)
FlowStep ==
  \/ ~enabled /\ \E kind \in {"tcp", "udp", "pipe"} : Begin(kind)
  \/ Dial \/ DialFails \/ Accept \/ AcceptFails
  \/ \E c \in copies : CopyEnds(c) \/ CopyAborts(c)
  \/ CloseBoth \/ Forget

ForwarderStep ==
  \/ \E p \in Pump : PumpFails(p)
  \/ PumpStops \/ Join \/ Return
  \/ FlowStep

RegistrationStep ==
  \/ (ctx /\ Poll) \/ Register \/ SetDomains \/ SetServer \/ Record
  \/ Age \/ RunRevert

DpNext ==
  \/ Start \/ Stop \/ Cancel \/ Shutdown \/ RevertAll \/ WatcherExits \/ Closed
  \/ SelectAndClose
  \/ ForwarderStep /\ UNCHANGED resVars /\ Frame
  \/ RegistrationStep /\ UNCHANGED fwdVars /\ Frame
  \/ Fault /\ (CallFails \/ ResolvedRestarts \/ \E k \in Key \ {key} : EditDomain(k))

(* Every goroutine that can go on does, a call returns, a dial has a time  *)
(* limit, the refresh interval passes, and the watchdog stops a tailnet    *)
(* whose forwarder is dead.  Nothing makes a pump fail, a copy end or      *)
(* anybody stop a healthy tailnet.                                         *)
Fwd(A) == A /\ UNCHANGED resVars /\ Frame
Res(A) == A /\ UNCHANGED fwdVars /\ Frame

DpSpec ==
  /\ DpInit /\ [][DpNext]_dpVars
  /\ WF_dpVars(dead /\ Stop)
  /\ WF_dpVars(Cancel) /\ WF_dpVars(RevertAll) /\ WF_dpVars(WatcherExits) /\ WF_dpVars(Closed)
  /\ WF_dpVars(SelectAndClose)
  /\ WF_dpVars(Fwd(PumpStops)) /\ WF_dpVars(Fwd(Join)) /\ WF_dpVars(Fwd(Return))
  /\ WF_dpVars(Fwd(Dial \/ DialFails)) /\ WF_dpVars(Fwd(Accept \/ AcceptFails))
  /\ WF_dpVars(Fwd(\E c \in copies : CopyAborts(c))) /\ WF_dpVars(Fwd(CloseBoth))
  /\ WF_dpVars(Res(ctx /\ Poll)) /\ WF_dpVars(Res(Register \/ SetDomains \/ SetServer \/ Record))
  /\ WF_dpVars(Res(Age)) /\ WF_dpVars(Res(RunRevert))
-----------------------------------------------------------------------------
(* What holds in every state of the data path: types, and the three safety *)
(* properties of the parts: an accepted connection is a real one, a flow   *)
(* that is over has closed both its sides, and the link is a resolver only *)
(* for the tailnet's names.                                                *)
DpInv ==
  /\ FwdInv /\ ResInv
  /\ inst \in {"down", "up", "stopping", "shutdown", "leaving", "exited"}
  /\ starts \in 0 .. MaxStarts /\ faults \in 0 .. MaxFaults

(* A pump that dies is noticed: the forwarder is reported dead, unless the *)
(* tailnet is being stopped anyway ("silently living on with a half-dead   *)
(* pump" is what run must not do, forwarder.go).                           *)
PumpDeathReported == (inst = "up" /\ pumps # Pump) ~> (dead \/ inst # "up")

(* A stop ends: Close waits for the forwarder and the watcher, the run     *)
(* of the forwarder for both pumps, a pump for a packet that may not come. *)
StopEnds == inst \in {"stopping", "shutdown", "leaving"} ~> inst \in {"down", "exited"}

(* A link that stays up ends up with the routing domains of the current    *)
(* configuration and with our server, whatever resolved forgets and        *)
(* whichever stale entry the last instance left in the cache.              *)
LinkConfigured == []<>(enabled /\ inst = "up" /\ link.up => Configured)

(* No goroutine is left behind: once one direction of a flow has ended, or *)
(* the tailnet under it, so does the other.                                *)
FlowReaped ==
  /\ (flow.at \in {"splice", "over"} /\ Cardinality(copies) = 1) ~> copies = {}
  /\ (flow.kind # "pipe" /\ copies # {} /\ run.at = "done") ~> copies = {}
=============================================================================
