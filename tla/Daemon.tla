------------------------------- MODULE Daemon -------------------------------
(***************************************************************************)
(* The life of the tailnets in the ts-multinet daemon                      *)
(* (cmd/ts-multinet/control.go, tailnet.go): syncTailnets makes the        *)
(* running set match the config file, restartTailnet and the busy-TUN      *)
(* retry restart single tailnets, a watcher per tailnet follows its node   *)
(* and applySelections rewrites the managed block of the hosts file.  The  *)
(* registry is the one of module Registry, its operations unchanged.       *)
(*                                                                         *)
(* Steps are cut at the locks of the code.  d.cfgMu serializes sync,       *)
(* restart and retry: "op" is the operation that holds it, and where it    *)
(* is.  d.mu ("mu") guards the list of tailnets and is held for the whole  *)
(* of applySelections.                                                     *)
(*                                                                         *)
(* Abstractions.  A "slot" is the cidr, the TUN name and the other         *)
(* structural fields of a config entry: the ones whose change is a stop    *)
(* and a start.  Nothing keeps the slots of a file apart: two entries may  *)
(* share a device, a range or both.  Each tailnet selects one of its       *)
(* hosts.  The three quick TUN attempts of startWithTUNRetry are one       *)
(* attempt, which fails only while somebody holds the device.              *)
(***************************************************************************)
EXTENDS Registry

CONSTANTS
  Tailnet,     \* the names that occur in the config file
  Slot,        \* structural configurations
  CidrOf,      \* slot -> its synthetic range
  DevOf,       \* slot -> its TUN name
  Files,       \* the contents the config file may be given, all of them in Config
  NoSlot,      \* no entry in the config, or no instance running
  NoName,
  Hosts,       \* tailnet -> the names of its hosts
  Selected,    \* tailnet -> the host its config selects
  MaxEdits,    \* bound: configuration changes
  MaxRestarts, \* bound: restarts in place
  MaxDrops,    \* bound: a node leaves Running
  MaxPushes,   \* bound: netmap pushes
  MaxFaults,   \* bound: starts that fail for another reason than a busy TUN
  MaxMisses,   \* bound: applies that skip a tailnet or cannot write the block
  Waits        \* length of tunRetryBackoff

(* parseConfig looks at each entry by itself: two entries may have one     *)
(* device or overlapping ranges.  checkCIDR and checkTUN keep the daemon's *)
(* own requests from that, before they take cfgMu, and see no hand edit.   *)
Config == {f \in [Tailnet -> [enabled : BOOLEAN, slot : Slot \cup {NoSlot}]] :
             \A n \in Tailnet : f[n].slot = NoSlot => ~f[n].enabled}

(* The hosts of two tailnets have the suffixes of these tailnets.          *)
ASSUME DaemonAssumption ==
  /\ Tailnet \subseteq Name
  /\ CidrOf \in [Slot -> CIDR]
  /\ DOMAIN DevOf = Slot
  /\ Files \subseteq Config
  /\ \A m, n \in Tailnet : m # n => Hosts[m] \cap Hosts[n] = {}
  /\ NoSlot \notin Slot
  /\ NoName \notin Tailnet
  /\ \A m, n \in Tailnet : Lower[m] = Lower[n] => m = n
  /\ \A n \in Tailnet : Selected[n] \in Hosts[n] /\ Hosts[n] \subseteq FQDN
  /\ Waits \in Nat /\ MaxEdits \in Nat /\ MaxRestarts \in Nat
  /\ MaxDrops \in Nat /\ MaxPushes \in Nat /\ MaxFaults \in Nat /\ MaxMisses \in Nat

VARIABLES
  file,      \* the config file: name -> [enabled, slot], slot = NoSlot if absent
  shared,    \* history: a file so far gave two wanted tailnets one address range
  live,      \* d.tailnets, the names in it
  running,   \* name -> slot of the instance whose goroutines run, or NoSlot
  backend,   \* names whose node is Running
  seen,      \* names whose watcher recorded Running (tn.state)
  notified,  \* names whose watcher has called onRunning (runningNotified)
  callbacks, \* <<"watch" | "netmap", name>>: pending calls of onRunning
  lingering, \* TUN names the kernel has not released yet
  retry,     \* name -> attempts left of the background retry; Waits + 1: none
  hosts,     \* the managed hosts block: <<name, host, address>>
  missed,    \* tailnets that the last applySelections skipped
  unwritten, \* the last applySelections could not write the block
  mu,        \* holder of d.mu: NoHolder, OpHolder, or a callback
  op,        \* holder of d.cfgMu: [kind, at, tn, slot, tried]
  dropped,   \* history: instances that were recorded as no longer Running
  used       \* what has been used of each bound

fileVars == <<file, shared>>

hostsVars == <<hosts, missed, unwritten>>

daemonVars == <<fileVars, live, running, backend, seen, notified, callbacks,
                lingering, retry, hostsVars, mu, op, dropped, used>>

vars == <<regVars, daemonVars>>

NoOp == [kind |-> "none", at |-> "idle", tn |-> NoName, slot |-> NoSlot, tried |-> {}]

NoHolder == <<"free", NoName>>

OpHolder == <<"op", NoName>>

Idle == op.kind = "none"

NoRetry == Waits + 1

Use(bound, max) == used[bound] < max /\ used' = [used EXCEPT ![bound] = @ + 1]

Wanted(n) == file[n].slot # NoSlot /\ file[n].enabled

Device == {DevOf[s] : s \in Slot}

(* The tailnets that a file starts have ranges of their own.               *)
RangesApart(f) ==
  \A m, n \in {k \in Tailnet : f[k].slot # NoSlot /\ f[k].enabled} :
     m # n => ~Overlap(CidrOf[f[m].slot], CidrOf[f[n].slot])

(* TUNSETIFF fails while an instance or the kernel still has the name.     *)
Busy(s) == DevOf[s] \in lingering \/ \E m \in Tailnet : running[m] # NoSlot /\ DevOf[running[m]] = DevOf[s]
-----------------------------------------------------------------------------
DaemonInit ==
  /\ RegInit
  /\ file = [n \in Tailnet |-> [enabled |-> FALSE, slot |-> NoSlot]]
  /\ shared = FALSE
  /\ live = {} /\ backend = {} /\ seen = {} /\ notified = {} /\ callbacks = {}
  /\ running = [n \in Tailnet |-> NoSlot]
  /\ lingering \in SUBSET Device   \* a predecessor process may still hold devices
  /\ retry = [n \in Tailnet |-> NoRetry]
  /\ hosts = {} /\ missed = {} /\ unwritten = FALSE
  /\ mu = NoHolder
  /\ op = NoOp
  /\ dropped = {}
  /\ used = [b \in {"edits", "restarts", "drops", "pushes", "faults", "misses"} |-> 0]

(* applyConfigUpdate writes the file and syncs to it; reload syncs to a    *)
(* file edited by hand.                                                    *)
BeginSync ==
  /\ Idle
  /\ Use("edits", MaxEdits)
  /\ \E f \in Files \ {file} : file' = f /\ shared' = (shared \/ ~RangesApart(f))
  /\ op' = [NoOp EXCEPT !.kind = "sync", !.at = "stops"]
  /\ UNCHANGED <<regVars, live, running, backend, seen, notified, callbacks,
                 lingering, retry, hostsVars, mu, dropped>>

(* The stop pass: gone from the config, disabled, or structurally changed. *)
ToStop == {n \in live : ~Wanted(n) \/ file[n].slot # running[n]}

(* A slip: d.mu is held over the stop. *)
UnlistKeepsMu(n) ==
  /\ mu = NoHolder
  /\ mu' = OpHolder
  /\ live' = live \ {n}
  /\ op' = [op EXCEPT !.at = "unlisted", !.tn = n]
  /\ UNCHANGED <<regVars, fileVars, running, backend, seen, notified, callbacks,
                 lingering, retry, hostsVars, dropped, used>>

Unlist(n) ==
  /\ mu = NoHolder
  /\ live' = live \ {n}
  /\ op' = [op EXCEPT !.at = "unlisted", !.tn = n]
  /\ UNCHANGED <<regVars, fileVars, running, backend, seen, notified, callbacks,
                 lingering, retry, hostsVars, mu, dropped, used>>

SyncStop == op.at = "stops" /\ \E n \in ToStop : Unlist(n)

Goto(at) ==
  /\ op' = [op EXCEPT !.at = at]
  /\ UNCHANGED <<regVars, fileVars, live, running, backend, seen, notified,
                 callbacks, lingering, retry, hostsVars, mu, dropped, used>>

(* Stopping only what the next start collides with is not enough. *)
SyncStoppedEarly == op.at = "stops" /\ Goto("starts")

SyncStopped == op.at = "stops" /\ ToStop = {} /\ Goto("starts")

(* stopTailnet, second half: registry scrubbed, then Close waits for the   *)
(* goroutines (a callback under way finishes first) and drops the TUN.     *)
Unregister ==
  /\ op.at = "unlisted"
  /\ Remove(op.tn)
  /\ op' = [op EXCEPT !.at = "closing"]
  /\ UNCHANGED <<fileVars, live, running, backend, seen, notified, callbacks,
                 lingering, retry, hostsVars, mu, dropped, used>>

CloseInstance ==
  LET n == op.tn IN
  /\ running' = [running EXCEPT ![n] = NoSlot]
  /\ lingering' = lingering \cup {DevOf[running[n]]}
  /\ backend' = backend \ {n} /\ seen' = seen \ {n} /\ notified' = notified \ {n}
  /\ dropped' = dropped \ {n} /\ missed' = missed \ {n}
  /\ op' = [op EXCEPT !.at = IF op.kind = "sync" THEN "stops" ELSE "starting"]
  /\ UNCHANGED <<regVars, fileVars, live, callbacks, retry, hosts, unwritten, mu, used>>

CloseInstanceNow == op.at = "closing" /\ CloseInstance

Close ==
  /\ op.at = "closing"
  /\ \A c \in callbacks : c[2] # op.tn
  /\ CloseInstance
-----------------------------------------------------------------------------
(* The start pass: enabled entries that do not run. *)
ToStart == {n \in Tailnet : Wanted(n) /\ n \notin live /\ n \notin op.tried}

SyncStart ==
  /\ op.at = "starts"
  /\ \E n \in ToStart :
       op' = [op EXCEPT !.at = "starting", !.tn = n, !.slot = file[n].slot]
  /\ UNCHANGED <<regVars, fileVars, live, running, backend, seen, notified,
                 callbacks, lingering, retry, hostsVars, mu, dropped, used>>

SyncStarted == op.at = "starts" /\ ToStart = {} /\ Goto("applying")

(* startOne: the registry entry first; its friendly and MagicDNS suffixes  *)
(* do not matter here.                                                     *)
Register ==
  /\ op.at = "starting"
  /\ \E z \in Zone : Add(op.tn, CidrOf[op.slot], z, z)
  /\ op' = [op EXCEPT !.at = "opening"]
  /\ UNCHANGED <<fileVars, live, running, backend, seen, notified, callbacks,
                 lingering, retry, hostsVars, mu, dropped, used>>

Open ==
  /\ op.at = "opening"
  /\ ~Busy(op.slot)
  /\ running' = [running EXCEPT ![op.tn] = op.slot]
  /\ RegisterResolver(op.tn)
  /\ op' = [op EXCEPT !.at = "opened"]
  /\ UNCHANGED <<fileVars, live, backend, seen, notified, callbacks, lingering,
                 retry, hostsVars, mu, dropped, used>>

List ==
  /\ op.at = "opened"
  /\ mu = NoHolder
  /\ live' = live \cup {op.tn}
  /\ op' = [op EXCEPT !.at = IF op.kind = "sync" THEN "starts" ELSE "applying"]
  /\ UNCHANGED <<regVars, fileVars, running, backend, seen, notified, callbacks,
                 lingering, retry, hostsVars, mu, dropped, used>>

(* A slip: the registry entry of a failed start stays. *)
FailStartKeepsEntry(busy) ==
  /\ op' = IF op.kind = "sync"
           THEN [op EXCEPT !.at = "starts", !.tried = @ \cup {op.tn}]
           ELSE NoOp
  /\ UNCHANGED <<regVars, fileVars, live, running, backend, seen, notified,
                 callbacks, lingering, retry, hostsVars, mu, dropped>>

(* A failed start leaves no registry entry.  A sync goes on with the next  *)
(* tailnet, and hands a busy one to the background retry; a failed retry   *)
(* attempt ends, and the last one ends the retry; a failed restart returns *)
(* its error.                                                              *)
FailStart(busy) ==
  /\ Remove(op.tn)
  /\ op' = IF op.kind = "sync"
           THEN [op EXCEPT !.at = "starts", !.tried = @ \cup {op.tn}]
           ELSE NoOp
  /\ retry' = [retry EXCEPT ![op.tn] =
                 IF op.kind = "sync" /\ busy /\ @ = NoRetry THEN Waits
                 ELSE IF op.kind = "retry" /\ @ = 0 THEN NoRetry
                 ELSE @]
  /\ UNCHANGED <<fileVars, live, running, backend, seen, notified, callbacks,
                 lingering, hostsVars, mu, dropped>>

OpenBusy == op.at = "opening" /\ Busy(op.slot) /\ FailStart(TRUE) /\ UNCHANGED used

OpenFails == op.at = "opening" /\ Use("faults", MaxFaults) /\ FailStart(FALSE)
-----------------------------------------------------------------------------
(* restartTailnet: with the configuration the instance was started with.   *)
(* The watchdog and /restart both call it.                                 *)
BeginRestart ==
  /\ Idle
  /\ Use("restarts", MaxRestarts)
  /\ mu = NoHolder
  /\ \E n \in live :
       /\ live' = live \ {n}
       /\ op' = [kind |-> "restart", at |-> "unlisted", tn |-> n,
                 slot |-> running[n], tried |-> {}]
  /\ UNCHANGED <<regVars, fileVars, running, backend, seen, notified, callbacks,
                 lingering, retry, hostsVars, mu, dropped>>

(* Retrying without a look at the file. *)
RetryBlind(n) ==
  /\ Idle
  /\ retry[n] \in 1 .. Waits /\ n \notin live
  /\ retry' = [retry EXCEPT ![n] = @ - 1]
  /\ \E s \in Slot : op' = [kind |-> "retry", at |-> "starting", tn |-> n, slot |-> s, tried |-> {}]
  /\ UNCHANGED <<regVars, fileVars, live, running, backend, seen, notified,
                 callbacks, lingering, hostsVars, mu, dropped, used>>

(* An attempt that ends the retry, whatever its outcome. *)
RetryOnce(n) ==
  /\ Idle
  /\ retry[n] \in 1 .. Waits
  /\ retry' = [retry EXCEPT ![n] = NoRetry]
  /\ op' = IF ~Wanted(n) \/ n \in live THEN op
           ELSE [kind |-> "retry", at |-> "starting", tn |-> n, slot |-> file[n].slot, tried |-> {}]
  /\ UNCHANGED <<regVars, fileVars, live, running, backend, seen, notified,
                 callbacks, lingering, hostsVars, mu, dropped, used>>

(* retryTailnet: one attempt of the background retry.  It reads the config *)
(* file again: the entry may have gone or been disabled meanwhile.  The    *)
(* goroutine forgets its mark microseconds after its last attempt, a       *)
(* second start takes a second to fail: one step.                          *)
Retry(n) ==
  /\ Idle
  /\ retry[n] \in 1 .. Waits
  /\ IF ~Wanted(n) \/ n \in live
     THEN /\ retry' = [retry EXCEPT ![n] = NoRetry]
          /\ UNCHANGED op
     ELSE /\ retry' = [retry EXCEPT ![n] = @ - 1]
          /\ op' = [kind |-> "retry", at |-> "starting", tn |-> n,
                    slot |-> file[n].slot, tried |-> {}]
  /\ UNCHANGED <<regVars, fileVars, live, running, backend, seen, notified,
                 callbacks, lingering, hostsVars, mu, dropped, used>>
-----------------------------------------------------------------------------
(* applySelections: for the listed tailnets recorded as Running, an        *)
(* address for the selected host and a line for it.  Everybody else's      *)
(* lines go.                                                               *)
Ready == live \cap seen

(* A tailnet is passed over ("out") when its status or its pins cannot be  *)
(* read or the netmap does not know the selected host yet.                 *)
Minting(out) == {n \in Ready \ out : /\ Selected[n] \notin DOMAIN byName
                                     /\ n \in DOMAIN entries
                                     /\ CanTake(entries[n])}

(* allocate for each of them, in the order of d.tailnets: the maps take    *)
(* what they are given, and where ranges overlap two tailnets may be given *)
(* one address, which is then the later one's.                             *)
Seed(out) ==
  LET fresh == {NextIP(entries[n]) : n \in Minting(out)} IN
  /\ entries' = [n \in DOMAIN entries |->
                   IF n \in Minting(out) THEN [entries[n] EXCEPT !.next = @ + 1] ELSE entries[n]]
  /\ byName' = [f \in DOMAIN byName \cup {Selected[n] : n \in Minting(out)} |->
                  IF f \in DOMAIN byName THEN byName[f]
                  ELSE NextIP(entries[CHOOSE n \in Minting(out) : Selected[n] = f])]
  /\ \E last \in [fresh -> Minting(out)] :
       /\ \A ip \in fresh : NextIP(entries[last[ip]]) = ip
       /\ byIP' = [ip \in DOMAIN byIP \cup fresh |->
                     IF ip \in fresh THEN Selected[last[ip]] ELSE byIP[ip]]
  /\ UNCHANGED <<cidrs, resolvers>>

(* writeHostsBlock fails before it has written (the old block stays) or on *)
(* the way, which leaves a file with the whole new block or one without an *)
(* end marker, that is without a block.  applySelections only logs it.     *)
WriteBlock(lines, fails) ==
  /\ unwritten' = fails
  /\ IF fails THEN hosts' \in {hosts, {}, lines} ELSE hosts' = lines

ApplySelections ==
  \E out \in SUBSET Ready, fails \in BOOLEAN :
    /\ IF out = {} /\ ~fails THEN UNCHANGED used ELSE Use("misses", MaxMisses)
    /\ Seed(out)
    /\ missed' = out
    /\ WriteBlock({<<n, Selected[n], byName'[Selected[n]]>> :
                     n \in {m \in Ready \ out : Selected[m] \in DOMAIN byName'}}, fails)

(* The sync, the retry and the restart end with it ... *)
OpLocksMu ==
  /\ op.at = "applying"
  /\ mu = NoHolder
  /\ mu' = OpHolder
  /\ UNCHANGED <<regVars, fileVars, live, running, backend, seen, notified,
                 callbacks, lingering, retry, hostsVars, op, dropped, used>>

EndOp ==
  /\ mu' = NoHolder
  /\ op' = NoOp
  /\ retry' = IF op.kind = "retry" THEN [retry EXCEPT ![op.tn] = NoRetry] ELSE retry
  /\ UNCHANGED <<fileVars, live, running, backend, seen, notified, callbacks,
                 lingering, dropped>>

(* A slip: no rewrite of the hosts block at the end. *)
OpSkipsApply == op.at = "applying" /\ mu = OpHolder /\ EndOp /\ UNCHANGED <<regVars, hostsVars, used>>

OpApplies == op.at = "applying" /\ mu = OpHolder /\ ApplySelections /\ EndOp

(* ... and a watcher's onRunning is nothing else. *)
CallbackLocksMu(c) ==
  /\ c \in callbacks
  /\ mu = NoHolder
  /\ mu' = c
  /\ UNCHANGED <<regVars, fileVars, live, running, backend, seen, notified,
                 callbacks, lingering, retry, hostsVars, op, dropped, used>>

CallbackApplies(c) ==
  /\ mu = c
  /\ ApplySelections
  /\ mu' = NoHolder
  /\ callbacks' = callbacks \ {c}
  /\ UNCHANGED <<fileVars, live, running, backend, seen, notified, lingering,
                 retry, op, dropped>>

(* A slip: onRunning is not called. *)
PollNeverNotifies(n) ==
  /\ running[n] # NoSlot
  /\ n \in backend \ seen
  /\ seen' = seen \cup {n}
  /\ UNCHANGED <<regVars, fileVars, live, running, backend, notified, callbacks,
                 lingering, retry, hostsVars, mu, op, dropped, used>>

(* The watcher's poll: records the node's state, and calls onRunning the   *)
(* first time it reads Running.                                            *)
Poll(n) ==
  /\ running[n] # NoSlot
  /\ <<"watch", n>> \notin callbacks
  /\ (n \in seen) # (n \in backend)
  /\ IF n \in backend
     THEN /\ seen' = seen \cup {n}
          /\ notified' = notified \cup {n}
          /\ callbacks' = IF n \in notified THEN callbacks
                          ELSE callbacks \cup {<<"watch", n>>}
          /\ UNCHANGED dropped
     ELSE /\ seen' = seen \ {n}
          /\ dropped' = dropped \cup {n}
          /\ UNCHANGED <<notified, callbacks>>
  /\ UNCHANGED <<regVars, fileVars, live, running, backend, lingering, retry,
                 hostsVars, mu, op, used>>

(* watchNetmap: a peer or self change applies the selections again. *)
Push(n) ==
  /\ running[n] # NoSlot
  /\ <<"netmap", n>> \notin callbacks
  /\ Use("pushes", MaxPushes)
  /\ callbacks' = callbacks \cup {<<"netmap", n>>}
  /\ UNCHANGED <<regVars, fileVars, live, running, backend, seen, notified,
                 lingering, retry, hostsVars, mu, op, dropped>>
-----------------------------------------------------------------------------
(* The environment: nodes reach and leave Running, the kernel releases a   *)
(* TUN name, the DNS responder gives out addresses.                        *)
NodeUp(n) ==
  /\ running[n] # NoSlot /\ n \notin backend
  /\ backend' = backend \cup {n}
  /\ UNCHANGED <<regVars, fileVars, live, running, seen, notified, callbacks,
                 lingering, retry, hostsVars, mu, op, dropped, used>>

NodeDown(n) ==
  /\ n \in backend
  /\ Use("drops", MaxDrops)
  /\ backend' = backend \ {n}
  /\ UNCHANGED <<regVars, fileVars, live, running, seen, notified, callbacks,
                 lingering, retry, hostsVars, mu, op, dropped>>

KernelReleases(d) ==
  /\ d \in lingering
  /\ lingering' = lingering \ {d}
  /\ UNCHANGED <<regVars, fileVars, live, running, backend, seen, notified,
                 callbacks, retry, hostsVars, mu, op, dropped, used>>

DNSAnswers(n) ==
  /\ \E f \in Hosts[n] : Allocate(Lower[n], f)
  /\ UNCHANGED daemonVars

OpStep == \/ SyncStop \/ SyncStopped \/ Unregister \/ Close
          \/ SyncStart \/ SyncStarted \/ Register \/ Open \/ OpenBusy \/ List
          \/ OpLocksMu \/ OpApplies

Watch(n) == \/ Poll(n)
            \/ \E k \in {"watch", "netmap"} :
                 CallbackLocksMu(<<k, n>>) \/ CallbackApplies(<<k, n>>)

DaemonNext ==
  \/ BeginSync \/ BeginRestart \/ OpStep \/ OpenFails
  \/ \E n \in Tailnet : \/ Watch(n) \/ Push(n) \/ Retry(n)
                     \/ NodeUp(n) \/ NodeDown(n) \/ DNSAnswers(n)
  \/ \E d \in Device : KernelReleases(d)

(* An operation that holds cfgMu runs on, goroutines are scheduled, timers *)
(* fire and the kernel lets go of a closed device.  Nobody has to edit the *)
(* config, restart a tailnet, ask the DNS, or log a node in.               *)
DaemonFairness ==
  /\ WF_vars(OpStep)
  /\ \A n \in Tailnet : WF_vars(Poll(n)) /\ WF_vars(Retry(n))
  /\ \A n \in Tailnet, k \in {"watch", "netmap"} :
       SF_vars(CallbackLocksMu(<<k, n>>)) /\ WF_vars(CallbackApplies(<<k, n>>))
  /\ \A d \in Device : WF_vars(KernelReleases(d))

DaemonSpec == DaemonInit /\ [][DaemonNext]_vars /\ DaemonFairness
-----------------------------------------------------------------------------
Operation ==
  [kind : {"none", "sync", "restart", "retry"},
   at : {"idle", "stops", "unlisted", "closing", "starts", "starting", "opening",
         "opened", "applying"},
   tn : Tailnet \cup {NoName}, slot : Slot \cup {NoSlot}, tried : SUBSET Tailnet]

DaemonTypeOK ==
  /\ file \in Config
  /\ running \in [Tailnet -> Slot \cup {NoSlot}]
  /\ live \cup backend \cup seen \cup notified \cup dropped
       \subseteq {n \in Tailnet : running[n] # NoSlot}
  /\ callbacks \subseteq {"watch", "netmap"} \X Tailnet
  /\ lingering \subseteq Device
  /\ shared \in BOOLEAN /\ unwritten \in BOOLEAN /\ missed \subseteq Tailnet
  /\ retry \in [Tailnet -> 0 .. NoRetry]
  /\ mu \in {NoHolder, OpHolder} \cup callbacks
  /\ op \in Operation

(* With cfgMu free, what runs is what the file asks for.  A tailnet that   *)
(* was disabled or moved to another slot while a retry of it slept, or     *)
(* that was restarted in place, must not come back with its old entry      *)
(* (comment on retryTailnet: "the captured conf may contain an old         *)
(* enrollment key or enabled flag").                                       *)
Current(n) == Wanted(n) /\ file[n].slot = running[n]

LiveMatchesConfig == Idle => \A n \in live : Current(n)

(* With cfgMu free, listed, running and registered are the same tailnets,  *)
(* each registered with the range it runs on: no half-started tailnet      *)
(* keeps answering DNS, no listed one is unknown to it.                    *)
RegistryFollowsLive ==
  Idle => /\ live = {n \in Tailnet : running[n] # NoSlot}
          /\ DOMAIN entries = {Lower[n] : n \in live}
          /\ \A n \in live : entries[Lower[n]].range = CidrOf[running[n]]

(* The inductive invariant.  A tailnet that no operation works on is       *)
(* listed, running and registered, or none of it; the one the operation    *)
(* has in hand is where the operation has brought it.                      *)
Up(n) == running[n] # NoSlot

Registered(n) == Lower[n] \in DOMAIN entries

RangeOf(n) == entries[Lower[n]].range

InHand(n) ==
  n = op.tn /\ op.at \in {"unlisted", "closing", "starting", "opening", "opened"}

Settled(n) ==
  /\ Up(n) <=> n \in live
  /\ Registered(n) <=> n \in live
  /\ n \in live => RangeOf(n) = CidrOf[running[n]]

HandStands(n) ==
  /\ n \notin live
  /\ Up(n) <=> op.at \in {"unlisted", "closing", "opened"}
  /\ Registered(n) <=> op.at \in {"unlisted", "opening", "opened"}
  /\ op.at = "unlisted" => RangeOf(n) = CidrOf[running[n]]
  /\ op.at \in {"opening", "opened"} => RangeOf(n) = CidrOf[op.slot]
  /\ op.at = "opened" => running[n] = op.slot
  /\ op.at = "unlisted" /\ op.kind = "restart" => running[n] = op.slot

EveryTailnetStands ==
  /\ DOMAIN entries \subseteq {Lower[n] : n \in Tailnet}
  /\ \A n \in Tailnet : IF InHand(n) THEN HandStands(n) ELSE Settled(n)

(* Where an operation is, and that it starts what the file asks for.       *)
OpStands ==
  /\ Idle <=> op.at = "idle"
  /\ op.at \in {"stops", "starts"} => op.kind = "sync"
  /\ op.at \in {"unlisted", "closing"} => op.kind \in {"sync", "restart"} /\ op.tn \in Tailnet
  /\ (op.kind \in {"restart", "retry"} \/ op.at \in {"starting", "opening", "opened"}) =>
       op.tn \in Tailnet /\ op.slot \in Slot /\ Wanted(op.tn) /\ file[op.tn].slot = op.slot

(* The stop pass leaves nothing that the file does not ask for.            *)
Stopping == op.kind = "sync" /\ op.at \in {"stops", "unlisted", "closing"}

StopsFirst == ~Stopping => \A n \in live : Current(n)

(* The registry's own invariant holds as long as no file has asked for     *)
(* overlapping ranges: add takes any range, and addresses two tailnets     *)
(* were both given are not sorted out later.                               *)
RegSound == ~shared => RegInv /\ RangesApart(file)

DaemonInv ==
  DaemonTypeOK /\ RegTypeOK /\ RegSound /\ EveryTailnetStands /\ OpStands /\ StopsFirst

(* Two instances never have one TUN device, whatever the file says.  And   *)
(* once the stop pass is over no tailnet is registered on another one's    *)
(* range, if the file's own ranges are apart: even when one config change  *)
(* moves two tailnets to each other's slot, and whatever overlapped before.*)
SlotsExclusive ==
  /\ \A m, n \in Tailnet :
       m # n /\ running[m] # NoSlot /\ running[n] # NoSlot => DevOf[running[m]] # DevOf[running[n]]
  /\ ~Stopping /\ RangesApart(file) => RangesDisjoint

(* With cfgMu free, no line of the hosts block leads to another host: the  *)
(* forwarder knows its address by the line's name, or not at all.  Excused *)
(* are a block that could not be rewritten, whose lines are older than the *)
(* registry, and files that ever let two tailnets share addresses.         *)
HostsNeverMislead ==
  Idle /\ ~unwritten /\ ~shared =>
    \A line \in hosts : line[3] \in DOMAIN byIP => byIP[line[3]] = line[2]

(* The selected host of a tailnet recorded as Running is in the hosts      *)
(* block once the daemon has come to rest (cfgMu free, no callback under   *)
(* way), unless its range is exhausted.  Nothing repeats an apply that     *)
(* could not write the block or passed a tailnet over (no status, no pins, *)
(* host not in the netmap yet): the next event does, a netmap push for the *)
(* last of these.  So these are excused, until then.                       *)
HasLine(n) ==
  \/ AllocFails(Lower[n], Selected[n])
  \/ \E ip \in DOMAIN byIP : <<n, Selected[n], ip>> \in hosts /\ byIP[ip] = Selected[n]

AtRest == Idle /\ callbacks = {}

HostsCompleteAtFirst ==
  AtRest /\ ~unwritten /\ ~shared => \A n \in (Ready \ dropped) \ missed : HasLine(n)

(* The same without the exception for a node that left Running and came    *)
(* back (comment on watch: it "fires onRunning (selections -> hosts        *)
(* rewrite) on the transition to Running").                                *)
HostsComplete == AtRest /\ ~unwritten /\ ~shared => \A n \in Ready \ missed : HasLine(n)

(* Whoever takes cfgMu releases it: stopTailnet waits in Close for a       *)
(* watcher that may itself wait for d.mu inside onRunning.                 *)
OperationsEnd == ~Idle ~> Idle

(* A start that a sync found busy is not lost: while attempts are left     *)
(* once the kernel has released the device, the tailnet comes up, unless   *)
(* its entry changes.                                                      *)
Parked(n, s) ==
  /\ retry[n] <= Waits /\ retry[n] > MaxFaults - used["faults"]
  /\ Wanted(n) /\ file[n].slot = s /\ ~Busy(s)

ParkedStartRecovers ==
  \A n \in Tailnet, s \in Slot :
     Parked(n, s) ~> n \in live \/ ~(Wanted(n) /\ file[n].slot = s)

(* What the self-heal watchdog is for (comments at control.go:32 and on    *)
(* healthWatch, "so the host does not stay dark until a manual restart"):  *)
(* a tailnet that ran and is still wanted runs again.                      *)
NeverLeftDark ==
  \A n \in Tailnet : (op.kind = "restart" /\ op.tn = n) ~> (n \in live \/ ~Wanted(n))
=============================================================================
