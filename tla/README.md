# A TLA+ model of ts-plug

TLA+ modules, TLC runs and TLAPS proofs for the programs of this repository,
most of all for the `ts-multinet` daemon, which keeps a host in several
tailnets at once. Every definition is read off the Go source; `PROJECT.json`
maps each one to the lines it stands for.

1. [Inventory](#1-inventory)
2. [Modules and the code they model](#2-modules-and-the-code-they-model)
3. [Runs](#3-runs)
4. [Bounds](#4-bounds)
5. [Fairness](#5-fairness)
6. [Proofs](#6-proofs)
7. [Findings](#7-findings)
8. [What is not modelled](#8-what-is-not-modelled)
9. [Plan](#9-plan)

## 1. Inventory

Five programs share one idea: a Tailscale node inside the process (tsnet).

| program | directory | what it does |
|---|---|---|
| ts-multinet | `cmd/ts-multinet` | daemon; one node, TUN device, userspace TCP/IP stack and synthetic IPv4 range per tailnet; DNS, hosts file, web UI, CLI |
| ts-plug | `cmd/ts-multi-plug` | starts a child process and exposes its ports on a tailnet |
| ts-unplug | `cmd/ts-unplug` | exposes one tailnet service on localhost |
| ts-unplug-proxy | `cmd/ts-unplug-proxy` | SOCKS5 and HTTP proxy into a tailnet |
| ts-router | `cmd/ts-router` | serves several tailnet hosts on localhost under their own names |

### ts-multinet

A request or a config change reaches the *daemon* through the control socket.
Every write goes through `applyConfigUpdate`: patch the config file, then
`syncTailnets` makes the running set match it. A started tailnet registers
with the *registry* (its address range), opens its TUN, starts its node and
its goroutines: the watcher of the node's state, the watcher of the netmap and
the forwarder. The watcher calls `applySelections` when the node reaches
Running, which mints an address per selected host and writes the *hosts
block*. A client that resolves a host, through the hosts file or the *DNS
responder*, gets a synthetic address and connects to it; the kernel routes the
packet to the TUN of that tailnet, and the *forwarder* asks the registry which
host the address stands for and dials it over the node.

| component | state | operations | what is hard | what makes it correct |
|---|---|---|---|---|
| registry, allocators (`dns.go`) | entries, name to address, address to name, guard ranges, resolvers | add, remove, allocate, registerSuffix, match, lookup | ranges are reused after a removal; names are case-folded in some places only | names and addresses one to one; nothing of a removed tailnet is left; an answer keeps its meaning while its tailnet runs |
| tailnet life cycle (`control.go`, `tailnet.go`) | `d.tailnets`, running instances, background retries, hosts block | syncTailnets, startOne, stopTailnet, restartTailnet, retryTailnet, applySelections, watch, watchNetmap | two locks (cfgMu, mu), watchers that call back into the daemon, a TUN name the kernel still holds | what runs is what the file says; a device has one owner; no operation waits for ever; the hosts block follows the running set |
| self-heal watchdog (`control.go`) | `d.health`, event and ticker channels | watchNetworkEvents, healthWatch, checkHealth, needsRestart | a snapshot of instances that is old when used, coalesced events, memory keyed by name | dark nodes are restarted, healthy ones are not, restarts are spaced |
| provisioning and identity (`control.go`, `control_identity.go`, `control_remove.go`) | config entries, state directories with identity and pins, running nodes | add, enable, disable, authkey, lock, unlock, reset, delete | a crash or a failure between two writes, shared directories, checks before the lock | no node runs without consent; nobody else's identity is destroyed; answers are honest |
| config file (`configpatch.go`) | the JSONC file, the applied copy | patchConfigFile, reload, drift | hand edits race with writes; the patch keeps comments | the patched file parses to what was asked for; other entries keep their bytes |
| selections, pins, services (`selection.go`, `services.go`) | selected and locked resources, auto rules, pins | select, lock, forget, auto, resolveSelections | several write paths keep "locked is selected" | a locked resource is never dropped; a pinned name keeps its peer |
| DNS responder (`dns.go`) | none of its own | ServeDNS: answer, refuse, NXDOMAIN or forward | several tailnets may match one name | a name goes to the tailnet with the longest matching suffix |
| hosts block (`hosts.go`) | a block of the hosts file | writeHostsBlock, removeHostsBlock, qualifyHostsAliases | alias collisions; the rest of the file is the user's | only the block changes; an alias names one address |
| resolved registration (`resolved.go`) | links registered with systemd-resolved | register, revert | a register that is under way when its tailnet stops | no entry for a link that is gone |
| forwarder (`forwarder.go`, `udp.go`, `icmp.go`) | connections and half-closes | run, handle, splice | two pumps per connection, one error channel | a connection ends when both halves do; a dead forwarder is reported |
| start-up and shutdown (`ts-multinet.go`) | the process | main | one failed start ends the daemon | everything is reverted on exit |
| control socket, CLI, web UI, posture preview | none | HTTP handlers, formatting | - | thin fronts of the above |

### The other programs

| component | state | operations | what is hard | what makes it correct |
|---|---|---|---|---|
| ts-plug | child process, listeners, context | HTTP, HTTPS, TCP, DNS listeners, signal handling | shutdown while the child runs; one DNS buffer for all queries | a reply goes to its query; a signal ends the program |
| ts-unplug | a listener per port | serveHTTP, serveTCP, pipeTCP | half-closed connections | both directions are copied to the end |
| ts-unplug-proxy | none | SOCKS5 and HTTP requests, resolveAddr | partial DNS failures | a name outside the tailnet is not sent into it |
| ts-router | names, routes per instance | DNS, SNI and Host routing | name collisions between instances | a host reaches the route that was configured for it |

## 2. Modules and the code they model

    Registry ── DnsServer ─ MCDnsServer      Forwarder ─┐
        └────── Daemon ──── MCDaemon         Resolved ──┴─ Datapath
    Identity ── Provision ─ MCProvision
    Selections ─ MCSelections    ConfigFile ─ MCConfigFile    Health
    Hosts, Router, UnplugProxy, MultiPlug ── Programs ─ MCPrograms

`DnsServer` and `Daemon` EXTEND `Registry`, so that its operations are the very
same definitions in both, and interleave them with the queries of clients and
with the operations of the daemon. `Datapath` composes the forwarder of one
tailnet and the registration of its link over the tailnet's life. `Health` and
`Provision` look at the daemon from two other sides, where the inside of one
sync does not matter. `Identity` is the abstract specification that `Provision`
implements; `Registry` is the one that `DnsServer` implements. `Programs` puts
four machines side by side that share no state: a behaviour runs one of them,
and one run checks all four. The proofs about `Registry`, `DnsServer`, `Daemon`,
`Selections`, `Provision`, `ConfigFile` and `Programs` are in a module called
after each; those about `Health` and `Datapath`, the goroutines of a daemon that
runs, are in `RunningProofs`.

**Registry** (`dns.go`). Each method runs under `registry.mu`, so each is one
action. An address is a natural number and a range a base and a size; the
network and broadcast addresses are kept, since the allocator skips them.
`add` and `remove` fold the case of the tailnet's name, `allocate` compares it
as it is spelled, as in the code. A step of `RegSpec` is any operation with any
argument; the one precondition is `Unclaimed`, which is what `checkCIDR` and
`nextFreeCIDR` of the config layer give (the registry itself does not look).

**DnsServer** (`ServeDNS` and what it calls in `dns.go`; `handle`, `dial` and
`lookup` in `forwarder.go`). A query takes `registry.mu` three times, for
match, exists and allocate, and each hold is an action (`Ask`, `Check`,
`Reply`). Tailnets start, stop and learn their suffix in between. The client
keeps the answer and connects (`Connect`: the address is looked up; `Dial`:
the peer list and the loop guard are asked) for as long as it likes. A DNS name
is a sequence of labels, so that "the longest matching suffix" is a comparison
of lengths; `position` is the order of `registry.entries`, which decides ties.
`current` remembers whether the tailnet of the answer was removed.

**Daemon** (`control.go`, `tailnet.go`). Steps are cut at the locks. `op` is
the operation that holds `cfgMu` and where it stands: a sync goes through
"stops" (Unlist, Unregister, Close per tailnet), "starts" (Register, Open,
List per tailnet) and "applying"; a restart in place and an attempt of the
busy-TUN retry are parts of the same path. `mu` is the holder of `d.mu`.
Watchers are separate actions (`Poll`, `Push`, and the callback that needs
`d.mu` for `applySelections`), and `Close` waits for the callbacks of its
instance as `tailnet.Close` waits for its goroutines. The environment brings
nodes up and down, releases TUN names and asks the DNS. The config file is any
file that parses: `parseConfig` looks at each entry by itself and `registry.add`
at nothing, so two entries may have one device, overlapping ranges or both
(`checkCIDR` and `checkTUN` keep single requests from that, not a hand edit, and
not two adds that race: `config_add_race`). An apply may skip any tailnet (its
status or pins unreadable, its host not in the netmap yet; `missed`), and the
write at its end may fail (`unwritten`), which leaves the old block, the new one
or none. Left out: a change of the fields that `sync` swaps into a running
tailnet (selections), a resolver's contents, and hand edits that nobody reloads.

**Health** (`control.go`). `watchNetworkEvents` and `healthWatch` with their
channels, the pass over a snapshot and the restart decision, cut between the
probe of a tailnet and its restart, since a probe takes seconds and holds no
lock. Timestamps are ages that stop growing where `needsRestart` can no longer
tell the difference. Requests of the user are one step each (`Daemon` looks
inside); what matters here is that they touch neither the snapshot nor the
watchdog's memory.

**Provision** (`control.go`, `control_identity.go`, `control_remove.go`).
Reset and delete are cut at every write to the disk, and a crash may happen
between any two; after it the daemon boots and syncs. Other requests are one
`applyConfigUpdate`. A lock request is two steps: it looks for the running
tailnet before it takes `cfgMu`. State directories are paths with "at or
below", so that they can be shared and nested. A hand edit of `state_dir` is
made only while no reset or delete is under way. The restart that `authkey`
makes is left out.

**Identity**. What the user may rely on: a node runs only with consent, an
identity is destroyed only without consent and while no node uses it.
Consent and membership are pairs of a tailnet and a directory: moving an
enabled tailnet to another directory moves the consent. `Provision` refines it
with consent = enabled in the config file there, member = node that runs from
there, identity = directories that store one.

**Selections** (`selection.go`, `services.go`, the handlers of `control.go`,
`watchNetmap`). One running tailnet: peers, services and tags that the control
plane changes, the config, the pins and the hosts block. A request is a commit
that also leaves an apply due, both under `cfgMu`; a push leaves one due
without it. An apply is two steps, since peers are read first and services
and the file after. A short name is a peer, a node is what it may name; a
glob is the set of names it covers, a tag or port rule a set of pairs that the
environment changes. `Look` is the listing of the peers that a request makes
before it waits for `cfgMu`. History variables remember the first node granted
per name, the names forgotten, and whether a gap of the subscription or a
failed read excuses the hosts block. Left out: addresses (see `Registry`),
the MagicDNS suffix, and pins that cannot be saved.

**ConfigFile** (`configpatch.go`, `applyConfigUpdate` and the handlers of
`control.go`). The file is the sequence of entries it parses to, and each loop of the patch a
function of the turns it has made; slots stand
for range and device, one flag for every member that is patched in place, and
`state_dir` and the auth key are apart, since the patch and the check of the
round trip treat them apart. A request that holds `cfgMu` is cut at its file
operations: load, second read with patch and check, rename, sync, record. An
editor may save between any two of them; `op.edited` and `unseen` remember
whether it did. Adding is two requests of one client, as in `handleAddTailnet`.
A crash loses everything but the file.

**Forwarder** (`forwarder.go`, `udp.go`). `run` with its two packet pumps and
their error channel, and one flow through them: dial, then accept (TCP), or the
endpoint first and then the dial (UDP), two copiers that report on a channel
with room for two, and the closes at the first report. `pipeTCP` of ts-unplug,
`handleTCPConn` of ts-multi-plug and `pipe` of ts-router are the same relay
behind a connection that is already accepted: flow kind "pipe". Left out: what
the packets hold, ICMP echo (a request is answered or not, nothing is kept),
and the half-close inside one direction, which the first report makes moot.

**Resolved** (`resolved.go`, the registration in `watch`). `register` takes
`resolvedSync.mu` to look at its cache and to record, and runs two
`resolvectl` calls in between without it; `revert` drops the cache entry and
then runs its call. Each hold and each call is an action. systemd-resolved may
restart and forget the link between any two.

**Datapath** (`startTailnet` and `Close` in `tailnet.go`, `stopTailnet` in
`control.go`, the end of `main`). The order in which a stop reverts, cancels,
closes the TUN and waits, and the other order of a shutdown. The device and
with it the link go when `run` closes the TUN; the cache of `resolvedSync`
survives into the next start.

**Hosts** (`hosts.go`). The file is the sequence of its lines; other programs
add lines anywhere outside the block, a write can be cut short by a crash at
any line. `Qualified` and `Alias` are the two passes of
`qualifyHostsAliases` over a set of entries: what the loop over the slice makes
of an entry depends on which claims there are, not on their order. A line
remembers the entry it was made of.

**Router** (`cmd/ts-router`). The configuration is chosen once, from every set
of routes that `groupRoutes` accepts. A client looks a name up
(`handleAddr`), connects if it is sent here, gets the upstream of `serveTCP` or
`serveSNI`, and is passed on (`Dial`, the first half of `pipe`) if the upstream,
an address or a name to resolve, is not `local_ip`. Left out: the parsing of the TLS hello, forwarding
of queries under other domains, and the relay itself (kind "pipe" above).

**UnplugProxy** (`cmd/ts-unplug-proxy`). `resolveAddr`: the status of the
tailnet, which is a snapshot that may be unavailable, then its DNS, then tsnet
with the name as it is. Machines come and go, those of the tailnet and those
that the status lists under other suffixes (shared in from another tailnet, or
exit nodes of a provider). Left out: SOCKS5 and HTTP framing, addresses given as
addresses, the allow list. `Spellings` is one pass of `peerDNSNames` over a
machine's DNS name and the host name that its owner chose, which may be
anything, also another machine's or empty; `PeerDNSNames` makes the two passes
of the code, one for each field of the status that holds the suffix.

**MultiPlug** (`ts-multi-plug.go`). `main`, the goroutine with `cmd.Wait` and
the signals, exec's goroutine that kills the command, and the listeners are
one action or a few each. `at` says where the goroutine is: `select` evaluates
`cmd.Wait()` before it waits, so "wait" and "select" are two places. Left out:
flags, the connections that listeners relay, and their DNS buffer.

A definition introduced as "a slip", which no action uses, is what the
definition next to it must not become: it shows that a property of the runs
would notice.

The MC modules give the functions among the constants their values, and the
symmetries; the `.cfg` files give the rest.

## 3. Runs

| run | states | shows |
|---|---|---|
| dns | 530 thousand | queries, answers and connections against tailnets that come and go: a connection reaches the host that was asked for (`ReachesAsked`), public names are neither denied nor taken over (`PublicNamesKept`), and in this use of the registry names and addresses stay one to one, a removal scrubs exactly one tailnet, and no address is lost or moved (`NamesMatchIPs`, `NoOrphanIP`, `NoAddressWasted`, `StableWhileRegistered`). `DnsInv` is the inductive invariant of section 6 |
| daemon | 1.9 million | two tailnets over three slots, one of which collides with the others: config changes that swap tailnets or put them on one device or range, and busy-TUN retries, against watchers that apply selections at any moment, skip a tailnet or cannot write the block. A device has one instance, and ranges are apart once a file has them apart (`SlotsExclusive`); hosts lines do not mislead (`HostsNeverMislead`) and are there at rest (`HostsCompleteAtFirst`), with the exceptions of section 7. `DaemonInv` is the inductive invariant of section 6: with it the registry's own invariant in this use of it, that the registry follows the running set, and that between operations this is what the file says |
| daemon_live | 276 thousand | one tailnet with a restart in place and every fault: every operation ends (`OperationsEnd`: nobody waits for a goroutine that waits for a lock), a busy start is retried (`ParkedStartRecovers`); between operations what runs is what the file says, whatever was edited while a retry slept (`LiveMatchesConfig`) |
| health | 96 thousand | dark nodes are restarted (`DarkNodeRestarted`), restarts are spaced by the cooldown (`RestartsSpaced`; `HealthInv`: the record of the last one is true), no network change that a poll saw is lost (`NetworkChangeHandled`) |
| provision | 869 thousand | reset and delete with failures and a crash anywhere implement `Identity` (`Consent`), touch nobody else's identity (`OthersUntouched`), respect locks taken meanwhile (`LockedKept`), and answer honestly (in `ProvisionInv`, which also says what a request under way stands on) |
| selections | 1.8 million | every request that changes a selection against peers, services and tags that change: no push is lost (`LinesCurrent`), a granted name never gets another node's line (`PinsHold`), locks keep their line (`LockedKeepsLine`), forgotten names stay away (in `SelInv`) |
| config | 781 thousand | requests of two clients and edits by hand on one file: a request touches its own entry only (`OthersKept`), no name is there twice although adding checks too early (in `CfgInv`), the patch gives what was asked for (`PatchServes`), a running set that is not the file's shows as drift (`DriftSeen`) |
| datapath | 156 thousand | starts, stops and a shutdown against pumps that die, flows at every stage and a link whose registration is under way: a dead pump is reported (`PumpDeathReported`), a stop ends (`StopEnds`), the link ends up configured (`LinkConfigured`), no copier is left behind (`FlowReaped`); in `DpInv`: a connection is accepted only after its dial, a finished flow has closed both sides, a link has no server without routing domains |
| programs | 120 thousand | the hosts file keeps the lines of others, and no name has two addresses unless one tailnet is given the MagicDNS suffix of another for its domain (`HostsFileKept`, `NoAmbiguousName`); ts-router sends a request to the upstream of its name and not in a circle, and ts-unplug-proxy to the machine the tailnet calls so, unless another one calls itself so (`RequestsReachTheirHost`); ts-plug ends when its command or a listener does, or by a signal while the node comes up (`PlugEnds`), and leaves no command behind (in `PlugInv`) |
| daemon_dark, config_add_race, plug_signal | | each finds one disagreement of section 7 |

## 4. Bounds

Every bound is a constant named `Max...` (or `Waits`) with a comment.

- *dns*: two lower-case names, one of them also spelled with a capital, two
  disjoint ranges and one that overlaps both, a name that exists nowhere and a
  query under an alias. Removal and reuse of a range, an exhausted range, a
  refused overlap, a query that loses its tailnet between any two of its steps
  and a peer whose own address lies in a synthetic range all occur. One client
  stands for all: what others do to the registry is `Background`. The proofs
  cover all other sizes.
- *daemon*: two config changes are what it takes to start two tailnets and
  then swap, stop or collide them in one sync; a retry overlaps with them, and
  one apply skips tailnets, fails to write, or both (`MaxMisses`). The third
  slot has the device of the second and a range that covers both others.
  `Files` names the contents the file is given: all of them, except that only
  tailnet b takes the third slot (the other way round is the same) and that an
  entry is absent rather than disabled, which a sync treats alike. Restarts in
  place and the disabled entries are in daemon_live, with one tailnet; that the
  invariants of this run hold with several restarts too is proved (section 6).
- *daemon_live*: one tailnet, since the liveness properties speak of one, with
  a restart in place, a fault, a drop of the node, a netmap push, a second host
  that is not selected and two waits of the retry.
- *health*: one tailnet, one route besides "offline", and timestamps in ticks.
  `Blips` FALSE says that the route does not change twice between two polls;
  with TRUE `NetworkChangeHandled` fails, see section 7.
- *selections*: one peer name and two nodes that may bear it (symmetric), one
  service, a glob and a tag. Three writes are enough to select, forget and
  select again under a rule or a lock; two changes replace a peer and bring it
  back; one fault is a gap or a failed read.
- *config*: two names, two slots and two clients (symmetric) that add, up to
  three entries, three requests, one edit by hand and one crash or failed
  write. Two requests race and a third finds what they left; an edit falls
  between any two steps of a request. Removing and adding again, and an entry
  with its own `state_dir`, are within these bounds.
- *datapath*: two starts, so that a stale cache entry meets a new link; two
  keys; two faults, among failed calls, restarts of resolved and edits of the
  domain. One flow at a time, of each kind, and as many in a row as wanted:
  flows share nothing but the stack. Flows are played on hosts without
  systemd-resolved, where nothing is registered: the two have no state in
  common, and their product would say nothing new.
- *provision*: two tailnets, the base directory, two default directories and
  one nested below the first; one hand edit, one crash. A
  directory that one tailnet leaves and another takes over needs two edits: the
  proofs of section 6 cover them, and any other number.
- *programs*: the hosts file has up to two lines of others, anywhere, and one
  interrupted write; its inputs are a name that two tailnets claim, with domains
  of their own and with one they share. ts-router has every configuration of
  up to three routes over two listeners, a name in capitals, an upstream
  whose DNS record points back, and one that is `local_ip` itself.
  ts-unplug-proxy has two machines with one host
  name, one that calls itself something else, one that calls itself by the DNS
  name of that one, one shared in from a tailnet where it has that name, and a
  name without a machine.
  ts-plug has an http, a dns and a tcp listener (one goes on after a read
  error, two do not) and two signals: one is taken, one finds the channel full
  or comes back after the first.

## 5. Fairness

- *Daemon*: weak fairness of the operation that holds `cfgMu`, of a watcher's
  poll, of the retry's timer and of the kernel's release of a closed device;
  strong fairness of a callback's acquisition of `d.mu` (a Go mutex hands over
  to a waiter that starves). None for config changes, restarts, DNS queries,
  netmap pushes, or for nodes that reach Running: a login may never happen.
- *Health*: weak fairness of the pollers, the timer and the loop; strong
  fairness of the two cases of the loop's `select`, which Go chooses at random
  among the ready ones. None for users, nodes and networks.
- *Datapath*: weak fairness of each goroutine that can go on (`run`, a pump
  whose TUN or context is gone, the copier of a closed connection, the watcher,
  `Close`), of `resolvectl` calls, which return, of a dial, which succeeds or
  fails (TCP has a time limit; tsnet's UDP dial has no handshake to wait for),
  of the watcher's poll while its node runs, of the refresh interval, and of
  the watchdog's stop of a tailnet whose forwarder is dead (`Health` shows that
  it comes). None for a pump that fails, a peer that closes, or a stop of a
  healthy tailnet: in particular a read is not assumed to return.
- *MultiPlug*: weak fairness of each goroutine, of the kill and of a cancelled
  `ts.Up`. None for the command (it may run for ever), for a node that comes
  up, for signals, and for the choice of a `select` with two ready cases.
- *Provision*, *DnsServer*, *Selections*, *ConfigFile*, *Hosts*, *Router*,
  *UnplugProxy*: safety only.

Runs with `CHECK_DEADLOCK FALSE` are those of `Daemon`, `Selections` and
`ConfigFile`, whose bounds on requests and on environment steps let them come
to rest, that of `Datapath`, where the daemon exits and the starts are
bounded, and those of `MultiPlug`, where the program ends.

## 6. Proofs

TLAPS checks 35 theorems, which state every invariant and every action property
of the passing runs, and both refinements. Each of them holds for every value
of the constants that the named assumptions allow: any tailnets, ranges, hosts,
routes and directories, and any bound on requests, faults and crashes. TLC
looked for counterexamples first, with the same definitions.

| module | theorems |
|---|---|
| RegistryProofs | `RegistryTypeCorrect`, `RegistryNamesMatchIPs`, `RegistryNoAddressWasted`, `RegistryNoOrphanIP`, `RegistryStable` |
| DnsServerProofs | `DnsInvariant`, `DnsImplementsRegistry` (`DnsSpec => RegSpec`), `DnsReachesAsked`, `DnsKeepsPublicNames`, `DnsStable` |
| DaemonProofs | `DaemonInvariant`, `DaemonLiveMatchesConfig`, `DaemonRegistryFollowsLive`, `DaemonSlotsExclusive`, `DaemonHostsNeverMislead`, `DaemonHostsComplete` |
| SelectionsProofs | `SelectionsInvariant`, `SelectionsLinesCurrent`, `SelectionsPinsHold`, `SelectionsLockedKept` |
| ProvisionProofs | `ProvisionInvariant`, `ProvisionOthersUntouched`, `ProvisionLockedKept`, `ProvisionImplementsIdentity` (`ProvisionSpec` implements `Identity`) |
| ConfigFileProofs | `ConfigFileInvariant`, `ConfigFilePatchServes`, `ConfigFileDriftSeen`, `ConfigFileOthersKept` |
| RunningProofs | `HealthInvariant`, `HealthRestartsSpaced`, `DatapathInvariant` |
| ProgramsProofs | `ProgramsNoAmbiguousName`, `ProgramsHostsFileKept`, `ProgramsReachTheirHost`, `PlugLeavesNoChild` |

**Registry.** From `RegistryAssumption`: folding the case of a name twice is
folding it once, ranges have a size. `RegInv` is inductive: the four named
properties need each other. A fresh address is unused only because everything
in use lies below its allocator's next one (`NextIPIsFresh`), and the ranges
are disjoint because what `add` is given overlaps nothing in use
(`Unclaimed`).

**DnsServer.** From the registry's assumption, `DnsAssumption`, and
`CanonicalAssumption`: a queried name that is brought under a suffix is one of
the names there are. Every action is an operation of the registry or leaves it
alone, so `DnsSpec => RegSpec` and what is proved of the registry holds here.
`DnsInv` adds that the zones an entry answers for are its own (`ZonesAreConfigured`),
that the address of a current answer still stands for the host asked for
(`AnswerStands`), that a denied name belongs to a tailnet (`DeniedIsOurs`), and
that a public name is taken over for a peer only (`TakenIsPeer`). The middle of
a query needs all of them: what `match` found under the first hold of the lock may be gone at the third.

**Daemon.** From `DaemonAssumption`: no two tailnets differ in case only, and
their hosts have different names (two entries that join one and the same
tailnet are left out). Devices and ranges of slots may collide as they like. `EveryTailnetStands`: a tailnet
is listed, running and registered, or none of it, except the one that the
operation has in hand; `OpStands` says what the operation has checked, and still
holds because cfgMu is not let go; `StopsFirst`: after the stop pass, nothing
runs that the file does not ask for. `SlotsExclusive` has two halves. A device
has one instance because it is opened only when nobody has it
(`DevicesExclusive`). A range is registered once, past the stop pass of a file
with distinct ranges, because a tailnet is started only where the file puts it
and everything else that runs is where the file puts it too. While no file has
let ranges overlap (`shared`), the registry's own invariant holds as well
(`RegSound`). `HostsNeverMislead` and `HostsCompleteAtFirst` need that
invariant, so they excuse a daemon that ever ran a file with overlapping
ranges; they also excuse the time after a write that failed (`unwritten`), and
the second one the tailnets that the last apply skipped (`missed`): each excuse
is a line of section 7, and ends with the next apply except `shared`.
`HostsNeverMislead` rests on `LinesLead`: at any moment, not only with cfgMu
free, a line of the hosts block leads to its host, or lies in no registered
range, or the operation that took its range will rewrite the block before it
lets go of cfgMu; a write that fails suspends that, the next one that does not
restores it. `HostsCompleteAtFirst` rests on `LinesInv`: wherever the line
of a ready tailnet is missing, its watcher's first callback, a sync, or an
operation about to apply the selections is still to come (`Owed`); a line that
is there is left alone, because an address lies in its own tailnet's range
(`SelectedInRange`) and only a tailnet that is not listed is removed. This
theorem assumes names in lower case: the code gives no address to others
(section 7, `dns.go:263`).

**Selections.** From `SelectionsAssumption`. `SelIInv` says that a pin is the
node granted first (`PinsRecorded`), that an apply which nothing follows read
the world as it is now (`LinesSettled`), and that what was forgotten is wanted
neither by the config nor by such an apply (`ForgottenUnwanted`). Both matter
because an apply reads peers and tags before it writes lines.

**Provision.** From `ProvisionAssumption`: a directory lies below itself. A
reset or delete that is under way keeps standing on what it checked under cfgMu
(`RequestStands`): its tailnet stays disabled and unlocked, is stopped before
anything is destroyed, and nobody else comes to use what is condemned; a crash
ends the request. The refinement maps consent to the pairs of an enabled
tailnet and its directory, members to the running nodes, and identities to the
directories that hold one. It is proved for any number of edits by hand; TLC's
run allows one.

**Health.** `RecordIsTrue` relates the age that the watchdog keeps to a history
variable that only real restarts reset; it is what makes `RestartsSpaced` more
than a restatement of the guard.

**Datapath.** The two halves share no variable, so each step of one leaves the
other's part alone. `DialedOnce` (a flow that may be accepted has been dialed)
and `DomainsFirst` (a registration about to set its server has set the domains,
or a revert or a restart of resolved took them) make it inductive.

**ConfigFile.** From `ConfigAssumption`: "no entry" is no tailnet's name, and the
bounds are numbers. A loop of the patch is a function of its turns, so what it
computes is proved by induction over them (`NatInd`: the set of the good turns
in the place of a predicate, and the least turn outside it by the library's
well-foundedness of <). `DropsAre` and `RewritesAre` say what a loop has done
after k turns, `PatchOthers` that a patch leaves the entries of others as they
are and in their order, `AskedExact` that a patch of a file in which names are
unique gives what was asked for.

`FileInv` is `CfgTypeOK`, names unique in the file, and what a request that
holds `cfgMu` may still rely on: what it is about to do (`Planned`), what it has
read and patched (`Read`, `Ready`), and that what runs was synced to what the
file says, unless an edit came between (`InSync`); an entry that an add has
prepared keeps the default directory (`PicksDefault`). Uniqueness cannot be
proved from the check that adding makes, which is made too early; it rests on
the comparison after the patch, which refuses a second entry of a name
(`AddedTwiceShows`).

**Hosts.** From `HostsAssumption`: the sets of entries are finite, as
`applySelections` collects them from finite lists. `HostsInv` says what any
history of writes, removals, edits and one interrupted write makes of the
file: lines of others and blanks, then at most one block of the entries of one
application, then lines of others and blanks again, or no block at all; after a
crash in the middle of a write the part before the block may also hold what the
crash left behind, a begin marker and lines of ours without an end. The lemmas `MadeWritten`,
`MadeRemoved`, `MadeEdited` and `MadeTorn` have one operation each keep that
shape; `UserLinesOfConcat`, again by induction, makes the lines of others
comparable before and after. A file that is well formed is of the first, clean
kind even if a crash happened (`WellFormedIsClean`), because the remains of a
write show. `NoAmbiguousName` then needs the lines of one set of entries only
(`NamesApart`): two aliases that are equal were both replaced by the MagicDNS
name, and what is equal to a MagicDNS name borrows it.

**Router.** From `RouterAssumption`: folding case twice is folding it once;
no peer of the tailnet has the address that ts-router listens on, nor does a
name without an answer. `Accepted` is what the configuration is checked for (a
plain route has its listener to itself, a listener has a name once), hence the route that is
chosen for a name is the only one (`ChosenIsOne`). `NoFeedback` is the check in
`pipe`: only a client that was given `local_ip` gets that far, and what is
dialed is an upstream's address other than that.

**UnplugProxy.** From `ProxyAssumption`: the DNS name of a machine is a name of
two labels or more, with one label before the tailnet's suffix if it lies under
it; other machines may lie under any other suffix. Nothing is assumed of the
host name a machine chose itself. `NamesOfMachine` says which names the two
passes of `peerDNSNames` can give; two machines that share a name then share
one that one of them chose (`TrueNamesApart`).

**MultiPlug.** From `PlugAssumption`: the listeners that go on after an error are
listeners. `cmd.Wait` returns only for a command that is gone, and a command
that is gone stays gone; the rest follows step by step.

Only model-checked: liveness under fairness (`OperationsEnd`,
`ParkedStartRecovers`, `DarkNodeRestarted`, `NetworkChangeHandled`,
`PumpDeathReported`, `StopEnds`, `LinkConfigured`, `FlowReaped`, `PlugEnds`),
which the prover has no rules for.

## 7. Findings

- `daemon_dark`: a restart in place that finds its TUN name busy leaves the
  tailnet down for good: only a sync hands a busy start to the retry, and the
  watchdog looks only at tailnets that run (`control.go:1225`).
- `config_add_race`: adding chooses a free range under `cfgMu` and appends the
  entry under a second hold of it without looking again: two tailnets may end
  up on one range (`control.go:2281`).
- `plug_signal`: `select` evaluates `cmd.Wait()` first, so no signal is taken
  while the command runs: sent to ts-plug alone, it neither kills the command
  nor ends the program, nor cancels a `ts.Up` that hangs
  (`ts-multi-plug.go:184`).

`PROJECT.json` quotes the comments and docs each of them contradicts.

More divergences were met with the same modules and have no run of their own.
Those with a name are definitions that fail when they are put into a
configuration:

- `MoveServed` of `ConfigFile`: a tailnet with its own `state_dir` cannot be
  moved to another range or device: the rewritten element loses `state_dir`,
  and the check of the round trip refuses it (`configpatch.go:343`).
- `HostsComplete` of `Daemon`: a node that leaves Running and returns does not
  get its hosts lines back, if selections were applied in between
  (`tailnet.go:227`); and a tailnet called "Dev" never gets an address, since
  `allocate` compares the folded name of the entry with the name as spelled
  (`dns.go:263`).
- Nothing repeats an apply that skipped a tailnet (`control.go:449`-`468`) or
  could not write the hosts block (`control.go:506`, only logged). A skipped
  tailnet has no lines until something else applies the selections; a block
  that was not rewritten keeps the lines of a stopped tailnet, which lead to a
  host of the next one on the range, although "stale hosts-block or resolver
  caches can't be re-pointed at a different tailnet's hosts" (`dns.go:92`).
  `HostsCompleteAtFirst` and `HostsNeverMislead` fail without `missed` and
  `unwritten`.
- Two entries with overlapping ranges, from a hand edit or from the race of
  `config_add_race`, are both registered (`dns.go:60`). An address that both
  hand out keeps the name of the later one, and `remove`, which finds names by
  their addresses (`dns.go:113`), leaves the other's entry in `byName` behind: as long as the daemon runs, a
  query for that name is answered with an address that means another host or
  none. This is why
  `HostsNeverMislead` speaks of daemons that never ran such a file.
- `NetworkChangeHandled` of `Health` with `Blips` TRUE: a network event dropped
  because the route was away for an instant is not sent again (`control.go:992`).
- `HealthyLeftAlone` of `Health`: after a resume or a network switch every node
  that was ever online is restarted, also one that has just answered
  (`control.go:77`).
- `NeverConnectedLeftAlone` of `Health`: the watchdog's memory outlives a reset,
  and it restarts a node that waits for its first login (`control.go:1017`).
- `PinnedNodeReached` of `Selections`: a connection is dialled by name, so the
  address granted for a pinned peer, or a DNS query for its name, reaches
  whatever node bears the name now: the pin guards only the hosts block
  (`forwarder.go:178`), where the README of ts-multinet has a replaced peer
  fail loudly.
- `NameAppearsOnce` of `Hosts`, with the input `MCBorrowing`:
  `qualifyHostsAliases` looks for duplicates among the aliases only, so the
  MagicDNS name that `hostsLine` adds, or that a claimer falls back to, is
  compared with nothing (`hosts.go:70`). A tailnet may be given another's MagicDNS
  suffix for its friendly domain (`handleDomain` checks the syntax only,
  `control.go:2050`); with `domain_hosts` its host then stands in the block
  under the other's name, with another address, where "a name must never
  appear twice with different IPs" (`hosts.go:51`). `NoAmbiguousName` excuses
  exactly this, with `Borrows`.
- `ListingAgrees` of `Selections`: under `allow_all` an explicitly selected
  service has no hosts line and is still listed as selected (`control.go:903`).

And those that were read off the code next to a model, at its edge:

- A client that still holds the answer of a removed tailnet reaches a host of
  the next one on the range, whose allocator begins at the first address again
  (`dns.go:91`); this is why `ReachesAsked` speaks of current answers.
- Before a tailnet has its resolver, every name under its zones is given an
  address (`dns.go:214`): `blind` in `DnsServer`. When the LocalAPI is slow, a
  host that exists is denied (`dns.go:371`).
- "Must never have a DNS server without routing domains"
  (`resolved.go:83`): fails when a revert, or a restart of resolved, falls
  between the two calls of `register`; the state lasts until the next
  registration. `ServerHasDomains` excuses it with `torn`. The next instance of
  a tailnet may find the entry a raced revert left behind and trust it for up
  to a minute.
- A shutdown cancels the context before `revertAll`, so that the pumps may have
  closed the device that `resolvectl revert` is called for
  (`ts-multinet.go`, the deferred calls of `main`).
- A UDP flow is ended after a minute without a datagram in one direction; the
  comment has it "in either direction" (`udp.go:18`).
- A client that half-closes its side ends the flow before the answer has been
  copied, in `splice` and its siblings (`forwarder.go:232`).
- ts-router answers for a server name that the file writes with capitals, and
  then does not route it (`proxy.go:44`); `LowerCase` excuses it.
- ts-unplug-proxy dials either of two machines with one OS host name
  (`ts-unplug-proxy.go:331`), takes a machine of another tailnet by its host
  name under the own suffix, where an own machine may have that name
  (`ts-unplug-proxy.go:345`), and without a status it takes a custom suffix for
  a public name.
- A crash or an error inside `os.WriteFile` may leave the begin marker of the
  hosts block without its end. The next write appends a second block
  (`hosts.go:166`), and the lines under the first marker stay where nothing
  rewrites them: `HostsNeverMislead` speaks of the lines of the block.

## 8. What is not modelled

- The control client and the command line, the web UI, the posture preview,
  and the JSON of the control socket: parsing and formatting, no state of their
  own; what their requests do is in `Provision`, `Selections` and `ConfigFile`.
- TUN ioctls, netlink, gVisor's TCP/IP stack and tsnet: external. Their
  effects appear as environment actions.
- Formats: packets and checksums, ICMP echo (stateless), SOCKS5 and HTTP
  framing, the TLS hello. No property is about them.
- The start-up of the daemon before the first sync, and its flags. The order of
  a shutdown is in `Datapath`.
- ts-unplug beyond `pipeTCP`, and the HTTP proxying of ts-plug and
  ts-unplug-proxy, which the standard library does.
- The buffer that ts-plug's DNS listener shares between queries
  (`ts-multi-plug.go:373`): a data race on bytes; `MultiPlug` has no payloads.
- `cmd/examples`.

Windows that the code has and no property covers, beside those listed under
"hazards" of `PROJECT.json`: a TUN name given to add is checked for its length
only (`control.go:2264`); an edit by hand between the second read and the
rename is lost (`configpatch.go:455`), and one during a sync is recorded as
applied (`control.go:294`); a peer status or service list that cannot be read
once lets `forget` of a ruled service through
(`control.go:1863`); pins that cannot be saved (`control.go:471`); a hosts block
that cannot be written, in `Selections` (`LinesCurrent` takes every write to
succeed; the failure is in `Daemon` and, cut short by a crash, in `Hosts`); two
entries whose names differ only in case, which handlers compare folded and the
patch does not (`configpatch.go:46`), so that `CfgInv` speaks of exact names; a
host name that ends in the tailnet's suffix in capitals, whose short form
`ts-unplug-proxy` does not find (`ts-unplug-proxy.go:342`); a tailnet
that fails at boot ends the daemon (`ts-multinet.go:324`); `os.Exit` right after
`cancelCtx` may leave the command behind (`ts-multi-plug.go:219`), and a line beyond the scanner's limit stops its
output (`ts-multi-plug.go:579`).

## 9. Plan

What is modelled stays as it is; what is left is to prove more of it, in this
order, with the argument expected for each:

- An abstract specification of slot ownership (a device has at
  most one owner, is taken free and given back) that `Daemon` implements:
  `DevicesExclusive` and the parts of `OpStands` about devices are the invariant it
  needs.
- The same for the hosts file as other programs see it: a list of lines that
  only they change. `HostsInv` has what the mapping `UserLines(file)` needs,
  except where a crash tears the file, which the abstract specification has
  to allow.
- The safety half of the liveness properties that end with a report or a
  hand-over (`PumpDeathReported`, `ParkedStartRecovers`): that what is awaited
  is still owed, as `Owed` says it for the hosts lines.
- The HTTP side of ts-plug, when its listeners get a state of their own.
