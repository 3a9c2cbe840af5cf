----------------------------- MODULE Selections -----------------------------
(***************************************************************************)
(* Which hosts of one running tailnet get a line in the hosts block        *)
(* (cmd/ts-multinet/selection.go and the handlers in control.go): the      *)
(* selection in the config, changed by requests, resolved against peers    *)
(* and services that the control plane changes, under pins that tie a peer *)
(* name to the node it named first.                                        *)
(*                                                                         *)
(* A request commits its change under cfgMu and applies the selections     *)
(* before it lets go; a push of the netmap applies them without cfgMu.     *)
(* applySelections holds d.mu; between its read of the peers and the rest  *)
(* the world moves on.  A peer is known by its short name, globs are the   *)
(* sets of names they cover.                                               *)
(***************************************************************************)
EXTENDS Naturals

CONSTANTS
  Peer,       \* short names of peers, the Mullvad exits left out
  Service,    \* "svc:" names
  Node,       \* stable node IDs
  NoNode,
  NameRule,   \* auto rules that match by name: host: and svc: globs
  LiveRule,   \* auto rules that match by what is there: tag:, tcp:, udp:
  Covers,     \* NameRule -> the names the glob covers
  Nobody,     \* nobody applies
  MaxWrites,  \* bound: config changes
  MaxChanges, \* bound: changes of peers, services and tags, and unpinnings
  MaxFaults   \* bound: drops of the netmap subscription, and failed reads of
              \* the peer status or the service list

Resource == Peer \cup Service
Rule == NameRule \cup LiveRule

ASSUME SelectionsAssumption ==
  /\ Peer \cap Service = {} /\ NameRule \cap LiveRule = {}
  /\ NoNode \notin Node /\ NoNode \notin Resource /\ Node \cap Resource = {}
  /\ Covers \in [NameRule -> SUBSET Resource]
  /\ Nobody \notin {"config", "push"}
  /\ {MaxWrites, MaxChanges, MaxFaults} \subseteq Nat

VARIABLES
  at,        \* short name -> the node that bears it now, or NoNode
  services,  \* services advertised to this node
  tagged,    \* <<live rule, name>>: the tags or ports of name match the rule
  conf,      \* the config: [resources, locked, allowAll, rules]
  looked,    \* the peers a request saw before it took cfgMu
  pins,      \* selections.json: short name -> node, or NoNode
  lines,     \* the hosts block: name -> its node or service, or NoNode
  due,       \* who will apply: "config" (holds cfgMu), "push"
  applying,  \* applySelections has read the peers: [by, at, tagged]
  watching,  \* the netmap subscription stands
  named,     \* peer names that have had a line, and with it an address
  granted,   \* history: short name -> the first node lined since it was unpinned
  stale,     \* history: the last apply missed something
  forgotten, \* history: names forgotten, and not wanted again since
  used       \* what has been used of each bound

world == <<at, services, tagged>>
past == <<granted, stale, forgotten>>
applyVars == <<pins, lines, applying, named>>
vars == <<world, conf, looked, due, watching, applyVars, past, used>>

Use(bound, max) == used[bound] < max /\ used' = [used EXCEPT ![bound] = @ + 1]

Conf == [resources : SUBSET Resource, locked : SUBSET Resource,
         allowAll : BOOLEAN, rules : SUBSET Rule]

NotApplying == [by |-> Nobody, at |-> [p \in Peer |-> NoNode], tagged |-> {}]

SelInit ==
  /\ at \in [Peer -> Node \cup {NoNode}]
  /\ \A p, q \in Peer : p # q /\ at[p] # NoNode => at[p] # at[q]
  /\ services \in SUBSET Service
  /\ tagged = {}
  /\ conf = [resources |-> {}, locked |-> {}, allowAll |-> FALSE, rules |-> {}]
  /\ looked = {}
  /\ pins = [p \in Peer |-> NoNode] /\ granted = pins /\ named = {}
  /\ lines = [n \in Resource |-> NoNode]
  /\ due = {"push"}                \* the node has just reached Running
  /\ applying = NotApplying
  /\ watching = TRUE /\ stale = FALSE /\ forgotten = {}
  /\ used = [writes |-> 0, changes |-> 0, faults |-> 0]
-----------------------------------------------------------------------------
Present(nodes) == {p \in Peer : nodes[p] # NoNode}

(* autoPeerRule and autoSvcRule *)
Covered(rules, n, tags) ==
  \/ \E r \in rules \cap NameRule : n \in Covers[r]
  \/ \E r \in rules \cap LiveRule : <<r, n>> \in tags

AutoWanted(nodes, tags, svcs) ==
  {n \in Present(nodes) \cup svcs : Covered(conf.rules, n, tags)}

(* A slip: locked resources are not wanted by themselves. *)
WantForgetsLocks(nodes, tags, svcs) ==
  (IF conf.allowAll THEN Present(nodes) ELSE conf.resources) \cup AutoWanted(nodes, tags, svcs)

(* resolveSelections, first half.  allow_all stands in for the whole list. *)
Want(nodes, tags, svcs) ==
  (IF conf.allowAll THEN Present(nodes) ELSE conf.resources)
  \cup conf.locked \cup AutoWanted(nodes, tags, svcs)

(* A slip: the pins are not read. *)
LineUnpinned(n, nodes, svcs) ==
  IF n \in Service THEN (IF n \in svcs THEN n ELSE NoNode) ELSE nodes[n]

(* Second half: a missing peer or service, and a peer whose node is not    *)
(* the pinned one, gets no line.                                           *)
Line(n, nodes, svcs) ==
  IF n \in Service THEN (IF n \in svcs THEN n ELSE NoNode)
  ELSE IF pins[n] \in {NoNode, nodes[n]} THEN nodes[n] ELSE NoNode

Lines(nodes, tags, svcs) ==
  [n \in Resource |-> IF n \in Want(nodes, tags, svcs) THEN Line(n, nodes, svcs) ELSE NoNode]

BeginApply ==
  /\ applying.by = Nobody
  /\ \E by \in due :
       /\ due' = due \ {by}
       /\ applying' = [by |-> by, at |-> at, tagged |-> tagged]
  /\ stale' = FALSE
  /\ UNCHANGED <<world, conf, looked, watching, pins, lines, named, granted,
                 forgotten, used>>

Seed(new) == named \cup {p \in Peer : new[p] # NoNode}

WriteLines(new) ==
  LET pinned(p) == pins[p] = NoNode /\ new[p] # NoNode IN
  /\ lines' = new
  /\ pins' = [p \in Peer |-> IF pinned(p) THEN new[p] ELSE pins[p]]
  /\ granted' = [p \in Peer |-> IF granted[p] = NoNode THEN new[p] ELSE granted[p]]
  /\ named' = Seed(new)
  /\ applying' = NotApplying
  /\ UNCHANGED <<world, conf, looked, due, watching, forgotten>>

Apply ==
  /\ applying.by # Nobody
  /\ WriteLines(Lines(applying.at, applying.tagged, services))
  /\ UNCHANGED <<stale, used>>

(* Without a service list no service is resolved; without the peer status  *)
(* the tailnet has no lines at all.                                        *)
ApplyWithoutServices ==
  /\ applying.by # Nobody /\ Use("faults", MaxFaults)
  /\ WriteLines(Lines(applying.at, applying.tagged, {}))
  /\ stale' = TRUE

ApplyWithoutStatus ==
  /\ applying.by # Nobody /\ Use("faults", MaxFaults)
  /\ lines' = [n \in Resource |-> NoNode]
  /\ applying' = NotApplying
  /\ stale' = TRUE
  /\ UNCHANGED <<world, conf, looked, due, watching, pins, named, granted,
                 forgotten>>
-----------------------------------------------------------------------------
(* updateTailnet lists the peers first, then takes cfgMu.                  *)
Look ==
  /\ looked' = Present(at)
  /\ UNCHANGED <<world, conf, due, watching, applyVars, past, used>>

CfgMuFree == "config" \notin due /\ applying.by # "config"

Commit(c) ==
  /\ CfgMuFree
  /\ Use("writes", MaxWrites)
  /\ conf' = c
  /\ due' = due \cup {"config"}
  /\ UNCHANGED <<world, looked, watching, applyVars, granted, stale>>

(* Services are looked up under cfgMu, peers were before. *)
Known == looked \cup services

Select(n) ==
  /\ n \in Known
  /\ Commit([conf EXCEPT !.resources = @ \cup {n}])
  /\ forgotten' = forgotten \ {n}

SelectAll ==
  \E S \in SUBSET Known :
    /\ S # {}
    /\ Commit([conf EXCEPT !.resources = @ \cup S, !.allowAll = FALSE])
    /\ forgotten' = forgotten \ S

(* A slip: a rule may select it again. *)
ForgetUnchecked(n) ==
  /\ n \notin conf.locked
  /\ Commit([conf EXCEPT !.resources = @ \ {n}])
  /\ forgotten' = forgotten \cup {n}

(* handleForget: not what is locked, nor what a rule would select again. *)
Forget(n) ==
  /\ n \notin conf.locked
  /\ ~Covered(conf.rules, n, tagged)
  /\ Commit([conf EXCEPT !.resources = @ \ {n}])
  /\ forgotten' = forgotten \cup {n}

(* If the service list cannot be read, ports and tags match nothing. *)
ForgetUnread(n) ==
  /\ n \in Service /\ n \notin conf.locked
  /\ ~Covered(conf.rules \cap NameRule, n, {})
  /\ used.writes < MaxWrites /\ used.faults < MaxFaults /\ CfgMuFree
  /\ used' = [used EXCEPT !.writes = @ + 1, !.faults = @ + 1]
  /\ conf' = [conf EXCEPT !.resources = @ \ {n}]
  /\ due' = due \cup {"config"}
  /\ UNCHANGED <<world, looked, watching, applyVars, past>>

Lock(n) ==
  /\ n \in Known
  /\ Commit([conf EXCEPT !.resources = @ \cup {n}, !.locked = @ \cup {n}])
  /\ forgotten' = forgotten \ {n}

Unlock(n) ==
  /\ Commit([conf EXCEPT !.locked = @ \ {n}])
  /\ UNCHANGED forgotten

AllowAll(on) ==
  /\ Commit([conf EXCEPT !.allowAll = on])
  /\ UNCHANGED forgotten

AddRule(r) ==
  /\ Commit([conf EXCEPT !.rules = @ \cup {r}])
  /\ forgotten' = {}

DropRules(rules) ==
  /\ Commit([conf EXCEPT !.rules = @ \ rules])
  /\ UNCHANGED forgotten

Clear ==
  /\ Commit([conf EXCEPT !.resources = conf.locked, !.allowAll = FALSE, !.rules = {}])
  /\ UNCHANGED forgotten

(* The file edited by hand, and a reload: a lock may lack its resource. *)
HandEdit ==
  /\ \E ls \in SUBSET Resource : Commit([conf EXCEPT !.locked = ls])
  /\ forgotten' = {}
-----------------------------------------------------------------------------
(* A slip: a push during an apply is dropped. *)
PushOnlyIfQuiet ==
  /\ due' = IF watching /\ applying.by = Nobody THEN due \cup {"push"} ELSE due
  /\ stale' = (stale \/ ~watching)
  /\ UNCHANGED <<conf, looked, watching, applyVars>>

(* watchNetmap: a push follows every change of a peer, a tag or this       *)
(* node's services.  What changes while the subscription is down is never  *)
(* pushed.                                                                 *)
Push ==
  /\ due' = IF watching THEN due \cup {"push"} ELSE due
  /\ stale' = (stale \/ ~watching)
  /\ UNCHANGED <<conf, looked, watching, applyVars>>

PeerChanges(p) ==
  /\ Use("changes", MaxChanges)
  /\ \E x \in (Node \cup {NoNode}) \ {at[p]} :
       /\ x # NoNode => \A q \in Peer : at[q] # x
       /\ at' = [at EXCEPT ![p] = x]
  /\ Push
  /\ tagged' = {t \in tagged : t[2] # p}   \* another node has other tags
  /\ UNCHANGED <<services, granted, forgotten>>

ServiceChanges(s) ==
  /\ Use("changes", MaxChanges)
  /\ services' = IF s \in services THEN services \ {s} ELSE services \cup {s}
  /\ tagged' = {t \in tagged : t[2] # s}
  /\ Push
  /\ UNCHANGED <<at, granted, forgotten>>

Retagged(r, n) ==
  /\ Use("changes", MaxChanges)
  /\ n \in Present(at) \cup services
  /\ tagged' = IF <<r, n>> \in tagged THEN tagged \ {<<r, n>>} ELSE tagged \cup {<<r, n>>}
  /\ Push
  /\ forgotten' = forgotten \ {n}
  /\ UNCHANGED <<at, services, granted>>

Drop ==
  /\ watching /\ Use("faults", MaxFaults)
  /\ watching' = FALSE
  /\ UNCHANGED <<world, conf, looked, due, applyVars, past>>

Resubscribe ==
  /\ ~watching
  /\ watching' = TRUE
  /\ UNCHANGED <<world, conf, looked, due, applyVars, past, used>>

(* The user deletes a pin from selections.json. *)
Unpin(p) ==
  /\ Use("changes", MaxChanges)
  /\ applying.by = Nobody /\ pins[p] # NoNode
  /\ pins' = [pins EXCEPT ![p] = NoNode]
  /\ granted' = [granted EXCEPT ![p] = NoNode]
  /\ stale' = TRUE                  \* nothing applies now
  /\ UNCHANGED <<world, conf, looked, due, watching, lines, applying, named,
                 forgotten>>

Request ==
  \/ Look \/ SelectAll \/ Clear \/ HandEdit
  \/ \E n \in Resource : Select(n) \/ Forget(n) \/ ForgetUnread(n) \/ Lock(n) \/ Unlock(n)
  \/ \E on \in BOOLEAN : AllowAll(on)
  \/ \E r \in Rule : AddRule(r) \/ DropRules({r})
  \/ DropRules(Rule)

WorldStep ==
  \/ Drop \/ Resubscribe
  \/ \E p \in Peer : PeerChanges(p) \/ Unpin(p)
  \/ \E s \in Service : ServiceChanges(s)
  \/ \E r \in LiveRule, n \in Resource : Retagged(r, n)

SelNext ==
  \/ BeginApply \/ Apply \/ ApplyWithoutServices \/ ApplyWithoutStatus
  \/ Request \/ WorldStep

SelSpec == SelInit /\ [][SelNext]_vars
-----------------------------------------------------------------------------
SelTypeOK ==
  /\ at \in [Peer -> Node \cup {NoNode}] /\ services \subseteq Service
  /\ tagged \subseteq LiveRule \X Resource
  /\ conf \in Conf /\ looked \subseteq Peer
  /\ pins \in [Peer -> Node \cup {NoNode}] /\ granted \in [Peer -> Node \cup {NoNode}]
  /\ lines \in [Resource -> Node \cup Service \cup {NoNode}]
  /\ due \subseteq {"config", "push"} /\ applying.by \in {Nobody, "config", "push"}
  /\ \A p \in Peer : lines[p] # NoNode => p \in named
  /\ named \subseteq Peer /\ forgotten \subseteq Resource

AtRest == due = {} /\ applying.by = Nobody

(* A name that was granted for a node never gets a line for another one    *)
(* until the user removes the pin, whatever is selected, forgotten,        *)
(* renamed and selected again meanwhile (comment on selectedResource: "a   *)
(* later rename or replacement can never silently redirect an entry that   *)
(* was already granted").                                                  *)
PinsHold ==
  [][\A p \in Peer : lines'[p] # NoNode /\ lines'[p] # lines[p] => lines'[p] = granted'[p]]_vars

(* What is locked keeps its line through every request: only a peer or     *)
(* service that went away or was replaced, or an apply that could not read *)
(* them, takes it.                                                         *)
LockedKeepsLine ==
  [][\A n \in conf.locked \cap conf'.locked :
       lines[n] # NoNode /\ lines'[n] = NoNode =>
         \/ n \in Peer /\ applying.at[n] # lines[n]
         \/ n \in Service /\ n \notin services
         \/ used'.faults > used.faults]_vars

(* With no apply under way the hosts block is what the config selects from *)
(* the peers and services of now: no push is lost between an apply that is *)
(* already reading and the next one.  A gap in the subscription or a read  *)
(* that failed leaves it stale until the next apply.                       *)
LinesCurrent ==
  AtRest /\ ~stale => lines = Lines(at, tagged, services)

(* What forget has unselected stays away until somebody selects, locks or  *)
(* tags it again: forget refuses what a rule would bring back.  allow_all  *)
(* is not a rule for it.                                                   *)
ForgottenGone ==
  AtRest /\ ~conf.allowAll => \A n \in forgotten : lines[n] = NoNode

(* The states of the selections: typed as above, and at rest without a     *)
(* line for anything the user has forgotten.                               *)
SelInv == SelTypeOK /\ ForgottenGone

(* The listing of peers and services calls this selected (control.go:843:  *)
(* "resources, locked, allow_all, auto rules - the same union              *)
(* resolveSelections applies, so the checkbox state and the hosts block    *)
(* can't disagree").                                                       *)
ListedAsSelected(n) ==
  \/ n \in conf.resources \cup conf.locked
  \/ n \in Peer /\ conf.allowAll
  \/ Covered(conf.rules, n, tagged)

ListingAgrees ==
  AtRest /\ ~stale =>
    \A n \in Present(at) \cup services :
      ListedAsSelected(n) /\ Line(n, at, services) # NoNode => lines[n] # NoNode

(* What a connection to the address of a peer reaches: handle looks the    *)
(* name up, dialTailnet asks the resolver for the node that bears it now.  *)
Reached(p) == at[p]

(* A peer that was replaced under a pinned name is not reached through the *)
(* address granted for it (README: it "fails loudly instead of silently    *)
(* redirecting").                                                          *)
PinnedNodeReached ==
  AtRest /\ ~stale => \A p \in named : Reached(p) \in {NoNode, pins[p]} \/ pins[p] = NoNode
=============================================================================
