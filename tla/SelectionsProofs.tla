-------------------------- MODULE SelectionsProofs --------------------------
(***************************************************************************)
(* Selections, pins and lines for any peers, services, rules and nodes,    *)
(* and any number of requests, changes and failed reads.                   *)
(***************************************************************************)
EXTENDS Selections, TLAPS

(* A pin is the node that was lined first, and a line is to that node.     *)
PinsRecorded ==
  \A p \in Peer : /\ pins[p] = granted[p]
                  /\ lines[p] # NoNode => pins[p] \in {NoNode, lines[p]}

(* An apply that nothing follows reads the world as it is now.             *)
LinesSettled ==
  due = {} /\ ~stale =>
    IF applying.by = Nobody THEN lines = Lines(at, tagged, services)
    ELSE applying.at = at /\ applying.tagged = tagged

(* What is forgotten is not wanted, not even by an apply that has already  *)
(* read the tags and that nothing follows.                                 *)
ForgottenUnwanted ==
  /\ \A n \in forgotten : /\ n \notin conf.resources \cup conf.locked
                          /\ ~Covered(conf.rules, n, tagged)
  /\ due = {} /\ applying.by # Nobody =>
       \A n \in forgotten : ~Covered(conf.rules, n, applying.tagged)

SelIInv ==
  SelTypeOK /\ applying.at \in [Peer -> Node \cup {NoNode}]
  /\ PinsRecorded /\ LinesSettled /\ ForgottenUnwanted /\ ForgottenGone

LEMMA LineIsPinned ==
  ASSUME NEW p \in Peer, NEW nodes, NEW svcs, Line(p, nodes, svcs) # NoNode
  PROVE  Line(p, nodes, svcs) = nodes[p] /\ pins[p] \in {NoNode, nodes[p]}
  BY SelectionsAssumption DEF Line

LEMMA LinesType ==
  ASSUME NEW nodes \in [Peer -> Node \cup {NoNode}], NEW tags, NEW svcs \in SUBSET Service
  PROVE  Lines(nodes, tags, svcs) \in [Resource -> Node \cup Service \cup {NoNode}]
<1> SUFFICES ASSUME NEW n \in Resource
             PROVE  Line(n, nodes, svcs) \in Node \cup Service \cup {NoNode}
  BY DEF Lines
<1> QED
  BY SelectionsAssumption DEF Line, Resource

(* What is wanted depends on the world and on the config only.             *)
LEMMA WantStays ==
  ASSUME UNCHANGED <<at, tagged, services, conf>>
  PROVE  Want(at, tagged, services)' = Want(at, tagged, services)
  BY DEF Want, AutoWanted, Covered, Present

(* A name that nothing selects gets no line.                               *)
LEMMA UnwantedHasNoLine ==
  ASSUME NEW n \in Resource, NEW nodes, NEW tags, NEW svcs, ~conf.allowAll,
         n \notin conf.resources \cup conf.locked, ~Covered(conf.rules, n, tags)
  PROVE  Lines(nodes, tags, svcs)[n] = NoNode
  BY DEF Lines, Want, AutoWanted, Covered
-----------------------------------------------------------------------------
(* A request changes the config and owes an apply, or only looks.          *)
RequestFact ==
  /\ UNCHANGED <<world, watching, applyVars, granted, stale>>
  /\ conf' \in Conf /\ looked' \subseteq Peer /\ forgotten' \subseteq Resource
  /\ \/ UNCHANGED <<conf, due, forgotten>>
     \/ due' = due \cup {"config"} /\ ForgottenUnwanted'

LEMMA RequestFacts ==
  ASSUME SelIInv, Request
  PROVE  RequestFact
<1> USE DEF SelIInv
<1>1. conf \in Conf /\ looked \subseteq Peer /\ forgotten \subseteq Resource /\ services \subseteq Service
  BY DEF SelTypeOK
<1>2. CASE Look
  BY <1>1, <1>2 DEF Look, Present, past, RequestFact
<1>3. ASSUME NEW c \in Conf, Commit(c), forgotten' \subseteq Resource,
             \A n \in forgotten' : n \notin c.resources \cup c.locked /\ ~Covered(c.rules, n, tagged)
      PROVE  RequestFact
  BY <1>1, <1>3 DEF Commit, ForgottenUnwanted, Covered, world, RequestFact
<1>4. \A n \in forgotten : n \notin conf.resources \cup conf.locked /\ ~Covered(conf.rules, n, tagged)
  BY DEF ForgottenUnwanted
<1>5. ASSUME NEW n \in Resource, Select(n) \/ Lock(n) PROVE RequestFact
  <2>1. CASE Select(n)
    <3> DEFINE c == [conf EXCEPT !.resources = @ \cup {n}]
    <3>1. /\ c \in Conf /\ c.resources = conf.resources \cup {n}
          /\ c.locked = conf.locked /\ c.rules = conf.rules
      BY <1>1 DEF Conf
    <3> QED
      BY <1>1, <1>3, <1>4, <2>1, <3>1 DEF Select
  <2>2. CASE Lock(n)
    <3> DEFINE c == [conf EXCEPT !.resources = @ \cup {n}, !.locked = @ \cup {n}]
    <3>1. /\ c \in Conf /\ c.resources = conf.resources \cup {n}
          /\ c.locked = conf.locked \cup {n} /\ c.rules = conf.rules
      BY <1>1 DEF Conf
    <3> QED
      BY <1>1, <1>3, <1>4, <2>2, <3>1 DEF Lock
  <2> QED
    BY <1>5, <2>1, <2>2
<1>6. CASE SelectAll
  <2>1. PICK S \in SUBSET Known :
          /\ Commit([conf EXCEPT !.resources = @ \cup S, !.allowAll = FALSE])
          /\ forgotten' = forgotten \ S
    BY <1>6 DEF SelectAll
  <2> DEFINE c == [conf EXCEPT !.resources = @ \cup S, !.allowAll = FALSE]
  <2>2. S \subseteq Resource
    BY <1>1 DEF Known, Resource
  <2>3. /\ c \in Conf /\ c.resources = conf.resources \cup S
        /\ c.locked = conf.locked /\ c.rules = conf.rules
    BY <1>1, <2>2 DEF Conf
  <2> QED
    BY <1>1, <1>3, <1>4, <2>1, <2>3
<1>7. ASSUME NEW n \in Resource, Forget(n) \/ ForgetUnread(n) \/ Unlock(n) PROVE RequestFact
  <2>1. CASE Forget(n)
    <3> DEFINE c == [conf EXCEPT !.resources = @ \ {n}]
    <3>1. /\ c \in Conf /\ c.resources = conf.resources \ {n}
          /\ c.locked = conf.locked /\ c.rules = conf.rules
      BY <1>1 DEF Conf
    <3> QED
      BY <1>1, <1>3, <1>4, <1>7, <2>1, <3>1 DEF Forget
  <2>2. CASE ForgetUnread(n)
    <3>1. /\ conf' \in Conf /\ conf'.resources = conf.resources \ {n}
          /\ conf'.locked = conf.locked /\ conf'.rules = conf.rules
      BY <1>1, <2>2 DEF Conf, ForgetUnread
    <3>2. due' = due \cup {"config"}
          /\ UNCHANGED <<world, looked, watching, applyVars, granted, stale, forgotten>>
      BY <2>2 DEF ForgetUnread, past
    <3> QED
      BY <1>1, <1>4, <3>1, <3>2 DEF ForgottenUnwanted, Covered, world, RequestFact
  <2>3. CASE Unlock(n)
    <3> DEFINE c == [conf EXCEPT !.locked = @ \ {n}]
    <3>1. /\ c \in Conf /\ c.resources = conf.resources
          /\ c.locked = conf.locked \ {n} /\ c.rules = conf.rules
      BY <1>1 DEF Conf
    <3> QED
      BY <1>1, <1>3, <1>4, <2>3, <3>1 DEF Unlock
  <2> QED
    BY <1>7, <2>1, <2>2, <2>3
<1>8. ASSUME NEW on \in BOOLEAN, AllowAll(on) PROVE RequestFact
  <2> DEFINE c == [conf EXCEPT !.allowAll = on]
  <2>1. on \in BOOLEAN
    OBVIOUS
  <2>2. /\ c \in Conf /\ c.resources = conf.resources
        /\ c.locked = conf.locked /\ c.rules = conf.rules
    BY <1>1, <2>1 DEF Conf
  <2> QED
    BY <1>1, <1>3, <1>4, <1>8, <2>2 DEF AllowAll
<1>9. ASSUME NEW r \in Rule, AddRule(r) PROVE RequestFact
  <2> DEFINE c == [conf EXCEPT !.rules = @ \cup {r}]
  <2>1. c \in Conf
    BY <1>1 DEF Conf
  <2> QED
    BY <1>1, <1>3, <1>9, <2>1 DEF AddRule
<1>10. ASSUME NEW rules \in SUBSET Rule, DropRules(rules) PROVE RequestFact
  <2> DEFINE c == [conf EXCEPT !.rules = @ \ rules]
  <2>1. /\ c \in Conf /\ c.resources = conf.resources
        /\ c.locked = conf.locked /\ c.rules \subseteq conf.rules
    BY <1>1 DEF Conf
  <2>2. \A n : Covered(c.rules, n, tagged) => Covered(conf.rules, n, tagged)
    BY <2>1 DEF Covered
  <2> QED
    BY <1>1, <1>3, <1>4, <1>10, <2>1, <2>2 DEF DropRules
<1>11. CASE Clear
  <2> DEFINE c == [conf EXCEPT !.resources = conf.locked, !.allowAll = FALSE, !.rules = {}]
  <2>1. /\ c \in Conf /\ c.resources = conf.locked
        /\ c.locked = conf.locked /\ c.rules = {}
    BY <1>1 DEF Conf
  <2>2. \A n : ~Covered(c.rules, n, tagged)
    BY <2>1 DEF Covered
  <2> QED
    BY <1>1, <1>3, <1>4, <1>11, <2>1, <2>2 DEF Clear
<1>12. CASE HandEdit
  <2>1. PICK ls \in SUBSET Resource : Commit([conf EXCEPT !.locked = ls])
    BY <1>12 DEF HandEdit
  <2>2. [conf EXCEPT !.locked = ls] \in Conf
    BY <1>1 DEF Conf
  <2> QED
    BY <1>1, <1>3, <1>12, <2>1, <2>2 DEF HandEdit
<1> QED
  BY <1>2, <1>5, <1>6, <1>7, <1>8, <1>9, <1>10, <1>11, <1>12 DEF Request
-----------------------------------------------------------------------------
(* What applySelections writes, whether or not it could read the services. *)
LEMMA WriteKeepsInv ==
  ASSUME SelIInv, applying.by # Nobody,
         NEW svcs \in {services, {}}, (svcs = services /\ UNCHANGED stale) \/ stale',
         WriteLines(Lines(applying.at, applying.tagged, svcs)), UNCHANGED used \/ stale'
  PROVE  SelIInv'
<1> USE DEF SelIInv
<1> DEFINE new == Lines(applying.at, applying.tagged, svcs)
<1>1. /\ lines' = new /\ named' = Seed(new) /\ applying' = NotApplying
      /\ pins' = [p \in Peer |-> IF pins[p] = NoNode /\ new[p] # NoNode THEN new[p] ELSE pins[p]]
      /\ granted' = [p \in Peer |-> IF granted[p] = NoNode THEN new[p] ELSE granted[p]]
      /\ UNCHANGED <<world, conf, looked, due, watching, forgotten>>
  BY DEF WriteLines
<1>2. new \in [Resource -> Node \cup Service \cup {NoNode}]
  BY LinesType DEF SelTypeOK
<1>3. \A p \in Peer : new[p] # NoNode =>
        new[p] = applying.at[p] /\ new[p] \in Node /\ pins[p] \in {NoNode, new[p]}
  <2> SUFFICES ASSUME NEW p \in Peer, new[p] # NoNode
               PROVE  new[p] = applying.at[p] /\ new[p] \in Node /\ pins[p] \in {NoNode, new[p]}
    OBVIOUS
  <2>1. new[p] = Line(p, applying.at, svcs)
    BY DEF Lines, Resource
  <2> QED
    BY <2>1, LineIsPinned
<1>4. PinsRecorded'
  BY <1>1, <1>3 DEF PinsRecorded
<1>5. SelTypeOK'
  <2>1. pins' \in [Peer -> Node \cup {NoNode}] /\ granted' \in [Peer -> Node \cup {NoNode}]
    BY <1>1, <1>3 DEF SelTypeOK
  <2>2. named' \subseteq Peer /\ \A p \in Peer : lines'[p] # NoNode => p \in named'
    BY <1>1 DEF Seed, SelTypeOK
  <2>3. applying'.by = Nobody
    BY <1>1 DEF NotApplying
  <2> QED
    BY <1>1, <1>2, <2>1, <2>2, <2>3 DEF SelTypeOK, world
<1>6. applying'.at \in [Peer -> Node \cup {NoNode}] /\ applying'.by = Nobody
  BY <1>1 DEF NotApplying
<1>7. LinesSettled'
  <2> SUFFICES ASSUME due = {}, ~stale' PROVE lines' = Lines(at, tagged, services)'
    BY <1>1, <1>6 DEF LinesSettled
  <2>1. svcs = services /\ applying.at = at /\ applying.tagged = tagged
    BY DEF LinesSettled
  <2>2. Want(at, tagged, services)' = Want(at, tagged, services)
    BY <1>1, WantStays DEF world
  <2>3. ASSUME NEW n \in Resource, n \in Want(at, tagged, services)
        PROVE  Line(n, at, services)' = Line(n, at, services)
    <3>1. CASE n \in Service
      BY <1>1, <3>1 DEF Line, world
    <3>2. CASE n \in Peer /\ n \notin Service
      <4>1. new[n] = Line(n, at, services)
        BY <2>1, <2>3 DEF Lines
      <4>2. new[n] = IF pins[n] \in {NoNode, at[n]} THEN at[n] ELSE NoNode
        BY <3>2, <4>1 DEF Line
      <4>3. Line(n, at, services)' = IF pins'[n] \in {NoNode, at[n]} THEN at[n] ELSE NoNode
        BY <1>1, <3>2 DEF Line, world
      <4>4. pins'[n] = IF pins[n] = NoNode /\ new[n] # NoNode THEN new[n] ELSE pins[n]
        BY <1>1, <3>2
      <4> QED
        BY <4>1, <4>2, <4>3, <4>4
    <3> QED
      BY <3>1, <3>2 DEF Resource
  <2> QED
    BY <1>1, <2>1, <2>2, <2>3 DEF Lines
<1>8. ForgottenUnwanted'
  BY <1>1, <1>6 DEF ForgottenUnwanted, Covered, world
<1>9. ForgottenGone'
  <2> SUFFICES ASSUME due = {}, ~conf.allowAll, NEW n \in forgotten PROVE new[n] = NoNode
    BY <1>1 DEF ForgottenGone, AtRest
  <2>1. n \in Resource
    BY DEF SelTypeOK
  <2>2. n \notin conf.resources \cup conf.locked /\ ~Covered(conf.rules, n, applying.tagged)
    BY DEF ForgottenUnwanted
  <2> QED
    BY <2>1, <2>2, UnwantedHasNoLine
<1> QED
  BY <1>4, <1>5, <1>6, <1>7, <1>8, <1>9

(* The apply of a request or of a push reads the peers and the tags.       *)
LEMMA BeginApplyKeepsInv ==
  ASSUME SelIInv, BeginApply
  PROVE  SelIInv'
<1> USE DEF SelIInv
<1>1. PICK by \in due : due' = due \ {by} /\ applying' = [by |-> by, at |-> at, tagged |-> tagged]
  BY DEF BeginApply
<1>2. /\ UNCHANGED <<at, services, tagged, conf, looked, pins, lines, named, granted, forgotten>>
      /\ stale' = FALSE
  BY DEF BeginApply, world
<1>3. by \in {"config", "push"} /\ by # Nobody
  BY SelectionsAssumption DEF SelTypeOK
<1>4. SelTypeOK' /\ applying'.at \in [Peer -> Node \cup {NoNode}]
  BY <1>1, <1>2, <1>3 DEF SelTypeOK
<1>5. PinsRecorded'
  BY <1>2 DEF PinsRecorded
<1>6. LinesSettled'
  BY <1>1, <1>2, <1>3 DEF LinesSettled
<1>7. ForgottenUnwanted'
  BY <1>1, <1>2 DEF ForgottenUnwanted, Covered
<1>8. ForgottenGone'
  BY <1>1, <1>3 DEF ForgottenGone, AtRest
<1> QED
  BY <1>4, <1>5, <1>6, <1>7, <1>8

(* A request is followed by an apply before anything is at rest.           *)
LEMMA RequestKeepsInv ==
  ASSUME SelIInv, Request
  PROVE  SelIInv'
<1> USE DEF SelIInv
<1>1. RequestFact
  BY RequestFacts
<1>2. UNCHANGED <<at, services, tagged, pins, lines, applying, named, granted, stale>>
  BY <1>1 DEF RequestFact, world, applyVars
<1>3. SelTypeOK' /\ applying'.at \in [Peer -> Node \cup {NoNode}]
  BY <1>1, <1>2 DEF SelTypeOK, RequestFact
<1>4. PinsRecorded'
  BY <1>2 DEF PinsRecorded
<1>5. CASE UNCHANGED <<conf, due, forgotten>>
  <2>1. LinesSettled'
    BY <1>2, <1>5 DEF LinesSettled, Lines, Want, AutoWanted, Covered, Present, Line
  <2>2. ForgottenUnwanted' /\ ForgottenGone'
    BY <1>2, <1>5 DEF ForgottenUnwanted, Covered, ForgottenGone, AtRest
  <2> QED
    BY <1>3, <1>4, <2>1, <2>2
<1>6. CASE due' = due \cup {"config"} /\ ForgottenUnwanted'
  BY <1>3, <1>4, <1>6 DEF LinesSettled, ForgottenGone, AtRest
<1> QED
  BY <1>1, <1>5, <1>6 DEF RequestFact

(* What changes while the subscription stands is pushed; what changes      *)
(* while it does not leaves the lines stale.                               *)
LEMMA PushKeepsInv ==
  ASSUME SelIInv, Push, UNCHANGED granted,
         at' \in [Peer -> Node \cup {NoNode}], services' \subseteq Service,
         forgotten' \subseteq forgotten, tagged' \subseteq LiveRule \X Resource,
         \A n \in forgotten', r \in LiveRule : <<r, n>> \in tagged' => <<r, n>> \in tagged
  PROVE  SelIInv'
<1> USE DEF SelIInv
<1>0. UNCHANGED <<conf, looked, pins, lines, applying, named, granted>>
  BY DEF Push, applyVars
<1>1. \/ due' = due \cup {"push"}
      \/ due' = due /\ stale'
  <2>1. due' = IF watching THEN due \cup {"push"} ELSE due
    BY DEF Push
  <2>2. watching \/ stale'
    BY Zenon DEF Push
  <2> QED
    BY <2>1, <2>2
<1>2. SelTypeOK' /\ applying'.at \in [Peer -> Node \cup {NoNode}]
  BY <1>0, <1>1 DEF SelTypeOK
<1>3. PinsRecorded'
  BY <1>0, <1>1 DEF PinsRecorded
<1>4. LinesSettled'
  BY <1>0, <1>1 DEF LinesSettled
<1>5. ForgottenUnwanted'
  <2>1. \A n \in forgotten' : /\ n \notin conf.resources \cup conf.locked
                              /\ ~Covered(conf.rules, n, tagged)
                              /\ ~Covered(conf.rules, n, tagged')
    BY DEF ForgottenUnwanted, Covered
  <2> QED
    BY <1>0, <1>1, <2>1 DEF ForgottenUnwanted, Covered
<1>6. ForgottenGone'
  BY <1>0, <1>1 DEF ForgottenGone, AtRest
<1> QED
  BY <1>2, <1>3, <1>4, <1>5, <1>6

(* The world moves.                                                        *)
LEMMA WorldKeepsInv ==
  ASSUME SelIInv, WorldStep
  PROVE  SelIInv'
<1> USE DEF SelIInv
<1>1. at \in [Peer -> Node \cup {NoNode}] /\ services \subseteq Service /\ tagged \subseteq LiveRule \X Resource
  BY DEF SelTypeOK
<1>2. CASE Drop \/ Resubscribe
  <2>1. UNCHANGED <<at, services, tagged, conf, looked, due, pins, lines, applying, named,
                    granted, stale, forgotten>>
    BY <1>2 DEF Drop, Resubscribe, world, applyVars, past
  <2>2. LinesSettled'
    BY <2>1 DEF LinesSettled, Lines, Want, AutoWanted, Covered, Present, Line
  <2> QED
    BY <2>1, <2>2 DEF SelTypeOK, PinsRecorded, ForgottenUnwanted, Covered, ForgottenGone, AtRest
<1>3. ASSUME NEW p \in Peer, PeerChanges(p) PROVE SelIInv'
  <2>1. at' \in [Peer -> Node \cup {NoNode}]
    BY <1>1, <1>3 DEF PeerChanges
  <2>2. Push /\ UNCHANGED <<services, granted, forgotten>> /\ tagged' \subseteq tagged
    BY <1>3 DEF PeerChanges
  <2> QED
    BY <1>1, <2>1, <2>2, PushKeepsInv
<1>4. ASSUME NEW s \in Service, ServiceChanges(s) PROVE SelIInv'
  <2>1. services' \subseteq Service
    BY <1>1, <1>4 DEF ServiceChanges
  <2>2. Push /\ UNCHANGED <<at, granted, forgotten>> /\ tagged' \subseteq tagged
    BY <1>4 DEF ServiceChanges
  <2> QED
    BY <1>1, <2>1, <2>2, PushKeepsInv
<1>5. ASSUME NEW r \in LiveRule, NEW n \in Resource, Retagged(r, n) PROVE SelIInv'
  <2>1. Push /\ UNCHANGED <<at, services, granted>> /\ forgotten' = forgotten \ {n}
    BY <1>5 DEF Retagged
  <2>2. tagged' \subseteq tagged \cup {<<r, n>>}
    BY <1>5 DEF Retagged
  <2> QED
    BY <1>1, <2>1, <2>2, PushKeepsInv
<1>6. ASSUME NEW p \in Peer, Unpin(p) PROVE SelIInv'
  <2>1. /\ UNCHANGED <<at, services, tagged, conf, looked, due, lines, applying, named, forgotten>>
        /\ pins' = [pins EXCEPT ![p] = NoNode] /\ granted' = [granted EXCEPT ![p] = NoNode] /\ stale'
    BY <1>6 DEF Unpin, world
  <2>2. SelTypeOK' /\ PinsRecorded'
    BY <2>1 DEF SelTypeOK, PinsRecorded
  <2> QED
    BY <2>1, <2>2 DEF LinesSettled, ForgottenUnwanted, Covered, ForgottenGone, AtRest
<1> QED
  BY <1>2, <1>3, <1>4, <1>5, <1>6 DEF WorldStep
-----------------------------------------------------------------------------
(* Every step of the selections keeps the invariant.                       *)
LEMMA SelStepKeepsInv ==
  ASSUME SelIInv, [SelNext]_vars
  PROVE  SelIInv'
<1> USE DEF SelIInv
<1>1. CASE Apply
  <2>1. WriteLines(Lines(applying.at, applying.tagged, services))
    BY <1>1 DEF Apply
  <2> QED
    BY <1>1, <2>1, WriteKeepsInv DEF Apply
<1>2. CASE ApplyWithoutServices
  <2>1. WriteLines(Lines(applying.at, applying.tagged, {}))
    BY <1>2 DEF ApplyWithoutServices
  <2> QED
    BY <1>2, <2>1, WriteKeepsInv DEF ApplyWithoutServices
<1>3. CASE ApplyWithoutStatus
  <2>1. /\ UNCHANGED <<at, services, tagged, conf, looked, due, pins, named, granted, forgotten>>
        /\ lines' = [n \in Resource |-> NoNode] /\ applying' = NotApplying /\ stale'
    BY <1>3 DEF ApplyWithoutStatus, world
  <2>2. applying'.at \in [Peer -> Node \cup {NoNode}] /\ applying'.by = Nobody
    BY <2>1 DEF NotApplying
  <2>3. SelTypeOK' /\ PinsRecorded'
    BY <2>1, <2>2 DEF SelTypeOK, PinsRecorded, Resource
  <2>4. ForgottenUnwanted'
    BY <2>1, <2>2 DEF ForgottenUnwanted, Covered
  <2>5. LinesSettled'
    BY <2>1 DEF LinesSettled
  <2>6. ForgottenGone'
    BY <2>1 DEF ForgottenGone, SelTypeOK
  <2> QED
    BY <2>2, <2>3, <2>4, <2>5, <2>6
<1>4. CASE UNCHANGED vars
  <2>1. UNCHANGED <<at, services, tagged, conf, looked, due, pins, lines, applying, named,
                    granted, stale, forgotten>>
    BY <1>4 DEF vars, world, applyVars, past
  <2>2. LinesSettled'
    BY <2>1 DEF LinesSettled, Lines, Want, AutoWanted, Covered, Present, Line
  <2> QED
    BY <2>1, <2>2 DEF SelTypeOK, PinsRecorded, ForgottenUnwanted, Covered, ForgottenGone, AtRest
<1> QED
  BY <1>1, <1>2, <1>3, <1>4, BeginApplyKeepsInv, RequestKeepsInv, WorldKeepsInv DEF SelNext

LEMMA SelInitOK ==
  ASSUME SelInit
  PROVE  SelIInv
<1>1. /\ due = {"push"} /\ applying = NotApplying /\ forgotten = {} /\ named = {}
      /\ pins = [p \in Peer |-> NoNode] /\ granted = pins
      /\ lines = [n \in Resource |-> NoNode]
  BY DEF SelInit
<1>2. SelTypeOK /\ applying.at \in [Peer -> Node \cup {NoNode}]
  BY <1>1 DEF SelInit, SelTypeOK, Conf, NotApplying, Resource
<1> QED
  BY <1>1, <1>2 DEF SelIInv, PinsRecorded, LinesSettled, ForgottenUnwanted, ForgottenGone,
                    AtRest, Resource

LEMMA SelIInvAlways == SelSpec => []SelIInv
<1>1. SelIInv /\ [SelNext]_vars => SelIInv'
  BY SelStepKeepsInv
<1> QED
  BY SelInitOK, <1>1, PTL DEF SelSpec

(* The states of the selections are typed, and what the user has forgotten *)
(* has no line at rest, whatever rules, tags and failed reads there are.   *)
THEOREM SelectionsInvariant == SelSpec => []SelInv
<1>1. SelIInv => SelInv
  BY DEF SelIInv, SelInv
<1> QED
  BY SelIInvAlways, <1>1, PTL

(* At rest the hosts block is what the config selects now.                 *)
THEOREM SelectionsLinesCurrent == SelSpec => []LinesCurrent
<1>1. SelIInv => LinesCurrent
  BY DEF SelIInv, LinesSettled, LinesCurrent, AtRest
<1> QED
  BY SelIInvAlways, <1>1, PTL
-----------------------------------------------------------------------------
(* Only an apply writes lines.                                             *)
LEMMA OnlyAppliesWrite ==
  ASSUME SelIInv, [SelNext]_vars, lines' # lines
  PROVE  Apply \/ ApplyWithoutServices \/ ApplyWithoutStatus
<1>1. CASE Request
  BY <1>1, RequestFacts DEF RequestFact, applyVars
<1>2. CASE WorldStep
  BY <1>2 DEF WorldStep, Drop, Resubscribe, PeerChanges, Unpin, ServiceChanges, Retagged, Push,
              applyVars
<1>3. CASE BeginApply \/ UNCHANGED vars
  BY <1>3 DEF BeginApply, vars, applyVars
<1> QED
  BY <1>1, <1>2, <1>3 DEF SelNext

(* An apply lines a peer for the node it is pinned to.                     *)
LEMMA WriteFollowsPins ==
  ASSUME SelIInv, NEW svcs, NEW p \in Peer,
         WriteLines(Lines(applying.at, applying.tagged, svcs)), lines'[p] # NoNode
  PROVE  lines'[p] = granted'[p]
<1> DEFINE new == Lines(applying.at, applying.tagged, svcs)
<1>1. lines' = new
      /\ granted' = [q \in Peer |-> IF granted[q] = NoNode THEN new[q] ELSE granted[q]]
  BY DEF WriteLines
<1>2. new[p] = Line(p, applying.at, svcs)
  BY <1>1 DEF Lines, Resource
<1>3. pins[p] \in {NoNode, new[p]}
  BY <1>1, <1>2, LineIsPinned
<1> QED
  BY <1>1, <1>3 DEF SelIInv, PinsRecorded

(* A name granted for a node has no line for another one before the user   *)
(* removes the pin.                                                        *)
THEOREM SelectionsPinsHold == SelSpec => PinsHold
<1> DEFINE A == \A p \in Peer :
                  lines'[p] # NoNode /\ lines'[p] # lines[p] => lines'[p] = granted'[p]
<1>1. SelIInv /\ [SelNext]_vars => [A]_vars
  <2> SUFFICES ASSUME SelIInv, [SelNext]_vars,
                      NEW p \in Peer, lines'[p] # NoNode, lines'[p] # lines[p]
               PROVE  lines'[p] = granted'[p]
    OBVIOUS
  <2>1. CASE Apply
    BY <2>1, WriteFollowsPins DEF Apply
  <2>2. CASE ApplyWithoutServices
    BY <2>2, WriteFollowsPins DEF ApplyWithoutServices
  <2>3. CASE ApplyWithoutStatus
    BY <2>3 DEF ApplyWithoutStatus, Resource
  <2> QED
    BY <2>1, <2>2, <2>3, OnlyAppliesWrite
<1> QED
  BY SelIInvAlways, <1>1, PTL DEF SelSpec, PinsHold
-----------------------------------------------------------------------------
Uses == [{"writes", "changes", "faults"} -> Nat]

LEMMA UseCounts ==
  ASSUME used \in Uses, NEW bound \in {"writes", "changes", "faults"}, NEW max, Use(bound, max)
  PROVE  used' \in Uses /\ used'[bound] > used[bound]
  BY DEF Uses, Use

(* What is used of the bounds is counted.                                  *)
LEMMA UsedIsCounted ==
  ASSUME used \in Uses, [SelNext]_vars
  PROVE  used' \in Uses
<1>1. CASE BeginApply \/ Apply \/ UNCHANGED vars
  BY <1>1 DEF BeginApply, Apply, vars
<1>2. CASE ApplyWithoutServices \/ ApplyWithoutStatus
  BY <1>2, UseCounts DEF ApplyWithoutServices, ApplyWithoutStatus
<1>3. CASE Request
  <2>1. ASSUME NEW c, Commit(c) PROVE used' \in Uses
    BY <2>1, UseCounts DEF Commit
  <2>2. ASSUME NEW n \in Resource, ForgetUnread(n) PROVE used' \in Uses
    <3>1. used' = [used EXCEPT !.writes = @ + 1, !.faults = @ + 1]
      BY <2>2 DEF ForgetUnread
    <3> DEFINE mid == [used EXCEPT !.writes = @ + 1]
    <3>2. mid \in Uses
      BY DEF Uses
    <3>3. used' = [mid EXCEPT !.faults = @ + 1]
      BY <3>1 DEF Uses
    <3> HIDE DEF mid
    <3> QED
      BY <3>2, <3>3 DEF Uses
  <2>3. CASE Look \/ SelectAll \/ Clear \/ HandEdit
    BY <2>1, <2>3 DEF Look, SelectAll, Clear, HandEdit
  <2>4. ASSUME NEW n \in Resource, Select(n) \/ Forget(n) \/ Lock(n) \/ Unlock(n)
        PROVE  used' \in Uses
    BY <2>1, <2>4 DEF Select, Forget, Lock, Unlock
  <2>5. ASSUME NEW on \in BOOLEAN, AllowAll(on) PROVE used' \in Uses
    BY <2>1, <2>5 DEF AllowAll
  <2>6. ASSUME NEW r, AddRule(r) PROVE used' \in Uses
    BY <2>1, <2>6 DEF AddRule
  <2>7. ASSUME NEW rules, DropRules(rules) PROVE used' \in Uses
    BY <2>1, <2>7 DEF DropRules
  <2> QED
    BY <1>3, <2>2, <2>3, <2>4, <2>5, <2>6, <2>7 DEF Request
<1>4. CASE WorldStep
  <2>1. CASE Drop \/ Resubscribe
    BY <2>1, UseCounts DEF Drop, Resubscribe
  <2>2. ASSUME NEW p \in Peer, PeerChanges(p) \/ Unpin(p) PROVE used' \in Uses
    BY <2>2, UseCounts DEF PeerChanges, Unpin
  <2>3. ASSUME NEW s \in Service, ServiceChanges(s) PROVE used' \in Uses
    BY <2>3, UseCounts DEF ServiceChanges
  <2>4. ASSUME NEW r \in LiveRule, NEW n \in Resource, Retagged(r, n) PROVE used' \in Uses
    BY <2>4, UseCounts DEF Retagged
  <2> QED
    BY <1>4, <2>1, <2>2, <2>3, <2>4 DEF WorldStep
<1> QED
  BY <1>1, <1>2, <1>3, <1>4 DEF SelNext

(* What is locked keeps its line through every request, every push and     *)
(* every apply that could read the peers and the services.                 *)
THEOREM SelectionsLockedKept == SelSpec => LockedKeepsLine
<1> DEFINE Excused(n) == \/ n \in Peer /\ applying.at[n] # lines[n]
                         \/ n \in Service /\ n \notin services
                         \/ used'.faults > used.faults
           A == \A n \in conf.locked \cap conf'.locked :
                  lines[n] # NoNode /\ lines'[n] = NoNode => Excused(n)
<1>1. SelIInv /\ used \in Uses /\ [SelNext]_vars => [A]_vars
  <2> SUFFICES ASSUME SelIInv, used \in Uses, [SelNext]_vars,
                      NEW n \in conf.locked, lines[n] # NoNode, lines'[n] = NoNode
               PROVE  Excused(n)
    OBVIOUS
  <2>1. n \in Resource
    BY DEF SelIInv, SelTypeOK, Conf
  <2>2. CASE ApplyWithoutServices \/ ApplyWithoutStatus
    BY <2>2, UseCounts DEF ApplyWithoutServices, ApplyWithoutStatus
  <2>3. CASE Apply
    <3>1. lines' = Lines(applying.at, applying.tagged, services)
      BY <2>3 DEF Apply, WriteLines
    <3>2. n \in Want(applying.at, applying.tagged, services)
      BY DEF Want
    <3>3. Line(n, applying.at, services) = NoNode
      BY <2>1, <3>1, <3>2 DEF Lines
    <3>4. CASE n \in Service
      BY <3>3, <3>4, SelectionsAssumption DEF Line, Resource
    <3>5. CASE n \in Peer /\ n \notin Service
      <4>1. pins[n] \in {NoNode, lines[n]}
        BY <3>5 DEF SelIInv, PinsRecorded
      <4>2. (IF pins[n] \in {NoNode, applying.at[n]} THEN applying.at[n] ELSE NoNode) = NoNode
        BY <3>3, <3>5 DEF Line
      <4> QED
        BY <3>5, <4>1, <4>2
    <3> QED
      BY <2>1, <3>4, <3>5 DEF Resource
  <2> QED
    BY <2>2, <2>3, OnlyAppliesWrite
<1>2. SelInit => used \in Uses
  BY DEF SelInit, Uses
<1>3. used \in Uses /\ [SelNext]_vars => (used \in Uses)'
  BY UsedIsCounted
<1> QED
  BY SelIInvAlways, <1>1, <1>2, <1>3, PTL DEF SelSpec, LockedKeepsLine
=============================================================================
