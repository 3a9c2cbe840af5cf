--------------------------- MODULE RunningProofs ---------------------------
(***************************************************************************)
(* Proofs about a tailnet that is up, in two parts that share nothing.     *)
(*                                                                         *)
(* Datapath, for any number of starts, faults and configurations: the      *)
(* forwarder and the registration share no variable, so each half is       *)
(* preserved by the actions of its own module; what is left are the        *)
(* actions of the composition that touch both.                             *)
(*                                                                         *)
(* Health: the watchdog spaces its restarts, for any tailnets, routes,     *)
(* thresholds and numbers of requests and deaths.                          *)
(***************************************************************************)
EXTENDS Datapath, Health, FiniteSetTheorems, TLAPS

(* One pump less makes room for one report more.                           *)
LEMMA PumpGone ==
  ASSUME FwdTypeOK, NEW p \in pumps
  PROVE  /\ pumps \ {p} \subseteq Pump
         /\ Cardinality(pumps \ {p}) = Cardinality(pumps) - 1
         /\ Cardinality(pumps) \in Nat
<1>1. IsFiniteSet({"tunToStack", "stackToTun"})
  <2>1. IsFiniteSet({}) /\ IsFiniteSet({} \cup {"tunToStack"})
    BY FS_EmptySet, FS_AddElement
  <2>2. IsFiniteSet(({} \cup {"tunToStack"}) \cup {"stackToTun"})
    BY <2>1, FS_AddElement
  <2> QED
    BY <2>2
<1>2. IsFiniteSet(pumps)
  BY <1>1, FS_Subset DEF FwdTypeOK, Pump
<1> QED
  BY <1>2, FS_RemoveElement, FS_CardinalityType DEF FwdTypeOK

LEMMA PumpReturns_Inv ==
  ASSUME FwdInv, NEW p, NEW e \in {"err", "nil"}, PumpReturns(p, e)
  PROVE  FwdInv'
<1>1. p \in pumps
  BY DEF PumpReturns
<1>2. /\ Cardinality(pumps') = Cardinality(pumps) - 1
      /\ Cardinality(pumps) \in Nat /\ pumps' \subseteq Pump
  BY <1>1, PumpGone DEF FwdInv, PumpReturns
<1>3. errc' \in Seq({"err", "nil"}) /\ Len(errc') = Len(errc) + 1 /\ Len(errc) \in Nat
  BY DEF FwdInv, FwdTypeOK, PumpReturns
<1>4. Cardinality(pumps') + Len(errc') <= 2
  BY <1>2, <1>3 DEF FwdInv, FwdTypeOK
<1> QED
  BY <1>2, <1>3, <1>4
     DEF FwdInv, FwdTypeOK, PumpReturns, HonestConnect, NothingLeftOpen, DialedOnce

LEMMA PumpsCounted ==
  ASSUME FwdTypeOK
  PROVE  Cardinality(pumps) \in Nat
<1>1. CASE pumps = {}
  BY <1>1, FS_EmptySet
<1>2. CASE pumps # {}
  BY <1>2, PumpGone
<1> QED
  BY <1>1, <1>2

(* Taking a report out of the channel.                                     *)
LEMMA Received ==
  ASSUME FwdTypeOK, errc # <<>>
  PROVE  /\ Head(errc) \in {"err", "nil"} /\ Tail(errc) \in Seq({"err", "nil"})
         /\ Cardinality(pumps) + Len(Tail(errc)) <= 2
<1>1. errc \in Seq({"err", "nil"}) /\ Len(errc) \in Nat /\ Len(Tail(errc)) = Len(errc) - 1
  BY DEF FwdTypeOK
<1>2. Head(errc) \in {"err", "nil"} /\ Tail(errc) \in Seq({"err", "nil"})
  BY <1>1
<1> QED
  BY <1>1, <1>2, PumpsCounted DEF FwdTypeOK

LEMMA Select_Inv == FwdInv /\ Select => FwdInv'
<1> SUFFICES ASSUME FwdInv, Select PROVE FwdInv'
  OBVIOUS
<1>1. UNCHANGED <<ctx, pumps, dead, flow, copies, reports>> /\ tun' = FALSE
  BY DEF Select
<1>2. /\ run' \in Runs /\ errc' \in Seq({"err", "nil"})
      /\ Cardinality(pumps) + Len(errc') <= 2
  <2>1. CASE ~ctx /\ run' = [at |-> "join", left |-> 2, err |-> "nil"] /\ UNCHANGED errc
    BY <2>1 DEF FwdInv, FwdTypeOK, Runs
  <2>2. CASE /\ errc # <<>> /\ errc' = Tail(errc)
             /\ run' = [at |-> "join", left |-> 1, err |-> Head(errc)]
    <3>1. Head(errc) \in {"err", "nil"}
      BY <2>2, Received DEF FwdInv
    <3>2. run' \in Runs
      BY <2>2, <3>1 DEF Runs
    <3> QED
      BY <2>2, <3>2, Received DEF FwdInv
  <2> QED
    BY <2>1, <2>2 DEF Select
<1> QED
  BY <1>1, <1>2 DEF FwdInv, FwdTypeOK, HonestConnect, NothingLeftOpen, DialedOnce

LEMMA Run_Inv == FwdInv /\ (Join \/ Return) => FwdInv'
<1> SUFFICES ASSUME FwdInv, Join \/ Return PROVE FwdInv'
  OBVIOUS
<1>1. CASE Join
  <2>1. run' \in Runs
    BY <1>1 DEF FwdInv, FwdTypeOK, Join, Runs
  <2>2. errc' \in Seq({"err", "nil"}) /\ Cardinality(pumps) + Len(errc') <= 2
    BY <1>1, Received DEF FwdInv, Join
  <2> QED
    BY <1>1, <2>1, <2>2
       DEF Join, FwdInv, FwdTypeOK, HonestConnect, NothingLeftOpen, DialedOnce
<1>2. CASE Return
  <2>1. run' \in Runs /\ dead' \in BOOLEAN
    BY <1>2 DEF FwdInv, FwdTypeOK, Return, Runs
  <2>2. PICK how \in {"none", "syn", "open", "closed", "reset"} :
          /\ flow' = [flow EXCEPT !.local = how]
          /\ how = flow.local \/ how \in {"closed", "reset"}
    BY <1>2 DEF FwdInv, FwdTypeOK, Return, Flows
  <2>3. flow' \in Flows
    BY <2>2 DEF FwdInv, FwdTypeOK, Flows
  <2>4. /\ flow'.at = flow.at /\ flow'.kind = flow.kind /\ flow'.remote = flow.remote
        /\ flow'.local = how
    BY <2>2 DEF FwdInv, FwdTypeOK, Flows
  <2>5. HonestConnect' /\ NothingLeftOpen' /\ DialedOnce'
    BY <2>2, <2>4 DEF FwdInv, HonestConnect, NothingLeftOpen, DialedOnce
  <2> QED
    BY <1>2, <2>1, <2>3, <2>5 DEF Return, FwdInv, FwdTypeOK
<1> QED
  BY <1>1, <1>2

(* The flow: the dial comes before the accept, and both closes before the  *)
(* end.                                                                    *)
LEMMA Flow_Inv == FwdInv /\ FlowStep => FwdInv'
<1> SUFFICES ASSUME FwdInv, FlowStep PROVE FwdInv'
  OBVIOUS
<1>1. UNCHANGED <<tun, ctx, pumps, errc, run, dead>>
  BY DEF FlowStep, Begin, DialFails, Dial, Accept, AcceptFails, CopyEnds, CopyAborts,
         CopyReturns, CloseBoth, Forget, Relayed
<1>2. copies' \subseteq {"in", "out"} /\ reports' \in 0 .. 2
  BY DEF FlowStep, Begin, DialFails, Dial, Accept, AcceptFails, CopyEnds, CopyAborts,
         CopyReturns, CloseBoth, Forget, Room, FwdInv, FwdTypeOK
<1>3. flow' \in Flows /\ HonestConnect' /\ NothingLeftOpen' /\ DialedOnce'
  <2> USE DEF FwdInv, FwdTypeOK, HonestConnect, NothingLeftOpen, DialedOnce, Flows
  <2>1. CASE \E kind \in {"tcp", "udp", "pipe"} : Begin(kind)
    BY <2>1 DEF Begin
  <2>2. CASE DialFails
    BY <2>2 DEF DialFails
  <2>3. CASE Dial
    BY <2>3 DEF Dial
  <2>4. CASE Accept
    BY <2>4 DEF Accept
  <2>5. CASE AcceptFails
    BY <2>5 DEF AcceptFails
  <2>6. CASE \E c \in copies : CopyEnds(c) \/ CopyAborts(c)
    BY <2>6 DEF CopyEnds, CopyAborts, CopyReturns
  <2>7. CASE CloseBoth
    BY <2>7 DEF CloseBoth
  <2>8. CASE Forget
    BY <2>8 DEF Forget, NoFlow
  <2> QED
    BY <2>1, <2>2, <2>3, <2>4, <2>5, <2>6, <2>7, <2>8 DEF FlowStep
<1> QED
  BY <1>1, <1>2, <1>3 DEF FwdInv, FwdTypeOK

LEMMA Forwarder_Inv == FwdInv /\ ForwarderStep => FwdInv'
<1> SUFFICES ASSUME FwdInv, ForwarderStep PROVE FwdInv'
  OBVIOUS
<1>1. CASE \E p \in Pump : PumpFails(p)
  BY <1>1, PumpReturns_Inv DEF PumpFails
<1>2. CASE PumpStops
  BY <1>2, PumpReturns_Inv DEF PumpStops
<1> QED
  BY <1>1, <1>2, Run_Inv, Flow_Inv DEF ForwarderStep
-----------------------------------------------------------------------------
(* A server is set on the link only after the domains of the same          *)
(* registration, unless the link was reset in between.                     *)
LEMMA Registration_Inv == ResInv /\ RegistrationStep => ResInv'
<1> SUFFICES ASSUME ResInv, RegistrationStep PROVE ResInv'
  OBVIOUS
<1> USE DatapathAssumption
    DEF ResInv, ResTypeOK, Links, Caches, Registrations, ServerHasDomains, DomainsFirst
<1>1. CASE Poll
  BY <1>1 DEF Poll
<1>2. CASE Register
  BY <1>2 DEF Register
<1>3. CASE SetDomains
  <2>1. CASE link.up
    <3>1. /\ UNCHANGED <<enabled, cache, key, reverting>> /\ reg.at = "domain" /\ reg.key \in Key
          /\ link' = [link EXCEPT !.domains = reg.key, !.torn = FALSE]
          /\ reg' = [reg EXCEPT !.at = "server"]
      BY <1>3, <2>1 DEF SetDomains, AppliesDomains
    <3>2. /\ link' \in Links /\ link'.domains = reg.key
          /\ reg' \in Registrations /\ reg'.at = "server" /\ reg'.key = reg.key
      BY <3>1
    <3> QED
      BY <3>1, <3>2
  <2>2. CASE ~link.up
    BY <1>3, <2>2 DEF SetDomains, AppliesDomains
  <2> QED
    BY <2>1, <2>2
<1>4. CASE SetServer
  <2>1. CASE link.up
    <3>1. /\ UNCHANGED <<enabled, cache, key, reverting>> /\ reg.at = "server"
          /\ link' = [link EXCEPT !.server = TRUE] /\ reg' = [reg EXCEPT !.at = "record"]
      BY <1>4, <2>1 DEF SetServer, AppliesServer
    <3>2. link' \in Links /\ reg' \in Registrations /\ reg'.at = "record"
      BY <3>1
    <3>3. link'.domains = link.domains /\ link'.torn = link.torn
      BY <3>1
    <3> QED
      BY <2>1, <3>1, <3>2, <3>3
  <2>2. CASE ~link.up
    BY <1>4, <2>2 DEF SetServer, AppliesServer
  <2> QED
    BY <2>1, <2>2
<1>5. CASE Record
  <2>1. reg' \in Registrations /\ reg'.at = "poll"
    BY <1>5 DEF Record
  <2>2. cache' \in Caches /\ UNCHANGED <<enabled, link, key, reverting>>
    BY <1>5 DEF Record
  <2> QED
    BY <2>1, <2>2
<1>6. CASE Age
  BY <1>6 DEF Age
<1>7. CASE RunRevert
  <2>1. CASE ~link.up
    BY <1>7, <2>1 DEF RunRevert
  <2>2. CASE link.up
    <3>1. PICK t \in BOOLEAN :
            link' = [up |-> TRUE, domains |-> NoKey, server |-> FALSE, torn |-> t]
                    /\ (reg.at = "server" => t)
      BY <1>7, <2>2 DEF RunRevert, ResetLink, FreshLink, NoLink
    <3> QED
      BY <1>7, <3>1 DEF RunRevert
  <2> QED
    BY <2>1, <2>2
<1> QED
  BY <1>1, <1>2, <1>3, <1>4, <1>5, <1>6, <1>7 DEF RegistrationStep

LEMMA Revert_Inv == ResInv /\ Revert => ResInv'
<1> SUFFICES ASSUME ResInv, Revert PROVE ResInv'
  OBVIOUS
<1>1. UNCHANGED <<enabled, link, key, reg>>
  BY DEF Revert
<1>2. cache' \in Caches /\ reverting' \in BOOLEAN
  <2>1. CASE enabled /\ cache.key # NoKey
    <3>1. cache' = [key |-> NoKey, fresh |-> FALSE] /\ reverting' = TRUE
      BY <2>1 DEF Revert, Uncached
    <3> QED
      BY <3>1 DEF Caches
  <2>2. CASE ~(enabled /\ cache.key # NoKey)
    <3>1. UNCHANGED <<cache, reverting>>
      BY <2>2 DEF Revert
    <3> QED
      BY <3>1 DEF ResInv, ResTypeOK
  <2> QED
    BY <2>1, <2>2
<1> QED
  BY <1>1, <1>2 DEF ResInv, ResTypeOK, ServerHasDomains, DomainsFirst

LEMMA Faults_Inv ==
  ResInv /\ (CallFails \/ ResolvedRestarts \/ \E k \in Key \ {key} : EditDomain(k)) => ResInv'
<1> SUFFICES ASSUME ResInv,
                    CallFails \/ ResolvedRestarts \/ \E k \in Key \ {key} : EditDomain(k)
             PROVE  ResInv'
  OBVIOUS
<1> USE DatapathAssumption
    DEF ResInv, ResTypeOK, Links, Caches, Registrations, ServerHasDomains, DomainsFirst
<1>1. CASE CallFails
  BY <1>1 DEF CallFails
<1>2. CASE ResolvedRestarts
  <2>1. PICK t \in BOOLEAN :
          link' = [up |-> TRUE, domains |-> NoKey, server |-> FALSE, torn |-> t]
          /\ (reg.at = "server" => t)
    BY <1>2 DEF ResolvedRestarts, ResetLink, FreshLink, NoLink
  <2> QED
    BY <1>2, <2>1 DEF ResolvedRestarts
<1>3. CASE \E k \in Key \ {key} : EditDomain(k)
  BY <1>3 DEF EditDomain
<1> QED
  BY <1>1, <1>2, <1>3

LEMMA FwdUnchanged == FwdInv /\ UNCHANGED fwdVars => FwdInv'
  BY DEF FwdInv, FwdTypeOK, HonestConnect, NothingLeftOpen, DialedOnce, fwdVars

LEMMA ResUnchanged == ResInv /\ UNCHANGED resVars => ResInv'
  BY DEF ResInv, ResTypeOK, Links, Caches, Registrations,
         ServerHasDomains, DomainsFirst, resVars
-----------------------------------------------------------------------------
LEMMA DpInit_Inv == DpInit => DpInv
<1> SUFFICES ASSUME DpInit PROVE DpInv
  OBVIOUS
<1>1. FwdInv
  <2>1. /\ Cardinality(pumps) + Len(errc) <= 2
        /\ pumps \subseteq Pump /\ errc \in Seq({"err", "nil"})
    BY FS_EmptySet DEF DpInit
  <2>2. run \in Runs /\ flow \in Flows
    BY DEF DpInit, Runs, Flows, NoFlow
  <2>3. tun \in BOOLEAN /\ ctx \in BOOLEAN /\ dead \in BOOLEAN
    BY DEF DpInit
  <2>4. copies \subseteq {"in", "out"} /\ reports \in 0 .. 2
    BY DEF DpInit
  <2>5. HonestConnect /\ NothingLeftOpen /\ DialedOnce
    BY DEF DpInit, NoFlow, HonestConnect, NothingLeftOpen, DialedOnce
  <2> QED
    BY <2>1, <2>2, <2>3, <2>4, <2>5 DEF FwdInv, FwdTypeOK
<1>2. ResInv
  BY DEF DpInit, ResInv, ResTypeOK, Links, Caches, Registrations,
         ServerHasDomains, DomainsFirst, NoLink, Uncached
<1> QED
  BY <1>1, <1>2, DatapathAssumption DEF DpInit, DpInv

(* The steps that open and close the device touch both halves.             *)
LEMMA Start_Inv == DpInv /\ Start => DpInv'
<1> SUFFICES ASSUME DpInv, Start PROVE DpInv'
  OBVIOUS
<1>1. Cardinality(Pump) = 2
  <2>1. Pump = ({} \cup {"tunToStack"}) \cup {"stackToTun"}
    BY DEF Pump
  <2>2. /\ IsFiniteSet({} \cup {"tunToStack"})
        /\ Cardinality({} \cup {"tunToStack"}) = 1
    BY FS_EmptySet, FS_AddElement
  <2>3. "stackToTun" \notin {} \cup {"tunToStack"}
    OBVIOUS
  <2> QED
    BY <2>1, <2>2, <2>3, FS_AddElement
<1>2. FwdInv'
  <2>1. Cardinality(pumps') + Len(errc') <= 2
    BY <1>1 DEF Start
  <2>2. run' \in Runs /\ errc' \in Seq({"err", "nil"})
    BY DEF Start, Runs
  <2> QED
    BY <2>1, <2>2
       DEF DpInv, Start, FwdInv, FwdTypeOK, HonestConnect, NothingLeftOpen, DialedOnce
<1>3. ResInv'
  BY DEF DpInv, Start, ResInv, ResTypeOK, Links, Caches, Registrations,
         ServerHasDomains, DomainsFirst, FreshLink, NoLink
<1> QED
  BY <1>2, <1>3, DatapathAssumption DEF DpInv, Start

LEMMA SelectAndClose_Inv == DpInv /\ SelectAndClose => DpInv'
<1> SUFFICES ASSUME DpInv, SelectAndClose PROVE DpInv'
  OBVIOUS
<1>1. ResInv'
  BY DEF DpInv, SelectAndClose, ResInv, ResTypeOK, Links, Caches, Registrations,
         ServerHasDomains, DomainsFirst, NoLink
<1> QED
  BY <1>1, Select_Inv DEF DpInv, SelectAndClose, Frame

LEMMA DpNext_Inv == DpInv /\ [DpNext]_dpVars => DpInv'
<1> SUFFICES ASSUME DpInv, [DpNext]_dpVars PROVE DpInv'
  OBVIOUS
<1>1. CASE Start
  BY <1>1, Start_Inv
<1>2. CASE Stop \/ RevertAll
  BY <1>2, Revert_Inv, FwdUnchanged DEF Stop, RevertAll, DpInv
<1>3. CASE Cancel \/ Shutdown
  <2>1. ctx' = FALSE /\ UNCHANGED <<resVars, tun, pumps, errc, run, dead, flow, copies, reports>>
    BY <1>3 DEF Cancel, CancelThenClose, Shutdown
  <2>2. FwdInv'
    BY <2>1 DEF DpInv, FwdInv, FwdTypeOK, HonestConnect, NothingLeftOpen, DialedOnce
  <2> QED
    BY <1>3, <2>1, <2>2, ResUnchanged DEF DpInv, Cancel, CancelThenClose, Shutdown, Frame
<1>4. CASE WatcherExits
  <2>1. ResInv'
    BY <1>4 DEF DpInv, WatcherExits, ResInv, ResTypeOK, Links, Caches, Registrations,
                ServerHasDomains, DomainsFirst
  <2> QED
    BY <1>4, <2>1, FwdUnchanged DEF DpInv, WatcherExits, Frame
<1>5. CASE Closed
  <2>1. FwdInv'
    BY <1>5 DEF DpInv, Closed, FwdInv, FwdTypeOK, Flows, HonestConnect, NothingLeftOpen, DialedOnce
  <2> QED
    BY <1>5, <2>1, ResUnchanged DEF DpInv, Closed
<1>6. CASE SelectAndClose
  BY <1>6, SelectAndClose_Inv
<1>7. CASE ForwarderStep /\ UNCHANGED resVars /\ Frame
  BY <1>7, Forwarder_Inv, ResUnchanged DEF DpInv, Frame
<1>8. CASE RegistrationStep /\ UNCHANGED fwdVars /\ Frame
  BY <1>8, Registration_Inv, FwdUnchanged DEF DpInv, Frame
<1>9. CASE Fault /\ (CallFails \/ ResolvedRestarts \/ \E k \in Key \ {key} : EditDomain(k))
  BY <1>9, Faults_Inv, FwdUnchanged, DatapathAssumption DEF DpInv, Fault
<1>10. CASE UNCHANGED dpVars
  BY <1>10, FwdUnchanged, ResUnchanged DEF DpInv, dpVars
<1> QED
  BY <1>1, <1>2, <1>3, <1>4, <1>5, <1>6, <1>7, <1>8, <1>9, <1>10 DEF DpNext

(* However starts, stops, flows and registrations interleave: a connection *)
(* is accepted only when its host has answered (handle), who is done has   *)
(* closed both sides (splice), and no link of ours is a resolver for names *)
(* that are not ours (register).                                           *)
THEOREM DatapathInvariant == DpSpec => []DpInv
<1> QED
  BY DpInit_Inv, DpNext_Inv, PTL DEF DpSpec
-----------------------------------------------------------------------------

(* A tick ages the memory of a tailnet by one, up to the cooldown.         *)
LEMMA AgeIsMemory ==
  ASSUME NEW h \in Memory
  PROVE  /\ Older(h) \in Memory
         /\ Older(h).sinceRestart =
              IF h.sinceRestart = RestartCooldown THEN h.sinceRestart ELSE h.sinceRestart + 1
<1> DEFINE online1 == IF h.sinceOnline > UnhealthyAfter THEN h.sinceOnline ELSE h.sinceOnline + 1
           restart1 == IF h.sinceRestart = RestartCooldown THEN h.sinceRestart
                       ELSE h.sinceRestart + 1
<1>1. h.sinceOnline \in 0 .. UnhealthyAfter + 1 /\ h.sinceRestart \in 0 .. RestartCooldown
  BY DEF Memory
<1>2. online1 \in 0 .. UnhealthyAfter + 1 /\ restart1 \in 0 .. RestartCooldown
  BY <1>1, HealthAssumption
<1>3. Older(h) = [h EXCEPT !.sinceOnline = online1, !.sinceRestart = restart1]
  BY DEF Older
<1> HIDE DEF online1, restart1
<1>4. [h EXCEPT !.sinceOnline = online1, !.sinceRestart = restart1] \in Memory
  BY <1>2 DEF Memory
<1>5. [h EXCEPT !.sinceOnline = online1, !.sinceRestart = restart1].sinceRestart = restart1
  BY DEF Memory
<1>6. Older(h) \in Memory /\ Older(h).sinceRestart = restart1
  BY <1>3, <1>4, <1>5
<1> QED
  BY <1>6 DEF restart1

(* What a probe sees moves no clock of the restarts.                       *)
LEMMA ObservedIsMemory ==
  ASSUME HealthTypeOK, NEW n \in Name
  PROVE  /\ Observed(n) \in Memory
         /\ Observed(n).sinceRestart = health[n].sinceRestart
<1> DEFINE h == health[n]
           seen == [h EXCEPT !.ever = TRUE, !.sinceOnline = 0]
<1>1. h \in Memory
  BY DEF HealthTypeOK
<1>2. 0 \in 0 .. UnhealthyAfter + 1
  BY HealthAssumption
<1> HIDE DEF h
<1>3. seen \in Memory
  BY <1>1, <1>2 DEF Memory
<1>4. seen.sinceRestart = h.sinceRestart
  BY <1>1 DEF Memory
<1>5. Observed(n) = seen \/ Observed(n) = h
  BY DEF Observed, h
<1> HIDE DEF seen
<1>6. Observed(n) \in Memory /\ Observed(n).sinceRestart = h.sinceRestart
  BY <1>1, <1>3, <1>4, <1>5
<1> QED
  BY <1>6 DEF h

LEMMA HealthInit_Inv == HealthInit => HealthInv
<1> SUFFICES ASSUME HealthInit PROVE HealthInv
  OBVIOUS
<1>1. NoMemory \in Memory
  BY HealthAssumption DEF NoMemory, Memory
<1>2. /\ health \in [Name -> Memory] /\ quiet \in [Name -> 0 .. RestartCooldown]
      /\ RecordIsTrue
  BY <1>1, HealthAssumption DEF HealthInit, RecordIsTrue, NoMemory
<1> QED
  BY <1>2, HealthAssumption DEF HealthInit, HealthInv, HealthTypeOK

(* A step that leaves the two clocks alone keeps the record.               *)
LEMMA ClocksKept ==
  ASSUME HealthInv, UNCHANGED <<health, quiet>>
  PROVE  /\ RecordIsTrue' /\ health' \in [Name -> Memory]
         /\ quiet' \in [Name -> 0 .. RestartCooldown]
  BY DEF HealthInv, HealthTypeOK, RecordIsTrue

LEMMA Tick_Inv == HealthInv /\ Tick => HealthInv'
<1> SUFFICES ASSUME HealthInv, Tick PROVE HealthInv'
  OBVIOUS
<1>1. \A n \in Name : health[n] \in Memory
  BY DEF HealthInv, HealthTypeOK
<1>2. health' \in [Name -> Memory]
  BY <1>1, AgeIsMemory DEF Tick
<1>3. quiet' \in [Name -> 0 .. RestartCooldown]
  BY HealthAssumption DEF Tick, HealthInv, HealthTypeOK
<1>4. RecordIsTrue'
  <2> SUFFICES ASSUME NEW n \in Name PROVE health'[n].sinceRestart = quiet'[n]
    BY DEF RecordIsTrue
  <2>1. /\ health'[n] = Older(health[n])
        /\ quiet'[n] = IF quiet[n] = RestartCooldown THEN quiet[n] ELSE quiet[n] + 1
    BY DEF Tick
  <2>2. health[n].sinceRestart = quiet[n]
    BY DEF HealthInv, RecordIsTrue
  <2> QED
    BY <1>1, <2>1, <2>2, AgeIsMemory
<1> QED
  BY <1>2, <1>3, <1>4 DEF Tick, HealthInv, HealthTypeOK, nodeVars, netVars, loopVars

LEMMA Probe_Inv ==
  ASSUME HealthInv, NEW n \in Name, Probe(n)
  PROVE  HealthInv'
<1> DEFINE h == Observed(n)
           restart == NeedsRestart(h, ProbedDead(n), force)
<1>1. h \in Memory /\ h.sinceRestart = health[n].sinceRestart
  BY ObservedIsMemory DEF HealthInv
<1>2. PICK g \in Memory :
        /\ health' = [health EXCEPT ![n] = g]
        /\ g.sinceRestart = IF restart THEN 0 ELSE h.sinceRestart
  <2>1. CASE restart
    <3>1. [h EXCEPT !.sinceRestart = 0, !.sinceOnline = 0] \in Memory
      <4>1. 0 \in 0 .. UnhealthyAfter + 1 /\ 0 \in 0 .. RestartCooldown
        BY HealthAssumption
      <4> HIDE DEF h
      <4> QED
        BY <1>1, <4>1 DEF Memory
    <3>2. [h EXCEPT !.sinceRestart = 0, !.sinceOnline = 0].sinceRestart = 0
      BY <1>1 DEF Memory
    <3>3. health' = [health EXCEPT ![n] = [h EXCEPT !.sinceRestart = 0, !.sinceOnline = 0]]
      BY <2>1 DEF Probe
    <3> QED
      BY <2>1, <3>1, <3>2, <3>3
  <2>2. CASE ~restart
    BY <2>2, <1>1 DEF Probe
  <2> QED
    BY <2>1, <2>2
<1>3. quiet' = IF restart THEN [quiet EXCEPT ![n] = 0] ELSE quiet
  BY DEF Probe
<1>4. /\ health' \in [Name -> Memory]
      /\ quiet' \in [Name -> 0 .. RestartCooldown]
      /\ RecordIsTrue'
  <2> HIDE DEF h, restart
  <2> QED
    BY <1>1, <1>2, <1>3, HealthAssumption DEF HealthInv, HealthTypeOK, RecordIsTrue
<1>5. /\ at' \in {"pass", "restarting"}
      /\ at' = "restarting" <=> victim' \in Name
  BY DEF Probe, HealthInv, HealthTypeOK
<1>6. /\ DOMAIN todo' \subseteq Name
      /\ \A m \in DOMAIN todo' : todo'[m] \in {"current", "closed", "closedDead"}
  BY DEF Probe, HealthInv, HealthTypeOK
<1>7. UNCHANGED <<nodeVars, netVars>>
  BY DEF Probe
<1> QED
  BY <1>4, <1>5, <1>6, <1>7 DEF HealthInv, HealthTypeOK, nodeVars, netVars

(* The loop but for its probes.                                            *)
LEMMA Loop_Inv ==
  ASSUME HealthInv, TakeTick \/ TakeEvent \/ Settled \/ RestartVictim \/ EndPass
  PROVE  HealthInv'
<1>1. UNCHANGED <<health, quiet>>
  BY DEF TakeTick, TakeEvent, Settled, RestartVictim, EndPass
<1>2. HealthTypeOK'
  <2> USE ClocksKept, <1>1, HealthAssumption DEF HealthInv, HealthTypeOK, nodeVars, netVars
  <2>1. CASE TakeTick
    BY <2>1 DEF TakeTick, BeginPass
  <2>2. CASE TakeEvent
    BY <2>2 DEF TakeEvent
  <2>3. CASE Settled
    BY <2>3 DEF Settled, BeginPass
  <2>4. CASE RestartVictim
    BY <2>4 DEF RestartVictim
  <2>5. CASE EndPass
    BY <2>5 DEF EndPass
  <2> QED
    BY <2>1, <2>2, <2>3, <2>4, <2>5
<1> QED
  BY <1>1, <1>2, ClocksKept DEF HealthInv

LEMMA Request_Inv ==
  ASSUME HealthInv, NEW n \in Name,
         Enable(n) \/ Disable(n) \/ ResetIdentity(n) \/ HandleRestart(n)
  PROVE  HealthInv'
<1>1. UNCHANGED <<health, quiet, route, polled, at, victim>>
  BY DEF Enable, Disable, ResetIdentity, HandleRestart, netVars, loopVars
<1>2. HealthTypeOK'
  <2> USE ClocksKept, <1>1 DEF HealthInv, HealthTypeOK, CloseInstance
  <2>1. CASE Enable(n)
    BY <2>1 DEF Enable, loopVars
  <2>2. CASE Disable(n)
    BY <2>2 DEF Disable
  <2>3. CASE ResetIdentity(n)
    BY <2>3 DEF ResetIdentity
  <2>4. CASE HandleRestart(n)
    BY <2>4 DEF HandleRestart
  <2> QED
    BY <2>1, <2>2, <2>3, <2>4
<1> QED
  BY <1>1, <1>2, ClocksKept DEF HealthInv

LEMMA Environment_Inv ==
  ASSUME HealthInv,
         \/ PollNetwork \/ RouteChanges \/ Sleeps
         \/ \E n \in Name : GoesOnline(n) \/ GoesDark(n) \/ ForwarderDies(n)
  PROVE  HealthInv'
<1>1. UNCHANGED <<health, quiet, at, victim, todo>>
  BY DEF PollNetwork, RouteChanges, Sleeps, GoesOnline, GoesDark, ForwarderDies, loopVars
<1>2. HealthTypeOK'
  <2> USE ClocksKept, <1>1 DEF HealthInv, HealthTypeOK, nodeVars, netVars
  <2>1. CASE PollNetwork
    BY <2>1 DEF PollNetwork
  <2>2. CASE RouteChanges
    BY <2>2 DEF RouteChanges
  <2>3. CASE Sleeps
    BY <2>3 DEF Sleeps
  <2>4. CASE \E n \in Name : GoesOnline(n) \/ GoesDark(n) \/ ForwarderDies(n)
    BY <2>4 DEF GoesOnline, GoesDark, ForwarderDies
  <2> QED
    BY <2>1, <2>2, <2>3, <2>4
<1> QED
  BY <1>1, <1>2, ClocksKept DEF HealthInv

LEMMA HealthNext_Inv == HealthInv /\ [HealthNext]_vars => HealthInv'
<1> SUFFICES ASSUME HealthInv, [HealthNext]_vars PROVE HealthInv'
  OBVIOUS
<1>1. CASE UNCHANGED vars
  BY <1>1 DEF vars, nodeVars, netVars, loopVars, HealthInv, HealthTypeOK, RecordIsTrue
<1> QED
  BY <1>1, Tick_Inv, Probe_Inv, Loop_Inv, Request_Inv, Environment_Inv DEF HealthNext, WatchLoop

(* The watchdog's state is typed, and its memory of the last restart of a  *)
(* tailnet is never older or younger than the restart (lastRestart).       *)
THEOREM HealthInvariant == HealthSpec => []HealthInv
<1> QED
  BY HealthInit_Inv, HealthNext_Inv, PTL DEF HealthSpec

(* Two restarts of a tailnet by the watchdog are a cooldown apart: the     *)
(* step that decides one finds the record at its limit (needsRestart).     *)
LEMMA RestartIsDue ==
  HealthInv /\ [HealthNext]_vars => \A n \in Name : Restarts(n) => quiet[n] = RestartCooldown
<1> SUFFICES ASSUME HealthInv, [HealthNext]_vars, NEW n \in Name, Restarts(n)
             PROVE  quiet[n] = RestartCooldown
  OBVIOUS
<1>1. PICK m \in Name : Probe(m)
  BY DEF Restarts, HealthNext, WatchLoop, TakeTick, TakeEvent, Settled, RestartVictim, EndPass,
         BeginPass, PollNetwork, Tick, RouteChanges, Sleeps, Enable, Disable, ResetIdentity,
         HandleRestart, GoesOnline, GoesDark, ForwarderDies, vars, loopVars
<1>2. NeedsRestart(Observed(m), ProbedDead(m), force) /\ victim' = m
  BY <1>1 DEF Probe, Restarts
<1>3. m = n
  BY <1>2 DEF Restarts
<1>4. quiet[n] >= RestartCooldown
  BY <1>2, <1>3, ObservedIsMemory DEF NeedsRestart, HealthInv, RecordIsTrue
<1> QED
  BY <1>4, HealthAssumption DEF HealthInv, HealthTypeOK

(* No sequence of requests, probes and network changes makes the watchdog  *)
(* restart a tailnet again before the cooldown has passed (checkHealth).   *)
THEOREM HealthRestartsSpaced == HealthSpec => RestartsSpaced
<1>1. HealthInv /\ [HealthNext]_vars
        => [\A n \in Name : Restarts(n) => quiet[n] = RestartCooldown]_vars
  BY RestartIsDue
<1> QED
  BY <1>1, HealthInvariant, PTL DEF HealthSpec, RestartsSpaced
=============================================================================
