---------------------------- MODULE DaemonProofs ----------------------------
(***************************************************************************)
(* What runs, what is registered and what the config file asks for, for    *)
(* any number of tailnets, slots, files, requests and faults; and the      *)
(* registry's invariant in the daemon's use of it, as long as no file asks *)
(* for overlapping ranges.  The daemon is no instance of RegSpec:          *)
(* applySelections allocates for several tailnets in one step, and a start *)
(* takes any range.                                                        *)
(***************************************************************************)
EXTENDS Daemon, RegistryProofs

USE DEF fileVars, hostsVars

(* applySelections gives each tailnet that needs one an address of its     *)
(* range, whatever the ranges; ...                                         *)
LEMMA MintedTyped ==
  ASSUME RegTypeOK, live \subseteq Tailnet, NEW out, NEW n \in Minting(out)
  PROVE  /\ n \in Tailnet /\ n \in DOMAIN entries /\ CanTake(entries[n])
         /\ Selected[n] \in FQDN /\ Selected[n] \notin DOMAIN byName
         /\ NextIP(entries[n]) \in Nat
         /\ Contains(entries[n].range, NextIP(entries[n]))
<1>1. n \in Tailnet /\ n \in DOMAIN entries /\ CanTake(entries[n]) /\ Selected[n] \notin DOMAIN byName
  BY DEF Minting, Ready
<1>2. /\ entries[n].range.base \in Nat /\ entries[n].range.size \in Nat \ {0}
      /\ entries[n].next \in Nat
  BY <1>1, RegistryAssumption DEF RegTypeOK, Entry
<1>3. NextIP(entries[n]) \in Nat /\ Contains(entries[n].range, NextIP(entries[n]))
  BY <1>1, <1>2 DEF NextIP, Contains, CanTake
<1> QED
  BY <1>1, <1>3, DaemonAssumption

LEMMA MintedForOne ==
  ASSUME RegTypeOK, live \subseteq Tailnet, NEW out,
         NEW m \in Minting(out), NEW n \in Minting(out), m # n
  PROVE  Selected[m] # Selected[n]
<1>1. m \in Tailnet /\ n \in Tailnet
  BY MintedTyped
<1> QED
  BY <1>1, DaemonAssumption

(* ... and where ranges are apart, a fresh one.                            *)
LEMMA MintedOnce ==
  ASSUME RegInv, live \subseteq Tailnet, NEW out,
         NEW m \in Minting(out), NEW n \in Minting(out), m # n
  PROVE  NextIP(entries[m]) # NextIP(entries[n])
<1>1. RegTypeOK
  BY DEF RegInv
<1>2. /\ m \in DOMAIN entries /\ NextIP(entries[m]) \in Nat
      /\ Contains(entries[m].range, NextIP(entries[m]))
      /\ n \in DOMAIN entries /\ Contains(entries[n].range, NextIP(entries[n]))
  BY <1>1, MintedTyped
<1>3. entries[m].range \in CIDR /\ entries[n].range \in CIDR
  BY <1>1, <1>2 DEF RegTypeOK, Entry
<1>4. ~Overlap(entries[m].range, entries[n].range)
  BY <1>2 DEF RegInv, RangesDisjoint
<1> QED
  BY <1>2, <1>3, <1>4, SharedAddressOverlaps

(* What the maps are after the tailnets that are not passed over have been *)
(* seeded, whatever the ranges; ...                                        *)
Seeded(out) ==
  /\ \A n \in Minting(out) :
       /\ n \in Tailnet /\ n \in DOMAIN entries /\ CanTake(entries[n])
       /\ Selected[n] \in FQDN /\ Selected[n] \notin DOMAIN byName
       /\ NextIP(entries[n]) \in Nat /\ Contains(entries[n].range, NextIP(entries[n]))
       /\ \A m \in Minting(out) : m # n => Selected[m] # Selected[n]
  /\ DOMAIN entries' = DOMAIN entries
  /\ \A k \in DOMAIN entries : entries'[k].range = entries[k].range
  /\ \A k \in DOMAIN entries \ Minting(out) : entries'[k] = entries[k]
  /\ \A n \in Minting(out) : entries'[n] = [entries[n] EXCEPT !.next = @ + 1]
  /\ DOMAIN byName' = DOMAIN byName \cup {Selected[n] : n \in Minting(out)}
  /\ \A f \in DOMAIN byName : byName'[f] = byName[f]
  /\ \A n \in Minting(out) : byName'[Selected[n]] = NextIP(entries[n])
  /\ DOMAIN byIP' = DOMAIN byIP \cup {NextIP(entries[n]) : n \in Minting(out)}
  /\ UNCHANGED <<cidrs, resolvers>>

LEMMA SeedFacts ==
  ASSUME RegTypeOK, live \subseteq Tailnet, NEW out, Seed(out)
  PROVE  Seeded(out)
<1>1. /\ DOMAIN entries' = DOMAIN entries
      /\ \A k \in DOMAIN entries \ Minting(out) : entries'[k] = entries[k]
      /\ \A n \in Minting(out) : entries'[n] = [entries[n] EXCEPT !.next = @ + 1]
  BY MintedTyped DEF Seed
<1>2. \A k \in DOMAIN entries : entries'[k].range = entries[k].range
  <2> SUFFICES ASSUME NEW k \in DOMAIN entries PROVE entries'[k].range = entries[k].range
    OBVIOUS
  <2>1. entries[k] \in Entry
    BY DEF RegTypeOK
  <2> QED
    BY <1>1, <2>1 DEF Entry
<1>3. /\ DOMAIN byName' = DOMAIN byName \cup {Selected[n] : n \in Minting(out)}
      /\ \A f \in DOMAIN byName : byName'[f] = byName[f]
  BY DEF Seed
<1>4. ASSUME NEW n \in Minting(out) PROVE byName'[Selected[n]] = NextIP(entries[n])
  <2>1. (CHOOSE m \in Minting(out) : Selected[m] = Selected[n]) = n
    BY MintedForOne
  <2> QED
    BY <2>1, MintedTyped DEF Seed
<1>5. DOMAIN byIP' = DOMAIN byIP \cup {NextIP(entries[n]) : n \in Minting(out)}
  BY DEF Seed
<1>6. \A n \in Minting(out) :
       /\ n \in Tailnet /\ n \in DOMAIN entries /\ CanTake(entries[n])
       /\ Selected[n] \in FQDN /\ Selected[n] \notin DOMAIN byName
       /\ NextIP(entries[n]) \in Nat /\ Contains(entries[n].range, NextIP(entries[n]))
  BY MintedTyped
<1>7. \A m, n \in Minting(out) : m # n => Selected[m] # Selected[n]
  BY MintedForOne
<1>8. UNCHANGED <<cidrs, resolvers>>
  BY DEF Seed
<1> QED
  BY <1>1, <1>2, <1>3, <1>4, <1>5, <1>6, <1>7, <1>8 DEF Seeded

(* ... and where ranges are apart no address is given twice.               *)
SeededApart(out) ==
  /\ \A n \in Minting(out) : /\ NextIP(entries[n]) \notin DOMAIN byIP
                             /\ byIP'[NextIP(entries[n])] = Selected[n]
                             /\ \A m \in Minting(out) : m # n => NextIP(entries[m]) # NextIP(entries[n])
  /\ \A ip \in DOMAIN byIP : byIP'[ip] = byIP[ip]

LEMMA SeedAddsAddresses ==
  ASSUME RegInv, live \subseteq Tailnet, NEW out, Seed(out)
  PROVE  SeededApart(out)
<1>0. RegTypeOK
  BY DEF RegInv
<1>1. \A n \in Minting(out) : NextIP(entries[n]) \notin DOMAIN byIP
  BY <1>0, MintedTyped, NextIPIsFresh
<1> DEFINE fresh == {NextIP(entries[n]) : n \in Minting(out)}
<1>2. PICK last \in [fresh -> Minting(out)] :
        /\ \A ip \in fresh : NextIP(entries[last[ip]]) = ip
        /\ byIP' = [ip \in DOMAIN byIP \cup fresh |->
                     IF ip \in fresh THEN Selected[last[ip]] ELSE byIP[ip]]
  BY DEF Seed
<1>3. \A ip \in DOMAIN byIP : byIP'[ip] = byIP[ip]
  BY <1>1, <1>2
<1>4. ASSUME NEW n \in Minting(out) PROVE byIP'[NextIP(entries[n])] = Selected[n]
  <2>1. last[NextIP(entries[n])] \in Minting(out) /\ NextIP(entries[last[NextIP(entries[n])]]) = NextIP(entries[n])
    BY <1>2
  <2>2. last[NextIP(entries[n])] = n
    BY <2>1, MintedOnce
  <2> QED
    BY <1>2, <2>2
<1>5. \A m, n \in Minting(out) : m # n => NextIP(entries[m]) # NextIP(entries[n])
  BY MintedOnce
<1> QED
  BY <1>1, <1>3, <1>4, <1>5 DEF SeededApart

LEMMA SeedKeepsTypes ==
  ASSUME RegTypeOK, live \subseteq Tailnet, NEW out, Seed(out)
  PROVE  RegTypeOK'
<1>0. Seeded(out)
  BY SeedFacts
<1>1. ASSUME NEW k \in DOMAIN entries' PROVE entries'[k] \in Entry
  <2>1. k \in DOMAIN entries /\ entries[k] \in Entry
    BY <1>0 DEF Seeded, RegTypeOK
  <2>2. CASE k \in Minting(out)
    <3>1. entries'[k] = [entries[k] EXCEPT !.next = @ + 1]
      BY <1>0, <2>2 DEF Seeded
    <3>2. entries[k].next + 1 \in Nat
      BY <2>1 DEF Entry
    <3> QED
      BY <2>1, <3>1, <3>2 DEF Entry
  <2>3. CASE k \notin Minting(out)
    BY <1>0, <2>1, <2>3 DEF Seeded
  <2> QED
    BY <2>2, <2>3
<1>2. entries' \in [DOMAIN entries' -> Entry] /\ DOMAIN entries' = DOMAIN entries
  BY <1>0, <1>1 DEF Seed, Seeded
<1>3. byName' \in [DOMAIN byName' -> Nat] /\ DOMAIN byName' \subseteq FQDN
  <2>1. \A f \in DOMAIN byName' : byName'[f] \in Nat /\ f \in FQDN
    BY <1>0 DEF Seeded, RegTypeOK
  <2> QED
    BY <2>1 DEF Seed
<1>4. byIP' \in [DOMAIN byIP' -> FQDN] /\ DOMAIN byIP' \subseteq Nat
  <2> DEFINE fresh == {NextIP(entries[n]) : n \in Minting(out)}
  <2>1. PICK last \in [fresh -> Minting(out)] :
          byIP' = [ip \in DOMAIN byIP \cup fresh |->
                     IF ip \in fresh THEN Selected[last[ip]] ELSE byIP[ip]]
    BY DEF Seed
  <2>2. \A ip \in fresh : Selected[last[ip]] \in FQDN /\ ip \in Nat
    BY <1>0 DEF Seeded
  <2> QED
    BY <2>1, <2>2 DEF RegTypeOK
<1> QED
  BY <1>0, <1>2, <1>3, <1>4 DEF Seeded, RegTypeOK

LEMMA SeedKeepsRegInv ==
  ASSUME RegInv, live \subseteq Tailnet, NEW out, Seed(out)
  PROVE  RegInv'
<1>0. RegTypeOK /\ Seeded(out) /\ SeededApart(out)
  BY SeedFacts, SeedAddsAddresses DEF RegInv
<1> USE <1>0 DEF Seeded, SeededApart
<1>1. RangesDisjoint'
  BY DEF RegInv, RangesDisjoint
<1>2. GuardIsRanges'
  BY DEF RegInv, GuardIsRanges
<1>3. EachIPHasOwner'
  BY DEF RegInv, EachIPHasOwner
<1>4. NamesMatchIPs'
  BY DEF RegInv, NamesMatchIPs
<1>5. NoAddressWasted'
  <2> SUFFICES ASSUME NEW m \in DOMAIN entries
               PROVE  /\ \A ip \in DOMAIN byIP' : Contains(entries[m].range, ip) =>
                           entries[m].range.base < ip /\ ip < NextIP(entries'[m])
                      /\ \A x \in 1 .. entries'[m].next - 1 :
                           entries[m].range.base + x \in DOMAIN byIP'
                      /\ entries'[m].next >= 1
                      /\ entries'[m].next > 1 => entries'[m].next < entries[m].range.size
    BY DEF NoAddressWasted, NextIP
  <2>1. /\ entries[m] \in Entry /\ entries[m].range \in CIDR /\ entries[m].next \in Nat
        /\ entries[m].range.base \in Nat /\ entries[m].range.size \in Nat \ {0}
    BY RegistryAssumption DEF RegInv, RegTypeOK, Entry
  <2>2. ASSUME NEW n \in Minting(out), n # m
        PROVE  ~Contains(entries[m].range, NextIP(entries[n]))
    <3>1. n \in DOMAIN entries /\ entries[n].range \in CIDR
      BY DEF RegInv, RegTypeOK, Entry
    <3> QED
      BY <2>1, <2>2, <3>1, SharedAddressOverlaps DEF RegInv, RangesDisjoint
  <2>3. CASE m \notin Minting(out)
    <3>1. entries'[m] = entries[m]
      BY <2>3
    <3>2. \A ip \in DOMAIN byIP' : Contains(entries[m].range, ip) => ip \in DOMAIN byIP
      BY <2>2, <2>3
    <3> QED
      BY <3>1, <3>2 DEF RegInv, NoAddressWasted
  <2>4. CASE m \in Minting(out)
    <3> DEFINE e == entries[m]
               ip0 == NextIP(e)
    <3>1. /\ ip0 = e.range.base + e.next /\ ip0 \in Nat /\ ip0 \in DOMAIN byIP'
          /\ e.next >= 1 /\ e.next < e.range.size - 1
      BY <2>4 DEF NextIP, CanTake, RegInv, NoAddressWasted
    <3>2. entries'[m].next = e.next + 1 /\ entries'[m].range = e.range
      BY <2>1, <2>4 DEF Entry
    <3>3. NextIP(entries'[m]) = ip0 + 1
      BY <2>1, <3>1, <3>2 DEF NextIP
    <3>4. ASSUME NEW ip \in DOMAIN byIP', Contains(e.range, ip)
          PROVE  e.range.base < ip /\ ip < ip0 + 1
      <4>1. CASE ip = ip0
        BY <2>1, <3>1, <4>1
      <4>2. CASE ip # ip0
        <5>1. ip \in DOMAIN byIP
          BY <2>2, <3>4, <4>2
        <5>2. ip \in Nat /\ e.range.base < ip /\ ip < ip0
          BY <3>4, <5>1 DEF RegInv, NoAddressWasted, RegTypeOK
        <5> QED
          BY <3>1, <5>2
      <4> QED
        BY <4>1, <4>2
    <3>5. ASSUME NEW x \in 1 .. e.next PROVE e.range.base + x \in DOMAIN byIP'
      <4>1. CASE x = e.next
        BY <3>1, <4>1
      <4>2. CASE x # e.next
        <5>1. x \in 1 .. e.next - 1
          BY <2>1, <4>2
        <5>2. e.range.base + x \in DOMAIN byIP
          BY <5>1 DEF RegInv, NoAddressWasted
        <5> QED
          BY <5>2
      <4> QED
        BY <4>1, <4>2
    <3>6. 1 .. entries'[m].next - 1 = 1 .. e.next
      BY <2>1, <3>2
    <3>7. entries'[m].next >= 1 /\ entries'[m].next < e.range.size
      BY <2>1, <3>1, <3>2
    <3>8. \A ip \in DOMAIN byIP' : Contains(entries[m].range, ip) =>
                                     entries[m].range.base < ip /\ ip < NextIP(entries'[m])
      BY <3>3, <3>4
    <3>9. \A x \in 1 .. entries'[m].next - 1 : entries[m].range.base + x \in DOMAIN byIP'
      BY <3>5, <3>6
    <3> HIDE DEF e, ip0
    <3>10. entries'[m].next > 1 => entries'[m].next < entries[m].range.size
      BY <3>7 DEF e
    <3> QED
      BY <3>7, <3>8, <3>9, <3>10
  <2> QED
    BY <2>3, <2>4
<1> QED
  BY <1>1, <1>2, <1>3, <1>4, <1>5, SeedKeepsTypes DEF RegInv
-----------------------------------------------------------------------------
(* What an entry is registered with is all that the other parts of the     *)
(* invariant see of the registry.                                          *)
SameLabels ==
  /\ DOMAIN entries' = DOMAIN entries
  /\ \A k \in DOMAIN entries : entries'[k].range = entries[k].range

(* An operation that has no tailnet in hand moves on, or nothing moves.    *)
LEMMA StandsKept ==
  ASSUME EveryTailnetStands, SameLabels, UNCHANGED <<live, running>>,
         \/ UNCHANGED op
         \/ \A n \in Tailnet : ~InHand(n) /\ ~InHand(n)'
  PROVE  EveryTailnetStands'
<1>1. ASSUME NEW n \in Tailnet, Settled(n) PROVE Settled(n)'
  BY <1>1 DEF Settled, SameLabels, Up, Registered, RangeOf
<1>2. ASSUME NEW n \in Tailnet, HandStands(n), UNCHANGED op PROVE HandStands(n)'
  BY <1>2 DEF HandStands, SameLabels, Up, Registered, RangeOf
<1>3. UNCHANGED op => \A n \in Tailnet : InHand(n)' <=> InHand(n)
  BY DEF InHand
<1> QED
  BY <1>1, <1>2, <1>3 DEF EveryTailnetStands, SameLabels

(* A step that concerns tailnet t leaves the others as they stand.         *)
LEMMA OneStands ==
  ASSUME EveryTailnetStands, NEW t \in Tailnet,
         DOMAIN entries' \ {Lower[t]} = DOMAIN entries \ {Lower[t]},
         \A k \in DOMAIN entries \ {Lower[t]} : entries'[k].range = entries[k].range,
         live' \ {t} = live \ {t},
         \A n \in Tailnet \ {t} :
           running'[n] = running[n] /\ ~InHand(n) /\ ~InHand(n)',
         IF InHand(t)' THEN HandStands(t)' ELSE Settled(t)'
  PROVE  EveryTailnetStands'
<1>1. \A n \in Tailnet \ {t} : Lower[n] # Lower[t]
  BY DaemonAssumption
<1>2. ASSUME NEW n \in Tailnet \ {t} PROVE Settled(n)'
  BY <1>1 DEF EveryTailnetStands, Settled, Up, Registered, RangeOf
<1> QED
  BY <1>2 DEF EveryTailnetStands

(* What a step does to the registry keeps it sound, and typed in any case. *)
RegistryKept == RegTypeOK' /\ (RegInv => RegInv')

LEMMA SameRegistry ==
  ASSUME RegTypeOK, UNCHANGED regVars
  PROVE  RegistryKept /\ SameLabels
  BY RegTypeStep, RegInvStep DEF RegistryKept, SameLabels, regVars

LEMMA ApplyKeeps ==
  ASSUME RegTypeOK, live \subseteq Tailnet, ApplySelections
  PROVE  /\ RegistryKept /\ SameLabels
         /\ missed' \subseteq Tailnet /\ unwritten' \in BOOLEAN
<1>1. PICK out \in SUBSET Ready, fails \in BOOLEAN :
        Seed(out) /\ missed' = out /\ unwritten' = fails
  BY DEF ApplySelections, WriteBlock
<1>2. RegistryKept
  BY <1>1, SeedKeepsTypes, SeedKeepsRegInv DEF RegistryKept
<1>3. SameLabels
  BY <1>1, SeedFacts DEF SameLabels, Seeded
<1> QED
  BY <1>1, <1>2, <1>3 DEF Ready

LEMMA SoundKept ==
  ASSUME RegSound, RegistryKept, UNCHANGED <<file, shared>>
  PROVE  RegTypeOK' /\ RegSound'
  BY DEF RegSound, RegistryKept, RangesApart

(* A start finds its range unclaimed while no file has asked for           *)
(* overlapping ranges: what is registered is what the file asks for, since *)
(* the stop pass has ended.                                                *)
LEMMA RangeIsFree ==
  ASSUME DaemonInv, RangesApart(file), op.at = "starting"
  PROVE  Unclaimed(CidrOf[op.slot])
<1>1. op.tn \in Tailnet /\ op.slot \in Slot /\ file[op.tn].slot = op.slot /\ Wanted(op.tn)
  BY DEF DaemonInv, OpStands
<1>2. ASSUME NEW k \in DOMAIN entries PROVE ~Overlap(entries[k].range, CidrOf[op.slot])
  <2>1. PICK n \in Tailnet : k = Lower[n]
    BY DEF DaemonInv, EveryTailnetStands
  <2>2. n # op.tn
    BY <1>1, <2>1 DEF DaemonInv, EveryTailnetStands, InHand, HandStands, Registered
  <2>3. n \in live /\ entries[k].range = CidrOf[running[n]]
    BY <2>1, <2>2 DEF DaemonInv, EveryTailnetStands, InHand, Settled, Registered, RangeOf
  <2>4. file[n].slot = running[n] /\ Wanted(n)
    BY <2>3 DEF DaemonInv, StopsFirst, Stopping, Current
  <2> QED
    BY <1>1, <2>2, <2>3, <2>4 DEF RangesApart, Wanted
<1> QED
  BY <1>2 DEF Unclaimed
-----------------------------------------------------------------------------
(* The other parts of the invariant see only the config, what is listed,   *)
(* what runs, the entries' ranges and the operation.                       *)
LEMMA QuietKeeps ==
  ASSUME DaemonInv, DaemonTypeOK', RegistryKept, SameLabels,
         UNCHANGED <<file, shared, live, running, op>>
  PROVE  DaemonInv'
<1>1. EveryTailnetStands'
  BY StandsKept DEF DaemonInv
<1>2. OpStands'
  BY DEF DaemonInv, OpStands, Idle, Wanted
<1>3. StopsFirst'
  BY DEF DaemonInv, StopsFirst, Stopping, Current, Wanted
<1>4. RegTypeOK' /\ RegSound'
  BY SoundKept DEF DaemonInv
<1> QED
  BY <1>1, <1>2, <1>3, <1>4 DEF DaemonInv

(* The steps of the watchers, the nodes, the kernel and the clients.       *)
LEMMA BystanderKeepsInv ==
  ASSUME DaemonInv,
         \/ \E n \in Tailnet : Watch(n) \/ Push(n) \/ NodeUp(n) \/ NodeDown(n) \/ DNSAnswers(n)
         \/ \E d \in Device : KernelReleases(d)
  PROVE  DaemonInv'
<1> USE DEF DaemonInv
<1>0. live \subseteq Tailnet
  BY DEF DaemonTypeOK
<1>1. ASSUME NEW n \in Tailnet, Poll(n) PROVE DaemonInv'
  <2>1. DaemonTypeOK'
    BY <1>1 DEF Poll, DaemonTypeOK
  <2> QED
    BY <1>1, <2>1, SameRegistry, QuietKeeps DEF Poll
<1>2. ASSUME NEW n \in Tailnet, NEW k \in {"watch", "netmap"}, CallbackLocksMu(<<k, n>>) PROVE DaemonInv'
  <2>1. DaemonTypeOK'
    BY <1>2 DEF CallbackLocksMu, DaemonTypeOK
  <2> QED
    BY <1>2, <2>1, SameRegistry, QuietKeeps DEF CallbackLocksMu
<1>3. ASSUME NEW n \in Tailnet, NEW k \in {"watch", "netmap"}, CallbackApplies(<<k, n>>) PROVE DaemonInv'
  <2>2. /\ RegistryKept /\ SameLabels
        /\ missed' \subseteq Tailnet /\ unwritten' \in BOOLEAN
    BY <1>0, <1>3, ApplyKeeps DEF CallbackApplies
  <2>1. DaemonTypeOK'
    BY <1>3, <2>2 DEF CallbackApplies, DaemonTypeOK
  <2> QED
    BY <1>3, <2>1, <2>2, QuietKeeps DEF CallbackApplies
<1>4. ASSUME NEW n \in Tailnet, Push(n) PROVE DaemonInv'
  <2>1. DaemonTypeOK'
    BY <1>4 DEF Push, DaemonTypeOK
  <2> QED
    BY <1>4, <2>1, SameRegistry, QuietKeeps DEF Push
<1>5. ASSUME NEW n \in Tailnet, NodeUp(n) PROVE DaemonInv'
  <2>1. DaemonTypeOK'
    BY <1>5 DEF NodeUp, DaemonTypeOK
  <2> QED
    BY <1>5, <2>1, SameRegistry, QuietKeeps DEF NodeUp
<1>6. ASSUME NEW n \in Tailnet, NodeDown(n) PROVE DaemonInv'
  <2>1. DaemonTypeOK'
    BY <1>6 DEF NodeDown, DaemonTypeOK
  <2> QED
    BY <1>6, <2>1, SameRegistry, QuietKeeps DEF NodeDown
<1>7. ASSUME NEW n \in Tailnet, DNSAnswers(n) PROVE DaemonInv'
  <2>1. DaemonTypeOK' /\ UNCHANGED <<file, shared, live, running, op>>
    BY <1>7 DEF DNSAnswers, daemonVars, DaemonTypeOK
  <2>2. PICK f \in Hosts[n] : Allocate(Lower[n], f)
    BY <1>7 DEF DNSAnswers
  <2>3. Lower[n] \in Name /\ f \in FQDN
    BY <2>2, DaemonAssumption, RegistryAssumption
  <2>4. RegistryKept
    BY <2>2, <2>3, RegTypeStep, RegInvStep DEF RegNext, RegistryKept
  <2>5. SameLabels
    <3>1. \A k \in DOMAIN entries : entries[k] \in Entry
      BY DEF RegTypeOK
    <3> QED
      BY <2>2, <3>1 DEF Allocate, Mint, SameLabels, Entry
  <2> QED
    BY <2>1, <2>4, <2>5, QuietKeeps
<1>8. ASSUME NEW d \in Device, KernelReleases(d) PROVE DaemonInv'
  <2>1. DaemonTypeOK'
    BY <1>8 DEF KernelReleases, DaemonTypeOK
  <2> QED
    BY <1>8, <2>1, SameRegistry, QuietKeeps DEF KernelReleases
<1> QED
  BY <1>1, <1>2, <1>3, <1>4, <1>5, <1>6, <1>7, <1>8 DEF Watch
-----------------------------------------------------------------------------
(* The steps of an operation that leave the registry and what runs alone.  *)
LEMMA MoveKeepsInv ==
  ASSUME DaemonInv,
         \/ BeginSync \/ BeginRestart \/ (\E n \in Tailnet : Retry(n))
         \/ SyncStop \/ SyncStopped \/ SyncStart \/ SyncStarted \/ List \/ OpLocksMu
  PROVE  DaemonInv'
<1> USE DEF DaemonInv
<1>0. RegTypeOK' /\ RegSound' /\ SameLabels /\ UNCHANGED running
  <2>1. UNCHANGED regVars /\ UNCHANGED running
    BY DEF BeginSync, BeginRestart, Retry, SyncStop, Unlist, SyncStopped,
       Goto, SyncStart, SyncStarted, List, OpLocksMu
  <2>2. RegistryKept /\ SameLabels
    BY <2>1, SameRegistry
  <2>3. CASE UNCHANGED <<file, shared>>
    BY <2>1, <2>2, <2>3, SoundKept
  <2>4. CASE BeginSync
    BY <2>1, <2>2, <2>4 DEF BeginSync, RegSound, RegistryKept
  <2>5. BeginSync \/ UNCHANGED <<file, shared>>
    BY DEF BeginRestart, Retry, SyncStop, Unlist, SyncStopped, Goto, SyncStart, SyncStarted,
       List, OpLocksMu
  <2> QED
    BY <2>1, <2>2, <2>3, <2>4, <2>5 DEF RegistryKept
<1>1. CASE BeginSync
  <2>1. DaemonTypeOK'
    <3>1. file' \in Config /\ shared' \in BOOLEAN
      BY <1>1, DaemonAssumption DEF BeginSync
    <3> QED
      BY <1>1, <3>1 DEF BeginSync, DaemonTypeOK, Operation, NoOp
  <2>2. op.at = "idle" /\ op'.at = "stops" /\ op'.kind = "sync" /\ UNCHANGED live
    BY <1>1 DEF BeginSync, NoOp, OpStands
  <2>3. EveryTailnetStands'
    BY <1>0, <2>2, StandsKept DEF InHand
  <2>4. OpStands' /\ StopsFirst'
    BY <2>2 DEF OpStands, Idle, StopsFirst, Stopping
  <2> QED
    BY <1>0, <2>1, <2>3, <2>4
<1>2. CASE BeginRestart
  <2>1. PICK n \in live : /\ live' = live \ {n}
                          /\ op' = [kind |-> "restart", at |-> "unlisted", tn |-> n,
                                    slot |-> running[n], tried |-> {}]
    BY <1>2 DEF BeginRestart
  <2>2. /\ op.at = "idle" /\ n \in Tailnet /\ running[n] \in Slot /\ Current(n)
        /\ UNCHANGED file
    BY <1>2 DEF BeginRestart, OpStands, Idle, DaemonTypeOK, Operation, StopsFirst, Stopping
  <2>3. DaemonTypeOK'
    BY <1>2, <2>1, <2>2 DEF BeginRestart, DaemonTypeOK, Operation
  <2>4. EveryTailnetStands'
    <3>1. Settled(n) /\ \A m \in Tailnet \ {n} : ~InHand(m) /\ ~InHand(m)'
      BY <2>1, <2>2 DEF EveryTailnetStands, InHand
    <3>2. InHand(n)' /\ HandStands(n)'
      BY <1>0, <2>1, <2>2, <3>1 DEF InHand, HandStands, Settled, Up, Registered, RangeOf, SameLabels
    <3> QED
      BY <1>0, <2>1, <2>2, <3>1, <3>2, OneStands DEF SameLabels
  <2>5. OpStands'
    BY <2>1, <2>2 DEF OpStands, Idle, Current, Wanted
  <2>6. StopsFirst'
    BY <1>0, <1>2, <2>1, <2>2 DEF StopsFirst, Stopping, Current, Wanted, Idle
  <2> QED
    BY <1>0, <2>3, <2>4, <2>5, <2>6
<1>3. ASSUME NEW n \in Tailnet, Retry(n) PROVE DaemonInv'
  <2>0. op.at = "idle" /\ retry[n] \in 1 .. Waits /\ UNCHANGED <<live, file>>
    BY <1>3 DEF Retry, OpStands
  <2>1. CASE ~Wanted(n) \/ n \in live
    <3>1. UNCHANGED op /\ retry' = [retry EXCEPT ![n] = NoRetry]
      BY <1>3, <2>1 DEF Retry
    <3>2. retry' \in [Tailnet -> 0 .. NoRetry]
      BY <3>1, DaemonAssumption DEF DaemonTypeOK, NoRetry
    <3>3. DaemonTypeOK'
      BY <1>3, <3>1, <3>2 DEF Retry, DaemonTypeOK
    <3> QED
      BY <1>3, <3>1, <3>3, SameRegistry, QuietKeeps DEF Retry
  <2>2. CASE Wanted(n) /\ n \notin live
    <3>1. /\ op' = [kind |-> "retry", at |-> "starting", tn |-> n,
                    slot |-> file[n].slot, tried |-> {}]
          /\ retry' = [retry EXCEPT ![n] = @ - 1]
      BY <1>3, <2>2 DEF Retry
    <3>2. retry' \in [Tailnet -> 0 .. NoRetry]
      BY <2>0, <3>1, DaemonAssumption DEF DaemonTypeOK, NoRetry
    <3>3. file[n].slot \in Slot
      BY <2>2 DEF Wanted, DaemonTypeOK, Operation, Config
    <3>4. DaemonTypeOK'
      BY <1>3, <3>1, <3>2, <3>3 DEF Retry, DaemonTypeOK, Operation
    <3>5. EveryTailnetStands'
      <4>1. Settled(n) /\ \A m \in Tailnet \ {n} : ~InHand(m) /\ ~InHand(m)'
        BY <2>0, <3>1 DEF EveryTailnetStands, InHand
      <4>2. InHand(n)' /\ HandStands(n)'
        BY <1>0, <2>0, <2>2, <3>1, <4>1 DEF InHand, HandStands, Settled, Up, Registered, SameLabels
      <4> QED
        BY <1>0, <2>0, <4>1, <4>2, OneStands DEF SameLabels
    <3>6. OpStands'
      BY <2>0, <2>2, <3>1, <3>3 DEF OpStands, Idle, Wanted
    <3>7. StopsFirst'
      BY <1>0, <1>3, <2>0, <3>1 DEF Retry, StopsFirst, Stopping, Current, Wanted, Idle
    <3> QED
      BY <1>0, <3>4, <3>5, <3>6, <3>7
  <2> QED
    BY <2>1, <2>2
<1>4. CASE SyncStop
  <2>1. PICK n \in ToStop : live' = live \ {n} /\ op' = [op EXCEPT !.at = "unlisted", !.tn = n]
    BY <1>4 DEF SyncStop, Unlist
  <2>2. /\ op.at = "stops" /\ op.kind = "sync" /\ n \in live /\ n \in Tailnet /\ UNCHANGED file
        /\ op'.at = "unlisted" /\ op'.kind = "sync" /\ op'.tn = n
    BY <1>4, <2>1 DEF SyncStop, Unlist, ToStop, DaemonTypeOK, Operation, OpStands
  <2>3. DaemonTypeOK'
    <3>1. op' \in Operation
      BY <2>1, <2>2 DEF DaemonTypeOK, Operation
    <3>2. /\ live' \subseteq live
          /\ UNCHANGED <<fileVars, running, backend, seen, notified, callbacks, lingering,
                         retry, hostsVars, mu, dropped>>
      BY <1>4, <2>1 DEF SyncStop, Unlist
    <3> QED
      BY <3>1, <3>2 DEF DaemonTypeOK
  <2>4. EveryTailnetStands'
    <3>1. Settled(n) /\ \A m \in Tailnet \ {n} : ~InHand(m) /\ ~InHand(m)'
      BY <2>2 DEF EveryTailnetStands, InHand
    <3>2. InHand(n)' /\ HandStands(n)'
      BY <1>0, <2>1, <2>2, <3>1 DEF InHand, HandStands, Settled, Up, Registered, RangeOf, SameLabels
    <3> QED
      BY <1>0, <2>1, <2>2, <3>1, <3>2, OneStands DEF SameLabels
  <2>5. OpStands' /\ StopsFirst'
    BY <2>2 DEF OpStands, Idle, StopsFirst, Stopping
  <2> QED
    BY <1>0, <2>3, <2>4, <2>5
<1>5. ASSUME NEW at \in {"starts", "applying"}, op.at \in {"stops", "starts"}, Goto(at),
             op.at = "stops" => ToStop = {}
      PROVE  DaemonInv'
  <2>1. op.kind = "sync" /\ op'.kind = "sync" /\ op'.at = at /\ UNCHANGED <<live, file>>
    BY <1>5 DEF Goto, OpStands, DaemonTypeOK, Operation
  <2>2. DaemonTypeOK'
    BY <1>5 DEF Goto, DaemonTypeOK, Operation
  <2>3. EveryTailnetStands'
    BY <1>0, <1>5, <2>1, StandsKept DEF InHand
  <2>4. OpStands'
    BY <1>5, <2>1 DEF OpStands, Idle
  <2>5. StopsFirst'
    <3>1. \A n \in live : Current(n)
      BY <1>5 DEF StopsFirst, Stopping, ToStop, Current
    <3> QED
      BY <1>0, <2>1, <3>1 DEF StopsFirst, Current, Wanted
  <2> QED
    BY <1>0, <2>2, <2>3, <2>4, <2>5
<1>6. CASE SyncStart
  <2>1. PICK n \in ToStart : op' = [op EXCEPT !.at = "starting", !.tn = n, !.slot = file[n].slot]
    BY <1>6 DEF SyncStart
  <2>2. /\ op.at = "starts" /\ n \in Tailnet /\ n \notin live /\ Wanted(n)
        /\ file[n].slot \in Slot /\ UNCHANGED <<file, live>>
    BY <1>6 DEF SyncStart, ToStart, Wanted, DaemonTypeOK, Config
  <2>3. op'.at = "starting" /\ op'.kind = "sync" /\ op'.tn = n /\ op'.slot = file[n].slot
    BY <2>1, <2>2 DEF DaemonTypeOK, Operation, OpStands
  <2>4. DaemonTypeOK'
    <3>1. op' \in Operation
      BY <2>1, <2>2 DEF DaemonTypeOK, Operation
    <3>2. UNCHANGED <<fileVars, live, running, backend, seen, notified, callbacks,
                      lingering, retry, hostsVars, mu, dropped>>
      BY <1>6 DEF SyncStart
    <3> QED
      BY <3>1, <3>2 DEF DaemonTypeOK
  <2>5. EveryTailnetStands'
    <3>1. Settled(n) /\ \A m \in Tailnet \ {n} : ~InHand(m) /\ ~InHand(m)'
      BY <2>2, <2>3 DEF EveryTailnetStands, InHand
    <3>2. InHand(n)' /\ HandStands(n)'
      BY <1>0, <2>2, <2>3, <3>1 DEF InHand, HandStands, Settled, Up, Registered, SameLabels
    <3> QED
      BY <1>0, <2>2, <3>1, <3>2, OneStands DEF SameLabels
  <2>6. OpStands'
    BY <2>2, <2>3 DEF OpStands, Idle, Wanted
  <2>7. StopsFirst'
    BY <1>0, <2>2, <2>3 DEF StopsFirst, Stopping, Current, Wanted
  <2> QED
    BY <1>0, <2>4, <2>5, <2>6, <2>7
<1>7. CASE List
  <2>0. PICK t \in Tailnet : t = op.tn
    BY <1>7 DEF List, OpStands
  <2>1. /\ op.at = "opened" /\ op.slot \in Slot /\ Wanted(t)
        /\ file[t].slot = op.slot /\ UNCHANGED file /\ live' = live \cup {t}
        /\ InHand(t) /\ HandStands(t) /\ op.kind # "none"
    BY <1>7, <2>0 DEF List, OpStands, EveryTailnetStands, InHand, Idle
  <2>2. /\ op'.at = IF op.kind = "sync" THEN "starts" ELSE "applying"
        /\ op'.kind = op.kind /\ op'.tn = t /\ op'.slot = op.slot
    BY <1>7, <2>0 DEF List, DaemonTypeOK
  <2>3. running[t] = op.slot /\ running[t] # NoSlot
    BY <2>1, DaemonAssumption DEF HandStands
  <2>4. DaemonTypeOK'
    BY <1>7, <2>0, <2>1, <2>3 DEF List, DaemonTypeOK, Operation
  <2>5. EveryTailnetStands'
    <3>1. \A m \in Tailnet \ {t} : ~InHand(m) /\ ~InHand(m)'
      BY <2>0, <2>2 DEF InHand
    <3>2. ~InHand(t)' /\ Settled(t)'
      BY <1>0, <2>1, <2>2, <2>3 DEF InHand, HandStands, Settled, Up, Registered, RangeOf, SameLabels
    <3>3. live' \ {t} = live \ {t}
      BY <2>1
    <3> QED
      BY <1>0, <2>1, <3>1, <3>2, <3>3, OneStands DEF SameLabels
  <2>6. OpStands'
    BY <2>0, <2>1, <2>2 DEF OpStands, Idle, Wanted
  <2>7. StopsFirst'
    BY <1>0, <2>1, <2>3 DEF StopsFirst, Stopping, Current, Wanted
  <2> QED
    BY <1>0, <2>4, <2>5, <2>6, <2>7
<1>8. CASE OpLocksMu
  <2>1. DaemonTypeOK'
    BY <1>8 DEF OpLocksMu, DaemonTypeOK
  <2> QED
    BY <1>8, <2>1, SameRegistry, QuietKeeps DEF OpLocksMu
<1> QED
  BY <1>1, <1>2, <1>3, <1>4, <1>5, <1>6, <1>7, <1>8 DEF SyncStopped, SyncStarted
-----------------------------------------------------------------------------
LEMMA RemoveFacts ==
  ASSUME RegTypeOK, NEW t \in Tailnet, Remove(t)
  PROVE  /\ RegistryKept
         /\ DOMAIN entries' = DOMAIN entries \ {Lower[t]}
         /\ \A k \in DOMAIN entries' : entries'[k] = entries[k]
<1>1. RegistryKept
  BY RegTypeStep, RegInvStep, DaemonAssumption DEF RegNext, RegistryKept
<1> QED
  BY <1>1 DEF Remove, DropName, Restrict

(* add itself does not look whether the range is free.                     *)
LEMMA AddFacts ==
  ASSUME RegTypeOK, NEW t \in Tailnet, NEW r \in CIDR, NEW z \in Zone, Add(t, r, z, z)
  PROVE  /\ RegTypeOK'
         /\ RegInv /\ Unclaimed(r) => RegInv'
         /\ Lower[t] \notin DOMAIN entries
         /\ DOMAIN entries' = DOMAIN entries \cup {Lower[t]}
         /\ \A k \in DOMAIN entries : entries'[k] = entries[k]
         /\ entries'[Lower[t]].range = r
<1>1. t \in Name
  BY DaemonAssumption
<1>2. RegTypeOK'
  BY <1>1 DEF Add, Put, RegTypeOK, Entry
<1>3. RegInv /\ Unclaimed(r) => RegInv'
  BY <1>1, RegInvStep DEF Start, RegNext
<1> QED
  BY <1>2, <1>3 DEF Add, Put

(* The steps of an operation that change the registry or what runs.        *)
LEMMA WorkKeepsInv ==
  ASSUME DaemonInv,
         Unregister \/ Close \/ Register \/ Open \/ OpenBusy \/ OpenFails
  PROVE  DaemonInv'
<1> USE DEF DaemonInv
<1>1. PICK t \in Tailnet : t = op.tn
  BY DEF Unregister, Close, Register, Open, OpenBusy, OpenFails, OpStands
<1>2. /\ InHand(t) /\ HandStands(t)
      /\ \A m \in Tailnet \ {t} : ~InHand(m)
  BY <1>1 DEF Unregister, Close, Register, Open, OpenBusy, OpenFails,
     EveryTailnetStands, InHand
<1>3. UNCHANGED <<live, file, shared>>
  BY DEF Unregister, Close, CloseInstance, Register, Open, OpenBusy, OpenFails, FailStart
<1>r. RegistryKept => RegTypeOK' /\ RegSound'
  BY <1>3, SoundKept
<1>4. CASE Unregister
  <2>1. Remove(t) /\ op' = [op EXCEPT !.at = "closing"] /\ op.at = "unlisted" /\ UNCHANGED running
    BY <1>1, <1>4 DEF Unregister
  <2>2. op'.at = "closing" /\ op'.kind = op.kind /\ op'.tn = t /\ op'.slot = op.slot
    BY <1>1, <2>1 DEF DaemonTypeOK, Operation
  <2>3. DaemonTypeOK'
    BY <1>4 DEF Unregister, DaemonTypeOK, Operation
  <2>4. EveryTailnetStands'
    <3>1. InHand(t)' /\ HandStands(t)' /\ \A m \in Tailnet \ {t} : ~InHand(m)'
      BY <1>2, <1>3, <2>1, <2>2, RemoveFacts DEF InHand, HandStands, Up, Registered
    <3> QED
      BY <1>2, <1>3, <2>1, <3>1, RemoveFacts, OneStands
  <2>5. OpStands'
    BY <1>1, <1>3, <2>1, <2>2 DEF OpStands, Idle, Wanted
  <2>6. StopsFirst'
    BY <1>3, <2>1, <2>2 DEF StopsFirst, Stopping, Current, Wanted
  <2> QED
    BY <1>r, <2>1, <2>3, <2>4, <2>5, <2>6, RemoveFacts
<1>5. CASE Close
  <2>1. /\ op.at = "closing" /\ op.kind \in {"sync", "restart"}
        /\ op' = [op EXCEPT !.at = IF op.kind = "sync" THEN "stops" ELSE "starting"]
        /\ running' = [running EXCEPT ![t] = NoSlot]
        /\ lingering' = lingering \cup {DevOf[running[t]]}
    BY <1>1, <1>5 DEF Close, CloseInstance, OpStands
  <2>2. /\ op'.at = IF op.kind = "sync" THEN "stops" ELSE "starting"
        /\ op'.kind = op.kind /\ op'.tn = t /\ op'.slot = op.slot
    BY <1>1, <2>1 DEF DaemonTypeOK
  <2>3. RegistryKept /\ SameLabels
    BY <1>5, SameRegistry DEF Close, CloseInstance
  <2>4. /\ running'[t] = NoSlot /\ \A m \in Tailnet \ {t} : running'[m] = running[m]
        /\ running[t] \in Slot
    BY <1>2, <2>1 DEF DaemonTypeOK, HandStands, Up
  <2>5. DaemonTypeOK'
    <3>1. running' \in [Tailnet -> Slot \cup {NoSlot}] /\ lingering' \subseteq Device
      BY <2>1, <2>4 DEF DaemonTypeOK, Device
    <3>2. t \notin live' \cup backend' \cup seen' \cup notified' \cup dropped'
      BY <1>1, <1>2, <1>3, <1>5 DEF Close, CloseInstance, HandStands
    <3>3. live' \cup backend' \cup seen' \cup notified' \cup dropped'
            \subseteq {n \in Tailnet : running'[n] # NoSlot}
      BY <1>3, <1>5, <2>4, <3>2 DEF Close, CloseInstance, DaemonTypeOK
    <3>4. /\ op'.at \in {"stops", "starting"}
          /\ UNCHANGED <<fileVars, callbacks, retry, unwritten, mu>>
          /\ missed' \subseteq Tailnet
      BY <1>5, <2>2 DEF Close, CloseInstance, DaemonTypeOK
    <3> QED
      BY <2>1, <3>1, <3>3, <3>4 DEF DaemonTypeOK, Operation
  <2>6. EveryTailnetStands'
    <3>1. /\ IF InHand(t)' THEN HandStands(t)' ELSE Settled(t)'
          /\ \A m \in Tailnet \ {t} : ~InHand(m)'
      BY <1>2, <1>3, <2>1, <2>2, <2>3, <2>4 DEF InHand, HandStands, Settled, Up, Registered, SameLabels
    <3> QED
      BY <1>2, <1>3, <2>3, <2>4, <3>1, OneStands DEF SameLabels
  <2>7. OpStands'
    BY <1>1, <1>3, <2>1, <2>2 DEF OpStands, Idle, Wanted
  <2>8. StopsFirst'
    <3>1. \A n \in live : n \in Tailnet /\ n # t
      BY <1>2 DEF DaemonTypeOK, HandStands
    <3> QED
      BY <1>3, <2>1, <2>2, <2>4, <3>1 DEF StopsFirst, Stopping, Current, Wanted
  <2> QED
    BY <1>r, <2>3, <2>5, <2>6, <2>7, <2>8
<1>6. CASE Register
  <2>1. PICK z \in Zone : Add(t, CidrOf[op.slot], z, z)
    BY <1>1, <1>6 DEF Register
  <2>2. /\ op.at = "starting" /\ op.slot \in Slot /\ CidrOf[op.slot] \in CIDR
        /\ op' = [op EXCEPT !.at = "opening"] /\ UNCHANGED running
    BY <1>6, DaemonAssumption DEF Register, OpStands
  <2>3. op'.at = "opening" /\ op'.kind = op.kind /\ op'.tn = t /\ op'.slot = op.slot
    BY <1>1, <2>2 DEF DaemonTypeOK
  <2>4. /\ RegTypeOK'
        /\ RegInv /\ Unclaimed(CidrOf[op.slot]) => RegInv'
        /\ DOMAIN entries' = DOMAIN entries \cup {Lower[t]}
        /\ \A k \in DOMAIN entries : entries'[k] = entries[k]
        /\ entries'[Lower[t]].range = CidrOf[op.slot]
    BY <2>1, <2>2, AddFacts
  <2>9. RegSound'
    <3>1. RangesApart(file) => Unclaimed(CidrOf[op.slot])
      BY <2>2, RangeIsFree
    <3> QED
      BY <1>3, <2>4, <3>1 DEF RegSound, RangesApart
  <2>5. DaemonTypeOK'
    BY <1>6 DEF Register, DaemonTypeOK, Operation
  <2>6. EveryTailnetStands'
    <3>1. InHand(t)' /\ HandStands(t)' /\ \A m \in Tailnet \ {t} : ~InHand(m)'
      BY <1>2, <1>3, <2>2, <2>3, <2>4 DEF InHand, HandStands, Up, Registered, RangeOf
    <3> QED
      BY <1>2, <1>3, <2>2, <2>4, <3>1, OneStands
  <2>7. OpStands'
    BY <1>1, <1>3, <2>2, <2>3 DEF OpStands, Idle, Wanted
  <2>8. StopsFirst'
    BY <1>3, <2>2, <2>3 DEF StopsFirst, Stopping, Current, Wanted
  <2> QED
    BY <2>4, <2>5, <2>6, <2>7, <2>8, <2>9
<1>7. CASE Open
  <2>1. /\ op.at = "opening" /\ op.slot \in Slot /\ t \in Name
        /\ op' = [op EXCEPT !.at = "opened"]
        /\ running' = [running EXCEPT ![t] = op.slot]
        /\ RegisterResolver(t)
    BY <1>1, <1>7, DaemonAssumption DEF Open, OpStands
  <2>2. op'.at = "opened" /\ op'.kind = op.kind /\ op'.tn = t /\ op'.slot = op.slot
    BY <1>1, <2>1 DEF DaemonTypeOK
  <2>3. SameLabels
    BY <2>1 DEF RegisterResolver, SameLabels
  <2>4. RegistryKept
    <3>1. Lower[t] \in DOMAIN entries
      BY <1>2, <2>1 DEF HandStands, Registered
    <3> QED
      BY <2>1, <3>1, RegTypeStep, RegInvStep DEF RegNext, RegistryKept
  <2>5. /\ running'[t] = op.slot /\ op.slot # NoSlot
        /\ \A m \in Tailnet \ {t} : running'[m] = running[m]
    BY <2>1, DaemonAssumption DEF DaemonTypeOK
  <2>6. DaemonTypeOK'
    <3>1. running' \in [Tailnet -> Slot \cup {NoSlot}]
      BY <2>1 DEF DaemonTypeOK
    <3>2. live' \cup backend' \cup seen' \cup notified' \cup dropped'
            \subseteq {n \in Tailnet : running'[n] # NoSlot}
      BY <1>7, <2>5 DEF Open, DaemonTypeOK
    <3>3. UNCHANGED <<fileVars, callbacks, lingering, retry, hostsVars, mu>>
      BY <1>7 DEF Open
    <3> QED
      BY <2>1, <3>1, <3>2, <3>3 DEF DaemonTypeOK, Operation
  <2>7. EveryTailnetStands'
    <3>1. InHand(t)' /\ HandStands(t)' /\ \A m \in Tailnet \ {t} : ~InHand(m)'
      BY <1>2, <1>3, <2>1, <2>2, <2>3, <2>5 DEF InHand, HandStands, Up, Registered, RangeOf, SameLabels
    <3> QED
      BY <1>2, <1>3, <2>3, <2>5, <3>1, OneStands DEF SameLabels
  <2>8. OpStands'
    BY <1>1, <1>3, <2>1, <2>2 DEF OpStands, Idle, Wanted
  <2>9. StopsFirst'
    <3>1. \A n \in live : n \in Tailnet /\ n # t
      BY <1>2 DEF DaemonTypeOK, HandStands
    <3> QED
      BY <1>3, <2>1, <2>2, <2>5, <3>1 DEF StopsFirst, Stopping, Current, Wanted
  <2> QED
    BY <1>r, <2>4, <2>6, <2>7, <2>8, <2>9
<1>8. ASSUME NEW busy \in BOOLEAN, FailStart(busy), op.at = "opening" PROVE DaemonInv'
  <2>1. /\ Remove(t) /\ UNCHANGED running
        /\ op' = IF op.kind = "sync"
                 THEN [op EXCEPT !.at = "starts", !.tried = @ \cup {t}]
                 ELSE NoOp
    BY <1>1, <1>8 DEF FailStart
  <2>2. /\ op.kind = "sync" => op'.at = "starts" /\ op'.kind = "sync"
        /\ op.kind # "sync" => op'.at = "idle" /\ op'.kind = "none"
    BY <2>1 DEF DaemonTypeOK, NoOp
  <2>3. DaemonTypeOK'
    <3>1. retry' \in [Tailnet -> 0 .. NoRetry]
      <4>1. retry[t] \in 0 .. NoRetry /\ Waits \in 0 .. NoRetry /\ NoRetry \in 0 .. NoRetry
        BY DaemonAssumption DEF DaemonTypeOK, NoRetry
      <4>2. PICK left \in 0 .. NoRetry : retry' = [retry EXCEPT ![t] = left]
        <5>1. CASE op.kind = "sync" /\ busy /\ retry[t] = NoRetry
          BY <1>1, <1>8, <4>1, <5>1 DEF FailStart
        <5>2. CASE op.kind = "retry" /\ retry[t] = 0
          BY <1>1, <1>8, <4>1, <5>2 DEF FailStart
        <5>3. CASE ~(op.kind = "sync" /\ busy /\ retry[t] = NoRetry) /\ ~(op.kind = "retry" /\ retry[t] = 0)
          BY <1>1, <1>8, <4>1, <5>3 DEF FailStart
        <5> QED
          BY <5>1, <5>2, <5>3
      <4> QED
        BY <4>2 DEF DaemonTypeOK, Operation
    <3>2. /\ op' \in Operation
      BY <2>1 DEF DaemonTypeOK, Operation, NoOp
    <3>3. UNCHANGED <<fileVars, live, running, backend, seen, notified, callbacks,
                      lingering, hostsVars, mu, dropped>>
      BY <1>8 DEF FailStart
    <3> QED
      BY <1>8, <3>1, <3>2, <3>3 DEF DaemonTypeOK
  <2>4. EveryTailnetStands'
    <3>1. \A m \in Tailnet : ~InHand(m)'
      BY <2>2 DEF InHand
    <3>2. Settled(t)'
      BY <1>2, <1>3, <1>8, <2>1, RemoveFacts DEF HandStands, Settled, Up, Registered
    <3> QED
      BY <1>2, <1>3, <2>1, <3>1, <3>2, RemoveFacts, OneStands
  <2>5. OpStands'
    BY <2>2 DEF OpStands, Idle, DaemonTypeOK
  <2>6. StopsFirst'
    BY <1>3, <1>8, <2>1 DEF StopsFirst, Stopping, Current, Wanted
  <2> QED
    BY <1>r, <2>1, <2>3, <2>4, <2>5, <2>6, RemoveFacts
<1> QED
  BY <1>4, <1>5, <1>6, <1>7, <1>8 DEF OpenBusy, OpenFails
-----------------------------------------------------------------------------
(* The end of a sync, a restart or a retry.                                *)
LEMMA EndKeepsInv ==
  ASSUME DaemonInv, OpApplies
  PROVE  DaemonInv'
<1> USE DEF DaemonInv
<1>1. /\ RegistryKept /\ SameLabels
      /\ missed' \subseteq Tailnet /\ unwritten' \in BOOLEAN
  BY ApplyKeeps DEF OpApplies, DaemonTypeOK
<1>2. /\ op.at = "applying" /\ op' = NoOp /\ op'.at = "idle" /\ op'.kind = "none"
      /\ UNCHANGED <<file, shared, live, running>>
  BY DEF OpApplies, EndOp, NoOp
<1>3. DaemonTypeOK'
  <2>1. retry' \in [Tailnet -> 0 .. NoRetry]
    <3>1. NoRetry \in 0 .. NoRetry
      BY DaemonAssumption DEF NoRetry
    <3>2. CASE op.kind = "retry"
      BY <3>1, <3>2 DEF OpApplies, EndOp, DaemonTypeOK
    <3>3. CASE op.kind # "retry"
      BY <3>3 DEF OpApplies, EndOp, DaemonTypeOK
    <3> QED
      BY <3>2, <3>3
  <2>2. mu' = NoHolder /\ UNCHANGED <<backend, seen, notified, callbacks, lingering, dropped>>
    BY DEF OpApplies, EndOp
  <2> QED
    BY <1>1, <1>2, <2>1, <2>2 DEF DaemonTypeOK, Operation, NoOp
<1>4. EveryTailnetStands'
  BY <1>1, <1>2, StandsKept DEF InHand
<1>5. OpStands' /\ StopsFirst'
  BY <1>2 DEF OpStands, Idle, StopsFirst, Stopping, Current, Wanted
<1>6. RegTypeOK' /\ RegSound'
  BY <1>1, <1>2, SoundKept
<1> QED
  BY <1>3, <1>4, <1>5, <1>6

LEMMA InitEstablishesInv == DaemonInit => DaemonInv
<1> SUFFICES ASSUME DaemonInit PROVE DaemonInv
  OBVIOUS
<1>0. /\ op.kind = "none" /\ op.at = "idle"
      /\ op \in Operation
  BY DEF DaemonInit, NoOp, Operation
<1>1. RegInv
  BY DEF DaemonInit, RegInit, RegInv, RegTypeOK, RangesDisjoint, GuardIsRanges,
     EachIPHasOwner, NamesMatchIPs, NoAddressWasted
<1>2. DaemonTypeOK
  <2>1. file \in Config
    BY DEF DaemonInit, Config
  <2>2. retry \in [Tailnet -> 0 .. NoRetry]
    BY DaemonAssumption DEF DaemonInit, NoRetry
  <2> QED
    BY <1>0, <2>1, <2>2 DEF DaemonInit, DaemonTypeOK
<1>3. EveryTailnetStands
  BY <1>0 DEF DaemonInit, RegInit, EveryTailnetStands, InHand, Settled, Up, Registered
<1>4. OpStands /\ StopsFirst
  BY <1>0 DEF DaemonInit, OpStands, StopsFirst, Idle
<1>5. RangesApart(file)
  BY DEF DaemonInit, RangesApart
<1> QED
  BY <1>1, <1>2, <1>3, <1>4, <1>5 DEF DaemonInv, RegSound, RegInv

LEMMA StepKeepsInv ==
  ASSUME DaemonInv, [DaemonNext]_vars
  PROVE  DaemonInv'
<1>1. CASE UNCHANGED vars
  <2>1. RegistryKept /\ SameLabels
    BY <1>1, SameRegistry DEF vars, DaemonInv
  <2>2. DaemonTypeOK'
    BY <1>1 DEF vars, daemonVars, DaemonInv, DaemonTypeOK
  <2> QED
    BY <1>1, <2>1, <2>2, QuietKeeps DEF vars, daemonVars, DaemonInv
<1>2. CASE BeginSync \/ BeginRestart \/ OpStep \/ OpenFails
  BY <1>2, MoveKeepsInv, WorkKeepsInv, EndKeepsInv DEF OpStep
<1>3. ASSUME NEW n \in Tailnet,
             Watch(n) \/ Push(n) \/ Retry(n) \/ NodeUp(n) \/ NodeDown(n) \/ DNSAnswers(n)
      PROVE  DaemonInv'
  <2>1. CASE Retry(n)
    BY <2>1, MoveKeepsInv
  <2>2. CASE ~Retry(n)
    BY <1>3, <2>2, BystanderKeepsInv
  <2> QED
    BY <2>1, <2>2
<1>4. ASSUME NEW d \in Device, KernelReleases(d) PROVE DaemonInv'
  BY <1>4, BystanderKeepsInv
<1> QED
  BY <1>1, <1>2, <1>3, <1>4 DEF DaemonNext

(* What the file asks for is what runs, and what runs is what is           *)
(* registered, up to the tailnet an operation has in hand.                 *)
THEOREM DaemonInvariant == DaemonSpec => []DaemonInv
  BY InitEstablishesInv, StepKeepsInv, PTL DEF DaemonSpec

(* With cfgMu free no listed tailnet runs with an outdated entry.          *)
THEOREM DaemonLiveMatchesConfig == DaemonSpec => []LiveMatchesConfig
<1>1. DaemonInv => LiveMatchesConfig
  BY DEF DaemonInv, StopsFirst, Stopping, LiveMatchesConfig, Idle
<1> QED
  BY <1>1, DaemonInvariant, PTL

(* With cfgMu free the DNS knows exactly the tailnets that run, each by    *)
(* the range it runs on.                                                   *)
THEOREM DaemonRegistryFollowsLive == DaemonSpec => []RegistryFollowsLive
<1>1. ASSUME DaemonInv, Idle PROVE RegistryFollowsLive
  <2>1. live \subseteq Tailnet /\ \A n \in Tailnet : Settled(n)
    BY <1>1 DEF DaemonInv, DaemonTypeOK, OpStands, EveryTailnetStands, InHand
  <2>2. DOMAIN entries = {Lower[n] : n \in live}
    BY <1>1, <2>1 DEF DaemonInv, EveryTailnetStands, Settled, Registered
  <2> QED
    BY <2>1, <2>2 DEF RegistryFollowsLive, Settled, Up, RangeOf
<1> QED
  BY <1>1, DaemonInvariant, PTL DEF RegistryFollowsLive

(* A device is opened when no instance has it, and a range is registered   *)
(* when no tailnet has it, in whatever order operations move tailnets      *)
(* between slots, provided the file's ranges are apart; no assumption on   *)
(* the files before it.                                                    *)
DevicesExclusive ==
  \A m, n \in Tailnet :
    m # n /\ running[m] # NoSlot /\ running[n] # NoSlot => DevOf[running[m]] # DevOf[running[n]]

LEMMA DevicesExclusiveStep ==
  ASSUME DaemonInv, DevicesExclusive, [DaemonNext]_vars
  PROVE  DevicesExclusive'
<1>0. running \in [Tailnet -> Slot \cup {NoSlot}]
  BY DEF DaemonInv, DaemonTypeOK
<1>1. CASE UNCHANGED running
  BY <1>1 DEF DevicesExclusive
<1>2. CASE Open
  <2>1. /\ \A m \in Tailnet : running[m] # NoSlot => DevOf[running[m]] # DevOf[op.slot]
        /\ running' = [running EXCEPT ![op.tn] = op.slot]
    BY <1>2 DEF Open, Busy
  <2> QED
    BY <1>0, <2>1 DEF DevicesExclusive
<1>3. CASE Close
  <2>1. running' = [running EXCEPT ![op.tn] = NoSlot]
    BY <1>3 DEF Close, CloseInstance
  <2> QED
    BY <1>0, <2>1 DEF DevicesExclusive
<1>4. ~Open /\ ~Close => UNCHANGED running
  BY DEF vars, daemonVars, DaemonNext, OpStep, Watch, BeginSync, BeginRestart,
     SyncStop, Unlist, SyncStopped, Goto, Unregister, SyncStart, SyncStarted, Register,
     OpenBusy, OpenFails, FailStart, List, OpLocksMu, OpApplies, EndOp, Poll,
     CallbackLocksMu, CallbackApplies, Push, Retry, NodeUp, NodeDown, DNSAnswers,
     KernelReleases
<1> QED
  BY <1>1, <1>2, <1>3, <1>4

(* Past the stop pass, what is registered is what the file asks for.       *)
LEMMA RegisteredAsWanted ==
  ASSUME DaemonInv, ~Stopping, NEW n \in Tailnet, Registered(n)
  PROVE  Wanted(n) /\ RangeOf(n) = CidrOf[file[n].slot]
<1> USE DEF DaemonInv
<1>1. CASE ~InHand(n)
  BY <1>1 DEF EveryTailnetStands, Settled, StopsFirst, Current
<1>2. CASE InHand(n)
  <2>1. HandStands(n) /\ n = op.tn /\ op.at \in {"unlisted", "opening", "opened"}
    BY <1>2 DEF EveryTailnetStands, InHand, HandStands
  <2>2. CASE op.at = "unlisted"
    <3>1. op.kind = "restart" /\ running[n] = op.slot
      BY <2>1, <2>2 DEF Stopping, OpStands, HandStands
    <3> QED
      BY <2>1, <2>2, <3>1 DEF OpStands, HandStands
  <2>3. CASE op.at \in {"opening", "opened"}
    BY <2>1, <2>3 DEF OpStands, HandStands
  <2> QED
    BY <2>1, <2>2, <2>3
<1> QED
  BY <1>1, <1>2

(* No two instances have one device, whatever the file asks for, and past  *)
(* the stop pass a file with distinct ranges has them registered apart,    *)
(* whatever the files before it let overlap.                               *)
THEOREM DaemonSlotsExclusive == DaemonSpec => []SlotsExclusive
<1>1. DaemonInit => DevicesExclusive
  BY DEF DaemonInit, DevicesExclusive
<1>2. ASSUME DaemonInv, ~Stopping, RangesApart(file) PROVE RangesDisjoint
  <2> SUFFICES ASSUME NEW i \in DOMAIN entries, NEW j \in DOMAIN entries, i # j
               PROVE  ~Overlap(entries[i].range, entries[j].range)
    BY DEF RangesDisjoint
  <2>1. PICK m \in Tailnet, n \in Tailnet : i = Lower[m] /\ j = Lower[n]
    BY <1>2 DEF DaemonInv, EveryTailnetStands
  <2>2. /\ Wanted(m) /\ entries[i].range = CidrOf[file[m].slot]
        /\ Wanted(n) /\ entries[j].range = CidrOf[file[n].slot]
    BY <1>2, <2>1, RegisteredAsWanted DEF Registered, RangeOf
  <2> QED
    BY <1>2, <2>1, <2>2 DEF RangesApart, Wanted
<1>3. DaemonInv /\ DevicesExclusive => SlotsExclusive
  BY <1>2 DEF DevicesExclusive, SlotsExclusive
<1> QED
  BY <1>1, <1>3, DevicesExclusiveStep, DaemonInvariant, PTL DEF DaemonSpec
-----------------------------------------------------------------------------
(* A line of a block that could be written names the host its address      *)
(* stands for, or its address lies in no registered range, or the          *)
(* operation under way still rewrites the block, or drops the range it has *)
(* just registered.                                                        *)
Leads(line) == line[3] \in DOMAIN byIP /\ byIP[line[3]] = line[2]

Dangles(line) == \A k \in DOMAIN entries : ~Contains(entries[k].range, line[3])

Rewriting(line) ==
  \/ op.kind = "sync"
  \/ op.at = "applying"
  \/ op.at \in {"opening", "opened"} /\ Contains(CidrOf[op.slot], line[3])

LinesLead ==
  ~unwritten /\ ~shared =>
    \A line \in hosts : line[3] \in Nat /\ (Leads(line) \/ Dangles(line) \/ Rewriting(line))

(* A file that has shared a range is not forgotten.                        *)
LEMMA SharedStays ==
  ASSUME [DaemonNext]_vars, ~shared'
  PROVE  ~shared
  BY DEF vars, daemonVars, DaemonNext, OpStep, Watch, BeginSync, BeginRestart,
     SyncStop, Unlist, SyncStopped, Goto, Unregister, SyncStart, SyncStarted, Register,
     OpenBusy, OpenFails, FailStart, List, OpLocksMu, OpApplies, EndOp, Poll,
     CallbackLocksMu, CallbackApplies, Push, Retry, NodeUp, NodeDown, DNSAnswers,
     KernelReleases, Open, Close, CloseInstance

(* applySelections writes lines that lead to their hosts, if it can write. *)
LEMMA AppliedLinesLead ==
  ASSUME RegInv', ApplySelections, ~unwritten'
  PROVE  \A line \in hosts' : line[3] \in Nat /\ Leads(line)'
<1>1. PICK out \in SUBSET Ready :
        hosts' = {<<n, Selected[n], byName'[Selected[n]]>> :
                    n \in {m \in Ready \ out : Selected[m] \in DOMAIN byName'}}
  BY DEF ApplySelections, WriteBlock
<1>2. ASSUME NEW line \in hosts'
      PROVE  line[2] \in DOMAIN byName' /\ line[3] = byName'[line[2]]
  <2>1. PICK n \in {m \in Ready \ out : Selected[m] \in DOMAIN byName'} :
               line = <<n, Selected[n], byName'[Selected[n]]>>
    BY <1>1
  <2> QED
    BY <2>1
<1> QED
  BY <1>2 DEF RegInv, RegTypeOK, NamesMatchIPs, Leads

(* A step that leaves the maps alone and no operation's end.               *)
LEMMA LinesKept ==
  ASSUME NEW line \in hosts, Leads(line) \/ Dangles(line) \/ Rewriting(line),
         UNCHANGED byIP, SameLabels,
         op.kind = "sync" => op'.kind = "sync",
         op.at = "applying" => op'.at = "applying",
         op.at \in {"opening", "opened"} =>
           \/ op'.kind = "sync" \/ op'.at = "applying"
           \/ op'.at \in {"opening", "opened"} /\ op'.slot = op.slot
  PROVE  Leads(line)' \/ Dangles(line)' \/ Rewriting(line)'
  BY DEF Leads, Dangles, Rewriting, SameLabels

LEMMA LinesStep ==
  ASSUME DaemonInv, LinesLead, [DaemonNext]_vars
  PROVE  LinesLead'
<1> DEFINE Lead(line) == Leads(line) \/ Dangles(line) \/ Rewriting(line)
<1>s. SUFFICES ASSUME ~unwritten', ~shared' PROVE LinesLead'
  BY DEF LinesLead
<1>0. /\ RegInv /\ RegInv' /\ RangesApart(file) /\ RegTypeOK
      /\ live \subseteq Tailnet /\ op \in Operation /\ OpStands
  BY <1>s, StepKeepsInv, SharedStays DEF DaemonInv, DaemonTypeOK, RegSound
<1>1. CASE ApplySelections
  BY <1>0, <1>1, <1>s, AppliedLinesLead DEF LinesLead
<1>2. ASSUME ~ApplySelections PROVE UNCHANGED <<hosts, unwritten>>
  BY <1>2 DEF vars, daemonVars, DaemonNext, OpStep, Watch, BeginSync, BeginRestart,
     SyncStop, Unlist, SyncStopped, Goto, Unregister, SyncStart, SyncStarted, Register,
     OpenBusy, OpenFails, FailStart, List, OpLocksMu, OpApplies, EndOp, Poll,
     CallbackLocksMu, CallbackApplies, Push, Retry, NodeUp, NodeDown, DNSAnswers,
     KernelReleases, Open, Close, CloseInstance
<1>3. SUFFICES ASSUME ~ApplySelections, NEW line \in hosts PROVE Lead(line)'
  BY <1>1, <1>2, <1>s, SharedStays DEF LinesLead
<1>4. line[3] \in Nat /\ Lead(line)
  BY <1>2, <1>3, <1>s, SharedStays DEF LinesLead
<1>5. \A k \in DOMAIN entries : entries[k].range \in CIDR
  BY <1>0 DEF RegInv, RegTypeOK, Entry
<1>6. CASE UNCHANGED <<regVars, op>>
  BY <1>0, <1>4, <1>6, SameRegistry, LinesKept DEF regVars
<1>7. CASE BeginSync \/ BeginRestart \/ \E n \in Tailnet : Retry(n)
  <2>1. ~Rewriting(line)
    BY <1>0, <1>7 DEF BeginSync, BeginRestart, Retry, Idle, OpStands, Rewriting
  <2> QED
    BY <1>4, <1>7, <2>1 DEF BeginSync, BeginRestart, Retry, regVars, Leads, Dangles
<1>8. CASE SyncStop \/ SyncStopped \/ SyncStart \/ SyncStarted \/ Close \/ List \/ Open
  <2>1. UNCHANGED byIP /\ SameLabels
    BY <1>8 DEF SyncStop, Unlist, SyncStopped, Goto, SyncStart, SyncStarted, Close,
       CloseInstance, List, Open, RegisterResolver, regVars, SameLabels
  <2>2. op'.kind = op.kind
    BY <1>0, <1>8 DEF SyncStop, Unlist, SyncStopped, Goto, SyncStart, SyncStarted, Close,
       CloseInstance, List, Open, Operation
  <2>3. op.at # "applying"
    BY <1>8 DEF SyncStop, SyncStopped, SyncStart, SyncStarted, Close, List, Open
  <2>4. op.at \in {"opening", "opened"} =>
           \/ op'.kind = "sync" \/ op'.at = "applying"
           \/ op'.at \in {"opening", "opened"} /\ op'.slot = op.slot
    BY <1>0, <1>8 DEF SyncStop, SyncStopped, SyncStart, SyncStarted, Close, List, Open, Operation
  <2> QED
    BY <1>4, <2>1, <2>2, <2>3, <2>4, LinesKept
<1>9. CASE Unregister \/ OpenBusy \/ OpenFails
  <2>1. PICK t \in Tailnet : t = op.tn
    BY <1>0, <1>9 DEF Unregister, OpenBusy, OpenFails, OpStands
  <2>2. Remove(t)
    BY <1>9, <2>1 DEF Unregister, OpenBusy, OpenFails, FailStart
  <2> DEFINE r == entries[Lower[t]].range
  <2>3. /\ Lower[t] \in DOMAIN entries
        /\ DOMAIN entries' = DOMAIN entries \ {Lower[t]}
        /\ \A k \in DOMAIN entries' : entries'[k] = entries[k]
        /\ \A ip \in DOMAIN byIP : ~Contains(r, ip) => ip \in DOMAIN byIP' /\ byIP'[ip] = byIP[ip]
    BY <2>2 DEF Remove, DropName, Restrict, Scrubbed
  <2>4. Contains(r, line[3]) => Dangles(line)'
    BY <1>0, <1>4, <1>5, <2>3, SharedAddressOverlaps DEF RegInv, RangesDisjoint, Dangles
  <2>5. ASSUME Rewriting(line), ~Contains(r, line[3]) PROVE Rewriting(line)'
    <3>1. CASE op.kind = "sync"
      BY <1>0, <1>9, <3>1 DEF Unregister, OpenBusy, OpenFails, FailStart, Operation, Rewriting
    <3>2. CASE op.kind # "sync" /\ Unregister
      BY <2>5, <3>2 DEF Unregister, Rewriting
    <3>3. CASE op.kind # "sync" /\ (OpenBusy \/ OpenFails)
      <4>1. op.at = "opening" /\ Contains(CidrOf[op.slot], line[3])
        BY <2>5, <3>3 DEF OpenBusy, OpenFails, Rewriting
      <4>2. r = CidrOf[op.slot]
        BY <2>1, <4>1 DEF DaemonInv, EveryTailnetStands, InHand, HandStands, RangeOf
      <4> QED
        BY <2>5, <4>1, <4>2
    <3> QED
      BY <1>9, <3>1, <3>2, <3>3
  <2>6. Leads(line) /\ ~Contains(r, line[3]) => Leads(line)'
    BY <2>3 DEF Leads
  <2>7. Dangles(line) => Dangles(line)'
    BY <2>3 DEF Dangles
  <2> QED
    BY <1>4, <2>4, <2>5, <2>6, <2>7
<1>10. CASE Register
  <2>1. PICK t \in Tailnet, z \in Zone : Add(t, CidrOf[op.slot], z, z)
    BY <1>0, <1>10 DEF Register, OpStands
  <2>2. /\ op'.at = "opening" /\ op'.kind = op.kind /\ op'.slot = op.slot /\ op.at = "starting"
        /\ op.slot \in Slot /\ CidrOf[op.slot] \in CIDR
    BY <1>0, <1>10, DaemonAssumption DEF Register, Operation, OpStands
  <2>3. /\ UNCHANGED byIP
        /\ DOMAIN entries' = DOMAIN entries \cup {Lower[t]}
        /\ \A k \in DOMAIN entries : entries'[k] = entries[k]
        /\ entries'[Lower[t]].range = CidrOf[op.slot]
    BY <1>0, <2>1, <2>2, RangeIsFree, AddFacts DEF Add
  <2>4. Leads(line) => Leads(line)'
    BY <2>3 DEF Leads
  <2>5. Dangles(line) => Dangles(line)' \/ Rewriting(line)'
    BY <2>2, <2>3 DEF Dangles, Rewriting
  <2>6. Rewriting(line) => Rewriting(line)'
    BY <2>2 DEF Rewriting
  <2> QED
    BY <1>4, <2>4, <2>5, <2>6
<1>11. ASSUME NEW n \in Tailnet, DNSAnswers(n) PROVE Lead(line)'
  <2>1. PICK f \in Hosts[n] : Allocate(Lower[n], f)
    BY <1>11 DEF DNSAnswers
  <2>2. CanTake(entries[Lower[n]]) /\ Lower[n] \in DOMAIN entries /\ UNCHANGED op
    BY <1>11, <2>1 DEF DNSAnswers, daemonVars, Allocate, Mint
  <2>3. \A ip \in DOMAIN byIP : ip \in DOMAIN byIP' /\ byIP'[ip] = byIP[ip]
    BY <1>0, <2>1, <2>2, NextIPIsFresh DEF Allocate, Mint, Put
  <2>4. SameLabels
    <3>1. \A k \in DOMAIN entries : entries[k] \in Entry
      BY <1>0 DEF RegInv, RegTypeOK
    <3> QED
      BY <2>1, <3>1 DEF Allocate, Mint, SameLabels, Entry
  <2> QED
    BY <1>4, <2>2, <2>3, <2>4 DEF Leads, Dangles, Rewriting, SameLabels
<1>12. CASE OpLocksMu \/ UNCHANGED vars
  BY <1>6, <1>12 DEF OpLocksMu, vars, daemonVars
<1>13. ASSUME NEW n \in Tailnet, Watch(n) \/ Push(n) \/ NodeUp(n) \/ NodeDown(n) PROVE Lead(line)'
  BY <1>3, <1>6, <1>13 DEF Watch, Poll, CallbackLocksMu, CallbackApplies, Push, NodeUp, NodeDown
<1>14. ASSUME NEW d \in Device, KernelReleases(d) PROVE Lead(line)'
  BY <1>6, <1>14 DEF KernelReleases
<1>15. ~OpApplies
  BY <1>3 DEF OpApplies
<1> HIDE DEF Lead
<1> QED
  BY <1>7, <1>8, <1>9, <1>10, <1>11, <1>12, <1>13, <1>14, <1>15 DEF DaemonNext, OpStep

(* With cfgMu free no line of the hosts block leads to another host,       *)
(* unless the last rewrite failed or the file has ever let two wanted      *)
(* tailnets have overlapping ranges.                                       *)
THEOREM DaemonHostsNeverMislead == DaemonSpec => []HostsNeverMislead
<1>1. DaemonInit => LinesLead
  BY DEF DaemonInit, LinesLead
<1>2. ASSUME DaemonInv, LinesLead PROVE HostsNeverMislead
  <2> SUFFICES ASSUME Idle, ~unwritten, ~shared, NEW line \in hosts, line[3] \in DOMAIN byIP
               PROVE  byIP[line[3]] = line[2]
    BY DEF HostsNeverMislead
  <2>1. ~Rewriting(line)
    BY <1>2 DEF DaemonInv, OpStands, Idle, Rewriting
  <2>2. ~Dangles(line)
    BY <1>2 DEF DaemonInv, RegSound, RegInv, EachIPHasOwner, Dangles
  <2> QED
    BY <1>2, <2>1, <2>2 DEF LinesLead, Leads
<1> QED
  BY <1>1, <1>2, LinesStep, DaemonInvariant, PTL DEF DaemonSpec
-----------------------------------------------------------------------------
(* Complete lines: a selected host that has an address has it from its own *)
(* tailnet's range; a watcher that has notified once has seen Running, or  *)
(* has lost it; and where a line is missing that the last apply did not    *)
(* have to leave out, somebody who will write it is on its way.            *)
SelectedInRange ==
  \A n \in Tailnet : Selected[n] \in DOMAIN byName =>
    Registered(n) /\ Contains(RangeOf(n), byName[Selected[n]])

NotifiedOnce == notified \subseteq seen \cup dropped

Owed(n) == <<"watch", n>> \in callbacks \/ op.kind = "sync" \/ op.at = "applying"

LineOrOwed ==
  ~unwritten /\ ~shared => \A n \in (Ready \ dropped) \ missed : HasLine(n) \/ Owed(n)

LinesInv == (~shared => SelectedInRange) /\ NotifiedOnce /\ LineOrOwed

(* What a step does to the registry unless it applies the selections.      *)
RegistryMove ==
  \/ UNCHANGED <<entries, byName, byIP>>
  \/ \E t \in Tailnet \ live : Remove(t) \/ \E r \in CIDR, z \in Zone : Add(t, r, z, z)
  \/ \E m \in Tailnet : \E f \in Hosts[m] : Allocate(Lower[m], f)

Applies == OpApplies \/ \E n \in Tailnet, k \in {"watch", "netmap"} : CallbackApplies(<<k, n>>)

LEMMA StepMovesRegistry ==
  ASSUME DaemonInv, [DaemonNext]_vars, ~Applies
  PROVE  RegistryMove /\ UNCHANGED <<hosts, unwritten>>
<1>1. op \in Operation /\ OpStands
  BY DEF DaemonInv, DaemonTypeOK
<1>2. ASSUME op.at \in {"closing", "starting", "opening", "unlisted"}
      PROVE  op.tn \in Tailnet \ live
  BY <1>1, <1>2 DEF DaemonInv, EveryTailnetStands, InHand, HandStands, OpStands
<1>3. CASE Unregister \/ OpenBusy \/ OpenFails
  BY <1>2, <1>3 DEF Unregister, OpenBusy, OpenFails, FailStart, RegistryMove
<1>4. CASE Register
  <2>1. CidrOf[op.slot] \in CIDR
    BY <1>1, <1>4, DaemonAssumption DEF Register, OpStands
  <2> QED
    BY <1>2, <1>4, <2>1 DEF Register, RegistryMove
<1>5. ASSUME NEW n \in Tailnet, DNSAnswers(n) PROVE RegistryMove /\ UNCHANGED <<hosts, unwritten>>
  BY <1>5 DEF DNSAnswers, daemonVars, RegistryMove
<1>6. CASE UNCHANGED vars
  BY <1>6 DEF vars, regVars, daemonVars, RegistryMove
<1>7. CASE BeginSync \/ BeginRestart \/ SyncStop \/ SyncStopped \/ Close \/ SyncStart
           \/ SyncStarted \/ Open \/ List \/ OpLocksMu
  BY <1>7 DEF BeginSync, BeginRestart, SyncStop, Unlist, SyncStopped, Goto, Close,
     CloseInstance, SyncStart, SyncStarted, Open, RegisterResolver, List, OpLocksMu,
     regVars, RegistryMove
<1>8. ASSUME NEW n \in Tailnet,
             \/ Poll(n) \/ Push(n) \/ Retry(n) \/ NodeUp(n) \/ NodeDown(n)
             \/ \E k \in {"watch", "netmap"} : CallbackLocksMu(<<k, n>>)
      PROVE  RegistryMove /\ UNCHANGED <<hosts, unwritten>>
  BY <1>8 DEF Poll, Push, Retry, NodeUp, NodeDown, CallbackLocksMu, regVars, RegistryMove
<1>9. ASSUME NEW d \in Device, KernelReleases(d) PROVE RegistryMove /\ UNCHANGED <<hosts, unwritten>>
  BY <1>9 DEF KernelReleases, regVars, RegistryMove
<1> QED
  BY <1>3, <1>4, <1>5, <1>6, <1>7, <1>8, <1>9 DEF DaemonNext, OpStep, Watch, Applies

(* What a stop and a failed start take from the registry, seen from        *)
(* another tailnet.                                                        *)
LEMMA RemoveSparesOthers ==
  ASSUME RegInv, SelectedInRange, NEW t \in Tailnet, Remove(t),
         NEW n \in Tailnet, n # t
  PROVE  /\ Registered(n)' <=> Registered(n)
         /\ Registered(n) => entries'[Lower[n]] = entries[Lower[n]]
         /\ Selected[n] \in DOMAIN byName' <=> Selected[n] \in DOMAIN byName
         /\ Selected[n] \in DOMAIN byName =>
              /\ byName'[Selected[n]] = byName[Selected[n]]
              /\ byName[Selected[n]] \in DOMAIN byIP'
              /\ byIP'[byName[Selected[n]]] = Selected[n]
<1>1. Lower[n] # Lower[t]
  BY DaemonAssumption
<1>2. /\ Lower[t] \in DOMAIN entries
      /\ DOMAIN entries' = DOMAIN entries \ {Lower[t]}
      /\ \A k \in DOMAIN entries' : entries'[k] = entries[k]
  BY DEF Remove, DropName, Restrict
<1>3. Registered(n)' <=> Registered(n)
  BY <1>1, <1>2 DEF Registered
<1>4. Registered(n) => entries'[Lower[n]] = entries[Lower[n]]
  BY <1>1, <1>2 DEF Registered
<1> DEFINE r == entries[Lower[t]].range
<1>5. DOMAIN byName' \subseteq DOMAIN byName
  BY DEF Remove, Restrict
<1>6. ASSUME Selected[n] \in DOMAIN byName
      PROVE  /\ Selected[n] \in DOMAIN byName'
             /\ byName'[Selected[n]] = byName[Selected[n]]
             /\ byName[Selected[n]] \in DOMAIN byIP'
             /\ byIP'[byName[Selected[n]]] = Selected[n]
  <2> DEFINE ip == byName[Selected[n]]
  <2>1. ip \in Nat /\ ip \in DOMAIN byIP /\ byIP[ip] = Selected[n]
    BY <1>6 DEF RegInv, RegTypeOK, NamesMatchIPs
  <2>2. Registered(n) /\ Contains(RangeOf(n), ip)
    BY <1>6 DEF SelectedInRange
  <2>3. r \in CIDR /\ RangeOf(n) \in CIDR /\ ~Overlap(r, RangeOf(n))
    BY <1>1, <1>2, <2>2 DEF RegInv, RegTypeOK, Entry, RangesDisjoint, Registered, RangeOf
  <2>4. ~Contains(r, ip)
    BY <2>1, <2>2, <2>3, SharedAddressOverlaps
  <2>5. ip \in DOMAIN byIP' /\ byIP'[ip] = byIP[ip]
    BY <2>1, <2>4 DEF Remove, Restrict, Scrubbed
  <2>6. Selected[n] \notin {byIP[a] : a \in Scrubbed(r)}
    <3>1. ASSUME NEW a \in Scrubbed(r), byIP[a] = Selected[n] PROVE FALSE
      BY <2>4, <3>1 DEF Scrubbed, RegInv, NamesMatchIPs
    <3> QED
      BY <3>1
  <2>7. Selected[n] \in DOMAIN byName' /\ byName'[Selected[n]] = ip
    BY <1>6, <2>6 DEF Remove, Restrict
  <2> QED
    BY <2>1, <2>5, <2>7
<1> QED
  BY <1>3, <1>4, <1>5, <1>6

LEMMA InRangeKept ==
  ASSUME RegInv, SelectedInRange, RegistryMove
  PROVE  SelectedInRange'
<1>1. CASE UNCHANGED <<entries, byName, byIP>>
  BY <1>1 DEF SelectedInRange, Registered, RangeOf
<1>2. ASSUME NEW t \in Tailnet, Remove(t) PROVE SelectedInRange'
  <2> SUFFICES ASSUME NEW n \in Tailnet, Selected[n] \in DOMAIN byName'
               PROVE  (Registered(n) /\ Contains(RangeOf(n), byName[Selected[n]]))'
    BY DEF SelectedInRange
  <2>1. Selected[n] \in DOMAIN byName
    BY <1>2 DEF Remove, Restrict
  <2>2. Registered(n) /\ Contains(RangeOf(n), byName[Selected[n]])
    BY <2>1 DEF SelectedInRange
  <2>3. n # t
    <3> SUFFICES ASSUME n = t PROVE FALSE
      OBVIOUS
    <3>1. byName[Selected[n]] \in Scrubbed(entries[Lower[t]].range)
          /\ byIP[byName[Selected[n]]] = Selected[n]
      BY <2>1, <2>2 DEF RegInv, NamesMatchIPs, Scrubbed, RangeOf
    <3>2. Selected[n] \notin DOMAIN byName'
      BY <1>2, <3>1 DEF Remove, Restrict
    <3> QED
      BY <3>2
  <2> QED
    BY <1>2, <2>1, <2>2, <2>3, RemoveSparesOthers DEF RangeOf
<1>3. ASSUME NEW t \in Tailnet, NEW r \in CIDR, NEW z \in Zone, Add(t, r, z, z)
      PROVE  SelectedInRange'
  <2>1. /\ UNCHANGED byName
        /\ \A k \in DOMAIN entries : k \in DOMAIN entries' /\ entries'[k] = entries[k]
    BY <1>3 DEF Add, Put
  <2> QED
    BY <2>1 DEF SelectedInRange, Registered, RangeOf
<1>4. ASSUME NEW m \in Tailnet, NEW f \in Hosts[m], Allocate(Lower[m], f)
      PROVE  SelectedInRange'
  <2> SUFFICES ASSUME NEW n \in Tailnet, Selected[n] \in DOMAIN byName'
               PROVE  (Registered(n) /\ Contains(RangeOf(n), byName[Selected[n]]))'
    BY DEF SelectedInRange
  <2>1. \A k \in DOMAIN entries : entries[k] \in Entry
    BY DEF RegInv, RegTypeOK
  <2>2. /\ Lower[m] \in DOMAIN entries /\ CanTake(entries[Lower[m]])
        /\ DOMAIN entries' = DOMAIN entries
        /\ \A k \in DOMAIN entries : entries'[k].range = entries[k].range
    BY <1>4, <2>1 DEF Allocate, Mint, Entry
  <2>3. CASE Selected[n] = f
    <3>1. m = n
      BY <2>3, DaemonAssumption
    <3>2. byName'[f] = NextIP(entries[Lower[m]])
      BY <1>4 DEF Allocate, Mint, Put
    <3>3. Contains(entries[Lower[m]].range, NextIP(entries[Lower[m]]))
      BY <2>2, NextIPIsFresh DEF RegInv
    <3> QED
      BY <2>2, <2>3, <3>1, <3>2, <3>3 DEF Registered, RangeOf
  <2>4. CASE Selected[n] # f
    <3>1. Selected[n] \in DOMAIN byName /\ byName'[Selected[n]] = byName[Selected[n]]
      BY <1>4, <2>4 DEF Allocate, Mint, Put
    <3> QED
      BY <2>2, <3>1 DEF SelectedInRange, Registered, RangeOf
  <2> QED
    BY <2>3, <2>4
<1> QED
  BY <1>1, <1>2, <1>3, <1>4 DEF RegistryMove

(* The line of a listed tailnet outlives what is done for other tailnets.  *)
LEMMA LineKept ==
  ASSUME RegInv, SelectedInRange, RegistryMove, UNCHANGED hosts,
         NEW n \in Tailnet, n \in live, HasLine(n)
  PROVE  HasLine(n)'
<1> DEFINE Line == \E ip \in DOMAIN byIP :
             <<n, Selected[n], ip>> \in hosts /\ byIP[ip] = Selected[n]
<1>1. CASE UNCHANGED <<entries, byName, byIP>>
  BY <1>1 DEF HasLine, AllocFails
<1>2. ASSUME NEW t \in Tailnet \ live, Remove(t) PROVE HasLine(n)'
  <2>1. /\ Registered(n)' <=> Registered(n)
        /\ Registered(n) => entries'[Lower[n]] = entries[Lower[n]]
        /\ Selected[n] \in DOMAIN byName' <=> Selected[n] \in DOMAIN byName
        /\ Selected[n] \in DOMAIN byName =>
             /\ byName[Selected[n]] \in DOMAIN byIP'
             /\ byIP'[byName[Selected[n]]] = Selected[n]
    BY <1>2, RemoveSparesOthers
  <2>2. CASE AllocFails(Lower[n], Selected[n])
    BY <2>1, <2>2 DEF AllocFails, Registered, HasLine
  <2>3. CASE Line
    <3>1. PICK ip \in DOMAIN byIP : <<n, Selected[n], ip>> \in hosts /\ byIP[ip] = Selected[n]
      BY <2>3
    <3>2. Selected[n] \in DOMAIN byName /\ byName[Selected[n]] = ip
      BY <3>1 DEF RegInv, NamesMatchIPs
    <3> QED
      BY <2>1, <3>1, <3>2 DEF HasLine
  <2> QED
    BY <2>2, <2>3 DEF HasLine
<1>3. ASSUME NEW t \in Tailnet \ live, NEW r \in CIDR, NEW z \in Zone, Add(t, r, z, z)
      PROVE  HasLine(n)'
  <2>1. Lower[n] # Lower[t]
    BY DaemonAssumption
  <2>2. /\ UNCHANGED <<byName, byIP>>
        /\ DOMAIN entries' = DOMAIN entries \cup {Lower[t]}
        /\ \A k \in DOMAIN entries : entries'[k] = entries[k]
    BY <1>3 DEF Add, Put
  <2> QED
    BY <2>1, <2>2 DEF HasLine, AllocFails
<1>4. ASSUME NEW m \in Tailnet, NEW f \in Hosts[m], Allocate(Lower[m], f)
      PROVE  HasLine(n)'
  <2>1. /\ Lower[m] \in DOMAIN entries /\ CanTake(entries[Lower[m]])
        /\ DOMAIN entries' = DOMAIN entries
        /\ \A k \in DOMAIN entries \ {Lower[m]} : entries'[k] = entries[k]
        /\ DOMAIN byName' = DOMAIN byName \cup {f}
    BY <1>4 DEF Allocate, Mint, Put
  <2>2. CASE AllocFails(Lower[n], Selected[n])
    <3>1. m # n
      BY <2>1, <2>2 DEF AllocFails
    <3>2. Selected[n] # f /\ Lower[n] # Lower[m]
      BY <3>1, DaemonAssumption
    <3> QED
      BY <2>1, <2>2, <3>2 DEF AllocFails, HasLine
  <2>3. CASE Line
    <3>1. \A ip \in DOMAIN byIP : ip \in DOMAIN byIP' /\ byIP'[ip] = byIP[ip]
      BY <1>4, <2>1, NextIPIsFresh DEF Allocate, Mint, Put, RegInv
    <3> QED
      BY <2>3, <3>1 DEF HasLine
  <2> QED
    BY <2>2, <2>3 DEF HasLine
<1> QED
  BY <1>1, <1>2, <1>3, <1>4 DEF RegistryMove

(* applySelections leaves no line missing but those of the tailnets it     *)
(* passes over, provided it can write the block and finds the entries:     *)
(* allocate compares the name as it is spelled.                            *)
LEMMA ApplyCompletes ==
  ASSUME \A n \in Tailnet : Lower[n] = n, RegInv, live \subseteq Tailnet,
         SelectedInRange, ApplySelections
  PROVE  /\ SelectedInRange'
         /\ ~unwritten' => \A n \in Ready \ missed' : HasLine(n)'
<1>0. PICK out \in SUBSET Ready :
        /\ Seed(out) /\ missed' = out
        /\ ~unwritten' => hosts' = {<<n, Selected[n], byName'[Selected[n]]>> :
                                      n \in {m \in Ready \ out : Selected[m] \in DOMAIN byName'}}
  BY DEF ApplySelections, WriteBlock
<1>1. RegInv' /\ Seeded(out)
  BY <1>0, SeedKeepsRegInv, SeedFacts DEF RegInv
<1>2. ASSUME NEW n \in Tailnet, Selected[n] \in DOMAIN byName'
      PROVE  (Registered(n) /\ Contains(RangeOf(n), byName[Selected[n]]))'
  <2>1. CASE Selected[n] \in DOMAIN byName
    BY <1>1, <2>1 DEF Seeded, SelectedInRange, Registered, RangeOf
  <2>2. CASE Selected[n] \notin DOMAIN byName
    <3>1. PICK m \in Minting(out) : Selected[m] = Selected[n]
      BY <1>1, <1>2, <2>2 DEF Seeded
    <3>2. m = n
      BY <1>1, <3>1, DaemonAssumption DEF Seeded
    <3> QED
      BY <1>1, <3>1, <3>2 DEF Seeded, Registered, RangeOf
  <2> QED
    BY <2>1, <2>2
<1>3. ASSUME NEW n \in Ready \ out, ~unwritten' PROVE HasLine(n)'
  <2>1. n \in Tailnet /\ Lower[n] = n
    BY DEF Ready
  <2>2. CASE Selected[n] \in DOMAIN byName'
    <3>1. <<n, Selected[n], byName'[Selected[n]]>> \in hosts'
      <4>1. n \in {m \in Ready \ out : Selected[m] \in DOMAIN byName'}
        BY <1>3, <2>2
      <4> QED
        BY <1>0, <1>3, <4>1
    <3>2. byName'[Selected[n]] \in DOMAIN byIP' /\ byIP'[byName'[Selected[n]]] = Selected[n]
      BY <1>1, <2>2 DEF RegInv, NamesMatchIPs
    <3> QED
      BY <3>1, <3>2 DEF HasLine
  <2>3. CASE Selected[n] \notin DOMAIN byName'
    <3>1. n \notin Minting(out) /\ Selected[n] \notin DOMAIN byName
      BY <1>1, <2>3 DEF Seeded
    <3>2. n \in DOMAIN entries => ~CanTake(entries[n])
      BY <1>3, <3>1 DEF Minting
    <3>3. DOMAIN entries' = DOMAIN entries /\ (n \in DOMAIN entries => entries'[n] = entries[n])
      BY <1>1, <3>1 DEF Seeded
    <3> QED
      BY <2>1, <2>3, <3>2, <3>3 DEF HasLine, AllocFails
  <2> QED
    BY <2>2, <2>3
<1> QED
  BY <1>0, <1>2, <1>3 DEF SelectedInRange

(* Whatever becomes ready, and whoever owes a line and has not written it, *)
(* leaves somebody who owes it.                                            *)
LEMMA OwedKept ==
  ASSUME DaemonInv, NotifiedOnce, [DaemonNext]_vars, ~Applies,
         NEW n \in Tailnet, n \in (Ready \ dropped)'
  PROVE  Owed(n)' \/ (n \in Ready \ dropped /\ ~Owed(n))
<1> USE DEF Owed, Ready
<1>0. op \in Operation /\ OpStands
  BY DEF DaemonInv, DaemonTypeOK
<1>1. CASE \/ BeginSync \/ SyncStop \/ SyncStopped \/ SyncStart \/ SyncStarted
  BY <1>0, <1>1 DEF BeginSync, SyncStop, Unlist, SyncStopped, Goto, SyncStart, SyncStarted,
     NoOp, Operation, OpStands
<1>2. CASE Unregister \/ Register \/ Open \/ OpLocksMu
  BY <1>0, <1>2 DEF Unregister, Register, Open, OpLocksMu, Operation
<1>3. CASE OpenBusy \/ OpenFails
  BY <1>0, <1>3 DEF OpenBusy, OpenFails, FailStart, Operation
<1>4. CASE Close
  BY <1>0, <1>4 DEF Close, CloseInstance, Operation
<1>5. CASE List
  BY <1>0, <1>5 DEF List, Operation
<1>6. CASE BeginRestart
  BY <1>0, <1>6 DEF BeginRestart, Idle, OpStands
<1>7. ASSUME NEW m \in Tailnet, Poll(m) PROVE Owed(n)' \/ (n \in Ready \ dropped /\ ~Owed(n))
  BY <1>7 DEF Poll, NotifiedOnce
<1>8. ASSUME NEW m \in Tailnet, Retry(m) PROVE Owed(n)' \/ (n \in Ready \ dropped /\ ~Owed(n))
  BY <1>0, <1>8 DEF Retry, Idle, OpStands
<1>9. ASSUME NEW m \in Tailnet,
             \/ Push(m) \/ NodeUp(m) \/ NodeDown(m) \/ DNSAnswers(m)
             \/ \E k \in {"watch", "netmap"} : CallbackLocksMu(<<k, m>>)
      PROVE  Owed(n)' \/ (n \in Ready \ dropped /\ ~Owed(n))
  BY <1>9 DEF Push, NodeUp, NodeDown, DNSAnswers, daemonVars, CallbackLocksMu
<1>10. ASSUME NEW d \in Device, KernelReleases(d)
       PROVE  Owed(n)' \/ (n \in Ready \ dropped /\ ~Owed(n))
  BY <1>10 DEF KernelReleases
<1>11. CASE UNCHANGED vars
  BY <1>11 DEF vars, daemonVars
<1> QED
  BY <1>1, <1>2, <1>3, <1>4, <1>5, <1>6, <1>7, <1>8, <1>9, <1>10, <1>11
     DEF DaemonNext, OpStep, Watch, Applies

(* Only an apply passes a tailnet over; its stop ends that.                *)
LEMMA MissedKept ==
  ASSUME [DaemonNext]_vars, ~Applies
  PROVE  missed \cap seen' \subseteq missed'
<1>1. CASE Close
  BY <1>1 DEF Close, CloseInstance
<1>2. ASSUME ~Close PROVE UNCHANGED missed
  BY <1>2 DEF vars, daemonVars, DaemonNext, OpStep, Watch, Applies, BeginSync, BeginRestart,
     SyncStop, Unlist, SyncStopped, Goto, Unregister, SyncStart, SyncStarted, Register,
     OpenBusy, OpenFails, FailStart, List, OpLocksMu, Open, Poll, CallbackLocksMu,
     Push, Retry, NodeUp, NodeDown, DNSAnswers, KernelReleases
<1> QED
  BY <1>1, <1>2

LEMMA NotifiedOnceStep ==
  ASSUME NotifiedOnce, [DaemonNext]_vars
  PROVE  NotifiedOnce'
<1> USE DEF NotifiedOnce
<1>1. CASE Close
  BY <1>1 DEF Close, CloseInstance
<1>2. ASSUME NEW n \in Tailnet, Poll(n) PROVE NotifiedOnce'
  BY <1>2 DEF Poll
<1>3. ASSUME ~Close, \A n \in Tailnet : ~Poll(n)
      PROVE  UNCHANGED <<notified, seen, dropped>>
  BY <1>3 DEF vars, daemonVars, DaemonNext, OpStep, Watch, BeginSync, BeginRestart,
     SyncStop, Unlist, SyncStopped, Goto, Unregister, SyncStart, SyncStarted, Register,
     OpenBusy, OpenFails, FailStart, List, OpLocksMu, OpApplies, EndOp, Open,
     CallbackLocksMu, CallbackApplies, Push, Retry, NodeUp, NodeDown, DNSAnswers,
     KernelReleases
<1> QED
  BY <1>1, <1>2, <1>3

LEMMA LinesInvStep ==
  ASSUME \A n \in Tailnet : Lower[n] = n, DaemonInv, LinesInv, [DaemonNext]_vars
  PROVE  LinesInv'
<1>0. live \subseteq Tailnet /\ live' \subseteq Tailnet
  BY StepKeepsInv DEF DaemonInv, DaemonTypeOK
<1>1. NotifiedOnce'
  BY NotifiedOnceStep DEF LinesInv
<1> SUFFICES ASSUME ~shared' PROVE SelectedInRange' /\ LineOrOwed'
  BY <1>1 DEF LinesInv, LineOrOwed
<1>s. ~shared /\ RegInv /\ SelectedInRange /\ LineOrOwed
  BY SharedStays DEF DaemonInv, RegSound, LinesInv
<1>2. CASE Applies
  <2>1. ApplySelections /\ UNCHANGED <<live, seen, dropped>>
    BY <1>2 DEF Applies, OpApplies, EndOp, CallbackApplies
  <2>2. SelectedInRange' /\ (~unwritten' => \A n \in Ready \ missed' : HasLine(n)')
    BY <1>0, <1>s, <2>1, ApplyCompletes
  <2> QED
    BY <2>1, <2>2 DEF LineOrOwed, Ready
<1>3. CASE ~Applies
  <2>1. RegistryMove /\ UNCHANGED <<hosts, unwritten>>
    BY <1>3, StepMovesRegistry
  <2>2. SelectedInRange'
    BY <1>s, <2>1, InRangeKept
  <2>3. ASSUME ~unwritten', NEW n \in ((Ready \ dropped) \ missed)'
        PROVE  HasLine(n)' \/ Owed(n)'
    <3>1. n \in Tailnet /\ n \in (Ready \ dropped)'
      BY <1>0 DEF Ready
    <3>2. Owed(n)' \/ (n \in Ready \ dropped /\ ~Owed(n))
      BY <1>3, <3>1, OwedKept DEF LinesInv
    <3>3. n \notin missed
      BY <1>3, MissedKept DEF Ready
    <3>4. n \in Ready \ dropped /\ ~Owed(n) => n \in live /\ HasLine(n)
      BY <1>s, <2>1, <2>3, <3>3 DEF LineOrOwed, Ready
    <3> QED
      BY <1>s, <2>1, <3>1, <3>2, <3>4, LineKept
  <2> QED
    BY <2>2, <2>3 DEF LineOrOwed
<1> QED
  BY <1>2, <1>3

(* At rest every selected host of a tailnet whose node has stayed Running  *)
(* is in the hosts block, whatever order starts, stops, polls and          *)
(* callbacks came in, but where the last apply had to pass the tailnet     *)
(* over or could not write; for names in lower case, the only ones that    *)
(* get an address.                                                         *)
THEOREM DaemonHostsComplete ==
  ASSUME \A n \in Tailnet : Lower[n] = n
  PROVE  DaemonSpec => []HostsCompleteAtFirst
<1>1. DaemonInit => LinesInv
  BY DEF DaemonInit, RegInit, LinesInv, SelectedInRange, NotifiedOnce, LineOrOwed, Ready
<1>2. DaemonInv /\ LinesInv /\ [DaemonNext]_vars => LinesInv'
  BY LinesInvStep
<1>3. DaemonInv /\ LinesInv => HostsCompleteAtFirst
  BY DEF DaemonInv, OpStands, LinesInv, LineOrOwed, Owed, HostsCompleteAtFirst, AtRest, Idle
<1> QED
  BY <1>1, <1>2, <1>3, DaemonInvariant, PTL DEF DaemonSpec
=============================================================================
