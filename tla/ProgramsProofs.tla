--------------------------- MODULE ProgramsProofs ---------------------------
(***************************************************************************)
(* Proofs about the programs of module Programs: whatever the names,       *)
(* routes, machines, entries and listeners are, ts-router and              *)
(* ts-unplug-proxy lead a request to the host it names, the hosts file     *)
(* keeps what others wrote, and ts-plug leaves no command behind.          *)
(***************************************************************************)
EXTENDS Programs, FiniteSetTheorems, SequenceTheorems, WellFoundedInduction, TLAPS

LEMMA PlugInit_Inv == PlugInit => PlugInv
<1> SUFFICES ASSUME PlugInit PROVE PlugInv
  OBVIOUS
<1>1. reading \in BOOLEAN /\ waited \in BOOLEAN /\ pending \in BOOLEAN /\ cancelled \in BOOLEAN
  BY DEF PlugInit
<1>2. sent \in 0 .. MaxSignals
  BY PlugAssumption DEF PlugInit
<1>3. listener \in [Listener -> {"off", "opening", "open", "closed", "failed"}]
  BY DEF PlugInit
<1>4. \A l \in Listener : listener[l] = "off"
  BY DEF PlugInit
<1> QED
  BY <1>1, <1>2, <1>3, <1>4 DEF PlugInit, PlugInv, PlugTypeOK, CleanEndLeavesNoChild

(* The command is dead for good, so that what cmd.Wait has seen stays      *)
(* true; main ends "clean" only when the goroutine has left Wait.          *)
LEMMA PlugNext_Inv == PlugInv /\ [PlugNext]_plugVars => PlugInv'
<1> SUFFICES ASSUME PlugInv, [PlugNext]_plugVars PROVE PlugInv'
  OBVIOUS
<1> USE PlugAssumption DEF PlugInv, PlugTypeOK, CleanEndLeavesNoChild, Alive, Ends
<1>1. CASE ChildExits \/ LongLine \/ ChildBlocks \/ KillChild
  <2>1. CASE ChildExits BY <2>1 DEF ChildExits
  <2>2. CASE LongLine BY <2>2 DEF LongLine
  <2>3. CASE ChildBlocks BY <2>3 DEF ChildBlocks
  <2>4. CASE KillChild BY <2>4 DEF KillChild
  <2> QED BY <1>1, <2>1, <2>2, <2>3, <2>4
<1>2. CASE Signal
  BY <1>2 DEF Signal
<1>3. CASE WaitReturns
  BY <1>3 DEF WaitReturns
<1>4. CASE HandOver
  BY <1>4 DEF HandOver
<1>5. CASE TakeSignal
  BY <1>5 DEF TakeSignal
<1>6. CASE UpSucceeds
  BY <1>6 DEF UpSucceeds
<1>7. CASE UpFails
  BY <1>7 DEF UpFails
<1>8. CASE \E l \in Listener : Opens(l) \/ Fails(l) \/ Closes(l)
  <2> PICK l \in Listener : Opens(l) \/ Fails(l) \/ Closes(l)
    BY <1>8
  <2>1. main # "starting"
    BY DEF Opens, Fails, Closes, MayFail
  <2>2. cancelled' \in BOOLEAN
    BY DEF Opens, Fails, Closes
  <2>3. listener' \in [Listener -> {"off", "opening", "open", "closed", "failed"}]
    BY DEF Opens, Fails, Closes
  <2>4. UNCHANGED <<main, status, child, reading, at, waited, pending, sent>>
    BY DEF Opens, Fails, Closes
  <2> QED
    BY <2>1, <2>2, <2>3, <2>4
<1>9. CASE UNCHANGED plugVars
  BY <1>9 DEF plugVars
<1> QED
  BY <1>1, <1>2, <1>3, <1>4, <1>5, <1>6, <1>7, <1>8, <1>9 DEF PlugNext

-----------------------------------------------------------------------------
(* ts-router.  The routes are accepted, what the client has been told or   *)
(* given is what they say, and only one that was sent here connects.       *)
RouterInv ==
  /\ Accepted(routes)
  /\ \A r \in routes : r.sni \in RName \cup {NoSNI} /\ r.host \in RName
  /\ visit.at \in {"idle", "answered", "connected", "dialed"}
  /\ visit.at # "idle" => visit.q \in RName
  /\ visit.at = "answered" => visit.ip = Answer(visit.q)
  /\ visit.at \in {"connected", "dialed"} =>
       visit.routes = Chosen(visit.listen, Fold[visit.q]) /\ Answer(visit.q) = LocalIP
  /\ visit.at = "dialed" => visit.to # LocalIP /\ \E r \in visit.routes : visit.to \in Targets(r)

LEMMA RouterInit_Inv == RouterInit \/ (routes = {} /\ visit = [at |-> "idle"]) => RouterInv
<1>1. CASE RouterInit
  BY <1>1, RouterAssumption DEF RouterInit, RouterInv
<1>2. CASE routes = {} /\ visit = [at |-> "idle"]
  BY <1>2 DEF RouterInv, Accepted
<1> QED
  BY <1>1, <1>2

LEMMA RouterNext_Inv == RouterInv /\ [RouterNext]_routerVars => RouterInv'
<1> SUFFICES ASSUME RouterInv, [RouterNext]_routerVars PROVE RouterInv'
  OBVIOUS
<1>1. routes' = routes
  BY DEF RouterNext, routerVars, Lookup, Visit, Dial, Leave
<1>2. /\ Accepted(routes)' /\ (\A r \in routes : r.sni \in RName \cup {NoSNI} /\ r.host \in RName)'
      /\ \A q : Answer(q)' = Answer(q)
      /\ \A l, n : Chosen(l, n)' = Chosen(l, n)
  BY <1>1 DEF RouterInv, Accepted, Answer, Chosen
<1>3. CASE \E q \in RName : Lookup(q)
  <2> PICK q \in RName : Lookup(q)
    BY <1>3
  <2> QED
    BY <1>2 DEF Lookup, RouterInv
<1>4. CASE \E r \in routes : Visit(r.listen)
  <2> PICK r \in routes : Visit(r.listen)
    BY <1>4
  <2>1. visit'.at = "connected" /\ visit'.q = visit.q /\ visit'.q \in RName
    BY DEF Visit, RouterInv
  <2>2. visit'.routes = Chosen(visit'.listen, Fold[visit'.q]) /\ Answer(visit'.q) = LocalIP
    BY DEF Visit, RouterInv
  <2> QED
    BY <1>2, <2>1, <2>2 DEF RouterInv
<1>5. CASE Leave
  BY <1>2, <1>5 DEF Leave, RouterInv
<1>6. CASE Dial
  <2> PICK r \in visit.routes : \E t \in Targets(r) \ {NoAnswer} :
             /\ t # LocalIP
             /\ visit' = [at |-> "dialed", q |-> visit.q, listen |-> visit.listen,
                          routes |-> visit.routes, to |-> t]
    BY <1>6 DEF Dial
  <2> PICK t \in Targets(r) \ {NoAnswer} :
             /\ t # LocalIP
             /\ visit' = [at |-> "dialed", q |-> visit.q, listen |-> visit.listen,
                          routes |-> visit.routes, to |-> t]
    OBVIOUS
  <2>1. visit.at = "connected"
    BY <1>6 DEF Dial
  <2>2. /\ visit'.at = "dialed" /\ visit'.q = visit.q /\ visit'.listen = visit.listen
        /\ visit'.routes = visit.routes /\ visit'.to = t
    OBVIOUS
  <2> QED
    BY <1>2, <2>1, <2>2 DEF RouterInv, Targets
<1>7. CASE UNCHANGED routerVars
  BY <1>2, <1>7 DEF routerVars, RouterInv, Targets
<1> QED
  BY <1>3, <1>4, <1>5, <1>6, <1>7 DEF RouterNext

(* On one listener a plain route is alone, and a server name names one.    *)
LEMMA ChosenByPlain ==
  ASSUME Accepted(routes), NEW r \in routes, r.sni = NoSNI, NEW sni
  PROVE  Chosen(r.listen, sni) = {r}
<1>1. Group(routes, r.listen) = {r}
  BY DEF Accepted, Group
<1>2. Cardinality({r}) = 1
  BY FS_Singleton
<1> QED
  BY <1>1, <1>2 DEF Chosen

LEMMA ChosenByName ==
  ASSUME Accepted(routes), NEW r \in routes, r.sni # NoSNI
  PROVE  Chosen(r.listen, r.sni) = {r}
<1>1. ~ \A s \in Group(routes, r.listen) : s.sni = NoSNI
  BY DEF Group
<1>2. {s \in Group(routes, r.listen) : s.sni = r.sni} = {r}
  BY DEF Accepted, Group
<1> QED
  BY <1>1, <1>2 DEF Chosen

LEMMA ChosenIsOne ==
  ASSUME Accepted(routes), NEW listen, NEW sni, sni # NoSNI
  PROVE  /\ Cardinality(Chosen(listen, sni)) <= 1
         /\ \A r \in Chosen(listen, sni) : r.sni # NoSNI => r.sni = sni
<1> DEFINE group == Group(routes, listen)
<1>1. CASE Cardinality(group) = 1 /\ \A r \in group : r.sni = NoSNI
  BY <1>1 DEF Chosen
<1>2. CASE ~(Cardinality(group) = 1 /\ \A r \in group : r.sni = NoSNI)
  <2>1. Chosen(listen, sni) = {r \in group : r.sni = sni}
    BY <1>2 DEF Chosen
  <2>2. CASE Chosen(listen, sni) = {}
    BY <2>2, FS_EmptySet
  <2>3. CASE Chosen(listen, sni) # {}
    <3> PICK r \in Chosen(listen, sni) : TRUE
      BY <2>3
    <3>1. Chosen(listen, sni) = {r}
      BY <2>1 DEF Accepted, Group
    <3> QED
      BY <2>1, <3>1, FS_Singleton
  <2> QED
    BY <2>2, <2>3
<1> QED
  BY <1>1, <1>2

LEMMA RouterServes == RouterInv => RoutedNames /\ OneUpstream /\ NoFeedback
<1> SUFFICES ASSUME RouterInv PROVE RoutedNames /\ OneUpstream /\ NoFeedback
  OBVIOUS
<1>1. ASSUME visit.at = "answered", visit.ip = LocalIP
      PROVE  \E r \in routes :
               /\ Fold[LocalName(r)] = Fold[visit.q]
               /\ LowerCase(r.sni) => Chosen(r.listen, Fold[visit.q]) = {r}
  <2>1. Answer(visit.q) = LocalIP
    BY <1>1 DEF RouterInv
  <2>2. Fold[visit.q] \in LocalNames(routes)
    BY <2>1, RouterAssumption DEF Answer
  <2> PICK r \in routes : Fold[LocalName(r)] = Fold[visit.q]
    BY <2>2 DEF LocalNames
  <2>3. ASSUME LowerCase(r.sni) PROVE Chosen(r.listen, Fold[visit.q]) = {r}
    <3>1. CASE r.sni = NoSNI
      BY <3>1, ChosenByPlain DEF RouterInv
    <3>2. CASE r.sni # NoSNI
      <4>1. Fold[visit.q] = r.sni
        BY <2>3, <3>2 DEF LowerCase, LocalName
      <4> QED
        BY <3>2, <4>1, ChosenByName DEF RouterInv
    <3> QED
      BY <3>1, <3>2
  <2> QED
    BY <2>3
<1>2. ASSUME visit.at \in {"connected", "dialed"}
      PROVE  /\ Cardinality(visit.routes) <= 1
             /\ \A r \in visit.routes : r.sni # NoSNI => Fold[r.sni] = Fold[visit.q]
  <2>1. visit.routes = Chosen(visit.listen, Fold[visit.q]) /\ visit.q \in RName
    BY <1>2 DEF RouterInv
  <2>2. Fold[visit.q] # NoSNI /\ Fold[Fold[visit.q]] = Fold[visit.q]
    BY <2>1, RouterAssumption
  <2> QED
    BY <2>1, <2>2, ChosenIsOne DEF RouterInv
<1>3. NoFeedback
  BY DEF RouterInv, NoFeedback
<1> QED
  BY <1>1, <1>2, <1>3 DEF RoutedNames, OneUpstream
-----------------------------------------------------------------------------
(* ts-unplug-proxy.  Suffixes of names, label by label.                    *)
LEMMA SuffixIndexed ==
  ASSUME NEW z \in Seq(STRING), NEW n \in Seq(STRING)
  PROVE  In(z, n) <=> /\ Len(z) <= Len(n)
                      /\ \A i \in 1 .. Len(z) : z[i] = n[Len(n) - Len(z) + i]
<1> DEFINE y == Reverse(z)
           m == Reverse(n)
<1>1. /\ y \in Seq(STRING) /\ Len(y) = Len(z) /\ \A i \in 1 .. Len(z) : y[i] = z[Len(z) - i + 1]
      /\ m \in Seq(STRING) /\ Len(m) = Len(n) /\ \A i \in 1 .. Len(n) : m[i] = n[Len(n) - i + 1]
  BY DEF Reverse
<1>2. In(z, n) <=> Len(y) <= Len(m) /\ SubSeq(y, 1, Len(y)) = SubSeq(m, 1, Len(y))
  BY DEF In, IsSuffix, IsPrefix
<1> HIDE DEF y, m
<1>3. ASSUME Len(z) <= Len(n)
      PROVE  SubSeq(y, 1, Len(y)) = SubSeq(m, 1, Len(y)) <=> \A i \in 1 .. Len(z) : y[i] = m[i]
  BY <1>1, <1>3
<1>4. ASSUME Len(z) <= Len(n)
      PROVE  (\A i \in 1 .. Len(z) : y[i] = m[i])
                <=> \A i \in 1 .. Len(z) : z[i] = n[Len(n) - Len(z) + i]
  <2>1. ASSUME \A i \in 1 .. Len(z) : y[i] = m[i], NEW i \in 1 .. Len(z)
        PROVE  z[i] = n[Len(n) - Len(z) + i]
    <3> DEFINE j == Len(z) - i + 1
    <3>1. j \in 1 .. Len(z) /\ Len(z) - j + 1 = i /\ Len(n) - j + 1 = Len(n) - Len(z) + i
      OBVIOUS
    <3>2. j \in 1 .. Len(n)
      BY <1>4, <3>1
    <3> QED
      BY <1>1, <2>1, <3>1, <3>2, ZenonT(60)
  <2>2. ASSUME \A i \in 1 .. Len(z) : z[i] = n[Len(n) - Len(z) + i], NEW i \in 1 .. Len(z)
        PROVE  y[i] = m[i]
    <3> DEFINE j == Len(z) - i + 1
    <3>1. j \in 1 .. Len(z) /\ Len(n) - i + 1 = Len(n) - Len(z) + j /\ i \in 1 .. Len(n)
      BY <1>4
    <3> QED
      BY <1>1, <2>2, <3>1
  <2> QED
    BY <2>1, <2>2
<1> QED
  BY <1>1, <1>2, <1>3, <1>4

(* A name is what is left without the suffix, and the suffix.              *)
LEMMA ShortAndSuffix ==
  ASSUME NEW z \in Seq(STRING), NEW n \in Seq(STRING), In(z, n)
  PROVE  /\ n = ShortOf(n, z) \o z
         /\ ShortOf(n, z) \in Seq(STRING) /\ Len(ShortOf(n, z)) = Len(n) - Len(z)
<1>1. /\ Len(z) <= Len(n)
      /\ \A i \in 1 .. Len(z) : z[i] = n[Len(n) - Len(z) + i]
  BY SuffixIndexed
<1> DEFINE s == ShortOf(n, z)
<1>2. s \in Seq(STRING) /\ Len(s) = Len(n) - Len(z) /\ \A i \in 1 .. Len(s) : s[i] = n[i]
  BY <1>1 DEF ShortOf
<1> HIDE DEF s
<1>3. s \o z \in Seq(STRING) /\ Len(s \o z) = Len(n)
  BY <1>2
<1>4. ASSUME NEW i \in 1 .. Len(n) PROVE (s \o z)[i] = n[i]
  <2>1. CASE i <= Len(s)
    BY <1>2, <2>1
  <2>2. CASE i > Len(s)
    <3>1. (s \o z)[i] = z[i - Len(s)] /\ i - Len(s) \in 1 .. Len(z)
      BY <1>2, <2>2
    <3>2. Len(n) - Len(z) + (i - Len(s)) = i
      BY <1>1, <1>2
    <3> QED
      BY <1>1, <3>1, <3>2
  <2> QED
    BY <1>2, <2>1, <2>2
<1>5. s \o z = n
  <2> DEFINE t == s \o z
  <2>1. t \in Seq(STRING) /\ Len(t) = Len(n) /\ \A i \in 1 .. Len(n) : t[i] = n[i]
    BY <1>3, <1>4
  <2> HIDE DEF t
  <2>2. t = n
    BY <2>1
  <2> QED
    BY <2>2 DEF t
<1> QED
  BY <1>2, <1>5 DEF s

LEMMA SuffixTransitive ==
  ASSUME NEW x \in Seq(STRING), NEW y \in Seq(STRING), NEW z \in Seq(STRING), In(x, y), In(y, z)
  PROVE  In(x, z)
<1>1. /\ Len(x) <= Len(y) /\ \A i \in 1 .. Len(x) : x[i] = y[Len(y) - Len(x) + i]
      /\ Len(y) <= Len(z) /\ \A i \in 1 .. Len(y) : y[i] = z[Len(z) - Len(y) + i]
  BY SuffixIndexed
<1>2. ASSUME NEW i \in 1 .. Len(x) PROVE x[i] = z[Len(z) - Len(x) + i]
  <2>1. Len(y) - Len(x) + i \in 1 .. Len(y)
    BY <1>1
  <2>2. Len(z) - Len(y) + (Len(y) - Len(x) + i) = Len(z) - Len(x) + i
    OBVIOUS
  <2> QED
    BY <1>1, <2>1, <2>2
<1> QED
  BY <1>1, <1>2, SuffixIndexed

LEMMA SuffixAntisymmetric ==
  ASSUME NEW x \in Seq(STRING), NEW y \in Seq(STRING), In(x, y), In(y, x)
  PROVE  x = y
<1>1. Len(x) = Len(y) /\ \A i \in 1 .. Len(x) : x[i] = y[Len(y) - Len(x) + i]
  BY SuffixIndexed
<1> QED
  BY <1>1

(* The status of a request holds machines that were there together, and    *)
(* the dial is one of what resolveAddr may find.                           *)
Apart(M) == M \subseteq Machine /\ \A m, x \in M : m.dns = x.dns => m = x

ProxyInv ==
  /\ Apart(machines)
  /\ request.at \in {"idle", "asked", "dialed"}
  /\ request.at # "idle" => request.host \in Wanted /\ Apart(request.status)
  /\ request.at = "dialed" =>
       request.dial \in Addresses(request.status, request.known, request.host)

LEMMA ProxyInit_Inv == ProxyInit => ProxyInv
BY DEF ProxyInit, ProxyInv, Apart

LEMMA ProxyNext_Inv == ProxyInv /\ [ProxyNext]_proxyVars => ProxyInv'
<1> SUFFICES ASSUME ProxyInv, [ProxyNext]_proxyVars PROVE ProxyInv'
  OBVIOUS
<1>1. CASE \E h \in Wanted : Ask(h)
  <2> PICK h \in Wanted : Ask(h)
    BY <1>1
  <2>1. Apart({})
    BY DEF Apart
  <2>2. /\ request'.at = "asked" /\ request'.host = h
        /\ request'.status \in {machines, {}} /\ machines' = machines
    BY DEF Ask
  <2> QED
    BY <2>1, <2>2 DEF ProxyInv
<1>2. CASE Resolve
  <2>1. /\ request'.at = "dialed" /\ request'.host = request.host
        /\ request'.known = request.known /\ request'.status = request.status
        /\ request'.dial \in Addresses(request.status, request.known, request.host)
        /\ machines' = machines /\ request.at = "asked"
    BY <1>2 DEF Resolve
  <2> QED
    BY <2>1 DEF ProxyInv
<1>3. CASE Finish
  BY <1>3 DEF Finish, ProxyInv
<1>4. CASE \E m \in Machine \ machines : Join(m)
  BY <1>4 DEF Join, ProxyInv, Apart
<1>5. CASE \E m \in machines : Part(m)
  BY <1>5 DEF Part, ProxyInv, Apart
<1>6. CASE UNCHANGED proxyVars
  BY <1>6 DEF proxyVars, ProxyInv
<1> QED
  BY <1>1, <1>2, <1>3, <1>4, <1>5, <1>6 DEF ProxyNext

(* A suffix that is put on comes off again.                                *)
LEMMA PutOnTakenOff ==
  ASSUME NEW s \in Seq(STRING), NEW z \in Seq(STRING)
  PROVE  ShortOf(s \o z, z) = s
<1>1. s \o z \in Seq(STRING) /\ Len(s \o z) = Len(s) + Len(z) /\ \A i \in 1 .. Len(s) : (s \o z)[i] = s[i]
  OBVIOUS
<1> DEFINE t == s \o z
<1> HIDE DEF t
<1>2. SubSeq(t, 1, Len(s)) = s
  BY <1>1 DEF t
<1>3. Len(t) - Len(z) = Len(s)
  BY <1>1 DEF t
<1> QED
  BY <1>2, <1>3 DEF ShortOf, t

(* The names of a machine are those the tailnet gives it and those that    *)
(* follow from what it calls itself: a second pass takes off a second      *)
(* suffix, or the one the first pass has put on.                           *)
LEMMA NamesOfMachine ==
  ASSUME NEW m \in Machine
  PROVE  /\ TrueNames(m) \subseteq PeerDNSNames(m)
         /\ PeerDNSNames(m) \subseteq TrueNames(m) \cup OwnNames(m)
<1> DEFINE given == {m.dns, m.host} \ {<<>>}
           first == Spellings(m, given)
<1>1. /\ m.dns \in Seq(STRING) /\ m.host \in Seq(STRING) /\ PSuffix \in Seq(STRING)
      /\ m.dns # <<>> /\ PSuffix # <<>>
      /\ Below(PSuffix, m.dns) => Len(m.dns) = 1 + Len(PSuffix)
  BY ProxyAssumption DEF Below, In
<1>2. TrueNames(m) \subseteq first /\ first \subseteq PeerDNSNames(m)
  BY <1>1 DEF TrueNames, Shorts, Spellings, PeerDNSNames
<1>3. Shorts(Shorts({m.dns})) = {}
  <2> SUFFICES ASSUME Below(PSuffix, m.dns), Below(PSuffix, ShortOf(m.dns, PSuffix)) PROVE FALSE
    BY DEF Shorts
  <2> DEFINE s == ShortOf(m.dns, PSuffix)
  <2>1. s \in Seq(STRING) /\ Len(s) = 1
    BY <1>1, ShortAndSuffix DEF Below
  <2> HIDE DEF s
  <2>2. /\ Len(PSuffix) <= Len(s) /\ PSuffix # s
        /\ \A i \in 1 .. Len(PSuffix) : PSuffix[i] = s[Len(s) - Len(PSuffix) + i]
    BY <1>1, <2>1, SuffixIndexed DEF Below, s
  <2>3. Len(PSuffix) = 1 /\ PSuffix[1] = s[1]
    BY <1>1, <2>1, <2>2
  <2>4. PSuffix = s
    BY <1>1, <2>1, <2>3
  <2> QED
    BY <2>2, <2>4
<1>4. ShortOf(m.host \o PSuffix, PSuffix) = m.host
  BY <1>1, PutOnTakenOff
<1>5. first \subseteq TrueNames(m) \cup OwnNames(m)
  BY DEF Spellings, Shorts, TrueNames, OwnNames
<1>6. Shorts(first) \subseteq TrueNames(m) \cup OwnNames(m)
  <2> SUFFICES ASSUME NEW n \in first, Below(PSuffix, n)
               PROVE  ShortOf(n, PSuffix) \in TrueNames(m) \cup OwnNames(m)
    BY DEF Shorts
  <2>1. n \in given \cup Shorts({m.dns}) \cup {m.host \o PSuffix} \cup Shorts({m.host})
    BY DEF Spellings, Shorts
  <2>2. m.host = <<>> => n \in given \cup Shorts({m.dns})
    BY DEF Spellings, Shorts
  <2>3. CASE n \in Shorts({m.dns})
    BY <1>3, <2>3 DEF Shorts
  <2>4. CASE n = m.dns
    BY <2>4 DEF TrueNames, Shorts
  <2>5. CASE n = m.host /\ m.host # <<>>
    BY <2>5 DEF OwnNames, Shorts
  <2>6. CASE n = m.host \o PSuffix /\ m.host # <<>>
    BY <1>4, <2>6 DEF OwnNames
  <2>7. CASE n \in Shorts({m.host}) /\ m.host # <<>>
    BY <2>7 DEF OwnNames, Shorts
  <2> QED
    BY <2>1, <2>2, <2>3, <2>4, <2>5, <2>6, <2>7
<1>7. PeerDNSNames(m) \subseteq first \cup Shorts(first) \cup OwnNames(m)
  BY DEF PeerDNSNames, Spellings, OwnNames
<1> QED
  BY <1>2, <1>5, <1>6, <1>7

(* Two machines with different DNS names have no DNS name, short or long,  *)
(* in common, whatever tailnets they are of: what is left of one without   *)
(* the suffix is a single label, and a DNS name is not.                    *)
LEMMA TrueNamesApart ==
  ASSUME NEW m \in Machine, NEW x \in Machine, NEW h \in TrueNames(m) \cap TrueNames(x)
  PROVE  m.dns = x.dns
<1>1. ASSUME NEW y \in Machine, Below(PSuffix, y.dns)
      PROVE  y.dns = ShortOf(y.dns, PSuffix) \o PSuffix /\ Len(ShortOf(y.dns, PSuffix)) = 1
  <2>1. PSuffix \in Seq(STRING) /\ y.dns \in Seq(STRING) /\ Len(y.dns) = 1 + Len(PSuffix)
    BY <1>1, ProxyAssumption DEF Below, In
  <2>2. /\ y.dns = ShortOf(y.dns, PSuffix) \o PSuffix
        /\ Len(ShortOf(y.dns, PSuffix)) = Len(y.dns) - Len(PSuffix)
    BY <1>1, <2>1, ShortAndSuffix DEF Below
  <2> QED
    BY <2>1, <2>2
<1>2. ASSUME NEW y \in Machine PROVE Len(y.dns) # 1
  <2>1. y.dns \in Seq(STRING) /\ Len(y.dns) > 1
    BY ProxyAssumption
  <2>2. Len(y.dns) \in Nat
    BY <2>1
  <2>3. \A n \in Nat : n > 1 => n # 1
    OBVIOUS
  <2> QED
    BY <2>1, <2>2, <2>3
<1>3. /\ h = m.dns \/ (Below(PSuffix, m.dns) /\ h = ShortOf(m.dns, PSuffix))
      /\ h = x.dns \/ (Below(PSuffix, x.dns) /\ h = ShortOf(x.dns, PSuffix))
  BY DEF TrueNames, Shorts
<1>4. CASE h = m.dns
  BY <1>1, <1>2, <1>3, <1>4
<1>5. CASE h # m.dns
  <2>1. Len(h) = 1 /\ m.dns = h \o PSuffix
    BY <1>1, <1>3, <1>5
  <2>2. h # x.dns
    BY <1>2, <2>1
  <2> QED
    BY <1>1, <1>3, <2>1, <2>2
<1> QED
  BY <1>4, <1>5

LEMMA ProxyFinds == ProxyInv => RightMachine /\ StrictStays
<1> SUFFICES ASSUME ProxyInv, request.at = "dialed" PROVE RightMachine /\ StrictStays
  BY DEF RightMachine, StrictStays
<1> DEFINE h == request.host
           seen == request.status
           peers == Matching(seen, h)
<1>1. /\ h \in Wanted /\ Apart(seen)
      /\ request.dial \in Addresses(seen, request.known, h)
  BY DEF ProxyInv
<1>2. ASSUME NEW m \in seen, h \in TrueNames(m), \A x \in seen \ {m} : h \notin OwnNames(x)
      PROVE  request.dial = m.ip
  <2>1. m \in peers
    BY <1>1, <1>2, NamesOfMachine DEF Matching, Apart
  <2>2. ASSUME NEW x \in peers PROVE x = m
    <3>1. x \in Machine /\ x \in seen /\ m \in Machine /\ h \in PeerDNSNames(x)
      BY <1>1 DEF Matching, Apart
    <3>2. CASE h \in OwnNames(x)
      BY <1>2, <3>1, <3>2
    <3>3. CASE h \in TrueNames(x)
      <4>1. m.dns = x.dns
        BY <1>2, <3>1, <3>3, TrueNamesApart
      <4> QED
        BY <1>1, <3>1, <4>1 DEF Apart
    <3> QED
      BY <3>1, <3>2, <3>3, NamesOfMachine
  <2>3. peers = {m}
    BY <2>1, <2>2
  <2> QED
    BY <1>1, <2>3 DEF Addresses
<1>3. ASSUME request.dial = Original
      PROVE  /\ Len(h) > 1
             /\ In(PSuffix, h) => ~request.known /\ ~In(TsNet, PSuffix)
  <2>1. \A m \in peers : m.ip # Original
    BY <1>1, ProxyAssumption DEF Matching, Apart
  <2>2. ~Strict(request.known, h)
    BY <1>1, <1>3, <2>1, ProxyAssumption DEF Addresses, Refused, Original
  <2>3. /\ h \in Seq(STRING) /\ h # <<>> /\ PSuffix \in Seq(STRING) /\ TsNet \in Seq(STRING)
        /\ PSuffix # TsNet
    BY <1>1, ProxyAssumption
  <2>4. Len(h) > 1
    <3>1. Len(h) # 0
      BY <2>3
    <3>2. Len(h) # 1
      BY <2>2 DEF Strict
    <3>3. Len(h) \in Nat
      BY <2>3
    <3>4. \A n \in Nat : n # 0 /\ n # 1 => n > 1
      OBVIOUS
    <3> QED
      BY <3>1, <3>2, <3>3, <3>4
  <2>5. ASSUME In(PSuffix, h), In(TsNet, PSuffix) PROVE FALSE
    <3>1. In(TsNet, h)
      BY <2>3, <2>5, SuffixTransitive
    <3>2. h = TsNet
      BY <2>2, <3>1 DEF Strict, Below
    <3> QED
      BY <2>3, <2>5, <3>2, SuffixAntisymmetric
  <2> QED
    BY <2>2, <2>4, <2>5 DEF Strict
<1> QED
  BY <1>2, <1>3 DEF RightMachine, StrictStays
-----------------------------------------------------------------------------
(* The hosts block.  Every nonempty set of naturals up to a bound has a    *)
(* greatest element, and induction up to a number.                         *)
LEMMA GreatestUpTo ==
  ASSUME NEW n \in Nat, NEW T \in SUBSET (0 .. n), T # {}
  PROVE  \E x \in T : \A y \in T : x >= y
<1> DEFINE R == {p \in Nat \X Nat : p[1] < p[2]}
           J == {n - i : i \in T}
<1>1. IsWellFoundedOn(R, Nat)
  BY NatLessThanWellFounded DEF OpToRel
<1>2. J \in SUBSET Nat /\ J # {}
  <2>1. \A i \in T : n - i \in Nat
    OBVIOUS
  <2> QED
    BY <2>1
<1>3. PICK j \in J : \A i \in J : <<i, j>> \notin R
  <2> HIDE DEF R, J
  <2> QED BY <1>1, <1>2, WFMin
<1>4. PICK x \in T : j = n - x
  OBVIOUS
<1>5. ASSUME NEW y \in T PROVE x >= y
  <2>1. n - y \in J /\ <<n - y, j>> \notin R
    BY <1>3
  <2>2. ~(n - y < j)
    BY <1>2, <2>1
  <2> QED
    BY <1>4, <2>2
<1> QED
  BY <1>5

LEMMA UpToInduction ==
  ASSUME NEW n \in Nat, NEW S, 0 \in S, \A k \in 1 .. n : k - 1 \in S => k \in S
  PROVE  n \in S
<1> DEFINE T == {k \in 0 .. n : 0 .. k \subseteq S}
<1>1. T \in SUBSET (0 .. n) /\ T # {}
  <2>1. 0 \in T
    OBVIOUS
  <2> QED
    BY <2>1
<1>2. PICK x \in T : \A y \in T : x >= y
  <2> HIDE DEF T
  <2> QED BY <1>1, GreatestUpTo
<1>3. ASSUME x # n PROVE FALSE
  <2>1. x + 1 \in 1 .. n /\ (x + 1) - 1 = x
    BY <1>3
  <2>2. x + 1 \in S
    BY <2>1
  <2>3. 0 .. x + 1 \subseteq S
    BY <2>2
  <2>4. x + 1 \in T
    BY <2>1, <2>3
  <2> QED
    BY <1>2, <2>4
<1> QED
  BY <1>3

(* The lines a file is made of, and a file with one block.                 *)
Written == HostsInputs \cup {{}}
OwnOf(E) == {HostsLine(E, e) : e \in E}
Foreign == {Blank} \cup [kind : {"user"}, line : UserLine]
Lines == {Begin, End} \cup Foreign \cup UNION {OwnOf(E) : E \in Written}
Open == Lines \ {End}
Enclosed(m) == (<<Begin>> \o m) \o <<End>>
Frame(a, m, c) == (a \o Enclosed(m)) \o c

LEMMA LineKinds ==
  /\ \A E \in Written : OwnOf(E) \subseteq Lines /\ OwnOf(E) \subseteq Open
  /\ Foreign \subseteq Open /\ Open \subseteq Lines /\ Blank \in Foreign /\ Begin \in Open /\ End \in Lines
  /\ Begin # End /\ Begin # Blank /\ End # Blank
  /\ Begin.kind = "begin" /\ End.kind = "end" /\ Blank.kind = "blank"
  /\ \A E : \A l \in OwnOf(E) : l.kind = "own" /\ l # Begin /\ l # End /\ l # Blank
  /\ \A l \in Foreign : l.kind \in {"blank", "user"} /\ l # Begin /\ l # End
  /\ \A l \in Lines : l.kind = "user" => l \in Foreign
<1>1. /\ Begin # End /\ Begin # Blank /\ End # Blank
      /\ Begin.kind = "begin" /\ End.kind = "end" /\ Blank.kind = "blank"
  BY DEF Begin, End, Blank
<1>2. \A E : \A l \in OwnOf(E) : l.kind = "own"
  BY DEF OwnOf, HostsLine
<1>3. \A l \in Foreign : l.kind \in {"blank", "user"}
  BY <1>1 DEF Foreign
<1> QED
  BY <1>1, <1>2, <1>3 DEF Lines, Open, Foreign

LEMMA EnclosedAt ==
  ASSUME NEW S, NEW m \in Seq(S), Begin \in S, End \in S
  PROVE  /\ Enclosed(m) \in Seq(S) /\ Len(Enclosed(m)) = Len(m) + 2
         /\ Enclosed(m)[1] = Begin /\ Enclosed(m)[Len(m) + 2] = End
         /\ \A j \in 1 .. Len(m) : Enclosed(m)[j + 1] = m[j]
<1> DEFINE b == <<Begin>>
           e == <<End>>
           h == b \o m
<1>1. b \in Seq(S) /\ Len(b) = 1 /\ b[1] = Begin /\ e \in Seq(S) /\ Len(e) = 1 /\ e[1] = End
  OBVIOUS
<1> HIDE DEF b, e
<1>2. /\ h \in Seq(S) /\ Len(h) = Len(m) + 1
      /\ \A i \in 1 .. Len(m) + 1 : h[i] = IF i <= 1 THEN b[i] ELSE m[i - 1]
  <2>1. /\ h \in Seq(S) /\ Len(h) = Len(b) + Len(m)
        /\ \A i \in 1 .. Len(b) + Len(m) : h[i] = IF i <= Len(b) THEN b[i] ELSE m[i - Len(b)]
    BY <1>1, ConcatProperties
  <2>2. Len(b) + Len(m) = Len(m) + 1
    BY <1>1
  <2> QED
    BY <1>1, <2>1, <2>2
<1> HIDE DEF h
<1>3. /\ h \o e \in Seq(S) /\ Len(h \o e) = Len(m) + 2
      /\ \A i \in 1 .. Len(m) + 2 : (h \o e)[i] = IF i <= Len(m) + 1 THEN h[i] ELSE e[i - (Len(m) + 1)]
  <2>1. /\ h \o e \in Seq(S) /\ Len(h \o e) = Len(h) + Len(e)
        /\ \A i \in 1 .. Len(h) + Len(e) : (h \o e)[i] = IF i <= Len(h) THEN h[i] ELSE e[i - Len(h)]
    BY <1>1, <1>2, ConcatProperties
  <2>2. Len(h) + Len(e) = Len(m) + 2
    BY <1>1, <1>2
  <2> QED
    BY <1>2, <2>1, <2>2
<1>4. Enclosed(m) = h \o e
  BY DEF Enclosed, h, b, e
<1>5. Len(m) \in Nat
  OBVIOUS
<1>6. (h \o e)[1] = Begin
  <2>1. 1 \in 1 .. Len(m) + 2 /\ 1 \in 1 .. Len(m) + 1
    BY <1>5
  <2> QED
    BY <1>1, <1>2, <1>3, <1>5, <2>1
<1>7. (h \o e)[Len(m) + 2] = End
  <2>1. Len(m) + 2 \in 1 .. Len(m) + 2 /\ Len(m) + 2 - (Len(m) + 1) = 1 /\ ~(Len(m) + 2 <= Len(m) + 1)
    BY <1>5
  <2> QED
    BY <1>1, <1>3, <2>1
<1>8. ASSUME NEW j \in 1 .. Len(m) PROVE (h \o e)[j + 1] = m[j]
  <2>1. /\ j + 1 \in 1 .. Len(m) + 2 /\ j + 1 \in 1 .. Len(m) + 1 /\ j + 1 <= Len(m) + 1
        /\ ~(j + 1 <= 1) /\ j + 1 - 1 = j
    BY <1>5
  <2> QED
    BY <1>2, <1>3, <2>1
<1> QED
  BY <1>3, <1>4, <1>6, <1>7, <1>8

LEMMA FrameAt ==
  ASSUME NEW a \in Seq(Lines), NEW m \in Seq(Lines), NEW c \in Seq(Lines)
  PROVE  /\ Frame(a, m, c) \in Seq(Lines)
         /\ Len(Frame(a, m, c)) = Len(a) + Len(m) + 2 + Len(c)
         /\ \A i \in 1 .. Len(a) : Frame(a, m, c)[i] = a[i]
         /\ Frame(a, m, c)[Len(a) + 1] = Begin
         /\ \A j \in 1 .. Len(m) : Frame(a, m, c)[Len(a) + 1 + j] = m[j]
         /\ Frame(a, m, c)[Len(a) + Len(m) + 2] = End
         /\ \A j \in 1 .. Len(c) : Frame(a, m, c)[Len(a) + Len(m) + 2 + j] = c[j]
<1> DEFINE b == Enclosed(m)
           h == a \o b
           f == h \o c
<1>1. /\ b \in Seq(Lines) /\ Len(b) = Len(m) + 2 /\ b[1] = Begin /\ b[Len(m) + 2] = End
      /\ \A j \in 1 .. Len(m) : b[j + 1] = m[j]
  BY EnclosedAt, LineKinds
<1> HIDE DEF b
<1>2. /\ h \in Seq(Lines) /\ Len(h) = Len(a) + Len(m) + 2
      /\ \A i \in 1 .. Len(a) + Len(m) + 2 : h[i] = IF i <= Len(a) THEN a[i] ELSE b[i - Len(a)]
  <2>1. /\ h \in Seq(Lines) /\ Len(h) = Len(a) + Len(b)
        /\ \A i \in 1 .. Len(a) + Len(b) : h[i] = IF i <= Len(a) THEN a[i] ELSE b[i - Len(a)]
    BY <1>1, ConcatProperties
  <2>2. Len(a) + Len(b) = Len(a) + Len(m) + 2
    BY <1>1
  <2> QED
    BY <2>1, <2>2
<1> HIDE DEF h
<1>3. /\ f \in Seq(Lines) /\ Len(f) = Len(a) + Len(m) + 2 + Len(c)
      /\ \A i \in 1 .. Len(a) + Len(m) + 2 + Len(c) :
           f[i] = IF i <= Len(a) + Len(m) + 2 THEN h[i] ELSE c[i - (Len(a) + Len(m) + 2)]
  <2>1. /\ f \in Seq(Lines) /\ Len(f) = Len(h) + Len(c)
        /\ \A i \in 1 .. Len(h) + Len(c) : f[i] = IF i <= Len(h) THEN h[i] ELSE c[i - Len(h)]
    <3>1. h \in Seq(Lines) /\ c \in Seq(Lines)
      BY <1>2
    <3> QED
      BY <3>1, ConcatProperties, Zenon
  <2> QED
    BY <1>2, <2>1
<1> HIDE DEF f
<1>4. f = Frame(a, m, c)
  BY DEF Frame, f, h, b
<1>5. Len(a) \in Nat /\ Len(m) \in Nat /\ Len(c) \in Nat
  OBVIOUS
<1>6. \A i \in 1 .. Len(a) : f[i] = a[i]
  BY <1>2, <1>3, <1>5
<1>7. \A j \in 1 .. Len(m) + 2 : f[Len(a) + j] = b[j]
  <2> TAKE j \in 1 .. Len(m) + 2
  <2>1. /\ Len(a) + j \in 1 .. Len(a) + Len(m) + 2 + Len(c) /\ Len(a) + j \in 1 .. Len(a) + Len(m) + 2
        /\ Len(a) + j <= Len(a) + Len(m) + 2 /\ ~(Len(a) + j <= Len(a)) /\ Len(a) + j - Len(a) = j
    BY <1>5
  <2> QED
    BY <1>2, <1>3, <2>1
<1>8. f[Len(a) + 1] = Begin /\ f[Len(a) + Len(m) + 2] = End
  <2>1. 1 \in 1 .. Len(m) + 2 /\ Len(m) + 2 \in 1 .. Len(m) + 2 /\ Len(a) + (Len(m) + 2) = Len(a) + Len(m) + 2
    BY <1>5
  <2> QED
    BY <1>1, <1>7, <2>1
<1>9. ASSUME NEW j \in 1 .. Len(m) PROVE f[Len(a) + 1 + j] = m[j]
  <2>1. j + 1 \in 1 .. Len(m) + 2 /\ Len(a) + (j + 1) = Len(a) + 1 + j
    BY <1>5
  <2> QED
    BY <1>1, <1>7, <2>1
<1>10. ASSUME NEW j \in 1 .. Len(c) PROVE f[Len(a) + Len(m) + 2 + j] = c[j]
  <2> DEFINE i == Len(a) + Len(m) + 2 + j
  <2>1. /\ i \in 1 .. Len(a) + Len(m) + 2 + Len(c) /\ ~(i <= Len(a) + Len(m) + 2)
        /\ i - (Len(a) + Len(m) + 2) = j
    BY <1>5
  <2> QED
    BY <1>3, <2>1
<1> QED
  BY <1>3, <1>4, <1>6, <1>8, <1>9, <1>10
-----------------------------------------------------------------------------
(* Where the last line of a kind is, and what that says of a block.        *)
LEMMA MaxIs ==
  ASSUME NEW T \in SUBSET Int, NEW x \in T, \A y \in T : x >= y
  PROVE  Max(T) = x
<1>1. \A z \in T : (\A y \in T : z >= y) => z = x
  OBVIOUS
<1> QED
  BY <1>1 DEF Max

LEMMA LastIndexIs ==
  ASSUME NEW s \in Seq(Lines), NEW l, NEW p \in 1 .. Len(s), s[p] = l,
         \A i \in 1 .. Len(s) : s[i] = l => i <= p
  PROVE  LastIndex(s, l) = p
<1> DEFINE T == {0} \cup {i \in DOMAIN s : s[i] = l}
<1>1. T \in SUBSET Int /\ p \in T /\ \A y \in T : p >= y
  OBVIOUS
<1>2. Max(T) = p
  <2> HIDE DEF T
  <2> QED BY <1>1, MaxIs
<1> QED
  BY <1>2 DEF LastIndex

LEMMA LastIndexNone ==
  ASSUME NEW s \in Seq(Lines), NEW l, \A i \in 1 .. Len(s) : s[i] # l
  PROVE  LastIndex(s, l) = 0
<1> DEFINE T == {0} \cup {i \in DOMAIN s : s[i] = l}
<1>1. T = {0}
  OBVIOUS
<1>2. Max({0}) = 0
  BY MaxIs
<1> QED
  BY <1>1, <1>2 DEF LastIndex

LEMMA LastIndexAt ==
  ASSUME NEW s \in Seq(Lines), NEW l
  PROVE  /\ LastIndex(s, l) \in 0 .. Len(s)
         /\ LastIndex(s, l) # 0 => s[LastIndex(s, l)] = l
         /\ \A i \in 1 .. Len(s) : s[i] = l => i <= LastIndex(s, l)
<1> DEFINE T == {i \in 1 .. Len(s) : s[i] = l}
<1>1. CASE T = {}
  <2>1. \A i \in 1 .. Len(s) : s[i] # l
    BY <1>1
  <2> QED
    BY <2>1, LastIndexNone
<1>2. CASE T # {}
  <2>1. PICK p \in T : \A y \in T : p >= y
    <3>1. T \in SUBSET (0 .. Len(s)) /\ Len(s) \in Nat
      OBVIOUS
    <3> HIDE DEF T
    <3> QED BY <1>2, <3>1, GreatestUpTo
  <2>2. p \in 1 .. Len(s) /\ s[p] = l /\ \A i \in 1 .. Len(s) : s[i] = l => i <= p
    BY <2>1
  <2>3. LastIndex(s, l) = p
    BY <2>2, LastIndexIs
  <2> QED
    BY <2>2, <2>3
<1> QED
  BY <1>1, <1>2

(* The parts of a file with a block: what is before, inside and after it.  *)
LEMMA LinesOf ==
  /\ Seq(Foreign) \subseteq Seq(Open) /\ Seq(Open) \subseteq Seq(Lines)
  /\ \A E \in Written : Seq(OwnOf(E)) \subseteq Seq(Open)
BY LineKinds, SeqMonotonic

LEMMA NoBlock ==
  ASSUME NEW s \in Seq(Open) PROVE ~HasBlock(s)
<1>1. s \in Seq(Lines)
  BY LinesOf
<1>2. \A i \in 1 .. Len(s) : s[i] # End
  BY DEF Open
<1>3. LastIndex(s, End) = 0 /\ LastIndex(s, Begin) \in Nat
  BY <1>1, <1>2, LastIndexNone, LastIndexAt
<1> QED
  BY <1>3 DEF HasBlock

LEMMA FrameParts ==
  ASSUME NEW E \in Written, NEW a \in Seq(Lines), NEW m \in Seq(OwnOf(E)), NEW c \in Seq(Foreign)
  PROVE  /\ Frame(a, m, c) \in Seq(Lines)
         /\ HasBlock(Frame(a, m, c))
         /\ LastIndex(Frame(a, m, c), Begin) = Len(a) + 1
         /\ LastIndex(Frame(a, m, c), End) = Len(a) + Len(m) + 2
         /\ Before(Frame(a, m, c)) = a /\ After(Frame(a, m, c)) = c
<1> DEFINE f == Frame(a, m, c)
<1>1. m \in Seq(Lines) /\ c \in Seq(Lines) /\ Begin \in Lines /\ End \in Lines
  BY LinesOf, LineKinds
<1>2. /\ f \in Seq(Lines) /\ Len(f) = Len(a) + Len(m) + 2 + Len(c)
      /\ \A i \in 1 .. Len(a) : f[i] = a[i]
      /\ f[Len(a) + 1] = Begin
      /\ \A j \in 1 .. Len(m) : f[Len(a) + 1 + j] = m[j]
      /\ f[Len(a) + Len(m) + 2] = End
      /\ \A j \in 1 .. Len(c) : f[Len(a) + Len(m) + 2 + j] = c[j]
  <2>1. /\ Begin \in Lines /\ End \in Lines
        /\ a \in Seq(Lines) /\ m \in Seq(Lines) /\ c \in Seq(Lines)
    BY <1>1
  <2>2. /\ Frame(a, m, c) \in Seq(Lines)
        /\ Len(Frame(a, m, c)) = Len(a) + Len(m) + 2 + Len(c)
        /\ \A i \in 1 .. Len(a) : Frame(a, m, c)[i] = a[i]
        /\ Frame(a, m, c)[Len(a) + 1] = Begin
        /\ \A j \in 1 .. Len(m) : Frame(a, m, c)[Len(a) + 1 + j] = m[j]
        /\ Frame(a, m, c)[Len(a) + Len(m) + 2] = End
        /\ \A j \in 1 .. Len(c) : Frame(a, m, c)[Len(a) + Len(m) + 2 + j] = c[j]
    <3> HIDE DEF f
    <3> QED BY <2>1, FrameAt
  <2> QED
    BY <2>2
<1>3. Len(a) \in Nat /\ Len(m) \in Nat /\ Len(c) \in Nat
  OBVIOUS
<1>4. /\ \A j \in 1 .. Len(m) : m[j] # Begin /\ m[j] # End
      /\ \A j \in 1 .. Len(c) : c[j] # Begin /\ c[j] # End
  BY LineKinds, ElementOfSeq
<1> HIDE DEF f
<1>5. ASSUME NEW i \in 1 .. Len(f), i > Len(a) + 1
      PROVE  f[i] # Begin /\ (i > Len(a) + Len(m) + 2 => f[i] # End)
  <2>1. CASE i < Len(a) + Len(m) + 2
    <3>1. i - (Len(a) + 1) \in 1 .. Len(m) /\ i = Len(a) + 1 + (i - (Len(a) + 1))
      BY <1>2, <1>3, <1>5, <2>1
    <3> DEFINE j == i - (Len(a) + 1)
    <3>2. f[i] # Begin
      <4>1. j \in 1 .. Len(m) /\ i = Len(a) + 1 + j
        BY <3>1
      <4> HIDE DEF j
      <4>2. f[i] = m[j]
        BY <1>2, <4>1
      <4> QED
        BY <1>4, <4>1, <4>2
    <3>3. ~(i > Len(a) + Len(m) + 2)
      BY <1>3, <2>1
    <3> QED
      BY <3>2, <3>3
  <2>2. CASE i = Len(a) + Len(m) + 2
    BY <1>2, <1>3, <2>2, LineKinds
  <2>3. CASE i > Len(a) + Len(m) + 2
    <3>1. /\ i - (Len(a) + Len(m) + 2) \in 1 .. Len(c)
          /\ i = Len(a) + Len(m) + 2 + (i - (Len(a) + Len(m) + 2))
      BY <1>2, <1>3, <2>3
    <3> QED
      BY <1>2, <1>4, <3>1
  <2>4. i < Len(a) + Len(m) + 2 \/ i = Len(a) + Len(m) + 2 \/ i > Len(a) + Len(m) + 2
    BY <1>3
  <2>5. i < Len(a) + Len(m) + 2 \/ i = Len(a) + Len(m) + 2 => ~(i > Len(a) + Len(m) + 2)
    BY <1>3
  <2> QED
    BY <2>1, <2>2, <2>3, <2>4, <2>5
<1>6. LastIndex(f, Begin) = Len(a) + 1
  <2>1. Len(a) + 1 \in 1 .. Len(f) /\ f[Len(a) + 1] = Begin
    BY <1>2, <1>3
  <2>2. \A i \in 1 .. Len(f) : f[i] = Begin => i <= Len(a) + 1
    BY <1>2, <1>3, <1>5
  <2> QED
    BY <1>2, <2>1, <2>2, LastIndexIs
<1>7. LastIndex(f, End) = Len(a) + Len(m) + 2
  <2> DEFINE p == Len(a) + Len(m) + 2
  <2>1. Len(a) + Len(m) + 2 \in 1 .. Len(f) /\ f[Len(a) + Len(m) + 2] = End
    BY <1>2, <1>3
  <2>2. \A i \in 1 .. Len(f) : f[i] = End => i <= Len(a) + Len(m) + 2
    BY <1>2, <1>3, <1>5
  <2>3. f \in Seq(Lines) /\ p \in 1 .. Len(f) /\ f[p] = End /\ \A i \in 1 .. Len(f) : f[i] = End => i <= p
    BY <1>2, <2>1, <2>2
  <2> HIDE DEF p
  <2>4. LastIndex(f, End) = p
    BY <2>3, LastIndexIs
  <2> QED
    BY <2>4 DEF p
<1>8. HasBlock(f)
  BY <1>3, <1>6, <1>7 DEF HasBlock
<1>9. Before(f) = a
  <2>1. Before(f) = SubSeq(f, 1, Len(a))
    BY <1>3, <1>6 DEF Before
  <2>2. /\ SubSeq(f, 1, Len(a)) \in Seq(Lines) /\ Len(SubSeq(f, 1, Len(a))) = Len(a)
        /\ \A i \in 1 .. Len(a) : SubSeq(f, 1, Len(a))[i] = f[i]
    BY <1>2, <1>3
  <2> QED
    BY <1>2, <2>1, <2>2, SeqEqual
<1>10. After(f) = c
  <2> DEFINE t == SubSeq(f, Len(a) + Len(m) + 2 + 1, Len(f))
  <2>1. After(f) = t
    BY <1>7 DEF After
  <2>2. t \in Seq(Lines) /\ Len(t) = Len(c) /\ \A i \in 1 .. Len(c) : t[i] = f[Len(a) + Len(m) + 2 + i]
    BY <1>2, <1>3
  <2> HIDE DEF t
  <2>3. \A i \in 1 .. Len(c) : t[i] = c[i]
    BY <1>2, <2>2
  <2>4. t = c
    BY <1>1, <2>2, <2>3, SeqEqual
  <2> QED
    BY <2>1, <2>4
<1> QED
  BY <1>2, <1>6, <1>7, <1>8, <1>9, <1>10 DEF f
-----------------------------------------------------------------------------
(* A file without its trailing blank lines.                                *)
LEMMA TrimIs ==
  ASSUME NEW t \in Seq(Lines), NEW b \in Seq({Blank}), t = <<>> \/ t[Len(t)] # Blank
  PROVE  TrimBlanks(t \o b) = t
<1> DEFINE s == t \o b
           used == {i \in 1 .. Len(s) : s[i] # Blank}
<1>1. /\ s \in Seq(Lines) /\ Len(s) = Len(t) + Len(b)
      /\ \A i \in 1 .. Len(t) + Len(b) : s[i] = IF i <= Len(t) THEN t[i] ELSE b[i - Len(t)]
  <2>1. b \in Seq(Lines)
    BY LineKinds, LinesOf, SeqMonotonic
  <2> QED
    BY <2>1, ConcatProperties
<1>2. Len(t) \in Nat /\ Len(b) \in Nat
  OBVIOUS
<1> HIDE DEF s
<1>3. \A i \in used : i <= Len(t)
  <2> TAKE i \in used
  <2>1. CASE i > Len(t)
    <3>1. i - Len(t) \in 1 .. Len(b) /\ s[i] = b[i - Len(t)]
      BY <1>1, <1>2, <2>1
    <3>2. b[i - Len(t)] = Blank
      BY <3>1
    <3> QED
      BY <3>1, <3>2
  <2> QED
    BY <1>2, <2>1
<1>4. TrimBlanks(s) = IF used = {} THEN <<>> ELSE SubSeq(s, 1, Max(used))
  <2>1. DOMAIN s = 1 .. Len(s)
    BY <1>1
  <2> QED
    BY <2>1 DEF TrimBlanks
<1>5. CASE t = <<>>
  <2>1. used = {}
    <3>1. Len(t) = 0
      BY <1>5
    <3> QED
      BY <1>3, <3>1
  <2> QED
    BY <1>4, <1>5, <2>1 DEF s
<1>6. CASE t # <<>>
  <2>1. Len(t) \in 1 .. Len(s) /\ Len(t) > 0
    BY <1>1, <1>2, <1>6
  <2>2. s[Len(t)] = t[Len(t)]
    BY <1>1, <1>2, <2>1
  <2>3. Len(t) \in used
    BY <1>6, <2>1, <2>2
  <2>4. Max(used) = Len(t)
    <3>1. used \in SUBSET Int /\ \A i \in used : Len(t) >= i
      BY <1>2, <1>3
    <3> HIDE DEF used
    <3> QED BY <2>3, <3>1, MaxIs
  <2>5. TrimBlanks(s) = SubSeq(s, 1, Len(t))
    BY <1>4, <2>3, <2>4
  <2>6. /\ SubSeq(s, 1, Len(t)) \in Seq(Lines) /\ Len(SubSeq(s, 1, Len(t))) = Len(t)
        /\ \A i \in 1 .. Len(t) : SubSeq(s, 1, Len(t))[i] = s[i]
    BY <1>1, <1>2
  <2>7. \A i \in 1 .. Len(t) : s[i] = t[i]
    BY <1>1, <1>2
  <2>8. SubSeq(s, 1, Len(t)) = t
    BY <2>6, <2>7, SeqEqual
  <2> QED
    BY <2>5, <2>8 DEF s
<1> QED
  BY <1>5, <1>6

LEMMA Trimmed ==
  ASSUME NEW S \in SUBSET Lines, NEW s \in Seq(S)
  PROVE  /\ TrimBlanks(s) \in Seq(S)
         /\ \E b \in Seq({Blank}) : s = TrimBlanks(s) \o b
         /\ TrimBlanks(s) = <<>> \/ TrimBlanks(s)[Len(TrimBlanks(s))] # Blank
<1> DEFINE used == {i \in 1 .. Len(s) : s[i] # Blank}
<1>1. TrimBlanks(s) = IF used = {} THEN <<>> ELSE SubSeq(s, 1, Max(used))
  <2>1. DOMAIN s = 1 .. Len(s)
    OBVIOUS
  <2> QED
    BY <2>1 DEF TrimBlanks
<1>2. \E p \in 0 .. Len(s) : /\ TrimBlanks(s) = SubSeq(s, 1, p)
                             /\ \A i \in p + 1 .. Len(s) : s[i] = Blank
                             /\ p = 0 \/ s[p] # Blank
  <2>1. CASE used = {}
    <3>1. SubSeq(s, 1, 0) = <<>>
      BY SubSeqEmpty
    <3>2. \A i \in 0 + 1 .. Len(s) : s[i] = Blank
      BY <2>1
    <3>3. TrimBlanks(s) = SubSeq(s, 1, 0)
      BY <1>1, <2>1, <3>1
    <3>4. 0 \in 0 .. Len(s)
      OBVIOUS
    <3> QED
      BY <3>2, <3>3, <3>4
  <2>2. CASE used # {}
    <3>1. PICK p \in used : \A y \in used : p >= y
      <4>1. used \in SUBSET (0 .. Len(s)) /\ Len(s) \in Nat
        OBVIOUS
      <4> HIDE DEF used
      <4> QED BY <2>2, <4>1, GreatestUpTo
    <3>2. Max(used) = p
      <4>1. used \in SUBSET Int
        OBVIOUS
      <4> HIDE DEF used
      <4> QED BY <3>1, <4>1, MaxIs
    <3>3. \A i \in p + 1 .. Len(s) : s[i] = Blank
      BY <3>1
    <3>4. p \in 0 .. Len(s) /\ s[p] # Blank
      OBVIOUS
    <3> QED
      BY <1>1, <2>2, <3>2, <3>3, <3>4
  <2> QED
    BY <2>1, <2>2
<1> PICK p \in 0 .. Len(s) : /\ TrimBlanks(s) = SubSeq(s, 1, p)
                             /\ \A i \in p + 1 .. Len(s) : s[i] = Blank
                             /\ p = 0 \/ s[p] # Blank
  BY <1>2
<1> DEFINE t == SubSeq(s, 1, p)
           b == SubSeq(s, p + 1, Len(s))
<1>3. t \in Seq(S) /\ Len(t) = p /\ \A i \in 1 .. p : t[i] = s[i]
  OBVIOUS
<1>4. b \in Seq({Blank})
  <2>1. p + 1 \in Int /\ Len(s) \in Int /\ \A i \in p + 1 .. Len(s) : s[i] \in {Blank}
    OBVIOUS
  <2> QED
    BY <2>1, SubSeqProperties
<1>5. t \o b = s
  <2>1. t \o b = SubSeq(s, 1, Len(s))
    <3>1. 1 \in 1 .. Len(s) + 1 /\ p \in 1 - 1 .. Len(s) /\ Len(s) \in p .. Len(s)
      OBVIOUS
    <3> QED
      BY <3>1, ConcatAdjacentSubSeq
  <2> QED
    BY <2>1, SubSeqFull
<1>6. t = <<>> \/ t[Len(t)] # Blank
  <2>1. CASE p = 0
    BY <1>3, <2>1, EmptySeq
  <2>2. CASE p # 0
    BY <1>3, <2>2
  <2> QED
    BY <2>1, <2>2
<1> QED
  BY <1>3, <1>4, <1>5, <1>6

(* writeHostsLines leaves the block as it is.                              *)
LEMMA NormalizedFrame ==
  ASSUME NEW E \in Written, NEW a \in Seq(Lines), NEW m \in Seq(OwnOf(E)), NEW c \in Seq(Foreign)
  PROVE  /\ Normalized(c) \in Seq(Foreign)
         /\ Normalized(Frame(a, m, c)) = Frame(a, m, Normalized(c))
<1> DEFINE t == TrimBlanks(c)
           x == a \o Enclosed(m)
           f == Frame(a, m, t)
<1>1. /\ t \in Seq(Foreign)
      /\ \E b \in Seq({Blank}) : c = t \o b
      /\ t = <<>> \/ t[Len(t)] # Blank
  <2>1. Foreign \in SUBSET Lines
    BY LineKinds
  <2> QED
    BY <2>1, Trimmed
<1> PICK b \in Seq({Blank}) : c = t \o b
  BY <1>1
<1>2. <<Blank>> \in Seq(Foreign) /\ <<Blank>> \in Seq(Lines)
  BY LineKinds
<1>3. Normalized(c) \in Seq(Foreign)
  BY <1>1, <1>2, ConcatProperties DEF Normalized
<1>4. m \in Seq(Lines) /\ t \in Seq(Lines) /\ b \in Seq(Lines)
  BY <1>1, LinesOf, LineKinds, SeqMonotonic
<1>5. x \in Seq(Lines)
  BY <1>4, EnclosedAt, LineKinds, ConcatProperties
<1>6. /\ f \in Seq(Lines) /\ Len(f) = Len(a) + Len(m) + 2 + Len(t)
      /\ f[Len(a) + Len(m) + 2] = End
      /\ \A j \in 1 .. Len(t) : f[Len(a) + Len(m) + 2 + j] = t[j]
  <2> HIDE DEF t
  <2> QED BY <1>4, FrameAt
<1>7. Frame(a, m, c) = f \o b
  <2>1. f = x \o t /\ Frame(a, m, c) = x \o c
    BY DEF Frame
  <2> HIDE DEF x, t, f
  <2>2. (x \o t) \o b = x \o (t \o b)
    BY <1>4, <1>5, ConcatAssociative, SMTT(40)
  <2> QED
    BY <2>1, <2>2
<1>8. f[Len(f)] # Blank
  <2>1. Len(a) \in Nat /\ Len(m) \in Nat /\ Len(t) \in Nat
    BY <1>4
  <2>2. CASE t = <<>>
    <3>1. Len(t) = 0
      BY <2>2
    <3>2. Len(f) = Len(a) + Len(m) + 2
      BY <1>6, <2>1, <3>1
    <3> QED
      BY <1>6, <3>2, LineKinds
  <2>3. CASE t # <<>>
    <3>1. Len(t) \in 1 .. Len(t)
      BY <1>4, <2>3, EmptySeq
    <3> QED
      BY <1>1, <1>6, <2>3, <3>1
  <2> QED
    BY <2>2, <2>3
<1>9. TrimBlanks(Frame(a, m, c)) = f
  <2> HIDE DEF f, t
  <2> QED BY <1>6, <1>7, <1>8, TrimIs
<1>10. f \o <<Blank>> = Frame(a, m, Normalized(c))
  <2>1. f = x \o t /\ Frame(a, m, t \o <<Blank>>) = x \o (t \o <<Blank>>)
    BY DEF Frame
  <2>2. (x \o t) \o <<Blank>> = x \o (t \o <<Blank>>)
    <3> HIDE DEF x, t, f
    <3> QED BY <1>2, <1>4, <1>5, ConcatAssociative, SMTT(40)
  <2> QED
    BY <2>1, <2>2 DEF Normalized
<1> QED
  BY <1>3, <1>9, <1>10 DEF Normalized
-----------------------------------------------------------------------------
(* The lines of others in a file: a loop over its lines.                   *)
Taken(l, t) == IF l.kind = "user" THEN Append(t, l) ELSE t

LEMMA TakenIn ==
  \A l \in Lines, t \in Seq(Foreign) : Taken(l, t) \in Seq(Foreign)
BY LineKinds, AppendProperties DEF Taken

LEMMA UserLinesTurns ==
  ASSUME NEW s \in Seq(Lines)
  PROVE  \E g \in [0 .. Len(s) -> Seq(Foreign)] :
           /\ g[0] = <<>>
           /\ \A k \in 1 .. Len(s) : g[k] = Taken(s[k], g[k - 1])
           /\ UserLines(s) = g[Len(s)]
<1> DEFINE A == Seq(Foreign)
           n == Len(s)
           Good(m, g) == g[0] = <<>> /\ \A k \in 1 .. m : g[k] = Taken(s[k], g[k - 1])
           Has(m) == \E g \in [0 .. m -> A] : Good(m, g)
           S == {m \in 0 .. n : Has(m)}
<1>1. <<>> \in A /\ n \in Nat /\ \A k \in 1 .. n : s[k] \in Lines
  OBVIOUS
<1>2. Has(0)
  <2> DEFINE h == [i \in 0 .. 0 |-> <<>>]
  <2>1. h \in [0 .. 0 -> A] /\ h[0] = <<>>
    BY <1>1
  <2>2. \A k \in 1 .. 0 : FALSE
    OBVIOUS
  <2>3. Good(0, h)
    BY <2>1, <2>2
  <2> HIDE DEF Good, h
  <2> QED BY <2>1, <2>3
<1>3. ASSUME NEW m \in 1 .. n, Has(m - 1) PROVE Has(m)
  <2>1. PICK g \in [0 .. m - 1 -> A] : Good(m - 1, g)
    BY <1>3
  <2> DEFINE new == Taken(s[m], g[m - 1])
             h == [i \in 0 .. m |-> IF i = m THEN new ELSE g[i]]
  <2>2. new \in A
    <3>1. g[m - 1] \in A /\ s[m] \in Lines
      BY <1>1, <2>1
    <3> QED
      BY <3>1, TakenIn, Zenon
  <2> HIDE DEF new
  <2>3. h \in [0 .. m -> A]
    BY <2>1, <2>2
  <2>4. h[0] = <<>>
    BY <2>1
  <2>5. ASSUME NEW k \in 1 .. m PROVE h[k] = Taken(s[k], h[k - 1])
    <3>1. h[k - 1] = g[k - 1]
      OBVIOUS
    <3>2. CASE k = m
      <4>1. h[k] = new
        BY <3>2
      <4> HIDE DEF h
      <4> QED BY <3>1, <3>2, <4>1 DEF new
    <3>3. CASE k # m
      <4>1. k \in 1 .. m - 1 /\ h[k] = g[k]
        BY <3>3
      <4> QED BY <2>1, <3>1, <4>1
    <3> QED BY <3>2, <3>3
  <2> HIDE DEF h
  <2>6. Good(m, h)
    BY <2>4, <2>5
  <2> HIDE DEF Good, n, A
  <2> QED BY <2>3, <2>6
<1>4. n \in S
  <2>1. 0 \in S /\ \A k \in 1 .. n : k - 1 \in S => k \in S
    <3> HIDE DEF Has
    <3> QED BY <1>1, <1>2, <1>3
  <2> HIDE DEF S, n
  <2> QED BY <1>1, <2>1, UpToInduction
<1>5. PICK g \in [0 .. n -> A] : Good(n, g)
  BY <1>4
<1> DEFINE P(f) == f = [k \in 0 .. n |-> IF k = 0 THEN <<>>
                            ELSE IF s[k].kind = "user" THEN Append(f[k - 1], s[k]) ELSE f[k - 1]]
<1>6. P(g)
  <2>1. ASSUME NEW k \in 1 .. n
        PROVE  g[k] = IF s[k].kind = "user" THEN Append(g[k - 1], s[k]) ELSE g[k - 1]
    <3>1. g[k] = Taken(s[k], g[k - 1])
      BY <1>5
    <3> QED
      BY <3>1 DEF Taken
  <2>2. g[0] = <<>>
    BY <1>5
  <2>3. \A k \in 0 .. n : g[k] = IF k = 0 THEN <<>>
                                 ELSE IF s[k].kind = "user" THEN Append(g[k - 1], s[k]) ELSE g[k - 1]
    <3> HIDE DEF P, Good
    <3> TAKE k \in 0 .. n
    <3>1. k = 0 \/ k \in 1 .. n
      OBVIOUS
    <3> QED
      BY <2>1, <2>2, <3>1
  <2> HIDE DEF Good, n
  <2> QED BY <1>5, <2>3
<1> DEFINE f == CHOOSE f : P(f)
<1>7. UserLines(s) = f[n]
  BY DEF UserLines
<1>8. P(f)
  <2> HIDE DEF P
  <2> QED BY <1>6
<1> HIDE DEF f
<1>9. f[0] = <<>> /\ DOMAIN f = 0 .. n
  BY <1>8
<1>10. ASSUME NEW k \in 1 .. n PROVE f[k] = Taken(s[k], f[k - 1])
  <2>1. k \in 0 .. n /\ k # 0
    OBVIOUS
  <2> QED
    BY <1>8, <2>1 DEF Taken
<1>11. \A k \in 0 .. n : f[k] \in A
  <2> TAKE m \in 0 .. n
  <2> DEFINE T == {k \in 0 .. n : k <= m => f[k] \in A}
  <2>1. 0 \in T
    <3> HIDE DEF P, A
    <3> QED BY <1>1, <1>9
  <2>2. ASSUME NEW k \in 1 .. n, k - 1 \in T PROVE k \in T
    <3> SUFFICES ASSUME k <= m PROVE f[k] \in A
      OBVIOUS
    <3>1. k - 1 <= m
      OBVIOUS
    <3>2. f[k - 1] \in A /\ s[k] \in Lines
      BY <1>1, <2>2, <3>1
    <3> HIDE DEF P, A, T
    <3> QED
      BY <1>10, <3>2, TakenIn DEF A
  <2>3. m \in T
    <3>1. \A k \in 1 .. m : k - 1 \in T => k \in T
      BY <2>2
    <3> HIDE DEF T
    <3> QED BY <2>1, <3>1, UpToInduction
  <2> QED
    BY <2>3
<1>12. f \in [0 .. n -> A]
  <2>1. f = [k \in 0 .. n |-> f[k]]
    BY <1>8
  <2> HIDE DEF P
  <2> QED BY <1>11, <2>1
<1> QED
  <2> HIDE DEF P
  <2> QED BY <1>7, <1>9, <1>10, <1>12

LEMMA UserLinesIn == \A s \in Seq(Lines) : UserLines(s) \in Seq(Foreign)
<1> TAKE s \in Seq(Lines)
<1>1. Len(s) \in 0 .. Len(s)
  OBVIOUS
<1> QED
  BY <1>1, UserLinesTurns

LEMMA UserLinesOfConcat ==
  ASSUME NEW s \in Seq(Lines), NEW t \in Seq(Lines)
  PROVE  UserLines(s \o t) = UserLines(s) \o UserLines(t)
<1> DEFINE u == s \o t
           n == Len(s)
           m == Len(t)
           A == Seq(Foreign)
<1>1. /\ u \in Seq(Lines) /\ Len(u) = n + m
      /\ \A i \in 1 .. n + m : u[i] = IF i <= n THEN s[i] ELSE t[i - n]
  BY ConcatProperties
<1>2. n \in Nat /\ m \in Nat
  OBVIOUS
<1> PICK g \in [0 .. n -> A] :
      /\ g[0] = <<>>
      /\ \A k \in 1 .. n : g[k] = Taken(s[k], g[k - 1])
      /\ UserLines(s) = g[n]
  BY UserLinesTurns
<1> PICK h \in [0 .. m -> A] :
      /\ h[0] = <<>>
      /\ \A k \in 1 .. m : h[k] = Taken(t[k], h[k - 1])
      /\ UserLines(t) = h[m]
  BY UserLinesTurns
<1> HIDE DEF u
<1> PICK f \in [0 .. n + m -> A] :
      /\ f[0] = <<>>
      /\ \A k \in 1 .. n + m : f[k] = Taken(u[k], f[k - 1])
      /\ UserLines(u) = f[n + m]
  BY <1>1, UserLinesTurns, ZenonT(60)
<1> HIDE DEF n, m, A
<1>3. f[n] = g[n]
  <2> DEFINE T == {k \in 0 .. n : f[k] = g[k]}
  <2>1. 0 \in T
    BY <1>2
  <2>2. ASSUME NEW k \in 1 .. n, k - 1 \in T PROVE k \in T
    <3>1. k \in 1 .. n + m /\ u[k] = s[k]
      BY <1>1, <1>2
    <3>2. f[k] = g[k]
      BY <2>2, <3>1
    <3> QED
      BY <3>2
  <2>3. n \in T
    <3> HIDE DEF T
    <3> QED BY <1>2, <2>1, <2>2, UpToInduction
  <2> QED
    BY <2>3
<1>4. g[n] \in A /\ h[0] \in A
  BY <1>2
<1>5. ASSUME NEW l \in Lines, NEW x \in A, NEW y \in A
      PROVE  Taken(l, x \o y) = x \o Taken(l, y)
  <2>1. CASE l.kind = "user"
    <3>1. l \in Foreign
      BY <2>1, LineKinds
    <3>2. Append(x \o y, l) = (x \o y) \o <<l>> /\ Append(y, l) = y \o <<l>> /\ <<l>> \in Seq(Foreign)
      BY <3>1, ConcatProperties, AppendIsConcat DEF A
    <3>3. (x \o y) \o <<l>> = x \o (y \o <<l>>)
      BY <3>2, ConcatAssociative, SMTT(40) DEF A
    <3> QED
      BY <2>1, <3>2, <3>3 DEF Taken
  <2>2. CASE l.kind # "user"
    BY <2>2 DEF Taken
  <2> QED
    BY <2>1, <2>2
<1>6. f[n + m] = g[n] \o h[m]
  <2> DEFINE T == {k \in 0 .. m : f[n + k] = g[n] \o h[k]}
  <2>1. 0 \in T
    <3>1. g[n] \o <<>> = g[n]
      BY <1>4, ConcatEmptySeq DEF A
    <3>2. n + 0 = n
      BY <1>2
    <3>3. f[n + 0] = g[n] \o h[0]
      BY <1>3, <3>1, <3>2
    <3>4. 0 \in 0 .. m
      BY <1>2
    <3> QED
      BY <3>3, <3>4, Zenon
  <2>2. ASSUME NEW k \in 1 .. m, k - 1 \in T PROVE k \in T
    <3>1. n + k \in 1 .. n + m /\ ~(n + k <= n) /\ (n + k) - n = k /\ (n + k) - 1 = n + (k - 1)
      BY <1>2
    <3>2. u[n + k] = t[k]
      BY <1>1, <3>1
    <3>3. f[n + k] = Taken(t[k], f[n + (k - 1)])
      BY <3>1, <3>2
    <3>4. f[n + (k - 1)] = g[n] \o h[k - 1]
      BY <2>2
    <3>5. h[k - 1] \in A /\ h[k] = Taken(t[k], h[k - 1])
      BY <1>2
    <3>6. t[k] \in Lines
      BY DEF m
    <3>7. Taken(t[k], g[n] \o h[k - 1]) = g[n] \o Taken(t[k], h[k - 1])
      BY <1>4, <1>5, <3>5, <3>6
    <3>8. f[n + k] = g[n] \o h[k]
      BY <3>3, <3>4, <3>5, <3>7, Zenon
    <3>9. k \in 0 .. m
      BY <1>2
    <3> QED
      BY <3>8, <3>9, Zenon
  <2>3. m \in T
    <3> HIDE DEF T
    <3> QED BY <1>2, <2>1, <2>2, UpToInduction
  <2> QED
    BY <2>3
<1>7. UserLines(u) = UserLines(s) \o UserLines(t)
  BY <1>6
<1> QED
  BY <1>7 DEF u

LEMMA NoUserLines ==
  ASSUME NEW t \in Seq(Lines), \A i \in 1 .. Len(t) : t[i].kind # "user"
  PROVE  UserLines(t) = <<>>
<1> DEFINE m == Len(t)
<1> PICK h \in [0 .. m -> Seq(Foreign)] :
      /\ h[0] = <<>>
      /\ \A k \in 1 .. m : h[k] = Taken(t[k], h[k - 1])
      /\ UserLines(t) = h[m]
  BY UserLinesTurns
<1> DEFINE T == {k \in 0 .. m : h[k] = <<>>}
<1>1. m \in Nat
  OBVIOUS
<1>2. 0 \in T
  BY <1>1
<1>3. ASSUME NEW k \in 1 .. m, k - 1 \in T PROVE k \in T
  BY <1>3 DEF Taken
<1>4. m \in T
  <2> HIDE DEF T, m
  <2> QED BY <1>1, <1>2, <1>3, UpToInduction
<1> QED
  BY <1>4
-----------------------------------------------------------------------------
(* Putting a file together again.                                          *)
LEMMA SplitAt ==
  ASSUME NEW p \in Seq(Lines), NEW q \in Seq(Lines)
  PROVE  /\ SubSeq(p \o q, 1, Len(p)) = p
         /\ SubSeq(p \o q, Len(p) + 1, Len(p \o q)) = q
<1> DEFINE s == p \o q
           n == Len(p)
           x == SubSeq(s, 1, n)
           y == SubSeq(s, n + 1, Len(s))
<1>1. /\ s \in Seq(Lines) /\ Len(s) = n + Len(q)
      /\ \A i \in 1 .. n + Len(q) : s[i] = IF i <= n THEN p[i] ELSE q[i - n]
  BY ConcatProperties
<1>2. n \in Nat /\ Len(q) \in Nat
  OBVIOUS
<1> HIDE DEF s
<1>3. x = p
  <2>1. x \in Seq(Lines) /\ Len(x) = n /\ \A i \in 1 .. n : x[i] = s[i]
    BY <1>1, <1>2
  <2>2. \A i \in 1 .. n : s[i] = p[i]
    BY <1>1, <1>2
  <2> HIDE DEF x
  <2> QED BY <2>1, <2>2, SeqEqual
<1>4. y = q
  <2>1. y \in Seq(Lines) /\ Len(y) = Len(q) /\ \A i \in 1 .. Len(q) : y[i] = s[n + i]
    BY <1>1, <1>2
  <2>2. \A i \in 1 .. Len(q) : s[n + i] = q[i]
    <3> TAKE i \in 1 .. Len(q)
    <3>1. n + i \in 1 .. n + Len(q) /\ ~(n + i <= n) /\ (n + i) - n = i
      BY <1>2
    <3> QED
      BY <1>1, <3>1
  <2> HIDE DEF y
  <2> QED BY <2>1, <2>2, SeqEqual
<1> QED
  BY <1>3, <1>4 DEF s

LEMMA Halves ==
  ASSUME NEW S \in SUBSET Lines, NEW s \in Seq(S), NEW i \in 0 .. Len(s)
  PROVE  \E p \in Seq(S), q \in Seq(S) : s = p \o q /\ Len(p) = i
<1> DEFINE p == SubSeq(s, 1, i)
           q == SubSeq(s, i + 1, Len(s))
<1>1. p \in Seq(S) /\ q \in Seq(S) /\ Len(p) = i
  OBVIOUS
<1>2. 1 \in 1 .. Len(s) + 1 /\ i \in 1 - 1 .. Len(s) /\ Len(s) \in i .. Len(s)
  OBVIOUS
<1>3. p \o q = SubSeq(s, 1, Len(s))
  BY <1>2, ConcatAdjacentSubSeq
<1> QED
  BY <1>1, <1>3, SubSeqFull

LEMMA ConcatIn ==
  \A S : \A s, t \in Seq(S) : s \o t \in Seq(S)
BY ConcatProperties

LEMMA Regroup ==
  \A s, t, u \in Seq(Lines) : (s \o t) \o u = s \o (t \o u)
BY ConcatAssociative

LEMMA UserLinesFrame ==
  ASSUME NEW E \in Written, NEW a \in Seq(Lines), NEW m \in Seq(OwnOf(E)), NEW c \in Seq(Lines)
  PROVE  UserLines(Frame(a, m, c)) = UserLines(a) \o UserLines(c)
<1> DEFINE b == Enclosed(m)
<1>1. m \in Seq(Lines) /\ Begin \in Lines /\ End \in Lines
  BY LinesOf, LineKinds
<1>2. /\ b \in Seq(Lines) /\ Len(b) = Len(m) + 2 /\ b[1] = Begin /\ b[Len(m) + 2] = End
      /\ \A j \in 1 .. Len(m) : b[j + 1] = m[j]
  BY <1>1, EnclosedAt
<1> HIDE DEF b
<1>3. ASSUME NEW i \in 1 .. Len(b) PROVE b[i].kind # "user"
  <2>1. CASE i = 1
    BY <1>2, <2>1, LineKinds
  <2>2. CASE i = Len(m) + 2
    BY <1>2, <2>2, LineKinds
  <2>3. CASE i # 1 /\ i # Len(m) + 2
    <3> DEFINE j == i - 1
    <3>1. j \in 1 .. Len(m) /\ i = j + 1
      BY <1>2, <2>3
    <3> HIDE DEF j
    <3>2. b[i] = m[j] /\ m[j] \in OwnOf(E)
      BY <1>2, <3>1
    <3> QED
      BY <3>2, LineKinds
  <2> QED
    BY <2>1, <2>2, <2>3
<1>4. UserLines(b) = <<>>
  BY <1>2, <1>3, NoUserLines
<1>5. a \o b \in Seq(Lines)
  BY <1>2, ConcatIn
<1>6. UserLines((a \o b) \o c) = UserLines(a \o b) \o UserLines(c)
  BY <1>5, UserLinesOfConcat
<1>7. UserLines(a \o b) = UserLines(a) \o <<>>
  BY <1>2, <1>4, UserLinesOfConcat
<1>8. UserLines(a) \o <<>> = UserLines(a)
  BY UserLinesIn, ConcatEmptySeq
<1> QED
  BY <1>6, <1>7, <1>8 DEF Frame, b

LEMMA UserLinesTrimmed ==
  ASSUME NEW s \in Seq(Lines), NEW b \in Seq({Blank})
  PROVE  UserLines(s \o b) = UserLines(s)
<1>1. b \in Seq(Lines)
  BY LineKinds, SeqMonotonic
<1>2. \A i \in 1 .. Len(b) : b[i].kind # "user"
  <2>1. \A i \in 1 .. Len(b) : b[i] = Blank
    OBVIOUS
  <2> QED
    BY <2>1, LineKinds
<1>3. UserLines(b) = <<>>
  BY <1>1, <1>2, NoUserLines
<1>4. UserLines(s \o b) = UserLines(s) \o <<>>
  BY <1>1, <1>3, UserLinesOfConcat
<1> QED
  BY <1>4, UserLinesIn, ConcatEmptySeq

LEMMA NormalizedIs ==
  ASSUME NEW S \in SUBSET Lines, Blank \in S, NEW s \in Seq(S)
  PROVE  /\ TrimBlanks(s) \in Seq(S) /\ UserLines(TrimBlanks(s)) = UserLines(s)
         /\ Normalized(s) \in Seq(S) /\ UserLines(Normalized(s)) = UserLines(s)
<1> DEFINE t == TrimBlanks(s)
<1>1. t \in Seq(S) /\ \E b \in Seq({Blank}) : s = t \o b
  BY Trimmed
<1> PICK b \in Seq({Blank}) : s = t \o b
  BY <1>1
<1> HIDE DEF t
<1>2. t \in Seq(Lines)
  BY <1>1, SeqMonotonic
<1>3. <<Blank>> \in Seq({Blank}) /\ <<Blank>> \in Seq(S)
  OBVIOUS
<1>4. t \o <<Blank>> \in Seq(S)
  BY <1>1, <1>3, ConcatIn
<1>5. UserLines(s) = UserLines(t) /\ UserLines(t \o <<Blank>>) = UserLines(t)
  BY <1>2, <1>3, UserLinesTrimmed
<1> QED
  BY <1>1, <1>4, <1>5 DEF t, Normalized
-----------------------------------------------------------------------------
(* The lines of an entry set in some order.                                *)
LEMMA SetToSeqIs ==
  ASSUME NEW S, IsFiniteSet(S)
  PROVE  SetToSeq(S) \in Seq(S) /\ {SetToSeq(S)[i] : i \in 1 .. Len(SetToSeq(S))} = S
<1> DEFINE n == Cardinality(S)
           t == SetToSeq(S)
<1>1. n \in Nat /\ ExistsBijection(1 .. n, S)
  BY FS_CardinalityType
<1>2. PICK f \in Bijection(1 .. n, S) : TRUE
  BY <1>1 DEF ExistsBijection
<1>3. f \in [1 .. n -> S] /\ IsInjective(f)
  BY <1>2 DEF Bijection, Injection, IsInjective
<1>4. t \in [1 .. n -> S] /\ IsInjective(t)
  BY <1>3 DEF SetToSeq
<1> HIDE DEF t
<1>5. t \in Seq(S) /\ Len(t) = n
  <2> HIDE DEF n
  <2> QED BY <1>1, <1>4
<1>6. t \in Surjection(1 .. n, S)
  <2>1. t \in Injection(1 .. n, S)
    BY <1>4 DEF Injection, IsInjective
  <2>2. IsFiniteSet(1 .. n) /\ Cardinality(1 .. n) = n
    BY <1>1, FS_Interval
  <2> QED
    BY <2>1, <2>2, FS_Injection
<1>7. {t[i] : i \in 1 .. n} = S
  BY <1>4, <1>6 DEF Surjection
<1> QED
  BY <1>5, <1>7 DEF t

LEMMA OwnFinite == \A E \in Written : IsFiniteSet(OwnOf(E))
<1> TAKE E \in Written
<1>1. IsFiniteSet(E)
  BY HostsAssumption, FS_EmptySet DEF Written
<1> DEFINE g == [e \in E |-> HostsLine(E, e)]
<1>2. g \in Surjection(E, OwnOf(E))
  BY DEF Surjection, OwnOf
<1> QED
  BY <1>1, <1>2, FS_Surjection
-----------------------------------------------------------------------------
(* A file of lines of S, with one block of an entry set in it or none.     *)
Kinds == {Open, Foreign}
Made(s, S) ==
  \/ s \in Seq(S)
  \/ \E E \in Written : \E a \in Seq(S), m \in Seq(OwnOf(E)), c \in Seq(Foreign) : s = Frame(a, m, c)

LEMMA KindsAre ==
  \A S \in Kinds : /\ S \in SUBSET Lines /\ Blank \in S /\ Foreign \subseteq S /\ S \subseteq Open
                   /\ Seq(S) \subseteq Seq(Lines) /\ Seq(S) \subseteq Seq(Open)
                   /\ Seq(Foreign) \subseteq Seq(S)
<1>1. \A S \in Kinds : S \in SUBSET Lines /\ Blank \in S /\ Foreign \subseteq S /\ S \subseteq Open
  BY LineKinds DEF Kinds
<1> QED
  BY <1>1, SeqMonotonic

LEMMA MadeOpen ==
  ASSUME NEW S \in Kinds, NEW s, Made(s, S)
  PROVE  s \in Seq(Lines) /\ Made(s, Open)
<1>1. Seq(S) \subseteq Seq(Open) /\ Seq(Open) \subseteq Seq(Lines)
  BY KindsAre, LinesOf
<1>2. CASE s \in Seq(S)
  BY <1>1, <1>2 DEF Made
<1>3. CASE s \notin Seq(S)
  <2> PICK E \in Written : \E a \in Seq(S), m \in Seq(OwnOf(E)), c \in Seq(Foreign) : s = Frame(a, m, c)
    BY <1>3 DEF Made
  <2>1. PICK a \in Seq(S), m \in Seq(OwnOf(E)), c \in Seq(Foreign) : s = Frame(a, m, c)
    OBVIOUS
  <2>2. Made(s, Open)
    BY <1>1, <2>1 DEF Made
  <2>3. a \in Seq(Lines)
    BY <1>1
  <2> QED
    BY <2>1, <2>2, <2>3, FrameParts
<1> QED
  BY <1>2, <1>3

(* writeHostsBlock leaves one block, with the lines of the set, and the    *)
(* lines of others as they were.                                           *)
LEMMA MadeWritten ==
  ASSUME NEW S \in Kinds, NEW s, Made(s, S), NEW E \in Written
  PROVE  /\ \E a \in Seq(S), c \in Seq(Foreign) :
              WriteBlock(s, E) = Frame(a, SetToSeq(OwnOf(E)), c)
         /\ UserLines(WriteBlock(s, E)) = UserLines(s)
<1> DEFINE m == SetToSeq(OwnOf(E))
<1>1. m \in Seq(OwnOf(E))
  BY OwnFinite, SetToSeqIs
<1>2. Block(E) = Enclosed(m)
  BY DEF Block, Enclosed, OwnOf
<1> HIDE DEF m
<1>3. S \in SUBSET Lines /\ Blank \in S /\ Seq(S) \subseteq Seq(Lines) /\ Seq(S) \subseteq Seq(Open)
  BY KindsAre
<1>4. Foreign \in SUBSET Lines /\ Blank \in Foreign /\ Seq(Foreign) \subseteq Seq(Lines)
  BY LineKinds, LinesOf
<1>5. ASSUME NEW a \in Seq(S), NEW c \in Seq(Foreign), UserLines(s) = UserLines(a) \o UserLines(c),
             WriteBlock(s, E) = Normalized(Frame(a, m, c))
      PROVE  /\ \E x \in Seq(S), y \in Seq(Foreign) : WriteBlock(s, E) = Frame(x, m, y)
             /\ UserLines(WriteBlock(s, E)) = UserLines(s)
  <2>1. a \in Seq(Lines) /\ c \in Seq(Lines)
    BY <1>3, <1>4
  <2>2. /\ Normalized(c) \in Seq(Foreign)
        /\ Normalized(Frame(a, m, c)) = Frame(a, m, Normalized(c))
    BY <1>1, <2>1, NormalizedFrame
  <2>3. UserLines(Normalized(c)) = UserLines(c) /\ Normalized(c) \in Seq(Lines)
    BY <1>4, <2>2, NormalizedIs
  <2>4. UserLines(Frame(a, m, Normalized(c))) = UserLines(a) \o UserLines(Normalized(c))
    BY <1>1, <2>1, <2>3, UserLinesFrame
  <2> QED
    BY <1>5, <2>2, <2>3, <2>4
<1>6. CASE s \in Seq(S)
  <2>1. ~HasBlock(s)
    BY <1>3, <1>6, NoBlock
  <2>2. TrimBlanks(s) \in Seq(S) /\ UserLines(TrimBlanks(s)) = UserLines(s)
    BY <1>3, <1>6, NormalizedIs
  <2> DEFINE a == TrimBlanks(s) \o <<Blank>>
  <2>3. <<Blank>> \in Seq({Blank}) /\ <<Blank>> \in Seq(S)
    BY <1>3
  <2>4. a \in Seq(S)
    BY <2>2, <2>3, ConcatIn
  <2>5. UserLines(a) = UserLines(s)
    <3>1. TrimBlanks(s) \in Seq(Lines)
      BY <1>3, <2>2
    <3> QED
      BY <2>2, <2>3, <3>1, UserLinesTrimmed
  <2>6. WriteBlock(s, E) = Normalized(a \o Block(E))
    BY <2>1 DEF WriteBlock
  <2> HIDE DEF a
  <2>7. a \o Enclosed(m) = Frame(a, m, <<>>)
    <3>1. a \in Seq(Lines) /\ m \in Seq(Lines) /\ Begin \in Lines /\ End \in Lines
      BY <1>1, <1>3, <2>4, LinesOf, LineKinds
    <3>2. a \o Enclosed(m) \in Seq(Lines)
      BY <3>1, EnclosedAt, ConcatIn
    <3> QED
      BY <3>2, ConcatEmptySeq DEF Frame
  <2>8. <<>> \in Seq(Foreign) /\ UserLines(<<>>) = <<>> /\ <<>> \in Seq(Lines)
    <3> DEFINE none == <<>>
    <3>1. none \in Seq(Foreign) /\ none \in Seq(Lines) /\ \A i \in 1 .. Len(none) : FALSE
      OBVIOUS
    <3> HIDE DEF none
    <3>2. UserLines(none) = <<>>
      BY <3>1, NoUserLines
    <3> QED
      BY <3>1, <3>2 DEF none
  <2>9. UserLines(a) \o UserLines(<<>>) = UserLines(s)
    <3>1. UserLines(a) \in Seq(Foreign)
      BY <1>3, <2>4, UserLinesIn
    <3> QED
      BY <2>5, <2>8, <3>1, ConcatEmptySeq
  <2>10. WriteBlock(s, E) = Normalized(Frame(a, m, <<>>))
    BY <1>2, <2>6, <2>7
  <2> QED
    BY <1>5, <2>4, <2>8, <2>9, <2>10 DEF m
<1>7. CASE s \notin Seq(S)
  <2> PICK D \in Written : \E a \in Seq(S), k \in Seq(OwnOf(D)), c \in Seq(Foreign) : s = Frame(a, k, c)
    BY <1>7 DEF Made
  <2>1. PICK a \in Seq(S), k \in Seq(OwnOf(D)), c \in Seq(Foreign) : s = Frame(a, k, c)
    OBVIOUS
  <2>2. a \in Seq(Lines) /\ c \in Seq(Lines)
    BY <1>3, <1>4
  <2>3. HasBlock(s) /\ Before(s) = a /\ After(s) = c
    BY <2>1, <2>2, FrameParts
  <2>4. UserLines(s) = UserLines(a) \o UserLines(c)
    BY <2>1, <2>2, UserLinesFrame
  <2>5. WriteBlock(s, E) = Normalized(Frame(a, m, c))
    BY <1>2, <2>3 DEF WriteBlock, Frame
  <2> QED
    BY <1>5, <2>4, <2>5 DEF m
<1> QED
  BY <1>6, <1>7

(* removeHostsBlock leaves no marker's pair and no line of ours.           *)
LEMMA MadeRemoved ==
  ASSUME NEW S \in Kinds, NEW s, Made(s, S)
  PROVE  RemoveBlock(s) \in Seq(S) /\ UserLines(RemoveBlock(s)) = UserLines(s)
<1>1. S \in SUBSET Lines /\ Blank \in S /\ Seq(S) \subseteq Seq(Lines) /\ Seq(S) \subseteq Seq(Open)
      /\ Seq(Foreign) \subseteq Seq(S)
  BY KindsAre
<1>2. CASE s \in Seq(S)
  <2>1. ~HasBlock(s)
    BY <1>1, <1>2, NoBlock
  <2> QED
    BY <1>2, <2>1 DEF RemoveBlock
<1>3. CASE s \notin Seq(S)
  <2> PICK E \in Written : \E a \in Seq(S), m \in Seq(OwnOf(E)), c \in Seq(Foreign) : s = Frame(a, m, c)
    BY <1>3 DEF Made
  <2>1. PICK a \in Seq(S), m \in Seq(OwnOf(E)), c \in Seq(Foreign) : s = Frame(a, m, c)
    OBVIOUS
  <2>2. a \in Seq(Lines) /\ c \in Seq(Lines) /\ c \in Seq(S)
    BY <1>1
  <2>3. HasBlock(s) /\ Before(s) = a /\ After(s) = c
    BY <2>1, <2>2, FrameParts
  <2>4. UserLines(s) = UserLines(a) \o UserLines(c)
    BY <2>1, <2>2, UserLinesFrame
  <2> DEFINE last == TrimBlanks(c) = <<>> /\ a # <<>> /\ Last(a) = Blank
             cut == IF last THEN Front(a) ELSE a
  <2>5. RemoveBlock(s) = Normalized(cut \o c)
    BY <2>3 DEF RemoveBlock
  <2>6. cut \in Seq(S) /\ UserLines(cut) = UserLines(a)
    <3>1. CASE last
      <4> DEFINE f == SubSeq(a, 1, Len(a) - 1)
      <4>1. Len(a) \in 1 .. Len(a) /\ a[Len(a)] = Blank
        BY <3>1, EmptySeq DEF Last
      <4>2. f \in Seq(S)
        BY <4>1
      <4>3. a = f \o <<Blank>>
        <5>1. 1 \in 1 .. Len(a)
          BY <4>1
        <5>2. SubSeq(a, 1, Len(a)) = f \o <<a[Len(a)]>>
          BY <4>1, <5>1, SubSeqRecursiveSecond
        <5>3. SubSeq(a, 1, Len(a)) = a
          BY SubSeqFull
        <5> HIDE DEF f
        <5> QED
          BY <4>1, <5>2, <5>3
      <4> HIDE DEF f
      <4>4. f \in Seq(Lines) /\ <<Blank>> \in Seq({Blank})
        BY <1>1, <4>2
      <4>5. UserLines(a) = UserLines(f)
        BY <4>3, <4>4, UserLinesTrimmed
      <4>6. cut = f
        BY <3>1 DEF Front, f
      <4> QED
        BY <4>2, <4>5, <4>6
    <3>2. CASE ~last
      BY <3>2
    <3> QED
      BY <3>1, <3>2
  <2> HIDE DEF cut
  <2>7. cut \o c \in Seq(S) /\ cut \in Seq(Lines)
    BY <1>1, <2>2, <2>6, ConcatIn
  <2>8. UserLines(cut \o c) = UserLines(s)
    BY <2>2, <2>4, <2>6, <2>7, UserLinesOfConcat
  <2>9. /\ Normalized(cut \o c) \in Seq(S)
        /\ UserLines(Normalized(cut \o c)) = UserLines(cut \o c)
    BY <1>1, <2>7, NormalizedIs
  <2> QED
    BY <2>5, <2>8, <2>9
<1> QED
  BY <1>2, <1>3

(* A line put in outside of the block.                                     *)
LEMMA MadeEdited ==
  ASSUME NEW S \in Kinds, NEW s, Made(s, S), NEW i \in 0 .. Len(s), NEW u \in Seq(Foreign),
         NEW v \in Seq(Foreign),
         HasBlock(s) => i < LastIndex(s, Begin) \/ i >= LastIndex(s, End)
  PROVE  Made(((SubSeq(s, 1, i) \o u) \o v) \o SubSeq(s, i + 1, Len(s)), S)
<1> DEFINE t == ((SubSeq(s, 1, i) \o u) \o v) \o SubSeq(s, i + 1, Len(s))
<1>1. S \in SUBSET Lines /\ Seq(S) \subseteq Seq(Lines) /\ Seq(S) \subseteq Seq(Open)
      /\ Seq(Foreign) \subseteq Seq(S) /\ Seq(Foreign) \subseteq Seq(Lines)
  BY KindsAre, LinesOf
<1>2. u \in Seq(S) /\ v \in Seq(S) /\ u \in Seq(Lines) /\ v \in Seq(Lines)
  BY <1>1
<1>3. CASE s \in Seq(S)
  <2>1. SubSeq(s, 1, i) \in Seq(S) /\ SubSeq(s, i + 1, Len(s)) \in Seq(S)
    BY <1>3
  <2>2. t \in Seq(S)
    BY <1>2, <2>1, ConcatIn
  <2> QED
    BY <2>2 DEF Made
<1>4. CASE s \notin Seq(S)
  <2> PICK E \in Written : \E a \in Seq(S), m \in Seq(OwnOf(E)), c \in Seq(Foreign) : s = Frame(a, m, c)
    BY <1>4 DEF Made
  <2>1. PICK a \in Seq(S), m \in Seq(OwnOf(E)), c \in Seq(Foreign) : s = Frame(a, m, c)
    OBVIOUS
  <2> DEFINE b == Enclosed(m)
             x == a \o b
  <2>2. a \in Seq(Lines) /\ c \in Seq(Lines) /\ m \in Seq(Lines) /\ Begin \in Lines /\ End \in Lines
    BY <1>1, LinesOf, LineKinds
  <2>3. b \in Seq(Lines) /\ x \in Seq(Lines) /\ Len(x) = Len(a) + Len(m) + 2
    <3>1. b \in Seq(Lines) /\ Len(b) = Len(m) + 2
      BY <2>2, EnclosedAt
    <3> HIDE DEF b
    <3>2. x \in Seq(Lines) /\ Len(x) = Len(a) + Len(b)
      BY <2>2, <3>1, ConcatProperties
    <3> QED
      BY <2>2, <3>1, <3>2
  <2>4. s = x \o c
    BY <2>1 DEF Frame
  <2> HIDE DEF b
  <2>5. HasBlock(s) /\ LastIndex(s, Begin) = Len(a) + 1 /\ LastIndex(s, End) = Len(x)
    BY <2>1, <2>2, <2>3, FrameParts
  <2>6. Len(a) \in Nat /\ Len(c) \in Nat /\ Len(x) \in Nat
    BY <2>2, <2>3
  <2>7. CASE i <= Len(a)
    <3>1. PICK p \in Seq(S), q \in Seq(S) : a = p \o q /\ Len(p) = i
      <4>1. i \in 0 .. Len(a)
        BY <2>6, <2>7
      <4>2. S \in SUBSET Lines
        BY <1>1
      <4> HIDE DEF t
      <4> QED
        BY <4>1, <4>2, Halves, ZenonT(60)
    <3>2. p \in Seq(Lines) /\ q \in Seq(Lines)
      BY <1>1
    <3> DEFINE w == q \o b
               r == w \o c
    <3>3. w \in Seq(Lines)
      BY <2>3, <3>2, ConcatIn
    <3>4. s = p \o r /\ r \in Seq(Lines)
      <4>1. (p \o q) \o b = p \o w
        BY <2>3, <3>2, Regroup
      <4> HIDE DEF w
      <4>2. (p \o w) \o c = p \o (w \o c)
        <5>1. p \in Seq(Lines) /\ w \in Seq(Lines) /\ c \in Seq(Lines)
          BY <2>2, <3>2, <3>3
        <5> HIDE DEF x
        <5> QED
          BY <5>1, Regroup, Zenon
      <4>3. w \o c \in Seq(Lines)
        BY <2>2, <3>3, ConcatIn
      <4> QED
        BY <2>4, <3>1, <4>1, <4>2, <4>3
    <3> HIDE DEF r, w
    <3>5. SubSeq(s, 1, i) = p /\ SubSeq(s, i + 1, Len(s)) = r
      BY <3>1, <3>2, <3>4, SplitAt
    <3> DEFINE h == (p \o u) \o v
    <3>6. h \in Seq(S) /\ h \in Seq(Lines) /\ h \o q \in Seq(S)
      BY <1>1, <1>2, ConcatIn
    <3> HIDE DEF h
    <3>7. h \o r = ((h \o q) \o b) \o c
      <4>1. h \o (w \o c) = (h \o w) \o c
        BY <2>2, <3>3, <3>6, Regroup, ZenonT(60)
      <4>2. h \o (q \o b) = (h \o q) \o b
        <5> HIDE DEF x
        <5> QED
          BY <2>3, <3>2, <3>6, Regroup, ZenonT(60)
      <4> QED
        BY <4>1, <4>2 DEF r, w
    <3>8. t = Frame(h \o q, m, c)
      BY <3>5, <3>7 DEF h, Frame, b
    <3> HIDE DEF t
    <3> QED
      BY <3>6, <3>8 DEF Made, t
  <2>8. CASE ~(i <= Len(a))
    <3>1. i >= Len(x) /\ i - Len(x) \in 0 .. Len(c)
      <4>1. ~(i < Len(a) + 1)
        BY <2>6, <2>8
      <4>2. Len(s) = Len(x) + Len(c)
        BY <2>2, <2>3, <2>4, ConcatProperties
      <4> HIDE DEF x
      <4> QED
        BY <2>5, <2>6, <4>1, <4>2
    <3>2. PICK p \in Seq(Foreign), q \in Seq(Foreign) : c = p \o q /\ Len(p) = i - Len(x)
      <4>1. Foreign \in SUBSET Lines
        BY LineKinds
      <4>2. \A k \in 0 .. Len(c) :
              \E p \in Seq(Foreign), q \in Seq(Foreign) : c = p \o q /\ Len(p) = k
        BY <4>1, Halves
      <4> HIDE DEF x
      <4> QED
        BY <3>1, <4>2
    <3>3. p \in Seq(Lines) /\ q \in Seq(Lines)
      BY <1>1
    <3> HIDE DEF x
    <3>4. x \o p \in Seq(Lines) /\ Len(x \o p) = i
      <4>1. x \o p \in Seq(Lines) /\ Len(x \o p) = Len(x) + Len(p)
        BY <2>3, <3>3, ConcatProperties
      <4>2. Len(x) + Len(p) = i
        BY <2>6, <3>2
      <4> QED
        BY <4>1, <4>2
    <3>5. s = (x \o p) \o q
      BY <2>3, <2>4, <3>2, <3>3, Regroup
    <3>6. SubSeq(s, 1, i) = x \o p /\ SubSeq(s, i + 1, Len(s)) = q
      BY <3>3, <3>4, <3>5, SplitAt
    <3> DEFINE h == (p \o u) \o v
    <3>7. p \o u \in Seq(Foreign) /\ h \in Seq(Foreign) /\ h \o q \in Seq(Foreign)
          /\ p \o u \in Seq(Lines) /\ h \in Seq(Lines)
      BY <1>1, ConcatIn
    <3>8. (((x \o p) \o u) \o v) \o q = x \o (h \o q)
      <4>1. (x \o p) \o u = x \o (p \o u)
        BY <1>2, <2>3, <3>3, Regroup, ZenonT(60)
      <4>2. (x \o (p \o u)) \o v = x \o h
        BY <1>2, <2>3, <3>7, Regroup, ZenonT(60)
      <4> HIDE DEF h
      <4>3. (x \o h) \o q = x \o (h \o q)
        BY <2>3, <3>3, <3>7, Regroup
      <4> QED
        BY <4>1, <4>2, <4>3
    <3>9. t = Frame(a, m, h \o q)
      BY <3>6, <3>8 DEF Frame, b, x
    <3> HIDE DEF t, h
    <3> QED
      BY <3>7, <3>9 DEF Made, t
  <2> QED
    BY <2>7, <2>8
<1> QED
  BY <1>3, <1>4

(* What a crash leaves of a file with a block.                             *)
LEMMA MadeTorn ==
  ASSUME NEW S \in Kinds, NEW E \in Written, NEW a \in Seq(S), NEW m \in Seq(OwnOf(E)),
         NEW c \in Seq(Foreign), NEW n \in 0 .. Len(Frame(a, m, c))
  PROVE  Made(SubSeq(Frame(a, m, c), 1, n), Open)
<1> DEFINE f == Frame(a, m, c)
           b == Enclosed(m)
           x == a \o b
<1>1. /\ Seq(S) \subseteq Seq(Lines) /\ Seq(S) \subseteq Seq(Open)
      /\ Seq(Foreign) \subseteq Seq(Open) /\ Seq(Open) \subseteq Seq(Lines)
  BY KindsAre, LinesOf
<1>2. a \in Seq(Lines) /\ c \in Seq(Lines) /\ m \in Seq(Lines) /\ Begin \in Lines /\ End \in Lines
      /\ a \in Seq(Open)
  BY <1>1, LinesOf, LineKinds
<1>3. /\ f \in Seq(Lines) /\ Len(f) = Len(a) + Len(m) + 2 + Len(c)
      /\ \A i \in 1 .. Len(a) : f[i] = a[i]
      /\ f[Len(a) + 1] = Begin
      /\ \A j \in 1 .. Len(m) : f[Len(a) + 1 + j] = m[j]
  <2> HIDE DEF f
  <2>1. a \in Seq(Lines) /\ m \in Seq(Lines) /\ c \in Seq(Lines)
    BY <1>2
  <2>2. /\ Frame(a, m, c) \in Seq(Lines)
        /\ Len(Frame(a, m, c)) = Len(a) + Len(m) + 2 + Len(c)
        /\ \A i \in 1 .. Len(a) : Frame(a, m, c)[i] = a[i]
        /\ Frame(a, m, c)[Len(a) + 1] = Begin
        /\ \A j \in 1 .. Len(m) : Frame(a, m, c)[Len(a) + 1 + j] = m[j]
        /\ Frame(a, m, c)[Len(a) + Len(m) + 2] = End
        /\ \A j \in 1 .. Len(c) : Frame(a, m, c)[Len(a) + Len(m) + 2 + j] = c[j]
    BY <2>1, FrameAt
  <2> QED
    BY <2>2 DEF f
<1>4. Len(a) \in Nat /\ Len(m) \in Nat /\ Len(c) \in Nat
  OBVIOUS
<1>5. CASE n < Len(a) + Len(m) + 2
  <2>1. ASSUME NEW i \in 1 .. n PROVE f[i] \in Open
    <3>1. CASE i <= Len(a)
      <4>1. i \in 1 .. Len(a) /\ a[i] \in Open
        BY <1>2, <1>4, <3>1, ElementOfSeq
      <4> HIDE DEF f
      <4> QED BY <1>3, <4>1
    <3>2. CASE i = Len(a) + 1
      <4> HIDE DEF f
      <4> QED BY <1>3, <3>2, LineKinds
    <3>3. CASE i > Len(a) + 1
      <4> DEFINE j == i - (Len(a) + 1)
      <4>1. j \in 1 .. Len(m) /\ i = Len(a) + 1 + j
        BY <1>4, <1>5, <3>3
      <4> HIDE DEF f, j
      <4>2. f[i] = m[j] /\ m[j] \in OwnOf(E)
        BY <1>3, <4>1
      <4> QED
        BY <4>2, LineKinds
    <3> QED
      BY <1>4, <3>1, <3>2, <3>3
  <2>2. SubSeq(f, 1, n) \in Seq(Open)
    <3> HIDE DEF f
    <3>1. 1 \in Int /\ n \in Int
      OBVIOUS
    <3> QED BY <2>1, <3>1, SubSeqProperties
  <2> HIDE DEF f
  <2> QED BY <2>2 DEF Made, f
<1>6. CASE ~(n < Len(a) + Len(m) + 2)
  <2>1. b \in Seq(Lines) /\ x \in Seq(Lines) /\ Len(x) = Len(a) + Len(m) + 2
    <3>1. b \in Seq(Lines) /\ Len(b) = Len(m) + 2
      BY <1>2, EnclosedAt
    <3> HIDE DEF b
    <3>2. x \in Seq(Lines) /\ Len(x) = Len(a) + Len(b)
      BY <1>2, <3>1, ConcatProperties
    <3> QED
      BY <1>4, <3>1, <3>2
  <2>2. f = x \o c
    BY DEF Frame
  <2> HIDE DEF f, b, x
  <2>3. n \in 0 .. Len(f)
    BY DEF f
  <2>4. n - Len(x) \in 0 .. Len(c)
    BY <1>3, <1>4, <1>6, <2>1, <2>3
  <2>5. PICK p \in Seq(Foreign), q \in Seq(Foreign) : c = p \o q /\ Len(p) = n - Len(x)
    <3>1. Foreign \in SUBSET Lines
      BY LineKinds
    <3> QED
      BY <2>4, <3>1, Halves, ZenonT(60)
  <2>6. p \in Seq(Lines) /\ q \in Seq(Lines)
    BY <1>1
  <2>7. x \o p \in Seq(Lines) /\ Len(x \o p) = n
    <3>1. x \o p \in Seq(Lines) /\ Len(x \o p) = Len(x) + Len(p)
      BY <2>1, <2>6, ConcatProperties
    <3>2. Len(x) + Len(p) = n
      BY <1>4, <2>1, <2>5
    <3> QED
      BY <3>1, <3>2
  <2>8. f = (x \o p) \o q
    BY <2>1, <2>2, <2>5, <2>6, Regroup
  <2>9. SubSeq(f, 1, n) = x \o p
    BY <2>6, <2>7, <2>8, SplitAt
  <2>10. SubSeq(f, 1, n) = Frame(a, m, p)
    BY <2>9 DEF Frame, x, b
  <2> QED
    BY <1>2, <2>10 DEF Made, f
<1> QED
  BY <1>5, <1>6
-----------------------------------------------------------------------------
(* What the markers of a file say of it.                                   *)
At(s, l) == {i \in DOMAIN s : s[i] = l}

LEMMA AtFinite ==
  \A s \in Seq(Lines) : \A l : IsFiniteSet(At(s, l)) /\ At(s, l) = {i \in 1 .. Len(s) : s[i] = l}
<1> TAKE s \in Seq(Lines)
<1> TAKE l
<1>1. At(s, l) = {i \in 1 .. Len(s) : s[i] = l}
  BY DEF At
<1>2. IsFiniteSet(1 .. Len(s))
  <2>1. 1 \in Int /\ Len(s) \in Int
    OBVIOUS
  <2> QED
    BY <2>1, FS_Interval
<1>3. At(s, l) \in SUBSET (1 .. Len(s))
  BY <1>1
<1> QED
  BY <1>1, <1>2, <1>3, FS_Subset

LEMMA WellFormedIs ==
  ASSUME NEW s \in Seq(Lines)
  PROVE  WellFormed(s) <=>
           /\ Cardinality(At(s, Begin)) = Cardinality(At(s, End)) /\ Cardinality(At(s, Begin)) <= 1
           /\ \A i \in 1 .. Len(s) : s[i].kind = "own" => LastIndex(s, Begin) < i /\ i < LastIndex(s, End)
<1>1. DOMAIN s = 1 .. Len(s)
  OBVIOUS
<1> QED
  BY <1>1 DEF WellFormed, At

LEMMA PlainFile ==
  ASSUME NEW s \in Seq(Foreign)
  PROVE  WellFormed(s) /\ OwnLines(s) = {} /\ ~HasBlock(s)
<1>1. s \in Seq(Lines) /\ s \in Seq(Open)
  BY LinesOf
<1>2. \A i \in 1 .. Len(s) : s[i].kind # "own" /\ s[i] # Begin /\ s[i] # End
  <2>1. \A i \in 1 .. Len(s) : s[i] \in Foreign
    BY ElementOfSeq
  <2> QED
    BY <2>1, LineKinds
<1>3. At(s, Begin) = {} /\ At(s, End) = {}
  BY <1>1, <1>2, AtFinite
<1>4. WellFormed(s)
  <2>1. Cardinality(At(s, Begin)) = 0 /\ Cardinality(At(s, End)) = 0
    BY <1>3, FS_EmptySet
  <2> QED
    BY <1>1, <1>2, <2>1, WellFormedIs
<1>5. OwnLines(s) = {}
  BY <1>2 DEF OwnLines
<1> QED
  BY <1>1, <1>4, <1>5, NoBlock

(* One place in a file with a block: before it, in it or after it.         *)
LEMMA FramePlace ==
  ASSUME NEW E \in Written, NEW a \in Seq(Lines), NEW m \in Seq(OwnOf(E)), NEW c \in Seq(Foreign),
         NEW i \in 1 .. Len(Frame(a, m, c))
  PROVE  \/ i \in 1 .. Len(a) /\ Frame(a, m, c)[i] = a[i]
         \/ i = Len(a) + 1 /\ Frame(a, m, c)[i] = Begin
         \/ /\ i > Len(a) + 1 /\ i < Len(a) + Len(m) + 2
            /\ \E j \in 1 .. Len(m) : Frame(a, m, c)[i] = m[j]
         \/ i = Len(a) + Len(m) + 2 /\ Frame(a, m, c)[i] = End
         \/ i > Len(a) + Len(m) + 2 /\ Frame(a, m, c)[i] \in Foreign
<1> DEFINE f == Frame(a, m, c)
<1>1. a \in Seq(Lines) /\ m \in Seq(Lines) /\ c \in Seq(Lines)
  BY LinesOf
<1>2. /\ f \in Seq(Lines)
      /\ Len(f) = Len(a) + Len(m) + 2 + Len(c)
      /\ \A k \in 1 .. Len(a) : f[k] = a[k]
      /\ f[Len(a) + 1] = Begin
      /\ \A j \in 1 .. Len(m) : f[Len(a) + 1 + j] = m[j]
      /\ f[Len(a) + Len(m) + 2] = End
      /\ \A j \in 1 .. Len(c) : f[Len(a) + Len(m) + 2 + j] = c[j]
  <2>2. /\ Frame(a, m, c) \in Seq(Lines)
        /\ Len(Frame(a, m, c)) = Len(a) + Len(m) + 2 + Len(c)
        /\ \A k \in 1 .. Len(a) : Frame(a, m, c)[k] = a[k]
        /\ Frame(a, m, c)[Len(a) + 1] = Begin
        /\ \A j \in 1 .. Len(m) : Frame(a, m, c)[Len(a) + 1 + j] = m[j]
        /\ Frame(a, m, c)[Len(a) + Len(m) + 2] = End
        /\ \A j \in 1 .. Len(c) : Frame(a, m, c)[Len(a) + Len(m) + 2 + j] = c[j]
    <3> HIDE DEF f
    <3> QED BY <1>1, FrameAt
  <2> QED
    BY <2>2
<1>3. Len(a) \in Nat /\ Len(m) \in Nat /\ Len(c) \in Nat /\ i \in 1 .. Len(f)
  OBVIOUS
<1> HIDE DEF f
<1>4. CASE i <= Len(a)
  <2>1. i \in 1 .. Len(a)
    BY <1>3, <1>4
  <2> QED
    BY <1>2, <2>1 DEF f
<1>5. CASE i = Len(a) + 1
  BY <1>2, <1>5 DEF f
<1>6. CASE i > Len(a) + 1 /\ i < Len(a) + Len(m) + 2
  <2> DEFINE j == i - (Len(a) + 1)
  <2>1. j \in 1 .. Len(m) /\ i = Len(a) + 1 + j
    BY <1>3, <1>6
  <2> HIDE DEF j
  <2>2. f[i] = m[j]
    BY <1>2, <2>1
  <2> QED
    BY <1>6, <2>1, <2>2 DEF f
<1>7. CASE i = Len(a) + Len(m) + 2
  BY <1>2, <1>7 DEF f
<1>8. CASE i > Len(a) + Len(m) + 2
  <2> DEFINE j == i - (Len(a) + Len(m) + 2)
  <2>1. j \in 1 .. Len(c) /\ i = Len(a) + Len(m) + 2 + j
    <3>1. Len(f) = Len(a) + Len(m) + 2 + Len(c)
      BY <1>2
    <3>2. i \in Nat /\ i <= Len(a) + Len(m) + 2 + Len(c)
      BY <1>3, <3>1
    <3> QED
      BY <1>3, <1>8, <3>2
  <2> HIDE DEF j
  <2>2. f[i] = c[j] /\ c[j] \in Foreign
    BY <1>2, <2>1, ElementOfSeq
  <2> QED
    BY <1>8, <2>2 DEF f
<1>9. \/ i <= Len(a) \/ i = Len(a) + 1 \/ (i > Len(a) + 1 /\ i < Len(a) + Len(m) + 2)
      \/ i = Len(a) + Len(m) + 2 \/ i > Len(a) + Len(m) + 2
  BY <1>3, SMTT(40)
<1> QED
  BY <1>4, <1>5, <1>6, <1>7, <1>8, <1>9

LEMMA FramedFile ==
  ASSUME NEW E \in Written, NEW a \in Seq(Foreign), NEW m \in Seq(OwnOf(E)), NEW c \in Seq(Foreign)
  PROVE  /\ WellFormed(Frame(a, m, c)) /\ HasBlock(Frame(a, m, c))
         /\ OwnLines(Frame(a, m, c)) = {m[j] : j \in 1 .. Len(m)}
<1> DEFINE f == Frame(a, m, c)
           p == Len(a) + 1
           q == Len(a) + Len(m) + 2
<1>1. a \in Seq(Lines) /\ m \in Seq(Lines) /\ c \in Seq(Lines)
  BY LinesOf
<1>2. f \in Seq(Lines) /\ HasBlock(f) /\ LastIndex(f, Begin) = p /\ LastIndex(f, End) = q
  BY <1>1, FrameParts
<1>3. /\ Len(f) = Len(a) + Len(m) + 2 + Len(c)
      /\ f[p] = Begin /\ f[q] = End
      /\ \A j \in 1 .. Len(m) : f[Len(a) + 1 + j] = m[j]
  <2>1. /\ Frame(a, m, c) \in Seq(Lines)
        /\ Len(Frame(a, m, c)) = Len(a) + Len(m) + 2 + Len(c)
        /\ \A k \in 1 .. Len(a) : Frame(a, m, c)[k] = a[k]
        /\ Frame(a, m, c)[Len(a) + 1] = Begin
        /\ \A j \in 1 .. Len(m) : Frame(a, m, c)[Len(a) + 1 + j] = m[j]
        /\ Frame(a, m, c)[Len(a) + Len(m) + 2] = End
        /\ \A j \in 1 .. Len(c) : Frame(a, m, c)[Len(a) + Len(m) + 2 + j] = c[j]
    <3> HIDE DEF f, p, q
    <3> QED BY <1>1, FrameAt
  <2> QED
    BY <2>1
<1>4. /\ \A j \in 1 .. Len(a) : a[j].kind # "own" /\ a[j] # Begin /\ a[j] # End
      /\ \A j \in 1 .. Len(m) : m[j].kind = "own" /\ m[j] # Begin /\ m[j] # End
      /\ \A l \in Foreign : l.kind # "own" /\ l # Begin /\ l # End
      /\ Begin.kind # "own" /\ End.kind # "own" /\ Begin # End
  <2>1. \A j \in 1 .. Len(a) : a[j] \in Foreign
    BY ElementOfSeq
  <2>2. \A j \in 1 .. Len(m) : m[j] \in OwnOf(E)
    BY ElementOfSeq
  <2> QED
    BY <2>1, <2>2, LineKinds
<1>5. Len(a) \in Nat /\ Len(m) \in Nat /\ Len(c) \in Nat
  OBVIOUS
<1>6. ASSUME NEW i \in 1 .. Len(f)
      PROVE  /\ f[i] = Begin => i = p
             /\ f[i] = End => i = q
             /\ f[i].kind = "own" => p < i /\ i < q /\ \E j \in 1 .. Len(m) : f[i] = m[j]
  <2> HIDE DEF f, p, q
  <2>1. \/ i \in 1 .. Len(a) /\ f[i] = a[i]
        \/ i = p /\ f[i] = Begin
        \/ i > p /\ i < q /\ \E j \in 1 .. Len(m) : f[i] = m[j]
        \/ i = q /\ f[i] = End
        \/ i > q /\ f[i] \in Foreign
    <3> USE DEF f, p, q
    <3> QED BY <1>1, FramePlace
  <2>2. p \in Nat /\ q \in Nat /\ i \in Nat
    BY <1>5 DEF p, q
  <2> QED
    BY <1>4, <2>1, <2>2
<1> HIDE DEF f, p, q
<1>7. p \in 1 .. Len(f) /\ q \in 1 .. Len(f)
  BY <1>3, <1>5 DEF p, q
<1>8. At(f, Begin) = {p} /\ At(f, End) = {q}
  <2>1. At(f, Begin) = {i \in 1 .. Len(f) : f[i] = Begin} /\ At(f, End) = {i \in 1 .. Len(f) : f[i] = End}
    BY <1>2, AtFinite
  <2> QED
    BY <1>3, <1>6, <1>7, <2>1
<1>9. WellFormed(f)
  <2>1. Cardinality(At(f, Begin)) = 1 /\ Cardinality(At(f, End)) = 1
    BY <1>8, FS_Singleton
  <2> QED
    BY <1>2, <1>6, <2>1, WellFormedIs
<1>10. OwnLines(f) = {m[j] : j \in 1 .. Len(m)}
  <2>1. DOMAIN f = 1 .. Len(f)
    BY <1>2
  <2>2. ASSUME NEW j \in 1 .. Len(m) PROVE m[j] \in OwnLines(f)
    <3>1. Len(a) + 1 + j \in 1 .. Len(f)
      BY <1>3, <1>5
    <3>2. f[Len(a) + 1 + j] = m[j] /\ m[j].kind = "own"
      BY <1>3, <1>4
    <3> QED
      BY <2>1, <3>1, <3>2 DEF OwnLines
  <2>3. ASSUME NEW l \in OwnLines(f) PROVE \E j \in 1 .. Len(m) : l = m[j]
    <3>1. PICK i \in 1 .. Len(f) : l = f[i] /\ f[i].kind = "own"
      BY <2>1 DEF OwnLines
    <3> QED
      BY <1>6, <3>1
  <2> QED
    BY <2>2, <2>3
<1> QED
  BY <1>2, <1>9, <1>10 DEF f

LEMMA CleanIsWellFormed ==
  ASSUME NEW s, Made(s, Foreign) PROVE WellFormed(s)
BY PlainFile, FramedFile DEF Made

(* A file that a crash has torn, and that is well formed, is like any.     *)
LEMMA WellFormedIsClean ==
  ASSUME NEW s, Made(s, Open), WellFormed(s)
  PROVE  Made(s, Foreign)
<1>1. s \in Seq(Lines)
  BY MadeOpen DEF Kinds
<1>2. /\ Cardinality(At(s, Begin)) = Cardinality(At(s, End)) /\ Cardinality(At(s, Begin)) <= 1
      /\ \A i \in 1 .. Len(s) : s[i].kind = "own" => LastIndex(s, Begin) < i /\ i < LastIndex(s, End)
  BY <1>1, WellFormedIs
<1>3. \A l \in Open : l # Begin /\ l.kind # "own" => l \in Foreign
  BY LineKinds DEF Open, Lines
<1>4. ASSUME NEW t \in Seq(Open), \A i \in 1 .. Len(t) : t[i] # Begin /\ t[i].kind # "own"
      PROVE  t \in Seq(Foreign)
  <2>1. \A i \in 1 .. Len(t) : t[i] \in Foreign
    BY <1>3, <1>4, ElementOfSeq
  <2>2. 1 \in Int /\ Len(t) \in Int
    OBVIOUS
  <2>3. SubSeq(t, 1, Len(t)) \in Seq(Foreign)
    BY <2>1, <2>2, SubSeqProperties
  <2> QED
    BY <2>3, SubSeqFull
<1>5. CASE s \in Seq(Open)
  <2>1. \A i \in 1 .. Len(s) : s[i] # End
    BY <1>5 DEF Open
  <2>2. At(s, End) = {} /\ LastIndex(s, End) = 0
    BY <1>1, <2>1, AtFinite, LastIndexNone
  <2>3. At(s, Begin) = {}
    BY <1>1, <1>2, <2>2, AtFinite, FS_EmptySet
  <2>4. \A i \in 1 .. Len(s) : s[i] # Begin
    BY <1>1, <2>3, AtFinite
  <2>5. \A i \in 1 .. Len(s) : s[i].kind # "own"
    BY <1>2, <2>2
  <2>6. s \in Seq(Foreign)
    BY <1>4, <1>5, <2>4, <2>5
  <2> QED
    BY <2>6 DEF Made
<1>6. CASE s \notin Seq(Open)
  <2> PICK E \in Written : \E a \in Seq(Open), m \in Seq(OwnOf(E)), c \in Seq(Foreign) : s = Frame(a, m, c)
    BY <1>6 DEF Made
  <2>1. PICK a \in Seq(Open), m \in Seq(OwnOf(E)), c \in Seq(Foreign) : s = Frame(a, m, c)
    OBVIOUS
  <2>2. a \in Seq(Lines) /\ m \in Seq(Lines) /\ c \in Seq(Lines)
    BY LinesOf
  <2>3. LastIndex(s, Begin) = Len(a) + 1
    BY <2>1, <2>2, FrameParts
  <2>4. Len(s) = Len(a) + Len(m) + 2 + Len(c) /\ s[Len(a) + 1] = Begin /\ \A i \in 1 .. Len(a) : s[i] = a[i]
    <3>1. /\ Frame(a, m, c) \in Seq(Lines)
          /\ Len(Frame(a, m, c)) = Len(a) + Len(m) + 2 + Len(c)
          /\ \A k \in 1 .. Len(a) : Frame(a, m, c)[k] = a[k]
          /\ Frame(a, m, c)[Len(a) + 1] = Begin
          /\ \A j \in 1 .. Len(m) : Frame(a, m, c)[Len(a) + 1 + j] = m[j]
          /\ Frame(a, m, c)[Len(a) + Len(m) + 2] = End
          /\ \A j \in 1 .. Len(c) : Frame(a, m, c)[Len(a) + Len(m) + 2 + j] = c[j]
      BY <2>2, FrameAt
    <3> QED
      BY <2>1, <3>1
  <2>5. Len(a) \in Nat /\ Len(m) \in Nat /\ Len(c) \in Nat
    OBVIOUS
  <2>6. Len(a) + 1 \in At(s, Begin)
    <3>1. Len(a) + 1 \in 1 .. Len(s)
      BY <2>4, <2>5
    <3> QED
      BY <1>1, <2>4, <3>1, AtFinite
  <2>7. At(s, Begin) = {Len(a) + 1}
    <3>1. IsFiniteSet(At(s, Begin))
      BY <1>1, AtFinite
    <3>2. Cardinality(At(s, Begin)) \in Nat /\ Cardinality(At(s, Begin)) # 0
      BY <2>6, <3>1, FS_CardinalityType, FS_EmptySet
    <3>3. Cardinality(At(s, Begin)) = 1
      BY <1>2, <3>2
    <3>4. \E x : At(s, Begin) = {x}
      BY <3>1, <3>3, FS_Singleton
    <3> QED
      BY <2>6, <3>4
  <2>8. ASSUME NEW i \in 1 .. Len(a) PROVE a[i] # Begin /\ a[i].kind # "own"
    <3>1. i \in 1 .. Len(s) /\ i # Len(a) + 1 /\ ~(Len(a) + 1 < i)
      BY <2>4, <2>5
    <3>2. i \notin At(s, Begin)
      BY <2>7, <3>1
    <3>3. s[i] # Begin
      BY <1>1, <3>1, <3>2, AtFinite
    <3>4. s[i].kind # "own"
      BY <1>2, <2>3, <3>1
    <3> QED
      BY <2>4, <3>3, <3>4
  <2>9. a \in Seq(Foreign)
    BY <1>4, <2>8
  <2> QED
    BY <2>1, <2>9 DEF Made
<1> QED
  BY <1>5, <1>6
-----------------------------------------------------------------------------
(* Two hosts of one set share a name only if the user gave the one the     *)
(* MagicDNS name of the other.                                             *)
LEMMA NamesApart ==
  ASSUME NEW E \in Written, NEW e \in E, NEW f \in E,
         HostsLine(E, e).names \cap HostsLine(E, f).names # {}
  PROVE  e.ip = f.ip \/ Borrows(e, f) \/ Borrows(f, e)
<1>1. \A x \in E : Qualified(E, x) \in {x.alias, x.alias \o x.domain}
  BY DEF Qualified
<1>2. \A x \in E : \/ Alias(E, x) = x.fqdn
                   \/ /\ Alias(E, x) = Qualified(E, x)
                      /\ \A y \in E : Qualified(E, y) = Qualified(E, x) => y.ip = x.ip
  BY DEF Alias
<1>3. PICK n : n \in HostsLine(E, e).names /\ n \in HostsLine(E, f).names
  OBVIOUS
<1>4. n \in {Alias(E, e), e.fqdn} /\ n \in {Alias(E, f), f.fqdn}
  BY <1>3 DEF HostsLine
<1>5. CASE n = e.fqdn
  BY <1>1, <1>2, <1>4, <1>5 DEF Borrows
<1>6. CASE n = f.fqdn
  BY <1>1, <1>2, <1>4, <1>6 DEF Borrows
<1>7. CASE n # e.fqdn /\ n # f.fqdn
  BY <1>2, <1>4, <1>7
<1> QED
  BY <1>5, <1>6, <1>7

(* The inductive invariant: the file is one of lines the daemon and others *)
(* write, with at most one block, and only a crash leaves marks of the     *)
(* daemon in front of it.                                                  *)
HostsInv ==
  /\ Made(file, Open)
  /\ ~torn => Made(file, Foreign)
  /\ applied \in Written /\ torn \in BOOLEAN

LEMMA HostsInit_Inv == HostsInit => HostsInv
<1> SUFFICES ASSUME HostsInit PROVE HostsInv
  OBVIOUS
<1>1. file \in Seq(Foreign) /\ file \in Seq(Open)
  <2>1. Blank \in Foreign /\ file \in {<<Blank>>, <<Blank, Blank>>}
    BY LineKinds DEF HostsInit
  <2> DEFINE B == Blank
  <2> HIDE DEF B
  <2>2. B \in Foreign /\ file \in {<<B>>, <<B, B>>}
    BY <2>1 DEF B
  <2>3. file \in Seq(Foreign)
    <3>1. <<B>> \in Seq(Foreign) /\ <<B, B>> \in Seq(Foreign)
      BY <2>2
    <3> QED
      BY <2>2, <3>1, Zenon
  <2> QED
    BY <2>3, LinesOf
<1>2. {} \in Written
  BY DEF Written
<1> QED
  BY <1>1, <1>2 DEF HostsInit, HostsInv, Made

LEMMA HostsNext_Inv == HostsInv /\ [HostsNext]_hostsVars => HostsInv'
<1> SUFFICES ASSUME HostsInv, [HostsNext]_hostsVars PROVE HostsInv'
  OBVIOUS
<1> USE DEF HostsInv
<1>0. Open \in Kinds /\ Foreign \in Kinds
  BY DEF Kinds
<1>1. ASSUME NEW E \in HostsInputs, Apply(E) PROVE HostsInv'
  <2>1. E \in Written /\ SetToSeq(OwnOf(E)) \in Seq(OwnOf(E))
    BY OwnFinite, SetToSeqIs DEF Written
  <2>2. ASSUME NEW S \in Kinds, Made(file, S) PROVE Made(WriteBlock(file, E), S)
    <3>1. \E a \in Seq(S), c \in Seq(Foreign) : WriteBlock(file, E) = Frame(a, SetToSeq(OwnOf(E)), c)
      BY <2>1, <2>2, MadeWritten
    <3> QED
      BY <2>1, <3>1 DEF Made
  <2>3. Made(WriteBlock(file, E), Open) /\ (~torn => Made(WriteBlock(file, E), Foreign))
    BY <1>0, <2>2
  <2>4. file' = WriteBlock(file, E) /\ applied' = E /\ torn' = torn
    BY <1>1 DEF Apply
  <2> QED
    BY <2>1, <2>3, <2>4 DEF Made
<1>2. ASSUME NEW E \in HostsInputs, CrashInWrite(E) PROVE HostsInv'
  <2>1. E \in Written /\ SetToSeq(OwnOf(E)) \in Seq(OwnOf(E)) /\ Made(file, Foreign)
    BY <1>2, OwnFinite, SetToSeqIs DEF Written, CrashInWrite
  <2> DEFINE w == WriteBlock(file, E)
             m == SetToSeq(OwnOf(E))
  <2>2. PICK a \in Seq(Foreign), c \in Seq(Foreign) : w = Frame(a, m, c)
    BY <1>0, <2>1, MadeWritten
  <2>3. w \in Seq(Lines)
    <3>1. a \in Seq(Lines)
      BY LinesOf
    <3> QED
      BY <2>1, <2>2, <3>1, FrameParts
  <2>4. PICK n \in 0 .. Len(w) - 1 : file' = SubSeq(w, 1, n)
    BY <1>2 DEF CrashInWrite
  <2> HIDE DEF w, m
  <2>5. n \in 0 .. Len(w)
    BY <2>3
  <2>6. Made(SubSeq(w, 1, n), Open)
    <3>1. m \in Seq(OwnOf(E)) /\ n \in 0 .. Len(Frame(a, m, c))
      BY <2>1, <2>2, <2>5 DEF m
    <3> QED
      BY <1>0, <2>1, <2>2, <3>1, MadeTorn
  <2>7. torn' = TRUE /\ applied' = applied
    BY <1>2 DEF CrashInWrite
  <2> QED
    BY <2>4, <2>6, <2>7 DEF Made
<1>3. CASE Cleanup
  <2>1. ASSUME NEW S \in Kinds, Made(file, S) PROVE Made(RemoveBlock(file), S)
    BY <2>1, MadeRemoved DEF Made
  <2>2. Made(RemoveBlock(file), Open) /\ (~torn => Made(RemoveBlock(file), Foreign))
    BY <1>0, <2>1
  <2>3. file' = RemoveBlock(file) /\ applied' = {} /\ torn' = torn /\ {} \in Written
    BY <1>3 DEF Cleanup, Written
  <2> QED
    BY <2>2, <2>3 DEF Made
<1>4. ASSUME NEW u \in UserLine, NEW more \in {<<>>, <<Blank>>}, Edit(u, more) PROVE HostsInv'
  <2> DEFINE l == <<[kind |-> "user", line |-> u]>>
  <2>1. l \in Seq(Foreign) /\ more \in Seq(Foreign)
    <3>1. [kind |-> "user", line |-> u] \in Foreign /\ Blank \in Foreign
      BY DEF Foreign
    <3>2. l \in Seq(Foreign) /\ <<Blank>> \in Seq(Foreign) /\ <<>> \in Seq(Foreign)
      <4> HIDE DEF Foreign
      <4> QED BY <3>1
    <3> QED
      BY <3>2, Zenon
  <2>2. PICK i \in 0 .. Len(file) :
          /\ HasBlock(file) => i < LastIndex(file, Begin) \/ i >= LastIndex(file, End)
          /\ file' = ((SubSeq(file, 1, i) \o l) \o more) \o SubSeq(file, i + 1, Len(file))
    BY <1>4 DEF Edit
  <2> HIDE DEF l
  <2>3. ASSUME NEW S \in Kinds, Made(file, S)
        PROVE  Made(((SubSeq(file, 1, i) \o l) \o more) \o SubSeq(file, i + 1, Len(file)), S)
    BY <2>1, <2>2, <2>3, MadeEdited
  <2> DEFINE t == ((SubSeq(file, 1, i) \o l) \o more) \o SubSeq(file, i + 1, Len(file))
  <2>4. Made(t, Open) /\ (~torn => Made(t, Foreign))
    BY <1>0, <2>3
  <2>5. file' = t /\ applied' = applied /\ torn' = torn
    BY <1>4, <2>2 DEF Edit
  <2> HIDE DEF t
  <2> QED
    BY <2>4, <2>5 DEF Made
<1>5. CASE UNCHANGED hostsVars
  BY <1>5 DEF hostsVars, Made
<1> QED
  BY <1>1, <1>2, <1>3, <1>4, <1>5 DEF HostsNext

LEMMA HostsNames == HostsInv => NoAmbiguousName
<1> SUFFICES ASSUME HostsInv, WellFormed(file), NEW k \in OwnLines(file), NEW l \in OwnLines(file),
                    k.names \cap l.names # {}
             PROVE  k.of.ip = l.of.ip \/ Borrows(k.of, l.of) \/ Borrows(l.of, k.of)
  BY DEF NoAmbiguousName
<1>1. Made(file, Foreign)
  BY WellFormedIsClean DEF HostsInv
<1>2. file \notin Seq(Foreign)
  BY PlainFile
<1> PICK E \in Written : \E a \in Seq(Foreign), m \in Seq(OwnOf(E)), c \in Seq(Foreign) : file = Frame(a, m, c)
  BY <1>1, <1>2 DEF Made
<1>3. PICK a \in Seq(Foreign), m \in Seq(OwnOf(E)), c \in Seq(Foreign) : file = Frame(a, m, c)
  OBVIOUS
<1>4. k \in OwnOf(E) /\ l \in OwnOf(E)
  <2>1. OwnLines(file) = {m[j] : j \in 1 .. Len(m)}
    BY <1>3, FramedFile
  <2>2. \A j \in 1 .. Len(m) : m[j] \in OwnOf(E)
    BY ElementOfSeq
  <2> QED
    BY <2>1, <2>2
<1>5. PICK e \in E, f \in E : k = HostsLine(E, e) /\ l = HostsLine(E, f)
  BY <1>4 DEF OwnOf
<1>6. k.of = e /\ l.of = f
  BY <1>5 DEF HostsLine
<1> QED
  BY <1>5, <1>6, NamesApart

LEMMA HostsStep ==
  HostsInv /\ HostsInv' =>
    [Apply(applied') \/ Cleanup =>
       /\ UserLines(file') = UserLines(file)
       /\ ~torn => WellFormed(file)
       /\ WellFormed(file) => /\ WellFormed(file')
                              /\ OwnLines(file') = {HostsLine(applied', e) : e \in applied'}
                              /\ Cleanup => ~HasBlock(file')]_hostsVars
<1> SUFFICES ASSUME HostsInv, HostsInv', Apply(applied') \/ Cleanup
             PROVE  /\ UserLines(file') = UserLines(file)
                    /\ ~torn => WellFormed(file)
                    /\ WellFormed(file) => /\ WellFormed(file')
                                           /\ OwnLines(file') = {HostsLine(applied', e) : e \in applied'}
                                           /\ Cleanup => ~HasBlock(file')
  OBVIOUS
<1>0. Open \in Kinds /\ Foreign \in Kinds /\ Made(file, Open) /\ (~torn => Made(file, Foreign))
  BY DEF Kinds, HostsInv
<1>1. ~torn => WellFormed(file)
  BY <1>0, CleanIsWellFormed
<1>2. WellFormed(file) => Made(file, Foreign)
  BY <1>0, WellFormedIsClean
<1>3. CASE Cleanup
  <2>1. file' = RemoveBlock(file) /\ applied' = {}
    BY <1>3 DEF Cleanup
  <2>2. UserLines(file') = UserLines(file)
    BY <1>0, <2>1, MadeRemoved
  <2>3. WellFormed(file) => file' \in Seq(Foreign)
    BY <1>0, <1>2, <2>1, MadeRemoved
  <2>4. {HostsLine(applied', e) : e \in applied'} = {}
    BY <2>1
  <2> QED
    BY <1>1, <2>2, <2>3, <2>4, PlainFile
<1>4. CASE Apply(applied') /\ ~Cleanup
  <2> DEFINE E == applied'
             m == SetToSeq(OwnOf(E))
  <2>1. E \in Written /\ file' = WriteBlock(file, E)
    BY <1>4 DEF Apply, HostsInv
  <2> HIDE DEF E
  <2>2. UserLines(file') = UserLines(file)
    BY <1>0, <2>1, MadeWritten
  <2>3. m \in Seq(OwnOf(E)) /\ {m[j] : j \in 1 .. Len(m)} = OwnOf(E)
    BY <2>1, OwnFinite, SetToSeqIs
  <2>4. ASSUME WellFormed(file) PROVE WellFormed(file') /\ OwnLines(file') = OwnOf(E)
    <3> HIDE DEF m
    <3>1. \E a \in Seq(Foreign), c \in Seq(Foreign) : WriteBlock(file, E) = Frame(a, m, c)
      BY <1>0, <1>2, <2>1, <2>4, MadeWritten DEF m
    <3>2. PICK a \in Seq(Foreign), c \in Seq(Foreign) : file' = Frame(a, m, c)
      BY <2>1, <3>1
    <3>3. /\ WellFormed(Frame(a, m, c))
          /\ OwnLines(Frame(a, m, c)) = {m[j] : j \in 1 .. Len(m)}
      BY <2>1, <2>3, FramedFile
    <3> QED
      BY <2>3, <3>2, <3>3
  <2> QED
    BY <1>1, <1>4, <2>2, <2>4 DEF E, OwnOf
<1> QED
  BY <1>3, <1>4
-----------------------------------------------------------------------------
(* Each program keeps its own invariant, and the others' steps leave its   *)
(* variables alone.                                                        *)
LEMMA ProgramsSafe == ProgramsSpec => [](RouterInv /\ ProxyInv /\ HostsInv)
<1>1. ProgramsInit => RouterInv /\ ProxyInv /\ HostsInv
  BY RouterInit_Inv, ProxyInit_Inv, HostsInit_Inv DEF ProgramsInit
<1>2. [ProgramsNext]_programVars =>
        [RouterNext]_routerVars /\ [ProxyNext]_proxyVars /\ [HostsNext]_hostsVars
  BY DEF ProgramsNext, programVars
<1>3. RouterInv /\ ProxyInv /\ HostsInv /\ [ProgramsNext]_programVars
        => RouterInv' /\ ProxyInv' /\ HostsInv'
  BY <1>2, RouterNext_Inv, ProxyNext_Inv, HostsNext_Inv
<1> QED
  BY <1>1, <1>3, PTL DEF ProgramsSpec

(* A name that ts-router's responder takes over (handleAddr) has a         *)
(* listener that serves it, unless the file spells it with capitals, and a *)
(* connection goes to the one upstream of its server name (groupRoutes,    *)
(* serveSNI) and not back to the address the client was given (pipe).      *)
(* ts-unplug-proxy (resolveAddr) dials the machine that the tailnet calls  *)
(* by the name, unless another one in its status calls itself so, and no   *)
(* name of the tailnet outside of it, unless the suffix is not known.  For *)
(* any routes and names, machines of this tailnet and of others, whatever  *)
(* they call themselves, that come and go while a request is resolved.     *)
THEOREM ProgramsReachTheirHost == ProgramsSpec => []RequestsReachTheirHost
<1>1. RouterInv /\ ProxyInv => RequestsReachTheirHost
  BY RouterServes, ProxyFinds DEF RequestsReachTheirHost
<1> QED
  BY <1>1, ProgramsSafe, PTL

(* Two hosts of one hosts block share a name only if the user gave the     *)
(* one the MagicDNS name of the other (qualifyHostsAliases, hostsLine).    *)
THEOREM ProgramsNoAmbiguousName == ProgramsSpec => []NoAmbiguousName
<1> QED
  BY HostsNames, ProgramsSafe, PTL

(* writeHostsBlock and removeHostsBlock keep every line of other programs  *)
(* in its order and leave the daemon's lines and no others, or none, in a  *)
(* file of any length that others edit and a crash may cut at any line.    *)
THEOREM ProgramsHostsFileKept == ProgramsSpec => HostsFileKept
<1> QED
  BY HostsStep, ProgramsSafe, PTL DEF HostsFileKept

(* ts-plug is well typed, and after a clean end its command is gone: main  *)
(* receives on cmdExitChan only what the goroutine got from cmd.Wait.      *)
THEOREM PlugLeavesNoChild == PlugSpec => []PlugInv
<1> QED
  BY PlugInit_Inv, PlugNext_Inv, PTL DEF PlugSpec
=============================================================================
