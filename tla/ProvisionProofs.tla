--------------------------- MODULE ProvisionProofs ---------------------------
(***************************************************************************)
(* Adding, resetting and deleting tailnets, for any number of them, any    *)
(* nesting of their directories and any number of edits, lock requests and *)
(* crashes: what a request destroys, what its answer says, and that all of *)
(* it implements module Identity.                                          *)
(***************************************************************************)
EXTENDS Provision, TLAPS

Entry == [present : BOOLEAN, enabled : BOOLEAN, key : BOOLEAN, locked : BOOLEAN, dir : Dir]

Request ==
  [kind : {"reset", "remove"}, tn : Name, dir : Dir \cup {NoDir},
   at : {"stop", "destroy", "sync", "forget", "succeeded", "failed"}]

(* Who uses a directory is not changed by a start: it was configured.      *)
LEMMA SyncFacts ==
  ASSUME NEW c \in [Name -> Entry], SyncTo(c), node \in [Name -> Dir \cup {NoDir}],
         made \subseteq Dir
  PROVE  /\ node' \in [Name -> Dir \cup {NoDir}] /\ made' \subseteq Dir
         /\ \A n \in Name : node'[n] # NoDir =>
              node'[n] = node[n] \/ (Wanted(c, n) /\ node'[n] = c[n].dir)
<1>1. PICK started \in SUBSET {n \in Name : Wanted(c, n) /\ ~Runs(n)} :
        /\ node' = [n \in Name |-> IF n \in started THEN c[n].dir
                                   ELSE IF Wanted(c, n) THEN node[n] ELSE NoDir]
        /\ made' = made \cup {c[n].dir : n \in started}
  BY DEF SyncTo
<1>2. \A n \in Name : c[n].dir \in Dir
  BY DEF Entry
<1> QED
  BY <1>1, <1>2

LEMMA AbsentIsEntry ==
  ASSUME NEW n \in Name
  PROVE  Absent(n) \in Entry /\ ~Absent(n).present /\ ~Absent(n).enabled
  BY ProvisionAssumption DEF Absent, Entry

(* A request's tailnet keeps its directories to itself while nobody else's *)
(* configured directory changes.                                           *)
LEMMA OthersKept ==
  ASSUME NEW n \in Name,
         \A m \in Name \ {n} :
           /\ conf'[m] = conf[m]
           /\ node'[m] # NoDir =>
                node'[m] = node[m] \/ (conf[m].present /\ node'[m] = conf[m].dir)
  PROVE  DirsOfOthers(n)' \subseteq DirsOfOthers(n)
  BY DEF DirsOfOthers, Runs

LEMMA StandingIsHonest ==
  ASSUME ProvisionTypeOK, RequestStands
  PROVE  HonestAnswer
<1>1. CASE op = NoOp
  BY <1>1 DEF HonestAnswer, NoOp
<1>2. CASE op # NoOp
  <2>1. op \in Request
    BY <1>2 DEF ProvisionTypeOK, Request
  <2>2. op.dir # NoDir => op.dir \in Condemned
    BY <2>1, ProvisionAssumption DEF Condemned, Request
  <2>3. op.dir = NoDir => op.dir \notin pins
    BY ProvisionAssumption DEF ProvisionTypeOK
  <2> QED
    BY <1>2, <2>1, <2>2, <2>3 DEF HonestAnswer, RequestStands, Request
<1> QED
  BY <1>1, <1>2
-----------------------------------------------------------------------------
(* The steps that nobody takes while a request is under way.               *)
LEMMA UpdateKeepsInv ==
  ASSUME ProvisionInv, NEW n \in Name,
         \/ Add(n) \/ Enable(n) \/ Disable(n) \/ AuthKey(n)
         \/ LockCommits(n) \/ UnlockCommits(n) \/ EditDir(n)
  PROVE  ProvisionInv'
<1> USE DEF ProvisionInv
<1>1. op = NoOp /\ op' = NoOp /\ up /\ UNCHANGED <<up, ident, pins>> /\ locking' \subseteq locking
  BY DEF Add, Enable, Disable, AuthKey, Update, LockCommits, UnlockCommits, EditDir, Idle
<1>2. conf \in [Name -> Entry] /\ \A m \in Name : ~conf[m].present => conf[m] = Absent(m)
  BY DEF ProvisionTypeOK, Entry
<1>3. PICK e \in Entry : /\ e.present \/ e = Absent(n)
                         /\ conf' = [conf EXCEPT ![n] = e] \/ UNCHANGED conf
  <2>1. CASE Add(n)
    BY <2>1, AbsentIsEntry DEF Add, Update, Entry
  <2>2. CASE Enable(n)
    BY <1>2, <2>2 DEF Enable, Update, Entry
  <2>3. CASE Disable(n)
    BY <1>2, <2>3 DEF Disable, Update, Entry
  <2>4. CASE AuthKey(n)
    BY <1>2, <2>4 DEF AuthKey, Update, Entry
  <2>5. CASE LockCommits(n)
    <3>1. CASE ~conf[n].present
      BY <1>2, <2>5, <3>1, AbsentIsEntry DEF LockCommits
    <3>2. CASE conf[n].present
      BY <1>2, <2>5, <3>2 DEF LockCommits, Entry
    <3> QED
      BY <3>1, <3>2
  <2>6. CASE UnlockCommits(n)
    BY <1>2, <2>6 DEF UnlockCommits, Entry
  <2>7. CASE EditDir(n)
    BY <1>2, <2>7 DEF EditDir, Entry
  <2> QED
    BY <2>1, <2>2, <2>3, <2>4, <2>5, <2>6, <2>7
<1>4. conf' \in [Name -> Entry] /\ \A m \in Name : ~conf'[m].present => conf'[m] = Absent(m)
  BY <1>2, <1>3
<1>5. node' \in [Name -> Dir \cup {NoDir}] /\ made' \subseteq Dir
  <2>1. SyncTo(conf') \/ UNCHANGED <<node, made>>
    BY DEF Add, Enable, Disable, AuthKey, Update, LockCommits, UnlockCommits, EditDir
  <2> QED
    BY <1>4, <2>1, SyncFacts DEF ProvisionTypeOK
<1>6. ProvisionTypeOK'
  BY <1>1, <1>4, <1>5 DEF ProvisionTypeOK, Entry, Absent
<1>7. RequestStands'
  BY <1>1 DEF RequestStands
<1>8. HonestAnswer'
  BY <1>1 DEF HonestAnswer, NoOp
<1> QED
  BY <1>6, <1>7, <1>8

(* A reset or delete starts with what it destroys used by nobody else.     *)
LEMMA BeginKeepsInv ==
  ASSUME ProvisionInv, NEW n \in Name, BeginReset(n) \/ BeginRemove(n)
  PROVE  ProvisionInv'
<1> USE DEF ProvisionInv
<1>1. PICK kind \in {"reset", "remove"} : Begin(kind, n)
  BY DEF BeginReset, BeginRemove
<1> DEFINE dir == IF conf[n].dir \in made THEN conf[n].dir ELSE NoDir
<1>2. /\ op = NoOp /\ up /\ UNCHANGED <<ident, pins, made, node, up, locking>>
      /\ op' = [kind |-> kind, at |-> "stop", tn |-> n, dir |-> dir]
      /\ conf' = [conf EXCEPT ![n].enabled = FALSE, ![n].key = FALSE]
  BY <1>1 DEF Begin, Idle
<1>3. /\ conf \in [Name -> Entry] /\ conf[n] \in Entry /\ conf[n].dir \in Dir
      /\ conf[n].present /\ ~conf[n].locked
  BY DEF BeginReset, BeginRemove, MayReset, MayPurge, ProvisionTypeOK, Entry
<1>4. /\ conf' \in [Name -> Entry] /\ \A m \in Name \ {n} : conf'[m] = conf[m]
      /\ conf'[n].present /\ ~conf'[n].enabled /\ ~conf'[n].key /\ ~conf'[n].locked
  BY <1>2, <1>3 DEF Entry
<1>5. op' \in Request /\ op'.tn = n /\ op'.at = "stop" /\ op'.dir = dir /\ op'.kind = kind
  BY <1>2, <1>3 DEF Request
<1>6. ProvisionTypeOK'
  <2>1. \A m \in Name : ~conf'[m].present => conf'[m] = Absent(m)
    BY <1>4 DEF ProvisionTypeOK
  <2> QED
    BY <1>2, <1>4, <1>5, <2>1 DEF ProvisionTypeOK, Entry, Request
<1>7. Condemned' \cap DirsOfOthers(n) = {}
  <2>1. CASE conf[n].dir \notin made
    BY <1>5, <2>1 DEF Condemned
  <2>2. CASE conf[n].dir \in made /\ kind = "reset"
    <3>1. MayReset(n)
      <4>1. CASE BeginReset(n)
        BY <4>1 DEF BeginReset
      <4>2. CASE BeginRemove(n)
        BY <1>2, <2>2, <4>2 DEF BeginRemove, Begin
      <4> QED
        BY <4>1, <4>2
    <3> QED
      BY <1>5, <2>2, <3>1 DEF Condemned, MayReset
  <2>3. CASE conf[n].dir \in made /\ kind = "remove"
    <3>1. MayPurge(n)
      <4>1. CASE BeginReset(n)
        BY <1>2, <2>3, <4>1 DEF BeginReset, Begin
      <4>2. CASE BeginRemove(n)
        BY <4>2 DEF BeginRemove
      <4> QED
        BY <4>1, <4>2
    <3> QED
      BY <1>3, <1>5, <2>3, <3>1, ProvisionAssumption DEF Condemned, MayPurge
  <2> QED
    BY <2>1, <2>2, <2>3
<1>8. DirsOfOthers(n)' \subseteq DirsOfOthers(n)
  BY <1>2, <1>4, OthersKept
<1>9. RequestStands'
  BY <1>4, <1>5, <1>7, <1>8 DEF RequestStands
<1> QED
  BY <1>6, <1>9, StandingIsHonest, PTL

(* The steps of a request: "n" is its tailnet throughout.                  *)
LEMMA RequestKeepsInv ==
  ASSUME ProvisionInv, OpSteps
  PROVE  ProvisionInv'
<1> USE DEF ProvisionInv
<1>1. /\ op # NoOp /\ op \in Request /\ up /\ UNCHANGED <<up, locking>>
      /\ conf \in [Name -> Entry] /\ \A m \in Name : ~conf[m].present => conf[m] = Absent(m)
  <2>1. op.at # "idle" /\ up /\ UNCHANGED <<up, locking>>
    BY DEF OpSteps, Release, Stop, Step, DestroyStore, ResetSyncs, Purge, PurgeFails,
       Forget, ForgetFails
  <2> QED
    BY <2>1 DEF ProvisionTypeOK, NoOp, Request, Entry
<1>2. PICK n \in Name : n = op.tn
  BY <1>1 DEF Request
<1>3. /\ ~conf[n].enabled /\ ~conf[n].key /\ ~conf[n].locked
      /\ op.at # "stop" => ~Runs(n)
      /\ Condemned \cap DirsOfOthers(n) = {}
  BY <1>1, <1>2 DEF RequestStands
<1>4. CASE Release
  <2>1. op' = NoOp /\ UNCHANGED <<conf, ident, pins, made, node>>
    BY <1>4 DEF Release
  <2>2. ProvisionTypeOK'
    BY <1>1, <2>1 DEF ProvisionTypeOK
  <2> QED
    BY <2>1, <2>2 DEF RequestStands, HonestAnswer, NoOp
<1>5. ASSUME ~Release PROVE op' \in Request /\ op'.tn = n /\ op'.kind = op.kind /\ op'.dir = op.dir
  BY <1>1, <1>2, <1>5 DEF OpSteps, Stop, Step, Answer, DestroyStore, ResetSyncs, Purge,
     PurgeFails, Forget, ForgetFails, Request
<1>6. op' \in Request => op' # NoOp
  BY DEF Request, NoOp
<1>7. ~Release => Condemned' = Condemned
  BY <1>5 DEF Condemned
<1>8. CASE Stop
  <2>1. /\ op.at = "stop" /\ op'.at = "destroy" /\ ~Release
        /\ node' = [node EXCEPT ![n] = NoDir] /\ UNCHANGED <<conf, ident, pins, made>>
    BY <1>1, <1>2, <1>8 DEF Stop, Step, Release, Request
  <2>2. ProvisionTypeOK'
    BY <1>1, <1>5, <2>1 DEF ProvisionTypeOK, Request
  <2>3. ~Runs(n)' /\ DirsOfOthers(n)' \subseteq DirsOfOthers(n)
    BY <2>1, OthersKept DEF ProvisionTypeOK, Runs
  <2>4. RequestStands'
    BY <1>1, <1>2, <1>3, <1>5, <1>7, <2>1, <2>3 DEF RequestStands
  <2> QED
    BY <2>2, <2>4, StandingIsHonest, PTL
<1>9. CASE DestroyStore
  <2>1. /\ op.at = "destroy" /\ op'.at = "sync" /\ op.kind = "reset" /\ ~Release
        /\ ident' = [d \in Dir |-> IF d = op.dir THEN NoName ELSE ident[d]]
        /\ UNCHANGED <<conf, pins, made, node>>
    BY <1>1, <1>9 DEF DestroyStore, Release, Request
  <2>2. ProvisionTypeOK'
    BY <1>1, <1>5, <2>1 DEF ProvisionTypeOK, Request
  <2>3. \A d \in Condemned : ident'[d] = NoName
    BY <1>1, <2>1 DEF Condemned, Request
  <2>4. DirsOfOthers(n)' = DirsOfOthers(n) /\ ~Runs(n)'
    BY <1>3, <2>1 DEF DirsOfOthers, Runs
  <2>5. RequestStands'
    BY <1>1, <1>2, <1>3, <1>5, <1>7, <2>1, <2>3, <2>4 DEF RequestStands
  <2> QED
    BY <2>2, <2>5, StandingIsHonest, PTL
<1>10. CASE Purge
  <2>1. /\ op.at = "destroy" /\ op'.at = "forget" /\ op.kind = "remove" /\ ~Release
        /\ ident' = [d \in Dir |-> IF d \in Doomed THEN NoName ELSE ident[d]]
        /\ pins' = pins \ Doomed /\ made' = made \ Doomed
        /\ UNCHANGED <<conf, node>>
    BY <1>1, <1>10 DEF Purge, Release, Request
  <2>2. ProvisionTypeOK'
    BY <1>1, <1>5, <2>1 DEF ProvisionTypeOK, Request
  <2>3. Condemned = Doomed /\ Doomed \subseteq Dir
    BY <1>1, <2>1, ProvisionAssumption DEF Condemned, Doomed, Request
  <2>4. DirsOfOthers(n)' = DirsOfOthers(n) /\ ~Runs(n)'
    BY <1>3, <2>1 DEF DirsOfOthers, Runs
  <2>5. RequestStands'
    BY <1>1, <1>2, <1>3, <1>5, <1>7, <2>1, <2>3, <2>4 DEF RequestStands
  <2> QED
    BY <2>2, <2>5, StandingIsHonest, PTL
<1>11. CASE PurgeFails
  <2>1. op.at = "destroy" /\ op'.at = "failed" /\ ~Release /\ UNCHANGED <<conf, made, node>>
    BY <1>1, <1>11 DEF PurgeFails, Answer, Release, Request
  <2>2. ident' \in [Dir -> Name \cup {NoName}] /\ pins' \subseteq Dir
    BY <1>11 DEF PurgeFails, ProvisionTypeOK
  <2>3. ProvisionTypeOK'
    BY <1>1, <1>5, <2>1, <2>2 DEF ProvisionTypeOK, Request
  <2>4. DirsOfOthers(n)' = DirsOfOthers(n) /\ ~Runs(n)'
    BY <1>3, <2>1 DEF DirsOfOthers, Runs
  <2>5. RequestStands'
    BY <1>1, <1>2, <1>3, <1>5, <1>7, <2>1, <2>4 DEF RequestStands
  <2> QED
    BY <2>3, <2>5, StandingIsHonest, PTL
<1>12. CASE ForgetFails
  <2>1. /\ op.at = "forget" /\ op'.at = "failed" /\ ~Release
        /\ UNCHANGED <<conf, ident, pins, made, node>>
    BY <1>1, <1>12 DEF ForgetFails, Answer, Release, Request
  <2>2. ProvisionTypeOK'
    BY <1>1, <1>5, <2>1 DEF ProvisionTypeOK, Request
  <2>3. DirsOfOthers(n)' = DirsOfOthers(n) /\ ~Runs(n)'
    BY <1>3, <2>1 DEF DirsOfOthers, Runs
  <2>4. RequestStands'
    BY <1>1, <1>2, <1>3, <1>5, <1>7, <2>1, <2>3 DEF RequestStands
  <2> QED
    BY <2>2, <2>4, StandingIsHonest, PTL
<1>13. CASE ResetSyncs \/ Forget
  <2>1. /\ op.at \in {"sync", "forget"} /\ op'.at = "succeeded" /\ ~Release
        /\ UNCHANGED <<ident, pins>> /\ SyncTo(conf')
        /\ conf' = IF op.kind = "reset" THEN conf ELSE [conf EXCEPT ![n] = Absent(n)]
    <3>1. CASE ResetSyncs
      BY <1>1, <1>2, <3>1 DEF ResetSyncs, Answer, Release, Request, RequestStands
    <3>2. CASE Forget
      BY <1>1, <1>2, <3>2 DEF Forget, Answer, Release, Request, RequestStands
    <3> QED
      BY <1>13, <3>1, <3>2
  <2>2. /\ conf' \in [Name -> Entry] /\ \A m \in Name : ~conf'[m].present => conf'[m] = Absent(m)
        /\ \A m \in Name \ {n} : conf'[m] = conf[m]
        /\ ~conf'[n].enabled /\ ~conf'[n].key /\ ~conf'[n].locked
        /\ conf'[n].present <=> op.kind = "reset"
    <3>1. CASE op.kind = "reset"
      BY <1>1, <1>2, <1>3, <2>1, <3>1 DEF RequestStands
    <3>2. CASE op.kind # "reset"
      BY <1>1, <2>1, <3>2, AbsentIsEntry DEF Absent
    <3> QED
      BY <3>1, <3>2
  <2>3. /\ node' \in [Name -> Dir \cup {NoDir}] /\ made' \subseteq Dir
        /\ \A m \in Name : node'[m] # NoDir =>
             node'[m] = node[m] \/ (Wanted(conf', m) /\ node'[m] = conf'[m].dir)
    BY <2>1, <2>2, SyncFacts DEF ProvisionTypeOK
  <2>4. ProvisionTypeOK'
    BY <1>1, <1>5, <2>1, <2>2, <2>3 DEF ProvisionTypeOK, Request, Entry, Absent
  <2>5. ~Runs(n)'
    BY <1>3, <2>1, <2>2, <2>3 DEF Runs, Wanted
  <2>6. DirsOfOthers(n)' \subseteq DirsOfOthers(n)
    BY <2>2, <2>3, OthersKept DEF Wanted
  <2>7. op.at \in {"sync", "forget"} =>
          \A d \in Condemned : ident[d] = NoName /\ (op.kind = "remove" => d \notin pins)
    BY <1>1 DEF RequestStands
  <2>8. op'.kind = op.kind /\ op.kind \in {"reset", "remove"}
    BY <1>1, <1>5, <2>1 DEF Request
  <2>9. RequestStands'
    BY <1>3, <1>5, <1>7, <2>1, <2>2, <2>5, <2>6, <2>7, <2>8 DEF RequestStands
  <2> QED
    BY <2>4, <2>9, StandingIsHonest, PTL
<1> QED
  BY <1>4, <1>8, <1>9, <1>10, <1>11, <1>12, <1>13 DEF OpSteps

(* The node, a crash, the next boot and a look at the running node.        *)
LEMMA OutsideKeepsInv ==
  ASSUME ProvisionInv,
         Crash \/ Boot \/ (\E n \in Name : LockLooks(n) \/ NodeEnrolls(n)) \/ UNCHANGED vars
  PROVE  ProvisionInv'
<1> USE DEF ProvisionInv
<1>0. conf \in [Name -> Entry] /\ UNCHANGED conf
  BY DEF ProvisionTypeOK, Entry, Crash, Boot, LockLooks, NodeEnrolls, vars
<1>1. CASE Crash
  <2>1. ProvisionTypeOK' /\ op' = NoOp
    BY <1>1 DEF Crash, ProvisionTypeOK, Runs, Absent
  <2> QED
    BY <2>1 DEF RequestStands, HonestAnswer, NoOp
<1>2. CASE Boot
  <2>1. op = NoOp /\ op' = NoOp /\ UNCHANGED <<conf, ident, pins, locking>> /\ up' = TRUE
    BY <1>2 DEF Boot, ProvisionTypeOK
  <2>2. node' \in [Name -> Dir \cup {NoDir}] /\ made' \subseteq Dir
    BY <1>0, <1>2, SyncFacts DEF Boot, ProvisionTypeOK
  <2>3. ProvisionTypeOK'
    BY <2>1, <2>2 DEF ProvisionTypeOK, Absent
  <2> QED
    BY <2>1, <2>3 DEF RequestStands, HonestAnswer, NoOp
<1>3. ASSUME NEW n \in Name, LockLooks(n) PROVE ProvisionInv'
  <2>1. UNCHANGED <<conf, ident, pins, made, node, up, op>> /\ locking' \subseteq Name
    BY <1>3 DEF LockLooks, ProvisionTypeOK
  <2>2. ProvisionTypeOK'
    BY <2>1 DEF ProvisionTypeOK, Runs, Absent
  <2> QED
    BY <2>1, <2>2 DEF RequestStands, HonestAnswer, Runs, DirsOfOthers, Condemned
<1>4. ASSUME NEW n \in Name, NodeEnrolls(n) PROVE ProvisionInv'
  <2>1. /\ UNCHANGED <<conf, made, node, up, op, locking>> /\ Runs(n) /\ node[n] \in Dir /\ up
        /\ ident' = [ident EXCEPT ![node[n]] = n] /\ pins' = pins \cup {node[n]}
    BY <1>4 DEF NodeEnrolls, ProvisionTypeOK, Runs
  <2>2. ProvisionTypeOK'
    BY <2>1 DEF ProvisionTypeOK, Runs, Absent
  <2>3. RequestStands'
    <3>1. CASE op # NoOp /\ op.at = "stop"
      BY <2>1, <3>1 DEF RequestStands, Runs, DirsOfOthers, Condemned
    <3>2. CASE op # NoOp /\ op.at # "stop"
      <4>1. n # op.tn /\ Condemned \cap DirsOfOthers(op.tn) = {}
        BY <2>1, <3>2 DEF RequestStands
      <4>2. node[n] \notin Condemned
        BY <2>1, <4>1 DEF DirsOfOthers
      <4>3. \A d \in Dir \ {node[n]} : ident'[d] = ident[d]
        BY <2>1 DEF ProvisionTypeOK
      <4>4. Condemned \subseteq Dir
        BY <3>2, ProvisionAssumption DEF Condemned, ProvisionTypeOK
      <4> QED
        BY <2>1, <3>2, <4>2, <4>3, <4>4 DEF RequestStands, Runs, DirsOfOthers, Condemned
    <3>3. CASE op = NoOp
      BY <2>1, <3>3 DEF RequestStands
    <3> QED
      BY <3>1, <3>2, <3>3
  <2> QED
    BY <2>2, <2>3, StandingIsHonest, PTL
<1>5. CASE UNCHANGED vars
  <2>1. ProvisionTypeOK'
    BY <1>5 DEF vars, ProvisionTypeOK, Runs, Absent
  <2>2. RequestStands'
    BY <1>5 DEF vars, RequestStands, Runs, DirsOfOthers, Condemned
  <2> QED
    BY <2>1, <2>2, StandingIsHonest, PTL
<1> QED
  BY <1>1, <1>2, <1>3, <1>4, <1>5

LEMMA StepKeepsInv ==
  ASSUME ProvisionInv, [ProvisionNext]_vars
  PROVE  ProvisionInv'
<1>1. CASE OpSteps
  BY <1>1, RequestKeepsInv
<1>2. ASSUME NEW n \in Name, BeginReset(n) \/ BeginRemove(n) PROVE ProvisionInv'
  BY <1>2, BeginKeepsInv
<1>3. ASSUME NEW n \in Name,
             \/ Add(n) \/ Enable(n) \/ Disable(n) \/ AuthKey(n)
             \/ LockCommits(n) \/ UnlockCommits(n) \/ EditDir(n)
      PROVE  ProvisionInv'
  BY <1>3, UpdateKeepsInv
<1> QED
  BY <1>1, <1>2, <1>3, OutsideKeepsInv DEF ProvisionNext

(* Every state is well typed, every answer to a reset or delete is honest, *)
(* and nobody comes to use what a request is about to destroy.             *)
THEOREM ProvisionInvariant == ProvisionSpec => []ProvisionInv
<1>1. ProvisionInit => ProvisionInv
  <2> SUFFICES ASSUME ProvisionInit PROVE ProvisionInv
    OBVIOUS
  <2>1. ProvisionTypeOK
    BY AbsentIsEntry, ProvisionAssumption DEF ProvisionInit, ProvisionTypeOK, Entry, Absent
  <2> QED
    BY <2>1 DEF ProvisionInit, ProvisionInv, RequestStands, HonestAnswer, NoOp
<1> QED
  BY <1>1, StepKeepsInv, PTL DEF ProvisionSpec
-----------------------------------------------------------------------------
(* Only a request's "destroy" step destroys, and only what is condemned,   *)
(* once its tailnet has stopped.                                           *)
LEMMA OnlyTheCondemned ==
  ASSUME ProvisionInv, ProvisionNext, NEW d \in Dir, ident[d] # NoName, ident'[d] # ident[d]
  PROVE  /\ op # NoOp /\ op.tn \in Name /\ op.at = "destroy"
         /\ d \in Condemned /\ ident'[d] = NoName
         /\ UNCHANGED <<conf, node>>
<1>1. DestroyStore \/ Purge \/ PurgeFails
  <2>1. ASSUME NEW n \in Name, NodeEnrolls(n) PROVE FALSE
    BY <2>1, ProvisionAssumption DEF NodeEnrolls, ProvisionInv, ProvisionTypeOK
  <2> QED
    BY <2>1 DEF ProvisionNext, OpSteps, Release, Stop, Step, ResetSyncs, Forget, ForgetFails,
       Crash, Boot, Add, Enable, Disable, AuthKey, Update, LockLooks, LockCommits,
       UnlockCommits, BeginReset, BeginRemove, Begin, EditDir
<1>2. op.at = "destroy" /\ UNCHANGED <<conf, node>>
  BY <1>1 DEF DestroyStore, Purge, PurgeFails
<1>3. op # NoOp /\ op \in Request
  BY <1>2 DEF NoOp, ProvisionInv, ProvisionTypeOK, Request
<1>4. d \in Condemned /\ ident'[d] = NoName
  <2>1. CASE DestroyStore
    <3>1. /\ ident' = [e \in Dir |-> IF e = op.dir THEN NoName ELSE ident[e]]
          /\ op.kind = "reset"
      BY <2>1 DEF DestroyStore
    <3>2. d = op.dir /\ ident'[d] = NoName
      BY <3>1
    <3> QED
      BY <3>1, <3>2, ProvisionAssumption DEF Condemned
  <2>2. CASE Purge
    BY <1>3, <2>2 DEF Purge, Doomed, Condemned, Request
  <2>3. CASE PurgeFails
    <3>1. op.kind = "remove"
      BY <2>3 DEF PurgeFails
    <3>2. PICK ds \in SUBSET Doomed : ident' = [e \in Dir |-> IF e \in ds THEN NoName ELSE ident[e]]
      BY <2>3, <3>1 DEF PurgeFails
    <3> QED
      BY <1>3, <3>1, <3>2 DEF Doomed, Condemned, Request
  <2> QED
    BY <1>1, <2>1, <2>2, <2>3
<1> QED
  BY <1>2, <1>3, <1>4 DEF Request

(* A reset or delete destroys no identity in a directory that another      *)
(* tailnet is configured for or whose node still uses it.                  *)
THEOREM ProvisionOthersUntouched == ProvisionSpec => OthersUntouched
<1> DEFINE Spared ==
      \A m \in Name, d \in Dir :
         /\ (conf[m].present /\ conf[m].dir = d) \/ node[m] = d
         /\ ident[d] # NoName /\ ident'[d] # ident[d]
         => op.tn = m
<1>1. ASSUME ProvisionInv, ProvisionNext,
             NEW m \in Name, NEW d \in Dir, (conf[m].present /\ conf[m].dir = d) \/ node[m] = d,
             ident[d] # NoName, ident'[d] # ident[d]
      PROVE  op.tn = m
  <2>1. op # NoOp /\ op.tn \in Name /\ d \in Condemned
    BY <1>1, OnlyTheCondemned
  <2>2. d \notin DirsOfOthers(op.tn)
    BY <1>1, <2>1 DEF ProvisionInv, RequestStands
  <2> QED
    BY <1>1, <2>2, ProvisionAssumption DEF DirsOfOthers, Runs
<1>2. ProvisionInv /\ [ProvisionNext]_vars => [Spared]_vars
  BY <1>1
<1> QED
  BY <1>2, ProvisionInvariant, PTL DEF ProvisionSpec, OthersUntouched

(* While a tailnet is locked no request disables or destroys it.           *)
THEOREM ProvisionLockedKept == ProvisionSpec => LockedKept
<1> DEFINE Kept ==
      \A n \in Name : conf[n].locked /\ conf'[n].locked =>
        /\ conf[n].enabled => conf'[n].enabled
        /\ op.tn # n
<1>1. ASSUME ProvisionInv, ProvisionNext, NEW n \in Name, conf[n].locked, conf'[n].locked
      PROVE  (conf[n].enabled => conf'[n].enabled) /\ op.tn # n
  <2>1. op.tn # n
    BY <1>1, ProvisionAssumption DEF ProvisionInv, RequestStands, NoOp
  <2>2. conf \in [Name -> Entry]
    BY <1>1 DEF ProvisionInv, ProvisionTypeOK, Entry
  <2>3. CASE UNCHANGED conf
    BY <2>1, <2>3
  <2>4. CASE Forget
    BY <2>1, <2>2, <2>4 DEF Forget
  <2>5. ASSUME NEW m \in Name, BeginReset(m) \/ BeginRemove(m)
        PROVE  conf[n].enabled => conf'[n].enabled
    BY <1>1, <2>2, <2>5 DEF BeginReset, BeginRemove, MayReset, MayPurge, Begin, Entry
  <2>6. ASSUME NEW m \in Name,
               \/ Add(m) \/ Enable(m) \/ Disable(m) \/ AuthKey(m)
               \/ LockCommits(m) \/ UnlockCommits(m) \/ EditDir(m)
        PROVE  conf[n].enabled => conf'[n].enabled
    <3>1. CASE n # m
      BY <2>2, <2>6, <3>1 DEF Add, Enable, Disable, AuthKey, Update, LockCommits,
         UnlockCommits, EditDir
    <3>2. CASE n = m /\ Add(n)
      BY <1>1, <2>2, <3>2 DEF Add, Update, Entry, Absent
    <3>3. CASE n = m /\ Enable(n)
      BY <2>2, <3>3 DEF Enable, Update, Entry
    <3>4. CASE n = m /\ Disable(n)
      BY <1>1, <3>4 DEF Disable
    <3>5. CASE n = m /\ AuthKey(n)
      BY <2>2, <3>5 DEF AuthKey, Update, Entry
    <3>6. CASE n = m /\ LockCommits(n)
      BY <2>2, <3>6 DEF LockCommits, Entry
    <3>7. CASE n = m /\ UnlockCommits(n)
      BY <2>2, <3>7 DEF UnlockCommits, Entry
    <3>8. CASE n = m /\ EditDir(n)
      BY <2>2, <3>8 DEF EditDir, Entry
    <3> QED
      BY <2>6, <3>1, <3>2, <3>3, <3>4, <3>5, <3>6, <3>7, <3>8
  <2>7. \/ UNCHANGED conf \/ Forget
        \/ \E m \in Name : BeginReset(m) \/ BeginRemove(m)
        \/ \E m \in Name : \/ Add(m) \/ Enable(m) \/ Disable(m) \/ AuthKey(m)
                           \/ LockCommits(m) \/ UnlockCommits(m) \/ EditDir(m)
    BY <1>1 DEF ProvisionNext, OpSteps, Release, Stop, Step, DestroyStore, ResetSyncs, Purge,
       PurgeFails, ForgetFails, Crash, Boot, LockLooks, NodeEnrolls
  <2> QED
    BY <2>1, <2>3, <2>4, <2>5, <2>6, <2>7
<1>2. ProvisionInv /\ [ProvisionNext]_vars => [Kept]_vars
  BY <1>1
<1> QED
  BY <1>2, ProvisionInvariant, PTL DEF ProvisionSpec, LockedKept
-----------------------------------------------------------------------------
(* The refinement: consent and membership as pairs of a tailnet and its    *)
(* directory.                                                              *)
Consents == {<<n, conf[n].dir>> : n \in {m \in Name : Wanted(conf, m)}}

Members == {<<n, node[n]>> : n \in {m \in Name : Runs(m)}}

Identities == {d \in Dir : ident[d] # NoName}

(* Nodes start with the consent of the new configuration.                  *)
LEMMA NodesRefined ==
  ASSUME conf' \in [Name -> Entry],
         \A n \in Name : node'[n] # NoDir =>
           node'[n] = node[n] \/ (Wanted(conf', n) /\ node'[n] = conf'[n].dir)
  PROVE  Members' \subseteq Members \cup Consents'
<1> SUFFICES ASSUME NEW n \in Name, node'[n] # NoDir
             PROVE  <<n, node'[n]>> \in Members \cup Consents'
  BY DEF Members, Runs
<1>1. CASE node'[n] = node[n]
  BY <1>1 DEF Members, Runs
<1>2. CASE Wanted(conf', n) /\ node'[n] = conf'[n].dir
  BY <1>2 DEF Consents, Wanted
<1> QED
  BY <1>1, <1>2

(* A change of one entry is a decision about that tailnet.                 *)
LEMMA DecideRefined ==
  ASSUME NEW n \in Name, conf' \in [Name -> Entry], \A m \in Name \ {n} : conf'[m] = conf[m]
  PROVE  \E given \in {{}} \cup {{<<n, d>>} : d \in Dir} :
           Consents' = {c \in Consents : c[1] # n} \cup given
<1>1. \A m \in Name \ {n} : Wanted(conf', m) <=> Wanted(conf, m)
  BY DEF Wanted
<1>2. CASE Wanted(conf', n)
  <2>1. Consents' = {c \in Consents : c[1] # n} \cup {<<n, conf'[n].dir>>}
    BY <1>1, <1>2 DEF Consents
  <2>2. conf'[n].dir \in Dir
    BY DEF Entry
  <2> QED
    BY <2>1, <2>2
<1>3. CASE ~Wanted(conf', n)
  <2>1. Consents' = {c \in Consents : c[1] # n} \cup {}
    BY <1>1, <1>3 DEF Consents
  <2> QED
    BY <2>1
<1> QED
  BY <1>2, <1>3

(* The four ways to take a step of module Identity.                        *)
LEMMA AbstractSteps ==
  /\ UNCHANGED <<Consents, Identities>> /\ Members' \subseteq Members \cup Consents'
       => ConsentRefined!IdNext
  /\ \A n \in Name :
       (\E given \in {{}} \cup {{<<n, d>>} : d \in Dir} :
           Consents' = {c \in Consents : c[1] # n} \cup given)
       /\ Members' \subseteq Members \cup Consents' /\ UNCHANGED Identities
       => ConsentRefined!IdNext
  /\ \A n \in Name, d \in Dir :
       <<n, d>> \in Members /\ Identities' = Identities \cup {d} /\ UNCHANGED <<Consents, Members>>
       => ConsentRefined!IdNext
  /\ \A ds \in SUBSET Dir :
       /\ \A c \in Consents \cup Members : c[2] \notin ds
       /\ Identities' = Identities \ ds /\ UNCHANGED <<Consents, Members>>
       => ConsentRefined!IdNext
<1> USE DEF Consents, Members, Identities
<1>1. UNCHANGED <<Consents, Identities>> /\ Members' \subseteq Members \cup Consents'
       => ConsentRefined!IdNext
  BY DEF ConsentRefined!IdNext, ConsentRefined!Nodes
<1>2. ASSUME NEW n \in Name,
       (\E given \in {{}} \cup {{<<n, d>>} : d \in Dir} :
           Consents' = {c \in Consents : c[1] # n} \cup given),
       Members' \subseteq Members \cup Consents', UNCHANGED Identities
       PROVE ConsentRefined!IdNext
  BY <1>2 DEF ConsentRefined!IdNext, ConsentRefined!Nodes, ConsentRefined!Decide
<1>3. ASSUME NEW n \in Name, NEW d \in Dir,
       <<n, d>> \in Members, Identities' = Identities \cup {d}, UNCHANGED <<Consents, Members>>
       PROVE ConsentRefined!IdNext
  BY <1>3 DEF ConsentRefined!IdNext, ConsentRefined!Enroll
<1>4. ASSUME NEW ds \in SUBSET Dir,
       \A c \in Consents \cup Members : c[2] \notin ds,
       Identities' = Identities \ ds, UNCHANGED <<Consents, Members>>
       PROVE ConsentRefined!IdNext
  BY <1>4 DEF ConsentRefined!IdNext, ConsentRefined!Destroy
<1> QED
  BY <1>1, <1>2, <1>3, <1>4

LEMMA StepRefined ==
  ASSUME ProvisionInv, ProvisionNext
  PROVE  ConsentRefined!IdNext
<1>0. /\ conf \in [Name -> Entry] /\ conf' \in [Name -> Entry]
      /\ node \in [Name -> Dir \cup {NoDir}] /\ made \subseteq Dir
  BY StepKeepsInv DEF ProvisionInv, ProvisionTypeOK, Entry
<1>1. ASSUME SyncTo(conf') \/ \A n \in Name : node'[n] \in {node[n], NoDir}
      PROVE  Members' \subseteq Members \cup Consents'
  BY <1>0, <1>1, SyncFacts, NodesRefined
<1>2. ASSUME UNCHANGED <<conf, ident>>, SyncTo(conf') \/ \A n \in Name : node'[n] \in {node[n], NoDir}
      PROVE  ConsentRefined!IdNext
  <2>1. UNCHANGED <<Consents, Identities>>
    BY <1>2 DEF Consents, Identities, Wanted
  <2> QED
    BY <1>1, <1>2, <2>1, AbstractSteps
<1>3. ASSUME NEW n \in Name, \A m \in Name \ {n} : conf'[m] = conf[m], UNCHANGED ident,
             SyncTo(conf') \/ UNCHANGED node
      PROVE  ConsentRefined!IdNext
  <2>1. UNCHANGED Identities
    BY <1>3 DEF Identities
  <2> QED
    BY <1>0, <1>1, <1>3, <2>1, DecideRefined, AbstractSteps
<1>4. CASE Release \/ Stop \/ ResetSyncs \/ ForgetFails \/ Crash \/ Boot
           \/ \E n \in Name : LockLooks(n)
  <2>1. UNCHANGED <<conf, ident>>
    BY <1>4 DEF Release, Stop, Step, ResetSyncs, ForgetFails, Crash, Boot, LockLooks
  <2>2. SyncTo(conf') \/ \A n \in Name : node'[n] \in {node[n], NoDir}
    BY <1>0, <1>4 DEF Release, Stop, ResetSyncs, ForgetFails, Crash, Boot, LockLooks
  <2> QED
    BY <1>2, <2>1, <2>2
<1>5. ASSUME NEW n \in Name,
             \/ Add(n) \/ Enable(n) \/ Disable(n) \/ AuthKey(n) \/ LockCommits(n)
             \/ UnlockCommits(n) \/ EditDir(n) \/ BeginReset(n) \/ BeginRemove(n)
      PROVE  ConsentRefined!IdNext
  <2>1. UNCHANGED ident /\ (SyncTo(conf') \/ UNCHANGED node)
    BY <1>5 DEF Add, Enable, Disable, AuthKey, Update, LockCommits, UnlockCommits, EditDir,
       BeginReset, BeginRemove, Begin
  <2>2. \A m \in Name \ {n} : conf'[m] = conf[m]
    BY <1>0, <1>5 DEF Add, Enable, Disable, AuthKey, Update, LockCommits, UnlockCommits,
       EditDir, BeginReset, BeginRemove, Begin
  <2> QED
    BY <1>3, <2>1, <2>2
<1>6. CASE Forget
  <2>1. op \in Request
    BY <1>6 DEF Forget, ProvisionInv, ProvisionTypeOK, NoOp, Request
  <2>2. PICK n \in Name : n = op.tn
    BY <2>1 DEF Request
  <2>3. (\A m \in Name \ {n} : conf'[m] = conf[m]) /\ UNCHANGED ident /\ SyncTo(conf')
    BY <1>0, <1>6, <2>2 DEF Forget
  <2> QED
    BY <1>3, <2>3
<1>7. ASSUME NEW n \in Name, NodeEnrolls(n) PROVE ConsentRefined!IdNext
  <2>1. /\ Runs(n) /\ node[n] \in Dir /\ UNCHANGED <<conf, node>>
        /\ ident' = [ident EXCEPT ![node[n]] = n]
    BY <1>0, <1>7 DEF NodeEnrolls, Runs
  <2>2. <<n, node[n]>> \in Members /\ UNCHANGED <<Consents, Members>>
    BY <2>1 DEF Members, Consents, Runs, Wanted
  <2>3. Identities' = Identities \cup {node[n]}
    BY <2>1, ProvisionAssumption DEF Identities, ProvisionInv, ProvisionTypeOK
  <2> QED
    BY <2>1, <2>2, <2>3, AbstractSteps
<1>8. CASE DestroyStore \/ Purge \/ PurgeFails
  <2> DEFINE ds == {d \in Dir : ident[d] # NoName /\ ident'[d] # ident[d]}
  <2>1. /\ op # NoOp /\ op.tn \in Name /\ op.at = "destroy" /\ UNCHANGED <<conf, node>>
    <3>1. op.at = "destroy" /\ UNCHANGED <<conf, node>>
      BY <1>8 DEF DestroyStore, Purge, PurgeFails
    <3>2. op # NoOp
      BY <3>1 DEF NoOp
    <3>3. op.tn \in Name
      BY <3>2 DEF ProvisionInv, ProvisionTypeOK
    <3> QED
      BY <3>1, <3>2, <3>3
  <2>2. ~Wanted(conf, op.tn) /\ ~Runs(op.tn) /\ Condemned \cap DirsOfOthers(op.tn) = {}
    BY <2>1 DEF ProvisionInv, RequestStands, Wanted
  <2>3. \A d \in ds : d \in Condemned /\ ident'[d] = NoName
    BY OnlyTheCondemned
  <2>4. \A d \in Dir : ident'[d] # NoName => ident'[d] = ident[d]
    BY <1>8 DEF DestroyStore, Purge, PurgeFails
  <2>5. \A c \in Consents \cup Members : c[2] \notin ds
    BY <2>2, <2>3 DEF Consents, Members, DirsOfOthers, Wanted
  <2>6. Identities' = Identities \ ds
    BY <2>3, <2>4 DEF Identities
  <2>7. UNCHANGED <<Consents, Members>>
    BY <2>1 DEF Consents, Members, Wanted, Runs
  <2>8. ds \in SUBSET Dir
    OBVIOUS
  <2> HIDE DEF ds
  <2> QED
    BY <2>5, <2>6, <2>7, <2>8, AbstractSteps
<1> QED
  BY <1>4, <1>5, <1>6, <1>7, <1>8 DEF ProvisionNext, OpSteps

(* The daemon implements module Identity: no node runs without consent,    *)
(* and no identity is destroyed that a node uses or that consent covers.   *)
THEOREM ProvisionImplementsIdentity == ProvisionSpec => Consent
<1>1. ProvisionInit => ConsentRefined!IdInit
  BY ProvisionAssumption DEF ProvisionInit, ConsentRefined!IdInit, Wanted, Absent, Runs
<1>2. ProvisionInv /\ [ProvisionNext]_vars => [ConsentRefined!IdNext]_(ConsentRefined!idVars)
  <2>1. UNCHANGED vars => UNCHANGED ConsentRefined!idVars
    BY DEF vars, ConsentRefined!idVars, Wanted, Runs
  <2> QED
    BY <2>1, StepRefined
<1> QED
  BY <1>1, <1>2, ProvisionInvariant, PTL DEF ProvisionSpec, Consent, ConsentRefined!IdSpec
=============================================================================
