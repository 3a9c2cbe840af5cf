----------------------------- MODULE ConfigFile -----------------------------
(***************************************************************************)
(* The config file of ts-multinet (cmd/ts-multinet/configpatch.go,         *)
(* applyConfigUpdate and the handlers of control.go): the daemon rewrites  *)
(* it for every request and people edit it by hand, at any moment.         *)
(*                                                                         *)
(* A request holds cfgMu from the moment it loads the file until the       *)
(* running set is in sync with it.  In between the file is read a second   *)
(* time, patched, checked against what was intended and replaced by a      *)
(* rename.  The file is what it parses to, a sequence of entries; comments *)
(* and layout, which the patch keeps, have no part here.  slot stands for  *)
(* range and device, enabled for every member that is patched in place.    *)
(***************************************************************************)
EXTENDS Naturals, Sequences, SequencesExt

CONSTANTS
  Name,         \* tailnet names, which differ in more than case
  Slot,         \* ranges with their devices
  Client,       \* who adds a tailnet, several at a time
  NoEntry,
  MaxEntries,   \* bound: entries of the file
  MaxRequests,  \* bound: requests
  MaxEdits,     \* bound: edits by hand
  MaxFaults     \* bound: crashes and writes that fail

ASSUME ConfigAssumption ==
  /\ NoEntry \notin Name /\ MaxEntries \in Nat \ {0}
  /\ {MaxRequests, MaxEdits, MaxFaults} \subseteq Nat

VARIABLES
  file,    \* the config file
  newer,   \* its mtime is past the recorded one (handleApplied: dirty)
  synced,  \* the config that the running set was last synced to
  picked,  \* client -> the entry it has chosen and not yet written
  op,      \* the holder of cfgMu, where it stands and what it has read
  up,      \* the daemon has booted
  unseen,  \* history: an edit fell into the last sync
  used     \* what has been used of each bound

vars == <<file, newer, synced, picked, op, up, unseen, used>>

Entry == [name : Name, slot : Slot, dir : {"default", "own"},
          enabled : BOOLEAN, key : BOOLEAN]

Use(bound, max) == used[bound] < max /\ used' = [used EXCEPT ![bound] = @ + 1]

Idle == [at |-> "idle", by |-> NoEntry, prev |-> <<>>, next |-> <<>>,
         out |-> <<>>, again |-> FALSE, edited |-> FALSE]

CfgInit ==
  /\ \E n \in Name, s \in Slot :
       file = <<[name |-> n, slot |-> s, dir |-> "default", enabled |-> TRUE, key |-> FALSE]>>
  /\ newer = FALSE /\ synced = <<>> /\ up = FALSE /\ unseen = FALSE
  /\ picked = [c \in Client |-> NoEntry]
  /\ op = Idle
  /\ used = [requests |-> 0, edits |-> 0, faults |-> 0]
-----------------------------------------------------------------------------
Names(f) == {f[i].name : i \in DOMAIN f}

(* confByName, tailnetObject and removeTailnetElement find the first entry *)
(* of a name, the map prevBy of patchConfigFile holds the last.            *)
Pos(f, n) == SelectInSeq(f, LAMBDA e : e.name = n)
LastPos(f, n) == SelectLastInSeq(f, LAMBDA e : e.name = n)

(* checkCIDR and checkTUN, without the entry called n *)
Free(f, s, n) == \A i \in DOMAIN f : f[i].slot = s => f[i].name = n

(* insertTailnetElement writes no state_dir. *)
Inserted(e) == [e EXCEPT !.dir = "default"]

Structural(o, e) == o.slot # e.slot \/ o.dir # e.dir

Edited(old, o, e) ==
  [old EXCEPT !.enabled = IF o.enabled # e.enabled THEN e.enabled ELSE @,
              !.key = IF o.key # e.key THEN e.key ELSE @]

(* One turn of the loop over next.  A name that is not found is an error,  *)
(* as is every result that misses an entry.                                *)
PatchEntry(prev, f, e) ==
  LET o == prev[LastPos(prev, e.name)]
      i == Pos(f, e.name)
  IN IF LastPos(prev, e.name) = 0 THEN Append(f, Inserted(e))
     ELSE IF i = 0 THEN f
     ELSE [f EXCEPT ![i] = IF Structural(o, e) THEN Inserted(e) ELSE Edited(@, o, e)]

DropEntry(next, f, e) ==
  IF e.name \in Names(next) \/ Pos(f, e.name) = 0 THEN f ELSE RemoveAt(f, Pos(f, e.name))

(* The loop over prev: what it leaves of the elements that next drops. *)
Kept(f, prev, next) ==
  LET turn[k \in 0 .. Len(prev)] ==
        IF k = 0 THEN f ELSE DropEntry(next, turn[k - 1], prev[k])
  IN turn[Len(prev)]

(* The loop over next *)
Rewritten(f, prev, next) ==
  LET turn[k \in 0 .. Len(next)] ==
        IF k = 0 THEN f ELSE PatchEntry(prev, turn[k - 1], next[k])
  IN turn[Len(next)]

(* A slip: no element is ever removed. *)
PatchKeepsDropped(f, prev, next) == Rewritten(f, prev, next)

(* A slip: the intended entries are written over the file. *)
PatchOver(f, prev, next) == next

(* patchConfigFile: what becomes of the bytes f when the change from prev  *)
(* to next is made in them.                                                *)
Patch(f, prev, next) == Rewritten(Kept(f, prev, next), prev, next)

(* The entries that are not called n *)
Others(f, n) ==
  LET upto[k \in 0 .. Len(f)] ==
        IF k = 0 THEN <<>>
        ELSE IF f[k].name = n THEN upto[k - 1] ELSE Append(upto[k - 1], f[k])
  IN upto[Len(f)]

(* configsEqual: everything but the auth key *)
Same(f, g) ==
  Len(f) = Len(g) /\ \A i \in DOMAIN f : [f[i] EXCEPT !.key = g[i].key] = g[i]
-----------------------------------------------------------------------------
(* applyConfigUpdate: cfgMu, loadConfig, and the change that next is.      *)
Load(n, next, again) ==
  /\ up /\ op.at = "idle"
  /\ op' = [Idle EXCEPT !.at = "patch", !.by = n, !.prev = file, !.next = next, !.again = again]
  /\ UNCHANGED <<file, newer, synced, up, unseen>>

(* handleAddTailnet chooses under cfgMu, lets go, and appends under cfgMu. *)
AddPicks(c, n, s) ==
  /\ up /\ op.at = "idle" /\ picked[c] = NoEntry
  /\ n \notin Names(file) /\ Free(file, s, NoEntry)
  /\ Use("requests", MaxRequests)
  /\ picked' = [picked EXCEPT ![c] =
       [name |-> n, slot |-> s, dir |-> "default", enabled |-> TRUE, key |-> FALSE]]
  /\ UNCHANGED <<file, newer, synced, op, up, unseen>>

AddCommits(c) ==
  /\ picked[c] # NoEntry /\ Len(file) < MaxEntries
  /\ Load(picked[c].name, Append(file, picked[c]), FALSE)
  /\ picked' = [picked EXCEPT ![c] = NoEntry]
  /\ UNCHANGED used

Change(n, e) ==
  /\ Use("requests", MaxRequests)
  /\ Load(n, [file EXCEPT ![Pos(file, n)] = e], FALSE)
  /\ UNCHANGED picked

MoveTo(n, s) ==
  /\ n \in Names(file)
  /\ file[Pos(file, n)].slot = s \/ Free(file, s, n)
  /\ Change(n, [file[Pos(file, n)] EXCEPT !.slot = s])

Enable(n, on) ==
  /\ n \in Names(file)
  /\ Change(n, [file[Pos(file, n)] EXCEPT !.enabled = on])

AuthKey(n, key) ==
  /\ n \in Names(file)
  /\ Change(n, [file[Pos(file, n)] EXCEPT !.key = key])

(* handleRemoveTailnet first disables the entry and drops its key, then,   *)
(* still with cfgMu and with what it has loaded, removes it.               *)
RemoveTailnet(n) ==
  /\ n \in Names(file)
  /\ Use("requests", MaxRequests)
  /\ Load(n, [file EXCEPT ![Pos(file, n)].enabled = FALSE, ![Pos(file, n)].key = FALSE], TRUE)
  /\ UNCHANGED picked

(* A slip: what was loaded is patched, and not checked. *)
PatchReadsOnce ==
  /\ op.at = "patch"
  /\ op' = [op EXCEPT !.at = "write", !.out = Patch(op.prev, op.prev, op.next)]
  /\ UNCHANGED <<file, newer, synced, picked, up, unseen, used>>

(* The second read, and "Never write a file we can't parse back to exactly *)
(* what we intended".                                                      *)
PatchReads ==
  /\ op.at = "patch"
  /\ LET out == Patch(file, op.prev, op.next) IN
       op' = IF Same(out, op.next) THEN [op EXCEPT !.at = "write", !.out = out] ELSE Idle
  /\ UNCHANGED <<file, newer, synced, picked, up, unseen, used>>

(* A slip: the file keeps its time. *)
RenameKeepsTime ==
  /\ op.at = "write"
  /\ file' = op.out
  /\ op' = IF ~op.again THEN [op EXCEPT !.at = "sync", !.edited = FALSE]
           ELSE [op EXCEPT !.at = "patch", !.prev = op.next, !.again = FALSE, !.edited = FALSE,
                           !.next = Others(op.next, op.by)]
  /\ UNCHANGED <<newer, synced, picked, up, unseen, used>>

(* atomicWrite *)
Rename ==
  /\ op.at = "write"
  /\ file' = op.out
  /\ newer' = TRUE
  /\ op' = IF ~op.again THEN [op EXCEPT !.at = "sync", !.edited = FALSE]
           ELSE [op EXCEPT !.at = "patch", !.prev = op.next, !.again = FALSE, !.edited = FALSE,
                           !.next = Others(op.next, op.by)]
  /\ UNCHANGED <<synced, picked, up, unseen, used>>

WriteFails ==
  /\ op.at = "write" /\ Use("faults", MaxFaults)
  /\ op' = Idle
  /\ UNCHANGED <<file, newer, synced, picked, up, unseen>>

(* reload, and the first sync of a boot *)
ReloadReads ==
  /\ op.at = "idle"
  /\ op' = [Idle EXCEPT !.at = "sync", !.next = file]
  /\ up' = TRUE
  /\ UNCHANGED <<file, newer, synced, picked, unseen, used>>

SyncTailnets ==
  /\ op.at = "sync"
  /\ synced' = op.next
  /\ op' = [op EXCEPT !.at = "record"]
  /\ UNCHANGED <<file, newer, picked, up, unseen, used>>

(* recordApplied stats the file as it is now. *)
RecordApplied ==
  /\ op.at = "record"
  /\ newer' = FALSE
  /\ unseen' = op.edited
  /\ op' = Idle
  /\ UNCHANGED <<file, synced, picked, up, used>>
-----------------------------------------------------------------------------
(* An editor saves.  It makes no two entries of one name, nor of one slot. *)
Edits ==
  {[file EXCEPT ![i] = e] : i \in DOMAIN file, e \in Entry}
  \cup {RemoveAt(file, i) : i \in DOMAIN file}
  \cup IF Len(file) < MaxEntries THEN {Append(file, e) : e \in Entry} ELSE {}

Sound(f) == \A i, j \in DOMAIN f : i # j => f[i].name # f[j].name /\ f[i].slot # f[j].slot

HandEdit ==
  /\ Use("edits", MaxEdits)
  /\ file' \in {f \in Edits : Sound(f)} \ {file}
  /\ newer' = TRUE
  /\ op' = IF op.at \in {"idle", "patch"} THEN op ELSE [op EXCEPT !.edited = TRUE]
  /\ UNCHANGED <<synced, picked, up, unseen>>

(* The recorded mtime is lost with the daemon; without one nothing is      *)
(* reported as drift.                                                      *)
Crash ==
  /\ up /\ Use("faults", MaxFaults)
  /\ op' = Idle
  /\ picked' = [c \in Client |-> NoEntry]
  /\ newer' = FALSE /\ synced' = <<>> /\ up' = FALSE /\ unseen' = FALSE
  /\ UNCHANGED file

CfgNext ==
  \/ \E c \in Client : AddCommits(c) \/ \E n \in Name, s \in Slot : AddPicks(c, n, s)
  \/ \E n \in Name :
       \/ RemoveTailnet(n)
       \/ \E s \in Slot : MoveTo(n, s)
       \/ \E v \in BOOLEAN : Enable(n, v) \/ AuthKey(n, v)
  \/ PatchReads \/ Rename \/ WriteFails
  \/ ReloadReads \/ SyncTailnets \/ RecordApplied
  \/ HandEdit \/ Crash

CfgSpec == CfgInit /\ [][CfgNext]_vars
-----------------------------------------------------------------------------
CfgTypeOK ==
  /\ file \in Seq(Entry) /\ Len(file) <= MaxEntries
  /\ synced \in Seq(Entry) /\ {newer, up, unseen} \subseteq BOOLEAN
  /\ picked \in [Client -> Entry \cup {NoEntry}]
  /\ op \in [at : {"idle", "patch", "write", "sync", "record"}, by : Name \cup {NoEntry},
             prev : Seq(Entry), next : Seq(Entry), out : Seq(Entry),
             again : BOOLEAN, edited : BOOLEAN]
  /\ op.at = "idle" => op = Idle
  /\ ~up => op = Idle

(* A request touches its own tailnet only: what the file says of the       *)
(* others, state_dir and auth key included, is what it said before, also   *)
(* when it was edited by hand after the request had loaded it.  Only an    *)
(* edit between the second read and the rename is overwritten.             *)
OthersKept ==
  [][op.at = "write" /\ op'.at \notin {"write", "idle"} /\ ~op.edited
       => Others(file', op.by) = Others(file, op.by)]_vars

(* Two requests that add the same name at the same time: the second finds  *)
(* the file changed since it chose, and its write is refused by the check  *)
(* of the round trip, not by the check of the name, which came too early.  *)
NamesUnique == \A i, j \in DOMAIN file : i # j => file[i].name # file[j].name

(* The states of file and daemon: typed as above, and never with a name    *)
(* twice in the file.                                                      *)
CfgInv == CfgTypeOK /\ NamesUnique

(* Without a hand edit in between, and unless the name was added twice or  *)
(* an entry with its own state_dir is moved, the patch of what a handler   *)
(* asks for is what it asked for, in the same order: no request is refused *)
(* for the way the file happens to be laid out.                            *)
AddedTwice == Cardinality(Names(op.next)) # Len(op.next)
MovesOwnDir ==
  \E i \in DOMAIN op.prev \cap DOMAIN op.next :
     op.prev[i].dir = "own" /\ op.prev[i].slot # op.next[i].slot

PatchServes ==
  op.at = "patch" /\ op.prev = file /\ ~AddedTwice /\ ~MovesOwnDir
    => Same(Patch(file, op.prev, op.next), op.next)

(* A running set that is not what the file says is reported as drift       *)
(* (handleApplied), unless the edit fell into a sync, whose end records    *)
(* the file as it is then.  The auth key is no part of it.                 *)
DriftSeen ==
  up /\ op.at = "idle" /\ ~unseen /\ ~newer => Same(file, synced)

(* Every change of a range is served (configpatch.go:26: "a cidr/tun       *)
(* change rewrites the element").                                          *)
MoveServed ==
  op.at = "patch" /\ op.prev = file /\ ~AddedTwice
    => Same(Patch(file, op.prev, op.next), op.next)

(* No two tailnets share a range: checkCIDR, "not overlapping any          *)
(* configured tailnet's range".                                            *)
RangesDistinct == \A i, j \in DOMAIN file : i # j => file[i].slot # file[j].slot
=============================================================================
