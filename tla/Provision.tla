----------------------------- MODULE Provision -----------------------------
(***************************************************************************)
(* How tailnets come and go in the ts-multinet daemon: adding, enabling    *)
(* and disabling, resetting the identity (control_identity.go) and         *)
(* deleting (control_remove.go), with a daemon that may crash between any  *)
(* two writes.                                                             *)
(*                                                                         *)
(* Reset and delete hold cfgMu from their checks to their answer and are   *)
(* cut at every write to the disk; the other requests are one step, the    *)
(* lock request two, since it looks for the running node before it takes   *)
(* cfgMu.  A state directory holds an identity store and selection pins.   *)
(* Module Daemon looks inside the sync, here its starts succeed or fail.   *)
(***************************************************************************)
EXTENDS Naturals, FiniteSets

CONSTANTS
  Name,      \* tailnets
  Dir,       \* paths of state directories
  Base,      \* the shared state_dir of the daemon
  Below,     \* path -> the paths at or below it
  DefaultDir,\* tailnet -> Base/<name>
  NoDir, NoName,
  MaxEdits,  \* bound: state_dir edits by hand
  MaxLocking,\* bound: lock requests at a time
  MaxCrashes \* bound: crashes of the daemon

ASSUME ProvisionAssumption ==
  /\ NoDir \notin Dir /\ NoName \notin Name
  /\ Base \in Dir /\ DefaultDir \in [Name -> Dir \ {Base}]
  /\ Below \in [Dir -> SUBSET Dir]
  /\ \A d \in Dir : d \in Below[d]
  /\ MaxEdits \in Nat /\ MaxLocking \in Nat /\ MaxCrashes \in Nat

VARIABLES
  conf,    \* the config file: name -> [present, enabled, key, locked, dir]
  ident,   \* directory -> the tailnet whose identity it stores, or NoName
  pins,    \* directories that hold selection pins
  made,    \* directories that exist
  node,    \* name -> state directory of the running node, NoDir if none
  up,      \* the daemon runs
  op,      \* reset or delete in progress: [kind, at, tn, dir]
  locking, \* lock requests that saw a running node, not yet committed
  used     \* what has been used of each bound

vars == <<conf, ident, pins, made, node, up, op, locking, used>>

NoOp == [kind |-> "none", at |-> "idle", tn |-> NoName, dir |-> NoDir]

Idle == up /\ op = NoOp
Runs(n) == node[n] # NoDir
Wanted(c, n) == c[n].present /\ c[n].enabled
Absent(n) == [present |-> FALSE, enabled |-> FALSE, key |-> FALSE,
              locked |-> FALSE, dir |-> DefaultDir[n]]

ProvisionInit ==
  /\ conf = [n \in Name |-> Absent(n)]
  /\ ident = [d \in Dir |-> NoName]
  /\ pins = {} /\ made = {Base}
  /\ node = [n \in Name |-> NoDir]
  /\ up = TRUE /\ op = NoOp /\ locking = {}
  /\ used = [edits |-> 0, crashes |-> 0]
-----------------------------------------------------------------------------
(* syncTailnets to the config c: what is no longer wanted stops, what is   *)
(* wanted and does not run starts or fails to; a start makes the state     *)
(* directory.                                                              *)
SyncTo(c) ==
  \E started \in SUBSET {n \in Name : Wanted(c, n) /\ ~Runs(n)} :
    /\ node' = [n \in Name |-> IF n \in started THEN c[n].dir
                              ELSE IF Wanted(c, n) THEN node[n] ELSE NoDir]
    /\ made' = made \cup {c[n].dir : n \in started}

(* applyConfigUpdate: a written change and a sync under one lock. *)
Update(n, entry) ==
  /\ Idle
  /\ conf' = [conf EXCEPT ![n] = entry]
  /\ SyncTo(conf')
  /\ UNCHANGED <<ident, pins, up, op, locking, used>>

Add(n) ==
  /\ ~conf[n].present
  /\ \E k \in BOOLEAN :
       Update(n, [Absent(n) EXCEPT !.present = TRUE, !.enabled = TRUE, !.key = k])

Enable(n) == conf[n].present /\ Update(n, [conf[n] EXCEPT !.enabled = TRUE])

Disable(n) ==
  /\ conf[n].present /\ ~conf[n].locked
  /\ Update(n, [conf[n] EXCEPT !.enabled = FALSE])

(* The restart that lets a node use a new key is left to module Daemon. *)
AuthKey(n) == conf[n].present /\ Update(n, [conf[n] EXCEPT !.key = TRUE])

(* handleLock needs a running node, seen before cfgMu is taken; "on" locks *)
(* and "off" unlocks.                                                      *)
LockLooks(n) ==
  /\ up /\ Runs(n)
  /\ Cardinality(locking) < MaxLocking
  /\ locking' = locking \cup {n}
  /\ UNCHANGED <<conf, ident, pins, made, node, up, op, used>>

(* A slip: the lock does not wait for cfgMu. *)
LockCommitsUnserialized(n) ==
  /\ up /\ n \in locking
  /\ locking' = locking \ {n}
  /\ conf[n].present /\ conf' = [conf EXCEPT ![n].locked = TRUE]
  /\ UNCHANGED <<ident, pins, made, node, up, op, used>>

LockCommits(n) ==
  /\ Idle /\ n \in locking
  /\ locking' = locking \ {n}
  /\ IF conf[n].present
     THEN /\ conf' = [conf EXCEPT ![n].locked = TRUE]
          /\ SyncTo(conf')
     ELSE UNCHANGED <<conf, node, made>>
  /\ UNCHANGED <<ident, pins, up, op, used>>

UnlockCommits(n) ==
  /\ n \in locking /\ conf[n].present
  /\ Idle
  /\ locking' = locking \ {n}
  /\ conf' = [conf EXCEPT ![n].locked = FALSE]
  /\ SyncTo(conf')
  /\ UNCHANGED <<ident, pins, up, op, used>>
-----------------------------------------------------------------------------
(* The directories other tailnets use, by the config or by a running node. *)
DirsOfOthers(n) ==
  {conf[m].dir : m \in {k \in Name \ {n} : conf[k].present}}
  \cup {node[m] : m \in {k \in Name \ {n} : Runs(k)}}

(* The running node must use the configured directory: state_dir may have  *)
(* been edited since it started.                                           *)
SameDir(n) == Runs(n) => node[n] = conf[n].dir /\ conf[n].dir \in made

MayReset(n) == /\ conf[n].present /\ ~conf[n].locked /\ SameDir(n)
               /\ conf[n].dir \in made => conf[n].dir \notin DirsOfOthers(n)

(* A slip: nothing is protected. *)
MayPurgeUnprotected(n) == conf[n].present /\ ~conf[n].locked /\ SameDir(n)

(* purgeTarget: nothing protected lies at or below the directory. *)
MayPurge(n) ==
  /\ conf[n].present /\ ~conf[n].locked /\ SameDir(n)
  /\ conf[n].dir \in made =>
       Below[conf[n].dir] \cap (DirsOfOthers(n) \cup {Base}) = {}

(* A slip: the first write is left out. *)
BeginKeepsKey(kind, n) ==
  /\ Idle
  /\ op' = [kind |-> kind, at |-> "stop", tn |-> n,
            dir |-> IF conf[n].dir \in made THEN conf[n].dir ELSE NoDir]
  /\ UNCHANGED <<conf, ident, pins, made, node, up, locking, used>>

(* Both write "disabled, no key" first.  "dir" is NoDir if there is no     *)
(* directory: then there is nothing to destroy.                            *)
Begin(kind, n) ==
  /\ Idle
  /\ conf' = [conf EXCEPT ![n].enabled = FALSE, ![n].key = FALSE]
  /\ op' = [kind |-> kind, at |-> "stop", tn |-> n,
            dir |-> IF conf[n].dir \in made THEN conf[n].dir ELSE NoDir]
  /\ UNCHANGED <<ident, pins, made, node, up, locking, used>>

BeginReset(n) == MayReset(n) /\ Begin("reset", n)

BeginRemove(n) == MayPurge(n) /\ Begin("remove", n)

Step(at) ==
  /\ op' = [op EXCEPT !.at = at]
  /\ UNCHANGED <<conf, ident, pins, made, up, locking, used>>

(* A slip: the node is not stopped. *)
SkipStop == up /\ op.at = "stop" /\ Step("destroy") /\ UNCHANGED node

(* stopTailnet waits for the node's writers. *)
Stop ==
  /\ up /\ op.at = "stop"
  /\ node' = [node EXCEPT ![op.tn] = NoDir]
  /\ Step("destroy")

Answer(ok) == op' = [op EXCEPT !.at = IF ok THEN "succeeded" ELSE "failed"]

(* The answer is written, then the deferred unlock. *)
Release ==
  /\ up /\ op.at \in {"succeeded", "failed"}
  /\ op' = NoOp
  /\ UNCHANGED <<conf, ident, pins, made, node, up, locking, used>>

(* root.Remove("tailscaled.state"): the pins stay. *)
DestroyStore ==
  /\ up /\ op.at = "destroy" /\ op.kind = "reset"
  /\ ident' = [d \in Dir |-> IF d = op.dir THEN NoName ELSE ident[d]]
  /\ op' = [op EXCEPT !.at = "sync"]
  /\ UNCHANGED <<conf, pins, made, node, up, locking, used>>

ResetSyncs ==
  /\ up /\ op.at = "sync"
  /\ SyncTo(conf)
  /\ Answer(TRUE)
  /\ UNCHANGED <<conf, ident, pins, up, locking, used>>

(* parent.RemoveAll(leaf) *)
Doomed == IF op.dir = NoDir THEN {} ELSE Below[op.dir]

Purge ==
  /\ up /\ op.at = "destroy" /\ op.kind = "remove"
  /\ ident' = [d \in Dir |-> IF d \in Doomed THEN NoName ELSE ident[d]]
  /\ pins' = pins \ Doomed
  /\ made' = made \ Doomed
  /\ op' = [op EXCEPT !.at = "forget"]
  /\ UNCHANGED <<conf, node, up, locking, used>>

(* ... or it fails after some of the files; the answer is an error. *)
PurgeFails ==
  /\ up /\ op.at = "destroy" /\ op.dir # NoDir
  /\ IF op.kind = "remove"
     THEN \E ds, ps \in SUBSET Doomed :
            /\ ident' = [d \in Dir |-> IF d \in ds THEN NoName ELSE ident[d]]
            /\ pins' = pins \ ps
     ELSE UNCHANGED <<ident, pins>>
  /\ Answer(FALSE)
  /\ UNCHANGED <<conf, made, node, up, locking, used>>

(* Only now the entry leaves the config. *)
Forget ==
  /\ up /\ op.at = "forget"
  /\ conf' = [conf EXCEPT ![op.tn] = Absent(op.tn)]
  /\ SyncTo(conf')
  /\ Answer(TRUE)
  /\ UNCHANGED <<ident, pins, up, locking, used>>

(* A config write that fails changes nothing. *)
ForgetFails ==
  /\ up /\ op.at = "forget"
  /\ Answer(FALSE)
  /\ UNCHANGED <<conf, ident, pins, made, node, up, locking, used>>
-----------------------------------------------------------------------------
(* The node: enrolls with its key, or after a login in the browser; the    *)
(* daemon writes pins when it applies selections.                          *)
NodeEnrolls(n) ==
  /\ up /\ Runs(n) /\ ident[node[n]] = NoName
  /\ ident' = [ident EXCEPT ![node[n]] = n]
  /\ pins' = pins \cup {node[n]}
  /\ UNCHANGED <<conf, made, node, up, op, locking, used>>

(* state_dir is edited by hand, the running node keeps its directory *)
EditDir(n) ==
  /\ Idle
  /\ conf[n].present
  /\ used.edits < MaxEdits /\ used' = [used EXCEPT !.edits = @ + 1]
  /\ \E d \in Dir : conf' = [conf EXCEPT ![n].dir = d]
  /\ UNCHANGED <<ident, pins, made, node, up, op, locking>>

Crash ==
  /\ up
  /\ used.crashes < MaxCrashes /\ used' = [used EXCEPT !.crashes = @ + 1]
  /\ up' = FALSE /\ op' = NoOp /\ locking' = {}
  /\ node' = [n \in Name |-> NoDir]
  /\ UNCHANGED <<conf, ident, pins, made>>

(* main: the first sync *)
Boot ==
  /\ ~up /\ up' = TRUE
  /\ SyncTo(conf)
  /\ UNCHANGED <<conf, ident, pins, op, locking, used>>

OpSteps == Release \/ Stop \/ DestroyStore \/ ResetSyncs \/ Purge \/ PurgeFails \/ Forget \/ ForgetFails

ProvisionNext ==
  \/ OpSteps \/ Crash \/ Boot
  \/ \E n \in Name :
       \/ Add(n) \/ Enable(n) \/ Disable(n) \/ AuthKey(n)
       \/ LockLooks(n) \/ LockCommits(n) \/ UnlockCommits(n)
       \/ BeginReset(n) \/ BeginRemove(n)
       \/ NodeEnrolls(n) \/ EditDir(n)

ProvisionSpec == ProvisionInit /\ [][ProvisionNext]_vars
-----------------------------------------------------------------------------
ProvisionTypeOK ==
  /\ conf \in [Name -> [present : BOOLEAN, enabled : BOOLEAN, key : BOOLEAN,
                        locked : BOOLEAN, dir : Dir]]
  /\ \A n \in Name : ~conf[n].present => conf[n] = Absent(n)
  /\ ident \in [Dir -> Name \cup {NoName}]
  /\ pins \subseteq Dir /\ made \subseteq Dir
  /\ node \in [Name -> Dir \cup {NoDir}]
  /\ up \in BOOLEAN /\ locking \subseteq Name
  /\ op = NoOp \/ op \in [kind : {"reset", "remove"}, tn : Name, dir : Dir \cup {NoDir},
                          at : {"stop", "destroy", "sync", "forget",
                                "succeeded", "failed"}]
  /\ ~up => op = NoOp /\ \A n \in Name : ~Runs(n)

(* The answer of a delete is honest (comment on handleRemoveTailnet: "it   *)
(* never reports a successful deletion while leaving reusable credentials  *)
(* behind"): on success neither entry nor key nor stored login nor pins    *)
(* are left; on failure the entry is there, disabled and keyless, so that  *)
(* the delete can be retried.                                              *)
HonestAnswer ==
  LET n == op.tn IN
  /\ op.at = "succeeded" =>
       /\ op.dir # NoDir => ident[op.dir] = NoName
       /\ op.kind = "remove" => ~conf[n].present /\ op.dir \notin pins
       /\ op.kind = "reset" => conf[n].present
  /\ op.at \in {"succeeded", "failed"} /\ conf[n].present =>
       ~conf[n].enabled /\ ~conf[n].key /\ ~Runs(n)
  /\ op.at = "failed" => conf[n].present

(* The directories the request under way may destroy. *)
Condemned ==
  IF op.dir = NoDir THEN {} ELSE IF op.kind = "reset" THEN {op.dir} ELSE Below[op.dir]

(* A reset or delete under way: its tailnet stays disabled, unlocked and   *)
(* without a key, is stopped before anything is destroyed, and nobody else *)
(* comes to use what is destroyed.                                         *)
RequestStands ==
  op # NoOp =>
    LET n == op.tn IN
    /\ ~conf[n].enabled /\ ~conf[n].key /\ ~conf[n].locked
    /\ conf[n].present <=> ~(op.kind = "remove" /\ op.at = "succeeded")
    /\ op.at # "stop" => ~Runs(n)
    /\ op.at = "sync" => op.kind = "reset"
    /\ op.at = "forget" => op.kind = "remove"
    /\ Condemned \cap DirsOfOthers(n) = {}
    /\ op.at \in {"sync", "forget", "succeeded"} =>
         \A d \in Condemned : ident[d] = NoName /\ (op.kind = "remove" => d \notin pins)

(* The inductive invariant: typed as above, every answer an honest one,    *)
(* and every request on its way to one.                                    *)
ProvisionInv == ProvisionTypeOK /\ HonestAnswer /\ RequestStands

(* Nothing a tailnet still uses, or could use when enabled, is destroyed   *)
(* by the reset or the delete of another one: neither in a shared nor in a *)
(* nested directory, configured or still in use by a running node.         *)
OthersUntouched ==
  [][\A m \in Name, d \in Dir :
       /\ (conf[m].present /\ conf[m].dir = d) \/ node[m] = d
       /\ ident[d] # NoName /\ ident'[d] # ident[d]
       => op.tn = m]_vars

(* The user consents to what the config enables, in the directory it says. *)
ConsentRefined == INSTANCE Identity WITH
  consent <- {<<n, conf[n].dir>> : n \in {m \in Name : Wanted(conf, m)}},
  member <- {<<n, node[n]>> : n \in {m \in Name : Runs(m)}},
  identity <- {d \in Dir : ident[d] # NoName}

(* Reset, delete and a crash at any point implement module Identity: "a    *)
(* failed reset or daemon crash cannot silently enroll the node again"     *)
(* (comment on handleResetIdentity), since no node runs without consent,   *)
(* and no identity is destroyed that a node still uses or consent covers.  *)
Consent == ConsentRefined!IdSpec

(* Locked selections "block disabling or removing the tailnet" (comment on *)
(* handleLock), also against a request that is already under way.          *)
LockedKept ==
  [][\A n \in Name : conf[n].locked /\ conf'[n].locked =>
       /\ conf[n].enabled => conf'[n].enabled
       /\ op.tn # n]_vars
=============================================================================
