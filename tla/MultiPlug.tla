------------------------------ MODULE MultiPlug ------------------------------
(***************************************************************************)
(* ts-plug from start to end (cmd/ts-multi-plug/ts-multi-plug.go): main    *)
(* starts a command, brings the node up and serves its ports; one          *)
(* goroutine waits for the command and for signals, one kills the command  *)
(* when the context is cancelled (exec.CommandContext), and each listener  *)
(* runs on its own.                                                        *)
(*                                                                         *)
(* select evaluates what it may send before it waits: in                   *)
(*   select { case cmdExitChan <- cmd.Wait(): ... case sig := <-signalChan *)
(* the goroutine is inside Wait until the command is gone, and only then   *)
(* ready for either case.                                                  *)
(***************************************************************************)
EXTENDS Naturals

CONSTANTS
  Listener,    \* the listeners enabled: "http", "https", "dns", "tcp"
  Sturdy,      \* those that go on after a read error (startDNSListener)
  MaxSignals   \* bound: signals sent

ASSUME PlugAssumption == Sturdy \subseteq Listener /\ MaxSignals \in Nat

VARIABLES
  main,       \* "starting" (ts.Up), "serving" (waits for cmdExitChan), "gone"
  status,     \* how main ended: "none", "clean", "failed"
  child,      \* the command: "running", "blocked" (on a full pipe), "dead"
  reading,    \* attachLogging reads the pipes of the command
  at,         \* the goroutine: "wait" (in cmd.Wait), "select", "done"
  waited,     \* cmd.Wait has returned once; after that it fails at once
  pending,    \* signalChan holds a signal
  cancelled,  \* the context
  listener,   \* listener -> "off", "opening", "open", "closed", "failed"
  sent        \* signals sent so far

plugVars == <<main, status, child, reading, at, waited, pending, cancelled, listener, sent>>

PlugInit ==
  /\ main = "starting" /\ status = "none" /\ child = "running" /\ reading = TRUE
  /\ at = "wait" /\ waited = FALSE /\ pending = FALSE /\ cancelled = FALSE
  /\ listener = [l \in Listener |-> "off"]
  /\ sent = 0
-----------------------------------------------------------------------------
Alive == main # "gone"

Ends(how) == main' = "gone" /\ status' = how

(* The command ends by itself, also when ts-plug is no more. *)
ChildExits ==
  /\ child = "running"
  /\ child' = "dead"
  /\ UNCHANGED <<main, status, reading, at, waited, pending, cancelled, listener, sent>>

(* A line beyond the scanner's limit ends the reading; the pipe fills up.  *)
LongLine ==
  /\ Alive /\ child = "running" /\ reading
  /\ reading' = FALSE
  /\ UNCHANGED <<main, status, child, at, waited, pending, cancelled, listener, sent>>

ChildBlocks ==
  /\ Alive /\ child = "running" /\ ~reading
  /\ child' = "blocked"
  /\ UNCHANGED <<main, status, reading, at, waited, pending, cancelled, listener, sent>>

(* exec.CommandContext *)
KillChild ==
  /\ Alive /\ cancelled /\ child # "dead"
  /\ child' = "dead"
  /\ UNCHANGED <<main, status, reading, at, waited, pending, cancelled, listener, sent>>

(* signal.Notify on a channel of one: a second signal is dropped. *)
Signal ==
  /\ Alive /\ sent < MaxSignals
  /\ sent' = sent + 1
  /\ pending' = TRUE
  /\ UNCHANGED <<main, status, child, reading, at, waited, cancelled, listener>>

(* A slip: the goroutine leaves Wait when the context is cancelled. *)
WaitReturnsEarly ==
  /\ Alive /\ at = "wait"
  /\ child = "dead" \/ cancelled \/ waited
  /\ at' = "select" /\ waited' = TRUE
  /\ UNCHANGED <<main, status, child, reading, pending, cancelled, listener, sent>>

(* cmd.Wait: returns when the command is gone, and fails at once if it has *)
(* returned before.                                                        *)
WaitReturns ==
  /\ Alive /\ at = "wait"
  /\ child = "dead" \/ waited
  /\ at' = "select" /\ waited' = TRUE
  /\ UNCHANGED <<main, status, child, reading, pending, cancelled, listener, sent>>

(* cmdExitChan has no buffer: main must be there to receive. *)
HandOver ==
  /\ at = "select" /\ main = "serving"
  /\ at' = "done" /\ Ends("clean")
  /\ UNCHANGED <<child, reading, waited, pending, cancelled, listener, sent>>

(* cancelCtx, and around the loop: into Wait again. *)
TakeSignal ==
  /\ Alive /\ at = "select" /\ pending
  /\ pending' = FALSE /\ cancelled' = TRUE /\ at' = "wait"
  /\ UNCHANGED <<main, status, child, reading, waited, listener, sent>>
-----------------------------------------------------------------------------
UpSucceeds ==
  /\ main = "starting"
  /\ main' = "serving"
  /\ listener' = [l \in Listener |-> "opening"]
  /\ UNCHANGED <<status, child, reading, at, waited, pending, cancelled, sent>>

(* ts.Up or LocalClient fails; main cancels and exits at once. *)
UpFails ==
  /\ main = "starting"
  /\ cancelled' = TRUE
  /\ Ends("failed")
  /\ UNCHANGED <<child, reading, at, waited, pending, listener, sent>>

(* ts.Up is given the context. *)
UpCancelled == cancelled /\ UpFails

Opens(l) ==  \* ts.Listen and its kin
  /\ Alive /\ listener[l] = "opening"
  /\ listener' = [listener EXCEPT ![l] = "open"]
  /\ UNCHANGED <<main, status, child, reading, at, waited, pending, cancelled, sent>>

(* A listener fails to open, or its Serve or Accept fails later; the DNS   *)
(* listener logs a failed read and goes on.                                *)
MayFail(l) ==
  Alive /\ listener[l] \in IF l \in Sturdy THEN {"opening"} ELSE {"opening", "open"}

(* A slip: the error is logged and nothing else. *)
FailsQuietly(l) ==
  /\ MayFail(l)
  /\ listener' = [listener EXCEPT ![l] = "failed"]
  /\ UNCHANGED <<main, status, child, reading, at, waited, pending, cancelled, sent>>

(* The goroutine of a listener cancels the context of all. *)
Fails(l) ==
  /\ MayFail(l)
  /\ listener' = [listener EXCEPT ![l] = "failed"]
  /\ cancelled' = TRUE
  /\ UNCHANGED <<main, status, child, reading, at, waited, pending, sent>>

(* <-ctx.Done(): the server or the socket is closed without an error. *)
Closes(l) ==
  /\ Alive /\ cancelled /\ listener[l] = "open"
  /\ listener' = [listener EXCEPT ![l] = "closed"]
  /\ UNCHANGED <<main, status, child, reading, at, waited, pending, cancelled, sent>>

PlugNext ==
  \/ ChildExits \/ LongLine \/ ChildBlocks \/ KillChild \/ Signal
  \/ WaitReturns \/ HandOver \/ TakeSignal
  \/ UpSucceeds \/ UpFails
  \/ \E l \in Listener : Opens(l) \/ Fails(l) \/ Closes(l)

(* The goroutines run; a cancelled ts.Up returns.  Nobody says that a      *)
(* command ends, that a node comes up, or which case a select with two     *)
(* takes.                                                                  *)
PlugFairness ==
  /\ WF_plugVars(KillChild) /\ WF_plugVars(WaitReturns) /\ WF_plugVars(HandOver \/ TakeSignal)
  /\ WF_plugVars(UpCancelled)
  /\ \A l \in Listener : WF_plugVars(Closes(l))

PlugSpec == PlugInit /\ [][PlugNext]_plugVars /\ PlugFairness
-----------------------------------------------------------------------------
PlugTypeOK ==
  /\ main \in {"starting", "serving", "gone"} /\ status \in {"none", "clean", "failed"}
  /\ main = "gone" <=> status # "none"
  /\ child \in {"running", "blocked", "dead"} /\ at \in {"wait", "select", "done"}
  /\ at \in {"select", "done"} => waited
  /\ reading \in BOOLEAN /\ waited \in BOOLEAN /\ pending \in BOOLEAN /\ cancelled \in BOOLEAN
  /\ sent \in 0 .. MaxSignals
  /\ listener \in [Listener -> {"off", "opening", "open", "closed", "failed"}]
  /\ main = "starting" => \A l \in Listener : listener[l] = "off"

(* After a clean end no command is left behind: main ends only by way of   *)
(* cmd.Wait, also after a signal or the failure of a listener.             *)
CleanEndLeavesNoChild == status = "clean" => child = "dead"

(* The states of ts-plug: typed as above, Wait returns for a command that  *)
(* is gone only, and at a clean end no command is left behind.             *)
PlugInv == PlugTypeOK /\ (waited => child = "dead") /\ CleanEndLeavesNoChild

(* When the command ends while ts-plug serves, ts-plug ends, whatever      *)
(* signals arrive just then and whichever case the select takes.           *)
ChildExitEnds == (child = "dead" /\ main = "serving") ~> (main = "gone")

(* A listener that fails brings the whole program down, a command that     *)
(* blocks on its output included: cancel, kill, Wait, exit.                *)
ListenerFailureEnds == (\E l \in Listener : listener[l] = "failed") ~> (main = "gone")

(* A command that dies while the node is still waiting to come up leaves   *)
(* the program there; a signal still ends it then (the comment on ts.Up).  *)
SignalEndsStart == (child = "dead" /\ pending) ~> (main = "gone")

(* ts-plug ends when it has to: after its command, after a listener that   *)
(* failed, and at a signal when the command is gone already.               *)
PlugEnds == ChildExitEnds /\ ListenerFailureEnds /\ SignalEndsStart

(* A signal ends ts-plug (docs/docker.md: "ts-plug handles signals         *)
(* properly"; the comment in the goroutine: cancelCtx "will cause the case *)
(* above with cmd.Wait() to return").                                      *)
SignalEnds == pending ~> (main = "gone")
=============================================================================
