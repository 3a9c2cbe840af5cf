----------------------------- MODULE Forwarder ------------------------------
(***************************************************************************)
(* The forwarder of one ts-multinet tailnet (cmd/ts-multinet/forwarder.go, *)
(* udp.go): run with its two packet pumps on the TUN, and one flow through *)
(* it from the first packet to the last close.  A flow is of kind "tcp"    *)
(* (handle dials first and accepts then) or "udp" (the endpoint exists     *)
(* before the dial; idle sides time out).  ts-unplug, ts-multi-plug and    *)
(* ts-router relay a connection they have accepted with the same code      *)
(* (pipeTCP, handleTCPConn, pipe): that is kind "pipe".                    *)
(*                                                                         *)
(* Two goroutines copy, one per direction; each reports on a channel with  *)
(* room for two, and the relay closes both connections at the first report *)
(***************************************************************************)
EXTENDS Naturals, Sequences, FiniteSets

VARIABLES
  tun,        \* is the TUN descriptor open
  ctx,        \* is the context of the tailnet alive
  pumps,      \* "tunToStack" and "stackToTun" -> are they running
  errc,       \* what ended pumps have sent: "err" or "nil"
  run,        \* where run is, and the error it will return
  dead,       \* setForwarderDead was called
  flow,       \* the relay of the flow
  copies,     \* copiers still running: "in" reads local, "out" reads remote
  reports     \* what is in the channel done

fwdVars == <<tun, ctx, pumps, errc, run, dead, flow, copies, reports>>

Pump == {"tunToStack", "stackToTun"}

NoFlow == [at |-> "none", kind |-> "tcp", local |-> "none", remote |-> "none"]
-----------------------------------------------------------------------------
(* A pump returns and sends its error; there is room for both.             *)
PumpReturns(p, e) ==
  /\ p \in pumps
  /\ pumps' = pumps \ {p}
  /\ errc' = Append(errc, e)
  /\ UNCHANGED <<tun, ctx, run, dead, flow, copies, reports>>

(* The TUN breaks under a pump.                                            *)
PumpFails(p) == tun /\ PumpReturns(p, "err")

(* The read on a closed TUN fails; ReadContext returns nil when run has    *)
(* cancelled its context, which is also the case when ctx is.              *)
PumpStops ==
  \/ ~tun /\ PumpReturns("tunToStack", "err")
  \/ (~ctx \/ run.at # "select") /\ PumpReturns("stackToTun", "nil")

(* A slip: the TUN stays open, and a pump in its read with it. *)
SelectKeepsTUN ==
  /\ run.at = "select"
  /\ \/ ~ctx /\ run' = [at |-> "join", left |-> 2, err |-> "nil"] /\ UNCHANGED errc
     \/ /\ errc # <<>>
        /\ run' = [at |-> "join", left |-> 1, err |-> Head(errc)]
        /\ errc' = Tail(errc)
  /\ UNCHANGED <<tun, ctx, pumps, dead, flow, copies, reports>>

(* A slip: a pump that ended is not noticed before the stop. *)
SelectWaitsForStop ==
  /\ run.at = "select"
  /\ ~ctx /\ run' = [at |-> "join", left |-> 2, err |-> "nil"] /\ UNCHANGED errc
  /\ tun' = FALSE
  /\ UNCHANGED <<ctx, pumps, dead, flow, copies, reports>>

(* run: the stop of the tailnet or the first pump to end, whichever is     *)
(* seen first.  The context is cancelled and the TUN closed for the other. *)
Select ==
  /\ run.at = "select"
  /\ \/ ~ctx /\ run' = [at |-> "join", left |-> 2, err |-> "nil"] /\ UNCHANGED errc
     \/ /\ errc # <<>>
        /\ run' = [at |-> "join", left |-> 1, err |-> Head(errc)]
        /\ errc' = Tail(errc)
  /\ tun' = FALSE
  /\ UNCHANGED <<ctx, pumps, dead, flow, copies, reports>>

(* The remaining pumps are joined one by one.                              *)
Join ==
  /\ run.at = "join" /\ run.left > 0 /\ errc # <<>>
  /\ run' = [run EXCEPT !.left = @ - 1]
  /\ errc' = Tail(errc)
  /\ UNCHANGED <<tun, ctx, pumps, dead, flow, copies, reports>>

(* The stack is closed, which aborts its endpoints, and run returns; its   *)
(* caller in startTailnet reports an error that no stop explains.          *)
Return ==
  /\ run.at = "join" /\ run.left = 0
  /\ run' = [run EXCEPT !.at = "done"]
  /\ dead' = (dead \/ (run.err # "nil" /\ ctx))
  /\ flow' = [flow EXCEPT !.local = IF flow.kind = "pipe" THEN @
                                    ELSE CASE @ = "open" -> "closed" [] @ = "syn" -> "reset"
                                           [] OTHER -> @]
  /\ UNCHANGED <<tun, ctx, pumps, errc, copies, reports>>
-----------------------------------------------------------------------------
Relayed == UNCHANGED <<tun, ctx, pumps, errc, run, dead>>

(* A slip: accept first, dial after. *)
AcceptsAtOnce(kind) ==
  /\ flow.at = "none" /\ (kind = "pipe" \/ run.at # "done")
  /\ flow' = [at |-> "dialing", kind |-> kind, remote |-> "none", local |-> "open"]
  /\ UNCHANGED <<copies, reports>> /\ Relayed

(* The first packet of a flow: a SYN waits for the dial, a datagram or an  *)
(* accepted connection has its local side at once.                         *)
Begin(kind) ==
  /\ flow.at = "none" /\ (kind = "pipe" \/ run.at # "done")
  /\ flow' = [at |-> "dialing", kind |-> kind, remote |-> "none",
              local |-> IF kind = "tcp" THEN "syn" ELSE "open"]
  /\ UNCHANGED <<copies, reports>> /\ Relayed

(* lookup, the peer list, the loop guard or the dial fails within its time *)
(* limit: a reset for a SYN, a close for what is open.                     *)
DialFails ==
  /\ flow.at = "dialing"
  /\ flow' = [flow EXCEPT !.at = "over", !.local = IF flow.kind = "tcp" THEN "reset" ELSE "closed"]
  /\ UNCHANGED <<copies, reports>> /\ Relayed

(* The dial succeeds.  What was closed in the meantime stays closed.       *)
Dial ==
  /\ flow.at = "dialing"
  /\ IF flow.kind = "tcp"
     THEN flow' = [flow EXCEPT !.at = "accept", !.remote = "open"] /\ UNCHANGED <<copies, reports>>
     ELSE /\ flow' = [flow EXCEPT !.at = "splice", !.remote = "open"]
          /\ copies' = {"in", "out"} /\ reports' = 0
  /\ Relayed

(* CreateEndpoint completes the handshake with a client that still waits.  *)
Accept ==
  /\ flow.at = "accept" /\ flow.local = "syn"
  /\ flow' = [flow EXCEPT !.at = "splice", !.local = "open"]
  /\ copies' = {"in", "out"} /\ reports' = 0
  /\ Relayed

(* CreateEndpoint fails: the client gave up, or the stack is closed.       *)
AcceptFails ==
  /\ flow.at = "accept"
  /\ flow' = [flow EXCEPT !.at = "over", !.local = "reset", !.remote = "closed"]
  /\ UNCHANGED <<copies, reports>> /\ Relayed

(* A slip: a channel without room: only the first report is received. *)
RoomUnbuffered == flow.at = "splice"
Room == reports < 2

CopyReturns(c) ==
  /\ c \in copies /\ Room
  /\ copies' = copies \ {c}
  /\ reports' = reports + 1
  /\ UNCHANGED flow /\ Relayed

Source(c) == IF c = "in" THEN flow.local ELSE flow.remote

(* End of stream, a failed read or write, or udpIdle without a datagram.   *)
CopyEnds(c) == Source(c) = "open" /\ CopyReturns(c)

(* A read on a closed connection fails.  That the other one is closed is   *)
(* noticed by a write only, for which there may be nothing.                *)
CopyAborts(c) == Source(c) # "open" /\ CopyReturns(c)

(* <-done, then the deferred closes.                                       *)
CloseBoth ==
  /\ flow.at = "splice" /\ reports > 0
  /\ reports' = reports - 1
  /\ flow' = [flow EXCEPT !.at = "over", !.local = "closed", !.remote = "closed"]
  /\ UNCHANGED copies /\ Relayed

(* The flow is over for everybody: room for the next one.                  *)
Forget ==
  /\ flow.at = "over" /\ copies = {}
  /\ flow' = NoFlow
  /\ reports' = 0
  /\ UNCHANGED copies /\ Relayed
-----------------------------------------------------------------------------
Runs == [at : {"select", "join", "done"}, left : 0 .. 2, err : {"err", "nil"}]

Flows ==
  [at : {"none", "dialing", "accept", "splice", "over"}, kind : {"tcp", "udp", "pipe"},
   local : {"none", "syn", "open", "closed", "reset"}, remote : {"none", "open", "closed"}]

FwdTypeOK ==
  /\ tun \in BOOLEAN /\ ctx \in BOOLEAN /\ dead \in BOOLEAN
  /\ pumps \subseteq Pump /\ errc \in Seq({"err", "nil"})
  /\ Cardinality(pumps) + Len(errc) <= 2
  /\ run \in Runs /\ flow \in Flows
  /\ copies \subseteq {"in", "out"} /\ reports \in 0 .. 2

(* The connection a client sees is the one to the real host: accepted only *)
(* when the dial has succeeded (the comment on handle), for TCP through    *)
(* the TUN; and whoever is done has closed both sides.                     *)
HonestConnect == flow.kind = "tcp" /\ flow.local = "open" => flow.remote # "none"

NothingLeftOpen ==
  flow.at = "over" => flow.local \in {"closed", "reset"} /\ flow.remote # "open"

(* The remote side exists from the dial on.                                *)
DialedOnce ==
  /\ flow.at = "dialing" => flow.remote = "none"
  /\ flow.at = "accept" => flow.remote # "none"

FwdInv == FwdTypeOK /\ HonestConnect /\ NothingLeftOpen /\ DialedOnce
=============================================================================
