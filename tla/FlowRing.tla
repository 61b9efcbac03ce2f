------------------------------ MODULE FlowRing ------------------------------
(***************************************************************************)
(* The transmit side of the msgbuf protocol: the flow rings packets are      *)
(* queued on, their creation and deletion by messages to the firmware, the   *)
(* worker that posts packets, the completions the interrupt thread reads,    *)
(* and the stopping and waking of the interface.                             *)
(*                                                                           *)
(* Packets are counted, by ring and by how far they got; a completion takes  *)
(* the packet id with it.  A step is what a thread does between two calls    *)
(* whose effects another thread can see.  The worker holds the lock of the   *)
(* ring it is at (txw).  A ring and its entry of the hash are one, and the   *)
(* probing order of the hash is left open.  The firmware sees a packet as    *)
(* soon as it is posted, which includes every batch the worker may submit.   *)
(* After a use of what is not there (oops) everything stops.                 *)
(***************************************************************************)
EXTENDS Integers, Sequences, FiniteSets

CONSTANTS
  Ring,        \* flow ring ids
  If,          \* interfaces
  Da,          \* destination addresses
  None,        \* no interface, no address
  Delay,       \* BRCMF_MSGBUF_DELAY_TXWORKER_THRS
  Trickle,     \* BRCMF_MSGBUF_TRICKLE_TXWORKER_THRS
  High, Low,   \* BRCMF_FLOWRING_HIGH, BRCMF_FLOWRING_LOW
  Depth,       \* BRCMF_H2D_TXFLOWRING_MAX_ITEM
  Refill,      \* an eighth of it: room a full ring must regain
  PktIds,      \* NR_TX_PKTIDS
  MaxPkt,      \* bound: packets in the driver at once
  MaxAfter,    \* bound: packets after a message that was not submitted
  MaxOps       \* bound: deletions, mode changes, tdls peers, creations that fail

ASSUME Thresholds ==
  /\ {Delay, Trickle, High, Low, Depth, Refill, PktIds, MaxPkt, MaxAfter, MaxOps}
       \subseteq Nat
  /\ Trickle > 0 /\ Low <= High /\ Depth > 1 /\ Refill < Depth
ASSUME Ids == Ring \subseteq Nat /\ Ring # {} /\ None \notin If \cup Da

VARIABLES
  ring,      \* flow->rings and their hash entries; "none": a null pointer
  com,       \* msgbuf->flowrings: the commonring and the packets that use it
  stopped,   \* [If -> BOOLEAN]: stop reason FLOW of the interface
  indirect,  \* [If -> BOOLEAN]: addr_mode is ADDR_INDIRECT
  tdls,      \* addresses on the tdls list
  flowMap,   \* msgbuf->flow_map
  doneMap,   \* msgbuf->txstatus_done_map
  queued,    \* txflow_work is queued
  crq,       \* msgbuf->work_queue: rings to create
  ctl,       \* control messages the firmware has not read
  rsp,       \* its answers
  fw,        \* rings the firmware holds open
  tx,        \* a transmission on each interface.  first: it made the ring;
             \* lost: the ring was removed since it looked
  txw,       \* the txflow worker
  rx,        \* the interrupt thread
  op,        \* the caller that deletes rings
  ops,       \* see MaxOps
  oops,      \* rings used, or their memory freed, when they were not there
  starved,   \* history: rings left for want of a packet id or a mapping, with
             \* nothing in flight
  late,      \* history: rings that were open before their first packet came
  unsent     \* history: rings of which a message was not submitted though the
             \* firmware held them, or would be told of them yet

ifVars  == <<stopped, indirect, tdls>>
leftVars == <<starved, late>>
turnVars == <<flowMap, doneMap, queued>>
mapVars == <<turnVars, leftVars>>
msgVars == <<crq, ctl, rsp, fw>>
badVars == <<oops, unsent>>
vars == <<ring, com, ifVars, mapVars, msgVars, tx, txw, rx, op, ops, badVars>>

Rings == [status : {"none", "closed", "open", "closing"}, if : If \cup {None},
          da : Da \cup {None}, blocked : BOOLEAN, qlen : Nat]
Commons == [wasFull : BOOLEAN, dma : BOOLEAN,
            out : Int,    \* outstanding_tx
            vis : Nat,    \* posted
            dn : Nat]     \* completed: in the tx-complete ring
Controls == [m : {"create", "delete"}, r : Ring]
Answers == [m : {"created", "deleted"}, r : Ring, ok : BOOLEAN]
Transmissions == [pc : {"idle", "enqueue", "high", "recheck", "sched"},
                  r : Ring, n : Nat, first : BOOLEAN, lost : BOOLEAN]
Operations == [pc : {"idle", "scan", "seen", "wait"}, kind : {"peer", "mode"},
               if : If \cup {None}, da : Da \cup {None}, sta : BOOLEAN, r : Nat]

Resting == -1      \* the worker has no ring

TypeOK ==
  /\ ring \in [Ring -> Rings] /\ com \in [Ring -> Commons]
  /\ stopped \in [If -> BOOLEAN] /\ indirect \in [If -> BOOLEAN]
  /\ tdls \subseteq Da /\ flowMap \subseteq Ring /\ doneMap \subseteq Ring
  /\ starved \subseteq Ring /\ late \subseteq Ring
  /\ queued \in BOOLEAN /\ oops \subseteq Ring /\ unsent \subseteq Ring
  /\ crq \in Seq(Ring) /\ ctl \in Seq(Controls) /\ rsp \in Seq(Answers)
  /\ fw \subseteq Ring
  /\ tx \in [If -> Transmissions] /\ txw \in Ring \cup {Resting}
  /\ rx \in {"tx", "ctl", "trig"}
  /\ op \in Operations

AnyRing == CHOOSE r \in Ring : TRUE

NoRing == [status |-> "none", if |-> None, da |-> None, blocked |-> FALSE, qlen |-> 0]
TxIdle == [pc |-> "idle", r |-> AnyRing, n |-> 0, first |-> FALSE, lost |-> FALSE]
OpIdle == [pc |-> "idle", kind |-> "peer", if |-> None, da |-> None,
           sta |-> FALSE, r |-> 0]

Init ==
  /\ ring = [r \in Ring |-> NoRing]
  /\ com = [r \in Ring |-> [wasFull |-> FALSE, dma |-> FALSE, out |-> 0,
                            vis |-> 0, dn |-> 0]]
  /\ stopped = [i \in If |-> FALSE] /\ indirect \in [If -> BOOLEAN]
  /\ tdls = {} /\ flowMap = {} /\ doneMap = {} /\ queued = FALSE
  /\ starved = {} /\ late = {} /\ unsent = {}
  /\ crq = <<>> /\ ctl = <<>> /\ rsp = <<>> /\ fw = {}
  /\ tx = [i \in If |-> TxIdle]
  /\ txw = Resting
  /\ rx = "tx"
  /\ op = OpIdle /\ ops = 0
  /\ oops = {}

-----------------------------------------------------------------------------
Exists(r) == ring[r].status # "none"
Open(r) == ring[r].status = "open"
Qlen(r) == IF Open(r) THEN ring[r].qlen ELSE 0

InFlight(r) == com[r].vis + com[r].dn
InUse == Cardinality(UNION {{r} \X (1..InFlight(r)) : r \in Ring})
Queued == Cardinality(UNION {{r} \X (1..ring[r].qlen) : r \in Ring})

Sta(i, a) == indirect[i] /\ a \notin tdls
Serves(r, i, a) ==
  Exists(r) /\ ring[r].if = i /\ (Sta(i, a) \/ ring[r].da = a)

\* brcmf_flowring_block(): the ring's flag and the interface's queue, which is
\* left alone while another open ring of the interface is blocked.
MutOtherBlocked(r) ==   \* the ring itself is not left out
  \E s \in Ring : Open(s) /\ ring[s].blocked /\ ring[s].if = ring[r].if

OtherBlocked(r) ==
  \E s \in Ring \ {r} : Open(s) /\ ring[s].blocked /\ ring[s].if = ring[r].if
StopAfter(r, b) ==
  IF ring[r].blocked = b \/ OtherBlocked(r) THEN stopped
  ELSE [stopped EXCEPT ![ring[r].if] = b]
Blocked(r, b) == [ring EXCEPT ![r].blocked = b]

Schedule(r, force) ==
  /\ flowMap' = flowMap \cup {r} /\ starved' = starved \ {r} /\ late' = late \ {r}
  /\ queued' = (queued \/ force \/ com[r].out < Delay)

Using(r) == \E i \in If : tx[i].pc # "idle" /\ tx[i].r = r

\* brcmf_flowring_delete(), which does nothing for a ring that is not there
Remove(r) ==
  /\ ring' = [ring EXCEPT ![r] = NoRing]
  /\ stopped' = IF Exists(r) THEN StopAfter(r, FALSE) ELSE stopped
  /\ tx' = [i \in If |->
             [tx[i] EXCEPT !.lost = @ \/ (tx[i].pc \notin {"idle", "sched"} /\ tx[i].r = r)]]
  /\ starved' = starved \ {r} /\ late' = late \ {r}

\* brcmf_msgbuf_remove_flowring() also frees the ring's memory, if it is there.
Freed(c, r) == [c EXCEPT ![r].dma = FALSE]
FreedTwice(r) == IF com[r].dma THEN {} ELSE {r}

-----------------------------------------------------------------------------
(* Transmission: brcmf_msgbuf_tx_queue_data() and what it calls.             *)
At(i, pc) == tx[i].pc = pc /\ oops = {}
Bound(r, first) == [pc |-> "enqueue", r |-> r, n |-> 0, first |-> first, lost |-> FALSE]
Oops(r) == oops' = {r} /\ UNCHANGED unsent

Packets == IF unsent = {} THEN MaxPkt ELSE MaxAfter

Xmit(i, a) ==
  /\ At(i, "idle") /\ ~stopped[i] /\ Queued + InUse < Packets
  /\ \E r \in Ring :
       \/ /\ Serves(r, i, a) /\ tx' = [tx EXCEPT ![i] = Bound(r, FALSE)]
          /\ UNCHANGED <<ring, crq>>
       \/ /\ ~\E s \in Ring : Serves(s, i, a)
          /\ ~Exists(r) /\ \A s \in Ring : s < r => Exists(s)
          /\ ring' = [ring EXCEPT ![r] = [status |-> "closed", if |-> i, da |-> a,
                                          blocked |-> FALSE, qlen |-> 0]]
          /\ crq' = Append(crq, r) /\ tx' = [tx EXCEPT ![i] = Bound(r, TRUE)]
  /\ UNCHANGED <<com, ifVars, mapVars, ctl, rsp, fw, txw, rx, op, ops, badVars>>

\* A ring's first packet is not scheduled: the answer to its creation does it,
\* unless that came first.
Enqueue(i) ==
  LET r == tx[i].r
      over == ~ring[r].blocked /\ ring[r].qlen + 1 > High
      next == IF over THEN "high" ELSE IF tx[i].first THEN "idle" ELSE "sched"
  IN
  /\ At(i, "enqueue")
  /\ IF Exists(r)
     THEN /\ ring' = [ring EXCEPT ![r].qlen = @ + 1]
          /\ tx' = [tx EXCEPT ![i] = IF next = "idle" THEN TxIdle
                      ELSE [@ EXCEPT !.pc = next, !.lost = FALSE,
                              !.n = IF over THEN 0 ELSE (ring[r].qlen + 1) % Trickle]]
          /\ late' = IF tx[i].first /\ Open(r) THEN late \cup {r} ELSE late
          /\ UNCHANGED badVars
     ELSE Oops(r) /\ UNCHANGED <<ring, tx, late>>
  /\ UNCHANGED <<com, ifVars, flowMap, doneMap, queued, starved, msgVars, txw, rx, op, ops>>

\* brcmf_flowring_block() finds the ring by its number; by now the number may
\* be another ring's.
Block(i) ==
  LET r == tx[i].r IN
  /\ At(i, "high")
  /\ IF Exists(r)
     THEN /\ ring' = Blocked(r, TRUE) /\ stopped' = StopAfter(r, TRUE)
          /\ tx' = [tx EXCEPT ![i].pc = "recheck"] /\ UNCHANGED badVars
     ELSE Oops(r) /\ UNCHANGED <<ring, stopped, tx>>
  /\ UNCHANGED <<com, indirect, tdls, mapVars, msgVars, txw, rx, op, ops>>

DrainedMeanwhile(r) == ring[r].qlen < Low

\* "To prevent (work around) possible race condition, check queue len again":
\* of the ring enqueued on, by a pointer.
Recheck(i) ==
  LET r == tx[i].r IN
  /\ At(i, "recheck")
  /\ IF tx[i].lost
     THEN Oops(r) /\ UNCHANGED <<ring, stopped, tx>>
     ELSE /\ IF DrainedMeanwhile(r)
             THEN ring' = Blocked(r, FALSE) /\ stopped' = StopAfter(r, FALSE)
             ELSE UNCHANGED <<ring, stopped>>
          /\ tx' = [tx EXCEPT ![i] = IF tx[i].first THEN TxIdle
                      ELSE [@ EXCEPT !.pc = "sched", !.n = ring[r].qlen % Trickle]]
          /\ UNCHANGED badVars
  /\ UNCHANGED <<com, indirect, tdls, mapVars, msgVars, txw, rx, op, ops>>

Scheduling(i) ==
  /\ At(i, "sched")
  /\ Schedule(tx[i].r, tx[i].n = 0) /\ tx' = [tx EXCEPT ![i] = TxIdle]
  /\ UNCHANGED <<ring, com, ifVars, doneMap, msgVars, txw, rx, op, ops, badVars>>

-----------------------------------------------------------------------------
(* brcmf_msgbuf_txflow_worker() and brcmf_msgbuf_txflow()                    *)
Free(r) == Depth - com[r].vis
WriteAvailable(r) == Free(r) > 1 /\ (com[r].wasFull => Free(r) > Refill)

\* The next ring of flow_map with room, from c on; those without lose their
\* bit.  full: the ring the worker just filled.
Pick(c, full) ==
  LET cand == {r \in flowMap : r >= c}
      room == {r \in cand : WriteAvailable(r)}
      passed == IF room = {} THEN cand
                ELSE {r \in cand : \A s \in room : r <= s}
  IN
  /\ flowMap' = flowMap \ passed
  /\ com' = [r \in Ring |->
               IF r \in passed
               THEN [com[r] EXCEPT !.wasFull = Free(r) <= 1 \/ (@ /\ ~WriteAvailable(r))]
               ELSE [com[r] EXCEPT !.wasFull = @ \/ r \in full]]
  /\ IF room = {} THEN txw' = Resting ELSE txw' \in room \cap passed

TxwStart ==
  /\ txw = Resting /\ queued /\ oops = {}
  /\ queued' = FALSE /\ Pick(0, {})
  /\ UNCHANGED <<ring, ifVars, doneMap, leftVars, msgVars, tx, rx, op, ops, badVars>>

\* One packet: dequeue, mapping and packet id, item of the ring.  Without one of
\* them the packet goes back to the head of the queue and the loop ends.
Post ==
  LET r == txw
      opens == ring[r].blocked /\ ring[r].qlen - 1 < Low
  IN
  /\ txw # Resting /\ oops = {} /\ Qlen(r) > 0
  /\ \E maps \in BOOLEAN :
       LET named == maps /\ InUse < PktIds
           fits == named /\ Free(r) > 1
       IN
       /\ ring' = [ring EXCEPT ![r].blocked = @ /\ ~opens,
                               ![r].qlen = IF fits THEN @ - 1 ELSE @]
       /\ IF fits
          THEN /\ com' = [com EXCEPT ![r].vis = @ + 1, ![r].out = @ + 1]
               /\ UNCHANGED <<flowMap, txw, starved>>
          ELSE /\ Pick(r + 1, IF named THEN {r} ELSE {})
               /\ starved' = IF named \/ InFlight(r) > 0 THEN starved
                             ELSE starved \cup {r}
  /\ stopped' = IF opens THEN StopAfter(r, FALSE) ELSE stopped
  /\ UNCHANGED <<indirect, tdls, doneMap, queued, late, msgVars, tx, rx, op, ops, badVars>>

PostEnd ==
  /\ txw # Resting /\ oops = {} /\ Qlen(txw) = 0
  /\ Pick(txw + 1, {})
  /\ UNCHANGED <<ring, ifVars, doneMap, queued, leftVars, msgVars, tx, rx, op, ops, badVars>>

-----------------------------------------------------------------------------
(* brcmf_msgbuf_flowring_worker(): ring memory and the creation message.  A  *)
(* message is in the control ring before brcmf_commonring_write_complete()   *)
(* finds the bus down: it stays there, and the next one uncovers it.         *)
Creating == crq # <<>> /\ oops = {} /\ crq' = Tail(crq)
Failing == Creating /\ ops < MaxOps /\ ops' = ops + 1

Create ==
  LET r == Head(crq) IN
  /\ Creating
  /\ IF Exists(r)
     THEN /\ com' = [com EXCEPT ![r].dma = TRUE]
          /\ ctl' = Append(ctl, [m |-> "create", r |-> r]) /\ UNCHANGED badVars
     ELSE Oops(r) /\ UNCHANGED <<com, ctl>>   \* brcmf_flowring_tid()
  /\ UNCHANGED <<ring, ifVars, mapVars, rsp, fw, tx, txw, rx, op, ops>>

\* No memory, or no room for the message
CreateFails ==
  /\ Failing
  /\ Remove(Head(crq)) /\ com' \in {com, Freed(com, Head(crq))}
  /\ UNCHANGED <<indirect, tdls, turnVars, ctl, rsp, fw, txw, rx, op, oops, unsent>>

CreateUnsent ==
  LET r == Head(crq) IN
  /\ Failing /\ Exists(r)
  /\ Remove(r) /\ com' = Freed(com, r)
  /\ ctl' = Append(ctl, [m |-> "create", r |-> r]) /\ unsent' = unsent \cup {r}
  /\ UNCHANGED <<indirect, tdls, turnVars, rsp, fw, txw, rx, op, oops>>

(* The firmware: completes posted packets, which frees their items, and      *)
(* answers in order; it completes a ring's packets before it deletes it or   *)
(* takes it anew.  was_full is the driver's: the next look at the ring would *)
(* clear it where these steps do.                                            *)
FwComplete(r) ==
  /\ com[r].vis > 0 /\ oops = {}
  /\ com' = [com EXCEPT ![r].vis = @ - 1, ![r].dn = @ + 1, ![r].wasFull = @ /\ Free(r) < Refill]
  /\ UNCHANGED <<ring, ifVars, mapVars, msgVars, tx, txw, rx, op, ops, badVars>>

FwControl ==
  /\ ctl # <<>> /\ oops = {}
  /\ LET c == Head(ctl) IN
     \E ok \in BOOLEAN :
       LET refused == c.m = "create" /\ ~ok IN
       /\ c.m = "delete" => ok = (c.r \in fw)
       /\ refused => ops < MaxOps
       /\ ops' = IF refused THEN ops + 1 ELSE ops
       /\ rsp' = Append(rsp, [m |-> IF c.m = "create" THEN "created" ELSE "deleted",
                              r |-> c.r, ok |-> ok])
       /\ fw' = IF refused THEN fw
                ELSE IF c.m = "create" THEN fw \cup {c.r} ELSE fw \ {c.r}
       /\ com' = IF refused THEN com
                 ELSE [com EXCEPT ![c.r].dn = @ + com[c.r].vis, ![c.r].vis = 0, ![c.r].wasFull = FALSE]
  /\ ctl' = Tail(ctl)
  /\ UNCHANGED <<ring, ifVars, mapVars, crq, tx, txw, rx, op, badVars>>

-----------------------------------------------------------------------------
(* brcmf_proto_msgbuf_rx_trigger(): the completions, then the answers, then  *)
(* the rings that may have room again.                                       *)
RxAt(pc) == rx = pc /\ oops = {}

MutCompleted(r) == [com EXCEPT ![r].dn = @ - 1]   \* outstanding_tx is left alone
Completed(r) == [com EXCEPT ![r].dn = @ - 1, ![r].out = @ - 1]

\* Completions may come after their ring has gone; the log needs its interface.
MutLogged(r) == TRUE   \* as patch 0006 had it
Logged(r) == Exists(r)

\* brcmf_msgbuf_process_txstatus()
TxStatus(r) ==
  /\ RxAt("tx") /\ com[r].dn > 0
  /\ com' = Completed(r)
  /\ doneMap' = doneMap \cup {r}
  /\ oops' = IF Logged(r) /\ ~Exists(r) THEN {r} ELSE {}
  /\ UNCHANGED <<ring, ifVars, flowMap, queued, leftVars, msgVars, tx, txw, rx, op,
                 ops, unsent>>

RxTxEmpty ==
  /\ RxAt("tx") /\ \A r \in Ring : com[r].dn = 0
  /\ rsp # <<>> \/ doneMap # {}
  /\ rx' = "ctl"
  /\ UNCHANGED <<ring, com, ifVars, mapVars, msgVars, tx, txw, op, ops, badVars>>

Created ==
  LET a == Head(rsp) IN
  /\ RxAt("ctl") /\ rsp # <<>> /\ a.m = "created" /\ rsp' = Tail(rsp)
  /\ IF a.ok
     THEN /\ ring' = IF Exists(a.r) THEN [ring EXCEPT ![a.r].status = "open"] ELSE ring
          /\ Schedule(a.r, TRUE) /\ UNCHANGED <<com, stopped, tx, oops>>
     ELSE /\ Remove(a.r) /\ com' = Freed(com, a.r) /\ oops' = FreedTwice(a.r)
          /\ UNCHANGED <<flowMap, queued>>
  /\ UNCHANGED <<indirect, tdls, doneMap, crq, ctl, fw, txw, rx, op, ops, unsent>>

Deleted ==
  LET a == Head(rsp) IN
  /\ RxAt("ctl") /\ rsp # <<>> /\ a.m = "deleted"
  /\ rsp' = Tail(rsp) /\ Remove(a.r)
  /\ IF a.ok THEN com' = Freed(com, a.r) /\ oops' = FreedTwice(a.r)
     ELSE UNCHANGED <<com, oops>>
  /\ UNCHANGED <<indirect, tdls, turnVars, crq, ctl, fw, txw, rx, op, ops, unsent>>

RxCtlEmpty ==
  /\ RxAt("ctl") /\ rsp = <<>>
  /\ rx' = IF doneMap = {} THEN "tx" ELSE "trig"
  /\ UNCHANGED <<ring, com, ifVars, mapVars, msgVars, tx, txw, op, ops, badVars>>

MutHasRoom(r) == Qlen(r) > Trickle   \* a short queue waits for more packets
HasRoom(r) == Qlen(r) > Trickle \/ (Qlen(r) > 0 /\ com[r].out < Trickle)

Trigger(r) ==
  /\ RxAt("trig") /\ r \in doneMap /\ \A s \in doneMap : r <= s
  /\ doneMap' = doneMap \ {r}
  /\ rx' = IF doneMap = {r} THEN "tx" ELSE "trig"
  /\ IF HasRoom(r) THEN Schedule(r, TRUE) ELSE UNCHANGED <<flowMap, queued, leftVars>>
  /\ UNCHANGED <<ring, com, ifVars, msgVars, tx, txw, op, ops, badVars>>

-----------------------------------------------------------------------------
(* Deletions: of a peer's rings, and of an interface's at a change of its    *)
(* address mode.                                                             *)
OpAt(pc) == op.pc = pc /\ oops = {}

DeletePeer(i, a) ==
  /\ OpAt("idle")
  /\ op' = [op EXCEPT !.pc = "scan", !.kind = "peer", !.if = i, !.da = a,
                      !.sta = Sta(i, a)]
  /\ ops < MaxOps /\ ops' = ops + 1
  /\ UNCHANGED <<ring, com, ifVars, mapVars, msgVars, tx, txw, rx, badVars>>

ConfigureAddrMode(i) ==
  /\ OpAt("idle")
  /\ op' = [op EXCEPT !.pc = "scan", !.kind = "mode", !.if = i]
  /\ ops < MaxOps /\ ops' = ops + 1
  /\ UNCHANGED <<ring, com, ifVars, mapVars, msgVars, tx, txw, rx, badVars>>

Matches(r) ==
  Exists(r) /\ ring[r].if = op.if /\ (op.kind = "peer" => op.sta \/ ring[r].da = op.da)

\* The hash names a ring; then its status is looked at.
OpLook(r) ==
  /\ OpAt("scan") /\ r >= op.r /\ Matches(r)
  /\ \A s \in Ring : s >= op.r /\ Matches(s) => s >= r
  /\ op' = [op EXCEPT !.pc = "seen", !.r = r]
  /\ UNCHANGED <<ring, com, ifVars, mapVars, msgVars, tx, txw, rx, ops, badVars>>

OpTest ==
  LET r == op.r IN
  /\ OpAt("seen") /\ ~Open(r)
  /\ IF Exists(r) THEN op' = [op EXCEPT !.pc = "scan", !.r = r + 1] /\ UNCHANGED badVars
     ELSE Oops(r) /\ UNCHANGED op
  /\ UNCHANGED <<ring, com, ifVars, mapVars, msgVars, tx, txw, rx, ops>>

\* brcmf_msgbuf_delete_flowring(): "make sure it is not in txflow"
OpClose ==
  /\ OpAt("seen") /\ Open(op.r) /\ txw # op.r
  /\ ring' = [ring EXCEPT ![op.r].status = "closing"]
  /\ op' = [op EXCEPT !.pc = "wait"]
  /\ UNCHANGED <<com, ifVars, mapVars, msgVars, tx, txw, rx, ops, badVars>>

MutForgotten(r) == [com EXCEPT ![r].out = 0, ![r].dma = FALSE]   \* freed at once
Forgotten(r) == [com EXCEPT ![r].out = 0]

\* The packets are polled for ten times and then forgotten (bound: once).
Forgetful == \E r \in Ring : com[r].out < InFlight(r)
Waited == OpAt("wait") /\ (com[op.r].out > 0 => ~Forgetful)
Deletes(r) == Append(ctl, [m |-> "delete", r |-> r])

OpSubmit ==
  LET r == op.r IN
  /\ Waited
  /\ IF Exists(r)
     THEN /\ com' = Forgotten(r) /\ ctl' = Deletes(r)
          /\ op' = [op EXCEPT !.pc = "scan", !.r = r + 1] /\ UNCHANGED badVars
     ELSE Oops(r) /\ UNCHANGED <<com, ctl, op>>   \* brcmf_flowring_ifidx_get()
  /\ UNCHANGED <<ring, ifVars, mapVars, crq, rsp, fw, tx, txw, rx, ops>>

\* The bus is down, the control ring full, or the bus found down when the
\* message was in it: "flowring will be removed".
OpUnsent ==
  LET r == op.r IN
  /\ Waited
  /\ Remove(r) /\ com' = Freed(Forgotten(r), r) /\ oops' = FreedTwice(r)
  /\ ctl' \in {ctl, Deletes(r)} /\ unsent' = unsent \cup {r}
  /\ op' = [op EXCEPT !.pc = "scan", !.r = r + 1]
  /\ UNCHANGED <<indirect, tdls, turnVars, crq, rsp, fw, txw, rx, ops>>

OpEnd ==
  /\ OpAt("scan") /\ \A r \in Ring : Matches(r) => r < op.r
  /\ indirect' = IF op.kind = "mode" THEN [indirect EXCEPT ![op.if] = ~@] ELSE indirect
  /\ tdls' = IF op.kind = "peer" THEN tdls \ {op.da} ELSE tdls
  /\ op' = OpIdle
  /\ UNCHANGED <<ring, com, stopped, mapVars, msgVars, tx, txw, rx, ops, badVars>>

\* A peer the firmware reports on a station interface
AddTdlsPeer(i, a) ==
  /\ OpAt("idle") /\ indirect[i] /\ a \notin tdls
  /\ tdls' = tdls \cup {a}
  /\ ops < MaxOps /\ ops' = ops + 1
  /\ UNCHANGED <<ring, com, stopped, indirect, mapVars, msgVars, tx, txw, rx, op, badVars>>

-----------------------------------------------------------------------------
Transmit(i) == Enqueue(i) \/ Block(i) \/ Recheck(i) \/ Scheduling(i)
Worker == TxwStart \/ Post \/ PostEnd
Firmware == (\E r \in Ring : FwComplete(r)) \/ FwControl
Interrupt ==
  \/ (\E r \in Ring : TxStatus(r)) \/ RxTxEmpty \/ Created \/ Deleted
  \/ RxCtlEmpty \/ (\E r \in Ring : Trigger(r))
Creation == Create \/ CreateFails \/ CreateUnsent
Deletion ==
  (\E r \in Ring : OpLook(r)) \/ OpTest \/ OpClose \/ OpSubmit \/ OpUnsent \/ OpEnd

Next ==
  \/ \E i \in If, a \in Da : Xmit(i, a)
  \/ \E i \in If : Transmit(i)
  \/ Worker \/ Creation \/ Firmware \/ Interrupt
  \/ \E i \in If, a \in Da : DeletePeer(i, a)
  \/ \E i \in If : ConfigureAddrMode(i)
  \/ \E i \in If, a \in Da : AddTdlsPeer(i, a)
  \/ Deletion

Spec == Init /\ [][Next]_vars

-----------------------------------------------------------------------------
\* A thread has a ring's number from a lookup, and the ring has gone since.
Snatched(r) ==
  \/ \E i \in If : tx[i].lost /\ tx[i].r = r
  \/ op.pc = "seen" /\ op.r = r /\ ~Exists(r)

\* No thread uses a ring that has gone, or frees its memory again, but the one
\* that was between its lookup and its use when the ring went: not the worker
\* that creates it, not the deletion that waits for it, not a late completion,
\* no answer to a message.  All bets are off for a ring once a message about it
\* could not be submitted: the driver goes on, and the firmware was not told.
NoOops == \A r \in oops : r \in unsent \/ Snatched(r)

\* One who will schedule the ring
Pledged(r) == \E i \in If : tx[i].pc # "idle" /\ ~tx[i].first /\ tx[i].r = r
Idle(r) ==
  /\ ~Pledged(r) /\ r \notin flowMap /\ r \notin doneMap /\ txw # r

\* Nobody forgets a queued packet: an open ring with a queue is on a map a
\* thread will look at, in a thread's hands, or waits for a completion.  The two
\* exceptions: brcmf_msgbuf_txflow() got no packet id or no mapping at a ring
\* that had nothing in flight, and a first packet that was queued when the
\* answer to the ring's creation had already been there to schedule it.
NoStranded ==
  \A r \in Ring :
    Qlen(r) > 0 /\ Idle(r) => InFlight(r) > 0 \/ r \in starved \cup late

\* A stop ends: the interface is stopped only while a ring of it is blocked,
\* and a blocked ring has packets enough to be unblocked by their dequeueing,
\* or its transmitter is about to look again.
StopEnds ==
  /\ \A i \in If : stopped[i] =>
       \E r \in Ring : Exists(r) /\ ring[r].if = i /\ ring[r].blocked
  /\ \A r \in Ring : ring[r].blocked /\ ~Using(r) => ring[r].qlen >= Low

\* The firmware never reads a ring whose memory was freed, unless a message
\* about the ring could not be submitted.
RingMemory == \A r \in fw : com[r].dma \/ r \in unsent

\* The driver never counts more packets outstanding than there are: they
\* would hold the ring's queue back for ever.
NeverOvercounted == \A r \in Ring : com[r].out <= InFlight(r)
=============================================================================
