------------------------------ MODULE FwSignal ------------------------------
(***************************************************************************)
(* Firmware signalling: the queues of packets per destination, the hanger    *)
(* that keeps every packet until its tx status, the credits the firmware     *)
(* grants per fifo and the worker that spends them, packets suppressed by a  *)
(* destination that sleeps, and the flow control of the interface.           *)
(*                                                                           *)
(* Explicit credits, one interface, destinations with a queue of their own.  *)
(* What runs under the fws lock is one step; the worker keeps it from one    *)
(* brcmf_proto_txdata() to the next.  The firmware takes or suppresses a     *)
(* packet when it arrives; its signals reach the host in order.  TIM         *)
(* bitmaps, APSD fifos and the BCMC fifo are left out.                       *)
(***************************************************************************)
EXTENDS Integers, Sequences, FiniteSets, SequencesExt

CONSTANTS
  Slot,        \* BRCMF_FWS_HANGER_MAXITEMS slots, numbers
  Fifo,        \* 0..n, the last may borrow from the others
  Entry,       \* occupied mac descriptors
  Init_credit, \* the firmware's credit map, [Fifo -> Nat]
  HiWater, LoWater,   \* BRCMF_FWS_FLOWCONTROL_HIWATER, _LOWATER
  PsqLen,      \* BRCMF_FWS_PSQ_LEN
  MaxPkt,      \* bound: packets of the stack
  MaxSleep,    \* bound: sleeps of a destination
  MaxFault     \* bound: frames refused or failed, bus blocked, destination gone

Top == Max(Fifo)

ASSUME FwsSizes ==
  /\ Slot \subseteq Nat /\ IsFiniteSet(Slot)
  /\ Top \in Nat /\ Fifo = 0..Top
  /\ Init_credit \in [Fifo -> Nat]
  /\ {HiWater, LoWater, PsqLen, MaxPkt, MaxSleep, MaxFault} \subseteq Nat
  /\ LoWater < HiWater /\ HiWater <= PsqLen

VARIABLES
  hanger,      \* state of the items: "free", "inuse", "suppressed"
  pkt,         \* the packet of a slot: entry, fifo, generation, requested, number
  delayq, supprq,     \* the two precedences of entry->psq, per fifo
  ent,         \* descriptors
  pktSeq,      \* number of the next packet of an entry and fifo
  credit, borrowed,   \* fifo_credit, credits_borrowed[fifo][lender]
  creditMap, delayMap,\* fifo_credit_map, fifo_delay_map
  enqpkt,      \* fifo_enqpkt
  stopped,     \* netif_stop has BRCMF_NETIF_STOP_REASON_FWS_FC
  busBlocked,  \* bus_flow_blocked
  deqQueued,   \* fws_dequeue_work is queued
  wk,          \* the worker: where it is, its fifo, the packet handed over
  bus,         \* packets in the bus
  fw,          \* firmware, per entry: asleep, gone, generation, credits requested
  air,         \* number of the last packet the firmware sent, per entry and fifo
  sig,         \* signals on their way to the host
  orphan,      \* history: slots whose packet met a full queue
  used         \* bounds used up

qVars == <<delayq, supprq, enqpkt, delayMap>>
credVars == <<credit, borrowed, creditMap>>
fwVars == <<fw, air>>
pktSeqVars == <<pktSeq, orphan>>
fwsVars == <<hanger, pkt, qVars, ent, pktSeqVars, credVars, stopped, busBlocked, deqQueued,
          wk, bus, fwVars, sig, used>>

Queues == [Entry -> [Fifo -> Seq(Slot)]]
Empty == [e \in Entry |-> [f \in Fifo |-> <<>>]]
Zero == [e \in Entry |-> [f \in Fifo |-> 0]]
Lenders(f) == {l \in Fifo : l < f}

FwsTypeOK ==
  /\ hanger \in [Slot -> {"free", "inuse", "suppressed"}]
  /\ DOMAIN pkt = Slot
  /\ delayq \in Queues /\ supprq \in Queues
  /\ \A e \in Entry : /\ ent[e].transit \in Int /\ ent[e].supprTransit \in Int
                      /\ ent[e].gen \in 0..1 /\ ent[e].request \in Nat
                      /\ {ent[e].occupied, ent[e].open, ent[e].suppressed} \subseteq BOOLEAN
  /\ credit \in [Fifo -> Int] /\ borrowed \in [Fifo -> [Fifo -> Nat]]
  /\ creditMap \subseteq Fifo /\ delayMap \subseteq Fifo /\ enqpkt \in [Fifo -> Int]
  /\ {stopped, busBlocked, deqQueued} \subseteq BOOLEAN
  /\ wk.at \in {"idle", "own", "borrow", "hand"} /\ wk.fifo \in Fifo
  /\ bus \in Seq(Slot) /\ orphan \subseteq Slot

NoPkt == [e |-> 0, f |-> Top, gen |-> 0, req |-> FALSE, n |-> 0]
Idle == [at |-> "idle", fifo |-> Top, from |-> "own", slot |-> 0]

\* brcmf_fws_attach() is over, the destinations are known and the first credit
\* map has come.
FwsInit ==
  /\ hanger = [s \in Slot |-> "free"] /\ pkt = [s \in Slot |-> NoPkt]
  /\ delayq = Empty /\ supprq = Empty
  /\ ent = [e \in Entry |-> [occupied |-> TRUE, open |-> TRUE, suppressed |-> FALSE,
                             gen |-> 0, transit |-> 0, supprTransit |-> 0, request |-> 0]]
  /\ pktSeq = Zero
  /\ credit = Init_credit /\ borrowed = [f \in Fifo |-> [l \in Fifo |-> 0]]
  /\ creditMap = Fifo /\ delayMap = {} /\ enqpkt = [f \in Fifo |-> 0]
  /\ stopped = FALSE /\ busBlocked = FALSE /\ deqQueued = FALSE
  /\ wk = Idle /\ bus = <<>>
  /\ fw = [e \in Entry |-> [asleep |-> FALSE, gone |-> FALSE, gen |-> 0, ask |-> 0]]
  /\ air = Zero /\ sig = <<>> /\ orphan = {}
  /\ used = [pkt |-> 0, sleep |-> 0, refuse |-> 0, other |-> 0]

-----------------------------------------------------------------------------
(* Helpers on the queues.                                                    *)
HeldFor(q, e) == UNION {ToSet(q[e][f]) : f \in Fifo}
\* Packets the host waits to hear of.
InFlight == (IF wk.at = "hand" THEN {wk.slot} ELSE {}) \cup ToSet(bus)
            \cup {sig[i].s : i \in {j \in 1..Len(sig) : sig[j].m \in {"sent", "suppressed"}}}
Psq(dq, sq, e) == Cardinality(HeldFor(dq, e) \cup HeldFor(sq, e))

\* brcmf_fws_flow_control_check() of entry e's queue.
Flow(dq, sq, e) ==
  LET len == Psq(dq, sq, e) IN
  IF stopped /\ len <= LoWater THEN FALSE
  ELSE IF len >= HiWater THEN TRUE ELSE stopped

\* The worker has dropped the fws lock.  What the firmware does meanwhile
\* commutes with the worker's steps under it.
Unlocked == wk.at \in {"idle", "hand"}

\* brcmf_fws_schedule_deq()
MutSchedule(cmap, dmap) == deqQueued
Schedule(cmap, dmap) == deqQueued \/ cmap \cap dmap # {}

\* brcmf_fws_macdesc_closed()
Closed(e) == ~ent[e].open /\ ent[e].request = 0

-----------------------------------------------------------------------------
(* Credits.                                                                  *)
\* brcmf_fws_return_credits() of one credit: to a lender first.
MutReturned(c, f) == [c EXCEPT !.credit[f] = @ + 1, !.map = @ \cup {f}]
Returned(c, f) ==
  LET lenders == {l \in Fifo : c.borrowed[f][l] > 0} IN
  IF lenders # {} /\ f > 0
  THEN LET l == Max(lenders) IN
       [c EXCEPT !.borrowed[f][l] = @ - 1, !.credit[l] = @ + 1,
                 !.map = @ \cup {f, l}]
  ELSE [c EXCEPT !.credit[f] = Min({@ + 1, Init_credit[f]}), !.map = @ \cup {f}]

Cred == [credit |-> credit, borrowed |-> borrowed, map |-> creditMap]
SetCred(c) == credit' = c.credit /\ borrowed' = c.borrowed /\ creditMap' = c.map

\* brcmf_fws_borrow_credit(), all of a lender's credits if need be.
CanLend(f) == {l \in Lenders(f) : credit[l] > 0}
Borrowed(f) ==
  LET l == Min(CanLend(f)) IN
  [credit |-> [credit EXCEPT ![l] = @ - 1],
   borrowed |-> [borrowed EXCEPT ![f][l] = @ + 1],
   map |-> (IF credit[l] = 1 THEN creditMap \ {l} ELSE creditMap) \cup {f}]

-----------------------------------------------------------------------------
(* brcmf_fws_process_skb(): a slot, a number, the destination's queue.       *)
FreeSlots == {s \in Slot : hanger[s] = "free"}

ProcessSkb(e, f) ==
  /\ Unlocked
  /\ ~stopped /\ used.pkt < MaxPkt /\ ent[e].occupied
  /\ FreeSlots # {}
  /\ LET s == Min(FreeSlots) IN
       /\ hanger' = [hanger EXCEPT ![s] = "inuse"]
       /\ pkt' = [pkt EXCEPT ![s] = [NoPkt EXCEPT !.e = e, !.f = f, !.n = pktSeq[e][f] + 1]]
       /\ IF Psq(delayq, supprq, e) < PsqLen
          THEN /\ delayq' = [delayq EXCEPT ![e][f] = Append(@, s)]
               /\ enqpkt' = [enqpkt EXCEPT ![f] = @ + 1]
               /\ delayMap' = delayMap \cup {f}
               /\ stopped' = Flow(delayq', supprq, e)
               /\ UNCHANGED orphan
          ELSE /\ orphan' = orphan \cup {s}      \* the error is ignored
               /\ UNCHANGED <<delayq, enqpkt, delayMap, stopped>>
  /\ pktSeq' = [pktSeq EXCEPT ![e][f] = @ + 1]
  /\ deqQueued' = Schedule(creditMap, delayMap')
  /\ used' = [used EXCEPT !.pkt = @ + 1]
  /\ UNCHANGED <<supprq, ent, credVars, busBlocked, wk, bus, fwVars, sig>>

-----------------------------------------------------------------------------
(* brcmf_fws_deq(): whose packet is next.  A destination with packets still  *)
(* to come back suppressed offers its suppressed ones only.                  *)
HoldsBack(e, f) == ent[e].suppressed /\ (supprq[e][f] # <<>> \/ ent[e].supprTransit # 0)

Offer(e, f) == IF supprq[e][f] # <<>> THEN supprq[e][f]
               ELSE IF HoldsBack(e, f) THEN <<>> ELSE delayq[e][f]
Served == {e \in Entry : ent[e].occupied /\ ~Closed(e)}
Ready(f) == {e \in Served : Offer(e, f) # <<>>}

\* An entry looked at in vain stops being suppressed when nothing of its own
\* is to come back.
Vain(f) == {e \in Served : Offer(e, f) = <<>> /\ ent[e].supprTransit = 0}
Recovered(seen) == [e \in Entry |->
  IF e \in seen THEN [ent[e] EXCEPT !.suppressed = FALSE] ELSE ent[e]]

\* The dequeue of an entry's packet: the round robin starts anywhere, and has
\* seen some entries in vain.
Deq(e, f, seen) ==
  LET s == Head(Offer(e, f))
      sup == supprq[e][f] # <<>>
      req == ent[e].request > 0
      clear == ent[e].suppressed /\ ~sup
  IN
  /\ IF sup THEN supprq' = [supprq EXCEPT ![e][f] = Tail(@)] /\ UNCHANGED delayq
            ELSE delayq' = [delayq EXCEPT ![e][f] = Tail(@)] /\ UNCHANGED supprq
  /\ stopped' = Flow(delayq', supprq', e)
  /\ enqpkt' = [enqpkt EXCEPT ![f] = @ - 1]
  /\ delayMap' = IF enqpkt[f] = 1 THEN delayMap \ {f} ELSE delayMap
  \* brcmf_fws_precommit_skb(), and the counters of brcmf_fws_commit_skb()
  /\ pkt' = [pkt EXCEPT ![s].gen = IF hanger[s] = "suppressed" THEN @ ELSE ent[e].gen,
                        ![s].req = req]
  /\ ent' = [Recovered(seen) EXCEPT
       ![e].request = IF req THEN @ - 1 ELSE @,
       ![e].suppressed = @ /\ ~clear,
       ![e].transit = @ + 1,
       ![e].supprTransit = IF ent[e].suppressed /\ ~clear THEN @ + 1 ELSE @]

-----------------------------------------------------------------------------
(* brcmf_fws_dequeue_worker()                                                *)
At(a, f) == [at |-> a, fifo |-> f, from |-> a, slot |-> 0]
NextFifo(f) == IF f = 0 \/ busBlocked THEN Idle ELSE At("own", f - 1)
\* After the loop over a fifo's own credits.
Own2(f, cr) == IF cr[f] = 0 /\ f > 0 /\ ~busBlocked THEN At("borrow", f) ELSE NextFifo(f)

WorkBegin ==
  /\ deqQueued /\ wk.at = "idle"
  /\ deqQueued' = FALSE
  /\ wk' = IF busBlocked THEN Idle ELSE At("own", Top)
  /\ UNCHANGED <<hanger, pkt, qVars, ent, pktSeqVars, credVars, stopped, busBlocked,
                 bus, fwVars, sig, used>>

WorkOwn ==
  /\ wk.at = "own" /\ credit[wk.fifo] # 0 /\ Ready(wk.fifo) # {}
  /\ \E e \in Ready(wk.fifo), seen \in SUBSET Vain(wk.fifo) :
       /\ Deq(e, wk.fifo, seen)
       /\ wk' = [at |-> "hand", fifo |-> wk.fifo, from |-> "own", slot |-> Head(Offer(e, wk.fifo))]
  /\ credit' = [credit EXCEPT ![wk.fifo] = @ - 1]
  /\ UNCHANGED <<hanger, pktSeqVars, borrowed, creditMap, busBlocked, deqQueued, bus,
                 fwVars, sig, used>>

WorkOwnDone ==
  /\ wk.at = "own" /\ (credit[wk.fifo] = 0 \/ Ready(wk.fifo) = {})
  /\ ent' = IF credit[wk.fifo] = 0 THEN ent ELSE Recovered(Vain(wk.fifo))
  /\ wk' = Own2(wk.fifo, credit)
  /\ UNCHANGED <<hanger, pkt, qVars, pktSeqVars, credVars, stopped, busBlocked, deqQueued,
                 bus, fwVars, sig, used>>

WorkBorrow ==
  /\ wk.at = "borrow" /\ CanLend(wk.fifo) # {} /\ Ready(wk.fifo) # {}
  /\ SetCred(Borrowed(wk.fifo))
  /\ \E e \in Ready(wk.fifo), seen \in SUBSET Vain(wk.fifo) :
       /\ Deq(e, wk.fifo, seen)
       /\ wk' = [at |-> "hand", fifo |-> wk.fifo, from |-> "borrow", slot |-> Head(Offer(e, wk.fifo))]
  /\ UNCHANGED <<hanger, pktSeqVars, busBlocked, deqQueued, bus, fwVars, sig, used>>

\* No lender: the fifo's credit bit is cleared.  No packet: the loan is given
\* back at once.
WorkBorrowDone ==
  /\ wk.at = "borrow" /\ (CanLend(wk.fifo) = {} \/ Ready(wk.fifo) = {})
  /\ IF CanLend(wk.fifo) = {}
     THEN creditMap' = creditMap \ {wk.fifo} /\ UNCHANGED <<credit, borrowed, ent>>
     ELSE SetCred(Returned(Borrowed(wk.fifo), wk.fifo)) /\ ent' = Recovered(Vain(wk.fifo))
  /\ wk' = NextFifo(wk.fifo)
  /\ UNCHANGED <<hanger, pkt, qVars, pktSeqVars, stopped, busBlocked, deqQueued, bus,
                 fwVars, sig, used>>

\* The lock dropped, the bus has the packet; or refuses it.
WorkSent ==
  /\ wk.at = "hand"
  /\ bus' = Append(bus, wk.slot)
  /\ wk' = IF busBlocked THEN Idle ELSE At(wk.from, wk.fifo)
  /\ UNCHANGED <<hanger, pkt, qVars, ent, pktSeqVars, credVars, stopped, busBlocked,
                 deqQueued, fwVars, sig, used>>

\* Packets leave the hanger.
Freed(S) == /\ hanger' = [s \in Slot |-> IF s \in S THEN "free" ELSE hanger[s]]
            /\ pkt' = [s \in Slot |-> IF s \in S THEN NoPkt ELSE pkt[s]]
Finalize(s) == Freed({s})

MutOut(en, s) == [en EXCEPT ![pkt[s].e].transit = @ - 1]
Out(en, s) ==
  LET e == pkt[s].e IN
  [en EXCEPT ![e].transit = @ - 1,
             ![e].supprTransit = IF en[e].suppressed /\ @ > 0 THEN @ - 1 ELSE @]
\* brcmf_fws_macdesc_return_req_credit()
ReqBack(en, s) == [en EXCEPT ![pkt[s].e].request =
  IF pkt[s].req /\ ~en[pkt[s].e].open THEN @ + 1 ELSE @]

\* brcmf_fws_rollback_toq(): the packet goes back to the head of its queue with
\* its credit; when its entry is gone or full it is tossed, and the transit
\* counter brcmf_fws_commit_skb() has put back goes down again.
RollCred(s) == Returned(Cred, pkt[s].f)
MutBack(q, s) == Append(q, s)
Back(q, s) == <<s>> \o q

WorkRefused ==
  /\ wk.at = "hand" /\ used.refuse + used.other < MaxFault
  /\ LET s == wk.slot
         e == pkt[s].e
         f == pkt[s].f
         back == [ent EXCEPT ![e].transit = @ - 1,
                             ![e].supprTransit = IF ent[e].suppressed THEN @ - 1 ELSE @]
     IN IF ent[e].occupied /\ Psq(delayq, supprq, e) < PsqLen
        THEN /\ IF hanger[s] = "suppressed"
                THEN supprq' = [supprq EXCEPT ![e][f] = Back(@, s)] /\ UNCHANGED delayq
                ELSE delayq' = [delayq EXCEPT ![e][f] = Back(@, s)] /\ UNCHANGED supprq
             /\ SetCred(RollCred(s)) /\ ent' = ReqBack(back, s)
             /\ UNCHANGED <<hanger, pkt, deqQueued>>
        ELSE /\ Finalize(s)
             /\ SetCred(Returned(Cred, f)) /\ ent' = ReqBack(Out(back, s), s)
             /\ deqQueued' = Schedule(creditMap', delayMap)
             /\ UNCHANGED <<delayq, supprq>>
  /\ wk' = IF wk.from = "own" THEN Own2(wk.fifo, credit') ELSE NextFifo(wk.fifo)
  /\ used' = [used EXCEPT !.refuse = @ + 1]
  /\ UNCHANGED <<enqpkt, delayMap, pktSeqVars, stopped, busBlocked, bus, fwVars, sig>>

-----------------------------------------------------------------------------
(* The bus: brcmf_fws_bus_blocked(), brcmf_fws_bustxcomplete() of a frame it *)
(* could not send, and the frames the firmware gets.                         *)
BusBlock ==
  /\ ~busBlocked /\ wk.at = "hand" /\ used.refuse + used.other < MaxFault
  /\ busBlocked' = TRUE
  /\ used' = [used EXCEPT !.other = @ + 1]
  /\ UNCHANGED <<hanger, pkt, qVars, ent, pktSeqVars, credVars, stopped, deqQueued, wk,
                 bus, fwVars, sig>>

BusUnblock ==
  /\ busBlocked
  /\ busBlocked' = FALSE
  /\ deqQueued' = Schedule(creditMap, delayMap)
  /\ UNCHANGED <<hanger, pkt, qVars, ent, pktSeqVars, credVars, stopped, wk, bus,
                 fwVars, sig, used>>

BusFailed ==
  /\ Unlocked
  /\ bus # <<>> /\ used.refuse + used.other < MaxFault
  /\ LET s == Head(bus) IN
       /\ Finalize(s)
       /\ SetCred(Returned(Cred, pkt[s].f))
       /\ ent' = ReqBack(Out(ent, s), s)
  /\ deqQueued' = Schedule(creditMap', delayMap)
  /\ bus' = Tail(bus)
  /\ used' = [used EXCEPT !.other = @ + 1]
  /\ UNCHANGED <<qVars, pktSeqVars, stopped, busBlocked, wk, fwVars, sig>>

\* The firmware suppresses what carries an old generation or is for a sleeping
\* destination that did not ask, and tosses what is for one that has left.  The
\* first packet of a generation it suppresses starts the next one.
FwTakes ==
  /\ Unlocked
  /\ bus # <<>>
  /\ LET s == Head(bus)
         p == pkt[s]
         gone == fw[p.e].gone
         first == ~gone /\ p.gen = fw[p.e].gen /\ fw[p.e].asleep /\ ~p.req
         sup == first \/ (~gone /\ p.gen # fw[p.e].gen)
         gen == IF first THEN 1 - fw[p.e].gen ELSE fw[p.e].gen
     IN /\ sig' = Append(sig, [m |-> IF sup THEN "suppressed" ELSE "sent", s |-> s,
                               e |-> p.e, gen |-> gen])
        /\ fw' = [fw EXCEPT ![p.e].gen = gen]
        /\ air' = IF sup \/ gone THEN air ELSE [air EXCEPT ![p.e][p.f] = p.n]
  /\ bus' = Tail(bus)
  /\ UNCHANGED <<hanger, pkt, qVars, ent, pktSeqVars, credVars, stopped, busBlocked,
                 deqQueued, wk, used>>

-----------------------------------------------------------------------------
(* The signals: brcmf_fws_hdrpull().                                         *)
Got(m) == Unlocked /\ sig # <<>> /\ Head(sig).m = m /\ sig' = Tail(sig)

\* The status of a packet, and its credit in the same header: what was asked
\* for is given back by the host, the rest by the firmware.
StatusSent ==
  /\ Got("sent")
  /\ LET s == Head(sig).s IN
       /\ hanger[s] # "free"
       /\ Finalize(s)
       /\ SetCred(Returned(Cred, pkt[s].f))
       /\ ent' = ReqBack(Out(ent, s), s)
  /\ deqQueued' = Schedule(creditMap', delayMap)
  /\ UNCHANGED <<qVars, pktSeqVars, stopped, busBlocked, wk, bus, fwVars, used>>

\* brcmf_fws_txstatus_suppressed(): back into the suppressed queue, in the
\* order of the packets' numbers.
Inserted(q, s) ==
  InsertAt(q, 1 + Max({0} \cup {i \in DOMAIN q : pkt[q[i]].n < pkt[s].n}), s)

StatusSuppressed ==
  /\ Got("suppressed")
  /\ LET s == Head(sig).s
         e == pkt[s].e
         f == pkt[s].f
         out == ReqBack(Out(ent, s), s)
     IN /\ hanger[s] # "free"
        /\ IF Psq(delayq, supprq, e) < PsqLen
           THEN /\ hanger' = [hanger EXCEPT ![s] = "suppressed"]
                /\ pkt' = [pkt EXCEPT ![s].gen = Head(sig).gen]
                /\ supprq' = [supprq EXCEPT ![e][f] = Inserted(@, s)]
                /\ enqpkt' = [enqpkt EXCEPT ![f] = @ + 1]
                /\ delayMap' = delayMap \cup {f}
                /\ stopped' = Flow(delayq, supprq', e)
           ELSE Finalize(s) /\ UNCHANGED <<supprq, enqpkt, delayMap, stopped>>
        /\ ent' = [out EXCEPT
                     ![e].suppressed = TRUE, ![e].gen = Head(sig).gen,
                     ![e].supprTransit = IF out[e].suppressed THEN @ ELSE out[e].transit]
        /\ SetCred(Returned(Cred, f))
        /\ deqQueued' = Schedule(creditMap', delayMap')
  /\ UNCHANGED <<delayq, pktSeqVars, busBlocked, wk, bus, fwVars, used>>

\* brcmf_fws_macdesc_state_indicate(): MAC_OPEN, MAC_CLOSE
MacState(m) ==
  /\ Got(m)
  /\ LET e == Head(sig).e IN
       ent' = IF ent[e].occupied
              THEN [ent EXCEPT ![e].open = (m = "open"), ![e].request = 0] ELSE ent
  /\ deqQueued' = IF m = "open" THEN Schedule(creditMap, delayMap) ELSE deqQueued
  /\ UNCHANGED <<hanger, pkt, qVars, pktSeqVars, credVars, stopped, busBlocked, wk,
                 bus, fwVars, used>>

\* brcmf_fws_request_indicate(): MAC_REQUEST_CREDIT
MacRequest ==
  /\ Got("request")
  /\ LET e == Head(sig).e IN
       ent' = IF ent[e].occupied THEN [ent EXCEPT ![e].request = 1] ELSE ent
  /\ deqQueued' = Schedule(creditMap, delayMap)
  /\ UNCHANGED <<hanger, pkt, qVars, pktSeqVars, credVars, stopped, busBlocked, wk,
                 bus, fwVars, used>>

\* brcmf_fws_macdesc_indicate(): MACDESC_DEL flushes the entry's queue.
Flushed(e) == HeldFor(delayq, e) \cup HeldFor(supprq, e)

MacDel ==
  /\ Got("del")
  /\ LET e == Head(sig).e IN
       /\ Freed(Flushed(e))
       /\ delayq' = [delayq EXCEPT ![e] = Empty[e]]
       /\ supprq' = [supprq EXCEPT ![e] = Empty[e]]
       /\ ent' = [ent EXCEPT ![e].occupied = FALSE, ![e].open = FALSE, ![e].request = 0]
  /\ UNCHANGED <<enqpkt, delayMap, pktSeqVars, credVars, stopped, busBlocked, deqQueued,
                 wk, bus, fwVars, used>>

-----------------------------------------------------------------------------
(* The firmware's side.                                                      *)
Signal(m, e) == sig' = Append(sig, [m |-> m, s |-> 0, e |-> e, gen |-> 0])
Rest == <<hanger, pkt, qVars, ent, pktSeqVars, credVars, stopped, busBlocked, deqQueued,
          wk, bus, air>>

FwSleep(e) ==
  /\ Unlocked
  /\ used.sleep < MaxSleep /\ ~fw[e].asleep /\ ~fw[e].gone
  /\ fw' = [fw EXCEPT ![e].asleep = TRUE]
  /\ Signal("close", e)
  /\ used' = [used EXCEPT !.sleep = @ + 1]
  /\ UNCHANGED Rest

FwWake(e) ==
  /\ Unlocked
  /\ fw[e].asleep /\ ~fw[e].gone
  /\ fw' = [fw EXCEPT ![e].asleep = FALSE, ![e].ask = 0]
  /\ Signal("open", e)
  /\ UNCHANGED <<Rest, used>>

FwRequest(e) ==
  /\ Unlocked
  /\ fw[e].asleep /\ ~fw[e].gone /\ fw[e].ask = 0
  /\ fw' = [fw EXCEPT ![e].ask = 1]
  /\ Signal("request", e)
  /\ UNCHANGED <<Rest, used>>

FwDel(e) ==
  /\ Unlocked
  /\ used.refuse + used.other < MaxFault /\ ~fw[e].gone
  /\ fw' = [fw EXCEPT ![e].gone = TRUE]
  /\ Signal("del", e)
  /\ used' = [used EXCEPT !.other = @ + 1]
  /\ UNCHANGED Rest

FwsNext ==
  \/ \E e \in Entry, f \in Fifo : ProcessSkb(e, f)
  \/ WorkBegin \/ WorkOwn \/ WorkOwnDone \/ WorkBorrow \/ WorkBorrowDone
  \/ WorkSent \/ WorkRefused
  \/ BusBlock \/ BusUnblock \/ BusFailed \/ FwTakes
  \/ StatusSent \/ StatusSuppressed \/ MacState("open") \/ MacState("close")
  \/ MacRequest \/ MacDel
  \/ \E e \in Entry : FwSleep(e) \/ FwWake(e) \/ FwRequest(e) \/ FwDel(e)

FwsSpec == FwsInit /\ [][FwsNext]_fwsVars

-----------------------------------------------------------------------------
InQueue == UNION {HeldFor(delayq, e) \cup HeldFor(supprq, e) : e \in Entry}

(* Every packet of the hanger is in one place that will give it back, a      *)
(* queue, the worker's hands, the bus or the firmware, unless it met a full  *)
(* queue: brcmf_fws_process_skb() leaves it in its slot for good.  A free    *)
(* slot is in none; and no destination waits for more packets to come back   *)
(* than are on their way.                                                    *)
SlotsHeld ==
  LET there == InFlight
      waiting == InQueue
  IN /\ there \cup waiting \cup orphan = {s \in Slot : hanger[s] # "free"}
     /\ there \cap waiting = {} /\ orphan \cap (there \cup waiting) = {}
     /\ \A e \in Entry : LET own == Cardinality({s \in there : pkt[s].e = e}) IN
          ent[e].transit <= own /\ (ent[e].suppressed => ent[e].supprTransit <= own)

\* The credits a fifo has lent, and owes, one by one.
Lent(f) == UNION {{g} \X (1..borrowed[g][f]) : g \in Fifo}
Owed(f) == UNION {{l} \X (1..borrowed[f][l]) : l \in Fifo}

(* Credits are neither lost nor made: what a fifo holds, what its packets in  *)
(* flight have of its own and what it has lent is what the firmware granted;  *)
(* and what it owes is in flight, so that brcmf_fws_return_credits() will     *)
(* give it back.                                                             *)
CreditsKept ==
  \A f \in Fifo :
    LET own == Cardinality({s \in InFlight : pkt[s].f = f}) IN
    /\ credit[f] \in 0..Init_credit[f]
    /\ credit[f] + own + Cardinality(Lent(f)) = Init_credit[f] + Cardinality(Owed(f))
    /\ Cardinality(Owed(f)) <= own

(* A destination gets the packets of a fifo in the order the stack queued *)
(* them, though some come back suppressed and newer ones wait or are sent.   *)
(* Not so after a second sleep, which may turn the one-bit generation round  *)
(* under a packet that still carries the first; nor once the transit counter *)
(* is wrong: of a refused packet that no longer fits, brcmf_fws_commit_skb() *)
(* and brcmf_fws_txs_process() both take it off, and the newer packets of a  *)
(* fifo do not wait for all that are to come back.                           *)
InOrder == [][\A e \in Entry, f \in Fifo :
    used.sleep <= 1 /\ ent[e].transit = Cardinality({s \in InFlight : pkt[s].e = e})
      => air'[e][f] >= air[e][f]]_air

(* With nothing in flight or on its way, the worker at rest leaves no packet  *)
(* it could send: what came while it was not looking has woken it.  (Unless   *)
(* the bus refused one: its rollback schedules nothing.)                     *)
NothingStranded ==
  wk.at = "idle" /\ ~deqQueued /\ ~busBlocked /\ InFlight = {} /\ sig = <<>>
      /\ used.refuse = 0 =>
    \A f \in Fifo : credit[f] > 0 => Ready(f) = {}
=============================================================================
