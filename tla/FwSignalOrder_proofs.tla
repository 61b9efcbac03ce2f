------------------------ MODULE FwSignalOrder_proofs ------------------------
(***************************************************************************)
(* The order of FwSignal, for every number of packets, slots, destinations *)
(* and fifos: over one sleep and with an exact transit counter, the        *)
(* firmware takes a destination's packets of a fifo in the order the stack *)
(* queued them, whatever is suppressed, refused or sent again.  The        *)
(* argument is the invariant OrdInv: the packets still to be taken are in  *)
(* five places, each place's older than the next's and all younger than    *)
(* the last one taken.  What OrdInv rests on, and CalmStep, that a         *)
(* destination whose counter is exact has always had an exact one, come    *)
(* first.  The types and the places of packets are in Sdio_proofs.         *)
(***************************************************************************)
EXTENDS Sdio_proofs

-----------------------------------------------------------------------------
(* The order of a destination's packets (InOrder).  The packets of a fifo    *)
(* that the firmware will still take are in five places, and each place's    *)
(* have older numbers than the next one's: underway with the firmware's      *)
(* generation, suppressed and back in the queue, on their way back,          *)
(* underway with the generation before, delayed.                             *)
Before(q, s, t) == \E i, j \in 1..Len(q) : i < j /\ q[i] = s /\ q[j] = t
RetIn(q) == {i \in 1..Len(q) : q[i].m = "suppressed"}
Returning(q) == {q[i].s : i \in RetIn(q)}
RetBefore(q, s, t) == \E i, j \in RetIn(q) : i < j /\ q[i].s = s /\ q[j].s = t
Said(q, m, e) == \E i \in 1..Len(q) : q[i].m = m /\ q[i].e = e

LEMMA BeforeIn == ASSUME NEW S, NEW q \in Seq(S), Once(q), NEW x, NEW y, Before(q, x, y)
  PROVE  x \in ToSet(q) /\ y \in ToSet(q) /\ x # y
<1>1. PICK i, j \in 1..Len(q) : i < j /\ q[i] = x /\ q[j] = y
  BY DEF Before
<1>2. i # j
  BY <1>1
<1>3. QED
  BY <1>1, <1>2, AsSet DEF Once

LEMMA BeforeAppend == ASSUME NEW S, NEW q \in Seq(S), NEW s \in S, NEW x, NEW y
  PROVE  Before(Append(q, s), x, y) <=> Before(q, x, y) \/ (y = s /\ x \in ToSet(q))
<1>1. /\ Len(Append(q, s)) = Len(q) + 1 /\ Append(q, s)[Len(q) + 1] = s /\ Len(q) \in Nat
      /\ \A i \in 1..Len(q) : Append(q, s)[i] = q[i] /\ i \in 1..Len(q) + 1
  OBVIOUS
<1>2. x \in ToSet(q) <=> \E i \in 1..Len(q) : q[i] = x
  BY AsSet
<1>3. ASSUME Before(Append(q, s), x, y) PROVE Before(q, x, y) \/ (y = s /\ x \in ToSet(q))
  <2>1. PICK i, j \in 1..Len(q) + 1 : i < j /\ Append(q, s)[i] = x /\ Append(q, s)[j] = y
    BY <1>1, <1>3 DEF Before
  <2>2. i \in 1..Len(q) /\ q[i] = x
    BY <1>1, <2>1
  <2>3. CASE j = Len(q) + 1
    BY <1>1, <1>2, <2>1, <2>2, <2>3
  <2>4. CASE j \in 1..Len(q)
    BY <1>1, <2>1, <2>2, <2>4 DEF Before
  <2>5. QED
    BY <2>3, <2>4
<1>4. ASSUME Before(q, x, y) PROVE Before(Append(q, s), x, y)
  BY <1>1, <1>4 DEF Before
<1>5. ASSUME y = s, x \in ToSet(q) PROVE Before(Append(q, s), x, y)
  <2>1. PICK i \in 1..Len(q) : q[i] = x
    BY <1>2, <1>5
  <2>2. i < Len(q) + 1 /\ Len(q) + 1 \in 1..Len(q) + 1
    BY <1>1
  <2>3. QED
    BY <1>1, <1>5, <2>1, <2>2 DEF Before
<1>6. QED
  BY <1>3, <1>4, <1>5

LEMMA BeforeTail == ASSUME NEW S, NEW q \in Seq(S), q # <<>>
  PROVE  /\ \A x, y : Before(Tail(q), x, y) => Before(q, x, y)
         /\ \A y \in ToSet(Tail(q)) : Before(q, Head(q), y)
<1>1. /\ Tail(q) \in Seq(S) /\ Len(Tail(q)) = Len(q) - 1 /\ Len(q) >= 1 /\ Len(q) \in Nat
      /\ Head(q) = q[1]
  OBVIOUS
<1>2. \A i \in 1..Len(q) - 1 : Tail(q)[i] = q[i + 1] /\ i + 1 \in 1..Len(q)
  BY <1>1
<1>3. ASSUME NEW x, NEW y, Before(Tail(q), x, y) PROVE Before(q, x, y)
  <2>1. PICK i, j \in 1..Len(q) - 1 : i < j /\ Tail(q)[i] = x /\ Tail(q)[j] = y
    BY <1>1, <1>3 DEF Before
  <2>2. i + 1 < j + 1
    BY <2>1
  <2>3. QED
    BY <1>2, <2>1, <2>2 DEF Before
<1>4. ASSUME NEW y \in ToSet(Tail(q)) PROVE Before(q, Head(q), y)
  <2>0. \E i \in 1..Len(Tail(q)) : Tail(q)[i] = y
    <3>1. \A r \in Seq(S) : y \in ToSet(r) <=> \E i \in 1..Len(r) : r[i] = y
      BY AsSet
    <3>2. QED
      BY <1>1, <1>4, <3>1
  <2>1. PICK i \in 1..Len(q) - 1 : Tail(q)[i] = y
    BY <1>1, <2>0
  <2>2. 1 < i + 1 /\ 1 \in 1..Len(q)
    BY <1>1
  <2>3. QED
    BY <1>1, <1>2, <2>1, <2>2 DEF Before
<1>5. QED
  BY <1>3, <1>4

LEMMA BeforeBack == ASSUME NEW S, NEW q \in Seq(S), NEW s \in S, NEW x, NEW y, Before(Back(q, s), x, y)
  PROVE  Before(q, x, y) \/ (x = s /\ y \in ToSet(q))
<1>1. /\ Len(Back(q, s)) = Len(q) + 1 /\ Back(q, s)[1] = s /\ Len(q) \in Nat
      /\ \A i \in 1..Len(q) + 1 : i # 1 => Back(q, s)[i] = q[i - 1] /\ i - 1 \in 1..Len(q)
  BY DEF Back
<1>2. PICK i, j \in 1..Len(q) + 1 : i < j /\ Back(q, s)[i] = x /\ Back(q, s)[j] = y
  BY <1>1 DEF Before
<1>3. j # 1 /\ j - 1 \in 1..Len(q) /\ q[j - 1] = y
  BY <1>1, <1>2
<1>4. CASE i = 1
  BY <1>1, <1>2, <1>3, <1>4, AsSet
<1>5. CASE i # 1
  <2>1. i - 1 \in 1..Len(q) /\ q[i - 1] = x /\ i - 1 < j - 1
    BY <1>1, <1>2, <1>5
  <2>2. QED
    BY <1>3, <2>1 DEF Before
<1>6. QED
  BY <1>4, <1>5

-----------------------------------------------------------------------------
(* The signals on their way.                                                 *)
LEMMA TailAt == ASSUME NEW q \in Seq(Signals), q # <<>>
  PROVE  /\ Tail(q) \in Seq(Signals) /\ Len(Tail(q)) = Len(q) - 1 /\ Len(q) \in Nat
         /\ Head(q) = q[1] /\ Head(q) \in Signals /\ 1 \in 1..Len(q)
         /\ \A i \in 1..Len(Tail(q)) : Tail(q)[i] = q[i + 1] /\ i + 1 \in 1..Len(q)
         /\ \A i \in 1..Len(q) : i # 1 => q[i] = Tail(q)[i - 1] /\ i - 1 \in 1..Len(Tail(q))
<1>1. /\ Tail(q) \in Seq(Signals) /\ Len(Tail(q)) = Len(q) - 1 /\ Len(q) >= 1 /\ Len(q) \in Nat
      /\ Head(q) = q[1] /\ Head(q) \in Signals
  OBVIOUS
<1>2. \A i \in 1..Len(q) - 1 : Tail(q)[i] = q[i + 1] /\ i + 1 \in 1..Len(q)
  BY <1>1
<1>3. ASSUME NEW i \in 1..Len(q), i # 1 PROVE q[i] = Tail(q)[i - 1] /\ i - 1 \in 1..Len(Tail(q))
  <2>1. i - 1 \in 1..Len(q) - 1 /\ (i - 1) + 1 = i
    BY <1>1, <1>3
  <2>2. QED
    BY <1>1, <1>2, <2>1
<1>4. QED
  BY <1>1, <1>2, <1>3

LEMMA SaidTail == ASSUME NEW q \in Seq(Signals), q # <<>>, NEW m, NEW e
  PROVE  Said(q, m, e) <=> Said(Tail(q), m, e) \/ (Head(q).m = m /\ Head(q).e = e)
  BY TailAt DEF Said

LEMMA AppendAt == ASSUME NEW q \in Seq(Signals), NEW x \in Signals
  PROVE  /\ Append(q, x) \in Seq(Signals) /\ Len(Append(q, x)) = Len(q) + 1 /\ Len(q) \in Nat
         /\ Append(q, x)[Len(q) + 1] = x /\ Len(q) + 1 \in 1..Len(q) + 1
         /\ \A i \in 1..Len(q) : Append(q, x)[i] = q[i] /\ i \in 1..Len(q) + 1 /\ i < Len(q) + 1
         /\ \A i \in 1..Len(q) + 1 : i # Len(q) + 1 => i \in 1..Len(q)
  OBVIOUS

LEMMA SaidAppend == ASSUME NEW q \in Seq(Signals), NEW x \in Signals, NEW m, NEW e
  PROVE  Said(Append(q, x), m, e) <=> Said(q, m, e) \/ (x.m = m /\ x.e = e)
  BY AppendAt DEF Said

LEMMA RetTail == ASSUME NEW q \in Seq(Signals), q # <<>>
  PROVE  /\ \A x, y : RetBefore(Tail(q), x, y) => RetBefore(q, x, y)
         /\ Returning(Tail(q)) \subseteq Returning(q)
         /\ Head(q).m = "suppressed" =>
              /\ Head(q).s \in Returning(q)
              /\ \A y \in Returning(Tail(q)) : RetBefore(q, Head(q).s, y)
<1>1. \A i \in RetIn(Tail(q)) : i + 1 \in RetIn(q) /\ Tail(q)[i] = q[i + 1] /\ 1 < i + 1 /\ i \in Nat
  BY TailAt DEF RetIn
<1>2. Head(q).m = "suppressed" => 1 \in RetIn(q) /\ Head(q) = q[1]
  BY TailAt DEF RetIn
<1>3. ASSUME NEW x, NEW y, RetBefore(Tail(q), x, y) PROVE RetBefore(q, x, y)
  <2>1. PICK i, j \in RetIn(Tail(q)) : i < j /\ Tail(q)[i].s = x /\ Tail(q)[j].s = y
    BY <1>3 DEF RetBefore
  <2>2. i + 1 < j + 1
    BY <1>1, <2>1
  <2>3. QED
    BY <1>1, <2>1, <2>2 DEF RetBefore
<1>4. Returning(Tail(q)) \subseteq Returning(q)
  BY <1>1 DEF Returning
<1>5. ASSUME Head(q).m = "suppressed"
      PROVE  Head(q).s \in Returning(q) /\ \A y \in Returning(Tail(q)) : RetBefore(q, Head(q).s, y)
  BY <1>1, <1>2, <1>5 DEF Returning, RetBefore
<1>6. QED
  BY <1>3, <1>4, <1>5

LEMMA RetAppend == ASSUME NEW q \in Seq(Signals), NEW x \in Signals
  PROVE  /\ Returning(Append(q, x)) = Returning(q) \cup (IF x.m = "suppressed" THEN {x.s} ELSE {})
         /\ \A a, b : RetBefore(Append(q, x), a, b) =>
              RetBefore(q, a, b) \/ (x.m = "suppressed" /\ b = x.s /\ a \in Returning(q))
<1> DEFINE r == Append(q, x)
<1>0. /\ Len(r) = Len(q) + 1 /\ r[Len(q) + 1] = x /\ Len(q) + 1 \in 1..Len(q) + 1
      /\ \A i \in 1..Len(q) : r[i] = q[i] /\ i \in 1..Len(q) + 1
      /\ \A i \in 1..Len(q) + 1 : i # Len(q) + 1 => i \in 1..Len(q)
  BY AppendAt
<1> HIDE DEF r
<1>1. /\ \A i \in RetIn(q) : i \in RetIn(r) /\ r[i] = q[i]
      /\ \A i \in RetIn(r) : i \in RetIn(q) \/ (i = Len(q) + 1 /\ x.m = "suppressed")
      /\ x.m = "suppressed" => Len(q) + 1 \in RetIn(r)
      /\ r[Len(q) + 1] = x
  BY <1>0 DEF RetIn
<1>2. ASSUME NEW a, NEW b, RetBefore(r, a, b)
      PROVE  RetBefore(q, a, b) \/ (x.m = "suppressed" /\ b = x.s /\ a \in Returning(q))
  <2>1. PICK i, j \in RetIn(r) : i < j /\ r[i].s = a /\ r[j].s = b
    BY <1>2 DEF RetBefore
  <2>2. i \in RetIn(q)
    <3>1. j <= Len(q) + 1 /\ i \in Nat /\ j \in Nat /\ Len(q) \in Nat
      BY <1>0, AppendAt DEF RetIn
    <3>2. QED
      BY <1>1, <2>1, <3>1
  <2>3. CASE j \in RetIn(q)
    BY <1>1, <2>1, <2>2, <2>3 DEF RetBefore
  <2>4. CASE j \notin RetIn(q)
    BY <1>1, <2>1, <2>2, <2>4 DEF Returning
  <2>5. QED
    BY <2>3, <2>4
<1>3. QED
  BY <1>1, <1>2 DEF Returning, r

-----------------------------------------------------------------------------
(* The five places, and the order within each.                               *)
Underway == IF wk.at = "hand" THEN Append(bus, wk.slot) ELSE bus
InQueues(q, s, t) == \E e \in Entry, f \in Fifo : Before(q[e][f], s, t)
Cur == {s \in ToSet(Underway) : pkt[s].gen = fw[pkt[s].e].gen}
Sta == {s \in ToSet(Underway) : pkt[s].gen # fw[pkt[s].e].gen}
Sup == Members(supprq)
Del == Members(delayq)
Ret == Returning(sig)
InUnder(s, t) == Before(Underway, s, t)
InRet(s, t) == RetBefore(sig, s, t)
InSup(s, t) == InQueues(supprq, s, t)
InDel(s, t) == InQueues(delayq, s, t)

SameRun(s, t) == pkt[s].e = pkt[t].e /\ pkt[s].f = pkt[t].f
Precedes(s, t) ==
  \/ s \in Cur /\ t \in Sup \cup Ret \cup Sta \cup Del
  \/ s \in Sup /\ t \in Ret \cup Sta \cup Del
  \/ s \in Ret /\ t \in Sta \cup Del
  \/ s \in Sta /\ t \in Del
  \/ InUnder(s, t) /\ ((s \in Cur /\ t \in Cur) \/ (s \in Sta /\ t \in Sta))
  \/ InRet(s, t) \/ InSup(s, t) \/ InDel(s, t)

\* Over one sleep of a destination that has not left; and with an exact counter.
Known(e) == used.sleep <= 1 /\ ~fw[e].gone
Calm(e) == Known(e) /\ ent[e].transit = Cardinality(Of(e))

\* A descriptor is only deleted after its destination has left.
Leaving == \A e \in Entry : ~ent[e].occupied \/ Said(sig, "del", e) => fw[e].gone
\* The host takes a sleeping destination for open only until MAC_CLOSE comes,
\* which comes before the first suppressed packet.
Sleeps(e) ==
  /\ used.sleep = 0 => ~fw[e].asleep /\ fw[e].gen = 0 /\ ~Said(sig, "open", e)
  /\ fw[e].asleep => ~Said(sig, "open", e)
  /\ fw[e].asleep /\ ~Said(sig, "close", e) => ~ent[e].open
  /\ ent[e].gen = 1 => ~Said(sig, "close", e)
Returns(e) == \A i \in RetIn(sig) : pkt[sig[i].s].e = e =>
  /\ sig[i].gen = 1 /\ fw[e].gen = 1
  /\ \A j \in 1..Len(sig) : sig[j].m = "close" /\ sig[j].e = e => j < i
\* The host's generation follows the firmware's, and the packets' the host's;
\* one of the second generation for a sleeping destination was asked for.
Gens(e) ==
  /\ ent[e].suppressed => ent[e].gen = 1
  /\ ent[e].gen = 1 => fw[e].gen = 1
  /\ \A s \in ToSet(Underway) : pkt[s].e = e /\ pkt[s].gen = 1 =>
       ent[e].gen = 1 /\ (fw[e].asleep => pkt[s].req)
  /\ \A s \in Slot : hanger[s] = "suppressed" /\ pkt[s].e = e => pkt[s].gen = 1 /\ ent[e].gen = 1

\* A suppressed destination knows how many packets to wait for; one that is no
\* longer suppressed has none to come back.
Awaited(e) ==
  /\ ent[e].suppressed => ent[e].supprTransit = Cardinality(Of(e))
  /\ ~ent[e].suppressed /\ ent[e].gen = 1 => \A s \in Ret \cup Sta : pkt[s].e # e
\* A new packet is handed over only when no older one is to be sent again.
Latest(e) ==
  wk.at = "hand" /\ pkt[wk.slot].e = e /\ hanger[wk.slot] = "inuse" /\ pkt[wk.slot].gen = 1 =>
    \A s \in Sup \cup Ret \cup Sta : ~SameRun(s, wk.slot)
Order(e) == \A s, t \in Slot :
  pkt[s].e = e /\ SameRun(s, t) /\ Precedes(s, t) => pkt[s].n < pkt[t].n
Bounds(e) ==
  /\ \A f \in Fifo : air[e][f] <= pktSeq[e][f]
  /\ \A s \in Cur \cup Sup \cup Ret \cup Sta \cup Del : pkt[s].e = e =>
       air[e][pkt[s].f] < pkt[s].n /\ pkt[s].n <= pktSeq[e][pkt[s].f]

OneSleep(e) == Sleeps(e) /\ Returns(e) /\ Gens(e)
Sorted(e) == Awaited(e) /\ Latest(e) /\ Order(e) /\ Bounds(e)
OrdInv == /\ FwsInv /\ Leaving
          /\ \A e \in Entry : Known(e) => OneSleep(e)
          /\ \A e \in Entry : Calm(e) => Sorted(e)

-----------------------------------------------------------------------------
LEMMA UnderwayIs == Core => /\ Underway \in Seq(Slot) /\ Once(Underway)
                            /\ ToSet(Underway) = Hand \cup ToSet(bus)
                            /\ ToSet(Underway) = Cur \cup Sta /\ Cur \cap Sta = {}
<1> SUFFICES ASSUME Core
             PROVE  /\ Underway \in Seq(Slot) /\ Once(Underway)
                    /\ ToSet(Underway) = Hand \cup ToSet(bus)
                    /\ ToSet(Underway) = Cur \cup Sta /\ Cur \cap Sta = {}
  OBVIOUS
<1>1. bus \in Seq(Slot) /\ Once(bus) /\ (wk.at = "hand" => wk.slot \in Slot)
  BY DEF Core, Types, Flights
<1>2. CASE wk.at = "hand"
  <2>1. Hand = {wk.slot} /\ wk.slot \notin ToSet(bus) /\ Underway = Append(bus, wk.slot)
    BY <1>2 DEF Core, Flights, Hand, Underway
  <2>2. QED
    BY <1>1, <1>2, <2>1, OnceAppend DEF Cur, Sta
<1>3. CASE wk.at # "hand"
  BY <1>1, <1>3 DEF Hand, Underway, Cur, Sta
<1>4. QED
  BY <1>2, <1>3

\* Where the packets are.
Placed ==
  /\ Cur \cup Sta \subseteq InFlight /\ Ret \subseteq InFlight /\ InFlight \subseteq Slot
  /\ Sup \cup Del = InQueue /\ InQueue \subseteq Slot
  /\ InFlight \cap InQueue = {} /\ Sup \cap Del = {} /\ Ret \cap (Cur \cup Sta) = {}
  /\ \A s \in InFlight \cup InQueue : hanger[s] # "free" /\ pkt[s].e \in Entry /\ pkt[s].f \in Fifo
  /\ \A s \in Sup : hanger[s] = "suppressed" /\ s \in ToSet(supprq[pkt[s].e][pkt[s].f])
  /\ \A s \in Del : hanger[s] = "inuse" /\ s \in ToSet(delayq[pkt[s].e][pkt[s].f])
  /\ \A s, t : InUnder(s, t) => s # t /\ s \in Cur \cup Sta /\ t \in Cur \cup Sta
  /\ \A s, t : InSup(s, t) => s # t /\ s \in Sup /\ t \in Sup
  /\ \A s, t : InDel(s, t) => s # t /\ s \in Del /\ t \in Del
  /\ \A s, t : InRet(s, t) => s # t /\ s \in Ret /\ t \in Ret

LEMMA QueuesIn == ASSUME NEW q \in Queues, NEW state, Filed(q, state), NEW s, NEW t, InQueues(q, s, t)
  PROVE  s # t /\ s \in Members(q) /\ t \in Members(q)
<1>1. PICK e \in Entry, f \in Fifo : Before(q[e][f], s, t)
  BY DEF InQueues
<1>2. q[e][f] \in Seq(Slot) /\ Once(q[e][f]) /\ \A x \in ToSet(q[e][f]) : x \in Members(q)
  BY QueueOf, FiledAt
<1>3. QED
  BY <1>1, <1>2, BeforeIn

LEMMA RetPlaced == ASSUME Core, NEW s, NEW t, InRet(s, t) PROVE s # t /\ s \in Ret /\ t \in Ret
<1>1. PICK i, j \in RetIn(sig) : i < j /\ sig[i].s = s /\ sig[j].s = t
  BY DEF InRet, RetBefore
<1>2. i # j /\ i \in Told(sig) /\ j \in Told(sig) /\ ToldOnce(sig)
  BY <1>1 DEF RetIn, Told, Tells, Core, Flights
<1>3. QED
  BY <1>1, <1>2 DEF ToldOnce, Ret, Returning

LEMMA PlacedIs == Core => Placed
<1> SUFFICES ASSUME Core PROVE Placed
  OBVIOUS
<1>1. delayq \in Queues /\ supprq \in Queues /\ Filed(delayq, "inuse") /\ Filed(supprq, "suppressed")
  BY DEF Core, Types
<1>2. InQueue = Sup \cup Del /\ InQueue \subseteq Slot
  BY QueueSlots DEF Sup, Del
<1>3. /\ Cur \cup Sta = Hand \cup ToSet(bus)
      /\ Underway \in Seq(Slot) /\ Once(Underway) /\ ToSet(Underway) = Cur \cup Sta
  BY UnderwayIs
<1>4. Ret \subseteq ToldBy(sig)
  BY DEF Ret, Returning, RetIn, ToldBy, Told, Tells
<1>5. InFlight = Hand \cup ToSet(bus) \cup ToldBy(sig) /\ InFlight \subseteq Slot
  BY InFlightIs, FlightSlots DEF Core
<1>6. InFlight \cap InQueue = {} /\ Ret \cap (Cur \cup Sta) = {}
  BY <1>3, <1>4 DEF Core, Places, Flights
<1>7. /\ \A s \in Sup : hanger[s] = "suppressed" /\ pkt[s].e \in Entry /\ pkt[s].f \in Fifo
                        /\ s \in ToSet(supprq[pkt[s].e][pkt[s].f])
      /\ \A s \in Del : hanger[s] = "inuse" /\ pkt[s].e \in Entry /\ pkt[s].f \in Fifo
                        /\ s \in ToSet(delayq[pkt[s].e][pkt[s].f])
  BY <1>1, FiledMembers DEF Sup, Del
<1>8. \A s \in InFlight : hanger[s] # "free" /\ pkt[s].e \in Entry /\ pkt[s].f \in Fifo
  BY FlightPkt
<1>9. /\ \A s, t : InSup(s, t) => s # t /\ s \in Sup /\ t \in Sup
      /\ \A s, t : InDel(s, t) => s # t /\ s \in Del /\ t \in Del
  BY <1>1, QueuesIn DEF InSup, InDel, Sup, Del
<1>10. \A s, t : InUnder(s, t) => s # t /\ s \in Cur \cup Sta /\ t \in Cur \cup Sta
  BY <1>3, BeforeIn DEF InUnder
<1>11. \A s, t : InRet(s, t) => s # t /\ s \in Ret /\ t \in Ret
  BY RetPlaced
<1>12. Sup \cap Del = {}
  BY <1>7
<1>13. QED
  BY <1>2, <1>3, <1>4, <1>5, <1>6, <1>7, <1>8, <1>9, <1>10, <1>11, <1>12 DEF Placed

LEMMA PlacedNext == ASSUME Core' PROVE Placed'
  BY PlacedIs, PTL

-----------------------------------------------------------------------------
(* The places after a step.                                                  *)
LEMMA ViewNext ==
  /\ Cur' = {s \in ToSet(Underway') : pkt'[s].gen = fw'[pkt'[s].e].gen}
  /\ Sta' = {s \in ToSet(Underway') : pkt'[s].gen # fw'[pkt'[s].e].gen}
  /\ Sup' = Members(supprq') /\ Del' = Members(delayq') /\ Ret' = Returning(sig')
  /\ \A s, t : InUnder(s, t)' <=> Before(Underway', s, t)
  /\ \A s, t : InRet(s, t)' <=> RetBefore(sig', s, t)
  /\ \A s, t : InSup(s, t)' <=> InQueues(supprq', s, t)
  /\ \A s, t : InDel(s, t)' <=> InQueues(delayq', s, t)
<1>1. /\ \A s, t : InUnder(s, t)' <=> Before(Underway', s, t)
      /\ \A s, t : InSup(s, t)' <=> InQueues(supprq', s, t)
      /\ \A s, t : InDel(s, t)' <=> InQueues(delayq', s, t)
  BY DEF InUnder, InSup, InDel, InQueues, Before
<1>2. \A s, t : InRet(s, t)' <=> RetBefore(sig', s, t)
  BY DEF InRet, RetBefore, RetIn
<1>3. Sup' = Members(supprq') /\ Del' = Members(delayq') /\ Ret' = Returning(sig')
  BY DEF Sup, Del, Ret, Members, Returning, RetIn, ToSet
<1>4. /\ Cur' = {s \in ToSet(Underway') : pkt'[s].gen = fw'[pkt'[s].e].gen}
      /\ Sta' = {s \in ToSet(Underway') : pkt'[s].gen # fw'[pkt'[s].e].gen}
  BY DEF Cur, Sta, ToSet
<1>5. QED
  BY <1>1, <1>2, <1>3, <1>4

-----------------------------------------------------------------------------
(* What a step does to a place and to the order in it.                       *)
LEMMA AppendedSet == ASSUME NEW S, NEW q \in Seq(S), NEW s \in S
  PROVE  Append(q, s) \in Seq(S) /\ \A x \in ToSet(Append(q, s)) : x \in ToSet(q) \/ x = s
<1>1. /\ Append(q, s) \in Seq(S) /\ Len(Append(q, s)) = Len(q) + 1 /\ Append(q, s)[Len(q) + 1] = s
      /\ \A i \in 1..Len(q) + 1 : i # Len(q) + 1 => i \in 1..Len(q) /\ Append(q, s)[i] = q[i]
  OBVIOUS
<1>2. \A r \in Seq(S) : \A x : x \in ToSet(r) <=> \E i \in 1..Len(r) : r[i] = x
  BY AsSet
<1>3. \A x \in ToSet(Append(q, s)) : \E i \in 1..Len(q) + 1 : Append(q, s)[i] = x
  BY <1>1, <1>2
<1>4. \A i \in 1..Len(q) : q[i] \in ToSet(q)
  BY <1>2
<1>5. QED
  BY <1>1, <1>3, <1>4

LEMMA BackedSet == ASSUME NEW S, NEW q \in Seq(S), NEW s \in S
  PROVE  Back(q, s) \in Seq(S) /\ \A x \in ToSet(Back(q, s)) : x \in ToSet(q) \/ x = s
<1>1. /\ Back(q, s) \in Seq(S) /\ Len(Back(q, s)) = Len(q) + 1 /\ Back(q, s)[1] = s
      /\ \A i \in 1..Len(q) + 1 : i # 1 => i - 1 \in 1..Len(q) /\ Back(q, s)[i] = q[i - 1]
  BY DEF Back
<1>2. \A r \in Seq(S) : \A x : x \in ToSet(r) <=> \E i \in 1..Len(r) : r[i] = x
  BY AsSet
<1>3. QED
  BY <1>1, <1>2

LEMMA QueuesChanged == ASSUME NEW q \in Queues, NEW r, NEW e0 \in Entry, NEW f0 \in Fifo, NEW z,
                              Changed(r, q, e0, f0, z), NEW x, NEW y
  PROVE  /\ InQueues(r, x, y) => InQueues(q, x, y) \/ Before(z, x, y)
         /\ x \in Members(r) => x \in Members(q) \/ x \in ToSet(z)
         /\ Before(q[e0][f0], x, y) => InQueues(q, x, y)
         /\ x \in Slot /\ x \in ToSet(q[e0][f0]) => x \in Members(q)
<1>1. ASSUME InQueues(r, x, y) PROVE InQueues(q, x, y) \/ Before(z, x, y)
  <2>1. PICK e \in Entry, f \in Fifo : Before(r[e][f], x, y)
    BY <1>1 DEF InQueues
  <2>2. QED
    BY <2>1 DEF Changed, InQueues
<1>2. ASSUME x \in Members(r) PROVE x \in Members(q) \/ x \in ToSet(z)
  BY <1>2 DEF Members, Changed
<1>3. QED
  BY <1>1, <1>2 DEF InQueues, Members

\* A queue of r is as in q, but for the packets of S; a packet joins it last, or
\* first, or its head leaves.
Within(r, q, S) == /\ \A x \in Members(r) : x \in S \/ x \in Members(q)
                   /\ \A x, y : x \notin S /\ y \notin S /\ InQueues(r, x, y) => InQueues(q, x, y)
JoinsLast(r, q, s) == Within(r, q, {s}) /\ \A y : InQueues(r, s, y) => y = s \/ InQueues(q, s, y)
JoinsFirst(r, q, s) == Within(r, q, {s}) /\ \A x : InQueues(r, x, s) => x = s \/ InQueues(q, x, s)
Leads(r, q, e, f) == /\ Within(r, q, {})
                     /\ \A y \in ToSet(r[e][f]) : InQueues(q, Head(q[e][f]), y)

LEMMA QueueTaken == ASSUME NEW q \in Queues, NEW e \in Entry, NEW f \in Fifo, q[e][f] # <<>>,
                           NEW state, Filed(q, state), NEW r, r = [q EXCEPT ![e][f] = Tail(@)]
  PROVE  Leads(r, q, e, f)
<1>1. Changed(r, q, e, f, Tail(q[e][f]))
  <2>1. q[e][f] \in Seq(Slot) /\ Tail(q[e][f]) \in Seq(Slot)
    BY QueueOf
  <2>2. QED
    BY <2>1, Refiled
<1>2. q[e][f] \in Seq(Slot) /\ Once(q[e][f])
  BY QueueOf, FiledAt
<1>3. /\ \A x, y : Before(Tail(q[e][f]), x, y) => Before(q[e][f], x, y)
      /\ \A y \in ToSet(Tail(q[e][f])) : Before(q[e][f], Head(q[e][f]), y)
      /\ ToSet(Tail(q[e][f])) \subseteq ToSet(q[e][f])
  BY <1>2, BeforeTail, OnceTail
<1>4. r[e][f] = Tail(q[e][f])
  BY <1>1 DEF Changed
<1>5. ToSet(q[e][f]) \subseteq Slot
  BY QueueOf
<1>6. /\ \A x, y : InQueues(r, x, y) => InQueues(q, x, y) \/ Before(Tail(q[e][f]), x, y)
      /\ \A x : x \in Members(r) => x \in Members(q) \/ x \in ToSet(Tail(q[e][f]))
      /\ \A x, y : Before(q[e][f], x, y) => InQueues(q, x, y)
      /\ \A x : x \in Slot /\ x \in ToSet(q[e][f]) => x \in Members(q)
  BY <1>1, QueuesChanged
<1>7. QED
  BY <1>3, <1>4, <1>5, <1>6 DEF Leads, Within

\* A packet joins a queue at the end.
LEMMA QueueAppended == ASSUME NEW q \in Queues, NEW e \in Entry, NEW f \in Fifo, NEW s \in Slot,
                              NEW r, r = [q EXCEPT ![e][f] = Append(@, s)]
  PROVE  JoinsLast(r, q, s)
<1> DEFINE z == Append(q[e][f], s)
<1>1. q[e][f] \in Seq(Slot) /\ ToSet(q[e][f]) \subseteq Slot
  BY QueueOf
<1>2. z \in Seq(Slot) /\ \A x : x \in ToSet(z) => x \in ToSet(q[e][f]) \/ x = s
  BY <1>1, AppendedSet
<1>3. \A x, y : Before(z, x, y) => Before(q[e][f], x, y) \/ y = s
  BY <1>1, BeforeAppend
<1>4. r = [q EXCEPT ![e][f] = z]
  OBVIOUS
<1> HIDE DEF z
<1>5. Changed(r, q, e, f, z)
  <2>1. Changed([q EXCEPT ![e][f] = z], q, e, f, z)
    BY <1>2, Refiled
  <2>2. QED
    BY <1>4, <2>1, Zenon
<1>6. /\ \A x, y : InQueues(r, x, y) => InQueues(q, x, y) \/ Before(z, x, y)
      /\ \A x : x \in Members(r) => x \in Members(q) \/ x \in ToSet(z)
      /\ \A x, y : Before(q[e][f], x, y) => InQueues(q, x, y)
      /\ \A x : x \in Slot /\ x \in ToSet(q[e][f]) => x \in Members(q)
  BY <1>5, QueuesChanged
<1>7. QED
  BY <1>1, <1>2, <1>3, <1>6 DEF JoinsLast, Within

\* A packet goes back to the front of a queue.
LEMMA QueueBacked == ASSUME NEW q \in Queues, NEW e \in Entry, NEW f \in Fifo, NEW s \in Slot,
                              NEW r, r = [q EXCEPT ![e][f] = Back(@, s)]
  PROVE  JoinsFirst(r, q, s)
<1> DEFINE z == Back(q[e][f], s)
<1>1. q[e][f] \in Seq(Slot) /\ ToSet(q[e][f]) \subseteq Slot
  BY QueueOf
<1>2. z \in Seq(Slot) /\ \A x : x \in ToSet(z) => x \in ToSet(q[e][f]) \/ x = s
  BY <1>1, BackedSet
<1>3. \A x, y : Before(z, x, y) => Before(q[e][f], x, y) \/ x = s
  BY <1>1, BeforeBack
<1>4. r = [q EXCEPT ![e][f] = z]
  OBVIOUS
<1> HIDE DEF z
<1>5. Changed(r, q, e, f, z)
  <2>1. Changed([q EXCEPT ![e][f] = z], q, e, f, z)
    BY <1>2, Refiled
  <2>2. QED
    BY <1>4, <2>1, Zenon
<1>6. /\ \A x, y : InQueues(r, x, y) => InQueues(q, x, y) \/ Before(z, x, y)
      /\ \A x : x \in Members(r) => x \in Members(q) \/ x \in ToSet(z)
      /\ \A x, y : Before(q[e][f], x, y) => InQueues(q, x, y)
      /\ \A x : x \in Slot /\ x \in ToSet(q[e][f]) => x \in Members(q)
  BY <1>5, QueuesChanged
<1>7. QED
  BY <1>1, <1>2, <1>3, <1>6 DEF JoinsFirst, Within

\* The packets underway, after a step.
LEMMA UnderwayTail == ASSUME Core, bus # <<>>, bus' = Tail(bus), wk' = wk
  PROVE  /\ Underway # <<>> /\ Head(Underway) = Head(bus) /\ Underway' = Tail(Underway)
         /\ Head(bus) \in Slot
<1>1. bus \in Seq(Slot) /\ (wk.at = "hand" => wk.slot \in Slot)
  BY DEF Core, Types
<1>2. CASE wk.at = "hand"
  <2>1. Underway = Append(bus, wk.slot) /\ Underway' = Append(Tail(bus), wk.slot)
    BY <1>2 DEF Underway
  <2>2. \A s \in Slot : /\ Append(bus, s) # <<>> /\ Head(Append(bus, s)) = Head(bus)
                        /\ Tail(Append(bus, s)) = Append(Tail(bus), s)
    BY <1>1
  <2>3. QED
    BY <1>1, <1>2, <2>1, <2>2
<1>3. CASE wk.at # "hand"
  BY <1>1, <1>3 DEF Underway
<1>4. QED
  BY <1>2, <1>3

LEMMA UnderwayLess == ASSUME Core, bus # <<>>, bus' = Tail(bus), wk' = wk
  PROVE  /\ \A x, y : Before(Underway', x, y) => InUnder(x, y)
         /\ ToSet(Underway') \subseteq Cur \cup Sta /\ Head(bus) \in Cur \cup Sta
         /\ \A y \in ToSet(Underway') : InUnder(Head(bus), y)
<1>1. /\ Underway # <<>> /\ Head(Underway) = Head(bus) /\ Underway' = Tail(Underway)
      /\ Underway \in Seq(Slot) /\ Once(Underway) /\ ToSet(Underway) = Cur \cup Sta
  BY UnderwayTail, UnderwayIs
<1>2. /\ Head(Underway) \in ToSet(Underway) /\ ToSet(Tail(Underway)) \subseteq ToSet(Underway)
      /\ \A x, y : Before(Tail(Underway), x, y) => Before(Underway, x, y)
      /\ \A y \in ToSet(Tail(Underway)) : Before(Underway, Head(Underway), y)
  BY <1>1, OnceTail, BeforeTail
<1>3. QED
  BY <1>1, <1>2 DEF InUnder

LEMMA UnderwaySame == ASSUME Core, Underway' = Underway
  PROVE  ToSet(Underway') \subseteq Cur \cup Sta /\ \A x, y : Before(Underway', x, y) => InUnder(x, y)
  BY UnderwayIs DEF InUnder

LEMMA UnderwayMore == ASSUME Core, wk.at # "hand", wk'.at = "hand", bus' = bus, NEW s \in Slot, wk'.slot = s
  PROVE  /\ \A x \in ToSet(Underway') : x = s \/ x \in Cur \cup Sta
         /\ \A x, y : Before(Underway', x, y) => InUnder(x, y) \/ y = s
<1>1. /\ Underway' = Append(Underway, s) /\ Underway \in Seq(Slot)
      /\ ToSet(Underway) = Cur \cup Sta
  BY UnderwayIs DEF Underway
<1>2. /\ \A x \in ToSet(Append(Underway, s)) : x \in ToSet(Underway) \/ x = s
      /\ \A x, y : Before(Append(Underway, s), x, y) => Before(Underway, x, y) \/ y = s
  BY <1>1, AppendedSet, BeforeAppend
<1>3. QED
  BY <1>1, <1>2 DEF InUnder

LEMMA UnderwayBack == ASSUME Core, wk.at = "hand", wk'.at # "hand", bus' = bus
  PROVE  /\ wk.slot \in Cur \cup Sta
         /\ \A x, y : Before(Underway', x, y) => InUnder(x, y)
         /\ \A x \in ToSet(Underway') : x \in Cur \cup Sta /\ x # wk.slot /\ InUnder(x, wk.slot)
<1>1. /\ Underway' = bus /\ Underway = Append(bus, wk.slot) /\ bus \in Seq(Slot)
      /\ wk.slot \in Slot /\ wk.slot \notin ToSet(bus) /\ Hand = {wk.slot}
  BY DEF Underway, Core, Types, Flights, Hand
<1>2. ToSet(Underway) = Hand \cup ToSet(bus) /\ ToSet(Underway) = Cur \cup Sta
  BY UnderwayIs
<1>3. \A x, y : Before(Append(bus, wk.slot), x, y) <=>
                  Before(bus, x, y) \/ (y = wk.slot /\ x \in ToSet(bus))
  BY <1>1, BeforeAppend
<1>4. QED
  BY <1>1, <1>2, <1>3 DEF InUnder

-----------------------------------------------------------------------------
(* A step moves the packets of S, and of e no other: the rest stay in their  *)
(* place and order, or leave.                                                *)
Alive == Cur \cup Sta \cup Sup \cup Ret \cup Del
Moves(e, S) ==
  /\ \A x \in Slot \ S : pkt'[x].e = e =>
       /\ (x \in Cur' => x \in Cur) /\ (x \in Sta' => x \in Sta) /\ (x \in Sup' => x \in Sup)
       /\ (x \in Ret' => x \in Ret) /\ (x \in Del' => x \in Del)
       /\ x \in Alive' => pkt[x].e = e /\ pkt'[x].f = pkt[x].f /\ pkt'[x].n = pkt[x].n
  /\ \A x, y \in Slot \ S :
       /\ (InUnder(x, y)' => InUnder(x, y)) /\ (InRet(x, y)' => InRet(x, y))
       /\ (InSup(x, y)' => InSup(x, y)) /\ (InDel(x, y)' => InDel(x, y))

LEMMA PrecedesAlive == ASSUME Placed, NEW x, NEW y, Precedes(x, y) PROVE x \in Alive /\ y \in Alive
  BY DEF Placed, Precedes, Alive

LEMMA PrecedesNext == ASSUME NEW x, NEW y PROVE
  /\ Precedes(x, y)' <=>
       \/ x \in Cur' /\ y \in Sup' \cup Ret' \cup Sta' \cup Del'
       \/ x \in Sup' /\ y \in Ret' \cup Sta' \cup Del'
       \/ x \in Ret' /\ y \in Sta' \cup Del'
       \/ x \in Sta' /\ y \in Del'
       \/ InUnder(x, y)' /\ ((x \in Cur' /\ y \in Cur') \/ (x \in Sta' /\ y \in Sta'))
       \/ InRet(x, y)' \/ InSup(x, y)' \/ InDel(x, y)'
  /\ SameRun(x, y)' <=> pkt'[x].e = pkt'[y].e /\ pkt'[x].f = pkt'[y].f
  /\ Alive' = Cur' \cup Sta' \cup Sup' \cup Ret' \cup Del'
<1>1. Precedes(x, y)' <=>
       \/ x \in Cur' /\ y \in Sup' \cup Ret' \cup Sta' \cup Del'
       \/ x \in Sup' /\ y \in Ret' \cup Sta' \cup Del'
       \/ x \in Ret' /\ y \in Sta' \cup Del'
       \/ x \in Sta' /\ y \in Del'
       \/ InUnder(x, y)' /\ ((x \in Cur' /\ y \in Cur') \/ (x \in Sta' /\ y \in Sta'))
       \/ InRet(x, y)' \/ InSup(x, y)' \/ InDel(x, y)'
  BY DEF Precedes
<1>2. SameRun(x, y)' <=> pkt'[x].e = pkt'[y].e /\ pkt'[x].f = pkt'[y].f
  BY DEF SameRun
<1>3. Alive' = Cur' \cup Sta' \cup Sup' \cup Ret' \cup Del'
  BY DEF Alive
<1>4. QED
  BY <1>1, <1>2, <1>3

\* The order of e is kept when what is moved comes to its right place.
LEMMA OrderMoves == ASSUME Core, Core', NEW e, Order(e), NEW S, Moves(e, S),
    \A x, y \in Slot : pkt'[x].e = e /\ SameRun(x, y)' /\ Precedes(x, y)' /\ (x \in S \/ y \in S)
                         => pkt'[x].n < pkt'[y].n
  PROVE Order(e)'
<1> SUFFICES ASSUME NEW x \in Slot, NEW y \in Slot, pkt'[x].e = e, SameRun(x, y)', Precedes(x, y)'
             PROVE  pkt'[x].n < pkt'[y].n
  BY DEF Order
<1>1. CASE x \in S \/ y \in S
  BY <1>1
<1>2. CASE x \notin S /\ y \notin S
  <2>1. Placed' /\ Placed
    BY PlacedIs, PlacedNext
  <2>2. x \in Alive' /\ y \in Alive' /\ pkt'[y].e = e
    <3>1. pkt'[y].e = e
      BY PrecedesNext
    <3>2. x \in Alive' /\ y \in Alive'
      BY <2>1, PrecedesNext DEF Placed
    <3>3. QED
      BY <3>1, <3>2
  <2>3. /\ pkt[x].e = e /\ pkt'[x].f = pkt[x].f /\ pkt'[x].n = pkt[x].n
        /\ pkt[y].e = e /\ pkt'[y].f = pkt[y].f /\ pkt'[y].n = pkt[y].n
    BY <1>2, <2>2 DEF Moves
  <2>4. SameRun(x, y)
    BY <2>2, <2>3, PrecedesNext DEF SameRun
  <2>5. Precedes(x, y)
    BY <1>2, <2>2, PrecedesNext DEF Moves, Precedes
  <2>6. QED
    BY <2>3, <2>4, <2>5 DEF Order
<1>3. QED
  BY <1>1, <1>2

\* And the bounds.
LEMMA BoundsMoves == ASSUME Core, Core', NEW e \in Entry, Bounds(e), NEW S, Moves(e, S),
    air'[e] = air[e], \A f \in Fifo : pktSeq[e][f] <= pktSeq'[e][f],
    \A x \in S : x \in Alive' /\ pkt'[x].e = e =>
      /\ air[e][pkt'[x].f] < pkt'[x].n /\ pkt'[x].n <= pktSeq'[e][pkt'[x].f]
  PROVE Bounds(e)'
<1>1. /\ \A f \in Fifo : air[e][f] \in Nat /\ pktSeq[e][f] \in Nat /\ pktSeq'[e][f] \in Nat
      /\ \A x \in Slot : pkt[x].n \in Nat /\ pkt'[x].n \in Nat
  <2>1. /\ air \in [Entry -> [Fifo -> Nat]] /\ pktSeq \in [Entry -> [Fifo -> Nat]]
        /\ pktSeq' \in [Entry -> [Fifo -> Nat]]
    BY DEF Core, Types
  <2>2. pkt \in [Slot -> Packets] /\ pkt' \in [Slot -> Packets]
    BY DEF Core, Types
  <2>3. QED
    BY <2>1, <2>2 DEF Packets
<1>2. \A f \in Fifo : air'[e][f] <= pktSeq'[e][f]
  BY <1>1 DEF Bounds
<1>3. ASSUME NEW x \in Alive', pkt'[x].e = e
      PROVE  air'[e][pkt'[x].f] < pkt'[x].n /\ pkt'[x].n <= pktSeq'[e][pkt'[x].f]
  <2>1. x \in Slot /\ pkt'[x].f \in Fifo
    BY <1>3, PlacedNext, PrecedesNext DEF Placed
  <2>2. CASE x \in S
    BY <1>3, <2>2
  <2>3. CASE x \notin S
    <3>1. /\ x \in Alive /\ pkt[x].e = e /\ pkt'[x].f = pkt[x].f /\ pkt'[x].n = pkt[x].n
      BY <1>3, <2>1, <2>3, PrecedesNext DEF Moves, Alive
    <3>2. air[e][pkt[x].f] < pkt[x].n /\ pkt[x].n <= pktSeq[e][pkt[x].f]
      BY <3>1 DEF Bounds, Alive
    <3>3. QED
      BY <1>1, <2>1, <3>1, <3>2
  <2>4. QED
    BY <2>2, <2>3
<1>4. QED
  BY <1>2, <1>3 DEF Bounds, Alive

\* A step moves S when no other packet comes to another place.
Unmoved(x) == /\ pkt'[x].e = pkt[x].e /\ pkt'[x].f = pkt[x].f /\ pkt'[x].n = pkt[x].n
              /\ pkt'[x].gen = pkt[x].gen
LEMMA MovesBut == ASSUME Core, Core', NEW e, NEW S,
    \A x : x \in ToSet(Underway') /\ x \notin S => x \in Cur \cup Sta,
    \A x : x \in Returning(sig') /\ x \notin S => x \in Ret,
    \A x : x \in Members(supprq') /\ x \notin S => x \in Sup,
    \A x : x \in Members(delayq') /\ x \notin S => x \in Del,
    \A x, y : x \notin S /\ y \notin S =>
      /\ (Before(Underway', x, y) => InUnder(x, y)) /\ (RetBefore(sig', x, y) => InRet(x, y))
      /\ (InQueues(supprq', x, y) => InSup(x, y)) /\ (InQueues(delayq', x, y) => InDel(x, y)),
    \A x \in InFlight' \cup InQueue' : x \notin S => Unmoved(x),
    fw'[e].gen = fw[e].gen
  PROVE Moves(e, S)
<1>1. ASSUME NEW x \in Slot, x \notin S, pkt'[x].e = e
      PROVE /\ (x \in Cur' => x \in Cur) /\ (x \in Sta' => x \in Sta) /\ (x \in Sup' => x \in Sup)
            /\ (x \in Ret' => x \in Ret) /\ (x \in Del' => x \in Del)
            /\ x \in Alive' => pkt[x].e = e /\ pkt'[x].f = pkt[x].f /\ pkt'[x].n = pkt[x].n
  <2>1. x \in Alive' => x \in InFlight' \cup InQueue'
    BY PlacedNext, PrecedesNext DEF Placed
  <2>2. x \in Alive' => Unmoved(x)
    BY <1>1, <2>1
  <2>3. x \in Alive' => pkt[x].e = e /\ pkt'[x].f = pkt[x].f /\ pkt'[x].n = pkt[x].n
    BY <1>1, <2>2 DEF Unmoved
  <2>4. (x \in Sup' => x \in Sup) /\ (x \in Ret' => x \in Ret) /\ (x \in Del' => x \in Del)
    BY <1>1, ViewNext
  <2>5. (x \in Cur' => x \in Cur) /\ (x \in Sta' => x \in Sta)
    <3> SUFFICES ASSUME x \in Cur' \cup Sta' PROVE (x \in Cur' => x \in Cur) /\ (x \in Sta' => x \in Sta)
      OBVIOUS
    <3>1. pkt[x].e = e /\ pkt'[x].gen = pkt[x].gen
      BY <2>2, <2>3, PrecedesNext DEF Unmoved
    <3>2. x \in ToSet(Underway)
      BY <1>1, ViewNext, UnderwayIs
    <3>3. x \in Cur' => pkt'[x].gen = fw'[e].gen
      BY <1>1, ViewNext
    <3>4. x \in Sta' => pkt'[x].gen # fw'[e].gen
      BY <1>1, ViewNext
    <3>5. QED
      BY <3>1, <3>2, <3>3, <3>4 DEF Cur, Sta
  <2>6. QED
    BY <2>3, <2>4, <2>5
<1>2. ASSUME NEW x \in Slot \ S, NEW y \in Slot \ S
      PROVE  /\ (InUnder(x, y)' => InUnder(x, y)) /\ (InRet(x, y)' => InRet(x, y))
             /\ (InSup(x, y)' => InSup(x, y)) /\ (InDel(x, y)' => InDel(x, y))
  BY <1>2, ViewNext
<1>3. QED
  BY <1>1, <1>2 DEF Moves

-----------------------------------------------------------------------------
(* What a step does to a descriptor.                                         *)
Kin(y, x) == y.occupied = x.occupied /\ y.open = x.open /\ y.gen = x.gen

LEMMA EntTypes == ASSUME Core
  PROVE  /\ ent \in [Entry -> Descriptors]
         /\ \A x \in Entry : ent[x] \in Descriptors /\ ent[x].transit \in Int /\ ent[x].supprTransit \in Int
                             /\ ent[x].suppressed \in BOOLEAN /\ ent[x].gen \in 0..1
                             /\ ent[x].open \in BOOLEAN /\ ent[x].occupied \in BOOLEAN
                             /\ ent[x].request \in Nat
  BY DEF Core, Types, Descriptors

LEMMA EntVain == ASSUME Core, NEW f, ent' = ent \/ ent' = Recovered(Vain(f)), NEW x \in Entry
  PROVE  /\ Kin(ent'[x], ent[x])
         /\ ent'[x].transit = ent[x].transit /\ ent'[x].supprTransit = ent[x].supprTransit
         /\ ent'[x].suppressed => ent[x].suppressed
         /\ ent[x].suppressed /\ ~ent'[x].suppressed => ent[x].supprTransit = 0
<1>1. ent \in [Entry -> Descriptors] /\ ent[x] \in Descriptors
  BY EntTypes
<1>2. CASE ent' = ent
  BY <1>2 DEF Kin
<1>3. CASE ent' = Recovered(Vain(f))
  <2>1. ent'[x] = [ent[x] EXCEPT !.suppressed = ent[x].suppressed /\ x \notin Vain(f)]
    BY <1>1, <1>3, RecoveredIs
  <2>2. x \in Vain(f) => ent[x].supprTransit = 0
    BY DEF Vain
  <2>3. QED
    BY <1>1, <2>1, <2>2 DEF Kin, Descriptors
<1>4. QED
  BY <1>2, <1>3

LEMMA KinOut == ASSUME NEW s, pkt[s].e \in Entry, NEW en \in [Entry -> Descriptors], NEW x \in Entry
  PROVE  Kin(ReqBack(Out(en, s), s)[x], en[x])
<1>1. Out(en, s) \in [Entry -> Descriptors]
  BY OutIs
<1>2. AsideRequest(ReqBack(Out(en, s), s)[x], Out(en, s)[x])
  BY <1>1, ReqBackIs
<1>3. en[x] \in Descriptors
  OBVIOUS
<1>4. Kin(Out(en, s)[x], en[x])
  <2>1. \A y \in Entry : Out(en, s)[y] =
              IF y = pkt[s].e
              THEN [en[y] EXCEPT !.transit = en[y].transit - 1,
                      !.supprTransit = IF en[y].suppressed /\ en[y].supprTransit > 0
                                       THEN en[y].supprTransit - 1 ELSE en[y].supprTransit]
              ELSE en[y]
    BY OutIs, Zenon
  <2>2. QED
    BY <1>3, <2>1 DEF Kin, Descriptors
<1>5. QED
  BY <1>2, <1>4 DEF Kin, AsideRequest

LEMMA EntOut == ASSUME Core, NEW s \in InFlight, ent' = ReqBack(Out(ent, s), s), NEW x \in Entry
  PROVE  /\ Kin(ent'[x], ent[x])
         /\ IF pkt[s].e = x THEN Down(ent'[x], ent[x]) ELSE Alike(ent'[x], ent[x])
<1>1. ent \in [Entry -> Descriptors] /\ pkt[s].e \in Entry
  BY EntTypes, FlightPkt
<1>2. Kin(ent'[x], ent[x])
  BY <1>1, KinOut
<1>3. IF pkt[s].e = x THEN Down(ent'[x], ent[x]) ELSE Alike(ent'[x], ent[x])
  BY <1>1, BackedDown
<1>4. QED
  BY <1>2, <1>3

\* A suppressed destination waits for one packet less; one that was not waits
\* from now on for all that are on their way.
Expecting(y, x) ==
  /\ y.occupied = x.occupied /\ y.open = x.open /\ y.suppressed /\ y.transit = x.transit - 1
  /\ y.supprTransit = IF ~x.suppressed THEN x.transit - 1
                      ELSE IF x.supprTransit > 0 THEN x.supprTransit - 1 ELSE x.supprTransit

LEMMA EntSuppressed == ASSUME Core, StatusSuppressed, NEW s, s = Head(sig).s, s \in InFlight, NEW x \in Entry
  PROVE  /\ x # pkt[s].e => Kin(ent'[x], ent[x]) /\ Alike(ent'[x], ent[x])
         /\ x = pkt[s].e => Expecting(ent'[x], ent[x]) /\ ent'[x].gen = Head(sig).gen
<1>1. ent \in [Entry -> Descriptors] /\ pkt[s].e \in Entry
  BY EntTypes, FlightPkt
<1>2. ent' = Counted(s, Head(sig).gen) /\ Head(sig).gen \in 0..1
  <2>1. sig \in Seq(Signals) /\ sig # <<>> /\ Head(sig).m = "suppressed"
    BY DEF Core, Types, StatusSuppressed, Got
  <2>2. Head(sig) \in Signals
    BY <2>1
  <2>3. Head(sig).gen \in 0..1
    BY <2>2 DEF Signals
  <2>4. QED
    BY <2>3, SuppressedIs
<1>3. /\ x # pkt[s].e => ent'[x] = Backed(s)[x]
      /\ Suppresses(ent'[pkt[s].e], Backed(s)[pkt[s].e], Head(sig).gen)
  BY <1>1, <1>2, CountedIs
<1>4. /\ Kin(Backed(s)[x], ent[x])
      /\ Down(Backed(s)[pkt[s].e], ent[pkt[s].e]) /\ (x # pkt[s].e => Alike(Backed(s)[x], ent[x]))
  BY <1>1, KinOut, BackedDown DEF Backed
<1>5. QED
  BY <1>3, <1>4 DEF Kin, Alike, Down, Suppresses, Expecting

LEMMA EntRefused == ASSUME Core, WorkRefused, NEW s, s = wk.slot, s \in InFlight, NEW x \in Entry
  PROVE  /\ Kin(ent'[x], ent[x]) /\ ent'[x].suppressed = ent[x].suppressed
         /\ x # pkt[s].e => Alike(ent'[x], ent[x])
         /\ x = pkt[s].e => ent'[x].transit = ent[x].transit - (IF Fits(s) THEN 1 ELSE 2)
         /\ x = pkt[s].e /\ Fits(s) =>
              ent'[x].supprTransit = ent[x].supprTransit - (IF ent[x].suppressed THEN 1 ELSE 0)
<1>1. ent \in [Entry -> Descriptors] /\ pkt[s].e \in Entry /\ ent[x] \in Descriptors
  BY EntTypes, FlightPkt
<1>2. /\ Rolled(s) \in [Entry -> Descriptors] /\ Kin(Rolled(s)[x], ent[x])
      /\ Rolled(s)[x].suppressed = ent[x].suppressed
      /\ Rolled(s)[x].transit = ent[x].transit - (IF x = pkt[s].e THEN 1 ELSE 0)
      /\ Rolled(s)[x].supprTransit =
           ent[x].supprTransit - (IF x = pkt[s].e /\ ent[x].suppressed THEN 1 ELSE 0)
  <2>1. /\ Rolled(s) \in [Entry -> Descriptors]
        /\ Rolled(s)[x] =
              IF x = pkt[s].e
              THEN [ent[x] EXCEPT !.transit = ent[x].transit - 1,
                      !.supprTransit = IF ent[x].suppressed THEN ent[x].supprTransit - 1
                                       ELSE ent[x].supprTransit]
              ELSE ent[x]
    BY <1>1, RolledIs
  <2>2. QED
    BY <1>1, <2>1 DEF Kin, Descriptors
<1>3. CASE Fits(s)
  <2>1. ent' = ReqBack(Rolled(s), s)
    BY <1>3, RefusedIs
  <2>2. AsideRequest(ent'[x], Rolled(s)[x])
    BY <1>1, <1>2, <2>1, ReqBackIs
  <2>3. QED
    BY <1>1, <1>2, <1>3, <2>2 DEF Kin, Alike, AsideRequest, Descriptors
<1>4. CASE ~Fits(s)
  <2>1. ent' = ReqBack(Out(Rolled(s), s), s)
    BY <1>4, RefusedIs
  <2>2. /\ Kin(ent'[x], Rolled(s)[x])
        /\ x = pkt[s].e => Down(ent'[x], Rolled(s)[x])
        /\ x # pkt[s].e => Alike(ent'[x], Rolled(s)[x])
    BY <1>1, <1>2, <2>1, KinOut, BackedDown
  <2>3. QED
    BY <1>1, <1>2, <1>4, <2>2 DEF Kin, Alike, Down, Descriptors
<1>5. QED
  BY <1>3, <1>4

LEMMA HeadIs == ASSUME Core, sig # <<>>
  PROVE  /\ sig \in Seq(Signals) /\ Head(sig) \in Signals /\ Head(sig).e \in Entry
         /\ Head(sig).gen \in 0..1
<1>1. sig \in Seq(Signals)
  BY DEF Core, Types
<1>2. Head(sig) \in Signals
  BY <1>1
<1>3. QED
  BY <1>1, <1>2 DEF Signals

LEMMA EntMac == ASSUME Core, NEW m, MacState(m) \/ MacRequest \/ MacDel, NEW x \in Entry
  PROVE  /\ Alike(ent'[x], ent[x]) /\ ent'[x].gen = ent[x].gen
         /\ x # Head(sig).e => Kin(ent'[x], ent[x])
         /\ MacRequest => Kin(ent'[x], ent[x])
         /\ MacState(m) => /\ ent'[x].occupied = ent[x].occupied
                           /\ x = Head(sig).e /\ ent[x].occupied => ent'[x].open = (m = "open")
         /\ MacDel /\ x = Head(sig).e => ~ent'[x].occupied /\ ~ent'[x].open
<1>1. ent \in [Entry -> Descriptors] /\ ent[x] \in Descriptors /\ Head(sig).e \in Entry
  BY EntTypes, HeadIs DEF MacState, MacRequest, MacDel, Got
<1>2. ASSUME MacState(m)
      PROVE  /\ Alike(ent'[x], ent[x]) /\ ent'[x].gen = ent[x].gen
             /\ x # Head(sig).e => Kin(ent'[x], ent[x])
             /\ ent'[x].occupied = ent[x].occupied
             /\ x = Head(sig).e /\ ent[x].occupied => ent'[x].open = (m = "open")
  <2>1. ent' = IF ent[Head(sig).e].occupied
               THEN [ent EXCEPT ![Head(sig).e].open = (m = "open"), ![Head(sig).e].request = 0] ELSE ent
    BY <1>2 DEF MacState
  <2>2. QED
    BY <1>1, <2>1 DEF Alike, Kin, Descriptors
<1>3. ASSUME MacRequest PROVE Alike(ent'[x], ent[x]) /\ Kin(ent'[x], ent[x])
  <2>1. ent' = IF ent[Head(sig).e].occupied THEN [ent EXCEPT ![Head(sig).e].request = 1] ELSE ent
    BY <1>3 DEF MacRequest
  <2>2. QED
    BY <1>1, <2>1 DEF Alike, Kin, Descriptors
<1>4. ASSUME MacDel
      PROVE  /\ Alike(ent'[x], ent[x]) /\ ent'[x].gen = ent[x].gen
             /\ x # Head(sig).e => Kin(ent'[x], ent[x])
             /\ x = Head(sig).e => ~ent'[x].occupied /\ ~ent'[x].open
  <2>1. ent' = [ent EXCEPT ![Head(sig).e].occupied = FALSE, ![Head(sig).e].open = FALSE,
                           ![Head(sig).e].request = 0]
    BY <1>4 DEF MacDel
  <2>2. QED
    BY <1>1, <2>1 DEF Alike, Kin, Descriptors
<1>5. CASE MacState(m)
  <2>1. (~MacRequest /\ ~MacDel) \/ m \in {"request", "del"}
    BY <1>5 DEF MacState, MacRequest, MacDel, Got
  <2>2. QED
    BY <1>2, <1>3, <1>4, <1>5
<1>6. CASE MacRequest
  BY <1>2, <1>3, <1>4, <1>6 DEF Kin
<1>7. CASE MacDel
  BY <1>2, <1>3, <1>4, <1>7 DEF Kin
<1>8. QED
  BY <1>5, <1>6, <1>7

-----------------------------------------------------------------------------
(* What every step moves: at most one packet.                                *)
OnlyUnder(S) == /\ \A x \in ToSet(Underway') : x \in S \/ x \in Cur \cup Sta
                /\ \A x, y : x \notin S /\ y \notin S /\ Before(Underway', x, y) => InUnder(x, y)
OnlyRet(S) == /\ \A x \in Returning(sig') : x \in S \/ x \in Ret
              /\ \A x, y : x \notin S /\ y \notin S /\ RetBefore(sig', x, y) => InRet(x, y)
OnlySup(S) == /\ \A x \in Members(supprq') : x \in S \/ x \in Sup
              /\ \A x, y : x \notin S /\ y \notin S /\ InQueues(supprq', x, y) => InSup(x, y)
OnlyDel(S) == /\ \A x \in Members(delayq') : x \in S \/ x \in Del
              /\ \A x, y : x \notin S /\ y \notin S /\ InQueues(delayq', x, y) => InDel(x, y)
OnlyPkt(S) == \A x \in InFlight' \cup InQueue' : x \in S \/ pkt'[x] = pkt[x]
Only(S) == OnlyUnder(S) /\ OnlyRet(S) /\ OnlySup(S) /\ OnlyDel(S) /\ OnlyPkt(S)

LEMMA OnlyMoves == ASSUME Core, Core', NEW S, Only(S), NEW e, fw'[e].gen = fw[e].gen PROVE Moves(e, S)
<1>1. /\ \A x : x \in ToSet(Underway') /\ x \notin S => x \in Cur \cup Sta
      /\ \A x : x \in Returning(sig') /\ x \notin S => x \in Ret
      /\ \A x : x \in Members(supprq') /\ x \notin S => x \in Sup
      /\ \A x : x \in Members(delayq') /\ x \notin S => x \in Del
  BY DEF Only, OnlyUnder, OnlyRet, OnlySup, OnlyDel
<1>2. \A x, y : x \notin S /\ y \notin S =>
      /\ (Before(Underway', x, y) => InUnder(x, y)) /\ (RetBefore(sig', x, y) => InRet(x, y))
      /\ (InQueues(supprq', x, y) => InSup(x, y)) /\ (InQueues(delayq', x, y) => InDel(x, y))
  BY DEF Only, OnlyUnder, OnlyRet, OnlySup, OnlyDel
<1>3. \A x \in InFlight' \cup InQueue' : x \notin S => Unmoved(x)
  BY DEF Only, OnlyPkt, Unmoved
<1>4. QED
  BY <1>1, <1>2, <1>3, MovesBut

LEMMA UnderOnly == ASSUME Core, NEW S, Underway' = Underway PROVE OnlyUnder(S)
  BY UnderwaySame DEF OnlyUnder

LEMMA RetOnly == ASSUME Core, NEW S,
    \/ sig' = sig \/ (sig # <<>> /\ sig' = Tail(sig))
    \/ \E x \in Signals : sig' = Append(sig, x) /\ x.m # "suppressed"
  PROVE OnlyRet(S)
<1>1. sig \in Seq(Signals)
  BY DEF Core, Types
<1>2. CASE sig' = sig
  BY <1>2 DEF OnlyRet, Ret, InRet
<1>3. CASE sig # <<>> /\ sig' = Tail(sig)
  BY <1>1, <1>3, RetTail DEF OnlyRet, Ret, InRet
<1>4. CASE \E x \in Signals : sig' = Append(sig, x) /\ x.m # "suppressed"
  <2>1. PICK x \in Signals : sig' = Append(sig, x) /\ x.m # "suppressed"
    BY <1>4
  <2>2. /\ Returning(sig') = Returning(sig)
        /\ \A a, b : RetBefore(sig', a, b) => RetBefore(sig, a, b)
    BY <1>1, <2>1, RetAppend
  <2>3. QED
    BY <2>2 DEF OnlyRet, Ret, InRet
<1>5. QED
  BY <1>2, <1>3, <1>4

LEMMA QueuesOnly == ASSUME NEW S
  PROVE  (supprq' = supprq => OnlySup(S)) /\ (delayq' = delayq => OnlyDel(S))
<1>1. supprq' = supprq => Members(supprq') = Sup /\ \A x, y : InQueues(supprq', x, y) => InSup(x, y)
  BY DEF Sup, InSup
<1>2. delayq' = delayq => Members(delayq') = Del /\ \A x, y : InQueues(delayq', x, y) => InDel(x, y)
  BY DEF Del, InDel
<1>3. QED
  BY <1>1, <1>2 DEF OnlySup, OnlyDel

\* The steps that move no packet.
MacSays == MacState("open") \/ MacState("close") \/ MacRequest
Unmoving ==
  \/ WorkBegin \/ WorkOwnDone \/ WorkBorrowDone \/ WorkSent \/ BusBlock \/ BusUnblock
  \/ MacSays \/ \E e \in Entry : FwStep(e)

LEMMA NotHanded == ASSUME Core
  PROVE  /\ WorkBegin \/ WorkOwnDone \/ WorkBorrowDone => wk.at # "hand" /\ wk'.at # "hand"
         /\ WorkSent \/ WorkRefused => wk.at = "hand" /\ wk'.at # "hand"
<1>1. \A f \in Fifo : /\ NextFifo(f).at # "hand" /\ \A cr : Own2(f, cr).at # "hand"
                      /\ \A a : At(a, f).at = a
  BY NextFifoIs DEF At, Core
<1>2. wk.fifo \in Fifo /\ wk.from # "hand" /\ Top \in Fifo /\ Idle.at = "idle"
  <2>1. wk.fifo \in Fifo /\ wk.from \in {"own", "borrow"}
    BY DEF Core, Types
  <2>2. QED
    BY <2>1, FwsConsts DEF Idle
<1>3. WorkBegin => wk.at # "hand" /\ wk'.at # "hand"
  BY <1>1, <1>2 DEF WorkBegin
<1>4. WorkOwnDone => wk.at # "hand" /\ wk'.at # "hand"
  BY <1>1, <1>2 DEF WorkOwnDone
<1>5. WorkBorrowDone => wk.at # "hand" /\ wk'.at # "hand"
  BY <1>1, <1>2 DEF WorkBorrowDone
<1>6. WorkSent => wk.at = "hand" /\ wk'.at # "hand"
  BY <1>1, <1>2 DEF WorkSent
<1>7. WorkRefused => wk.at = "hand" /\ wk'.at # "hand"
  BY <1>1, <1>2 DEF WorkRefused
<1>8. QED
  BY <1>3, <1>4, <1>5, <1>6, <1>7

LEMMA UnmovingIs == ASSUME Core, Unmoving
  PROVE  /\ UNCHANGED <<hanger, pkt, delayq, supprq, pktSeq, air>> /\ Underway' = Underway
         /\ \/ sig' = sig \/ (sig # <<>> /\ sig' = Tail(sig))
            \/ \E x \in Signals : sig' = Append(sig, x) /\ x.m # "suppressed"
<1>1. CASE WorkBegin \/ WorkOwnDone \/ WorkBorrowDone
  <2>1. UNCHANGED <<hanger, pkt, delayq, supprq, pktSeq, air, bus, sig>>
    BY <1>1 DEF WorkBegin, WorkOwnDone, WorkBorrowDone, qVars, pktSeqVars, fwVars
  <2>2. wk.at # "hand" /\ wk'.at # "hand"
    BY <1>1, NotHanded
  <2>3. QED
    BY <2>1, <2>2 DEF Underway
<1>2. CASE WorkSent
  <2>1. UNCHANGED <<hanger, pkt, delayq, supprq, pktSeq, air, sig>> /\ bus' = Append(bus, wk.slot)
    BY <1>2 DEF WorkSent, qVars, pktSeqVars, fwVars
  <2>2. wk.at = "hand" /\ wk'.at # "hand"
    BY <1>2, NotHanded
  <2>3. QED
    BY <2>1, <2>2 DEF Underway
<1>3. CASE BusBlock \/ BusUnblock
  <2>1. UNCHANGED <<hanger, pkt, delayq, supprq, pktSeq, air, sig, bus, wk>>
    BY <1>3 DEF BusBlock, BusUnblock, qVars, pktSeqVars, fwVars
  <2>2. QED
    BY <2>1 DEF Underway
<1>4. CASE MacSays
  <2>1. UNCHANGED <<hanger, pkt, delayq, supprq, pktSeq, air, bus, wk>>
    BY <1>4 DEF MacSays, MacState, MacRequest, qVars, pktSeqVars, fwVars
  <2>2. sig # <<>> /\ sig' = Tail(sig)
    BY <1>4 DEF MacSays, MacState, MacRequest, Got
  <2>3. QED
    BY <2>1, <2>2 DEF Underway
<1>5. CASE \E e \in Entry : FwStep(e)
  <2>0. PICK e \in Entry : FwStep(e)
    BY <1>5
  <2>1. UNCHANGED Rest /\ \E n \in {"close", "open", "request", "del"} : Signal(n, e)
    BY <2>0 DEF FwStep, FwSleep, FwWake, FwRequest, FwDel
  <2>2. UNCHANGED <<hanger, pkt, delayq, supprq, pktSeq, air, bus, wk>>
    BY <2>1 DEF Rest, qVars, pktSeqVars
  <2>3. PICK n \in {"close", "open", "request", "del"} : Signal(n, e)
    BY <2>1
  <2>4. [m |-> n, s |-> 0, e |-> e, gen |-> 0] \in Signals
    BY <2>3 DEF Signals
  <2>5. QED
    BY <2>2, <2>3, <2>4 DEF Underway, Signal
<1>6. QED
  BY <1>1, <1>2, <1>3, <1>4, <1>5 DEF Unmoving

LEMMA UnmovingOnly == ASSUME Core, Unmoving
  PROVE  Only({})
<1>1. /\ UNCHANGED <<hanger, pkt, delayq, supprq, pktSeq, air>> /\ Underway' = Underway
      /\ \/ sig' = sig \/ (sig # <<>> /\ sig' = Tail(sig))
         \/ \E x \in Signals : sig' = Append(sig, x) /\ x.m # "suppressed"
  BY UnmovingIs
<1>2. OnlyUnder({}) /\ OnlyRet({}) /\ OnlySup({}) /\ OnlyDel({}) /\ OnlyPkt({})
  BY <1>1, UnderOnly, RetOnly, QueuesOnly DEF OnlyPkt
<1>3. QED
  BY <1>2 DEF Only

-----------------------------------------------------------------------------
(* The steps that free slots move no packet either.                          *)
LEMMA FreedOnly == ASSUME Core, Core', NEW S, Freed(S) PROVE OnlyPkt({})
<1>1. /\ \A x \in Slot : x \in S => hanger'[x] = "free"
      /\ \A x \in Slot : x \notin S => pkt'[x] = pkt[x]
  BY FreedTypes DEF Core
<1>2. \A x \in InFlight' \cup InQueue' : x \in Slot /\ hanger'[x] # "free"
  BY DEF Core, Places
<1>3. QED
  BY <1>1, <1>2 DEF OnlyPkt

LEMMA LessOnly == ASSUME Core, bus # <<>>, bus' = Tail(bus), wk' = wk, NEW S PROVE OnlyUnder(S)
  BY UnderwayLess DEF OnlyUnder

LEMMA BusFailedOnly == ASSUME Core, Core', BusFailed PROVE Only({})
<1>1. /\ bus # <<>> /\ bus' = Tail(bus) /\ wk' = wk /\ sig' = sig /\ delayq' = delayq /\ supprq' = supprq
      /\ Freed({Head(bus)})
  BY DEF BusFailed, Finalize, qVars
<1>2. OnlyUnder({}) /\ OnlyRet({}) /\ OnlySup({}) /\ OnlyDel({}) /\ OnlyPkt({})
  BY <1>1, LessOnly, RetOnly, QueuesOnly, FreedOnly
<1>3. QED
  BY <1>2 DEF Only

LEMMA StatusSentOnly == ASSUME Core, Core', StatusSent PROVE Only({})
<1>1. /\ bus' = bus /\ wk' = wk /\ delayq' = delayq /\ supprq' = supprq
      /\ sig # <<>> /\ sig' = Tail(sig) /\ Freed({Head(sig).s})
  BY DEF StatusSent, Got, Finalize, qVars
<1>2. OnlyUnder({}) /\ OnlyRet({}) /\ OnlySup({}) /\ OnlyDel({}) /\ OnlyPkt({})
  BY <1>1, UnderOnly, RetOnly, QueuesOnly, FreedOnly DEF Underway
<1>3. QED
  BY <1>2 DEF Only

LEMMA WithinOnly == ASSUME NEW S
  PROVE  (Within(supprq', supprq, S) => OnlySup(S)) /\ (Within(delayq', delayq, S) => OnlyDel(S))
  BY DEF Within, OnlySup, OnlyDel, Sup, Del, InSup, InDel

LEMMA EmptiedQueues == ASSUME NEW q \in Queues, NEW e \in Entry, NEW r, r = [q EXCEPT ![e] = Empty[e]]
  PROVE  Within(r, q, {})
<1>1. /\ \A f \in Fifo : r[e][f] = <<>>
      /\ \A x \in Entry, f \in Fifo : x # e => r[x][f] = q[x][f]
  BY DEF Queues, Empty
<1>2. ToSet(<<>>) = {} /\ \A x, y : ~Before(<<>>, x, y)
  BY DEF ToSet, Before
<1>3. Members(r) \subseteq Members(q)
  BY <1>1, <1>2 DEF Members
<1>4. \A x, y : InQueues(r, x, y) => InQueues(q, x, y)
  BY <1>1, <1>2 DEF InQueues
<1>5. QED
  BY <1>3, <1>4 DEF Within

LEMMA MacDelOnly == ASSUME Core, Core', MacDel PROVE Only({})
<1>1. /\ bus' = bus /\ wk' = wk /\ sig # <<>> /\ sig' = Tail(sig)
      /\ Freed(Flushed(Head(sig).e))
      /\ delayq' = [delayq EXCEPT ![Head(sig).e] = Empty[Head(sig).e]]
      /\ supprq' = [supprq EXCEPT ![Head(sig).e] = Empty[Head(sig).e]]
  BY DEF MacDel, Got
<1>2. delayq \in Queues /\ supprq \in Queues /\ Head(sig).e \in Entry
  BY <1>1, HeadIs DEF Core, Types
<1>3. OnlySup({}) /\ OnlyDel({})
  <2>1. Within(delayq', delayq, {}) /\ Within(supprq', supprq, {})
    BY <1>1, <1>2, EmptiedQueues
  <2>2. QED
    BY <2>1, WithinOnly
<1>4. OnlyUnder({}) /\ OnlyRet({}) /\ OnlyPkt({})
  BY <1>1, UnderOnly, RetOnly, FreedOnly DEF Underway
<1>5. QED
  BY <1>3, <1>4 DEF Only

-----------------------------------------------------------------------------
(* A new packet.                                                             *)
Added(e, f, s) ==
  /\ s \in Slot /\ s \notin InFlight /\ s \notin InQueue /\ hanger[s] = "free"
  /\ hanger'[s] = "inuse" /\ \A x \in Slot : x # s => hanger'[x] = hanger[x] /\ pkt'[x] = pkt[x]
  /\ pkt'[s].e = e /\ pkt'[s].f = f /\ pkt'[s].n = pktSeq[e][f] + 1
  /\ pktSeq'[e][f] = pktSeq[e][f] + 1
  /\ \A x \in Entry, g \in Fifo : pktSeq[x][g] <= pktSeq'[x][g]
  /\ \A y : InQueues(delayq', s, y) => y = s

LEMMA SkbOnly == ASSUME Core, Core', NEW e \in Entry, NEW f \in Fifo, ProcessSkb(e, f)
  PROVE  \E s : Added(e, f, s) /\ Only({s}) /\ supprq' = supprq /\ Underway' = Underway
                /\ UNCHANGED <<ent, fw, air, sig, wk, bus>> /\ used'.sleep = used.sleep
<1>1. PICK s : s = Min(FreeSlots)
  OBVIOUS
<1>2. s \in Slot /\ s \notin InFlight /\ s \notin InQueue /\ hanger[s] = "free"
  BY <1>1, FreeIs DEF ProcessSkb
<1>3. /\ hanger' = [hanger EXCEPT ![s] = "inuse"]
      /\ pkt' = [pkt EXCEPT ![s] = [NoPkt EXCEPT !.e = e, !.f = f, !.n = pktSeq[e][f] + 1]]
      /\ \/ delayq' = [delayq EXCEPT ![e][f] = Append(@, s)]
         \/ delayq' = delayq
      /\ pktSeq' = [pktSeq EXCEPT ![e][f] = @ + 1]
      /\ used' = [used EXCEPT !.pkt = @ + 1]
      /\ UNCHANGED <<supprq, ent, wk, bus, fw, air, sig>>
  BY <1>1 DEF ProcessSkb, fwVars
<1>4. /\ hanger \in [Slot -> {"free", "inuse", "suppressed"}] /\ pkt \in [Slot -> Packets]
      /\ pktSeq \in [Entry -> [Fifo -> Nat]] /\ delayq \in Queues
      /\ used \in [pkt : Nat, sleep : Nat, refuse : Nat, other : Nat]
  BY DEF Core, Types
<1>5. hanger'[s] = "inuse" /\ \A x \in Slot : x # s => hanger'[x] = hanger[x] /\ pkt'[x] = pkt[x]
  BY <1>2, <1>3, <1>4
<1>6. pkt'[s].e = e /\ pkt'[s].f = f /\ pkt'[s].n = pktSeq[e][f] + 1
  <2>1. pkt'[s] = [NoPkt EXCEPT !.e = e, !.f = f, !.n = pktSeq[e][f] + 1]
    BY <1>2, <1>3, <1>4
  <2>2. QED
    BY <2>1 DEF NoPkt
<1>7. /\ pktSeq'[e][f] = pktSeq[e][f] + 1
      /\ \A x \in Entry, g \in Fifo : pktSeq[x][g] <= pktSeq'[x][g]
  <2>1. \A x \in Entry, g \in Fifo :
          pktSeq'[x][g] = (IF x = e /\ g = f THEN pktSeq[x][g] + 1 ELSE pktSeq[x][g])
          /\ pktSeq[x][g] \in Nat
    BY <1>3, <1>4
  <2>2. QED
    BY <2>1
<1>8. s \notin Del
  BY <1>2, PlacedIs DEF Placed
<1>9. OnlyDel({s}) /\ \A y : InQueues(delayq', s, y) => y = s
  <2>1. \A x, y : InQueues(delayq, x, y) => x \in Members(delayq)
    BY <1>4, QueuesIn DEF Core
  <2>2. CASE delayq' = delayq
    BY <1>8, <2>1, <2>2, QueuesOnly DEF Del
  <2>3. CASE delayq' = [delayq EXCEPT ![e][f] = Append(@, s)]
    <3>1. JoinsLast(delayq', delayq, s)
      BY <1>2, <1>4, <2>3, QueueAppended
    <3>2. QED
      BY <1>8, <2>1, <3>1, WithinOnly DEF JoinsLast, Del
  <2>4. QED
    BY <1>3, <2>2, <2>3
<1>10. Only({s})
  <2>1. OnlyUnder({s}) /\ OnlyRet({s}) /\ OnlySup({s})
    BY <1>3, UnderOnly, RetOnly, QueuesOnly DEF Underway
  <2>2. OnlyPkt({s})
    <3>1. \A x \in InFlight' \cup InQueue' : x \in Slot
      BY DEF Core, Places
    <3>2. QED
      BY <1>5, <3>1 DEF OnlyPkt
  <2>3. QED
    BY <1>9, <2>1, <2>2 DEF Only
<1>11. Underway' = Underway /\ used'.sleep = used.sleep
  BY <1>3, <1>4 DEF Underway
<1>12. QED
  BY <1>2, <1>3, <1>5, <1>6, <1>7, <1>9, <1>10, <1>11 DEF Added

-----------------------------------------------------------------------------
(* The worker takes a packet.                                                *)
Took(f, e, seen, s) ==
  /\ f \in Fifo /\ e \in Ready(f) /\ seen \in SUBSET Vain(f) /\ s \in Slot
  /\ Deq(e, f, seen) /\ s = Head(Offer(e, f)) /\ Joins(s) /\ InQueue' = InQueue \ {s}
  /\ pkt[s].e = e /\ pkt[s].f = f
  /\ wk.at # "hand" /\ wk'.at = "hand" /\ wk'.slot = s
  /\ UNCHANGED <<hanger, bus, sig, fw, air, pktSeq, used>>

LEMMA WorkTakes == ASSUME Core, WorkOwn \/ WorkBorrow PROVE \E f, e, seen, s : Took(f, e, seen, s)
<1>1. /\ wk.fifo \in Fifo /\ wk.at # "hand"
      /\ UNCHANGED <<hanger, bus, sig, fw, air, pktSeq, used>>
  BY DEF Core, Types, WorkOwn, WorkBorrow, pktSeqVars, fwVars
<1>2. \E e \in Ready(wk.fifo) : \E seen \in SUBSET Vain(wk.fifo), s \in Slot, a \in {"own", "borrow"} :
           /\ Deq(e, wk.fifo, seen) /\ s = Head(Offer(e, wk.fifo))
           /\ Core' /\ Joins(s) /\ InQueue' = InQueue \ {s} /\ Keep(Slot)
           /\ pkt[s].e = e /\ pkt[s].f = wk.fifo
           /\ wk' = [at |-> "hand", fifo |-> wk.fifo, from |-> a, slot |-> s]
  BY WorkOwnCore, WorkBorrowCore
<1>3. QED
  BY <1>1, <1>2 DEF Took

\* What it takes of a destination, from which queue, and how it marks it.
Marks(e, f, s) ==
  /\ s \notin InFlight /\ s \in InQueue /\ e \in Entry /\ ent[e].occupied /\ ~Closed(e)
  /\ \A x \in Slot : x # s => pkt'[x] = pkt[x]
  /\ pkt'[s].e = e /\ pkt'[s].f = f /\ pkt'[s].n = pkt[s].n
  /\ pkt'[s].gen = (IF hanger[s] = "suppressed" THEN pkt[s].gen ELSE ent[e].gen)
  /\ pkt'[s].req = (ent[e].request > 0)
  /\ s = Head(Offer(e, f))
  /\ IF supprq[e][f] # <<>>
     THEN /\ s \in Sup /\ Offer(e, f) = supprq[e][f]
          /\ Leads(supprq', supprq, e, f) /\ delayq' = delayq
     ELSE /\ s \in Del /\ Offer(e, f) = delayq[e][f] /\ ~HoldsBack(e, f)
          /\ Leads(delayq', delayq, e, f) /\ supprq' = supprq

LEMMA TookIs == ASSUME Core, NEW f, NEW e, NEW seen, NEW s, Took(f, e, seen, s) PROVE Marks(e, f, s)
<1>1. /\ f \in Fifo /\ e \in Ready(f) /\ s \in Slot /\ Deq(e, f, seen) /\ s = Head(Offer(e, f))
      /\ pkt[s].e = e /\ pkt[s].f = f /\ s \in InQueue /\ s \notin InFlight
  BY DEF Took, Joins
<1>2. e \in Entry /\ ent[e].occupied /\ ~Closed(e)
  BY <1>1 DEF Ready, Served
<1>3. /\ delayq \in Queues /\ supprq \in Queues /\ pkt \in [Slot -> Packets]
      /\ Filed(delayq, "inuse") /\ Filed(supprq, "suppressed")
  BY DEF Core, Types
<1>4. /\ \A x \in Slot : x # s => pkt'[x] = pkt[x]
      /\ pkt'[s].e = pkt[s].e /\ pkt'[s].f = pkt[s].f /\ pkt'[s].n = pkt[s].n
      /\ pkt'[s].gen = (IF hanger[s] = "suppressed" THEN pkt[s].gen ELSE ent[e].gen)
      /\ pkt'[s].req = (ent[e].request > 0)
  <2>1. pkt' = [pkt EXCEPT ![s].gen = IF hanger[s] = "suppressed" THEN @ ELSE ent[e].gen,
                           ![s].req = ent[e].request > 0]
    BY <1>1 DEF Deq
  <2>2. pkt[s] \in Packets
    BY <1>1, <1>3
  <2>3. pkt'[s] = [pkt[s] EXCEPT !.gen = IF hanger[s] = "suppressed" THEN pkt[s].gen ELSE ent[e].gen,
                                 !.req = ent[e].request > 0]
    BY <1>1, <1>3, <2>1, <2>2 DEF Packets
  <2>4. \A x \in Slot : x # s => pkt'[x] = pkt[x]
    BY <1>1, <1>3, <2>1
  <2>5. QED
    BY <2>2, <2>3, <2>4 DEF Packets
<1>5. IF supprq[e][f] # <<>> THEN Offer(e, f) = supprq[e][f]
      ELSE Offer(e, f) = delayq[e][f] /\ delayq[e][f] # <<>> /\ ~HoldsBack(e, f)
  BY <1>1, OfferIs
<1>6. ASSUME NEW q \in Queues, NEW state, Filed(q, state), q[e][f] # <<>>
      PROVE  Head(q[e][f]) \in Members(q)
  <2>1. q[e][f] \in Seq(Slot) /\ Once(q[e][f])
    BY <1>1, <1>2, <1>6, QueueOf, FiledAt
  <2>2. Head(q[e][f]) \in ToSet(q[e][f])
    BY <1>6, <2>1, OnceTail
  <2>3. QED
    BY <1>1, <1>2, <2>2, QueueOf
<1>7. CASE supprq[e][f] # <<>>
  <2>1. supprq' = [supprq EXCEPT ![e][f] = Tail(@)] /\ delayq' = delayq
    BY <1>1, <1>7 DEF Deq
  <2>2. Leads(supprq', supprq, e, f)
    BY <1>1, <1>2, <1>3, <1>7, <2>1, QueueTaken
  <2>3. s \in Sup
    BY <1>1, <1>3, <1>5, <1>6, <1>7 DEF Sup
  <2>4. QED
    BY <1>1, <1>2, <1>4, <1>5, <1>7, <2>1, <2>2, <2>3 DEF Marks
<1>8. CASE supprq[e][f] = <<>>
  <2>1. delayq' = [delayq EXCEPT ![e][f] = Tail(@)] /\ supprq' = supprq
    BY <1>1, <1>8 DEF Deq
  <2>2. Leads(delayq', delayq, e, f)
    BY <1>1, <1>2, <1>3, <1>5, <1>8, <2>1, QueueTaken
  <2>3. s \in Del
    BY <1>1, <1>3, <1>5, <1>6, <1>8 DEF Del
  <2>4. QED
    BY <1>1, <1>2, <1>4, <1>5, <1>8, <2>1, <2>2, <2>3 DEF Marks
<1>9. QED
  BY <1>7, <1>8

LEMMA WithinMore == ASSUME NEW S, NEW r, NEW q, Within(r, q, {}) PROVE Within(r, q, S)
  BY DEF Within

LEMMA TookOnly == ASSUME Core, Core', NEW f, NEW e, NEW seen, NEW s, Took(f, e, seen, s)
  PROVE  Only({s})
<1>1. Marks(e, f, s) /\ s \in Slot /\ wk.at # "hand" /\ wk'.at = "hand" /\ wk'.slot = s
      /\ UNCHANGED <<hanger, bus, sig, fw, air, pktSeq, used>>
  BY TookIs DEF Took
<1>2. OnlyUnder({s})
  BY <1>1, UnderwayMore DEF OnlyUnder
<1>3. OnlySup({s}) /\ OnlyDel({s})
  <2>1. \/ Within(supprq', supprq, {}) /\ delayq' = delayq
        \/ Within(delayq', delayq, {}) /\ supprq' = supprq
    BY <1>1 DEF Marks, Leads
  <2>2. QED
    BY <2>1, WithinMore, WithinOnly, QueuesOnly
<1>4. OnlyPkt({s})
  <2>1. \A x \in InFlight' \cup InQueue' : x \in Slot
    BY DEF Core, Places
  <2>2. QED
    BY <1>1, <2>1 DEF OnlyPkt, Marks
<1>5. OnlyRet({s})
  BY <1>1, RetOnly
<1>6. QED
  BY <1>2, <1>3, <1>4, <1>5 DEF Only

-----------------------------------------------------------------------------
(* The bus refuses a packet.                                                 *)
LEMMA RefusedOnly == ASSUME Core, Core', WorkRefused, NEW s, s = wk.slot
  PROVE  /\ Only({s}) /\ s \in InFlight /\ UNCHANGED <<bus, sig, fw, air, pktSeq>>
         /\ used'.sleep = used.sleep
         /\ Fits(s) => /\ hanger' = hanger /\ pkt' = pkt
                       /\ hanger[s] = "suppressed" => JoinsFirst(supprq', supprq, s) /\ delayq' = delayq
                       /\ hanger[s] # "suppressed" => JoinsFirst(delayq', delayq, s) /\ supprq' = supprq
         /\ ~Fits(s) => Freed({s}) /\ delayq' = delayq /\ supprq' = supprq
<1>1. /\ wk.at = "hand" /\ wk'.at # "hand" /\ UNCHANGED <<bus, sig, fw, air, pktSeq>>
      /\ used' = [used EXCEPT !.refuse = @ + 1]
  BY NotHanded DEF WorkRefused, pktSeqVars, fwVars
<1>2. used'.sleep = used.sleep
  <2>1. used \in [pkt : Nat, sleep : Nat, refuse : Nat, other : Nat]
    BY DEF Core, Types
  <2>2. QED
    BY <1>1, <2>1
<1>3. s \in InFlight /\ s \in Slot /\ pkt[s].e \in Entry /\ pkt[s].f \in Fifo
  BY <1>1, LeaveHand, FlightPkt
<1>4. OnlyUnder({s}) /\ OnlyRet({s})
  BY <1>1, UnderwayBack, RetOnly DEF OnlyUnder
<1>5. delayq \in Queues /\ supprq \in Queues
  BY DEF Core, Types
<1>6. CASE Fits(s)
  <2>1. /\ hanger' = hanger /\ pkt' = pkt
        /\ IF hanger[s] = "suppressed"
           THEN /\ supprq' = [supprq EXCEPT ![pkt[s].e][pkt[s].f] = Back(@, s)]
                /\ delayq' = delayq
           ELSE /\ delayq' = [delayq EXCEPT ![pkt[s].e][pkt[s].f] = Back(@, s)]
                /\ supprq' = supprq
    BY <1>6, RefusedIs
  <2>2. /\ hanger[s] = "suppressed" => JoinsFirst(supprq', supprq, s) /\ delayq' = delayq
        /\ hanger[s] # "suppressed" => JoinsFirst(delayq', delayq, s) /\ supprq' = supprq
    BY <1>3, <1>5, <2>1, QueueBacked
  <2>3. OnlySup({s}) /\ OnlyDel({s})
    BY <2>2, WithinOnly, QueuesOnly DEF JoinsFirst
  <2>4. OnlyPkt({s})
    BY <2>1 DEF OnlyPkt
  <2>5. QED
    BY <1>1, <1>2, <1>3, <1>4, <1>6, <2>1, <2>2, <2>3, <2>4 DEF Only
<1>7. CASE ~Fits(s)
  <2>1. Freed({s}) /\ delayq' = delayq /\ supprq' = supprq
    BY <1>7, RefusedIs
  <2>2. OnlySup({s}) /\ OnlyDel({s}) /\ OnlyPkt({s})
    BY <2>1, QueuesOnly, FreedOnly DEF OnlyPkt
  <2>3. QED
    BY <1>1, <1>2, <1>3, <1>4, <1>7, <2>1, <2>2 DEF Only
<1>8. QED
  BY <1>6, <1>7

-----------------------------------------------------------------------------
(* The firmware takes a packet.                                              *)
Gone(s) == fw[pkt[s].e].gone
First(s) == /\ ~Gone(s) /\ pkt[s].gen = fw[pkt[s].e].gen
            /\ fw[pkt[s].e].asleep /\ ~pkt[s].req
Turned(s) == First(s) \/ (~Gone(s) /\ pkt[s].gen # fw[pkt[s].e].gen)
NowGen(s) == IF First(s) THEN 1 - fw[pkt[s].e].gen ELSE fw[pkt[s].e].gen

FwAfter(s) ==
  /\ \A x \in Entry : x # pkt[s].e => fw'[x] = fw[x] /\ air'[x] = air[x]
  /\ fw'[pkt[s].e].asleep = fw[pkt[s].e].asleep /\ fw'[pkt[s].e].gone = fw[pkt[s].e].gone
  /\ fw'[pkt[s].e].gen = NowGen(s)
  /\ Turned(s) \/ Gone(s) => air' = air
  /\ ~Turned(s) /\ ~Gone(s) => /\ air'[pkt[s].e][pkt[s].f] = pkt[s].n
                               /\ \A f \in Fifo : f # pkt[s].f => air'[pkt[s].e][f] = air[pkt[s].e][f]
RetAfter(s) ==
  \E m \in Tells :
    /\ m = "suppressed" <=> Turned(s)
    /\ sig' = Append(sig, [m |-> m, s |-> s, e |-> pkt[s].e, gen |-> NowGen(s)])

LEMMA TakesIs == ASSUME Core, FwTakes, NEW s, s = Head(bus)
  PROVE  /\ s \in InFlight /\ NowGen(s) \in 0..1 /\ RetAfter(s) /\ FwAfter(s)
         /\ UNCHANGED <<hanger, pkt, delayq, supprq, ent, pktSeq, wk, used>>
         /\ bus # <<>> /\ bus' = Tail(bus)
<1>1. /\ bus # <<>> /\ bus' = Tail(bus)
      /\ UNCHANGED <<hanger, pkt, delayq, supprq, ent, pktSeq, wk, used>>
      /\ sig' = Append(sig, [m |-> IF Turned(s) THEN "suppressed" ELSE "sent", s |-> s,
                             e |-> pkt[s].e, gen |-> NowGen(s)])
      /\ fw' = [fw EXCEPT ![pkt[s].e].gen = NowGen(s)]
      /\ air' = IF Turned(s) \/ Gone(s) THEN air ELSE [air EXCEPT ![pkt[s].e][pkt[s].f] = pkt[s].n]
  BY DEF FwTakes, Turned, Gone, First, NowGen, qVars, pktSeqVars
<1>2. s \in InFlight
  <2>1. s \in Cur \cup Sta
    BY <1>1, UnderwayLess
  <2>2. QED
    BY <2>1, PlacedIs DEF Placed
<1>3. /\ pkt[s].e \in Entry /\ pkt[s].f \in Fifo
      /\ fw \in [Entry -> [asleep : BOOLEAN, gone : BOOLEAN, gen : 0..1, ask : Nat]]
      /\ air \in [Entry -> [Fifo -> Nat]]
  BY <1>2, FlightPkt DEF Core, Types
<1>4. fw[pkt[s].e] \in [asleep : BOOLEAN, gone : BOOLEAN, gen : 0..1, ask : Nat]
  BY <1>3
<1>5. NowGen(s) \in 0..1
  BY <1>4 DEF NowGen
<1>6. FwAfter(s)
  <2>1. /\ \A x \in Entry : x # pkt[s].e => fw'[x] = fw[x] /\ air'[x] = air[x]
        /\ Turned(s) \/ Gone(s) => air' = air
        /\ ~Turned(s) /\ ~Gone(s) => /\ air'[pkt[s].e][pkt[s].f] = pkt[s].n
                               /\ \A f \in Fifo : f # pkt[s].f => air'[pkt[s].e][f] = air[pkt[s].e][f]
    BY <1>1, <1>3
  <2>2. fw'[pkt[s].e] = [fw[pkt[s].e] EXCEPT !.gen = NowGen(s)]
    BY <1>1, <1>3
  <2>3. /\ fw'[pkt[s].e].asleep = fw[pkt[s].e].asleep /\ fw'[pkt[s].e].gone = fw[pkt[s].e].gone
        /\ fw'[pkt[s].e].gen = NowGen(s)
    BY <1>4, <2>2
  <2>4. QED
    BY <2>1, <2>3 DEF FwAfter
<1>7. RetAfter(s)
  <2>1. CASE Turned(s)
    BY <1>1, <2>1 DEF RetAfter, Tells
  <2>2. CASE ~Turned(s)
    BY <1>1, <2>2 DEF RetAfter, Tells
  <2>3. QED
    BY <2>1, <2>2
<1>8. QED
  BY <1>1, <1>2, <1>5, <1>6, <1>7

\* What comes back from it comes back last.
LEMMA RetJoins == ASSUME Core, FwTakes, NEW s, s = Head(bus)
  PROVE  /\ \A x \in Returning(sig') : x \in Ret \/ (x = s /\ Turned(s))
         /\ \A a, b : RetBefore(sig', a, b) => InRet(a, b) \/ (b = s /\ a \in Ret)
<1>1. s \in Slot /\ pkt[s].e \in Entry /\ sig \in Seq(Signals) /\ NowGen(s) \in 0..1 /\ RetAfter(s)
  BY TakesIs, FlightPkt DEF Core, Types
<1>2. PICK m \in Tells :
    /\ m = "suppressed" <=> Turned(s)
    /\ sig' = Append(sig, [m |-> m, s |-> s, e |-> pkt[s].e, gen |-> NowGen(s)])
  BY <1>1 DEF RetAfter
<1> DEFINE x == [m |-> m, s |-> s, e |-> pkt[s].e, gen |-> NowGen(s)]
<1>3. x \in Signals /\ x.s = s /\ x.m = m
  BY <1>1, <1>2 DEF Signals
<1>4. sig' = Append(sig, x)
  BY <1>2
<1> HIDE DEF x
<1>5. /\ Returning(sig') = Returning(sig) \cup (IF x.m = "suppressed" THEN {x.s} ELSE {})
      /\ \A a, b : RetBefore(sig', a, b) =>
           RetBefore(sig, a, b) \/ (x.m = "suppressed" /\ b = x.s /\ a \in Returning(sig))
  BY <1>1, <1>3, <1>4, RetAppend
<1>6. QED
  BY <1>2, <1>3, <1>5 DEF Ret, InRet

LEMMA TakesOnly == ASSUME Core, Core', FwTakes, NEW s, s = Head(bus)
  PROVE  /\ Only({s}) /\ s \in Cur \cup Sta
         /\ \A y \in ToSet(Underway') : InUnder(s, y) /\ y # s
<1>1. /\ UNCHANGED <<hanger, pkt, delayq, supprq, wk>> /\ bus # <<>> /\ bus' = Tail(bus)
  BY TakesIs
<1>2. /\ s \in Cur \cup Sta /\ \A y \in ToSet(Underway') : InUnder(s, y)
  BY <1>1, UnderwayLess
<1>3. \A y \in ToSet(Underway') : y # s
  BY <1>2, PlacedIs DEF Placed
<1>4. OnlyUnder({s}) /\ OnlySup({s}) /\ OnlyDel({s})
  BY <1>1, LessOnly, QueuesOnly
<1>5. OnlyRet({s}) /\ OnlyPkt({s})
  BY <1>1, RetJoins DEF OnlyRet, OnlyPkt
<1>6. QED
  BY <1>2, <1>3, <1>4, <1>5 DEF Only

-----------------------------------------------------------------------------
(* A suppressed packet comes back into its place in the queue.               *)
LEMMA BeforeInsert == ASSUME NEW q \in Seq(Slot), NEW s \in Slot, NEW k \in 1..Len(q) + 1,
                             NEW x, NEW y, Before(InsertAt(q, k, s), x, y)
  PROVE  \/ Before(q, x, y)
         \/ x = s /\ \E i \in 1..Len(q) : i >= k /\ q[i] = y
         \/ y = s /\ \E i \in 1..Len(q) : q[i] = x
<1> DEFINE r == InsertAt(q, k, s)
<1>1. /\ Before(r, x, y) /\ Len(r) = Len(q) + 1 /\ Len(q) \in Nat
      /\ r[k] = s /\ \A i \in 1..k - 1 : r[i] = q[i]
  BY InsertAtIs
<1>2. \A i \in k..Len(q) : r[i + 1] = q[i]
  BY InsertAtIs
<1> HIDE DEF r
<1>3. ASSUME NEW i \in 1..Len(q) + 1, i > k PROVE r[i] = q[i - 1]
  <2>1. i - 1 \in k..Len(q) /\ (i - 1) + 1 = i
    BY <1>1, <1>3
  <2>2. QED
    BY <1>2, <2>1
<1>4. PICK i, j \in 1..Len(q) + 1 : i < j /\ r[i] = x /\ r[j] = y
  BY <1>1 DEF Before
<1>5. CASE i = k
  <2>1. x = s /\ j - 1 \in 1..Len(q) /\ j - 1 >= k /\ q[j - 1] = y
    BY <1>1, <1>2, <1>3, <1>4, <1>5
  <2>2. QED
    BY <2>1
<1>6. CASE j = k
  <2>1. y = s /\ i \in 1..Len(q) /\ q[i] = x
    BY <1>1, <1>2, <1>4, <1>6
  <2>2. QED
    BY <2>1
<1>7. CASE i # k /\ j # k
  <2> DEFINE a == IF i < k THEN i ELSE i - 1
             b == IF j < k THEN j ELSE j - 1
  <2>1. a \in 1..Len(q) /\ b \in 1..Len(q) /\ a < b
    BY <1>1, <1>4, <1>7
  <2>2. q[a] = x
    BY <1>1, <1>2, <1>3, <1>4, <1>7
  <2>3. q[b] = y
    BY <1>1, <1>2, <1>3, <1>4, <1>7
  <2> HIDE DEF a, b
  <2>4. QED
    BY <2>1, <2>2, <2>3 DEF Before
<1>8. QED
  BY <1>5, <1>6, <1>7

JoinsAmong(r, q, s, e, f) ==
  /\ Within(r, q, {s})
  /\ \A y : InQueues(r, s, y) =>
       y = s \/ InQueues(q, s, y) \/ (y \in ToSet(q[e][f]) /\ ~(pkt[y].n < pkt[s].n))
  /\ \A x : InQueues(r, x, s) => x = s \/ InQueues(q, x, s) \/ x \in ToSet(q[e][f])

LEMMA QueueInserted == ASSUME NEW q \in Queues, NEW e \in Entry, NEW f \in Fifo, NEW s \in Slot,
                              Once(q[e][f]), s \notin ToSet(q[e][f]),
                              NEW r, r = [q EXCEPT ![e][f] = Inserted(@, s)]
  PROVE  JoinsAmong(r, q, s, e, f)
<1> DEFINE u == q[e][f]
           T == {0} \cup {i \in DOMAIN u : pkt[u[i]].n < pkt[s].n}  k == 1 + Max(T)
           z == InsertAt(u, k, s)
<1>1. u \in Seq(Slot) /\ Len(u) \in Nat /\ DOMAIN u = 1..Len(u)
  BY QueueOf
<1>2. T \in SUBSET (0..Len(u)) /\ T # {}
  BY <1>1
<1>3. Max(T) \in T /\ \A i \in T : Max(T) >= i
  BY <1>1, <1>2, MaxIn
<1>4. k \in 1..Len(u) + 1
  <2>1. Max(T) \in 0..Len(u)
    BY <1>2, <1>3
  <2> HIDE DEF T
  <2>2. QED
    BY <1>1, <2>1
<1>5. \A i \in 1..Len(u) : i >= k => ~(pkt[u[i]].n < pkt[s].n)
  <2> SUFFICES ASSUME NEW i \in 1..Len(u), i >= k, pkt[u[i]].n < pkt[s].n PROVE FALSE
    OBVIOUS
  <2>1. i \in T
    BY <1>1
  <2>2. Max(T) \in 0..Len(u)
    BY <1>2, <1>3
  <2> HIDE DEF T
  <2>3. QED
    BY <1>1, <1>3, <2>1, <2>2
<1>6. r = [q EXCEPT ![e][f] = z]
  BY DEF Inserted
<1> HIDE DEF T, k
<1>7. z \in Seq(Slot) /\ ToSet(z) = ToSet(u) \cup {s}
  BY <1>1, <1>4, OnceInsert
<1>8. \A x, y : Before(z, x, y) =>
         \/ Before(u, x, y)
         \/ x = s /\ \E i \in 1..Len(u) : i >= k /\ u[i] = y
         \/ y = s /\ \E i \in 1..Len(u) : u[i] = x
  BY <1>1, <1>4, BeforeInsert
<1>9. \A i \in 1..Len(u) : u[i] \in ToSet(u)
  BY <1>1, AsSet
<1> HIDE DEF z
<1>10. Changed(r, q, e, f, z)
  <2>1. Changed([q EXCEPT ![e][f] = z], q, e, f, z)
    BY <1>7, Refiled
  <2>2. QED
    BY <1>6, <2>1, Zenon
<1>11. /\ \A x, y : InQueues(r, x, y) => InQueues(q, x, y) \/ Before(z, x, y)
       /\ \A x : x \in Members(r) => x \in Members(q) \/ x \in ToSet(z)
       /\ \A x, y : Before(q[e][f], x, y) => InQueues(q, x, y)
       /\ \A x : x \in Slot /\ x \in ToSet(q[e][f]) => x \in Members(q)
  BY <1>10, QueuesChanged
<1>12. ToSet(u) \subseteq Slot
  BY QueueOf
<1>13. Within(r, q, {s})
  BY <1>7, <1>8, <1>11, <1>12 DEF Within
<1>14. \A y : InQueues(r, s, y) =>
       y = s \/ InQueues(q, s, y) \/ (y \in ToSet(q[e][f]) /\ ~(pkt[y].n < pkt[s].n))
  BY <1>5, <1>8, <1>9, <1>11
<1>15. \A x : InQueues(r, x, s) => x = s \/ InQueues(q, x, s) \/ x \in ToSet(q[e][f])
  BY <1>8, <1>9, <1>11
<1>16. QED
  BY <1>13, <1>14, <1>15 DEF JoinsAmong

LEMMA SuppressedOnly == ASSUME Core, Core', StatusSuppressed, NEW s, s = Head(sig).s
  PROVE  /\ Only({s}) /\ s \in InFlight /\ s \in Ret
         /\ \A y \in Returning(sig') : InRet(s, y) /\ y # s
         /\ delayq' = delayq /\ Underway' = Underway /\ UNCHANGED <<wk, bus, fw, air, pktSeq, used>>
         /\ sig # <<>> /\ sig' = Tail(sig) /\ Head(sig).m = "suppressed"
         /\ \A x \in Slot : x # s => hanger'[x] = hanger[x] /\ pkt'[x] = pkt[x]
         /\ \/ /\ JoinsAmong(supprq', supprq, s, pkt[s].e, pkt[s].f)
               /\ hanger'[s] = "suppressed" /\ pkt'[s].gen = Head(sig).gen
               /\ pkt'[s].e = pkt[s].e /\ pkt'[s].f = pkt[s].f /\ pkt'[s].n = pkt[s].n
            \/ Freed({s}) /\ supprq' = supprq
<1>1. /\ Got("suppressed") /\ UNCHANGED <<delayq, wk, bus, fw, air, pktSeq, used>>
      /\ sig # <<>> /\ sig' = Tail(sig) /\ Head(sig).m = "suppressed"
  BY SuppressedIs DEF pktSeqVars, fwVars, Got
<1>2. s \in InFlight /\ s \in Slot /\ pkt[s].e \in Entry /\ pkt[s].f \in Fifo
  BY <1>1, LeaveSig, FlightPkt DEF Tells
<1>3. s \in Ret /\ \A y \in Returning(sig') : InRet(s, y)
  BY <1>1, RetTail, HeadIs DEF Ret, InRet
<1>4. \A y \in Returning(sig') : y # s
  BY <1>3, PlacedIs DEF Placed
<1>5. Underway' = Underway
  BY <1>1 DEF Underway
<1>6. OnlyUnder({s}) /\ OnlyRet({s}) /\ OnlyDel({s})
  BY <1>1, <1>5, UnderOnly, RetOnly, QueuesOnly
<1>7. CASE Room(pkt[s].e)
  <2>1. /\ hanger' = [hanger EXCEPT ![s] = "suppressed"]
        /\ pkt' = [pkt EXCEPT ![s].gen = Head(sig).gen]
        /\ supprq' = [supprq EXCEPT ![pkt[s].e][pkt[s].f] = Inserted(@, s)]
    BY <1>7, SuppressedIs
  <2>2. /\ hanger \in [Slot -> {"free", "inuse", "suppressed"}] /\ pkt \in [Slot -> Packets]
        /\ supprq \in Queues /\ Filed(supprq, "suppressed")
    BY DEF Core, Types
  <2>3. Once(supprq[pkt[s].e][pkt[s].f]) /\ s \notin ToSet(supprq[pkt[s].e][pkt[s].f])
    BY <1>2, <2>2, FiledAt, FlightNotQueued
  <2>4. JoinsAmong(supprq', supprq, s, pkt[s].e, pkt[s].f)
    BY <1>2, <2>1, <2>2, <2>3, QueueInserted
  <2>5. /\ hanger'[s] = "suppressed" /\ pkt'[s].gen = Head(sig).gen
        /\ pkt'[s].e = pkt[s].e /\ pkt'[s].f = pkt[s].f /\ pkt'[s].n = pkt[s].n
        /\ \A x \in Slot : x # s => hanger'[x] = hanger[x] /\ pkt'[x] = pkt[x]
    <3>1. pkt[s] \in Packets /\ pkt'[s] = [pkt[s] EXCEPT !.gen = Head(sig).gen]
      BY <1>2, <2>1, <2>2
    <3>2. QED
      BY <1>2, <2>1, <2>2, <3>1 DEF Packets
  <2>6. OnlyPkt({s})
    <3>1. \A x \in InFlight' \cup InQueue' : x \in Slot
      BY DEF Core, Places
    <3>2. QED
      BY <2>5, <3>1 DEF OnlyPkt
  <2>7. OnlySup({s})
    BY <2>4, WithinOnly DEF JoinsAmong
  <2>8. QED
    BY <1>1, <1>2, <1>3, <1>4, <1>5, <1>6, <2>4, <2>5, <2>6, <2>7 DEF Only
<1>8. CASE ~Room(pkt[s].e)
  <2>1. Freed({s}) /\ supprq' = supprq
    BY <1>8, SuppressedIs
  <2>2. \A x \in Slot : x # s => hanger'[x] = hanger[x] /\ pkt'[x] = pkt[x]
    BY <2>1, FreedTypes DEF Core
  <2>3. OnlySup({s}) /\ OnlyPkt({s})
    BY <2>1, QueuesOnly, FreedOnly DEF OnlyPkt
  <2>4. QED
    BY <1>1, <1>2, <1>3, <1>4, <1>5, <1>6, <2>1, <2>2, <2>3 DEF Only
<1>9. QED
  BY <1>7, <1>8

-----------------------------------------------------------------------------
(* The steps, and what they leave alone.                                     *)
LEMMA NextIs == ASSUME FwsNext
  PROVE  \/ \E e \in Entry, f \in Fifo : ProcessSkb(e, f)
         \/ Unmoving \/ WorkOwn \/ WorkBorrow \/ WorkRefused \/ BusFailed
         \/ FwTakes \/ StatusSent \/ StatusSuppressed \/ MacDel
  BY DEF FwsNext, Unmoving, MacSays, FwStep

LEMMA UnmovingCore == ASSUME Core, Unmoving PROVE Core' /\ Still
  BY WorkBeginCore, WorkOwnDoneCore, WorkBorrowDoneCore, WorkSentCore, BusBlockCore, MacCore, FwCore
  DEF Unmoving, MacSays

LEMMA UnmovingEnt == ASSUME Core, Unmoving
  PROVE  MacSays \/ ent' = ent \/ \E f : ent' = Recovered(Vain(f))
<1>1. CASE \E e \in Entry : FwStep(e)
  BY <1>1 DEF FwStep, FwSleep, FwWake, FwRequest, FwDel, Rest
<1>2. CASE WorkBegin \/ WorkSent \/ BusBlock \/ BusUnblock
  BY <1>2 DEF WorkBegin, WorkSent, BusBlock, BusUnblock
<1>3. CASE WorkOwnDone \/ WorkBorrowDone
  BY <1>3 DEF WorkOwnDone, WorkBorrowDone
<1>4. QED
  BY <1>1, <1>2, <1>3 DEF Unmoving

\* The steps that move no packet, or a new one only.
LEMMA StillEnt == ASSUME Core, NEW x \in Entry,
                         \/ Unmoving \/ FwTakes \/ MacDel
                         \/ \E e \in Entry, f \in Fifo : ProcessSkb(e, f)
  PROVE  /\ Core' /\ Still
         /\ ent'[x].transit = ent[x].transit /\ ent'[x].supprTransit = ent[x].supprTransit
         /\ ent'[x].gen = ent[x].gen /\ (ent'[x].suppressed => ent[x].suppressed)
         /\ ent[x].suppressed /\ ~ent'[x].suppressed => ent[x].supprTransit = 0
         /\ ~MacState("open") => (ent'[x].open => ent[x].open)
<1>1. Core' /\ Still
  BY UnmovingCore, FwTakesCore, MacDelCore, ProcessSkbCore
<1>2. CASE ent' = ent \/ \E f : ent' = Recovered(Vain(f))
  BY <1>1, <1>2, EntVain DEF Kin
<1>3. CASE MacSays \/ MacDel
  <2>1. PICK m \in {"open", "close"} : MacState(m) \/ MacRequest \/ MacDel
    BY <1>3 DEF MacSays
  <2>2. Alike(ent'[x], ent[x]) /\ ent'[x].gen = ent[x].gen
    BY <2>1, EntMac
  <2>3. ASSUME ~MacState("open"), ent'[x].open PROVE ent[x].open
    <3>1. MacState("close") \/ MacRequest \/ MacDel
      BY <1>3, <2>3 DEF MacSays
    <3>2. /\ x # Head(sig).e => Kin(ent'[x], ent[x])
          /\ MacRequest => Kin(ent'[x], ent[x])
          /\ MacState("close") => /\ ent'[x].occupied = ent[x].occupied
                                  /\ x = Head(sig).e /\ ent[x].occupied => ent'[x].open = ("close" = "open")
          /\ MacDel /\ x = Head(sig).e => ~ent'[x].occupied /\ ~ent'[x].open
      BY <3>1, EntMac
    <3>3. MacState("close") /\ x = Head(sig).e /\ ~ent[x].occupied => ent' = ent
      BY DEF MacState
    <3>4. QED
      BY <2>3, <3>1, <3>2, <3>3 DEF Kin
  <2>4. QED
    BY <1>1, <2>2, <2>3 DEF Alike
<1>4. CASE FwTakes \/ \E e \in Entry, f \in Fifo : ProcessSkb(e, f)
  <2>1. ent' = ent
    BY <1>4 DEF FwTakes, ProcessSkb
  <2>2. QED
    BY <1>2, <2>1
<1>5. QED
  BY <1>2, <1>3, <1>4, UnmovingEnt

-----------------------------------------------------------------------------
(* The transit counter never comes closer to what is on its way from below:  *)
(* a destination whose counter is exact has had an exact one before.         *)
Drift(e) == ent'[e].transit - Cardinality(NowOf(e)) <= ent[e].transit - Cardinality(Of(e))
Tossed(e) == WorkRefused /\ pkt[wk.slot].e = e /\ ~Fits(wk.slot)

LEMMA DriftStep == ASSUME Core, FwsNext, NEW e \in Entry
  PROVE  Core' /\ Drift(e)
         /\ (Tossed(e) => ent'[e].transit - Cardinality(NowOf(e)) < ent[e].transit - Cardinality(Of(e)))
<1>1. Cardinality(Of(e)) \in Nat /\ ent[e].transit \in Int /\ ent[e] \in Descriptors
  BY FlightCounts, EntTypes
<1>2. ASSUME \/ Unmoving \/ FwTakes \/ MacDel
             \/ \E x \in Entry, f \in Fifo : ProcessSkb(x, f)
      PROVE  Core' /\ Drift(e)
  <2>1. Core' /\ Still /\ ent'[e].transit = ent[e].transit
    BY <1>2, StillEnt
  <2>2. NowOf(e) = Of(e)
    BY <2>1, StillCounts
  <2>3. QED
    BY <1>1, <2>1, <2>2 DEF Drift
<1>3. ASSUME WorkOwn \/ WorkBorrow PROVE Core' /\ Drift(e)
  <2>1. Core'
    BY <1>3, WorkOwnCore, WorkBorrowCore
  <2>2. PICK f, x, seen, s : Took(f, x, seen, s)
    BY <1>3, WorkTakes
  <2>3. Joins(s) /\ pkt[s].e = x /\ EntAfter(e, x, f, seen)
    BY <2>2, DeqEntIs DEF Took
  <2>4. Cardinality(NowOf(e)) = Cardinality(Of(e)) + (IF pkt[s].e = e THEN 1 ELSE 0)
    BY <2>3, JoinsCounts
  <2>5. QED
    BY <1>1, <2>1, <2>3, <2>4 DEF Drift, EntAfter
<1>4. ASSUME NEW s, Core', Leaves(s),
             ent'[e].transit = ent[e].transit - (IF pkt[s].e = e THEN 1 ELSE 0)
      PROVE  Core' /\ Drift(e)
  <2>1. Cardinality(NowOf(e)) = Cardinality(Of(e)) - (IF pkt[s].e = e THEN 1 ELSE 0)
    BY <1>4, LeavesCounts
  <2>2. QED
    BY <1>1, <1>4, <2>1 DEF Drift
<1>5. ASSUME BusFailed PROVE Core' /\ Drift(e)
  <2>1. Core' /\ Leaves(Head(bus)) /\ ent' = ReqBack(Out(ent, Head(bus)), Head(bus))
    BY <1>5, BusFailedCore DEF BusFailed
  <2>2. IF pkt[Head(bus)].e = e THEN Down(ent'[e], ent[e]) ELSE Alike(ent'[e], ent[e])
    BY <2>1, EntOut DEF Leaves
  <2>3. QED
    BY <1>1, <1>4, <2>1, <2>2 DEF Down, Alike
<1>6. ASSUME StatusSent PROVE Core' /\ Drift(e)
  <2>1. Core' /\ Leaves(Head(sig).s) /\ ent' = ReqBack(Out(ent, Head(sig).s), Head(sig).s)
    BY <1>6, StatusSentCore DEF StatusSent
  <2>2. IF pkt[Head(sig).s].e = e THEN Down(ent'[e], ent[e]) ELSE Alike(ent'[e], ent[e])
    BY <2>1, EntOut DEF Leaves
  <2>3. QED
    BY <1>1, <1>4, <2>1, <2>2 DEF Down, Alike
<1>7. ASSUME StatusSuppressed PROVE Core' /\ Drift(e)
  <2>1. Core' /\ Leaves(Head(sig).s)
    BY <1>7, StatusSuppressedCore
  <2>2. /\ e # pkt[Head(sig).s].e => Alike(ent'[e], ent[e])
        /\ e = pkt[Head(sig).s].e => Expecting(ent'[e], ent[e])
    BY <1>7, <2>1, EntSuppressed DEF Leaves
  <2>3. QED
    BY <1>1, <1>4, <2>1, <2>2 DEF Expecting, Alike
<1>8. ASSUME WorkRefused
      PROVE  Core' /\ Drift(e)
             /\ (Tossed(e) => ent'[e].transit - Cardinality(NowOf(e)) < ent[e].transit - Cardinality(Of(e)))
  <2>1. Core' /\ Leaves(wk.slot)
    BY <1>8, WorkRefusedCore
  <2>2. /\ e # pkt[wk.slot].e => Alike(ent'[e], ent[e])
        /\ e = pkt[wk.slot].e => ent'[e].transit = ent[e].transit - (IF Fits(wk.slot) THEN 1 ELSE 2)
    BY <1>8, <2>1, EntRefused DEF Leaves
  <2>3. Cardinality(NowOf(e)) = Cardinality(Of(e)) - (IF pkt[wk.slot].e = e THEN 1 ELSE 0)
    BY <2>1, LeavesCounts
  <2>4. QED
    BY <1>1, <2>1, <2>2, <2>3 DEF Alike, Drift, Tossed
<1>9. QED
  <2>1. Core' /\ Drift(e)
    BY <1>2, <1>3, <1>5, <1>6, <1>7, <1>8, NextIs
  <2>2. QED
    BY <1>8, <2>1 DEF Tossed

LEMMA FwGrows == ASSUME Core, FwsNext
  PROVE  /\ used.sleep <= used'.sleep /\ used.sleep \in Nat /\ used'.sleep \in Nat
         /\ \A x \in Entry : fw[x].gone => fw'[x].gone
<1>1. /\ used \in [pkt : Nat, sleep : Nat, refuse : Nat, other : Nat]
      /\ fw \in [Entry -> [asleep : BOOLEAN, gone : BOOLEAN, gen : 0..1, ask : Nat]]
  BY DEF Core, Types
<1>2. \/ used' = used \/ used' = [used EXCEPT !.pkt = @ + 1] \/ used' = [used EXCEPT !.sleep = @ + 1]
      \/ used' = [used EXCEPT !.refuse = @ + 1] \/ used' = [used EXCEPT !.other = @ + 1]
  BY DEF FwsNext, ProcessSkb, WorkBegin, WorkOwn, WorkOwnDone, WorkBorrow, WorkBorrowDone, WorkSent,
         WorkRefused, BusBlock, BusUnblock, BusFailed, FwTakes, StatusSent, StatusSuppressed,
         MacState, MacRequest, MacDel, FwSleep, FwWake, FwRequest, FwDel
<1>3. used.sleep <= used'.sleep /\ used.sleep \in Nat /\ used'.sleep \in Nat
  BY <1>1, <1>2
<1>4. ASSUME NEW x \in Entry, fw[x].gone PROVE fw'[x].gone
  <2>1. CASE fw' = fw
    BY <1>4, <2>1
  <2>2. CASE FwTakes
    BY <1>4, <2>2, TakesIs DEF FwAfter
  <2>3. CASE \E e \in Entry : FwStep(e)
    <3>1. PICK e \in Entry : FwStep(e)
      BY <2>3
    <3>2. \/ fw' = [fw EXCEPT ![e].asleep = TRUE] \/ fw' = [fw EXCEPT ![e].asleep = FALSE, ![e].ask = 0]
          \/ fw' = [fw EXCEPT ![e].ask = 1] \/ fw' = [fw EXCEPT ![e].gone = TRUE]
      BY <3>1 DEF FwStep, FwSleep, FwWake, FwRequest, FwDel
    <3>3. fw[e] \in [asleep : BOOLEAN, gone : BOOLEAN, gen : 0..1, ask : Nat]
      BY <1>1
    <3>4. QED
      BY <1>1, <1>4, <3>2, <3>3
  <2>4. fw' = fw \/ FwTakes \/ \E e \in Entry : FwStep(e)
    BY DEF FwsNext, ProcessSkb, WorkBegin, WorkOwn, WorkOwnDone, WorkBorrow, WorkBorrowDone, WorkSent,
         WorkRefused, BusBlock, BusUnblock, BusFailed, StatusSent, StatusSuppressed,
         MacState, MacRequest, MacDel, FwStep, fwVars
  <2>5. QED
    BY <2>1, <2>2, <2>3, <2>4
<1>5. QED
  BY <1>3, <1>4

Counts == \A e \in Entry : Cardinality(Of(e)) \in Nat
LEMMA CountsAre == Core => Counts
  BY FlightCounts DEF Counts

LEMMA CountNext == ASSUME Core', NEW e \in Entry PROVE Cardinality(NowOf(e)) \in Nat
<1>1. Counts'
  BY CountsAre, PTL
<1>2. QED
  BY <1>1 DEF Counts, Of, NowOf

LEMMA CalmStep == ASSUME FwsInv, FwsNext, NEW e \in Entry
  PROVE  (Known(e)' => Known(e)) /\ (Calm(e)' => Calm(e) /\ ~Tossed(e))
<1>1. ASSUME Known(e)' PROVE Known(e)
  BY <1>1, FwGrows DEF Known, FwsInv
<1>2. ASSUME Calm(e)' PROVE Calm(e) /\ ~Tossed(e)
  <2>1. Known(e) /\ ent'[e].transit = Cardinality(NowOf(e))
    <3>1. Of(e)' = NowOf(e)
      BY DEF Of, NowOf
    <3>2. QED
      BY <1>1, <1>2, <3>1 DEF Calm
  <2>2. Core' /\ Drift(e)
         /\ (Tossed(e) => ent'[e].transit - Cardinality(NowOf(e)) < ent[e].transit - Cardinality(Of(e)))
    BY DriftStep DEF FwsInv
  <2>3. ent[e].transit \in Int /\ Cardinality(Of(e)) \in Nat /\ ent[e].transit <= Cardinality(Of(e))
    BY FlightCounts, EntTypes DEF FwsInv, Transit
  <2>4. Cardinality(NowOf(e)) \in Nat
    BY <2>2, CountNext
  <2>5. QED
    BY <2>1, <2>2, <2>3, <2>4 DEF Calm, Drift
<1>3. QED
  BY <1>1, <1>2

-----------------------------------------------------------------------------
(* What a step may change of a destination, of a signal and of a packet.     *)
LEMMA SigNext == ASSUME FwsNext
  PROVE sig' = sig \/ FwTakes \/ (\E e \in Entry : FwStep(e))
        \/ StatusSent \/ StatusSuppressed \/ MacSays \/ MacDel
  BY DEF FwsNext, ProcessSkb, WorkBegin, WorkOwn, WorkOwnDone, WorkBorrow, WorkBorrowDone, WorkSent,
         WorkRefused, BusBlock, BusUnblock, BusFailed, MacSays, FwStep

LEMMA Heard == ASSUME StatusSent \/ StatusSuppressed \/ MacSays \/ MacDel
  PROVE  /\ sig # <<>> /\ sig' = Tail(sig)
         /\ Head(sig).m = "close" => MacState("close")
  BY DEF StatusSent, StatusSuppressed, MacSays, MacState, MacRequest, MacDel, Got

LEMMA SaidNext == ASSUME Core, FwsNext, NEW m \in {"open", "close", "del"}, NEW e \in Entry
  PROVE  /\ Said(sig', m, e) => Said(sig, m, e) \/ (m = "open" /\ FwWake(e))
                                \/ (m = "close" /\ FwSleep(e)) \/ (m = "del" /\ FwDel(e))
         /\ m = "close" /\ Said(sig, m, e) /\ ~Said(sig', m, e) => MacState("close") /\ Head(sig).e = e
<1>1. sig \in Seq(Signals)
  BY DEF Core, Types
<1>2. CASE sig' = sig
  BY <1>2
<1>3. CASE FwTakes
  <2>1. Head(bus) \in Slot /\ pkt[Head(bus)].e \in Entry /\ NowGen(Head(bus)) \in 0..1
        /\ RetAfter(Head(bus))
    BY <1>3, TakesIs, FlightPkt
  <2>2. PICK k \in Tells : sig' = Append(sig, [m |-> k, s |-> Head(bus), e |-> pkt[Head(bus)].e,
                                               gen |-> NowGen(Head(bus))])
    BY <2>1 DEF RetAfter
  <2> DEFINE x == [m |-> k, s |-> Head(bus), e |-> pkt[Head(bus)].e, gen |-> NowGen(Head(bus))]
  <2>3. x \in Signals /\ x.m # m
    BY <2>1 DEF Signals, Tells
  <2>4. sig' = Append(sig, x)
    BY <2>2
  <2> HIDE DEF x
  <2>5. QED
    BY <1>1, <2>3, <2>4, SaidAppend
<1>4. CASE \E y \in Entry : FwStep(y)
  <2>1. PICK y \in Entry : FwStep(y)
    BY <1>4
  <2>2. \E k \in {"close", "open", "request", "del"} :
           /\ sig' = Append(sig, [m |-> k, s |-> 0, e |-> y, gen |-> 0])
           /\ k = "close" => FwSleep(y)
           /\ k = "open" => FwWake(y)
           /\ k = "del" => FwDel(y)
    BY <2>1 DEF FwStep, FwSleep, FwWake, FwRequest, FwDel, Signal
  <2>3. PICK k \in {"close", "open", "request", "del"} :
           /\ sig' = Append(sig, [m |-> k, s |-> 0, e |-> y, gen |-> 0])
           /\ k = "close" => FwSleep(y)
           /\ k = "open" => FwWake(y)
           /\ k = "del" => FwDel(y)
    BY <2>2
  <2> DEFINE x == [m |-> k, s |-> 0, e |-> y, gen |-> 0]
  <2>4. x \in Signals /\ x.m = k /\ x.e = y
    BY DEF Signals
  <2>5. sig' = Append(sig, x)
    BY <2>3
  <2> HIDE DEF x
  <2>6. Said(sig', m, e) <=> Said(sig, m, e) \/ (k = m /\ y = e)
    BY <1>1, <2>4, <2>5, SaidAppend
  <2>7. QED
    BY <2>3, <2>6
<1>5. CASE StatusSent \/ StatusSuppressed \/ MacSays \/ MacDel
  <2>1. sig # <<>> /\ sig' = Tail(sig) /\ (Head(sig).m = "close" => MacState("close"))
    BY <1>5, Heard
  <2>2. QED
    BY <1>1, <2>1, SaidTail
<1>6. QED
  BY <1>2, <1>3, <1>4, <1>5, SigNext

\* A descriptor.
EntSays(x) ==
  \/ Kin(ent'[x], ent[x])
  \/ /\ StatusSuppressed /\ x = pkt[Head(sig).s].e
     /\ ent'[x].occupied = ent[x].occupied /\ ent'[x].open = ent[x].open
     /\ ent'[x].gen = Head(sig).gen
  \/ /\ x = Head(sig).e /\ ent'[x].gen = ent[x].gen
     /\ \/ MacDel /\ ~ent'[x].open
        \/ /\ MacState("open") \/ MacState("close")
           /\ ent'[x].occupied = ent[x].occupied
           /\ MacState("close") /\ ent[x].occupied => ~ent'[x].open

LEMMA EntNext == ASSUME Core, FwsNext, NEW x \in Entry
  PROVE  /\ EntSays(x)
         /\ ent'[x].suppressed => ent[x].suppressed \/ (StatusSuppressed /\ x = pkt[Head(sig).s].e)
<1> DEFINE Holds == /\ EntSays(x)
                    /\ ent'[x].suppressed =>
                         ent[x].suppressed \/ (StatusSuppressed /\ x = pkt[Head(sig).s].e)
<1>2. ASSUME ent' = ent \/ \E f : ent' = Recovered(Vain(f)) PROVE Holds
  BY <1>2, EntVain DEF EntSays
<1>3. ASSUME MacSays \/ MacDel PROVE Holds
  <2>1. PICK m \in {"open", "close"} : (m = "close" /\ MacState("close")) \/ (m = "open" /\ MacState("open"))
                                       \/ MacRequest \/ MacDel
    BY <1>3 DEF MacSays
  <2>2. MacState(m) \/ MacRequest \/ MacDel
    BY <2>1
  <2>3. /\ Alike(ent'[x], ent[x]) /\ ent'[x].gen = ent[x].gen
        /\ x # Head(sig).e => Kin(ent'[x], ent[x])
        /\ MacRequest => Kin(ent'[x], ent[x])
        /\ MacState(m) => /\ ent'[x].occupied = ent[x].occupied
                          /\ x = Head(sig).e /\ ent[x].occupied => ent'[x].open = (m = "open")
        /\ MacDel /\ x = Head(sig).e => ~ent'[x].occupied /\ ~ent'[x].open
    BY <2>2, EntMac
  <2>4. MacState("close") => ~MacState("open")
    BY DEF MacState, Got
  <2>5. QED
    BY <2>1, <2>3, <2>4 DEF EntSays, Alike
<1>4. CASE Unmoving
  BY <1>2, <1>3, <1>4, UnmovingEnt
<1>5. CASE FwTakes
  BY <1>2, <1>5 DEF FwTakes
<1>6. ASSUME WorkOwn \/ WorkBorrow PROVE Holds
  <2>1. PICK f, e, seen, s : Took(f, e, seen, s)
    BY <1>6, WorkTakes
  <2>2. EntAfter(x, e, f, seen)
    BY <2>1, DeqEntIs DEF Took
  <2>3. QED
    BY <2>2 DEF EntAfter, EntSays, Kin
<1>7. ASSUME NEW s \in InFlight, ent' = ReqBack(Out(ent, s), s) PROVE Holds
  <2>1. Kin(ent'[x], ent[x]) /\ (Down(ent'[x], ent[x]) \/ Alike(ent'[x], ent[x]))
    BY <1>7, EntOut
  <2>2. QED
    BY <2>1 DEF EntSays, Down, Alike
<1>8. CASE BusFailed
  BY <1>7, <1>8, BusFailedCore DEF BusFailed, Leaves
<1>9. CASE StatusSent
  BY <1>7, <1>9, StatusSentCore DEF StatusSent, Leaves
<1>10. CASE StatusSuppressed
  <2>1. Head(sig).s \in InFlight
    BY <1>10, StatusSuppressedCore DEF Leaves
  <2>2. /\ x # pkt[Head(sig).s].e => Kin(ent'[x], ent[x]) /\ Alike(ent'[x], ent[x])
        /\ x = pkt[Head(sig).s].e => Expecting(ent'[x], ent[x]) /\ ent'[x].gen = Head(sig).gen
    BY <1>10, <2>1, EntSuppressed
  <2>3. QED
    BY <1>10, <2>2 DEF EntSays, Alike, Expecting
<1>11. CASE WorkRefused
  <2>1. wk.slot \in InFlight
    BY <1>11, WorkRefusedCore DEF Leaves
  <2>2. Kin(ent'[x], ent[x]) /\ ent'[x].suppressed = ent[x].suppressed
    BY <1>11, <2>1, EntRefused
  <2>3. QED
    BY <2>2 DEF EntSays
<1>12. CASE \E e \in Entry, f \in Fifo : ProcessSkb(e, f)
  BY <1>2, <1>12 DEF ProcessSkb
<1>13. QED
  BY <1>3, <1>4, <1>5, <1>6, <1>8, <1>9, <1>10, <1>11, <1>12, NextIs

-----------------------------------------------------------------------------
LEMMA AwakeStays == ASSUME Core, FwsNext, \A e \in Entry : ~FwSleep(e) PROVE used'.sleep = used.sleep
<1>1. used \in [pkt : Nat, sleep : Nat, refuse : Nat, other : Nat]
  BY DEF Core, Types
<1>2. \/ used' = used \/ used' = [used EXCEPT !.pkt = @ + 1]
      \/ used' = [used EXCEPT !.refuse = @ + 1] \/ used' = [used EXCEPT !.other = @ + 1]
  BY DEF FwsNext, ProcessSkb, WorkBegin, WorkOwn, WorkOwnDone, WorkBorrow, WorkBorrowDone, WorkSent,
         WorkRefused, BusBlock, BusUnblock, BusFailed, FwTakes, StatusSent, StatusSuppressed,
         MacState, MacRequest, MacDel, FwWake, FwRequest, FwDel
<1>3. /\ used' = [used EXCEPT !.pkt = @ + 1] => used'.sleep = used.sleep
      /\ used' = [used EXCEPT !.refuse = @ + 1] => used'.sleep = used.sleep
      /\ used' = [used EXCEPT !.other = @ + 1] => used'.sleep = used.sleep
  BY <1>1
<1>4. QED
  BY <1>2, <1>3

LEMMA SleepIs == ASSUME Core, NEW e, FwSleep(e)
  PROVE  used'.sleep = used.sleep + 1 /\ used.sleep \in Nat /\ used'.sleep \in Nat
<1>1. used \in [pkt : Nat, sleep : Nat, refuse : Nat, other : Nat]
  BY DEF Core, Types
<1>2. used' = [used EXCEPT !.sleep = @ + 1]
  BY DEF FwSleep
<1>3. QED
  BY <1>1, <1>2

\* The firmware's view of a destination.
LEMMA FwNext == ASSUME Core, FwsNext, NEW x \in Entry
  PROVE  /\ fw[x].gen \in 0..1 /\ fw'[x].gen \in 0..1
         /\ fw[x].asleep \in BOOLEAN /\ fw'[x].asleep \in BOOLEAN
         /\ \/ fw'[x].gen = fw[x].gen
            \/ FwTakes /\ First(Head(bus)) /\ x = pkt[Head(bus)].e /\ fw'[x].gen = 1 - fw[x].gen
         /\ \/ fw'[x].asleep = fw[x].asleep
            \/ FwSleep(x) /\ ~fw[x].asleep /\ fw'[x].asleep
            \/ FwWake(x) /\ fw[x].asleep /\ ~fw'[x].asleep
<1> DEFINE G == \/ fw'[x].gen = fw[x].gen
                \/ FwTakes /\ First(Head(bus)) /\ x = pkt[Head(bus)].e /\ fw'[x].gen = 1 - fw[x].gen
           A == \/ fw'[x].asleep = fw[x].asleep
                \/ FwSleep(x) /\ ~fw[x].asleep /\ fw'[x].asleep
                \/ FwWake(x) /\ fw[x].asleep /\ ~fw'[x].asleep
<1>1. fw \in [Entry -> [asleep : BOOLEAN, gone : BOOLEAN, gen : 0..1, ask : Nat]]
  BY DEF Core, Types
<1>2. CASE fw' = fw
  BY <1>1, <1>2
<1>3. CASE FwTakes
  <2>1. FwAfter(Head(bus)) /\ NowGen(Head(bus)) \in 0..1
    BY <1>3, TakesIs
  <2>2. CASE x # pkt[Head(bus)].e
    BY <1>1, <2>1, <2>2 DEF FwAfter
  <2>3. CASE x = pkt[Head(bus)].e
    BY <1>1, <1>3, <2>1, <2>3 DEF FwAfter, NowGen
  <2>4. QED
    BY <2>2, <2>3
<1>4. CASE \E e \in Entry : FwStep(e)
  <2>1. PICK e \in Entry : FwStep(e)
    BY <1>4
  <2>2. \/ FwSleep(e) /\ ~fw[e].asleep /\ fw' = [fw EXCEPT ![e].asleep = TRUE]
        \/ FwWake(e) /\ fw[e].asleep /\ fw' = [fw EXCEPT ![e].asleep = FALSE, ![e].ask = 0]
        \/ fw' = [fw EXCEPT ![e].ask = 1] \/ fw' = [fw EXCEPT ![e].gone = TRUE]
    BY <2>1 DEF FwStep, FwSleep, FwWake, FwRequest, FwDel
  <2>3. fw[e] \in [asleep : BOOLEAN, gone : BOOLEAN, gen : 0..1, ask : Nat]
    BY <1>1
  <2>4. CASE e # x
    BY <1>1, <2>2, <2>4
  <2>5. CASE e = x
    <3>1. \/ FwSleep(x) /\ ~fw[x].asleep /\ fw'[x] = [fw[x] EXCEPT !.asleep = TRUE]
          \/ FwWake(x) /\ fw[x].asleep /\ fw'[x] = [fw[x] EXCEPT !.asleep = FALSE, !.ask = 0]
          \/ fw'[x] = [fw[x] EXCEPT !.ask = 1] \/ fw'[x] = [fw[x] EXCEPT !.gone = TRUE]
      BY <1>1, <2>2, <2>5
    <3>2. QED
      BY <2>3, <2>5, <3>1
  <2>6. QED
    BY <2>4, <2>5
<1>5. fw' = fw \/ FwTakes \/ \E e \in Entry : FwStep(e)
  BY DEF FwsNext, ProcessSkb, WorkBegin, WorkOwn, WorkOwnDone, WorkBorrow, WorkBorrowDone, WorkSent,
         WorkRefused, BusBlock, BusUnblock, BusFailed, StatusSent, StatusSuppressed,
         MacState, MacRequest, MacDel, FwStep, fwVars
<1>6. QED
  BY <1>2, <1>3, <1>4, <1>5

\* The packets underway, and those that have been suppressed.
UnderSays(x) == \/ x \in ToSet(Underway) /\ pkt'[x] = pkt[x]
                \/ \E f, e, seen : Took(f, e, seen, x)
HangerSays(x) ==
  \/ hanger[x] = "suppressed" /\ pkt'[x].e = pkt[x].e /\ pkt'[x].gen = pkt[x].gen
  \/ /\ StatusSuppressed /\ x = Head(sig).s /\ pkt'[x].e = pkt[x].e /\ pkt'[x].gen = Head(sig).gen

LEMMA OnlyNext == ASSUME Core, FwsNext
  PROVE  /\ Core'
         /\ \/ Only({})
            \/ \E e \in Entry, f \in Fifo, s \in Slot : Added(e, f, s) /\ Only({s})
                                                   /\ Underway' = Underway /\ supprq' = supprq
            \/ \E f, e, seen, s : Took(f, e, seen, s) /\ Only({s})
            \/ WorkRefused /\ Only({wk.slot})
            \/ FwTakes /\ Only({Head(bus)})
            \/ StatusSuppressed /\ Only({Head(sig).s})
<1>1. CASE Unmoving
  BY <1>1, UnmovingCore, UnmovingOnly
<1>2. CASE \E e \in Entry, f \in Fifo : ProcessSkb(e, f)
  <2>1. PICK e \in Entry, f \in Fifo : ProcessSkb(e, f)
    BY <1>2
  <2>2. Core'
    BY <2>1, ProcessSkbCore
  <2>3. PICK s : Added(e, f, s) /\ Only({s}) /\ supprq' = supprq /\ Underway' = Underway
    BY <2>1, <2>2, SkbOnly
  <2>4. s \in Slot
    BY <2>3 DEF Added
  <2>5. QED
    BY <2>2, <2>3, <2>4
<1>3. CASE WorkOwn \/ WorkBorrow
  BY <1>3, WorkOwnCore, WorkBorrowCore, WorkTakes, TookOnly
<1>4. CASE WorkRefused
  BY <1>4, WorkRefusedCore, RefusedOnly
<1>5. CASE BusFailed
  BY <1>5, BusFailedCore, BusFailedOnly
<1>6. CASE StatusSent
  BY <1>6, StatusSentCore, StatusSentOnly
<1>7. CASE StatusSuppressed
  BY <1>7, StatusSuppressedCore, SuppressedOnly
<1>8. CASE FwTakes
  BY <1>8, FwTakesCore, TakesOnly
<1>9. CASE MacDel
  BY <1>9, MacDelCore, MacDelOnly
<1>10. QED
  BY <1>1, <1>2, <1>3, <1>4, <1>5, <1>6, <1>7, <1>8, <1>9, NextIs

LEMMA UnderNext == ASSUME Core, FwsNext, NEW x \in ToSet(Underway') PROVE UnderSays(x)
<1>1. Core' /\ Placed /\ Placed' /\ ToSet(Underway) = Cur \cup Sta
  BY OnlyNext, PlacedIs, PlacedNext, UnderwayIs
<1>2. x \in InFlight' /\ x \in Slot
  BY <1>1, ViewNext DEF Placed
<1>3. ASSUME NEW S, Only(S), x \notin S PROVE UnderSays(x)
  BY <1>1, <1>2, <1>3 DEF Only, OnlyUnder, OnlyPkt, UnderSays
<1>4. CASE \E e \in Entry, f \in Fifo, s \in Slot : Added(e, f, s) /\ Only({s}) /\ Underway' = Underway
  <2>1. PICK e \in Entry, f \in Fifo, s \in Slot : Added(e, f, s) /\ Only({s}) /\ Underway' = Underway
    BY <1>4
  <2>2. x # s
    BY <1>1, <2>1 DEF Added, Placed
  <2>3. QED
    BY <1>3, <2>1, <2>2
<1>5. CASE \E f, e, seen, s : Took(f, e, seen, s) /\ Only({s})
  BY <1>3, <1>5 DEF UnderSays
<1>6. CASE WorkRefused
  <2>1. wk.at = "hand" /\ wk'.at # "hand" /\ bus' = bus /\ Only({wk.slot})
    BY <1>1, <1>6, NotHanded, RefusedOnly
  <2>2. x # wk.slot
    BY <2>1, UnderwayBack
  <2>3. QED
    BY <1>3, <2>1, <2>2
<1>7. CASE FwTakes
  BY <1>1, <1>3, <1>7, TakesOnly
<1>8. CASE StatusSuppressed
  <2>1. Only({Head(sig).s}) /\ Head(sig).s \in Ret /\ Underway' = Underway
    BY <1>1, <1>8, SuppressedOnly
  <2>2. x # Head(sig).s
    BY <1>1, <2>1 DEF Placed
  <2>3. QED
    BY <1>3, <2>1, <2>2
<1>9. QED
  BY <1>3, <1>4, <1>5, <1>6, <1>7, <1>8, OnlyNext

-----------------------------------------------------------------------------
LEMMA KeepNext == ASSUME Core, FwsNext PROVE Keep(InFlight')
<1>1. CASE Unmoving
  BY <1>1, UnmovingCore DEF Still
<1>2. CASE \E e \in Entry, f \in Fifo : ProcessSkb(e, f)
  BY <1>2, ProcessSkbCore DEF Still
<1>3. CASE WorkOwn \/ WorkBorrow
  BY <1>3, WorkTakes DEF Took, Joins
<1>4. CASE WorkRefused
  BY <1>4, WorkRefusedCore DEF Leaves
<1>5. CASE BusFailed
  BY <1>5, BusFailedCore DEF Leaves
<1>6. CASE StatusSent
  BY <1>6, StatusSentCore DEF Leaves
<1>7. CASE StatusSuppressed
  BY <1>7, StatusSuppressedCore DEF Leaves
<1>8. CASE FwTakes
  BY <1>8, FwTakesCore DEF Still
<1>9. CASE MacDel
  BY <1>9, MacDelCore DEF Still
<1>10. QED
  BY <1>1, <1>2, <1>3, <1>4, <1>5, <1>6, <1>7, <1>8, <1>9, NextIs

LEMMA HangerNext == ASSUME Core, FwsNext, NEW x \in Slot, hanger'[x] = "suppressed" PROVE HangerSays(x)
<1>0. hanger \in [Slot -> {"free", "inuse", "suppressed"}]
  BY DEF Core, Types
<1>1. CASE Unmoving
  BY <1>1, UnmovingIs DEF HangerSays
<1>2. CASE \E e \in Entry, f \in Fifo : ProcessSkb(e, f)
  <2>0. PICK e \in Entry, f \in Fifo : ProcessSkb(e, f)
    BY <1>2
  <2>1. PICK s : Added(e, f, s)
    BY <2>0, ProcessSkbCore, SkbOnly
  <2>2. QED
    BY <2>1 DEF Added, HangerSays
<1>3. CASE WorkOwn \/ WorkBorrow
  <2>1. PICK f, e, seen, s : Took(f, e, seen, s)
    BY <1>3, WorkTakes
  <2>2. Marks(e, f, s) /\ hanger' = hanger /\ pkt[s].e = e
    BY <2>1, TookIs DEF Took
  <2>3. QED
    BY <2>2 DEF Marks, HangerSays
<1>4. ASSUME NEW S, Freed(S) PROVE HangerSays(x)
  BY <1>4, FreedTypes DEF Core, HangerSays
<1>5. CASE WorkRefused
  BY <1>4, <1>5, WorkRefusedCore, RefusedOnly DEF HangerSays
<1>6. CASE BusFailed \/ StatusSent \/ MacDel
  BY <1>4, <1>6 DEF BusFailed, StatusSent, MacDel, Finalize
<1>7. CASE StatusSuppressed
  BY <1>4, <1>7, StatusSuppressedCore, SuppressedOnly DEF HangerSays
<1>8. CASE FwTakes
  BY <1>8, TakesIs DEF HangerSays
<1>9. QED
  BY <1>1, <1>2, <1>3, <1>5, <1>6, <1>7, <1>8, NextIs

-----------------------------------------------------------------------------
LEMMA HeadSaid == ASSUME Core, sig # <<>> PROVE Said(sig, Head(sig).m, Head(sig).e)
  BY HeadIs, TailAt DEF Said

\* Who has no descriptor, or is about to lose it, has left.
LEMMA LeavingStep == ASSUME Core, Leaving, FwsNext PROVE Leaving'
<1> SUFFICES ASSUME NEW e \in Entry, ~ent'[e].occupied \/ Said(sig', "del", e) PROVE fw'[e].gone
  BY DEF Leaving, Said
<1>1. CASE FwDel(e)
  <2>1. fw' = [fw EXCEPT ![e].gone = TRUE]
    BY <1>1 DEF FwDel
  <2>2. fw \in [Entry -> [asleep : BOOLEAN, gone : BOOLEAN, gen : 0..1, ask : Nat]]
    BY DEF Core, Types
  <2>3. fw'[e] = [fw[e] EXCEPT !.gone = TRUE] /\ fw[e] \in [asleep : BOOLEAN, gone : BOOLEAN, gen : 0..1, ask : Nat]
    BY <2>1, <2>2
  <2>4. QED
    BY <2>3
<1>2. CASE Said(sig', "del", e) /\ ~FwDel(e)
  BY <1>2, SaidNext, FwGrows DEF Leaving
<1>3. CASE ~ent'[e].occupied
  <2>1. CASE ~ent[e].occupied
    BY <2>1, FwGrows DEF Leaving
  <2>2. CASE ent[e].occupied
    <3>1. MacDel /\ e = Head(sig).e
      BY <1>3, <2>2, EntNext DEF EntSays, Kin
    <3>2. Said(sig, "del", e)
      BY <3>1, HeadSaid DEF MacDel, Got
    <3>3. QED
      BY <3>2, FwGrows DEF Leaving
  <2>3. QED
    BY <2>1, <2>2
<1>4. QED
  BY <1>1, <1>2, <1>3

-----------------------------------------------------------------------------
(* Over one sleep: a step keeps what is known of a destination.              *)
LEMMA GenUp == ASSUME Core, FwsNext, NEW e \in Entry, Gens(e), fw[e].gen = 1 PROVE fw'[e].gen = 1
<1> SUFFICES ASSUME FwTakes, First(Head(bus)), e = pkt[Head(bus)].e PROVE FALSE
  BY FwNext
<1>1. Head(bus) \in ToSet(Underway)
  BY OnlyNext, TakesOnly, UnderwayIs
<1>2. QED
  BY <1>1 DEF Gens, First

LEMMA SleepsFirst == ASSUME Core, NEW e \in Entry, Sleeps(e), FwSleep(e), used'.sleep <= 1
  PROVE  used.sleep = 0 /\ fw[e].gen = 0 /\ ~Said(sig, "open", e)
  BY SleepIs DEF Sleeps

LEMMA BackFirst == ASSUME Core, StatusSuppressed, NEW e \in Entry, e = pkt[Head(sig).s].e, Returns(e)
  PROVE  Head(sig).gen = 1 /\ fw[e].gen = 1 /\ ~Said(sig, "close", e)
<1>1. sig \in Seq(Signals) /\ sig # <<>> /\ Head(sig).m = "suppressed"
  BY DEF Core, Types, StatusSuppressed, Got
<1>2. 1 \in RetIn(sig) /\ Head(sig) = sig[1] /\ Len(sig) \in Nat
  BY <1>1, TailAt DEF RetIn
<1>3. Head(sig).gen = 1 /\ fw[e].gen = 1 /\ \A j \in 1..Len(sig) : sig[j].m = "close" /\ sig[j].e = e => j < 1
  BY <1>2 DEF Returns
<1>4. QED
  BY <1>2, <1>3 DEF Said

LEMMA SleepsStep == ASSUME Core, FwsNext, Leaving, NEW e \in Entry, Known(e), Known(e)', OneSleep(e)
  PROVE Sleeps(e)'
<1>0. Sleeps(e) /\ Returns(e) /\ Gens(e) /\ used'.sleep <= 1 /\ ~fw[e].gone
  BY DEF OneSleep, Known
<1>1. /\ used.sleep <= used'.sleep /\ used.sleep \in Nat /\ used'.sleep \in Nat
      /\ FwSleep(e) => used'.sleep > 0 /\ used.sleep = 0 /\ fw[e].gen = 0 /\ ~Said(sig, "open", e)
  BY <1>0, FwGrows, SleepIs, SleepsFirst
<1>2. FwWake(e) => ~FwSleep(e)
  BY DEF FwWake, FwSleep
<1>3. /\ Said(sig', "open", e) => Said(sig, "open", e) \/ FwWake(e)
      /\ Said(sig', "close", e) => Said(sig, "close", e) \/ FwSleep(e)
      /\ Said(sig, "close", e) /\ ~Said(sig', "close", e) => MacState("close") /\ Head(sig).e = e
  BY SaidNext
<1>4. /\ \/ fw'[e].asleep = fw[e].asleep
         \/ FwSleep(e) /\ ~fw[e].asleep /\ fw'[e].asleep
         \/ FwWake(e) /\ fw[e].asleep /\ ~fw'[e].asleep
      /\ FwSleep(e) => ~fw[e].asleep
      /\ FwWake(e) => fw[e].asleep /\ ~fw'[e].asleep
  <2>1. FwWake(e) => ~fw'[e].asleep
    <3>1. fw \in [Entry -> [asleep : BOOLEAN, gone : BOOLEAN, gen : 0..1, ask : Nat]]
      BY DEF Core, Types
    <3>2. FwWake(e) => fw' = [fw EXCEPT ![e].asleep = FALSE, ![e].ask = 0]
      BY DEF FwWake
    <3>3. fw[e] \in [asleep : BOOLEAN, gone : BOOLEAN, gen : 0..1, ask : Nat]
      BY <3>1
    <3>4. FwWake(e) => fw'[e] = [fw[e] EXCEPT !.asleep = FALSE, !.ask = 0]
      BY <3>1, <3>2
    <3>5. QED
      BY <3>3, <3>4
  <2>2. (FwSleep(e) => ~fw[e].asleep) /\ (FwWake(e) => fw[e].asleep)
    BY DEF FwSleep, FwWake
  <2>3. QED
    BY <2>1, <2>2, FwNext
<1>5. used'.sleep = 0 => ~fw'[e].asleep /\ fw'[e].gen = 0 /\ ~Said(sig', "open", e)
  <2> SUFFICES ASSUME used'.sleep = 0
               PROVE  ~fw'[e].asleep /\ fw'[e].gen = 0 /\ ~Said(sig', "open", e)
    OBVIOUS
  <2>1. ~fw[e].asleep /\ fw[e].gen = 0 /\ ~Said(sig, "open", e)
    BY <1>0, <1>1 DEF Sleeps
  <2>2. ~(FwTakes /\ First(Head(bus)) /\ e = pkt[Head(bus)].e)
    BY <2>1 DEF First
  <2>3. QED
    BY <1>1, <1>3, <1>4, <2>1, <2>2, FwNext
<1>6. fw'[e].asleep => ~Said(sig', "open", e)
  BY <1>0, <1>1, <1>2, <1>3, <1>4 DEF Sleeps
<1>7. fw'[e].asleep /\ ~Said(sig', "close", e) => ~ent'[e].open
  <2> SUFFICES ASSUME fw'[e].asleep, ~Said(sig', "close", e), ent'[e].open PROVE FALSE
    OBVIOUS
  <2>1. FwSleep(e) => Said(sig', "close", e)
    <3>1. FwSleep(e) => sig' = Append(sig, [m |-> "close", s |-> 0, e |-> e, gen |-> 0])
      BY DEF FwSleep, Signal
    <3>2. sig \in Seq(Signals) /\ [m |-> "close", s |-> 0, e |-> e, gen |-> 0] \in Signals
      BY DEF Core, Types, Signals
    <3>3. Said(Append(sig, [m |-> "close", s |-> 0, e |-> e, gen |-> 0]), "close", e)
      BY <3>2, SaidAppend
    <3>4. QED
      BY <3>1, <3>3
  <2>2. fw[e].asleep /\ ~Said(sig, "open", e) /\ ent[e].occupied
    BY <1>0, <1>4, <2>1 DEF Sleeps, Leaving
  <2>3. CASE Said(sig, "close", e)
    <3>1. MacState("close") /\ Head(sig).e = e
      BY <1>3, <2>3
    <3>2. ~ent'[e].open
      <4>1. ent' = [ent EXCEPT ![e].open = FALSE, ![e].request = 0] /\ ent[e] \in Descriptors
        BY <2>2, <3>1, EntTypes DEF MacState
      <4>2. ent \in [Entry -> Descriptors]
        BY EntTypes
      <4>3. ent'[e] = [ent[e] EXCEPT !.open = FALSE, !.request = 0]
        BY <4>1, <4>2
      <4>4. QED
        BY <4>1, <4>3 DEF Descriptors
    <3>3. QED
      BY <3>2
  <2>4. CASE ~Said(sig, "close", e)
    <3>1. ~ent[e].open
      BY <1>0, <2>2, <2>4 DEF Sleeps
    <3>2. MacState("open") \/ MacState("close")
      BY <3>1, EntNext DEF EntSays, Kin
    <3>3. e = Head(sig).e /\ sig # <<>> /\ Head(sig).m \in {"open", "close"}
      BY <3>1, <3>2, EntNext DEF EntSays, Kin, MacState, Got
    <3>4. QED
      BY <2>2, <2>4, <3>3, HeadSaid
  <2>5. QED
    BY <2>3, <2>4
<1>8. ent'[e].gen = 1 => ~Said(sig', "close", e)
  <2> SUFFICES ASSUME ent'[e].gen = 1, Said(sig', "close", e) PROVE FALSE
    OBVIOUS
  <2>1. CASE ent[e].gen = 1
    BY <1>0, <1>1, <1>3, <2>1 DEF Sleeps, Gens
  <2>2. CASE ent[e].gen # 1
    <3>1. StatusSuppressed /\ e = pkt[Head(sig).s].e
      BY <2>2, EntNext DEF EntSays, Kin
    <3>2. fw[e].gen = 1 /\ ~Said(sig, "close", e)
      BY <1>0, <3>1, BackFirst
    <3>3. QED
      BY <1>1, <1>3, <3>2
  <2>3. QED
    BY <2>1, <2>2
<1>9. QED
  BY <1>5, <1>6, <1>7, <1>8 DEF Sleeps, Said

-----------------------------------------------------------------------------
LEMMA ReturnsStep == ASSUME Core, FwsNext, NEW e \in Entry, Known(e)', OneSleep(e) PROVE Returns(e)'
<1>0. Sleeps(e) /\ Returns(e) /\ Gens(e) /\ used'.sleep <= 1 /\ sig \in Seq(Signals) /\ Core'
  BY OnlyNext DEF OneSleep, Known, Core, Types
<1>1. ASSUME NEW i \in RetIn(sig') PROVE pkt'[sig'[i].s].e = pkt[sig'[i].s].e
  <2>1. sig'[i].s \in Ret'
    BY ViewNext DEF Returning
  <2>2. sig'[i].s \in InFlight'
    BY <1>0, <2>1, PlacedNext DEF Placed
  <2>3. QED
    BY <2>2, KeepNext DEF Keep
<1> DEFINE Holds == \A i \in RetIn(sig') : pkt[sig'[i].s].e = e =>
                      /\ sig'[i].gen = 1 /\ fw'[e].gen = 1
                      /\ \A j \in 1..Len(sig') : sig'[j].m = "close" /\ sig'[j].e = e => j < i
<1>2. Holds => Returns(e)'
  BY <1>1 DEF Returns, RetIn
<1>3. fw[e].gen = 1 => fw'[e].gen = 1
  BY <1>0, GenUp
<1>4. CASE sig' = sig
  <2>1. Holds
    BY <1>0, <1>3, <1>4 DEF Returns
  <2>2. QED
    BY <1>2, <2>1
<1>5. CASE StatusSent \/ StatusSuppressed \/ MacSays \/ MacDel
  <2>1. sig # <<>> /\ sig' = Tail(sig)
    BY <1>5, Heard
  <2>2. /\ Len(Tail(sig)) = Len(sig) - 1 /\ Len(sig) \in Nat
        /\ \A i \in 1..Len(Tail(sig)) : Tail(sig)[i] = sig[i + 1] /\ i + 1 \in 1..Len(sig)
    BY <1>0, <2>1, TailAt
  <2>3. ASSUME NEW i \in RetIn(Tail(sig)), pkt[Tail(sig)[i].s].e = e
        PROVE  /\ Tail(sig)[i].gen = 1 /\ fw[e].gen = 1
               /\ \A j \in 1..Len(Tail(sig)) : Tail(sig)[j].m = "close" /\ Tail(sig)[j].e = e => j < i
    <3>1. i + 1 \in RetIn(sig) /\ Tail(sig)[i] = sig[i + 1] /\ i \in Nat
      BY <2>2 DEF RetIn
    <3>2. /\ sig[i + 1].gen = 1 /\ fw[e].gen = 1
          /\ \A j \in 1..Len(sig) : sig[j].m = "close" /\ sig[j].e = e => j < i + 1
      BY <1>0, <2>3, <3>1 DEF Returns
    <3>3. ASSUME NEW j \in 1..Len(Tail(sig)), Tail(sig)[j].m = "close", Tail(sig)[j].e = e PROVE j < i
      <4>1. j + 1 < i + 1
        BY <2>2, <3>2, <3>3
      <4>2. QED
        BY <3>1, <4>1
    <3>4. QED
      BY <3>1, <3>2, <3>3
  <2>4. Holds
    BY <1>3, <2>1, <2>3
  <2>5. QED
    BY <1>2, <2>4
<1>6. ASSUME NEW x \in Signals, sig' = Append(sig, x),
             x.m = "close" /\ x.e = e => fw[e].gen # 1,
             x.m = "suppressed" /\ pkt[x.s].e = e => x.gen = 1 /\ fw'[e].gen = 1
      PROVE  Returns(e)'
  <2>1. /\ Len(sig') = Len(sig) + 1 /\ Len(sig) \in Nat
        /\ sig'[Len(sig) + 1] = x
        /\ \A i \in 1..Len(sig) : sig'[i] = sig[i] /\ i \in 1..Len(sig) + 1 /\ i < Len(sig) + 1
        /\ \A i \in 1..Len(sig) + 1 : i # Len(sig) + 1 => i \in 1..Len(sig)
    BY <1>0, <1>6, AppendAt
  <2>2. ASSUME NEW i \in RetIn(sig'), pkt[sig'[i].s].e = e
        PROVE  /\ sig'[i].gen = 1 /\ fw'[e].gen = 1
               /\ \A j \in 1..Len(sig') : sig'[j].m = "close" /\ sig'[j].e = e => j < i
    <3>1. CASE i = Len(sig) + 1
      <4>1. x.m = "suppressed" /\ sig'[i] = x
        BY <2>1, <3>1 DEF RetIn
      <4>2. \A j \in 1..Len(sig') : sig'[j].m = "close" => j < i
        BY <2>1, <3>1, <4>1
      <4>3. QED
        BY <1>6, <2>2, <4>1, <4>2
    <3>2. CASE i # Len(sig) + 1
      <4>1. i \in RetIn(sig) /\ sig'[i] = sig[i]
        BY <2>1, <3>2 DEF RetIn
      <4>2. /\ sig[i].gen = 1 /\ fw[e].gen = 1
            /\ \A j \in 1..Len(sig) : sig[j].m = "close" /\ sig[j].e = e => j < i
        BY <1>0, <2>2, <4>1 DEF Returns
      <4>3. ASSUME NEW j \in 1..Len(sig'), sig'[j].m = "close", sig'[j].e = e PROVE j < i
        BY <1>6, <2>1, <4>2, <4>3
      <4>4. QED
        BY <1>3, <4>1, <4>2, <4>3
    <3>3. QED
      BY <3>1, <3>2
  <2>3. QED
    BY <1>2, <2>2
<1>7. CASE FwTakes
  <2> DEFINE s == Head(bus)
  <2>1. /\ s \in Slot /\ pkt[s].e \in Entry /\ NowGen(s) \in 0..1 /\ RetAfter(s) /\ FwAfter(s)
        /\ s \in ToSet(Underway) /\ pkt[s].gen \in 0..1
    <3>1. s \in InFlight /\ NowGen(s) \in 0..1 /\ RetAfter(s) /\ FwAfter(s)
      BY <1>7, TakesIs
    <3>2. s \in ToSet(Underway)
      BY <1>0, <1>7, TakesOnly, UnderwayIs
    <3>3. pkt[s].gen \in 0..1
      BY <3>1, FlightPkt DEF Packets
    <3>4. QED
      BY <3>1, <3>2, <3>3, FlightPkt
  <2> HIDE DEF s
  <2>2. PICK k \in Tells : /\ k = "suppressed" <=> Turned(s)
                           /\ sig' = Append(sig, [m |-> k, s |-> s, e |-> pkt[s].e, gen |-> NowGen(s)])
    BY <2>1 DEF RetAfter
  <2> DEFINE x == [m |-> k, s |-> s, e |-> pkt[s].e, gen |-> NowGen(s)]
  <2>3. x \in Signals /\ x.m = k /\ x.m # "close" /\ x.s = s /\ x.gen = NowGen(s)
    BY <2>1 DEF Signals, Tells
  <2>4. ASSUME Turned(s), pkt[s].e = e PROVE NowGen(s) = 1 /\ fw'[e].gen = 1
    <3>1. fw[e].gen \in 0..1 /\ fw'[e].gen = NowGen(s)
      BY <2>1, <2>4, FwNext DEF FwAfter
    <3>2. CASE First(s)
      <4>1. fw[e].gen # 1
        BY <1>0, <2>1, <2>4, <3>2 DEF Gens, First
      <4>2. QED
        BY <2>4, <3>1, <3>2, <4>1 DEF NowGen
    <3>3. CASE ~First(s)
      <4>1. pkt[s].gen # fw[e].gen
        BY <2>4, <3>3 DEF Turned
      <4>2. fw[e].gen = 1
        BY <1>0, <2>1, <2>4, <3>1, <4>1 DEF Gens
      <4>3. QED
        BY <2>4, <3>1, <3>3, <4>2 DEF NowGen
    <3>4. QED
      BY <3>2, <3>3
  <2>5. sig' = Append(sig, x)
    BY <2>2
  <2> HIDE DEF x
  <2>6. QED
    BY <1>6, <2>2, <2>3, <2>4, <2>5
<1>8. CASE \E y \in Entry : FwStep(y)
  <2>1. PICK y \in Entry : FwStep(y)
    BY <1>8
  <2>2. PICK k \in {"close", "open", "request", "del"} :
           /\ sig' = Append(sig, [m |-> k, s |-> 0, e |-> y, gen |-> 0])
           /\ k = "close" => FwSleep(y)
    BY <2>1 DEF FwStep, FwSleep, FwWake, FwRequest, FwDel, Signal
  <2> DEFINE x == [m |-> k, s |-> 0, e |-> y, gen |-> 0]
  <2>3. x \in Signals /\ x.m = k /\ x.m # "suppressed" /\ x.e = y
    BY DEF Signals
  <2>4. sig' = Append(sig, x)
    BY <2>2
  <2> HIDE DEF x
  <2>5. x.m = "close" /\ x.e = e => fw[e].gen # 1
    BY <1>0, <2>2, <2>3, SleepsFirst
  <2>6. QED
    BY <1>6, <2>3, <2>4, <2>5
<1>9. QED
  BY <1>4, <1>5, <1>7, <1>8, SigNext

-----------------------------------------------------------------------------
LEMMA GensStep == ASSUME Core, FwsNext, Leaving, NEW e \in Entry, Known(e)', OneSleep(e) PROVE Gens(e)'
<1>0. Sleeps(e) /\ Returns(e) /\ Gens(e) /\ used'.sleep <= 1 /\ Core' /\ ent[e].gen \in 0..1
  BY OnlyNext, EntTypes DEF OneSleep, Known
<1>1. /\ fw[e].gen = 1 => fw'[e].gen = 1
      /\ FwSleep(e) => fw[e].gen = 0
  BY <1>0, GenUp, SleepsFirst
<1>2. StatusSuppressed /\ e = pkt[Head(sig).s].e => Head(sig).gen = 1 /\ fw[e].gen = 1
  BY <1>0, BackFirst
<1>3. ent[e].gen = 1 => ent'[e].gen = 1
  BY <1>2, EntNext DEF EntSays, Kin
<1>4. ent'[e].suppressed => ent'[e].gen = 1
  <2>1. CASE StatusSuppressed /\ e = pkt[Head(sig).s].e
    <3>1. ent'[e].gen = Head(sig).gen
      <4>1. Head(sig).s \in InFlight
        BY <2>1, StatusSuppressedCore DEF Leaves
      <4>2. QED
        BY <2>1, <4>1, EntSuppressed
    <3>2. QED
      BY <1>2, <2>1, <3>1
  <2>2. CASE ~(StatusSuppressed /\ e = pkt[Head(sig).s].e)
    BY <1>0, <1>3, <2>2, EntNext DEF Gens
  <2>3. QED
    BY <2>1, <2>2
<1>5. ent'[e].gen = 1 => fw'[e].gen = 1
  <2>1. CASE ent[e].gen = 1
    BY <1>0, <1>1, <2>1 DEF Gens
  <2>2. CASE ent[e].gen # 1
    BY <1>1, <1>2, <2>2, EntNext DEF EntSays, Kin
  <2>3. QED
    BY <2>1, <2>2
<1>6. ASSUME NEW x \in ToSet(Underway'), pkt'[x].e = e, pkt'[x].gen = 1
      PROVE  ent'[e].gen = 1 /\ (fw'[e].asleep => pkt'[x].req)
  <2>1. CASE x \in ToSet(Underway) /\ pkt'[x] = pkt[x]
    <3>1. ent[e].gen = 1 /\ (fw[e].asleep => pkt[x].req)
      BY <1>0, <1>6, <2>1 DEF Gens
    <3>2. ~FwSleep(e)
      BY <1>0, <1>1, <3>1 DEF Gens
    <3>3. fw'[e].asleep => fw[e].asleep
      BY <3>2, FwNext
    <3>4. QED
      BY <1>3, <2>1, <3>1, <3>3
  <2>2. CASE \E f, y, seen : Took(f, y, seen, x)
    <3>1. PICK f, y, seen : Took(f, y, seen, x)
      BY <2>2
    <3>2. Marks(e, f, x) /\ fw' = fw /\ x \in Slot /\ pkt[x].e = e
      <4>1. Marks(y, f, x) /\ fw' = fw /\ x \in Slot /\ pkt[x].e = y
        BY <3>1, TookIs DEF Took
      <4>2. y = e
        BY <1>6, <4>1 DEF Marks
      <4>3. QED
        BY <4>1, <4>2
    <3>3. ent[e].gen = 1
      <4>1. hanger[x] = "suppressed" => ent[e].gen = 1
        BY <1>0, <3>2 DEF Gens
      <4>2. QED
        BY <1>6, <3>2, <4>1 DEF Marks
    <3>4. ASSUME fw[e].asleep PROVE pkt'[x].req
      <4>1. ~ent[e].open
        BY <1>0, <3>3, <3>4 DEF Sleeps
      <4>2. ent[e].request > 0
        BY <3>2, <4>1, EntTypes DEF Marks, Closed
      <4>3. QED
        BY <3>2, <4>2 DEF Marks
    <3>5. QED
      BY <1>3, <3>2, <3>3, <3>4
  <2>3. QED
    BY <1>6, <2>1, <2>2, UnderNext DEF UnderSays
<1>7. ASSUME NEW x \in Slot, hanger'[x] = "suppressed", pkt'[x].e = e
      PROVE  pkt'[x].gen = 1 /\ ent'[e].gen = 1
  <2>1. CASE hanger[x] = "suppressed" /\ pkt'[x].e = pkt[x].e /\ pkt'[x].gen = pkt[x].gen
    BY <1>0, <1>3, <1>7, <2>1 DEF Gens
  <2>2. CASE StatusSuppressed /\ x = Head(sig).s /\ pkt'[x].e = pkt[x].e /\ pkt'[x].gen = Head(sig).gen
    <3>1. Head(sig).s \in InFlight /\ e = pkt[Head(sig).s].e
      BY <1>7, <2>2, StatusSuppressedCore DEF Leaves
    <3>2. ent'[e].gen = Head(sig).gen
      BY <2>2, <3>1, EntSuppressed
    <3>3. QED
      BY <1>2, <2>2, <3>1, <3>2
  <2>3. QED
    BY <1>7, <2>1, <2>2, HangerNext DEF HangerSays
<1>8. \A s \in ToSet(Underway') : pkt'[s].e = e /\ pkt'[s].gen = 1 =>
        ent'[e].gen = 1 /\ (fw'[e].asleep => pkt'[s].req)
  BY <1>6
<1>9. QED
  BY <1>4, <1>5, <1>7, <1>8 DEF Gens, ToSet

LEMMA KnownStep == ASSUME Core, FwsNext, Leaving, NEW e \in Entry, Known(e), Known(e)', OneSleep(e)
  PROVE OneSleep(e)'
  BY SleepsStep, ReturnsStep, GensStep DEF OneSleep

LEMMA OneSleepInit == ASSUME FwsInit PROVE Leaving /\ \A e \in Entry : OneSleep(e)
<1>1. /\ sig = <<>> /\ bus = <<>> /\ wk = Idle /\ hanger = [s \in Slot |-> "free"]
      /\ \A e \in Entry : ent[e].occupied /\ ~ent[e].suppressed /\ ent[e].gen = 0
      /\ \A e \in Entry : ~fw[e].asleep /\ fw[e].gen = 0
  BY DEF FwsInit
<1>2. \A m, e : ~Said(sig, m, e)
  BY <1>1 DEF Said
<1>3. RetIn(sig) = {} /\ ToSet(Underway) = {}
  BY <1>1 DEF RetIn, Underway, Idle, ToSet
<1>4. Leaving
  BY <1>1, <1>2 DEF Leaving
<1>5. ASSUME NEW e \in Entry PROVE OneSleep(e)
  BY <1>1, <1>2, <1>3 DEF OneSleep, Sleeps, Returns, Gens
<1>6. QED
  BY <1>4, <1>5

-----------------------------------------------------------------------------
(* A suppressed destination keeps count of the packets to wait for, and is   *)
(* suppressed no more only when there are none.                              *)
LEMMA CountStep == ASSUME Core, FwsNext, NEW e \in Entry, ~Tossed(e),
                          ent[e].suppressed => ent[e].supprTransit = Cardinality(Of(e)),
                          ent[e].transit = Cardinality(Of(e))
  PROVE  /\ ent'[e].suppressed => ent'[e].supprTransit = Cardinality(NowOf(e))
         /\ ent[e].suppressed /\ ~ent'[e].suppressed => ent[e].supprTransit = 0
<1> DEFINE Holds == /\ ent'[e].suppressed => ent'[e].supprTransit = Cardinality(NowOf(e))
                    /\ ent[e].suppressed /\ ~ent'[e].suppressed => ent[e].supprTransit = 0
<1>1. Cardinality(Of(e)) \in Nat /\ ent[e].transit \in Int /\ ent[e].supprTransit \in Int
  BY FlightCounts, EntTypes
<1>2. ASSUME \/ Unmoving \/ FwTakes \/ MacDel
             \/ \E x \in Entry, f \in Fifo : ProcessSkb(x, f)
      PROVE  Holds
  <2>1. /\ Still /\ ent'[e].supprTransit = ent[e].supprTransit
        /\ (ent'[e].suppressed => ent[e].suppressed)
        /\ ent[e].suppressed /\ ~ent'[e].suppressed => ent[e].supprTransit = 0
    BY <1>2, StillEnt
  <2>2. NowOf(e) = Of(e)
    BY <2>1, StillCounts
  <2>3. QED
    BY <2>1, <2>2
<1>3. ASSUME WorkOwn \/ WorkBorrow PROVE Holds
  <2>1. PICK f, x, seen, s : Took(f, x, seen, s)
    BY <1>3, WorkTakes
  <2>2. Joins(s) /\ pkt[s].e = x /\ EntAfter(e, x, f, seen) /\ Marks(x, f, s) /\ seen \in SUBSET Vain(f)
    BY <2>1, DeqEntIs, TookIs DEF Took
  <2>3. Cardinality(NowOf(e)) = Cardinality(Of(e)) + (IF x = e THEN 1 ELSE 0)
    BY <2>2, JoinsCounts
  <2>4. ASSUME ent'[e].suppressed PROVE ent'[e].supprTransit = Cardinality(NowOf(e))
    <3>1. ent[e].suppressed /\ (e = x => supprq[x][f] # <<>>)
      BY <2>2, <2>4 DEF EntAfter
    <3>2. ent'[e].supprTransit = IF x = e THEN ent[e].supprTransit + 1 ELSE ent[e].supprTransit
      BY <2>2, <3>1 DEF EntAfter
    <3>3. QED
      BY <1>1, <2>3, <3>1, <3>2
  <2>5. ASSUME ent[e].suppressed, ~ent'[e].suppressed PROVE ent[e].supprTransit = 0
    <3>1. e \in seen \/ (e = x /\ supprq[x][f] = <<>>)
      BY <2>2, <2>5 DEF EntAfter
    <3>2. CASE e \in seen
      BY <2>2, <3>2 DEF Vain
    <3>3. CASE e = x /\ supprq[x][f] = <<>>
      BY <2>2, <2>5, <3>3 DEF Marks, HoldsBack
    <3>4. QED
      BY <3>1, <3>2, <3>3
  <2>6. QED
    BY <2>4, <2>5
<1>4. ASSUME NEW s, Leaves(s), IF pkt[s].e = e THEN Down(ent'[e], ent[e]) ELSE Alike(ent'[e], ent[e])
      PROVE  Holds
  <2>1. /\ Cardinality(NowOf(e)) = Cardinality(Of(e)) - (IF pkt[s].e = e THEN 1 ELSE 0)
        /\ pkt[s].e = e => Cardinality(Of(e)) > 0
    BY <1>4, LeavesCounts
  <2>2. QED
    BY <1>1, <1>4, <2>1 DEF Down, Alike
<1>5. CASE BusFailed
  <2>1. Leaves(Head(bus)) /\ ent' = ReqBack(Out(ent, Head(bus)), Head(bus))
    BY <1>5, BusFailedCore DEF BusFailed
  <2>2. QED
    BY <1>4, <2>1, EntOut DEF Leaves
<1>6. CASE StatusSent
  <2>1. Leaves(Head(sig).s) /\ ent' = ReqBack(Out(ent, Head(sig).s), Head(sig).s)
    BY <1>6, StatusSentCore DEF StatusSent
  <2>2. QED
    BY <1>4, <2>1, EntOut DEF Leaves
<1>7. CASE StatusSuppressed
  <2>1. Leaves(Head(sig).s)
    BY <1>7, StatusSuppressedCore
  <2>2. /\ e # pkt[Head(sig).s].e => Alike(ent'[e], ent[e])
        /\ e = pkt[Head(sig).s].e => Expecting(ent'[e], ent[e])
    BY <1>7, <2>1, EntSuppressed DEF Leaves
  <2>3. /\ Cardinality(NowOf(e)) = Cardinality(Of(e)) - (IF pkt[Head(sig).s].e = e THEN 1 ELSE 0)
        /\ pkt[Head(sig).s].e = e => Cardinality(Of(e)) > 0
    BY <2>1, LeavesCounts
  <2>4. QED
    BY <1>1, <2>2, <2>3 DEF Expecting, Alike
<1>8. CASE WorkRefused
  <2>1. Leaves(wk.slot)
    BY <1>8, WorkRefusedCore
  <2>2. /\ e # pkt[wk.slot].e => Alike(ent'[e], ent[e])
        /\ ent'[e].suppressed = ent[e].suppressed
        /\ e = pkt[wk.slot].e /\ Fits(wk.slot) =>
             ent'[e].supprTransit = ent[e].supprTransit - (IF ent[e].suppressed THEN 1 ELSE 0)
    BY <1>8, <2>1, EntRefused DEF Leaves
  <2>3. Cardinality(NowOf(e)) = Cardinality(Of(e)) - (IF pkt[wk.slot].e = e THEN 1 ELSE 0)
    BY <2>1, LeavesCounts
  <2>4. e = pkt[wk.slot].e => Fits(wk.slot)
    BY <1>8 DEF Tossed
  <2>5. QED
    BY <1>1, <2>2, <2>3, <2>4 DEF Alike
<1>9. QED
  BY <1>2, <1>3, <1>5, <1>6, <1>7, <1>8, NextIs

LEMMA RetNext == ASSUME Core, FwsNext, NEW x \in Returning(sig')
  PROVE  x \in Ret \/ (FwTakes /\ x = Head(bus) /\ Turned(x))
<1>1. CASE sig' = sig \/ StatusSent \/ StatusSuppressed \/ MacSays \/ MacDel
  <2>1. OnlyRet({})
    BY <1>1, Heard, RetOnly
  <2>2. QED
    BY <2>1 DEF OnlyRet
<1>2. CASE \E y \in Entry : FwStep(y)
  <2>1. OnlyRet({})
    BY <1>2, UnmovingIs, RetOnly DEF Unmoving
  <2>2. QED
    BY <2>1 DEF OnlyRet
<1>3. CASE FwTakes
  BY <1>3, RetJoins
<1>4. QED
  BY <1>1, <1>2, <1>3, SigNext

LEMMA AwaitedStep == ASSUME Core, FwsNext, Leaving, NEW e \in Entry, Calm(e), Known(e)', ~Tossed(e),
                            OneSleep(e), Awaited(e)
  PROVE Awaited(e)'
<1>1. /\ ent[e].suppressed => ent[e].supprTransit = Cardinality(Of(e))
      /\ ent[e].transit = Cardinality(Of(e))
  BY DEF Awaited, Calm
<1>2. /\ ent'[e].suppressed => ent'[e].supprTransit = Cardinality(NowOf(e))
      /\ ent[e].suppressed /\ ~ent'[e].suppressed => ent[e].supprTransit = 0
  BY <1>1, CountStep
<1>3. /\ Core' /\ Placed /\ Placed' /\ OneSleep(e)' /\ Gens(e)' /\ Gens(e) /\ Returns(e)
      /\ ToSet(Underway) = Cur \cup Sta
  BY OnlyNext, PlacedIs, PlacedNext, KnownStep, UnderwayIs DEF Calm, OneSleep
<1>4. ASSUME ~ent'[e].suppressed, ent'[e].gen = 1, NEW x \in Ret' \cup Sta', pkt'[x].e = e PROVE FALSE
  <2>1. ent[e].gen = 1 /\ fw[e].gen = 1 /\ fw'[e].gen = 1
    <3>1. ~(StatusSuppressed /\ e = pkt[Head(sig).s].e)
      <4>1. StatusSuppressed => Head(sig).s \in InFlight
        BY StatusSuppressedCore DEF Leaves
      <4>2. QED
        BY <1>4, <4>1, EntSuppressed DEF Expecting
    <3>2. ent[e].gen = 1
      BY <1>4, <3>1, EntNext DEF EntSays, Kin
    <3>3. QED
      BY <1>3, <3>2, GenUp DEF Gens
  <2>2. \A y \in Ret \cup Sta : pkt[y].e # e
    <3>1. CASE ent[e].suppressed
      <4>1. Cardinality(Of(e)) = 0
        BY <1>1, <1>2, <1>4, <3>1
      <4>2. Of(e) = {}
        BY <4>1, FlightCounts, FS_EmptySet
      <4>3. QED
        BY <1>3, <4>2 DEF Of, Placed
    <3>2. CASE ~ent[e].suppressed
      BY <2>1, <3>2 DEF Awaited
    <3>3. QED
      BY <3>1, <3>2
  <2>3. pkt[x].e = e
    BY <1>3, <1>4, KeepNext DEF Placed, Keep
  <2>4. CASE x \in Sta'
    <3>1. x \in ToSet(Underway') /\ pkt'[x].gen # 1
      BY <1>4, <2>1, <2>4, ViewNext
    <3>2. CASE x \in ToSet(Underway) /\ pkt'[x] = pkt[x]
      BY <2>1, <2>2, <2>3, <3>1, <3>2 DEF Sta
    <3>3. CASE \E f, y, seen : Took(f, y, seen, x)
      <4>1. PICK f, y, seen : Took(f, y, seen, x)
        BY <3>3
      <4>2. Marks(y, f, x) /\ y = e /\ x \in Slot
        BY <2>3, <4>1, TookIs DEF Took
      <4>3. QED
        BY <1>3, <2>1, <2>3, <3>1, <4>2 DEF Marks, Gens
    <3>4. QED
      BY <3>1, <3>2, <3>3, UnderNext DEF UnderSays
  <2>5. CASE x \in Ret'
    <3>1. x \in Ret \/ (FwTakes /\ x = Head(bus) /\ Turned(x))
      BY <2>5, RetNext, ViewNext
    <3>2. ASSUME FwTakes, x = Head(bus), Turned(x) PROVE FALSE
      <4>1. x \in Cur \cup Sta
        BY <1>3, <3>2, TakesOnly
      <4>2. ~First(x)
        BY <1>3, <2>1, <2>3, <4>1 DEF First, Gens
      <4>3. x \in Sta
        BY <1>3, <3>2, <4>1, <4>2 DEF Turned, Sta
      <4>4. QED
        BY <2>2, <2>3, <4>3
    <3>3. QED
      BY <2>2, <2>3, <3>1, <3>2
  <2>6. QED
    BY <1>4, <2>4, <2>5
<1>5. Of(e)' = NowOf(e)
  BY DEF Of, NowOf
<1>6. QED
  BY <1>2, <1>4, <1>5 DEF Awaited

-----------------------------------------------------------------------------
LEMMA WkNext == ASSUME Core, FwsNext, wk'.at = "hand"
  PROVE  (wk.at = "hand" /\ wk' = wk) \/ \E f, e, seen, s : Took(f, e, seen, s)
<1>1. CASE WorkBegin \/ WorkOwnDone \/ WorkBorrowDone \/ WorkSent \/ WorkRefused
  BY <1>1, NotHanded
<1>2. CASE WorkOwn \/ WorkBorrow
  BY <1>2, WorkTakes
<1>3. CASE wk' = wk
  BY <1>3
<1>4. QED
  BY <1>1, <1>2, <1>3 DEF FwsNext, ProcessSkb, BusBlock, BusUnblock, BusFailed, FwTakes, StatusSent,
    StatusSuppressed, MacState, MacRequest, MacDel, FwSleep, FwWake, FwRequest, FwDel, Rest

LEMMA SupNext == ASSUME Core, FwsNext, NEW x \in Members(supprq')
  PROVE  /\ \/ x \in Sup
            \/ StatusSuppressed /\ x = Head(sig).s /\ x \in Ret
            \/ WorkRefused /\ x = wk.slot
         /\ pkt'[x].e = pkt[x].e /\ pkt'[x].f = pkt[x].f
<1>1. Core' /\ Placed /\ Placed' /\ x \in InQueue' /\ x \in Slot /\ x \notin InFlight'
  BY OnlyNext, PlacedIs, PlacedNext, ViewNext DEF Placed
<1>2. ASSUME NEW S, Only(S), x \notin S PROVE x \in Sup /\ pkt'[x] = pkt[x]
  BY <1>1, <1>2 DEF Only, OnlySup, OnlyPkt
<1>3. CASE Only({})
  BY <1>2, <1>3
<1>4. CASE \E e \in Entry, f \in Fifo, s \in Slot : Added(e, f, s) /\ Only({s})
                                          /\ Underway' = Underway /\ supprq' = supprq
  <2>1. PICK e \in Entry, f \in Fifo, s \in Slot : Added(e, f, s) /\ Only({s}) /\ supprq' = supprq
    BY <1>4
  <2>2. x # s
    BY <1>1, <2>1 DEF Added, Placed, Sup
  <2>3. QED
    BY <1>2, <2>1, <2>2
<1>5. CASE \E f, e, seen, s : Took(f, e, seen, s) /\ Only({s})
  <2>1. PICK f, e, seen, s : Took(f, e, seen, s) /\ Only({s})
    BY <1>5
  <2>2. x # s
    BY <1>1, <2>1 DEF Took
  <2>3. QED
    BY <1>2, <2>1, <2>2
<1>6. CASE WorkRefused
  <2>1. Only({wk.slot})
    BY <1>1, <1>6, RefusedOnly
  <2>2. CASE Fits(wk.slot)
    <3>1. pkt' = pkt
      BY <1>1, <1>6, <2>2, RefusedOnly
    <3>2. QED
      BY <1>2, <1>6, <2>1, <3>1
  <2>3. CASE ~Fits(wk.slot)
    <3>1. supprq' = supprq /\ wk.slot \in InFlight
      BY <1>1, <1>6, <2>3, RefusedOnly
    <3>2. x # wk.slot
      BY <1>1, <3>1 DEF Placed, Sup
    <3>3. QED
      BY <1>2, <2>1, <3>2
  <2>4. QED
    BY <2>2, <2>3
<1>7. CASE FwTakes
  <2>1. Only({Head(bus)}) /\ Head(bus) \in InFlight /\ supprq' = supprq
    BY <1>1, <1>7, TakesOnly, TakesIs
  <2>2. x # Head(bus)
    BY <1>1, <2>1 DEF Placed, Sup
  <2>3. QED
    BY <1>2, <2>1, <2>2
<1>8. CASE StatusSuppressed
  <2>1. /\ Only({Head(sig).s}) /\ Head(sig).s \in InFlight /\ Head(sig).s \in Ret
        /\ \/ pkt'[Head(sig).s].e = pkt[Head(sig).s].e /\ pkt'[Head(sig).s].f = pkt[Head(sig).s].f
           \/ supprq' = supprq
    BY <1>1, <1>8, SuppressedOnly
  <2>2. supprq' = supprq => x # Head(sig).s
    BY <1>1, <2>1 DEF Placed, Sup
  <2>3. QED
    BY <1>2, <1>8, <2>1, <2>2
<1>9. QED
  BY <1>3, <1>4, <1>5, <1>6, <1>7, <1>8, OnlyNext

LEMMA InuseNext == ASSUME Core, FwsNext, NEW x \in InFlight, hanger'[x] = "inuse" PROVE hanger[x] = "inuse"
<1>0. hanger \in [Slot -> {"free", "inuse", "suppressed"}] /\ x \in Slot
  BY PlacedIs DEF Core, Types, Placed
<1>1. CASE hanger' = hanger
  BY <1>1
<1>2. ASSUME NEW S, Freed(S) PROVE hanger[x] = "inuse"
  BY <1>0, <1>2, FreedTypes DEF Core
<1>3. CASE StatusSuppressed
  BY <1>0, <1>2, <1>3, StatusSuppressedCore, SuppressedOnly
<1>4. CASE \E e \in Entry, f \in Fifo : ProcessSkb(e, f)
  <2>0. PICK e \in Entry, f \in Fifo : ProcessSkb(e, f)
    BY <1>4
  <2>1. PICK s : Added(e, f, s)
    BY <2>0, ProcessSkbCore, SkbOnly
  <2>2. QED
    BY <1>0, <2>1 DEF Added
<1>5. CASE WorkRefused
  BY <1>1, <1>2, <1>5, WorkRefusedCore, RefusedOnly
<1>6. QED
  BY <1>1, <1>2, <1>3, <1>4, <1>5
  DEF FwsNext, WorkBegin, WorkOwn, WorkOwnDone, WorkBorrow, WorkBorrowDone, WorkSent, BusBlock, BusUnblock,
    BusFailed, FwTakes, StatusSent, MacState, MacRequest, MacDel, FwSleep, FwWake, FwRequest, FwDel,
    Rest, Finalize

-----------------------------------------------------------------------------
(* When the worker hands over a new packet of the second generation, no      *)
(* older one is on its way back or waiting to be sent again.                 *)
LEMMA LatestTook == ASSUME Core, Core', NEW e \in Entry, NEW f, NEW y, NEW seen, NEW s, Took(f, y, seen, s),
                           pkt'[s].e = e, hanger'[s] = "inuse", pkt'[s].gen = 1, Gens(e)', Awaited(e)'
  PROVE  \A x \in Sup' \cup Ret' \cup Sta' : ~SameRun(x, s)'
<1>1. /\ Marks(e, f, s) /\ s \in Slot /\ hanger' = hanger /\ f \in Fifo /\ e \in Entry
      /\ e \in Ready(f) /\ seen \in SUBSET Vain(f) /\ Deq(e, f, seen)
  <2>1. Marks(y, f, s) /\ y = e
    BY TookIs DEF Took, Marks
  <2>2. QED
    BY <2>1 DEF Took, Marks
<1>2. Placed /\ Placed'
  BY PlacedIs, PlacedNext
<1>3. supprq[e][f] = <<>> /\ supprq' = supprq /\ pkt'[s].gen = ent[e].gen
  BY <1>1, <1>2 DEF Marks, Placed
<1>4. ~ent'[e].suppressed /\ ent'[e].gen = 1
  <2>1. EntAfter(e, e, f, seen)
    BY <1>1, DeqEntIs
  <2>2. ent'[e].suppressed = (ent[e].suppressed /\ e \notin seen /\ (e = e => supprq[e][f] # <<>>))
    BY <2>1 DEF EntAfter
  <2>3. ~ent'[e].suppressed
    BY <1>3, <2>2
  <2>4. QED
    BY <1>3, <2>1, <2>3 DEF EntAfter
<1>5. \A x \in Ret' \cup Sta' : pkt'[x].e # e
  BY <1>4 DEF Awaited
<1>6. ASSUME NEW x \in Sup', SameRun(x, s)' PROVE FALSE
  <2>1. pkt'[x].e = e /\ pkt'[x].f = f /\ x \in ToSet(supprq'[e][f])
    BY <1>1, <1>2, <1>6, PrecedesNext DEF Marks, Placed
  <2>2. QED
    BY <1>3, <2>1 DEF ToSet
<1>7. QED
  BY <1>5, <1>6, PrecedesNext

LEMMA LatestStep == ASSUME Core, FwsNext, Leaving, NEW e \in Entry, Calm(e), Known(e)', ~Tossed(e),
                           OneSleep(e), Awaited(e), Latest(e)
  PROVE Latest(e)'
<1>1. /\ Core' /\ Placed /\ Placed' /\ Gens(e)' /\ Gens(e) /\ Awaited(e)'
      /\ ToSet(Underway) = Cur \cup Sta
  BY OnlyNext, PlacedIs, PlacedNext, KnownStep, AwaitedStep, UnderwayIs DEF Calm, OneSleep
<1> SUFFICES ASSUME wk'.at = "hand", pkt'[wk'.slot].e = e, hanger'[wk'.slot] = "inuse",
                    pkt'[wk'.slot].gen = 1, NEW x \in Sup' \cup Ret' \cup Sta', SameRun(x, wk.slot)'
             PROVE  FALSE
  BY DEF Latest
<1>2. CASE \E f, y, seen, s : Took(f, y, seen, s)
  <2>1. PICK f, y, seen, s : Took(f, y, seen, s)
    BY <1>2
  <2>2. s = wk'.slot
    BY <2>1 DEF Took
  <2>3. SameRun(x, s)'
    BY <2>2, PrecedesNext DEF SameRun
  <2>4. QED
    BY <1>1, <2>1, <2>2, <2>3, LatestTook
<1>3. ASSUME wk.at = "hand", wk' = wk PROVE FALSE
  <2> DEFINE s == wk.slot
  <2>1. s \in InFlight /\ s \in InFlight' /\ s \in ToSet(Underway')
    <3>1. s \in Hand /\ s \in Hand'
      BY <1>3 DEF Hand
    <3>2. s \in ToSet(Underway')
      <4>1. Core' => (/\ ToSet(Underway) = Hand \cup ToSet(bus))'
        BY UnderwayIs, PTL
      <4>2. QED
        BY <1>1, <3>1, <4>1
    <3>3. QED
      BY <3>1, <3>2, InFlightIs, InFlightIsNext
  <2> HIDE DEF s
  <2>2. pkt[s].e = e /\ pkt'[s].f = pkt[s].f
    BY <1>3, <2>1, KeepNext DEF Keep, s
  <2>3. pkt'[s] = pkt[s] /\ s \in ToSet(Underway)
    <3>1. ~\E f, y, seen : Took(f, y, seen, s)
      BY <1>3 DEF Took
    <3>2. QED
      BY <2>1, <3>1, UnderNext DEF UnderSays
  <2>4. hanger[s] = "inuse" /\ pkt[s].gen = 1 /\ ent[e].gen = 1 /\ fw[e].gen = 1 /\ fw'[e].gen = 1
    BY <1>1, <1>3, <2>1, <2>2, <2>3, InuseNext, GenUp DEF Gens, s
  <2>5. \A z \in Sup \cup Ret \cup Sta : ~SameRun(z, s)
    BY <1>3, <2>2, <2>4 DEF Latest, s
  <2>6. pkt'[x].e = e /\ pkt'[x].f = pkt[s].f
    BY <1>3, <2>2, PrecedesNext DEF SameRun, s
  <2>7. CASE x \in Sup'
    <3>1. SameRun(x, s)
      BY <2>2, <2>6, <2>7, ViewNext, SupNext DEF SameRun
    <3>2. x \in Sup \cup Ret
      <4>1. ~WorkRefused
        BY <1>3, NotHanded
      <4>2. QED
        BY <2>7, <4>1, ViewNext, SupNext
    <3>3. QED
      BY <2>5, <3>1, <3>2
  <2>8. CASE x \in Ret' \cup Sta'
    <3>1. SameRun(x, s)
      <4>1. x \in InFlight'
        BY <1>1, <2>8 DEF Placed
      <4>2. QED
        BY <2>2, <2>6, <4>1, KeepNext DEF Keep, SameRun
    <3>2. pkt[x].e = e
      BY <2>2, <3>1 DEF SameRun
    <3>3. CASE x \in Sta'
      <4>1. x \in ToSet(Underway') /\ pkt'[x].gen # 1
        BY <2>4, <2>6, <3>3, ViewNext
      <4>2. x \in ToSet(Underway) /\ pkt'[x] = pkt[x]
        <5>1. ~\E f, y, seen : Took(f, y, seen, x)
          BY <1>3 DEF Took
        <5>2. QED
          BY <4>1, <5>1, UnderNext DEF UnderSays
      <4>3. x \in Sta
        BY <2>4, <3>2, <4>1, <4>2 DEF Sta
      <4>4. QED
        BY <2>5, <3>1, <4>3
    <3>4. CASE x \in Ret'
      <4>1. x \in Ret \/ (FwTakes /\ x = Head(bus) /\ Turned(x))
        BY <3>4, RetNext, ViewNext
      <4>2. ASSUME FwTakes, x = Head(bus), Turned(x) PROVE x \in Sta
        <5>1. x \in Cur \cup Sta
          BY <1>1, <4>2, TakesOnly
        <5>2. ~First(x)
          BY <1>1, <2>4, <3>2, <5>1 DEF First, Gens
        <5>3. QED
          BY <1>1, <4>2, <5>1, <5>2 DEF Turned, Sta
      <4>3. QED
        BY <2>5, <3>1, <4>1, <4>2
    <3>5. QED
      BY <2>8, <3>3, <3>4
  <2>9. QED
    BY <2>7, <2>8
<1>4. QED
  BY <1>2, <1>3, WkNext

-----------------------------------------------------------------------------
(* The order and the bounds of a destination, a step moving one packet.      *)
Proper == \A x, y : Precedes(x, y) => x # y /\ x \in Alive /\ y \in Alive

LEMMA ProperIs == Placed => Proper
<1> SUFFICES ASSUME Placed, NEW x, NEW y, Precedes(x, y) PROVE x # y /\ x \in Alive /\ y \in Alive
  BY DEF Proper
<1>1. x \in Alive /\ y \in Alive
  BY PrecedesAlive
<1>2. Cur \cap Sta = {}
  BY DEF Cur, Sta
<1>3. x # y
  BY <1>2 DEF Placed, Precedes
<1>4. QED
  BY <1>1, <1>3

LEMMA ProperNext == ASSUME Core', NEW x, NEW y, Precedes(x, y)' PROVE x # y /\ x \in Alive' /\ y \in Alive'
<1>1. Proper'
  BY PlacedNext, ProperIs, PTL
<1>2. QED
  BY <1>1 DEF Proper

LEMMA AliveSlots == ASSUME Core', NEW x \in Alive'
  PROVE  x \in Slot /\ pkt'[x].e \in Entry /\ pkt'[x].f \in Fifo /\ x \in InFlight' \cup InQueue'
  BY PlacedNext, PrecedesNext DEF Placed

\* The packet that moves is another destination's, or leaves.
LEMMA Elsewhere == ASSUME Core, Core', NEW e \in Entry, Order(e), Bounds(e), NEW S, Only(S),
    fw'[e].gen = fw[e].gen, air'[e] = air[e], \A f \in Fifo : pktSeq[e][f] <= pktSeq'[e][f],
    \A x \in S : x \in Alive' => pkt'[x].e # e
  PROVE Order(e)' /\ Bounds(e)'
<1>1. Moves(e, S)
  BY OnlyMoves
<1>2. ASSUME NEW x \in Slot, NEW y \in Slot, pkt'[x].e = e, SameRun(x, y)', Precedes(x, y)'
      PROVE  x \notin S /\ y \notin S
  BY <1>2, ProperNext, PrecedesNext
<1>3. Order(e)'
  BY <1>1, <1>2, OrderMoves
<1>4. Bounds(e)'
  BY <1>1, BoundsMoves
<1>5. QED
  BY <1>3, <1>4

\* It comes to a place where it precedes what it did, and follows what it did.
StillPrecedes(e, s) ==
  /\ \A y \in Slot : y # s /\ pkt'[y].e = e /\ SameRun(s, y)' /\ Precedes(s, y)' => Precedes(s, y)
  /\ \A x \in Slot : x # s /\ pkt'[x].e = e /\ SameRun(x, s)' /\ Precedes(x, s)' => Precedes(x, s)

LEMMA OneMoved == ASSUME Core, Core', NEW e \in Entry, Order(e), Bounds(e), NEW s \in Slot, Only({s}),
    fw'[e].gen = fw[e].gen, air'[e] = air[e], pktSeq' = pktSeq,
    pkt'[s].e = pkt[s].e, pkt'[s].f = pkt[s].f, pkt'[s].n = pkt[s].n, s \in Alive,
    StillPrecedes(e, s)
  PROVE Order(e)' /\ Bounds(e)'
<1>1. Moves(e, {s})
  BY OnlyMoves
<1>2. ASSUME NEW x \in Slot, NEW y \in Slot, pkt'[x].e = e, SameRun(x, y)', Precedes(x, y)', x = s \/ y = s
      PROVE  pkt'[x].n < pkt'[y].n
  <2>1. x # y /\ x \in Alive' /\ y \in Alive' /\ pkt'[y].e = e /\ pkt'[y].f = pkt'[x].f
    BY <1>2, ProperNext, PrecedesNext
  <2>2. \A z \in {x, y} : pkt[z].e = e /\ pkt'[z].f = pkt[z].f /\ pkt'[z].n = pkt[z].n
    BY <1>1, <1>2, <2>1 DEF Moves
  <2>3. SameRun(x, y) /\ pkt[x].e = e
    BY <2>1, <2>2 DEF SameRun
  <2>4. Precedes(x, y)
    BY <1>2, <2>1 DEF StillPrecedes
  <2>5. QED
    BY <2>2, <2>3, <2>4 DEF Order
<1>3. Order(e)'
  BY <1>1, <1>2, OrderMoves
<1>4. ASSUME pkt'[s].e = e PROVE air[e][pkt'[s].f] < pkt'[s].n /\ pkt'[s].n <= pktSeq'[e][pkt'[s].f]
  BY <1>4 DEF Bounds, Alive
<1>5. \A f \in Fifo : pktSeq[e][f] <= pktSeq'[e][f]
  <2>1. pktSeq \in [Entry -> [Fifo -> Nat]]
    BY DEF Core, Types
  <2>2. \A f \in Fifo : pktSeq[e][f] \in Nat
    BY <2>1
  <2>3. QED
    BY <2>2
<1>6. Bounds(e)'
  BY <1>1, <1>4, <1>5, BoundsMoves
<1>7. QED
  BY <1>3, <1>6

-----------------------------------------------------------------------------
\* A new packet is the youngest.
LEMMA SkbSorted == ASSUME Core, Core', NEW e \in Entry, Order(e), Bounds(e),
    NEW y \in Entry, NEW f \in Fifo, ProcessSkb(y, f)
  PROVE Order(e)' /\ Bounds(e)'
<1>1. PICK s : /\ Added(y, f, s) /\ Only({s}) /\ supprq' = supprq /\ Underway' = Underway
               /\ UNCHANGED <<ent, fw, air, sig, wk, bus>>
  BY SkbOnly
<1>2. /\ s \in Slot /\ s \notin InFlight /\ s \notin InQueue
      /\ pkt'[s].e = y /\ pkt'[s].f = f /\ pkt'[s].n = pktSeq[y][f] + 1
      /\ pktSeq'[y][f] = pktSeq[y][f] + 1
      /\ \A x \in Entry, g \in Fifo : pktSeq[x][g] <= pktSeq'[x][g]
      /\ \A z : InQueues(delayq', s, z) => z = s
  BY <1>1 DEF Added
<1>3. CASE y # e
  BY <1>1, <1>2, <1>3, Elsewhere
<1>4. CASE y = e
  <2>1. Moves(e, {s})
    BY <1>1, OnlyMoves
  <2>2. Placed /\ ToSet(Underway) = Cur \cup Sta
    BY PlacedIs, UnderwayIs
  <2>3. s \notin Cur' /\ s \notin Sta' /\ s \notin Sup' /\ s \notin Ret'
    BY <1>1, <1>2, <2>2, ViewNext DEF Placed, Sup, Ret
  <2>4. ASSUME NEW x \in Slot, x # s, pkt'[x].e = e, x \in Alive', pkt'[x].f = f PROVE pkt'[x].n < pkt'[s].n
    <3>1. x \in Alive /\ pkt[x].e = e /\ pkt'[x].f = pkt[x].f /\ pkt'[x].n = pkt[x].n
      BY <2>1, <2>4, PrecedesNext DEF Moves, Alive
    <3>2. pkt[x].n <= pktSeq[e][f]
      BY <2>4, <3>1 DEF Bounds, Alive
    <3>3. pkt \in [Slot -> Packets] /\ pktSeq \in [Entry -> [Fifo -> Nat]]
      BY DEF Core, Types
    <3>4. pkt[x].n \in Nat /\ pktSeq[e][f] \in Nat
      BY <2>4, <3>3 DEF Packets
    <3>5. QED
      BY <1>2, <1>4, <3>1, <3>2, <3>4
  <2>5. ASSUME NEW x \in Slot, NEW z \in Slot, pkt'[x].e = e, SameRun(x, z)', Precedes(x, z)', x = s \/ z = s
        PROVE  pkt'[x].n < pkt'[z].n
    <3>1. x # z /\ x \in Alive' /\ z \in Alive' /\ pkt'[z].e = e /\ pkt'[z].f = pkt'[x].f
      BY <2>5, ProperNext, PrecedesNext
    <3>2. CASE x = s
      <4>1. InUnder(s, z)' => s \in Cur' \cup Sta'
        BY PlacedNext DEF Placed
      <4>2. InRet(s, z)' => s \in Ret'
        BY PlacedNext DEF Placed
      <4>3. InSup(s, z)' => s \in Sup'
        BY PlacedNext DEF Placed
      <4>4. InDel(s, z)'
        BY <2>3, <2>5, <3>2, <4>1, <4>2, <4>3, PrecedesNext
      <4>5. QED
        BY <1>2, <3>1, <3>2, <4>4, ViewNext
    <3>3. CASE z = s
      BY <1>2, <2>4, <2>5, <3>1, <3>3
    <3>4. QED
      BY <2>5, <3>2, <3>3
  <2>6. Order(e)'
    BY <2>1, <2>5, OrderMoves
  <2>7. air[e][f] < pkt'[s].n /\ pkt'[s].n <= pktSeq'[e][f]
    <3>1. air \in [Entry -> [Fifo -> Nat]] /\ pktSeq \in [Entry -> [Fifo -> Nat]]
      BY DEF Core, Types
    <3>2. air[e][f] \in Nat /\ pktSeq[e][f] \in Nat /\ air[e][f] <= pktSeq[e][f]
      BY <3>1 DEF Bounds
    <3>3. QED
      BY <1>2, <1>4, <3>2
  <2>8. Bounds(e)'
    BY <1>1, <1>2, <1>4, <2>1, <2>7, BoundsMoves
  <2>9. QED
    BY <2>6, <2>8
<1>5. QED
  BY <1>3, <1>4

-----------------------------------------------------------------------------
(* The worker takes the head of a queue: it precedes what it did.            *)
\* With the first generation nothing has come back, nor is anything stale.
LEMMA FirstGen == ASSUME Core', NEW e \in Entry, OneSleep(e)', fw'[e].gen # 1,
                         NEW x \in Sup' \cup Ret' \cup Sta', pkt'[x].e = e
  PROVE  FALSE
<1>1. Gens(e)' /\ Returns(e)' /\ Placed' /\ x \in Slot
  BY PlacedNext DEF OneSleep, Placed
<1>2. CASE x \in Sup'
  BY <1>1, <1>2 DEF Gens, Placed
<1>3. CASE x \in Ret'
  <2>1. PICK i \in RetIn(sig') : sig'[i].s = x
    BY <1>3, ViewNext DEF Returning
  <2>2. QED
    BY <1>1, <2>1 DEF Returns, RetIn
<1>4. CASE x \in Sta'
  <2>1. x \in ToSet(Underway') /\ pkt'[x].gen # fw'[e].gen
    BY <1>4, ViewNext
  <2>2. pkt'[x].gen \in 0..1 /\ fw'[e].gen \in 0..1
    <3>1. pkt' \in [Slot -> Packets] /\ fw' \in [Entry -> [asleep : BOOLEAN, gone : BOOLEAN, gen : 0..1, ask : Nat]]
      BY DEF Core, Types
    <3>2. QED
      BY <1>1, <3>1 DEF Packets
  <2>3. pkt'[x].gen = 1
    BY <2>1, <2>2
  <2>4. QED
    BY <1>1, <2>1, <2>3 DEF Gens
<1>5. QED
  BY <1>2, <1>3, <1>4

LEMMA TookPlaces == ASSUME Core, Core', NEW f, NEW y, NEW seen, NEW s, Took(f, y, seen, s)
  PROVE  /\ s \in Slot /\ s \notin Sup' /\ s \notin Del' /\ s \notin Ret'
         /\ \A z : ~InUnder(s, z)'
<1>1. Placed /\ Placed' /\ ToSet(Underway) = Cur \cup Sta
  BY PlacedIs, PlacedNext, UnderwayIs
<1>2. s \in Slot /\ s \notin InFlight /\ s \notin InQueue' /\ sig' = sig
  <2>1. Marks(y, f, s)
    BY TookIs
  <2>2. QED
    BY <2>1 DEF Took, Marks
<1>3. s \notin Sup' /\ s \notin Del'
  BY <1>1, <1>2 DEF Placed
<1>4. s \notin Ret'
  BY <1>1, <1>2, ViewNext DEF Placed, Ret
<1>5. ASSUME NEW z, InUnder(s, z)' PROVE FALSE
  <2>1. InUnder(s, z) \/ z = s
    BY <1>2, <1>5, UnderwayMore, ViewNext DEF Took
  <2>2. QED
    BY <1>1, <1>2, <1>5, <2>1 DEF Placed
<1>6. QED
  BY <1>2, <1>3, <1>4, <1>5

LEMMA TookSorted == ASSUME Core, Core', NEW e \in Entry, Order(e), Bounds(e), Gens(e), OneSleep(e)',
    Awaited(e)', NEW f, NEW y, NEW seen, NEW s, Took(f, y, seen, s)
  PROVE Order(e)' /\ Bounds(e)'
<1>1. Only({s}) /\ Marks(y, f, s) /\ s \in Slot /\ UNCHANGED <<hanger, fw, air, pktSeq>>
      /\ pkt[s].e = y /\ pkt[s].f = f
  BY TookOnly, TookIs DEF Took
<1>2. CASE y # e
  <2>1. pktSeq \in [Entry -> [Fifo -> Nat]]
    BY DEF Core, Types
  <2>2. QED
    BY <1>1, <1>2, <2>1, Elsewhere DEF Marks
<1>3. CASE y = e
  <2>1. Moves(e, {s}) /\ Placed /\ Placed'
    BY <1>1, OnlyMoves, PlacedIs, PlacedNext
  <2>2. Gens(e)' /\ s \notin Sup' /\ s \notin Del' /\ s \notin Ret' /\ \A z : ~InUnder(s, z)'
    BY TookPlaces DEF OneSleep
  <2>3. pkt'[s].e = e /\ pkt'[s].f = f
    BY <1>1, <1>3 DEF Marks
  <2>4. ASSUME NEW z \in Slot, z # s, pkt'[z].e = e, SameRun(s, z)', Precedes(s, z)'
        PROVE  /\ pkt'[z].f = f
               /\ \/ s \in Cur' /\ z \in Sup' \cup Ret' \cup Sta'
                  \/ z \in Del
    <3>1. ~InRet(s, z)' /\ ~InSup(s, z)' /\ ~InDel(s, z)'
      BY <2>1, <2>2 DEF Placed
    <3>2. (s \in Cur' /\ z \in Sup' \cup Ret' \cup Sta') \/ z \in Del'
      BY <2>2, <2>4, <3>1, PrecedesNext
    <3>3. z \in Del' => z \in Del
      BY <2>1, <2>4 DEF Moves
    <3>4. QED
      BY <2>3, <2>4, <3>2, <3>3, PrecedesNext
  <2>5. ASSUME NEW x \in Slot, x # s, pkt'[x].e = e, SameRun(x, s)', Precedes(x, s)'
        PROVE  \/ x \in Cur
               \/ s \in Sta' /\ x \in Sup \cup Ret \cup Sta
    <3>1. ~InRet(x, s)' /\ ~InSup(x, s)' /\ ~InDel(x, s)'
      BY <2>1, <2>2 DEF Placed
    <3>2. s \notin Sup' /\ s \notin Del' /\ s \notin Ret' /\ Precedes(x, s)'
      BY <2>2, <2>5
    <3>3. x \in Cur' \/ (s \in Sta' /\ x \in Sup' \cup Ret' \cup Sta')
      BY <3>1, <3>2, PrecedesNext
    <3>4. QED
      BY <2>1, <2>5, <3>3 DEF Moves
  <2>6. CASE supprq[e][f] # <<>>
    <3>1. s \in Sup /\ Leads(supprq', supprq, e, f) /\ delayq' = delayq /\ s = Head(supprq[e][f])
      BY <1>1, <1>3, <2>6 DEF Marks
    <3>2. s \notin Sta'
      <4>1. hanger[s] = "suppressed" /\ pkt[s].gen = 1 /\ fw[e].gen = 1
        BY <1>1, <1>3, <2>1, <3>1 DEF Placed, Gens
      <4>2. pkt'[s].gen = 1
        BY <1>1, <4>1 DEF Marks
      <4>3. QED
        BY <1>1, <2>3, <4>1, <4>2, ViewNext
    <3>3. ASSUME NEW z \in Slot, z # s, pkt'[z].e = e, SameRun(s, z)', Precedes(s, z)' PROVE Precedes(s, z)
      <4>1. CASE z \in Sup'
        <5>1. z \in ToSet(supprq'[e][f])
          BY <2>1, <2>4, <3>3, <4>1 DEF Placed
        <5>2. InSup(s, z)
          BY <3>1, <5>1 DEF Leads, InSup
        <5>3. QED
          BY <5>2 DEF Precedes
      <4>2. CASE z \in Ret' \cup Sta' \cup Del
        <5>1. z \in Ret \cup Sta \cup Del
          BY <2>1, <3>3, <4>2 DEF Moves
        <5>2. QED
          BY <3>1, <5>1 DEF Precedes
      <4>3. QED
        BY <2>4, <3>3, <4>1, <4>2
    <3>4. ASSUME NEW x \in Slot, x # s, pkt'[x].e = e, SameRun(x, s)', Precedes(x, s)' PROVE Precedes(x, s)
      BY <2>5, <3>1, <3>2, <3>4 DEF Precedes
    <3>5. StillPrecedes(e, s)
      BY <3>3, <3>4 DEF StillPrecedes
    <3>6. s \in Alive
      BY <3>1 DEF Alive
    <3>7. QED
      BY <1>1, <1>3, <2>3, <3>5, <3>6, OneMoved DEF Marks
  <2>7. CASE supprq[e][f] = <<>>
    <3>1. s \in Del /\ Leads(delayq', delayq, e, f) /\ s = Head(delayq[e][f])
      BY <1>1, <1>3, <2>7 DEF Marks
    <3>2. hanger'[s] = "inuse"
      BY <1>1, <2>1, <3>1 DEF Placed
    <3>3. ASSUME NEW z \in Slot, z # s, pkt'[z].e = e, SameRun(s, z)', Precedes(s, z)' PROVE Precedes(s, z)
      <4>1. CASE z \in Del
        <5>1. z \in Del'
          <6>1. ~(s \in Cur' /\ z \in Sup' \cup Ret' \cup Sta') => z \in Del'
            <7>1. ~InRet(s, z)' /\ ~InSup(s, z)' /\ ~InDel(s, z)'
              BY <2>1, <2>2 DEF Placed
            <7>2. QED
              BY <2>2, <3>3, <7>1, PrecedesNext
          <6>2. z \in Sup' \cup Ret' \cup Sta' => z \in Sup \cup Ret \cup Sta
            BY <2>1, <3>3 DEF Moves
          <6>3. z \notin Sup \cup Ret \cup Sta
            BY <2>1, <4>1 DEF Placed
          <6>4. QED
            BY <6>1, <6>2, <6>3
        <5>2. z \in ToSet(delayq'[e][f])
          BY <2>1, <2>4, <3>3, <5>1 DEF Placed
        <5>3. InDel(s, z)
          BY <3>1, <5>2 DEF Leads, InDel
        <5>4. QED
          BY <5>3 DEF Precedes
      <4>2. ASSUME s \in Cur', z \in Sup' \cup Ret' \cup Sta' PROVE FALSE
        <5>1. fw'[e].gen = 1
          BY <3>3, <4>2, FirstGen
        <5>2. pkt'[s].gen = 1
          BY <2>3, <4>2, <5>1, ViewNext
        <5>3. ~SameRun(z, s)'
          BY <2>2, <2>3, <3>2, <4>2, <5>2, LatestTook
        <5>4. QED
          BY <3>3, <5>3, PrecedesNext
      <4>3. QED
        BY <2>4, <3>3, <4>1, <4>2
    <3>4. ASSUME NEW x \in Slot, x # s, pkt'[x].e = e, SameRun(x, s)', Precedes(x, s)' PROVE Precedes(x, s)
      BY <2>5, <3>1, <3>4 DEF Precedes
    <3>5. StillPrecedes(e, s)
      BY <3>3, <3>4 DEF StillPrecedes
    <3>6. s \in Alive
      BY <3>1 DEF Alive
    <3>7. QED
      BY <1>1, <1>3, <2>3, <3>5, <3>6, OneMoved DEF Marks
  <2>8. QED
    BY <2>6, <2>7
<1>4. QED
  BY <1>2, <1>3

-----------------------------------------------------------------------------
(* The bus refuses a packet: it is again the first of its queue.             *)
LEMMA SeqKept == ASSUME Core, pktSeq' = pktSeq, NEW e \in Entry
  PROVE  \A f \in Fifo : pktSeq[e][f] <= pktSeq'[e][f]
<1>1. pktSeq \in [Entry -> [Fifo -> Nat]]
  BY DEF Core, Types
<1>2. QED
  BY <1>1

LEMMA RefusedPlaces == ASSUME Core, Core', WorkRefused, NEW s, s = wk.slot
  PROVE  /\ s \in Slot /\ s \in Cur \cup Sta
         /\ s \notin Cur' /\ s \notin Sta' /\ s \notin Ret'
         /\ \A z \in Cur' \cup Sta' : z \in Cur \cup Sta /\ InUnder(z, s)
<1>1. wk.at = "hand" /\ wk'.at # "hand" /\ bus' = bus /\ sig' = sig
  BY NotHanded, RefusedOnly
<1>2. Placed /\ Placed' /\ ToSet(Underway') = Cur' \cup Sta'
  <2>1. Core' => (/\ ToSet(Underway) = Cur \cup Sta)'
    BY UnderwayIs, PTL
  <2>2. QED
    BY <2>1, PlacedIs, PlacedNext
<1>3. /\ s \in Cur \cup Sta
      /\ \A z \in Cur' \cup Sta' : z \in Cur \cup Sta /\ z # s /\ InUnder(z, s)
  BY <1>1, <1>2, UnderwayBack
<1>4. s \notin Ret'
  BY <1>1, <1>2, <1>3, ViewNext DEF Placed, Ret
<1>5. QED
  BY <1>2, <1>3, <1>4 DEF Placed

LEMMA RefusedSorted == ASSUME Core, Core', NEW e \in Entry, Order(e), Bounds(e), OneSleep(e), OneSleep(e)',
    Awaited(e)', Latest(e), WorkRefused, ~Tossed(e), NEW s, s = wk.slot
  PROVE Order(e)' /\ Bounds(e)'
<1>1. /\ s \in Slot /\ s \in Cur \cup Sta /\ s \notin Cur' /\ s \notin Sta' /\ s \notin Ret'
      /\ \A z \in Cur' \cup Sta' : z \in Cur \cup Sta /\ InUnder(z, s)
  BY RefusedPlaces
<1>2. /\ Only({s}) /\ UNCHANGED <<fw, air, pktSeq>>
      /\ Fits(s) => /\ hanger' = hanger /\ pkt' = pkt
                    /\ hanger[s] = "suppressed" => JoinsFirst(supprq', supprq, s) /\ delayq' = delayq
                    /\ hanger[s] # "suppressed" => JoinsFirst(delayq', delayq, s) /\ supprq' = supprq
      /\ ~Fits(s) => Freed({s})
  BY RefusedOnly
<1>3. Placed /\ Placed' /\ wk.at = "hand"
  BY PlacedIs, PlacedNext, NotHanded
<1>4. pkt[s].e = e => Fits(s)
  BY DEF Tossed
<1>5. Latest(e) => (pkt[s].e = e /\ hanger[s] = "inuse" /\ pkt[s].gen = 1 =>
                      \A z \in Sup \cup Ret \cup Sta : ~SameRun(z, s))
  BY <1>3 DEF Latest
<1>51. ASSUME pkt[s].e = e, pkt' = pkt, hanger[s] = "inuse", s \in Cur, NEW z \in Sup' \cup Ret' \cup Sta',
              z \in Sup \cup Ret \cup Sta, pkt'[z].e = e, SameRun(z, s)'
       PROVE  FALSE
  <2>1. fw[e].gen = 1
    BY <1>2, <1>51, FirstGen
  <2>2. pkt[s].gen = 1 /\ SameRun(z, s)
    BY <1>51, <2>1, PrecedesNext DEF Cur, SameRun
  <2>3. QED
    BY <1>5, <1>51, <2>2
<1>6. CASE pkt[s].e # e
  <2>1. s \in Alive' => pkt'[s].e # e
    <3>1. CASE Fits(s)
      BY <1>2, <1>6, <3>1
    <3>2. CASE ~Fits(s)
      <4>1. pkt'[s] = NoPkt
        BY <1>1, <1>2, <3>2 DEF Freed
      <4>2. hanger'[s] = "free"
        BY <1>1, <1>2, <3>2 DEF Freed
      <4>3. s \notin Alive'
        BY <1>1, <1>3, <4>2, PrecedesNext DEF Placed
      <4>4. QED
        BY <4>3
    <3>3. QED
      BY <3>1, <3>2
  <2>2. QED
    BY <1>2, <2>1, SeqKept, Elsewhere
<1>7. CASE pkt[s].e = e
  <2>1. /\ Moves(e, {s}) /\ pkt' = pkt /\ hanger' = hanger
        /\ hanger[s] = "suppressed" => JoinsFirst(supprq', supprq, s) /\ delayq' = delayq
        /\ hanger[s] # "suppressed" => JoinsFirst(delayq', delayq, s) /\ supprq' = supprq
    BY <1>2, <1>4, <1>7, OnlyMoves
  <2>2. ASSUME NEW z \in Slot, z # s, pkt'[z].e = e
        PROVE  /\ (z \in Cur' => z \in Cur) /\ (z \in Sta' => z \in Sta) /\ (z \in Sup' => z \in Sup)
               /\ (z \in Ret' => z \in Ret) /\ (z \in Del' => z \in Del)
    BY <2>1, <2>2 DEF Moves
  <2>3. \A z : ~InUnder(s, z)' /\ ~InUnder(z, s)' /\ ~InRet(s, z)' /\ ~InRet(z, s)'
    BY <1>1, <1>3 DEF Placed
  <2>4. s \in Alive
    BY <1>1 DEF Alive
  <2>5. CASE hanger[s] = "suppressed"
    <3>1. JoinsFirst(supprq', supprq, s) /\ s \notin Del' /\ s \in Cur
      <4>1. s \notin Del'
        BY <1>3, <2>1, <2>5 DEF Placed
      <4>2. pkt[s].gen = 1 /\ fw[e].gen = 1
        BY <1>1, <1>7, <2>5 DEF OneSleep, Gens
      <4>3. s \in Cur
        BY <1>1, <1>7, <4>2 DEF Sta
      <4>4. QED
        BY <2>1, <2>5, <4>1, <4>3
    <3>2. ASSUME NEW z \in Slot, z # s, pkt'[z].e = e, SameRun(s, z)', Precedes(s, z)' PROVE Precedes(s, z)
      <4>1. ~InDel(s, z)' /\ (InSup(s, z)' => z \in Sup')
        BY <1>3, <3>1 DEF Placed
      <4>2. z \in Sup' \cup Ret' \cup Sta' \cup Del'
        BY <1>1, <2>3, <3>1, <3>2, <4>1, PrecedesNext
      <4>3. z \in Sup \cup Ret \cup Sta \cup Del
        BY <2>2, <3>2, <4>2
      <4>4. QED
        BY <3>1, <4>3 DEF Precedes
    <3>3. ASSUME NEW x \in Slot, x # s, pkt'[x].e = e, SameRun(x, s)', Precedes(x, s)' PROVE Precedes(x, s)
      <4>1. ~InDel(x, s)'
        BY <1>3, <3>1 DEF Placed
      <4>2. x \in Cur' \/ InSup(x, s)'
        BY <1>1, <2>3, <3>1, <3>3, <4>1, PrecedesNext
      <4>3. CASE x \in Cur'
        BY <1>1, <2>2, <3>1, <3>3, <4>3 DEF Precedes
      <4>4. CASE InSup(x, s)'
        <5>1. InSup(x, s)
          BY <3>1, <3>3, <4>4, ViewNext DEF JoinsFirst, InSup
        <5>2. QED
          BY <5>1 DEF Precedes
      <4>5. QED
        BY <4>2, <4>3, <4>4
    <3>4. StillPrecedes(e, s)
      BY <3>2, <3>3 DEF StillPrecedes
    <3>5. QED
      BY <1>1, <1>2, <2>1, <2>4, <3>4, OneMoved
  <2>6. CASE hanger[s] # "suppressed"
    <3>1. JoinsFirst(delayq', delayq, s) /\ s \notin Sup' /\ hanger[s] = "inuse"
      <4>1. s \notin Sup'
        BY <1>3, <2>1, <2>6 DEF Placed
      <4>2. hanger \in [Slot -> {"free", "inuse", "suppressed"}] /\ hanger[s] # "free"
        BY <1>1, <1>3 DEF Core, Types, Placed
      <4>3. QED
        BY <1>1, <2>1, <2>6, <4>1, <4>2
    <3>2. ASSUME NEW z \in Slot, z # s, pkt'[z].e = e, SameRun(s, z)', Precedes(s, z)' PROVE Precedes(s, z)
      <4>1. ~InSup(s, z)' /\ (InDel(s, z)' => z \in Del')
        BY <1>3, <3>1 DEF Placed
      <4>2. z \in Del'
        BY <1>1, <2>3, <3>1, <3>2, <4>1, PrecedesNext
      <4>3. z \in Del
        BY <2>2, <3>2, <4>2
      <4>4. QED
        BY <1>1, <4>3 DEF Precedes
    <3>3. ASSUME NEW x \in Slot, x # s, pkt'[x].e = e, SameRun(x, s)', Precedes(x, s)' PROVE Precedes(x, s)
      <4>1. ~InSup(x, s)'
        BY <1>3, <3>1 DEF Placed
      <4>2. x \in Cur' \cup Sta' \cup Sup' \cup Ret' \/ InDel(x, s)'
        BY <1>1, <2>3, <3>1, <3>3, <4>1, PrecedesNext
      <4>3. CASE x \in Cur' \cup Sta'
        <5>1. InUnder(x, s) /\ x \in Cur \cup Sta
          BY <1>1, <4>3
        <5>2. CASE x \in Cur
          <6>1. CASE s \in Cur
            BY <5>1, <5>2, <6>1 DEF Precedes
          <6>2. CASE s \in Sta
            BY <5>2, <6>2 DEF Precedes
          <6>3. QED
            BY <1>1, <6>1, <6>2
        <5>3. CASE x \in Sta
          <6>1. CASE s \in Sta
            BY <5>1, <5>3, <6>1 DEF Precedes
          <6>2. CASE s \in Cur
            <7>1. x \in Sta'
              <8>1. x \notin Cur' 
                BY <2>2, <3>3, <5>3 DEF Cur, Sta
              <8>2. QED
                BY <4>3, <8>1
            <7>2. QED
              BY <1>51, <1>7, <2>1, <3>1, <3>3, <5>3, <6>2, <7>1
          <6>3. QED
            BY <1>1, <6>1, <6>2
        <5>4. QED
          BY <5>1, <5>2, <5>3
      <4>4. CASE x \in Sup' \cup Ret'
        <5>1. x \in Sup \cup Ret
          BY <2>2, <3>3, <4>4
        <5>2. CASE s \in Sta
          BY <5>1, <5>2 DEF Precedes
        <5>3. CASE s \in Cur
          BY <1>51, <1>7, <2>1, <3>1, <3>3, <4>4, <5>1, <5>3
        <5>4. QED
          BY <1>1, <5>2, <5>3
      <4>5. CASE InDel(x, s)'
        <5>1. InDel(x, s)
          BY <3>1, <3>3, <4>5, ViewNext DEF JoinsFirst, InDel
        <5>2. QED
          BY <5>1 DEF Precedes
      <4>6. QED
        BY <4>2, <4>3, <4>4, <4>5
    <3>4. StillPrecedes(e, s)
      BY <3>2, <3>3 DEF StillPrecedes
    <3>5. QED
      BY <1>1, <1>2, <2>1, <2>4, <3>4, OneMoved
  <2>7. QED
    BY <2>5, <2>6
<1>8. QED
  BY <1>6, <1>7

-----------------------------------------------------------------------------
(* A suppressed packet comes to its place in the queue: before those that    *)
(* return after it, and among those that have come back by its number.       *)
LEMMA FreedDead == ASSUME Core', NEW s \in Slot, Freed({s}) PROVE s \notin Alive'
<1>1. hanger'[s] = "free"
  BY DEF Freed
<1>2. QED
  BY <1>1, PlacedNext, PrecedesNext DEF Placed

LEMMA SuppressedPlaces == ASSUME Core, Core', StatusSuppressed, NEW s, s = Head(sig).s
  PROVE  /\ s \in Slot /\ s \in Ret /\ s \notin Cur' /\ s \notin Sta' /\ s \notin Ret'
         /\ s \notin Sup
         /\ hanger'[s] = "suppressed" => s \notin Del'
         /\ \A z \in Ret' : InRet(s, z)
<1>1. /\ s \in Ret /\ Underway' = Underway
      /\ \A y \in Returning(sig') : InRet(s, y) /\ y # s
  BY SuppressedOnly
<1>2. Placed /\ Placed' /\ ToSet(Underway) = Cur \cup Sta
  BY PlacedIs, PlacedNext, UnderwayIs
<1>3. s \notin Cur' /\ s \notin Sta' /\ s \notin Ret'
  BY <1>1, <1>2, ViewNext DEF Placed
<1>4. s \notin Sup /\ s \in Slot
  BY <1>1, <1>2 DEF Placed
<1>5. hanger'[s] = "suppressed" => s \notin Del'
  BY <1>2 DEF Placed
<1>6. QED
  BY <1>1, <1>3, <1>4, <1>5, ViewNext

LEMMA SuppressedSorted == ASSUME Core, Core', NEW e \in Entry, Order(e), Bounds(e),
    StatusSuppressed, NEW s, s = Head(sig).s
  PROVE Order(e)' /\ Bounds(e)'
<1>1. /\ s \in Slot /\ s \in Ret /\ s \notin Cur' /\ s \notin Sta' /\ s \notin Ret' /\ s \notin Sup
      /\ hanger'[s] = "suppressed" => s \notin Del'
      /\ \A z \in Ret' : InRet(s, z)
  BY SuppressedPlaces
<1>2. /\ Only({s}) /\ UNCHANGED <<fw, air, pktSeq>>
      /\ \A x \in Slot : x # s => pkt'[x] = pkt[x]
      /\ \/ /\ JoinsAmong(supprq', supprq, s, pkt[s].e, pkt[s].f)
            /\ hanger'[s] = "suppressed"
            /\ pkt'[s].e = pkt[s].e /\ pkt'[s].f = pkt[s].f /\ pkt'[s].n = pkt[s].n
         \/ Freed({s})
  BY SuppressedOnly
<1>3. Placed /\ Placed'
  BY PlacedIs, PlacedNext
<1>4. CASE Freed({s})
  BY <1>1, <1>2, <1>4, FreedDead, SeqKept, Elsewhere
<1>5. ASSUME JoinsAmong(supprq', supprq, s, pkt[s].e, pkt[s].f), hanger'[s] = "suppressed",
             pkt'[s].e = pkt[s].e, pkt'[s].f = pkt[s].f, pkt'[s].n = pkt[s].n
      PROVE  Order(e)' /\ Bounds(e)'
  <2>1. CASE pkt[s].e # e
    BY <1>2, <1>5, <2>1, SeqKept, Elsewhere
  <2>2. CASE pkt[s].e = e
    <3>1. Moves(e, {s}) /\ s \notin Del'
      BY <1>1, <1>2, <1>5, OnlyMoves
    <3>2. ASSUME NEW z \in Slot, z # s, pkt'[z].e = e
          PROVE  (z \in Cur' => z \in Cur) /\ (z \in Sta' => z \in Sta) /\ (z \in Del' => z \in Del)
      BY <3>1, <3>2 DEF Moves
    <3>3. \A z : /\ ~InUnder(s, z)' /\ ~InUnder(z, s)' /\ ~InRet(s, z)' /\ ~InRet(z, s)'
                 /\ ~InDel(s, z)' /\ ~InDel(z, s)' /\ ~InSup(s, z) /\ ~InSup(z, s)
      BY <1>1, <1>3, <3>1 DEF Placed
    <3>4. \A z \in Slot : z \in ToSet(supprq[e][pkt[s].f]) => z \in Sup /\ Precedes(z, s)
      <4>1. supprq \in Queues /\ pkt[s].f \in Fifo
        BY <1>1, <1>3 DEF Core, Types, Placed
      <4>2. \A z \in Slot : z \in ToSet(supprq[e][pkt[s].f]) => z \in Sup
        BY <4>1 DEF Sup, Members
      <4>3. QED
        BY <1>1, <4>2 DEF Precedes
    <3>5. ASSUME NEW z \in Slot, z # s, pkt'[z].e = e, SameRun(s, z)', Precedes(s, z)' PROVE Precedes(s, z)
      <4>1. InSup(s, z)' \/ z \in Ret' \cup Sta' \cup Del'
        BY <1>1, <3>1, <3>3, <3>5, PrecedesNext
      <4>2. ASSUME InSup(s, z)' PROVE FALSE
        <5>1. InQueues(supprq', s, z)
          BY <4>2, ViewNext
        <5>2. z \in ToSet(supprq[e][pkt[s].f]) /\ ~(pkt[z].n < pkt[s].n)
          BY <1>5, <2>2, <3>3, <3>5, <5>1 DEF JoinsAmong, InSup
        <5>3. Precedes(z, s)
          BY <3>4, <5>2
        <5>4. SameRun(z, s) /\ pkt[z].e = e
          BY <1>2, <1>5, <2>2, <3>5, PrecedesNext DEF SameRun
        <5>5. QED
          BY <1>1, <5>2, <5>3, <5>4 DEF Order
      <4>3. CASE z \in Ret'
        BY <1>1, <4>3 DEF Precedes
      <4>4. CASE z \in Sta' \cup Del'
        <5>1. z \in Sta \cup Del
          BY <3>2, <3>5, <4>4
        <5>2. QED
          BY <1>1, <5>1 DEF Precedes
      <4>5. QED
        BY <4>1, <4>2, <4>3, <4>4
    <3>6. ASSUME NEW x \in Slot, x # s, pkt'[x].e = e, SameRun(x, s)', Precedes(x, s)' PROVE Precedes(x, s)
      <4>1. InSup(x, s)' \/ x \in Cur'
        BY <1>1, <3>1, <3>3, <3>6, PrecedesNext
      <4>2. CASE InSup(x, s)'
        <5>1. InQueues(supprq', x, s)
          BY <4>2, ViewNext
        <5>2. x \in ToSet(supprq[e][pkt[s].f])
          BY <1>5, <2>2, <3>3, <3>6, <5>1 DEF JoinsAmong, InSup
        <5>3. QED
          BY <3>4, <5>2
      <4>3. CASE x \in Cur'
        BY <1>1, <3>2, <3>6, <4>3 DEF Precedes
      <4>4. QED
        BY <4>1, <4>2, <4>3
    <3>7. StillPrecedes(e, s)
      BY <3>5, <3>6 DEF StillPrecedes
    <3>8. s \in Alive
      BY <1>1 DEF Alive
    <3>9. QED
      BY <1>1, <1>2, <1>5, <3>7, <3>8, OneMoved
  <2>3. QED
    BY <2>1, <2>2
<1>6. QED
  BY <1>2, <1>4, <1>5

-----------------------------------------------------------------------------
(* The firmware takes a packet: it is sent, and gone; or it returns after    *)
(* those that returned before, and before the others of its generation.      *)
FirstOnly == \A e \in Entry : OneSleep(e) /\ fw[e].gen # 1 =>
           \A x \in Sup \cup Ret \cup Sta : pkt[x].e # e

LEMMA FirstOnlyIs == ASSUME Core PROVE FirstOnly
<1> SUFFICES ASSUME NEW e \in Entry, OneSleep(e), fw[e].gen # 1,
                    NEW x \in Sup \cup Ret \cup Sta, pkt[x].e = e
             PROVE  FALSE
  BY DEF FirstOnly
<1>1. Gens(e) /\ Returns(e) /\ Placed /\ x \in Slot
  BY PlacedIs DEF OneSleep, Placed
<1>2. CASE x \in Sup
  BY <1>1, <1>2 DEF Gens, Placed
<1>3. CASE x \in Ret
  <2>1. PICK i \in RetIn(sig) : sig[i].s = x
    BY <1>3 DEF Ret, Returning
  <2>2. QED
    BY <1>1, <2>1 DEF Returns
<1>4. CASE x \in Sta
  <2>1. x \in ToSet(Underway) /\ pkt[x].gen # fw[e].gen
    BY <1>4 DEF Sta
  <2>2. pkt[x].gen \in 0..1 /\ fw[e].gen \in 0..1
    BY <1>1 DEF Core, Types, Packets
  <2>3. pkt[x].gen = 1
    BY <2>1, <2>2
  <2>4. QED
    BY <1>1, <2>1, <2>3 DEF Gens
<1>5. QED
  BY <1>2, <1>3, <1>4

LEMMA TakesPlaces == ASSUME Core, Core', FwTakes, NEW s, s = Head(bus)
  PROVE  /\ s \in Slot /\ s \in Cur \cup Sta /\ s \notin Ret /\ s \notin Sup /\ s \notin Del
         /\ s \notin Cur' /\ s \notin Sta' /\ s \notin Sup' /\ s \notin Del'
         /\ s \in Ret' => Turned(s)
         /\ pkt' = pkt /\ pktSeq' = pktSeq /\ Sup' = Sup /\ Del' = Del
         /\ \A x : x \in Ret' => x \in Ret \/ x = s
         /\ \A x : x \in Cur' \cup Sta' => x \in Cur \cup Sta /\ InUnder(s, x)
         /\ \A x, y : /\ InUnder(x, y)' => InUnder(x, y)
                      /\ InRet(x, y)' => InRet(x, y) \/ (y = s /\ x \in Ret)
                      /\ (InSup(x, y)' => InSup(x, y)) /\ (InDel(x, y)' => InDel(x, y))
<1>1. Placed /\ Placed' /\ ToSet(Underway) = Cur \cup Sta /\ ToSet(Underway') = Cur' \cup Sta'
  <2>1. Core' => (/\ ToSet(Underway) = Cur \cup Sta)'
    BY UnderwayIs, PTL
  <2>2. QED
    BY <2>1, PlacedIs, PlacedNext, UnderwayIs
<1>2. /\ UNCHANGED <<pkt, pktSeq, delayq, supprq, wk>> /\ bus # <<>> /\ bus' = Tail(bus)
      /\ s \in Cur \cup Sta
      /\ \A y \in ToSet(Underway') : InUnder(s, y) /\ y # s
  BY TakesIs, TakesOnly
<1>3. Sup' = Sup /\ Del' = Del
  BY <1>2, ViewNext DEF Sup, Del
<1>4. /\ \A x, y : Before(Underway', x, y) => InUnder(x, y)
      /\ ToSet(Underway') \subseteq Cur \cup Sta
  BY <1>2, UnderwayLess
<1>5. /\ \A x \in Returning(sig') : x \in Ret \/ (x = s /\ Turned(x))
      /\ \A a, b : RetBefore(sig', a, b) => InRet(a, b) \/ (b = s /\ a \in Ret)
  BY RetJoins
<1>6. s \in Slot /\ s \notin Ret /\ s \notin Sup /\ s \notin Del
  BY <1>1, <1>2 DEF Placed
<1>7. s \notin Cur' /\ s \notin Sta'
  BY <1>1, <1>2
<1>8. \A x, y : (InSup(x, y)' => InSup(x, y)) /\ (InDel(x, y)' => InDel(x, y))
  BY <1>2, ViewNext DEF InSup, InDel
<1>9. \A x, y : (InUnder(x, y)' => InUnder(x, y)) /\ (InRet(x, y)' => InRet(x, y) \/ (y = s /\ x \in Ret))
  BY <1>4, <1>5, ViewNext
<1>10. /\ s \in Ret' => Turned(s)
       /\ \A x : x \in Ret' => x \in Ret \/ x = s
  BY <1>5, <1>6, ViewNext
<1>11. \A x : x \in Cur' \cup Sta' => x \in Cur \cup Sta /\ InUnder(s, x)
  BY <1>1, <1>2, <1>4
<1>12. QED
  BY <1>2, <1>3, <1>6, <1>7, <1>8, <1>9, <1>10, <1>11

\* A packet of the firmware's generation is sent.
LEMMA SentSorted == ASSUME Core, Core', NEW e \in Entry, Order(e), Bounds(e), FwTakes,
    NEW s, s = Head(bus), pkt[s].e = e, ~Turned(s), ~Gone(s)
  PROVE Order(e)' /\ Bounds(e)'
<1>1. /\ s \in Slot /\ s \in Cur \cup Sta /\ s \notin Ret'
      /\ s \notin Cur' /\ s \notin Sta' /\ s \notin Sup' /\ s \notin Del'
      /\ pkt' = pkt /\ pktSeq' = pktSeq /\ Sup' = Sup /\ Del' = Del
      /\ \A x : x \in Cur' \cup Sta' => InUnder(s, x)
      /\ \A x : x \in Ret' => x \in Ret \/ x = s
  BY TakesPlaces
<1>2. Only({s}) /\ FwAfter(s)
  BY TakesIs, TakesOnly
<1>3. fw'[e].gen = fw[e].gen /\ s \in Cur
  BY <1>1, <1>2 DEF FwAfter, NowGen, Turned, Sta
<1>4. Moves(e, {s}) /\ Placed /\ Placed'
  BY <1>2, <1>3, OnlyMoves, PlacedIs, PlacedNext
<1>5. Order(e)'
  <2>1. s \notin Alive'
    BY <1>1, PrecedesNext
  <2>2. \A x, y : Precedes(x, y)' => x # s /\ y # s
    BY <2>1, ProperNext
  <2>3. QED
    BY <1>4, <2>2, OrderMoves
<1>6. /\ air'[e][pkt[s].f] = pkt[s].n
      /\ \A f \in Fifo : f # pkt[s].f => air'[e][f] = air[e][f]
  BY <1>2 DEF FwAfter
<1>7. air[e][pkt[s].f] < pkt[s].n /\ pkt[s].n <= pktSeq[e][pkt[s].f] /\ pkt[s].f \in Fifo
  BY <1>1, <1>3, <1>4 DEF Bounds, Placed
<1>8. ASSUME NEW x \in Cur' \cup Sup' \cup Ret' \cup Sta' \cup Del', pkt[x].e = e
      PROVE  /\ air'[e][pkt[x].f] < pkt[x].n /\ pkt[x].n <= pktSeq[e][pkt[x].f]
  <2>1. x \in Slot /\ x # s
    BY <1>1, <1>4, <1>8 DEF Placed
  <2>2. /\ (x \in Cur' => x \in Cur) /\ (x \in Sta' => x \in Sta)
        /\ (x \in Sup' => x \in Sup) /\ (x \in Ret' => x \in Ret) /\ (x \in Del' => x \in Del)
    BY <1>1, <1>4, <1>8, <2>1 DEF Moves
  <2>3. x \in Cur \cup Sup \cup Ret \cup Sta \cup Del
    BY <1>8, <2>2
  <2>4. air[e][pkt[x].f] < pkt[x].n /\ pkt[x].n <= pktSeq[e][pkt[x].f] /\ pkt[x].f \in Fifo
    BY <1>4, <1>8, <2>3 DEF Bounds, Placed
  <2>5. CASE pkt[x].f = pkt[s].f
    <3>1. Precedes(s, x)
      <4>1. CASE x \in Cur'
        BY <1>1, <1>3, <2>2, <4>1 DEF Precedes
      <4>2. CASE x \in Sup' \cup Ret' \cup Sta' \cup Del'
        BY <1>3, <2>2, <4>2 DEF Precedes
      <4>3. QED
        BY <1>8, <4>1, <4>2
    <3>2. pkt[s].n < pkt[x].n
      BY <1>1, <1>8, <2>1, <2>5, <3>1 DEF Order, SameRun
    <3>3. QED
      BY <1>6, <2>4, <2>5, <3>2
  <2>6. CASE pkt[x].f # pkt[s].f
    BY <1>6, <2>4, <2>6
  <2>7. QED
    BY <2>5, <2>6
<1>9. \A f \in Fifo : air'[e][f] <= pktSeq[e][f]
  BY <1>6, <1>7 DEF Bounds
<1>10. QED
  BY <1>1, <1>5, <1>8, <1>9 DEF Bounds

-----------------------------------------------------------------------------
\* A packet of the generation before returns.
LEMMA StaleSorted == ASSUME Core, Core', NEW e \in Entry, Order(e), Bounds(e), FwTakes,
    NEW s, s = Head(bus), pkt[s].e = e, Turned(s), ~First(s)
  PROVE Order(e)' /\ Bounds(e)'
<1>1. /\ s \in Slot /\ s \in Cur \cup Sta /\ s \notin Ret /\ s \notin Sup /\ s \notin Del
      /\ s \notin Cur' /\ s \notin Sta' /\ s \notin Sup' /\ s \notin Del'
      /\ pkt' = pkt /\ pktSeq' = pktSeq
      /\ \A x : x \in Cur' \cup Sta' => InUnder(s, x)
      /\ \A x, y : InRet(x, y)' => InRet(x, y) \/ (y = s /\ x \in Ret)
  BY TakesPlaces
<1>2. Only({s}) /\ FwAfter(s)
  BY TakesIs, TakesOnly
<1>3. fw'[e].gen = fw[e].gen /\ air' = air /\ s \in Sta
  BY <1>1, <1>2 DEF FwAfter, NowGen, Turned, Cur
<1>4. Moves(e, {s}) /\ Placed /\ Placed'
  BY <1>2, <1>3, OnlyMoves, PlacedIs, PlacedNext
<1>5. ASSUME NEW z \in Slot, z # s, pkt'[z].e = e
      PROVE  /\ (z \in Cur' => z \in Cur) /\ (z \in Sta' => z \in Sta) /\ (z \in Sup' => z \in Sup)
             /\ (z \in Del' => z \in Del)
  BY <1>4, <1>5 DEF Moves
<1>6. \A z : /\ ~InUnder(s, z)' /\ ~InUnder(z, s)' /\ ~InSup(s, z)' /\ ~InSup(z, s)'
             /\ ~InDel(s, z)' /\ ~InDel(z, s)' /\ ~InRet(s, z) /\ ~InRet(z, s)
  BY <1>1, <1>4 DEF Placed
<1>7. ASSUME NEW z \in Slot, z # s, pkt'[z].e = e, SameRun(s, z)', Precedes(s, z)' PROVE Precedes(s, z)
  <2>1. ~InRet(s, z)'
    BY <1>1, <1>6, <1>7
  <2>2. z \in Sta' \cup Del'
    BY <1>1, <1>6, <1>7, <2>1, PrecedesNext
  <2>3. CASE z \in Sta'
    BY <1>1, <1>3, <1>5, <1>7, <2>3 DEF Precedes
  <2>4. CASE z \in Del'
    BY <1>3, <1>5, <1>7, <2>4 DEF Precedes
  <2>5. QED
    BY <2>2, <2>3, <2>4
<1>8. ASSUME NEW x \in Slot, x # s, pkt'[x].e = e, SameRun(x, s)', Precedes(x, s)' PROVE Precedes(x, s)
  <2>1. x \in Cur' \cup Sup' \/ InRet(x, s)'
    BY <1>1, <1>6, <1>8, PrecedesNext
  <2>2. CASE x \in Cur' \cup Sup'
    <3>1. x \in Cur \cup Sup
      BY <1>5, <1>8, <2>2
    <3>2. QED
      BY <1>3, <3>1 DEF Precedes
  <2>3. CASE InRet(x, s)'
    <3>1. x \in Ret
      BY <1>1, <1>6, <2>3
    <3>2. QED
      BY <1>3, <3>1 DEF Precedes
  <2>4. QED
    BY <2>1, <2>2, <2>3
<1>9. StillPrecedes(e, s)
  BY <1>7, <1>8 DEF StillPrecedes
<1>10. s \in Alive
  BY <1>3 DEF Alive
<1>11. QED
  BY <1>1, <1>2, <1>3, <1>9, <1>10, OneMoved

\* The first packet that a sleeping destination returns makes the others that
\* are underway of the generation before; nothing of it had returned yet.
LEMMA FirstSorted == ASSUME Core, Core', NEW e \in Entry, Order(e), Bounds(e), OneSleep(e), FwTakes,
    NEW s, s = Head(bus), pkt[s].e = e, First(s)
  PROVE Order(e)' /\ Bounds(e)'
<1>1. /\ s \in Slot /\ s \in Cur \cup Sta /\ s \notin Ret
      /\ pkt' = pkt /\ pktSeq' = pktSeq /\ Sup' = Sup /\ Del' = Del
      /\ \A x : x \in Ret' => x \in Ret \/ x = s
      /\ \A x : x \in Cur' \cup Sta' => x \in Cur \cup Sta /\ InUnder(s, x)
      /\ \A x, y : /\ InUnder(x, y)' => InUnder(x, y)
                   /\ InRet(x, y)' => InRet(x, y) \/ (y = s /\ x \in Ret)
                   /\ (InSup(x, y)' => InSup(x, y)) /\ (InDel(x, y)' => InDel(x, y))
  BY TakesPlaces
<1>2. FwAfter(s) /\ Placed /\ Placed' /\ ToSet(Underway) = Cur \cup Sta
  BY TakesIs, PlacedIs, PlacedNext, UnderwayIs
<1>3. fw[e].gen \in 0..1 /\ \A x \in Slot : pkt[x].gen \in 0..1
  BY DEF Core, Types, Packets
<1>4. fw[e].gen = 0 /\ fw'[e].gen = 1 /\ air'[e] = air[e] /\ s \in Cur
  <2>1. fw[e].gen # 1
    BY <1>1, <1>2 DEF First, OneSleep, Gens
  <2>2. s \in Cur
    BY <1>1 DEF First, Sta
  <2>3. QED
    BY <1>2, <1>3, <2>1, <2>2 DEF FwAfter, NowGen, Turned
<1>5. \A x \in Sup \cup Ret \cup Sta : pkt[x].e # e
  BY <1>4, FirstOnlyIs DEF FirstOnly
<1>6. ASSUME NEW x, pkt[x].e = e
      PROVE  /\ x \notin Cur' /\ x \notin Sup' /\ (x \in Ret' => x = s)
             /\ (x \in Sta' => x \in Cur /\ InUnder(s, x)) /\ (x \in Del' => x \in Del)
  <2>1. x \notin Cur'
    <3>1. ASSUME x \in Cur' PROVE FALSE
      <4>1. x \in Cur \cup Sta
        BY <1>1, <3>1
      <4>2. pkt[x].gen = 1
        BY <1>1, <1>4, <1>6, <3>1, ViewNext
      <4>3. x \in Sta
        BY <1>4, <1>6, <4>1, <4>2 DEF Cur
      <4>4. QED
        BY <1>5, <1>6, <4>3
    <3>2. QED
      BY <3>1
  <2>2. x \notin Sup' /\ (x \in Ret' => x = s) /\ (x \in Del' => x \in Del)
    BY <1>1, <1>5, <1>6
  <2>3. x \in Sta' => x \in Cur /\ InUnder(s, x)
    BY <1>1, <1>5, <1>6
  <2>4. QED
    BY <2>1, <2>2, <2>3
<1>7. ASSUME NEW x \in Slot, NEW y \in Slot, pkt'[x].e = e, SameRun(x, y)', Precedes(x, y)'
      PROVE  pkt'[x].n < pkt'[y].n
  <2>1. pkt[x].e = e /\ pkt[y].e = e /\ SameRun(x, y)
    BY <1>1, <1>7, PrecedesNext DEF SameRun
  <2>2. x \notin Cur' /\ x \notin Sup' /\ y \notin Cur' /\ ~InSup(x, y)' /\ ~InRet(x, y)'
    <3>1. ~InSup(x, y)'
      BY <1>2, <1>6, <2>1 DEF Placed
    <3>2. ~InRet(x, y)'
      BY <1>2, <1>6, <2>1 DEF Placed
    <3>3. QED
      BY <1>6, <2>1, <3>1, <3>2
  <2>3. \/ x \in Ret' /\ y \in Sta' \cup Del'
        \/ x \in Sta' /\ y \in Del'
        \/ InUnder(x, y)' /\ x \in Sta' /\ y \in Sta'
        \/ InDel(x, y)'
    BY <1>7, <2>2, PrecedesNext
  <2>4. Precedes(x, y)
    <3>1. CASE x \in Ret' /\ y \in Sta' \cup Del'
      BY <1>4, <1>6, <2>1, <3>1 DEF Precedes
    <3>2. CASE x \in Sta' /\ y \in Del'
      BY <1>6, <2>1, <3>2 DEF Precedes
    <3>3. CASE InUnder(x, y)' /\ x \in Sta' /\ y \in Sta'
      BY <1>1, <1>6, <2>1, <3>3 DEF Precedes
    <3>4. CASE InDel(x, y)'
      BY <1>1, <3>4 DEF Precedes
    <3>5. QED
      BY <2>3, <3>1, <3>2, <3>3, <3>4
  <2>5. QED
    BY <1>1, <2>1, <2>4 DEF Order
<1>8. Order(e)'
  BY <1>7 DEF Order
<1>9. ASSUME NEW x \in Cur' \cup Sup' \cup Ret' \cup Sta' \cup Del', pkt[x].e = e
      PROVE  x \in Cur \cup Sup \cup Ret \cup Sta \cup Del
  BY <1>4, <1>6, <1>9
<1>10. Bounds(e)'
  BY <1>1, <1>4, <1>9 DEF Bounds
<1>11. QED
  BY <1>8, <1>10

LEMMA TakesSorted == ASSUME Core, Core', NEW e \in Entry, Order(e), Bounds(e), OneSleep(e), Known(e), FwTakes
  PROVE Order(e)' /\ Bounds(e)'
<1>1. PICK s : s = Head(bus)
  OBVIOUS
<1>2. CASE pkt[s].e # e
  <2>1. Only({s}) /\ FwAfter(s) /\ UNCHANGED <<pkt, pktSeq>>
    BY <1>1, TakesIs, TakesOnly
  <2>2. fw'[e].gen = fw[e].gen /\ air'[e] = air[e]
    BY <1>2, <2>1 DEF FwAfter
  <2>3. QED
    BY <1>2, <2>1, <2>2, SeqKept, Elsewhere
<1>3. CASE pkt[s].e = e
  <2>1. ~Gone(s) /\ (First(s) => Turned(s))
    BY <1>3 DEF Known, Gone, Turned
  <2>2. QED
    BY <1>1, <1>3, <2>1, SentSorted, StaleSorted, FirstSorted
<1>4. QED
  BY <1>2, <1>3

-----------------------------------------------------------------------------
(* Every step keeps the order.                                               *)
LEMMA UnmovingGen == ASSUME Core, Unmoving, NEW e \in Entry PROVE fw'[e].gen = fw[e].gen
<1>1. fw \in [Entry -> [asleep : BOOLEAN, gone : BOOLEAN, gen : 0..1, ask : Nat]]
  BY DEF Core, Types
<1>2. fw' = fw \/ \E x \in Entry : FwStep(x)
  BY DEF Unmoving, MacSays, WorkBegin, WorkOwnDone, WorkBorrowDone, WorkSent, BusBlock, BusUnblock,
         MacState, MacRequest, fwVars
<1>3. ASSUME NEW x \in Entry, FwStep(x) PROVE fw'[e].gen = fw[e].gen
  <2>1. \/ fw' = [fw EXCEPT ![x].asleep = TRUE] \/ fw' = [fw EXCEPT ![x].asleep = FALSE, ![x].ask = 0]
        \/ fw' = [fw EXCEPT ![x].ask = 1] \/ fw' = [fw EXCEPT ![x].gone = TRUE]
    BY <1>3 DEF FwStep, FwSleep, FwWake, FwRequest, FwDel
  <2>2. QED
    BY <1>1, <2>1
<1>4. QED
  BY <1>2, <1>3

LEMMA StillSorted == ASSUME Core, Core', NEW e \in Entry, Order(e), Bounds(e),
    Unmoving \/ BusFailed \/ StatusSent \/ MacDel
  PROVE Order(e)' /\ Bounds(e)'
<1>1. Only({}) /\ air' = air /\ pktSeq' = pktSeq
  <2>1. CASE Unmoving
    BY <2>1, UnmovingIs, UnmovingOnly
  <2>2. CASE BusFailed \/ StatusSent \/ MacDel
    BY <2>2, BusFailedOnly, StatusSentOnly, MacDelOnly
    DEF BusFailed, StatusSent, MacDel, fwVars, pktSeqVars
  <2>3. QED
    BY <2>1, <2>2
<1>2. fw'[e].gen = fw[e].gen
  <2>1. BusFailed \/ StatusSent \/ MacDel => fw' = fw
    BY DEF BusFailed, StatusSent, MacDel, fwVars
  <2>2. QED
    BY <2>1, UnmovingGen
<1>3. QED
  BY <1>1, <1>2, SeqKept, Elsewhere

LEMMA OrderStep == ASSUME Core, Core', FwsNext, NEW e \in Entry, Known(e), ~Tossed(e), OneSleep(e), OneSleep(e)',
    Sorted(e), Awaited(e)'
  PROVE Order(e)' /\ Bounds(e)'
<1>1. Order(e) /\ Bounds(e) /\ Latest(e) /\ Gens(e)
  BY DEF Sorted, OneSleep
<1>2. CASE \E x \in Entry, f \in Fifo : ProcessSkb(x, f)
  BY <1>1, <1>2, SkbSorted
<1>3. CASE WorkOwn \/ WorkBorrow
  <2>1. PICK f, y, seen, s : Took(f, y, seen, s)
    BY <1>3, WorkTakes
  <2>2. QED
    BY <1>1, <2>1, TookSorted
<1>4. CASE WorkRefused
  <2>1. PICK s : s = wk.slot
    OBVIOUS
  <2>2. QED
    BY <1>1, <1>4, <2>1, RefusedSorted
<1>5. CASE FwTakes
  BY <1>1, <1>5, TakesSorted
<1>6. CASE StatusSuppressed
  <2>1. PICK s : s = Head(sig).s
    OBVIOUS
  <2>2. QED
    BY <1>1, <1>6, <2>1, SuppressedSorted
<1>7. CASE Unmoving \/ BusFailed \/ StatusSent \/ MacDel
  BY <1>1, <1>7, StillSorted
<1>8. QED
  BY <1>2, <1>3, <1>4, <1>5, <1>6, <1>7, NextIs

LEMMA SortedStep == ASSUME FwsInv, FwsNext, Leaving, NEW e \in Entry, Known(e)', Calm(e), ~Tossed(e), OneSleep(e),
    Sorted(e)
  PROVE Sorted(e)'
<1>1. Core /\ Known(e) /\ Awaited(e) /\ Latest(e)
  BY DEF FwsInv, Calm, Sorted
<1>2. Core' /\ OneSleep(e)' /\ Awaited(e)' /\ Latest(e)'
  BY <1>1, OnlyNext, KnownStep, AwaitedStep, LatestStep
<1>3. Order(e)' /\ Bounds(e)'
  BY <1>1, <1>2, OrderStep
<1>4. QED
  BY <1>2, <1>3 DEF Sorted

LEMMA OrdNext == ASSUME OrdInv, FwsNext PROVE OrdInv'
<1>1. FwsInv /\ Leaving /\ Core
  BY DEF OrdInv, FwsInv
<1>2. FwsInv'
  BY <1>1, FwsInvStep
<1>3. Leaving'
  BY <1>1, LeavingStep
<1>4. ASSUME NEW e \in Entry, Known(e)' PROVE OneSleep(e)'
  <2>1. Known(e) /\ OneSleep(e)
    BY <1>1, <1>4, CalmStep DEF OrdInv
  <2>2. QED
    BY <1>1, <1>4, <2>1, KnownStep
<1>5. ASSUME NEW e \in Entry, Calm(e)' PROVE Sorted(e)'
  <2>1. Known(e)' /\ Calm(e) /\ ~Tossed(e)
    BY <1>1, <1>5, CalmStep DEF Calm
  <2>2. OneSleep(e) /\ Sorted(e)
    BY <2>1 DEF OrdInv, Calm
  <2>3. QED
    BY <1>1, <2>1, <2>2, SortedStep
<1>6. QED
  BY <1>2, <1>3, <1>4, <1>5 DEF OrdInv

LEMMA OrdStill == ASSUME OrdInv, UNCHANGED fwsVars PROVE OrdInv'
<1>1. FwsInv'
  BY FwsInvStep DEF OrdInv
<1>2. UNCHANGED <<hanger, pkt, delayq, supprq, ent, pktSeq, wk, bus, fw, air, sig, used>>
  BY DEF fwsVars, qVars, pktSeqVars, fwVars
<1>3. Leaving'
  BY <1>2 DEF OrdInv, Leaving, Said
<1>4. Underway' = Underway /\ InFlight' = InFlight
  BY <1>2 DEF Underway, InFlight
<1>5. /\ Cur' = Cur /\ Sta' = Sta /\ Sup' = Sup /\ Del' = Del /\ Ret' = Ret
      /\ \A x, y : /\ InUnder(x, y)' <=> InUnder(x, y)
                   /\ InRet(x, y)' <=> InRet(x, y)
                   /\ InSup(x, y)' <=> InSup(x, y)
                   /\ InDel(x, y)' <=> InDel(x, y)
  BY <1>2, <1>4, ViewNext DEF Cur, Sta, Sup, Del, Ret, InUnder, InRet, InSup, InDel
<1>6. ASSUME NEW e \in Entry, Known(e)' PROVE OneSleep(e)'
  <2>1. OneSleep(e)
    BY <1>2, <1>6 DEF OrdInv, Known
  <2>2. Sleeps(e)'
    BY <1>2, <2>1 DEF OneSleep, Sleeps, Said
  <2>3. Returns(e)'
    BY <1>2, <2>1 DEF OneSleep, Returns, RetIn
  <2>4. Gens(e)'
    BY <1>2, <1>4, <2>1 DEF OneSleep, Gens
  <2>5. QED
    BY <2>2, <2>3, <2>4 DEF OneSleep
<1>7. ASSUME NEW e \in Entry, Calm(e)' PROVE Sorted(e)'
  <2>1. Of(e)' = Of(e)
    BY <1>2, <1>4 DEF Of
  <2>2. Sorted(e)
    BY <1>2, <1>7, <2>1 DEF OrdInv, Calm, Known
  <2>3. Awaited(e)'
    BY <1>2, <1>5, <2>1, <2>2 DEF Sorted, Awaited
  <2>4. Latest(e)'
    BY <1>2, <1>5, <2>2 DEF Sorted, Latest, SameRun
  <2>5. \A x, y : (Precedes(x, y)' <=> Precedes(x, y)) /\ (SameRun(x, y)' <=> SameRun(x, y))
    BY <1>2, <1>5, PrecedesNext DEF Precedes, SameRun
  <2>6. Order(e)'
    BY <1>2, <2>2, <2>5 DEF Sorted, Order
  <2>7. Bounds(e)'
    BY <1>2, <1>5, <2>2 DEF Sorted, Bounds
  <2>8. QED
    BY <2>3, <2>4, <2>6, <2>7 DEF Sorted
<1>8. QED
  BY <1>1, <1>3, <1>6, <1>7 DEF OrdInv

-----------------------------------------------------------------------------
LEMMA OrdInit == ASSUME FwsInit PROVE OrdInv
<1>1. FwsInv /\ Leaving /\ \A e \in Entry : OneSleep(e)
  BY FwsInvInit, OneSleepInit
<1>2. /\ sig = <<>> /\ bus = <<>> /\ wk = Idle /\ delayq = Empty /\ supprq = Empty
      /\ air = Zero /\ pktSeq = Zero /\ \A e \in Entry : ~ent[e].suppressed /\ ent[e].gen = 0
  BY DEF FwsInit
<1>3. Underway = <<>> /\ wk.at # "hand" /\ RetIn(sig) = {}
  BY <1>2 DEF Underway, Idle, RetIn
<1>4. \A e \in Entry, f \in Fifo : delayq[e][f] = <<>> /\ supprq[e][f] = <<>>
  BY <1>2 DEF Empty
<1>5. ToSet(<<>>) = {} /\ \A x, y : ~Before(<<>>, x, y)
  BY DEF ToSet, Before
<1>6. Cur = {} /\ Sta = {} /\ Sup = {} /\ Ret = {} /\ Del = {}
  BY <1>3, <1>4, <1>5 DEF Cur, Sta, Sup, Ret, Del, Members, Returning
<1>7. \A x, y : ~InUnder(x, y) /\ ~InRet(x, y) /\ ~InSup(x, y) /\ ~InDel(x, y)
  BY <1>3, <1>4, <1>5 DEF InUnder, InRet, InSup, InDel, InQueues, RetBefore
<1>8. \A x, y : ~Precedes(x, y)
  BY <1>6, <1>7 DEF Precedes
<1>9. ASSUME NEW e \in Entry PROVE Sorted(e)
  <2>1. Awaited(e) /\ Latest(e) /\ Order(e)
    BY <1>2, <1>3, <1>8 DEF Awaited, Latest, Order
  <2>2. Bounds(e)
    BY <1>2, <1>6 DEF Bounds, Zero
  <2>3. QED
    BY <2>1, <2>2 DEF Sorted
<1>10. QED
  BY <1>1, <1>9 DEF OrdInv

(* Over one sleep and with an exact transit counter, a destination gets the  *)
(* packets of a fifo in the order brcmf_fws_process_skb() numbered them, for *)
(* any number of them: those that brcmf_fws_txstatus_suppressed() has put    *)
(* back, those a refusal has, those still to return and the new ones that    *)
(* brcmf_fws_deq() keeps waiting.                                            *)
THEOREM OrderAlwaysKept == FwsSpec => InOrder
<1> DEFINE Kept == \A e \in Entry, f \in Fifo :
             used.sleep <= 1 /\ ent[e].transit = Cardinality({s \in InFlight : pkt[s].e = e})
               => air'[e][f] >= air[e][f]
<1>1. OrdInv /\ [FwsNext]_fwsVars => OrdInv'
  BY OrdNext, OrdStill
<1>2. ASSUME OrdInv, FwsNext PROVE Kept
  <2> SUFFICES ASSUME NEW e \in Entry, NEW f \in Fifo, used.sleep <= 1,
                      ent[e].transit = Cardinality({s \in InFlight : pkt[s].e = e})
               PROVE  air'[e][f] >= air[e][f]
    OBVIOUS
  <2>1. Core /\ air[e][f] \in Nat
    BY <1>2 DEF OrdInv, FwsInv, Core, Types
  <2>2. CASE air' = air
    BY <2>1, <2>2
  <2>3. CASE FwTakes
    <3>1. PICK s : s = Head(bus)
      OBVIOUS
    <3>2. FwAfter(s) /\ Core' /\ s \in Cur \cup Sta
      BY <1>2, <2>1, <2>3, <3>1, OnlyNext, TakesIs, TakesOnly
    <3>3. CASE pkt[s].e = e /\ pkt[s].f = f /\ ~Turned(s) /\ ~Gone(s)
      <4>1. Calm(e)
        BY <3>3 DEF Calm, Known, Gone, Of
      <4>2. Bounds(e)
        BY <1>2, <4>1 DEF OrdInv, Sorted
      <4>3. air[e][f] < pkt[s].n /\ pkt[s].n \in Nat /\ air'[e][f] = pkt[s].n
        <5>1. Placed
          BY <2>1, PlacedIs
        <5>2. pkt[s].n \in Nat
          BY <2>1, <3>2, <5>1 DEF Core, Types, Packets, Placed
        <5>3. QED
          BY <3>2, <3>3, <4>2, <5>2 DEF Bounds, FwAfter
      <4>4. QED
        BY <2>1, <4>3
    <3>4. CASE ~(pkt[s].e = e /\ pkt[s].f = f /\ ~Turned(s) /\ ~Gone(s))
      BY <2>1, <3>2, <3>4 DEF FwAfter
    <3>5. QED
      BY <3>3, <3>4
  <2>4. air' = air \/ FwTakes
    BY <1>2 DEF FwsNext, ProcessSkb, WorkBegin, WorkOwn, WorkOwnDone, WorkBorrow, WorkBorrowDone, WorkSent,
         WorkRefused, BusBlock, BusUnblock, BusFailed, StatusSent, StatusSuppressed,
         MacState, MacRequest, MacDel, FwSleep, FwWake, FwRequest, FwDel, Rest, fwVars
  <2>5. QED
    BY <2>2, <2>3, <2>4
<1>3. OrdInv /\ [FwsNext]_fwsVars => [Kept]_air
  BY <1>2 DEF fwsVars, fwVars
<1>4. FwsInit => OrdInv
  BY OrdInit
<1>5. QED
  BY <1>1, <1>3, <1>4, PTL DEF FwsSpec, InOrder
=============================================================================
