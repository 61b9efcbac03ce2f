--------------------------- MODULE FlowRing_proofs --------------------------
(***************************************************************************)
(* Proofs about module FlowRing, for any rings, interfaces, addresses and   *)
(* thresholds.                                                             *)
(***************************************************************************)
EXTENDS FlowRing, TLAPS

-----------------------------------------------------------------------------
LEMMA InitType == Init => TypeOK
<1> SUFFICES ASSUME Init PROVE TypeOK
  OBVIOUS
<1>1. AnyRing \in Ring
  BY Ids DEF AnyRing
<1>2. TxIdle \in Transmissions
  BY <1>1 DEF TxIdle, Transmissions
<1>3. OpIdle \in Operations
  BY DEF OpIdle, Operations
<1>4. NoRing \in Rings
  BY DEF NoRing, Rings
<1>5. com \in [Ring -> Commons]
  BY DEF Init, Commons
<1>6. /\ ring \in [Ring -> Rings] /\ tx \in [If -> Transmissions] /\ op \in Operations
  BY <1>2, <1>3, <1>4 DEF Init
<1>7. /\ crq \in Seq(Ring) /\ ctl \in Seq(Controls) /\ rsp \in Seq(Answers)
      /\ stopped \in [If -> BOOLEAN] /\ indirect \in [If -> BOOLEAN]
  BY DEF Init
<1>8. QED
  BY <1>5, <1>6, <1>7 DEF Init, TypeOK, Resting

(* Updates of a ring and of its counts keep their type.                      *)
LEMMA RingUpdate ==
  ASSUME NEW x \in Rings, NEW b \in BOOLEAN, NEW n \in Nat
  PROVE  [x EXCEPT !.blocked = b, !.qlen = n] \in Rings
BY DEF Rings

LEMMA VisOutUpdate ==
  ASSUME NEW x \in Commons, NEW v \in Nat, NEW o \in Int
  PROVE  [x EXCEPT !.vis = v, !.out = o] \in Commons
BY DEF Commons

LEMMA VisDnUpdate ==
  ASSUME NEW x \in Commons, NEW v \in Nat, NEW d \in Nat, NEW f \in BOOLEAN
  PROVE  /\ [x EXCEPT !.vis = v, !.dn = d, !.wasFull = f] \in Commons
         /\ [x EXCEPT !.dn = d, !.vis = v, !.wasFull = f] \in Commons
BY DEF Commons

LEMMA DnOutUpdate ==
  ASSUME NEW x \in Commons, NEW d \in Nat, NEW o \in Int
  PROVE  [x EXCEPT !.dn = d, !.out = o] \in Commons
BY DEF Commons

LEMMA XmitType == ASSUME TypeOK, NEW i \in If, NEW a \in Da, Xmit(i, a) PROVE TypeOK'
<1>1. PICK r \in Ring :
       \/ tx' = [tx EXCEPT ![i] = Bound(r, FALSE)] /\ UNCHANGED <<ring, crq>>
       \/ /\ ring' = [ring EXCEPT ![r] = [status |-> "closed", if |-> i, da |-> a,
                                          blocked |-> FALSE, qlen |-> 0]]
          /\ crq' = Append(crq, r)
          /\ tx' = [tx EXCEPT ![i] = Bound(r, TRUE)]
  BY DEF Xmit
<1>2. tx' \in [If -> Transmissions]
  <2>1. Bound(r, FALSE) \in Transmissions /\ Bound(r, TRUE) \in Transmissions
    BY DEF Transmissions, Bound
  <2>2. tx \in [If -> Transmissions]
    BY DEF TypeOK
  <2>3. QED
    BY <1>1, <2>1, <2>2
<1>3. ring' \in [Ring -> Rings]
  <2>1. [status |-> "closed", if |-> i, da |-> a, blocked |-> FALSE, qlen |-> 0] \in Rings
    BY DEF Rings
  <2>2. ring \in [Ring -> Rings]
    BY DEF TypeOK
  <2>3. QED
    BY <1>1, <2>1, <2>2
<1>4. crq' \in Seq(Ring)
  <2>1. crq \in Seq(Ring) /\ (crq' = crq \/ crq' = Append(crq, r))
    BY <1>1 DEF TypeOK
  <2>2. QED
    BY <2>1
<1>5. QED
  BY <1>2, <1>3, <1>4 DEF TypeOK, Xmit, ifVars, mapVars, turnVars, leftVars, badVars

\* The ring a transmission goes to, and what a use of one that is not there
\* leaves alone.
LEMMA Target == ASSUME TypeOK, NEW i \in If
                PROVE  tx[i] \in Transmissions /\ tx[i].r \in Ring /\ ring[tx[i].r] \in Rings
BY DEF TypeOK, Transmissions

LEMMA EnqueueType == ASSUME TypeOK, NEW i \in If, Enqueue(i) PROVE TypeOK'
<1> DEFINE r == tx[i].r
           over == ~ring[r].blocked /\ ring[r].qlen + 1 > High
           next == IF over THEN "high" ELSE IF tx[i].first THEN "idle" ELSE "sched"
           n == IF over THEN 0 ELSE (ring[r].qlen + 1) % Trickle
<1>1. r \in Ring /\ ring[r] \in Rings /\ tx[i] \in Transmissions
  BY Target
<1>2. ring' \in [Ring -> Rings]
  <2>1. ring' = [ring EXCEPT ![r].qlen = @ + 1] \/ ring' = ring
    BY DEF Enqueue
  <2>2. [ring[r] EXCEPT !.qlen = @ + 1] \in Rings
    BY <1>1 DEF Rings
  <2>3. ring \in [Ring -> Rings]
    BY DEF TypeOK
  <2> HIDE DEF r
  <2>4. QED
    BY <1>1, <2>1, <2>2, <2>3
<1>3. tx' \in [If -> Transmissions]
  <2>1. TxIdle \in Transmissions
    BY Ids DEF TxIdle, AnyRing, Transmissions
  <2>2. n \in Nat
    BY <1>1, Thresholds DEF Rings
  <2>3. next \in {"high", "idle", "sched"}
    OBVIOUS
  <2>4. \/ tx' = tx
        \/ tx' = [tx EXCEPT ![i] = IF next = "idle" THEN TxIdle
                      ELSE [@ EXCEPT !.pc = next, !.lost = FALSE, !.n = n]]
    BY DEF Enqueue
  <2> HIDE DEF next, n
  <2>5. [tx[i] EXCEPT !.pc = next, !.lost = FALSE, !.n = n] \in Transmissions
    BY <1>1, <2>2, <2>3 DEF Transmissions
  <2>6. QED
    BY <2>1, <2>4, <2>5 DEF TypeOK
<1>4. late' \subseteq Ring /\ oops' \subseteq Ring /\ unsent' \subseteq Ring
  BY <1>1 DEF TypeOK, Enqueue, Oops, badVars
<1>5. QED
  BY <1>2, <1>3, <1>4 DEF TypeOK, Enqueue, ifVars, msgVars

\* What brcmf_flowring_block() does to the ring and to the interface.
LEMMA BlockedType == ASSUME TypeOK, NEW r \in Ring, NEW b \in BOOLEAN
                     PROVE Blocked(r, b) \in [Ring -> Rings] /\ StopAfter(r, b) \in [If -> BOOLEAN]
BY DEF TypeOK, Blocked, StopAfter, Rings

LEMMA BlockType == ASSUME TypeOK, NEW i \in If, Block(i) PROVE TypeOK'
<1>1. tx[i].r \in Ring /\ tx[i] \in Transmissions
  BY Target
<1>2. tx' \in [If -> Transmissions]
  <2>1. tx' = tx \/ tx' = [tx EXCEPT ![i] = [tx[i] EXCEPT !.pc = "recheck"]]
    BY DEF Block
  <2>2. [tx[i] EXCEPT !.pc = "recheck"] \in Transmissions
    BY <1>1 DEF Transmissions
  <2>3. QED
    BY <2>1, <2>2 DEF TypeOK
<1>3. ring' \in [Ring -> Rings] /\ stopped' \in [If -> BOOLEAN]
  BY <1>1, BlockedType DEF TypeOK, Block
<1>4. oops' \subseteq Ring /\ unsent' \subseteq Ring
  BY <1>1 DEF TypeOK, Block, Oops, badVars
<1>5. QED
  BY <1>2, <1>3, <1>4 DEF TypeOK, Block, mapVars, turnVars, leftVars, msgVars

LEMMA RecheckType == ASSUME TypeOK, NEW i \in If, Recheck(i) PROVE TypeOK'
<1>1. tx[i].r \in Ring /\ ring[tx[i].r] \in Rings /\ tx[i] \in Transmissions
  BY Target
<1>2. ring[tx[i].r].qlen % Trickle \in Nat
  BY <1>1, Thresholds DEF Rings
<1>3. tx' \in [If -> Transmissions]
  <2>1. \/ tx' = tx
        \/ tx' = [tx EXCEPT ![i] = TxIdle]
        \/ tx' = [tx EXCEPT ![i] = [@ EXCEPT !.pc = "sched", !.n = ring[tx[i].r].qlen % Trickle]]
    BY DEF Recheck
  <2>2. tx \in [If -> Transmissions]
    BY DEF TypeOK
  <2>3. [tx[i] EXCEPT !.pc = "sched", !.n = ring[tx[i].r].qlen % Trickle] \in Transmissions
    BY <1>1, <1>2 DEF Transmissions
  <2>4. TxIdle \in Transmissions
    BY Ids DEF TxIdle, AnyRing, Transmissions
  <2>5. QED
    BY <2>1, <2>2, <2>3, <2>4
<1>4. ring' \in [Ring -> Rings] /\ stopped' \in [If -> BOOLEAN]
  <2>1. \/ ring' = Blocked(tx[i].r, FALSE) /\ stopped' = StopAfter(tx[i].r, FALSE)
        \/ ring' = ring /\ stopped' = stopped
    BY DEF Recheck
  <2>2. QED
    BY <1>1, <2>1, BlockedType DEF TypeOK
<1>5. oops' \subseteq Ring /\ unsent' \subseteq Ring
  BY <1>1 DEF TypeOK, Recheck, Oops, badVars
<1>6. QED
  BY <1>3, <1>4, <1>5 DEF TypeOK, Recheck, mapVars, turnVars, leftVars, msgVars

LEMMA SchedulingType == ASSUME TypeOK, NEW i \in If, Scheduling(i) PROVE TypeOK'
<1>1. tx[i].r \in Ring
  BY Target
<1>2. TxIdle \in Transmissions
  BY Ids DEF TxIdle, AnyRing, Transmissions
<1>3. tx' \in [If -> Transmissions]
  BY <1>2 DEF Scheduling, TypeOK
<1>4. QED
  BY <1>1, <1>3 DEF TypeOK, Scheduling, Schedule, ifVars, msgVars, badVars

-----------------------------------------------------------------------------
(* The worker's choice of the next ring changes no count.                    *)
LEMMA PickEffect ==
  ASSUME TypeOK, NEW c, NEW full, Pick(c, full)
  PROVE  /\ flowMap' \subseteq Ring /\ txw' \in Ring \cup {Resting}
         /\ com' \in [Ring -> Commons]
         /\ \A r \in Ring : com'[r].out = com[r].out /\ com'[r].vis = com[r].vis
                           /\ com'[r].dn = com[r].dn /\ com'[r].dma = com[r].dma
<1> DEFINE cand == {r \in flowMap : r >= c}
           room == {r \in cand : WriteAvailable(r)}
           passed == IF room = {} THEN cand
                     ELSE {r \in cand : \A s \in room : r <= s}
           new(r) == IF r \in passed
                     THEN [com[r] EXCEPT !.wasFull = Free(r) <= 1 \/ (@ /\ ~WriteAvailable(r))]
                     ELSE [com[r] EXCEPT !.wasFull = @ \/ r \in full]
<1>1. /\ flowMap' = flowMap \ passed /\ com' = [r \in Ring |-> new(r)]
      /\ IF room = {} THEN txw' = Resting ELSE txw' \in room \cap passed
  BY DEF Pick
<1>2. flowMap \subseteq Ring
  BY DEF TypeOK
<1>3. flowMap' \subseteq Ring /\ txw' \in Ring \cup {Resting}
  BY <1>1, <1>2
<1>4. ASSUME NEW r \in Ring
      PROVE  /\ new(r) \in Commons
             /\ new(r).out = com[r].out /\ new(r).vis = com[r].vis
             /\ new(r).dn = com[r].dn /\ new(r).dma = com[r].dma
  <2>1. PICK w : new(r) = [com[r] EXCEPT !.wasFull = w] /\ w \in BOOLEAN
    <3>1. CASE r \in passed
      <4>1. (Free(r) <= 1 \/ (com[r].wasFull /\ ~WriteAvailable(r))) \in BOOLEAN
        OBVIOUS
      <4>2. QED
        BY <3>1, <4>1, Zenon
    <3>2. CASE r \notin passed
      <4>1. (com[r].wasFull \/ r \in full) \in BOOLEAN
        OBVIOUS
      <4>2. QED
        BY <3>2, <4>1, Zenon
    <3>3. QED
      BY <3>1, <3>2
  <2>2. com[r] \in Commons
    BY DEF TypeOK
  <2> HIDE DEF new
  <2>3. QED
    BY <2>1, <2>2 DEF Commons
<1>5. QED
  <2> HIDE DEF new, passed, room
  <2>1. QED
    BY <1>1, <1>3, <1>4

LEMMA TxwStartType == ASSUME TypeOK, TxwStart PROVE TypeOK'
<1>1. Pick(0, {})
  BY DEF TxwStart
<1>2. QED
  BY <1>1, PickEffect DEF TypeOK, TxwStart, ifVars, msgVars, leftVars, badVars

LEMMA PostEndType == ASSUME TypeOK, PostEnd PROVE TypeOK'
<1>1. Pick(txw + 1, {})
  BY DEF PostEnd
<1>2. QED
  BY <1>1, PickEffect DEF TypeOK, PostEnd, ifVars, msgVars, leftVars, badVars

\* Post takes the first packet of the worker's ring, and posts it or puts it
\* back.
LEMMA PostEffect ==
  ASSUME TypeOK, Post
  PROVE  /\ txw \in Ring /\ ring[txw].status = "open" /\ ring[txw].qlen > 0
         /\ \E opens, fits \in BOOLEAN :
              /\ opens <=> ring[txw].blocked /\ ring[txw].qlen - 1 < Low
              /\ ring' = [ring EXCEPT ![txw].blocked = @ /\ ~opens,
                                     ![txw].qlen = IF fits THEN @ - 1 ELSE @]
              /\ stopped' = IF opens THEN StopAfter(txw, FALSE) ELSE stopped
              /\ IF fits
                 THEN /\ com' = [com EXCEPT ![txw].vis = @ + 1, ![txw].out = @ + 1]
                      /\ UNCHANGED <<flowMap, txw, starved>>
                 ELSE /\ \E full : Pick(txw + 1, full)
                      /\ \/ com[txw].vis > 0 /\ starved' = starved
                         \/ InFlight(txw) > 0 /\ starved' = starved
                         \/ starved' = starved \cup {txw}
<1> DEFINE opens == ring[txw].blocked /\ ring[txw].qlen - 1 < Low
<1>1. PICK maps \in BOOLEAN :
       LET named == maps /\ InUse < PktIds
           fits == named /\ Free(txw) > 1
       IN
       /\ ring' = [ring EXCEPT ![txw].blocked = @ /\ ~opens,
                               ![txw].qlen = IF fits THEN @ - 1 ELSE @]
       /\ IF fits
          THEN /\ com' = [com EXCEPT ![txw].vis = @ + 1, ![txw].out = @ + 1]
               /\ UNCHANGED <<flowMap, txw, starved>>
          ELSE /\ Pick(txw + 1, IF named THEN {txw} ELSE {})
               /\ starved' = IF named \/ InFlight(txw) > 0 THEN starved
                             ELSE starved \cup {txw}
  BY Zenon DEF Post
<1> DEFINE named == maps /\ InUse < PktIds
           fits == named /\ Free(txw) > 1
           full == IF named THEN {txw} ELSE {}
<1>2. /\ txw # Resting /\ Qlen(txw) > 0
      /\ ring' = [ring EXCEPT ![txw].blocked = @ /\ ~opens,
                             ![txw].qlen = IF fits THEN @ - 1 ELSE @]
      /\ stopped' = IF opens THEN StopAfter(txw, FALSE) ELSE stopped
      /\ IF fits
         THEN /\ com' = [com EXCEPT ![txw].vis = @ + 1, ![txw].out = @ + 1]
              /\ UNCHANGED <<flowMap, txw, starved>>
         ELSE /\ Pick(txw + 1, full)
              /\ starved' = IF named \/ InFlight(txw) > 0 THEN starved ELSE starved \cup {txw}
  BY <1>1, Zenon DEF Post
<1>3. txw \in Ring /\ ring[txw].status = "open" /\ ring[txw].qlen > 0
  BY <1>2 DEF TypeOK, Qlen, Open, Resting
<1>4. opens \in BOOLEAN /\ fits \in BOOLEAN
  BY <1>3 DEF TypeOK, Rings
<1>5. named /\ ~fits => com[txw].vis > 0
  BY <1>3, Thresholds DEF TypeOK, Commons, Free
<1> HIDE DEF opens, named, full
<1>6. opens <=> ring[txw].blocked /\ ring[txw].qlen - 1 < Low
  BY DEF opens
<1>7. ~fits => \/ com[txw].vis > 0 /\ starved' = starved
               \/ InFlight(txw) > 0 /\ starved' = starved
               \/ starved' = starved \cup {txw}
  <2> HIDE DEF fits
  <2>1. QED
    BY <1>2, <1>5
<1> HIDE DEF fits
<1>8. QED
  BY <1>2, <1>3, <1>4, <1>6, <1>7, Zenon

LEMMA PostType == ASSUME TypeOK, Post PROVE TypeOK'
<1>1. PICK opens, fits \in BOOLEAN :
        /\ ring' = [ring EXCEPT ![txw].blocked = @ /\ ~opens,
                               ![txw].qlen = IF fits THEN @ - 1 ELSE @]
        /\ stopped' = IF opens THEN StopAfter(txw, FALSE) ELSE stopped
        /\ IF fits
           THEN /\ com' = [com EXCEPT ![txw].vis = @ + 1, ![txw].out = @ + 1]
                /\ UNCHANGED <<flowMap, txw, starved>>
           ELSE /\ \E full : Pick(txw + 1, full)
                /\ starved' = starved \/ starved' = starved \cup {txw}
  BY PostEffect
<1>2. txw \in Ring /\ ring[txw] \in Rings /\ ring[txw].qlen > 0 /\ com[txw] \in Commons
  BY PostEffect DEF TypeOK
<1>3. ring' \in [Ring -> Rings]
  <2>1. [ring[txw] EXCEPT !.blocked = @ /\ ~opens, !.qlen = IF fits THEN @ - 1 ELSE @] \in Rings
    <3>1. /\ (ring[txw].blocked /\ ~opens) \in BOOLEAN
          /\ (IF fits THEN ring[txw].qlen - 1 ELSE ring[txw].qlen) \in Nat
      BY <1>2 DEF Rings
    <3>2. QED
      BY <1>2, <3>1, RingUpdate, Zenon
  <2>2. QED
    BY <1>1, <1>2, <2>1 DEF TypeOK
<1>4. stopped' \in [If -> BOOLEAN]
  BY <1>1, <1>2, BlockedType DEF TypeOK
<1>5. com' \in [Ring -> Commons] /\ flowMap' \subseteq Ring /\ txw' \in Ring \cup {Resting}
  <2>1. CASE fits
    <3>1. [com[txw] EXCEPT !.vis = @ + 1, !.out = @ + 1] \in Commons
      <4>1. com[txw].vis + 1 \in Nat /\ com[txw].out + 1 \in Int
        BY <1>2 DEF Commons
      <4>2. QED
        BY <1>2, <4>1, VisOutUpdate, Zenon
    <3>2. QED
      BY <1>1, <1>2, <2>1, <3>1 DEF TypeOK
  <2>2. CASE ~fits
    BY <1>1, <2>2, PickEffect
  <2>3. QED
    BY <2>1, <2>2
<1>6. starved' \subseteq Ring
  BY <1>1, <1>2 DEF TypeOK
<1>7. QED
  BY <1>3, <1>4, <1>5, <1>6 DEF TypeOK, Post, msgVars, badVars

\* brcmf_flowring_delete()
LEMMA RemoveType ==
  ASSUME TypeOK, NEW r \in Ring, Remove(r)
  PROVE  /\ ring' \in [Ring -> Rings] /\ stopped' \in [If -> BOOLEAN]
         /\ tx' \in [If -> Transmissions] /\ starved' \subseteq Ring /\ late' \subseteq Ring
<1>1. ring' \in [Ring -> Rings]
  BY DEF Remove, TypeOK, NoRing, Rings
<1>2. stopped' \in [If -> BOOLEAN]
  BY BlockedType DEF Remove, TypeOK
<1>3. tx' \in [If -> Transmissions]
  <2>1. ASSUME NEW i \in If, NEW b \in BOOLEAN PROVE [tx[i] EXCEPT !.lost = b] \in Transmissions
    BY Target DEF Transmissions
  <2>2. ASSUME NEW i \in If
        PROVE  (tx[i].lost \/ (tx[i].pc \notin {"idle", "sched"} /\ tx[i].r = r)) \in BOOLEAN
    BY Target DEF Transmissions
  <2>3. ASSUME NEW i \in If
        PROVE  [tx[i] EXCEPT !.lost = @ \/ (tx[i].pc \notin {"idle", "sched"} /\ tx[i].r = r)]
                 \in Transmissions
    BY <2>1, <2>2, Zenon
  <2>4. tx' = [i \in If |->
                 [tx[i] EXCEPT !.lost = @ \/ (tx[i].pc \notin {"idle", "sched"} /\ tx[i].r = r)]]
    BY Zenon DEF Remove
  <2>5. QED
    BY <2>3, <2>4, Zenon
<1>4. starved' \subseteq Ring /\ late' \subseteq Ring
  BY DEF Remove, TypeOK
<1>5. QED
  BY <1>1, <1>2, <1>3, <1>4

LEMMA FreedType ==
  ASSUME NEW c \in [Ring -> Commons], NEW r \in Ring
  PROVE  /\ Freed(c, r) \in [Ring -> Commons]
         /\ \A s \in Ring : /\ Freed(c, r)[s].out = c[s].out /\ Freed(c, r)[s].vis = c[s].vis
                           /\ Freed(c, r)[s].dn = c[s].dn
<1>1. c[r] \in Commons
  OBVIOUS
<1>2. [c[r] EXCEPT !.dma = FALSE] \in Commons
  BY <1>1 DEF Commons
<1>3. QED
  BY <1>1, <1>2 DEF Freed, Commons

LEMMA ForgottenType ==
  ASSUME TypeOK, NEW r \in Ring
  PROVE  /\ Forgotten(r) \in [Ring -> Commons]
         /\ \A s \in Ring : /\ Forgotten(r)[s].vis = com[s].vis /\ Forgotten(r)[s].dn = com[s].dn
                           /\ Forgotten(r)[s].dma = com[s].dma
                           /\ Forgotten(r)[s].out = IF s = r THEN 0 ELSE com[s].out
<1>1. com \in [Ring -> Commons] /\ com[r] \in Commons
  BY DEF TypeOK
<1>2. [com[r] EXCEPT !.out = 0] \in Commons
  BY <1>1 DEF Commons
<1>3. QED
  BY <1>1, <1>2 DEF Forgotten, Commons

\* The creation worker: the queue gets shorter, and the rest by what came of it.
LEMMA CreatingType ==
  ASSUME TypeOK, Creating
  PROVE  Head(crq) \in Ring /\ crq' \in Seq(Ring)
         /\ Append(ctl, [m |-> "create", r |-> Head(crq)]) \in Seq(Controls)
<1>1. Head(crq) \in Ring /\ Tail(crq) \in Seq(Ring)
  BY DEF TypeOK, Creating
<1>2. [m |-> "create", r |-> Head(crq)] \in Controls
  BY <1>1 DEF Controls
<1>3. QED
  BY <1>1, <1>2 DEF TypeOK, Creating

LEMMA CreateType == ASSUME TypeOK, Create PROVE TypeOK'
<1>1. Head(crq) \in Ring /\ crq' \in Seq(Ring)
      /\ Append(ctl, [m |-> "create", r |-> Head(crq)]) \in Seq(Controls)
  BY CreatingType DEF Create
<1>2. com' \in [Ring -> Commons]
  <2>1. [com[Head(crq)] EXCEPT !.dma = TRUE] \in Commons
    BY <1>1 DEF TypeOK, Commons
  <2>2. QED
    BY <1>1, <2>1 DEF TypeOK, Create
<1>3. ctl' \in Seq(Controls)
  BY <1>1 DEF TypeOK, Create
<1>4. oops' \subseteq Ring /\ unsent' \subseteq Ring
  BY <1>1 DEF TypeOK, Create, Oops, badVars
<1>5. QED
  BY <1>1, <1>2, <1>3, <1>4 DEF TypeOK, Create, ifVars, mapVars, turnVars, leftVars

LEMMA CreateLostType == ASSUME TypeOK, CreateFails \/ CreateUnsent PROVE TypeOK'
<1>1. Creating /\ Remove(Head(crq)) /\ com' \in {com, Freed(com, Head(crq))}
      /\ ctl' \in {ctl, Append(ctl, [m |-> "create", r |-> Head(crq)])}
      /\ unsent' \in {unsent, unsent \cup {Head(crq)}}
  BY DEF CreateFails, CreateUnsent, Failing
<1>2. Head(crq) \in Ring /\ crq' \in Seq(Ring)
      /\ Append(ctl, [m |-> "create", r |-> Head(crq)]) \in Seq(Controls)
  BY <1>1, CreatingType
<1>3. com' \in [Ring -> Commons] /\ ctl' \in Seq(Controls) /\ unsent' \subseteq Ring
  BY <1>1, <1>2, FreedType DEF TypeOK
<1>4. QED
  BY <1>1, <1>2, <1>3, RemoveType
     DEF TypeOK, CreateFails, CreateUnsent, turnVars

-----------------------------------------------------------------------------
LEMMA FwCompleteEffect ==
  ASSUME TypeOK, NEW r \in Ring, FwComplete(r)
  PROVE  /\ com' \in [Ring -> Commons] /\ \A s \in Ring \ {r} : com'[s] = com[s]
         /\ com[r] \in Commons /\ com[r].vis > 0
         /\ com'[r].vis = com[r].vis - 1 /\ com'[r].dn = com[r].dn + 1
         /\ com'[r].out = com[r].out /\ com'[r].dma = com[r].dma
<1>1. com[r] \in Commons /\ com[r].vis > 0 /\ com \in [Ring -> Commons]
  BY DEF TypeOK, FwComplete
<1>2. com[r].vis - 1 \in Nat /\ com[r].dn + 1 \in Nat
  BY <1>1 DEF Commons
<1>3. PICK f \in BOOLEAN :
        com' = [com EXCEPT ![r].vis = @ - 1, ![r].dn = @ + 1, ![r].wasFull = f]
  <2>1. com' = [com EXCEPT ![r].vis = @ - 1, ![r].dn = @ + 1,
                           ![r].wasFull = com[r].wasFull /\ Free(r) < Refill]
    BY DEF FwComplete
  <2>2. (com[r].wasFull /\ Free(r) < Refill) \in BOOLEAN
    OBVIOUS
  <2>3. QED
    BY <2>1, <2>2, Zenon
<1>4. [com[r] EXCEPT !.vis = @ - 1, !.dn = @ + 1, !.wasFull = f] \in Commons
  BY <1>1, <1>2, VisDnUpdate, Zenon
<1>5. com' = [com EXCEPT ![r] = [com[r] EXCEPT !.vis = @ - 1, !.dn = @ + 1, !.wasFull = f]]
  BY <1>3
<1>6. QED
  BY <1>1, <1>4, <1>5 DEF Commons

LEMMA FwCompleteType == ASSUME TypeOK, NEW r \in Ring, FwComplete(r) PROVE TypeOK'
<1>1. com' \in [Ring -> Commons]
  BY FwCompleteEffect
<1>2. QED
  BY <1>1 DEF TypeOK, FwComplete, ifVars, mapVars, turnVars, leftVars, msgVars, badVars

LEMMA FwControlEffect ==
  ASSUME TypeOK, FwControl
  PROVE  /\ Head(ctl) \in Controls /\ Head(ctl).r \in Ring
         /\ com' \in [Ring -> Commons]
         /\ \A s \in Ring : /\ com'[s].out = com[s].out /\ com'[s].dma = com[s].dma
                           /\ com'[s].vis + com'[s].dn = com[s].vis + com[s].dn
         /\ \E ok \in BOOLEAN :
              /\ Head(ctl).m = "delete" => ok = (Head(ctl).r \in fw)
              /\ rsp' = Append(rsp, [m |-> IF Head(ctl).m = "create" THEN "created" ELSE "deleted",
                                     r |-> Head(ctl).r, ok |-> ok])
              /\ fw' = IF Head(ctl).m = "create" /\ ~ok THEN fw
                       ELSE IF Head(ctl).m = "create" THEN fw \cup {Head(ctl).r}
                       ELSE fw \ {Head(ctl).r}
<1>1. Head(ctl) \in Controls /\ Head(ctl).r \in Ring
  <2>1. Head(ctl) \in Controls
    BY DEF TypeOK, FwControl
  <2>2. QED
    BY <2>1 DEF Controls
<1>2. PICK c \in Ring : c = Head(ctl).r
  BY <1>1
<1>3. com[c] \in Commons /\ com \in [Ring -> Commons]
  BY DEF TypeOK
<1>4. com[c].dn + com[c].vis \in Nat /\ 0 \in Nat
  BY <1>3 DEF Commons
<1>5. \/ com' = com
      \/ com' = [com EXCEPT ![c] = [com[c] EXCEPT !.dn = @ + com[c].vis, !.vis = 0,
                                                   !.wasFull = FALSE]]
  BY <1>2 DEF FwControl
<1>6. [com[c] EXCEPT !.dn = @ + com[c].vis, !.vis = 0, !.wasFull = FALSE] \in Commons
  BY <1>3, <1>4, VisDnUpdate, Zenon
<1>7. com' \in [Ring -> Commons]
  BY <1>3, <1>5, <1>6
<1>8. ASSUME NEW s \in Ring
      PROVE  /\ com'[s].out = com[s].out /\ com'[s].dma = com[s].dma
             /\ com'[s].vis + com'[s].dn = com[s].vis + com[s].dn
  <2>1. CASE com' = com \/ s # c
    BY <1>3, <1>5, <2>1
  <2>2. CASE s = c /\ com' # com
    <3>1. com'[s] = [com[s] EXCEPT !.dn = @ + com[s].vis, !.vis = 0, !.wasFull = FALSE]
      BY <1>3, <1>5, <2>2
    <3>2. com[s] \in Commons
      BY <1>3
    <3>3. /\ com'[s].out = com[s].out /\ com'[s].dma = com[s].dma
          /\ com'[s].vis = 0 /\ com'[s].dn = com[s].dn + com[s].vis
      BY <3>1, <3>2 DEF Commons
    <3>4. QED
      BY <3>2, <3>3 DEF Commons
  <2>3. QED
    BY <2>1, <2>2
<1>9. QED
  BY <1>1, <1>7, <1>8 DEF FwControl

LEMMA FwControlType == ASSUME TypeOK, FwControl PROVE TypeOK'
<1> DEFINE c == Head(ctl)
<1>1. c.r \in Ring /\ com' \in [Ring -> Commons]
  BY FwControlEffect
<1>2. PICK ok \in BOOLEAN :
       /\ rsp' = Append(rsp, [m |-> IF c.m = "create" THEN "created" ELSE "deleted",
                              r |-> c.r, ok |-> ok])
       /\ fw' = IF c.m = "create" /\ ~ok THEN fw
                ELSE IF c.m = "create" THEN fw \cup {c.r} ELSE fw \ {c.r}
  BY FwControlEffect
<1>4. rsp' \in Seq(Answers)
  <2>1. [m |-> IF c.m = "create" THEN "created" ELSE "deleted", r |-> c.r, ok |-> ok] \in Answers
    BY <1>1 DEF Answers
  <2> HIDE DEF c
  <2>2. QED
    BY <1>2, <2>1 DEF TypeOK
<1>5. fw' \subseteq Ring
  BY <1>1, <1>2 DEF TypeOK
<1>6. ctl' \in Seq(Controls)
  BY DEF TypeOK, FwControl
<1>7. QED
  BY <1>1, <1>4, <1>5, <1>6 DEF TypeOK, FwControl, ifVars, mapVars, turnVars, leftVars, badVars

-----------------------------------------------------------------------------
LEMMA TxStatusType == ASSUME TypeOK, NEW r \in Ring, TxStatus(r) PROVE TypeOK'
<1>1. com[r] \in Commons /\ com[r].dn > 0 /\ com' = Completed(r)
  BY DEF TypeOK, TxStatus
<1>2. com' \in [Ring -> Commons]
  <2>1. com[r].dn - 1 \in Nat /\ com[r].out - 1 \in Int
    BY <1>1 DEF Commons
  <2>2. [com[r] EXCEPT !.dn = @ - 1, !.out = @ - 1] \in Commons
    BY <1>1, <2>1, DnOutUpdate, Zenon
  <2>3. QED
    BY <1>1, <2>2 DEF TypeOK, Completed
<1>3. oops' \subseteq Ring
  BY DEF TxStatus
<1>4. QED
  BY <1>2, <1>3 DEF TypeOK, TxStatus, ifVars, leftVars, msgVars

LEMMA HeadOfAnswers ==
  ASSUME TypeOK, rsp # <<>>
  PROVE  Head(rsp).r \in Ring /\ Head(rsp).ok \in BOOLEAN /\ Tail(rsp) \in Seq(Answers)
<1>1. Head(rsp) \in Answers /\ Tail(rsp) \in Seq(Answers)
  BY DEF TypeOK
<1>2. QED
  BY <1>1 DEF Answers

LEMMA CreatedEffect ==
  ASSUME TypeOK, Created
  PROVE  /\ rsp # <<>>
         /\ \/ /\ UNCHANGED <<com, stopped, tx, oops>>
               /\ \/ ring' = ring /\ ~Exists(Head(rsp).r)
                  \/ Exists(Head(rsp).r) /\ ring' = [ring EXCEPT ![Head(rsp).r].status = "open"]
               /\ flowMap' = flowMap \cup {Head(rsp).r} /\ queued' \in BOOLEAN
               /\ starved' = starved \ {Head(rsp).r} /\ late' = late \ {Head(rsp).r}
               /\ Head(rsp).ok
            \/ /\ Remove(Head(rsp).r) /\ UNCHANGED <<flowMap, queued>> /\ ~Head(rsp).ok
               /\ com' = Freed(com, Head(rsp).r) /\ oops' = FreedTwice(Head(rsp).r)
<1>1. CASE Head(rsp).ok
  BY <1>1 DEF Created, Schedule, TypeOK
<1>2. CASE ~Head(rsp).ok
  BY <1>2 DEF Created
<1>3. QED
  BY <1>1, <1>2

LEMMA CreatedType == ASSUME TypeOK, Created PROVE TypeOK'
<1> DEFINE r == Head(rsp).r
<1>1. r \in Ring /\ rsp' \in Seq(Answers)
  BY CreatedEffect, HeadOfAnswers DEF Created
<1>2. CASE /\ UNCHANGED <<com, stopped, tx, oops>>
           /\ ring' = ring \/ (Exists(r) /\ ring' = [ring EXCEPT ![r].status = "open"])
           /\ flowMap' = flowMap \cup {r} /\ queued' \in BOOLEAN
           /\ starved' = starved \ {r} /\ late' = late \ {r}
  <2>1. [ring[r] EXCEPT !.status = "open"] \in Rings
    <3>1. ring[r] \in Rings
      BY <1>1 DEF TypeOK
    <3>2. QED
      BY <3>1 DEF Rings
  <2> HIDE DEF r
  <2>2. ring' \in [Ring -> Rings]
    BY <1>1, <1>2, <2>1 DEF TypeOK
  <2>3. QED
    BY <1>1, <1>2, <2>2 DEF TypeOK, Created
<1>3. CASE /\ Remove(r) /\ UNCHANGED <<flowMap, queued>>
           /\ com' = Freed(com, r) /\ oops' = FreedTwice(r)
  <2>1. com' \in [Ring -> Commons] /\ oops' \subseteq Ring
    BY <1>1, <1>3, FreedType DEF TypeOK, FreedTwice
  <2>2. QED
    BY <1>1, <1>3, <2>1, RemoveType DEF TypeOK, Created
<1>4. QED
  BY <1>2, <1>3, CreatedEffect

LEMMA DeletedType == ASSUME TypeOK, Deleted PROVE TypeOK'
<1>1. Head(rsp).r \in Ring /\ rsp' \in Seq(Answers)
  BY HeadOfAnswers DEF Deleted
<1>2. Remove(Head(rsp).r)
  BY DEF Deleted
<1>3. com' \in [Ring -> Commons] /\ oops' \subseteq Ring
  BY <1>1, FreedType DEF Deleted, TypeOK, FreedTwice
<1>4. QED
  BY <1>1, <1>2, <1>3, RemoveType DEF TypeOK, Deleted, turnVars

LEMMA TriggerType == ASSUME TypeOK, NEW r \in Ring, Trigger(r) PROVE TypeOK'
<1>1. /\ flowMap' \subseteq Ring /\ starved' \subseteq Ring /\ late' \subseteq Ring
      /\ queued' \in BOOLEAN
  BY DEF TypeOK, Trigger, Schedule, leftVars
<1>2. QED
  BY <1>1 DEF TypeOK, Trigger, ifVars, msgVars, badVars

-----------------------------------------------------------------------------
LEMMA OpStartType ==
  ASSUME TypeOK, NEW i \in If, NEW a \in Da, DeletePeer(i, a) \/ AddTdlsPeer(i, a)
  PROVE  TypeOK'
<1>1. CASE DeletePeer(i, a)
  <2>1. op' \in Operations
    BY <1>1 DEF TypeOK, DeletePeer, Operations, Sta
  <2>2. QED
    BY <1>1, <2>1 DEF TypeOK, DeletePeer, ifVars, mapVars, turnVars, leftVars, msgVars, badVars
<1>2. CASE AddTdlsPeer(i, a)
  BY <1>2 DEF TypeOK, AddTdlsPeer, mapVars, turnVars, leftVars, msgVars, badVars
<1>3. QED
  BY <1>1, <1>2

LEMMA ConfigureType == ASSUME TypeOK, NEW i \in If, ConfigureAddrMode(i) PROVE TypeOK'
<1>1. op' \in Operations
  BY DEF TypeOK, ConfigureAddrMode, Operations
<1>2. QED
  BY <1>1 DEF TypeOK, ConfigureAddrMode, ifVars, mapVars, turnVars, leftVars, msgVars, badVars

\* The caller that deletes is at a ring.
AtRing == op.pc \in {"seen", "wait"} => op.r \in Ring

LEMMA OpCloseType == ASSUME TypeOK, AtRing, OpClose PROVE TypeOK'
<1>0. op.r \in Ring
  BY DEF AtRing, OpClose, OpAt
<1>1. [ring[op.r] EXCEPT !.status = "closing"] \in Rings
  <2>1. ring[op.r] \in Rings
    BY <1>0 DEF TypeOK
  <2>2. QED
    BY <2>1 DEF Rings
<1>2. ring' \in [Ring -> Rings]
  BY <1>0, <1>1 DEF TypeOK, OpClose
<1>3. op' \in Operations
  BY DEF TypeOK, OpClose, Operations
<1>4. QED
  BY <1>2, <1>3 DEF TypeOK, OpClose, ifVars, mapVars, turnVars, leftVars, msgVars, badVars

LEMMA DeletesType ==
  ASSUME TypeOK, NEW r \in Ring
  PROVE  /\ [m |-> "delete", r |-> r] \in Controls /\ Deletes(r) \in Seq(Controls)
<1>1. [m |-> "delete", r |-> r] \in Controls
  BY DEF Controls
<1>2. QED
  BY <1>1 DEF TypeOK, Deletes

LEMMA OpLookType == ASSUME TypeOK, NEW r \in Ring, OpLook(r) PROVE TypeOK'
<1>1. op' \in Operations
  BY Ids DEF TypeOK, OpLook, Operations
<1>2. QED
  BY <1>1 DEF TypeOK, OpLook, ifVars, mapVars, turnVars, leftVars, msgVars, badVars

\* The caller goes on with the next ring.
LEMMA OnType ==
  ASSUME TypeOK PROVE [op EXCEPT !.pc = "scan", !.r = op.r + 1] \in Operations
<1>1. op \in Operations
  BY DEF TypeOK
<1>2. op.r + 1 \in Nat
  BY <1>1 DEF Operations
<1>3. QED
  BY <1>1, <1>2 DEF Operations

LEMMA OpTestType == ASSUME TypeOK, AtRing, OpTest PROVE TypeOK'
<1>1. op.r \in Ring
  BY DEF AtRing, OpTest, OpAt
<1>2. op' \in Operations
  BY OnType DEF OpTest, TypeOK
<1>3. oops' \subseteq Ring /\ unsent' \subseteq Ring
  BY <1>1 DEF TypeOK, OpTest, Oops, badVars
<1>4. QED
  BY <1>2, <1>3 DEF TypeOK, OpTest, ifVars, mapVars, turnVars, leftVars, msgVars

LEMMA OpSubmitType == ASSUME TypeOK, AtRing, OpSubmit PROVE TypeOK'
<1>1. op.r \in Ring
  BY DEF AtRing, OpSubmit, Waited, OpAt
<1>2. com' \in [Ring -> Commons] /\ ctl' \in Seq(Controls)
  BY <1>1, ForgottenType, DeletesType DEF TypeOK, OpSubmit
<1>3. op' \in Operations
  BY OnType DEF TypeOK, OpSubmit
<1>4. oops' \subseteq Ring /\ unsent' \subseteq Ring
  BY <1>1 DEF TypeOK, OpSubmit, Oops, badVars
<1>5. QED
  BY <1>2, <1>3, <1>4 DEF TypeOK, OpSubmit, ifVars, mapVars, turnVars, leftVars

LEMMA OpUnsentType == ASSUME TypeOK, AtRing, OpUnsent PROVE TypeOK'
<1>1. op.r \in Ring
  BY DEF AtRing, OpUnsent, Waited, OpAt
<1>2. com' \in [Ring -> Commons] /\ ctl' \in Seq(Controls)
  BY <1>1, ForgottenType, FreedType, DeletesType DEF TypeOK, OpUnsent
<1>3. op' \in Operations
  BY OnType DEF TypeOK, OpUnsent
<1>4. oops' \subseteq Ring /\ unsent' \subseteq Ring
  BY <1>1 DEF TypeOK, OpUnsent, FreedTwice
<1>5. QED
  BY <1>1, <1>2, <1>3, <1>4, RemoveType DEF TypeOK, OpUnsent, turnVars

LEMMA OpEndType == ASSUME TypeOK, OpEnd PROVE TypeOK'
<1>1. op' \in Operations
  BY DEF OpEnd, OpIdle, Operations
<1>2. indirect' \in [If -> BOOLEAN]
  BY DEF OpEnd, TypeOK
<1>3. tdls' \subseteq Da
  BY DEF OpEnd, TypeOK
<1>4. QED
  BY <1>1, <1>2, <1>3 DEF TypeOK, OpEnd, mapVars, turnVars, leftVars, msgVars, badVars

-----------------------------------------------------------------------------
LEMMA AtRingInit == Init => AtRing
BY DEF Init, OpIdle, AtRing

\* The steps that move the caller
Moves ==
  \/ (\E i \in If, a \in Da : DeletePeer(i, a)) \/ (\E i \in If : ConfigureAddrMode(i))
  \/ (\E r \in Ring : OpLook(r)) \/ OpTest \/ OpClose \/ OpSubmit \/ OpUnsent \/ OpEnd

LEMMA OpStays == ASSUME [Next]_vars, ~Moves PROVE op' = op
BY DEF Next, vars, Xmit, Transmit, Enqueue, Block, Recheck, Scheduling, Worker, TxwStart, Post,
       PostEnd, Creation, Create, CreateFails, CreateUnsent, Firmware, FwComplete, FwControl,
       Interrupt, TxStatus, RxTxEmpty, Created, Deleted, RxCtlEmpty, Trigger, AddTdlsPeer,
       Deletion, Moves

LEMMA AtRingStep == ASSUME TypeOK, AtRing, [Next]_vars PROVE AtRing'
<1>0. op \in Operations
  BY DEF TypeOK
<1>1. CASE op' = op
  BY <1>1 DEF AtRing
<1>2. CASE \E r \in Ring : OpLook(r)
  BY <1>0, <1>2 DEF OpLook, Operations, AtRing
<1>3. CASE OpClose
  BY <1>0, <1>3 DEF OpClose, OpAt, Operations, AtRing
<1>4. CASE OpTest \/ OpSubmit \/ OpUnsent
  <2>1. op' = op \/ op' = [op EXCEPT !.pc = "scan", !.r = op.r + 1]
    BY <1>4 DEF OpTest, OpSubmit, OpUnsent
  <2>2. QED
    BY <1>0, <1>1, <2>1 DEF Operations, AtRing
<1>5. CASE OpEnd
  BY <1>5 DEF OpEnd, OpIdle, AtRing
<1>6. ASSUME NEW i \in If, NEW a \in Da, DeletePeer(i, a) PROVE AtRing'
  BY <1>0, <1>6 DEF DeletePeer, Operations, AtRing
<1>7. ASSUME NEW i \in If, ConfigureAddrMode(i) PROVE AtRing'
  BY <1>0, <1>7 DEF ConfigureAddrMode, Operations, AtRing
<1>8. QED
  BY <1>1, <1>2, <1>3, <1>4, <1>5, <1>6, <1>7, OpStays DEF Moves

LEMMA TypeStep == ASSUME TypeOK, AtRing, [Next]_vars PROVE TypeOK'
<1>1. CASE \E i \in If, a \in Da : Xmit(i, a)
  BY <1>1, XmitType
<1>2. CASE \E i \in If : Transmit(i)
  BY <1>2, EnqueueType, BlockType, RecheckType, SchedulingType DEF Transmit
<1>3. CASE Worker
  BY <1>3, TxwStartType, PostType, PostEndType DEF Worker
<1>4. CASE Creation
  BY <1>4, CreateType, CreateLostType DEF Creation
<1>5. CASE Firmware
  BY <1>5, FwCompleteType, FwControlType DEF Firmware
<1>6. CASE RxTxEmpty \/ RxCtlEmpty
  <2>1. rx' \in {"tx", "ctl", "trig"}
    BY <1>6 DEF RxTxEmpty, RxCtlEmpty
  <2>2. QED
    BY <1>6, <2>1 DEF TypeOK, RxTxEmpty, RxCtlEmpty, ifVars, mapVars, turnVars, leftVars, msgVars,
                      badVars
<1>7. CASE Interrupt
  BY <1>6, <1>7, TxStatusType, CreatedType, DeletedType, TriggerType DEF Interrupt
<1>8. CASE \/ \E i \in If, a \in Da : DeletePeer(i, a)
           \/ \E i \in If : ConfigureAddrMode(i)
           \/ \E i \in If, a \in Da : AddTdlsPeer(i, a)
  BY <1>8, OpStartType, ConfigureType
<1>9. CASE Deletion
  BY <1>9, OpLookType, OpTestType, OpCloseType, OpSubmitType, OpUnsentType, OpEndType DEF Deletion
<1>10. CASE UNCHANGED vars
  BY <1>10 DEF TypeOK, vars, ifVars, mapVars, turnVars, leftVars, msgVars, badVars
<1>11. QED
  BY <1>1, <1>2, <1>3, <1>4, <1>5, <1>7, <1>8, <1>9, <1>10 DEF Next

(* Every variable of the transmit side keeps its type: no queue and no count *)
(* of packets goes below zero but the driver's own outstanding_tx.           *)
THEOREM TypeCorrect == Spec => [](TypeOK /\ AtRing)
<1>1. Init => TypeOK /\ AtRing
  BY InitType, AtRingInit
<1>2. TypeOK /\ AtRing /\ [Next]_vars => TypeOK' /\ AtRing'
  BY TypeStep, AtRingStep
<1>3. QED
  BY <1>1, <1>2, PTL DEF Spec

-----------------------------------------------------------------------------
(* What every step does to the counts of a ring.                             *)
Counted(r) == com[r].out <= InFlight(r)

LEMMA SameCounts ==
  ASSUME NEW r \in Ring, Counted(r),
         com'[r].out = com[r].out, com'[r].vis = com[r].vis, com'[r].dn = com[r].dn
  PROVE  Counted(r)'
BY DEF Counted, InFlight

LEMMA CountedStep ==
  ASSUME TypeOK, AtRing, NeverOvercounted, [Next]_vars PROVE NeverOvercounted'
<1> SUFFICES ASSUME NEW r \in Ring PROVE Counted(r)'
  BY DEF NeverOvercounted, Counted
<1>0. /\ Counted(r) /\ com \in [Ring -> Commons] /\ com[r] \in Commons
  BY DEF NeverOvercounted, Counted, TypeOK
<1>1. CASE UNCHANGED com
  BY <1>0, <1>1 DEF Counted, InFlight
<1>2. ASSUME NEW c, NEW full, Pick(c, full) PROVE Counted(r)'
  BY <1>0, <1>2, PickEffect, SameCounts
<1>3. CASE Post
  <2>1. PICK fits \in BOOLEAN :
          IF fits THEN com' = [com EXCEPT ![txw].vis = @ + 1, ![txw].out = @ + 1]
                  ELSE \E full : Pick(txw + 1, full)
    BY <1>3, PostEffect
  <2>2. CASE fits
    BY <1>0, <2>1, <2>2 DEF Counted, InFlight, Commons
  <2>3. QED
    BY <1>2, <2>1, <2>2
<1>4. CASE Create
  <2>1. com' = com \/ com' = [com EXCEPT ![Head(crq)].dma = TRUE]
    BY <1>4 DEF Create
  <2>2. QED
    BY <1>0, <1>1, <2>1, SameCounts DEF Commons
<1>5. ASSUME NEW s \in Ring, FwComplete(s) PROVE Counted(r)'
  <2>1. CASE r # s
    BY <1>0, <1>5, <2>1, FwCompleteEffect, SameCounts
  <2>2. CASE r = s
    BY <1>0, <1>5, <2>2, FwCompleteEffect DEF Counted, InFlight, Commons
  <2>3. QED
    BY <2>1, <2>2
<1>6. CASE FwControl
  BY <1>0, <1>6, FwControlEffect DEF Counted, InFlight
<1>7. ASSUME NEW s \in Ring, TxStatus(s) PROVE Counted(r)'
  <2>1. com' = [com EXCEPT ![s].dn = @ - 1, ![s].out = @ - 1]
    BY <1>7 DEF TxStatus, Completed
  <2>2. QED
    BY <1>0, <2>1 DEF Counted, InFlight, Commons
<1>8. ASSUME NEW s \in Ring, com' = Freed(com, s) PROVE Counted(r)'
  <2>1. /\ Freed(com, s)[r].out = com[r].out /\ Freed(com, s)[r].vis = com[r].vis
        /\ Freed(com, s)[r].dn = com[r].dn
    BY <1>0, FreedType
  <2>2. QED
    BY <1>0, <1>8, <2>1, SameCounts
<1>9. CASE Created \/ Deleted
  <2>1. Head(rsp).r \in Ring
    BY <1>9, HeadOfAnswers DEF Created, Deleted
  <2>2. QED
    BY <1>1, <1>8, <1>9, <2>1, CreatedEffect DEF Deleted
<1>10. CASE CreateFails \/ CreateUnsent
  <2>1. Head(crq) \in Ring
    BY <1>10, CreatingType DEF CreateFails, CreateUnsent, Failing
  <2>2. QED
    BY <1>1, <1>8, <1>10, <2>1 DEF CreateFails, CreateUnsent
<1>11. ASSUME NEW c \in [Ring -> Commons], NEW s \in Ring, c = Forgotten(s),
              \/ com' = c
              \/ com' = Freed(c, s)
       PROVE  Counted(r)'
  <2>1. /\ c[r].vis = com[r].vis /\ c[r].dn = com[r].dn
        /\ c[r].out = IF r = s THEN 0 ELSE com[r].out
    BY <1>11, ForgottenType
  <2>2. /\ Freed(c, s)[r].out = c[r].out /\ Freed(c, s)[r].vis = c[r].vis
        /\ Freed(c, s)[r].dn = c[r].dn
    BY FreedType
  <2>3. /\ com'[r].vis = com[r].vis /\ com'[r].dn = com[r].dn
        /\ com'[r].out = IF r = s THEN 0 ELSE com[r].out
    BY <1>11, <2>1, <2>2
  <2>4. QED
    BY <1>0, <2>3 DEF Counted, InFlight, Commons
<1>12. CASE OpSubmit \/ OpUnsent
  <2>1. op.r \in Ring
    BY <1>12 DEF AtRing, OpSubmit, OpUnsent, Waited, OpAt
  <2>2. com' \in {com, Forgotten(op.r), Freed(Forgotten(op.r), op.r)}
    BY <1>12 DEF OpSubmit, OpUnsent
  <2>3. QED
    BY <1>1, <1>11, <2>1, <2>2, ForgottenType
<1>13. QED
  BY <1>1, <1>2, <1>3, <1>4, <1>5, <1>6, <1>7, <1>9, <1>10, <1>12
     DEF Next, vars, Xmit, Transmit, Enqueue, Block, Recheck, Scheduling, Worker, TxwStart,
         PostEnd, Creation, Firmware, Interrupt, RxTxEmpty, RxCtlEmpty, Trigger, DeletePeer,
         ConfigureAddrMode, AddTdlsPeer, Deletion, OpLook, OpTest, OpClose, OpEnd

(* The driver never believes more packets outstanding than there are, though *)
(* a deletion forgets them and their completions come later.                 *)
THEOREM CountIsSafe == Spec => []NeverOvercounted
<1>1. Init => NeverOvercounted
  BY DEF Init, NeverOvercounted, InFlight
<1>2. TypeOK /\ AtRing /\ NeverOvercounted /\ [Next]_vars => NeverOvercounted'
  BY CountedStep
<1>3. QED
  BY <1>1, <1>2, TypeCorrect, PTL DEF Spec

-----------------------------------------------------------------------------
(* Stopping and waking the interface.                                        *)
StopHasCause ==
  \A i \in If : stopped[i] =>
    \E r \in Ring : Exists(r) /\ ring[r].if = i /\ ring[r].blocked

\* Only a transmitter that is about to look again lets a blocked ring be short.
Rechecked(r) == \E i \in If : tx[i].pc = "recheck" /\ tx[i].r = r
LongEnough(r) == ring[r].blocked /\ ~Rechecked(r) => ring[r].qlen >= Low
StopInv == StopHasCause /\ \A r \in Ring : LongEnough(r)

LEMMA CauseKept ==
  ASSUME TypeOK, StopHasCause, stopped' = stopped,
         \A r \in Ring : Exists(r) /\ ring[r].blocked =>
           Exists(r)' /\ ring'[r].blocked /\ ring'[r].if = ring[r].if
  PROVE  StopHasCause'
BY DEF StopHasCause

LEMMA CauseUnblocked ==
  ASSUME TypeOK, StopHasCause, NEW r \in Ring, stopped' = StopAfter(r, FALSE),
         \A s \in Ring \ {r} : ring'[s] = ring[s]
  PROVE  StopHasCause'
<1> SUFFICES ASSUME NEW i \in If, stopped'[i]
             PROVE  \E s \in Ring : Exists(s)' /\ ring'[s].if = i /\ ring'[s].blocked
  BY DEF StopHasCause
<1>1. stopped[i]
  BY DEF StopAfter, TypeOK
<1>2. PICK w \in Ring : Exists(w) /\ ring[w].if = i /\ ring[w].blocked
  BY <1>1 DEF StopHasCause
<1>3. CASE w # r
  BY <1>2, <1>3 DEF Exists
<1>4. CASE w = r
  <2>1. OtherBlocked(r)
    BY <1>2, <1>4 DEF StopAfter, TypeOK
  <2>2. PICK s \in Ring \ {r} : Open(s) /\ ring[s].blocked /\ ring[s].if = ring[r].if
    BY <2>1 DEF OtherBlocked
  <2>3. QED
    BY <1>2, <1>4, <2>2 DEF Open, Exists
<1>5. QED
  BY <1>3, <1>4

LEMMA BlockedEffect ==
  ASSUME TypeOK, NEW r \in Ring, NEW b \in BOOLEAN, ring' = Blocked(r, b)
  PROVE  /\ \A s \in Ring \ {r} : ring'[s] = ring[s]
         /\ ring'[r].blocked = b /\ ring'[r].qlen = ring[r].qlen
         /\ ring'[r].if = ring[r].if /\ ring'[r].status = ring[r].status
<1>1. ring' = [ring EXCEPT ![r] = [ring[r] EXCEPT !.blocked = b]] /\ ring[r] \in Rings
  BY DEF Blocked, TypeOK
<1>2. ring'[r] = [ring[r] EXCEPT !.blocked = b] /\ \A s \in Ring \ {r} : ring'[s] = ring[s]
  BY <1>1 DEF TypeOK
<1>3. QED
  BY <1>1, <1>2 DEF Rings

LEMMA CauseBlocked ==
  ASSUME TypeOK, StopHasCause, NEW r \in Ring, Exists(r), stopped' = StopAfter(r, TRUE),
         ring' = Blocked(r, TRUE)
  PROVE  StopHasCause'
<1>1. /\ Exists(r)' /\ ring'[r].blocked /\ ring'[r].if = ring[r].if
      /\ \A s \in Ring \ {r} : ring'[s] = ring[s]
  BY BlockedEffect DEF Exists
<1>2. \A i \in If : stopped'[i] => stopped[i] \/ i = ring[r].if
  BY DEF StopAfter, TypeOK
<1>3. SUFFICES ASSUME NEW i \in If, stopped'[i]
               PROVE  \E s \in Ring : Exists(s)' /\ ring'[s].if = i /\ ring'[s].blocked
  BY DEF StopHasCause
<1>4. CASE i = ring[r].if
  BY <1>1, <1>4
<1>5. CASE i # ring[r].if
  <2>1. PICK w \in Ring : Exists(w) /\ ring[w].if = i /\ ring[w].blocked
    BY <1>2, <1>3, <1>5 DEF StopHasCause
  <2>2. QED
    BY <1>1, <1>5, <2>1 DEF Exists
<1>6. QED
  BY <1>4, <1>5

\* The length is kept by a step that takes no packet from a blocked ring and
\* leaves its transmitters alone.
LEMMA LengthKept ==
  ASSUME TypeOK, NEW r \in Ring, LongEnough(r), Rechecked(r) => Rechecked(r)',
         ring'[r].blocked => ring[r].blocked /\ ring'[r].qlen >= ring[r].qlen,
         ring'[r] \in Rings
  PROVE  LongEnough(r)'
BY Thresholds DEF LongEnough, TypeOK, Rings

LEMMA XmitStop == ASSUME TypeOK, StopInv, NEW i \in If, NEW a \in Da, Xmit(i, a) PROVE StopInv'
<1>1. PICK r \in Ring :
       /\ At(i, "idle")
       /\ \/ tx' = [tx EXCEPT ![i] = Bound(r, FALSE)] /\ ring' = ring
          \/ /\ ~Exists(r)
             /\ ring' = [ring EXCEPT ![r] = [status |-> "closed", if |-> i, da |-> a,
                                             blocked |-> FALSE, qlen |-> 0]]
             /\ tx' = [tx EXCEPT ![i] = Bound(r, TRUE)]
  BY Zenon DEF Xmit
<1>2. StopHasCause'
  <2>1. \A s \in Ring : Exists(s) => ring'[s] = ring[s]
    BY <1>1 DEF TypeOK, Exists
  <2>2. stopped' = stopped
    BY DEF Xmit, ifVars
  <2>3. QED
    BY <2>1, <2>2, CauseKept DEF StopInv, Exists
<1>3. ASSUME NEW s \in Ring PROVE LongEnough(s)'
  <2>1. Rechecked(s) => Rechecked(s)'
    BY <1>1 DEF Rechecked, TypeOK, At
  <2>2. ring'[s].blocked => ring[s].blocked /\ ring'[s].qlen = ring[s].qlen
    <3>1. ring'[s] = ring[s] \/ ring'[s] = [status |-> "closed", if |-> i, da |-> a,
                                           blocked |-> FALSE, qlen |-> 0]
      BY <1>1 DEF TypeOK
    <3>2. QED
      BY <3>1
  <2>3. LongEnough(s) /\ ring[s] \in Rings
    BY DEF StopInv, TypeOK
  <2>4. QED
    BY <2>1, <2>2, <2>3 DEF LongEnough
<1>4. QED
  BY <1>2, <1>3 DEF StopInv

LEMMA EnqueueStop == ASSUME TypeOK, StopInv, NEW i \in If, Enqueue(i) PROVE StopInv'
<1> DEFINE r == tx[i].r
<1>1. /\ r \in Ring /\ stopped' = stopped /\ tx[i].pc # "recheck"
      /\ ring' = [ring EXCEPT ![r].qlen = @ + 1] \/ ring' = ring
      /\ \A j \in If \ {i} : tx'[j] = tx[j]
  BY DEF Enqueue, ifVars, TypeOK, Transmissions, At
<1>2. ASSUME NEW s \in Ring
      PROVE  /\ ring[s] \in Rings /\ ring'[s].qlen >= ring[s].qlen
             /\ ring'[s].blocked = ring[s].blocked
             /\ ring'[s].if = ring[s].if /\ Exists(s)' = Exists(s)
  <2>1. ring[s] \in Rings
    BY DEF TypeOK
  <2> HIDE DEF r
  <2>2. ring'[s] = ring[s] \/ ring'[s] = [ring[s] EXCEPT !.qlen = ring[s].qlen + 1]
    BY <1>1 DEF TypeOK
  <2>3. QED
    BY <2>1, <2>2 DEF Rings, Exists
<1>3. StopHasCause'
  BY <1>1, <1>2, CauseKept DEF StopInv
<1>4. ASSUME NEW s \in Ring PROVE LongEnough(s)'
  <2>1. Rechecked(s) => Rechecked(s)'
    BY <1>1 DEF Rechecked
  <2>2. ring'[s] \in Rings /\ LongEnough(s)
    BY EnqueueType DEF TypeOK, StopInv
  <2>3. QED
    BY <1>2, <2>1, <2>2, LengthKept
<1>5. QED
  BY <1>3, <1>4 DEF StopInv

\* A step that leaves the rings and the interfaces alone, and no transmitter
\* that was about to look again behind.
LEMMA QuietStop ==
  ASSUME TypeOK, StopInv, ring' = ring, stopped' = stopped,
         \A r \in Ring : Rechecked(r) => Rechecked(r)'
  PROVE  StopInv'
<1>1. StopHasCause'
  BY CauseKept DEF StopInv, Exists
<1>2. \A r \in Ring : LongEnough(r)'
  BY DEF StopInv, LongEnough
<1>3. QED
  BY <1>1, <1>2 DEF StopInv

LEMMA BlockStop == ASSUME TypeOK, StopInv, NEW i \in If, Block(i) PROVE StopInv'
<1> DEFINE r == tx[i].r
<1>1. CASE Exists(r)
  <2>1. /\ r \in Ring /\ stopped' = StopAfter(r, TRUE) /\ ring' = Blocked(r, TRUE)
        /\ tx[i].pc = "high" /\ tx' = [tx EXCEPT ![i].pc = "recheck"]
    BY <1>1, Target DEF Block, At
  <2>2. StopHasCause'
    BY <1>1, <2>1, CauseBlocked DEF StopInv
  <2>3. ASSUME NEW s \in Ring PROVE LongEnough(s)'
    <3>1. (s = r => Rechecked(s)') /\ (Rechecked(s) => Rechecked(s)')
      BY <2>1 DEF Rechecked, TypeOK, Transmissions
    <3>2. CASE s = r
      BY <3>1, <3>2 DEF LongEnough
    <3>3. CASE s # r
      <4>1. ring'[s] = ring[s]
        BY <2>1, <3>3, BlockedEffect
      <4>2. QED
        BY <3>1, <4>1 DEF StopInv, LongEnough
    <3>4. QED
      BY <3>2, <3>3
  <2>4. QED
    BY <2>2, <2>3 DEF StopInv
<1>2. CASE ~Exists(r)
  BY <1>2, QuietStop DEF Block, Rechecked
<1>3. QED
  BY <1>1, <1>2

LEMMA RecheckStop == ASSUME TypeOK, StopInv, NEW i \in If, Recheck(i) PROVE StopInv'
<1> DEFINE r == tx[i].r
<1>0. CASE tx[i].lost
  BY <1>0, QuietStop DEF Recheck, Rechecked
<1>a. CASE ~tx[i].lost
  <2>1. r \in Ring /\ ring[r] \in Rings
    BY Target
  <2>2. \A j \in If \ {i} : tx'[j] = tx[j]
    BY <1>a DEF Recheck, TypeOK
  <2>3. \/ ring' = Blocked(r, FALSE) /\ stopped' = StopAfter(r, FALSE)
        \/ ring' = ring /\ stopped' = stopped /\ ring[r].qlen >= Low
    <3>1. CASE DrainedMeanwhile(r)
      BY <1>a, <3>1, Zenon DEF Recheck
    <3>2. CASE ~DrainedMeanwhile(r)
      <4>1. ring[r].qlen >= Low
        BY <2>1, <3>2, Thresholds DEF DrainedMeanwhile, Rings
      <4>2. QED
        BY <1>a, <3>2, <4>1 DEF Recheck
    <3>3. QED
      BY <3>1, <3>2
  <2>4. /\ \A s \in Ring \ {r} : ring'[s] = ring[s]
        /\ ring'[r].blocked => ring' = ring /\ ring[r].qlen >= Low
    BY <2>1, <2>3, BlockedEffect
  <2>5. StopHasCause'
    BY <2>1, <2>3, <2>4, CauseUnblocked, CauseKept DEF StopInv, Exists
  <2>6. ASSUME NEW s \in Ring PROVE LongEnough(s)'
    <3>1. CASE s = r
      BY <2>4, <3>1 DEF LongEnough
    <3>2. CASE s # r
      <4>1. Rechecked(s) => Rechecked(s)'
        BY <2>2, <3>2 DEF Rechecked
      <4>2. QED
        BY <2>4, <3>2, <4>1 DEF StopInv, LongEnough
    <3>3. QED
      BY <3>1, <3>2
  <2>7. QED
    BY <2>5, <2>6 DEF StopInv
<1>3. QED
  BY <1>0, <1>a

LEMMA SchedulingStop == ASSUME TypeOK, StopInv, NEW i \in If, Scheduling(i) PROVE StopInv'
<1>1. /\ tx[i].pc = "sched" /\ tx' = [tx EXCEPT ![i] = TxIdle]
      /\ ring' = ring /\ stopped' = stopped
  BY DEF Scheduling, At, ifVars
<1>2. \A r \in Ring : Rechecked(r) => Rechecked(r)'
  BY <1>1 DEF Rechecked, TypeOK
<1>3. QED
  BY <1>1, <1>2, QuietStop

\* One ring changes, to one that is blocked only if it was and is long enough.
LEMMA OneRingStop ==
  ASSUME TypeOK, StopInv, NEW r \in Ring,
         \A s \in Ring \ {r} : ring'[s] = ring[s] /\ (Rechecked(s) => Rechecked(s)'),
         ring'[r].blocked => LongEnough(r)', StopHasCause'
  PROVE  StopInv'
<1>1. ASSUME NEW s \in Ring PROVE LongEnough(s)'
  <2>1. CASE s = r
    BY <2>1 DEF LongEnough
  <2>2. CASE s # r
    BY <2>2 DEF StopInv, LongEnough
  <2>3. QED
    BY <2>1, <2>2
<1>2. QED
  BY <1>1 DEF StopInv

LEMMA PostStop == ASSUME TypeOK, StopInv, Post PROVE StopInv'
<1>0. PICK w \in Ring : w = txw
  BY PostEffect
<1>1. ring[w] \in Rings /\ tx' = tx
  BY DEF TypeOK, Post
<1>2. PICK opens, fits \in BOOLEAN :
        /\ opens <=> ring[w].blocked /\ ring[w].qlen - 1 < Low
        /\ ring' = [ring EXCEPT ![w].blocked = @ /\ ~opens,
                               ![w].qlen = IF fits THEN @ - 1 ELSE @]
        /\ stopped' = IF opens THEN StopAfter(w, FALSE) ELSE stopped
  BY <1>0, PostEffect, Zenon
<1>3. PICK b, n : /\ ring' = [ring EXCEPT ![w].blocked = b, ![w].qlen = n]
                  /\ b = (ring[w].blocked /\ ~opens)
                  /\ n = IF fits THEN ring[w].qlen - 1 ELSE ring[w].qlen
  BY <1>2, Zenon
<1>4. /\ \A s \in Ring \ {w} : ring'[s] = ring[s]
      /\ ring'[w].blocked = b /\ ring'[w].qlen = n
      /\ ring'[w].if = ring[w].if /\ ring'[w].status = ring[w].status
  BY <1>1, <1>3 DEF TypeOK, Rings
<1>5. StopHasCause'
  <2>1. CASE opens
    BY <1>1, <1>2, <1>4, <2>1, CauseUnblocked DEF StopInv
  <2>2. CASE ~opens
    <3>1. \A s \in Ring : Exists(s) /\ ring[s].blocked =>
            Exists(s)' /\ ring'[s].blocked /\ ring'[s].if = ring[s].if
      BY <1>3, <1>4, <2>2 DEF Exists
    <3>2. QED
      BY <1>2, <2>2, <3>1, CauseKept DEF StopInv
  <2>3. QED
    BY <2>1, <2>2
<1>6. ASSUME ring'[w].blocked PROVE LongEnough(w)'
  <2>1. ring[w].blocked /\ ~opens
    BY <1>3, <1>4, <1>6
  <2>2. ~(ring[w].qlen - 1 < Low) /\ ring[w].qlen \in Nat
    BY <1>1, <1>2, <2>1 DEF Rings
  <2>3. n >= Low
    BY <1>3, <2>2, Thresholds
  <2>4. QED
    BY <1>4, <2>3 DEF LongEnough
<1>7. QED
  BY <1>1, <1>4, <1>5, <1>6, OneRingStop DEF Rechecked

\* What the removal of a ring does to the transmissions: those between their
\* lookup and their use have lost it.
LEMMA RemoveEffect ==
  ASSUME TypeOK, NEW r \in Ring, Remove(r)
  PROVE  /\ ring'[r] = NoRing /\ \A s \in Ring \ {r} : ring'[s] = ring[s]
         /\ \A i \in If : /\ tx'[i].pc = tx[i].pc /\ tx'[i].r = tx[i].r
                         /\ tx'[i].first = tx[i].first
<1>1. ring'[r] = NoRing /\ \A s \in Ring \ {r} : ring'[s] = ring[s]
  BY DEF Remove, TypeOK
<1>2. ASSUME NEW i \in If
      PROVE  tx'[i].pc = tx[i].pc /\ tx'[i].r = tx[i].r /\ tx'[i].first = tx[i].first
  <2>1. PICK b : tx'[i] = [tx[i] EXCEPT !.lost = b]
    <3>1. tx' = [j \in If |->
             [tx[j] EXCEPT !.lost = tx[j].lost \/ (tx[j].pc \notin {"idle", "sched"} /\ tx[j].r = r)]]
      BY Zenon DEF Remove
    <3>2. QED
      BY <3>1, Zenon
  <2>2. tx[i] \in Transmissions
    BY Target
  <2>3. QED
    BY <2>1, <2>2 DEF Transmissions
<1>3. QED
  BY <1>1, <1>2

LEMMA RemoveStop ==
  ASSUME TypeOK, StopInv, NEW r \in Ring, Remove(r) PROVE StopInv'
<1>1. /\ \A s \in Ring \ {r} : ring'[s] = ring[s]
      /\ ~ring'[r].blocked
  BY RemoveEffect DEF NoRing
<1>2. StopHasCause'
  <2>1. CASE Exists(r)
    BY <1>1, <2>1, CauseUnblocked DEF Remove, StopInv
  <2>2. CASE ~Exists(r)
    <3>1. \A s \in Ring : Exists(s) => ring'[s] = ring[s]
      BY <1>1, <2>2
    <3>2. QED
      BY <2>2, <3>1, CauseKept DEF Remove, StopInv, Exists
  <2>3. QED
    BY <2>1, <2>2
<1>3. ASSUME NEW s \in Ring PROVE Rechecked(s) => Rechecked(s)'
  <2>1. \A i \in If : tx'[i].pc = tx[i].pc /\ tx'[i].r = tx[i].r
    BY RemoveEffect
  <2>2. QED
    BY <2>1 DEF Rechecked
<1>4. QED
  BY <1>1, <1>2, <1>3, OneRingStop

\* A ring opens, or is closing: its queue is what it was.
LEMMA StatusStop ==
  ASSUME TypeOK, StopInv, tx' = tx, stopped' = stopped, NEW r \in Ring,
         NEW status \in {"open", "closing"}, ring' = [ring EXCEPT ![r].status = status]
  PROVE  StopInv'
<1>1. /\ \A s \in Ring \ {r} : ring'[s] = ring[s]
      /\ ring'[r].blocked = ring[r].blocked /\ ring'[r].qlen = ring[r].qlen
      /\ ring'[r].if = ring[r].if /\ ring'[r].status = status
  BY DEF TypeOK, Rings
<1>2. StopHasCause'
  BY <1>1, CauseKept DEF StopInv, Exists
<1>3. LongEnough(r)'
  BY <1>1 DEF StopInv, LongEnough, Rechecked
<1>4. QED
  BY <1>1, <1>2, <1>3, OneRingStop DEF Rechecked

LEMMA AnswerStop == ASSUME TypeOK, StopInv, Created \/ Deleted PROVE StopInv'
<1> DEFINE r == Head(rsp).r
<1>1. r \in Ring
  BY HeadOfAnswers DEF Created, Deleted
<1>2. CASE Deleted
  BY <1>1, <1>2, RemoveStop DEF Deleted
<1>3. CASE Created
  <2>1. CASE UNCHANGED <<stopped, ring, tx>>
    BY <1>1, <2>1, QuietStop DEF Rechecked
  <2>2. CASE UNCHANGED <<stopped, tx>> /\ ring' = [ring EXCEPT ![r].status = "open"]
    BY <1>1, <2>2, StatusStop
  <2>3. CASE Remove(r)
    BY <1>1, <2>3, RemoveStop
  <2>4. QED
    BY <1>3, <2>1, <2>2, <2>3, CreatedEffect
<1>4. QED
  BY <1>2, <1>3

LEMMA StopStep == ASSUME TypeOK, AtRing, StopInv, [Next]_vars PROVE StopInv'
<1>1. CASE UNCHANGED <<ring, stopped, tx>>
  BY <1>1, QuietStop DEF Rechecked
<1>2. CASE OpClose
  BY <1>2, StatusStop DEF OpClose, OpAt, AtRing, ifVars
<1>3. CASE OpUnsent
  <2>1. op.r \in Ring
    BY <1>3 DEF AtRing, OpUnsent, Waited, OpAt
  <2>2. QED
    BY <1>3, <2>1, RemoveStop DEF OpUnsent
<1>4. CASE CreateFails \/ CreateUnsent
  <2>1. Head(crq) \in Ring
    BY <1>4, CreatingType DEF CreateFails, CreateUnsent, Failing
  <2>2. QED
    BY <1>4, <2>1, RemoveStop DEF CreateFails, CreateUnsent
<1>5. QED
  BY <1>1, <1>2, <1>3, <1>4, XmitStop, EnqueueStop, BlockStop, RecheckStop, SchedulingStop,
     PostStop, AnswerStop
     DEF Next, vars, ifVars, Transmit, Worker, TxwStart, PostEnd, Creation, Create, Firmware,
         FwComplete, FwControl, Interrupt, TxStatus, RxTxEmpty, RxCtlEmpty, Trigger, DeletePeer,
         ConfigureAddrMode, AddTdlsPeer, Deletion, OpLook, OpTest, OpSubmit, OpEnd

(* An interface is stopped only by a blocked ring of its own, and a blocked  *)
(* ring holds packets enough for their dequeueing to unblock it.             *)
THEOREM StopIsTemporary == Spec => []StopEnds
<1>1. Init => StopInv
  BY DEF Init, StopInv, StopHasCause, LongEnough, NoRing
<1>2. TypeOK /\ AtRing /\ StopInv /\ [Next]_vars => StopInv'
  BY StopStep
<1>3. StopInv => StopEnds
  BY DEF StopInv, StopHasCause, LongEnough, Rechecked, Using, StopEnds
<1>4. QED
  BY <1>1, <1>2, <1>3, TypeCorrect, PTL DEF Spec

-----------------------------------------------------------------------------
(* A ring's life.  A closed ring waits for its creation at one place: the    *)
(* work queue, the firmware's messages or its answers; a closing ring for its*)
(* deletion at one place: the caller, a message or its answer.               *)
CrqLife(r) ==
  \A k \in 1..Len(crq) : crq[k] = r => ring[r].status = "closed" /\ r \notin fw

CtlLife(r) ==
  \A k \in 1..Len(ctl) : ctl[k].r = r =>
    /\ com[r].dma
    /\ ctl[k].m = "create" => ring[r].status = "closed" /\ r \notin fw
    /\ ctl[k].m = "delete" => ring[r].status = "closing" /\ r \in fw

RspLife(r) ==
  \A k \in 1..Len(rsp) : rsp[k].r = r =>
    /\ com[r].dma
    /\ rsp[k].m = "created" => ring[r].status = "closed" /\ (rsp[k].ok <=> r \in fw)
    /\ rsp[k].m = "deleted" => ring[r].status = "closing" /\ rsp[k].ok /\ r \notin fw

WaitLife(r) ==
  op.pc = "wait" /\ op.r = r =>
    /\ ring[r].status = "closing" /\ r \in fw
    /\ \A k \in 1..Len(ctl) : ctl[k].r # r
    /\ \A k \in 1..Len(rsp) : rsp[k].r # r

OnePlace(r) ==
  /\ \A j, k \in 1..Len(crq) : crq[j] = r /\ crq[k] = r => j = k
  /\ \A j, k \in 1..Len(ctl) : ctl[j].r = r /\ ctl[k].r = r => j = k
  /\ \A j, k \in 1..Len(rsp) : rsp[j].r = r /\ rsp[k].r = r => j = k
  /\ \A j \in 1..Len(crq), k \in 1..Len(ctl) : crq[j] = r => ctl[k].r # r
  /\ \A j \in 1..Len(crq), k \in 1..Len(rsp) : crq[j] = r => rsp[k].r # r
  /\ \A j \in 1..Len(ctl), k \in 1..Len(rsp) : ctl[j].r = r => rsp[k].r # r

HeldLife(r) == (r \in fw => com[r].dma /\ Exists(r)) /\ (Open(r) => r \in fw)

Life(r) ==
  CrqLife(r) /\ CtlLife(r) /\ RspLife(r) /\ WaitLife(r) /\ OnePlace(r) /\ HeldLife(r)

\* Once a message about a ring was not submitted, nothing is known of it.
LifeInv == \A r \in Ring : r \in unsent \/ Life(r)

-----------------------------------------------------------------------------
LEMMA Appended ==
  ASSUME NEW S, NEW s \in Seq(S), NEW e \in S
  PROVE  /\ Len(Append(s, e)) = Len(s) + 1 /\ Len(s) \in Nat
         /\ \A k \in 1..Len(s) : Append(s, e)[k] = s[k]
         /\ Append(s, e)[Len(s) + 1] = e
OBVIOUS

LEMMA Tailed ==
  ASSUME NEW S, NEW s \in Seq(S), s # <<>>
  PROVE  /\ Len(Tail(s)) = Len(s) - 1 /\ Len(s) \in Nat /\ Len(s) >= 1
         /\ \A k \in 1..Len(Tail(s)) : Tail(s)[k] = s[k + 1]
         /\ Head(s) = s[1]
OBVIOUS

\* What of a longer and of a shorter queue was there before
LEMMA AppendedFrom ==
  ASSUME NEW S, NEW s \in Seq(S), NEW e \in S
  PROVE  \A k \in 1..Len(Append(s, e)) :
           Append(s, e)[k] # e => k \in 1..Len(s) /\ s[k] = Append(s, e)[k]
BY Appended

LEMMA TailedFrom ==
  ASSUME NEW S, NEW s \in Seq(S), s # <<>>
  PROVE  \A k \in 1..Len(Tail(s)) : k + 1 \in 1..Len(s) /\ s[k + 1] = Tail(s)[k]
BY Tailed

\* What the queues hold.
LEMMA QueuedTypes ==
  ASSUME TypeOK
  PROVE  /\ \A k \in 1..Len(crq) : crq[k] \in Ring
         /\ \A k \in 1..Len(ctl) : ctl[k].r \in Ring /\ ctl[k].m \in {"create", "delete"}
         /\ \A k \in 1..Len(rsp) : /\ rsp[k].r \in Ring /\ rsp[k].m \in {"created", "deleted"}
                                   /\ rsp[k].ok \in BOOLEAN
         /\ fw \subseteq Ring
         /\ Len(crq) \in Nat /\ Len(ctl) \in Nat /\ Len(rsp) \in Nat
<1>1. crq \in Seq(Ring) /\ ctl \in Seq(Controls) /\ rsp \in Seq(Answers)
  BY DEF TypeOK
<1>2. /\ \A k \in 1..Len(ctl) : ctl[k] \in Controls
      /\ \A k \in 1..Len(rsp) : rsp[k] \in Answers
      /\ \A k \in 1..Len(crq) : crq[k] \in Ring
  BY <1>1
<1>3. QED
  BY <1>1, <1>2 DEF Controls, Answers, TypeOK

\* Nothing about the ring was added to a queue, which is shifted by n where its
\* head was taken.
CrqFrom(r, n) ==
  \A k \in 1..Len(crq') : crq'[k] = r => k + n \in 1..Len(crq) /\ crq[k + n] = r
CtlFrom(r, n) ==
  \A k \in 1..Len(ctl') : ctl'[k].r = r => k + n \in 1..Len(ctl) /\ ctl[k + n] = ctl'[k]
RspFrom(r, n) ==
  \A k \in 1..Len(rsp') : rsp'[k].r = r => k + n \in 1..Len(rsp) /\ rsp[k + n] = rsp'[k]

LEMMA SameQueues ==
  ASSUME TypeOK, NEW r
  PROVE  /\ crq' = crq => CrqFrom(r, 0)
         /\ ctl' = ctl => CtlFrom(r, 0)
         /\ rsp' = rsp => RspFrom(r, 0)
BY QueuedTypes DEF CrqFrom, CtlFrom, RspFrom

\* A step that leaves a ring's state alone, and adds nothing about it to the
\* queues, leaves its life alone.
LEMMA Elsewhere ==
  ASSUME TypeOK, NEW r \in Ring, Life(r),
         ring'[r].status = ring[r].status, com'[r].dma = com[r].dma, r \in fw' <=> r \in fw,
         NEW a \in Nat, NEW b \in Nat, NEW c \in Nat,
         CrqFrom(r, a), CtlFrom(r, b), RspFrom(r, c),
         op'.pc = "wait" /\ op'.r = r => op.pc = "wait" /\ op.r = r
  PROVE  Life(r)'
<1> USE DEF CrqFrom, CtlFrom, RspFrom
<1>1. CrqLife(r)'
  BY DEF Life, CrqLife
<1>2. CtlLife(r)'
  BY DEF Life, CtlLife
<1>3. RspLife(r)'
  BY DEF Life, RspLife
<1>4. WaitLife(r)'
  BY DEF Life, WaitLife
<1>5. OnePlace(r)'
  <2>0. OnePlace(r)
    BY DEF Life
  <2>1. ASSUME NEW j \in 1..Len(crq'), NEW k \in 1..Len(crq'), crq'[j] = r, crq'[k] = r PROVE j = k
    <3>1. /\ j + a \in 1..Len(crq) /\ crq[j + a] = r
          /\ k + a \in 1..Len(crq) /\ crq[k + a] = r
      BY <2>1
    <3>2. j + a = k + a
      BY <2>0, <3>1 DEF OnePlace
    <3>3. QED
      BY <3>2
  <2>2. ASSUME NEW j \in 1..Len(ctl'), NEW k \in 1..Len(ctl'), ctl'[j].r = r, ctl'[k].r = r
        PROVE  j = k
    <3>1. /\ j + b \in 1..Len(ctl) /\ ctl[j + b].r = r
          /\ k + b \in 1..Len(ctl) /\ ctl[k + b].r = r
      BY <2>2
    <3>2. j + b = k + b
      BY <2>0, <3>1 DEF OnePlace
    <3>3. QED
      BY <3>2
  <2>3. ASSUME NEW j \in 1..Len(rsp'), NEW k \in 1..Len(rsp'), rsp'[j].r = r, rsp'[k].r = r
        PROVE  j = k
    <3>1. /\ j + c \in 1..Len(rsp) /\ rsp[j + c].r = r
          /\ k + c \in 1..Len(rsp) /\ rsp[k + c].r = r
      BY <2>3
    <3>2. j + c = k + c
      BY <2>0, <3>1 DEF OnePlace
    <3>3. QED
      BY <3>2
  <2>4. /\ \A j \in 1..Len(crq'), k \in 1..Len(ctl') : crq'[j] = r => ctl'[k].r # r
        /\ \A j \in 1..Len(crq'), k \in 1..Len(rsp') : crq'[j] = r => rsp'[k].r # r
        /\ \A j \in 1..Len(ctl'), k \in 1..Len(rsp') : ctl'[j].r = r => rsp'[k].r # r
    <3>1. ASSUME NEW j \in 1..Len(crq'), NEW k \in 1..Len(ctl'), crq'[j] = r, ctl'[k].r = r
          PROVE  FALSE
      <4>1. j + a \in 1..Len(crq) /\ crq[j + a] = r /\ k + b \in 1..Len(ctl) /\ ctl[k + b].r = r
        BY <3>1
      <4>2. QED
        BY <2>0, <4>1 DEF OnePlace
    <3>2. ASSUME NEW j \in 1..Len(crq'), NEW k \in 1..Len(rsp'), crq'[j] = r, rsp'[k].r = r
          PROVE  FALSE
      <4>1. j + a \in 1..Len(crq) /\ crq[j + a] = r /\ k + c \in 1..Len(rsp) /\ rsp[k + c].r = r
        BY <3>2
      <4>2. QED
        BY <2>0, <4>1 DEF OnePlace
    <3>3. ASSUME NEW j \in 1..Len(ctl'), NEW k \in 1..Len(rsp'), ctl'[j].r = r, rsp'[k].r = r
          PROVE  FALSE
      <4>1. j + b \in 1..Len(ctl) /\ ctl[j + b].r = r /\ k + c \in 1..Len(rsp) /\ rsp[k + c].r = r
        BY <3>3
      <4>2. QED
        BY <2>0, <4>1 DEF OnePlace
    <3>4. QED
      BY <3>1, <3>2, <3>3
  <2>5. QED
    BY <2>1, <2>2, <2>3, <2>4 DEF OnePlace
<1>6. HeldLife(r)'
  BY DEF Life, HeldLife, Exists, Open
<1>7. QED
  BY <1>1, <1>2, <1>3, <1>4, <1>5, <1>6 DEF Life

LEMMA QuietLife ==
  ASSUME TypeOK, NEW r \in Ring, Life(r), UNCHANGED msgVars,
         op'.pc = "wait" /\ op'.r = r => op.pc = "wait" /\ op.r = r,
         ring'[r].status = ring[r].status, com'[r].dma = com[r].dma
  PROVE  Life(r)'
<1>1. crq' = crq /\ ctl' = ctl /\ rsp' = rsp /\ fw' = fw
  BY DEF msgVars
<1> USE DEF Life
<1>2. CrqLife(r)' /\ CtlLife(r)' /\ RspLife(r)'
  BY <1>1 DEF CrqLife, CtlLife, RspLife
<1>3. WaitLife(r)' /\ OnePlace(r)' /\ HeldLife(r)'
  BY <1>1 DEF WaitLife, OnePlace, HeldLife, Exists, Open
<1>4. QED
  BY <1>2, <1>3


-----------------------------------------------------------------------------
\* No message names the ring, and nobody waits for it.
Absent(r) ==
  /\ \A k \in 1..Len(crq) : crq[k] # r
  /\ \A k \in 1..Len(ctl) : ctl[k].r # r
  /\ \A k \in 1..Len(rsp) : rsp[k].r # r
  /\ ~(op.pc = "wait" /\ op.r = r)

LEMMA OpenAbsent ==
  ASSUME TypeOK, NEW r \in Ring, Life(r), ring[r].status \in {"none", "open"}
  PROVE  Absent(r)
BY QueuedTypes DEF Life, CrqLife, CtlLife, RspLife, WaitLife, Absent

LEMMA AbsentLife == ASSUME NEW r, Absent(r), HeldLife(r) PROVE Life(r)
BY DEF Absent, Life, CrqLife, CtlLife, RspLife, WaitLife, OnePlace

LEMMA XmitLife ==
  ASSUME TypeOK, NEW r \in Ring, Life(r), NEW i \in If, NEW a \in Da, Xmit(i, a)
  PROVE  Life(r)'
<1>1. PICK s \in Ring :
        \/ ring' = ring /\ crq' = crq
        \/ /\ ~Exists(s)
           /\ ring' = [ring EXCEPT ![s] = [status |-> "closed", if |-> i, da |-> a,
                                           blocked |-> FALSE, qlen |-> 0]]
           /\ crq' = Append(crq, s)
  BY Zenon DEF Xmit
<1>2. UNCHANGED <<com, ctl, rsp, fw, op>>
  BY DEF Xmit
<1>3. CASE ring' = ring /\ crq' = crq
  BY <1>2, <1>3, QuietLife DEF msgVars
<1>4. CASE /\ ~Exists(s)
           /\ ring' = [ring EXCEPT ![s] = [status |-> "closed", if |-> i, da |-> a,
                                           blocked |-> FALSE, qlen |-> 0]]
           /\ crq' = Append(crq, s)
  <2>1. /\ ring'[s].status = "closed" /\ ring[s].status = "none"
        /\ \A t \in Ring \ {s} : ring'[t].status = ring[t].status
    BY <1>4 DEF Exists, TypeOK
  <2>2. /\ Len(crq') = Len(crq) + 1 /\ Len(crq) \in Nat
        /\ \A k \in 1..Len(crq) : crq'[k] = crq[k]
        /\ \A k \in 1..Len(crq') : crq'[k] # s => k \in 1..Len(crq) /\ crq[k] = crq'[k]
    BY <1>4, Appended, AppendedFrom DEF TypeOK
  <2>3. CASE r # s
    <3>1. CrqFrom(r, 0) /\ CtlFrom(r, 0) /\ RspFrom(r, 0)
      BY <1>2, <2>2, <2>3, SameQueues DEF CrqFrom
    <3>2. QED
      BY <1>2, <2>1, <2>3, <3>1, Elsewhere
  <2>4. CASE r = s
    <3>1. Absent(r) /\ r \notin fw
      BY <2>1, <2>4, OpenAbsent DEF Life, HeldLife, Exists
    <3>2. \A k \in 1..Len(crq') : crq'[k] = r => k = Len(crq) + 1
      BY <2>2, <3>1 DEF Absent
    <3>3. CrqLife(r)' /\ CtlLife(r)' /\ RspLife(r)' /\ WaitLife(r)'
      BY <1>2, <2>1, <2>4, <3>1 DEF Absent, CrqLife, CtlLife, RspLife, WaitLife
    <3>4. OnePlace(r)'
      BY <1>2, <3>1, <3>2 DEF Absent, OnePlace
    <3>5. HeldLife(r)'
      BY <1>2, <2>1, <2>4, <3>1 DEF HeldLife, Open
    <3>6. QED
      BY <3>3, <3>4, <3>5 DEF Life
  <2>5. QED
    BY <2>3, <2>4
<1>5. QED
  BY <1>1, <1>3, <1>4

\* The ring at the head of the work queue is nowhere else.
LEMMA CrqHead ==
  ASSUME TypeOK, crq # <<>>, crq' = Tail(crq)
  PROVE  /\ Head(crq) \in Ring /\ Head(crq) = crq[1] /\ 1 \in 1..Len(crq)
         /\ \A k \in 1..Len(crq') : k + 1 \in 1..Len(crq) /\ crq[k + 1] = crq'[k]
         /\ \A r \in Ring : Life(r) /\ r = Head(crq) =>
              /\ ring[r].status = "closed" /\ r \notin fw
              /\ \A k \in 1..Len(crq') : crq'[k] # r
              /\ \A k \in 1..Len(ctl) : ctl[k].r # r
              /\ \A k \in 1..Len(rsp) : rsp[k].r # r
              /\ ~(op.pc = "wait" /\ op.r = r)
<1>1. crq \in Seq(Ring)
  BY DEF TypeOK
<1>2. /\ Head(crq) = crq[1] /\ Len(crq) \in Nat /\ Len(crq) >= 1
      /\ \A k \in 1..Len(crq') : k + 1 \in 1..Len(crq) /\ crq[k + 1] = crq'[k]
  BY <1>1, Tailed, TailedFrom
<1>3. ASSUME NEW r \in Ring, Life(r), r = Head(crq)
      PROVE  /\ ring[r].status = "closed" /\ r \notin fw
             /\ \A k \in 1..Len(crq') : crq'[k] # r
             /\ \A k \in 1..Len(ctl) : ctl[k].r # r
             /\ \A k \in 1..Len(rsp) : rsp[k].r # r
             /\ ~(op.pc = "wait" /\ op.r = r)
  <2>1. crq[1] = r /\ 1 \in 1..Len(crq)
    BY <1>2, <1>3
  <2>2. ring[r].status = "closed" /\ r \notin fw /\ ~(op.pc = "wait" /\ op.r = r)
    BY <1>3, <2>1 DEF Life, CrqLife, WaitLife
  <2>3. /\ \A k \in 1..Len(ctl) : ctl[k].r # r
        /\ \A k \in 1..Len(rsp) : rsp[k].r # r
    BY <1>3, <2>1 DEF Life, OnePlace
  <2>4. ASSUME NEW k \in 1..Len(crq'), crq'[k] = r PROVE FALSE
    <3>1. k + 1 \in 1..Len(crq) /\ crq[k + 1] = r
      BY <1>2, <2>4
    <3>2. k + 1 = 1
      BY <1>3, <2>1, <3>1 DEF Life, OnePlace
    <3>3. k \in Nat /\ k >= 1
      OBVIOUS
    <3>4. QED
      BY <3>2, <3>3
  <2>5. QED
    BY <2>2, <2>3, <2>4
<1>4. QED
  BY <1>1, <1>2, <1>3

\* A step of the creation worker that is not about this ring
LEMMA CreationElsewhere ==
  ASSUME TypeOK, NEW r \in Ring, Life(r), Creation, r # Head(crq) PROVE Life(r)'
<1>1. /\ crq # <<>> /\ crq' = Tail(crq) /\ UNCHANGED <<rsp, fw, op>>
      /\ ctl' \in {ctl, Append(ctl, [m |-> "create", r |-> Head(crq)])}
  BY DEF Creation, Create, CreateFails, CreateUnsent, Failing, Creating
<1>2. PICK s \in Ring : s = Head(crq)
  BY <1>1, CrqHead
<1>3. ring'[r].status = ring[r].status
  <2>1. ring' = ring \/ Remove(s)
    BY <1>2 DEF Creation, Create, CreateFails, CreateUnsent
  <2>2. QED
    BY <1>2, <2>1, RemoveEffect
<1>4. com'[r].dma = com[r].dma
  <2>1. com' = com \/ com' = [com EXCEPT ![s].dma = TRUE] \/ com' = [com EXCEPT ![s].dma = FALSE]
    BY <1>2 DEF Creation, Create, CreateFails, CreateUnsent, Freed
  <2>2. QED
    BY <1>2, <2>1 DEF TypeOK
<1>5. CtlFrom(r, 0)
  <2> DEFINE msg == [m |-> "create", r |-> s]
  <2>1. msg \in Controls /\ msg.r = s
    BY DEF Controls
  <2>2. ctl' = ctl \/ ctl' = Append(ctl, msg)
    BY <1>1, <1>2
  <2> HIDE DEF msg
  <2>3. \A k \in 1..Len(Append(ctl, msg)) :
          Append(ctl, msg)[k] # msg => k \in 1..Len(ctl) /\ ctl[k] = Append(ctl, msg)[k]
    BY <2>1, AppendedFrom DEF TypeOK
  <2>4. QED
    BY <1>2, <2>1, <2>2, <2>3, SameQueues DEF CtlFrom
<1>6. CrqFrom(r, 1)
  BY <1>1, CrqHead DEF CrqFrom
<1>7. RspFrom(r, 0)
  BY <1>1, SameQueues
<1>8. QED
  BY <1>1, <1>3, <1>4, <1>5, <1>6, <1>7, Elsewhere

LEMMA CreateLife ==
  ASSUME TypeOK, NEW r \in Ring, Life(r), Create, r = Head(crq) PROVE Life(r)'
<1>1. /\ crq # <<>> /\ crq' = Tail(crq) /\ UNCHANGED <<ring, rsp, fw, op>>
  BY DEF Create, Creating
<1>2. /\ ring[r].status = "closed" /\ r \notin fw
      /\ \A k \in 1..Len(crq') : crq'[k] # r
      /\ \A k \in 1..Len(ctl) : ctl[k].r # r
      /\ \A k \in 1..Len(rsp) : rsp[k].r # r
      /\ ~(op.pc = "wait" /\ op.r = r)
  BY <1>1, CrqHead
<1>3. com' = [com EXCEPT ![r].dma = TRUE] /\ ctl' = Append(ctl, [m |-> "create", r |-> r])
  BY <1>2 DEF Create, Exists
<1>4. com'[r].dma
  BY <1>3 DEF TypeOK, Commons
<1>5. PICK msg \in Controls : ctl' = Append(ctl, msg) /\ msg.r = r /\ msg.m = "create"
  BY <1>3 DEF Controls
<1>6. /\ Len(ctl') = Len(ctl) + 1 /\ Len(ctl) \in Nat
      /\ \A k \in 1..Len(ctl) : ctl'[k] = ctl[k]
      /\ ctl'[Len(ctl) + 1] = msg
  BY <1>5, Appended DEF TypeOK
<1>7. \A k \in 1..Len(ctl') : ctl'[k].r = r => k = Len(ctl) + 1 /\ ctl'[k].m = "create"
  BY <1>2, <1>5, <1>6
<1>8. CrqLife(r)' /\ CtlLife(r)' /\ RspLife(r)' /\ WaitLife(r)'
  BY <1>1, <1>2, <1>4, <1>7 DEF CrqLife, CtlLife, RspLife, WaitLife
<1>9. OnePlace(r)'
  BY <1>1, <1>2, <1>7 DEF OnePlace
<1>10. HeldLife(r)'
  BY <1>1, <1>2 DEF HeldLife, Open
<1>11. QED
  BY <1>8, <1>9, <1>10 DEF Life

LEMMA CreateFailsLife ==
  ASSUME TypeOK, NEW r \in Ring, Life(r), CreateFails, r = Head(crq) PROVE Life(r)'
<1>1. /\ crq # <<>> /\ crq' = Tail(crq) /\ UNCHANGED <<ctl, rsp, fw, op>> /\ Remove(r)
  BY DEF CreateFails, Failing, Creating
<1>2. Absent(r)' /\ r \notin fw
  BY <1>1, CrqHead DEF Absent
<1>3. ring'[r].status = "none"
  BY <1>1, RemoveEffect DEF NoRing
<1>4. HeldLife(r)'
  BY <1>1, <1>2, <1>3 DEF HeldLife, Open
<1>5. QED
  BY <1>2, <1>4, AbsentLife, PTL


\* The ring of the message the firmware reads next is nowhere else.
LEMMA CtlHead ==
  ASSUME TypeOK, ctl # <<>>, ctl' = Tail(ctl)
  PROVE  /\ Head(ctl).r \in Ring /\ Head(ctl).m \in {"create", "delete"}
         /\ \A r \in Ring : CtlFrom(r, 1)
         /\ \A r \in Ring : Life(r) /\ r = Head(ctl).r =>
              /\ com[r].dma
              /\ Head(ctl).m = "create" => ring[r].status = "closed" /\ r \notin fw
              /\ Head(ctl).m = "delete" => ring[r].status = "closing" /\ r \in fw
              /\ \A k \in 1..Len(crq) : crq[k] # r
              /\ \A k \in 1..Len(ctl') : ctl'[k].r # r
              /\ \A k \in 1..Len(rsp) : rsp[k].r # r
              /\ ~(op.pc = "wait" /\ op.r = r)
<1>1. ctl \in Seq(Controls)
  BY DEF TypeOK
<1>2. /\ Head(ctl) = ctl[1] /\ Len(ctl) \in Nat /\ Len(ctl) >= 1 /\ 1 \in 1..Len(ctl)
      /\ \A k \in 1..Len(ctl') : k + 1 \in 1..Len(ctl) /\ ctl[k + 1] = ctl'[k]
  BY <1>1, Tailed, TailedFrom
<1>3. ASSUME NEW r \in Ring, Life(r), r = Head(ctl).r
      PROVE  /\ com[r].dma
             /\ Head(ctl).m = "create" => ring[r].status = "closed" /\ r \notin fw
             /\ Head(ctl).m = "delete" => ring[r].status = "closing" /\ r \in fw
             /\ \A k \in 1..Len(crq) : crq[k] # r
             /\ \A k \in 1..Len(ctl') : ctl'[k].r # r
             /\ \A k \in 1..Len(rsp) : rsp[k].r # r
             /\ ~(op.pc = "wait" /\ op.r = r)
  <2>1. ctl[1].r = r /\ 1 \in 1..Len(ctl)
    BY <1>2, <1>3
  <2>2. /\ com[r].dma
        /\ Head(ctl).m = "create" => ring[r].status = "closed" /\ r \notin fw
        /\ Head(ctl).m = "delete" => ring[r].status = "closing" /\ r \in fw
    BY <1>2, <1>3, <2>1 DEF Life, CtlLife
  <2>3. ~(op.pc = "wait" /\ op.r = r)
    BY <1>3, <2>1 DEF Life, WaitLife
  <2>4. /\ \A k \in 1..Len(crq) : crq[k] # r
        /\ \A k \in 1..Len(rsp) : rsp[k].r # r
    BY <1>3, <2>1 DEF Life, OnePlace
  <2>5. ASSUME NEW k \in 1..Len(ctl'), ctl'[k].r = r PROVE FALSE
    <3>1. k + 1 \in 1..Len(ctl) /\ ctl[k + 1].r = r
      BY <1>2, <2>5
    <3>2. k + 1 = 1
      BY <1>3, <2>1, <3>1 DEF Life, OnePlace
    <3>3. k \in Nat /\ k >= 1
      OBVIOUS
    <3>4. QED
      BY <3>2, <3>3
  <2>6. QED
    BY <2>2, <2>3, <2>4, <2>5
<1>4. QED
  BY <1>1, <1>2, <1>3, QueuedTypes DEF CtlFrom

LEMMA FwControlLife ==
  ASSUME TypeOK, NEW r \in Ring, Life(r), FwControl PROVE Life(r)'
<1> DEFINE c == Head(ctl)
           m == IF Head(ctl).m = "create" THEN "created" ELSE "deleted"
<1>1. /\ UNCHANGED <<ring, crq, op>> /\ ctl # <<>> /\ ctl' = Tail(ctl)
      /\ com'[r].dma = com[r].dma
  BY FwControlEffect DEF FwControl
<1>2. PICK ok \in BOOLEAN :
        /\ c.m = "delete" => ok = (c.r \in fw)
        /\ rsp' = Append(rsp, [m |-> m, r |-> c.r, ok |-> ok])
        /\ fw' = IF c.m = "create" /\ ~ok THEN fw
                 ELSE IF c.m = "create" THEN fw \cup {c.r} ELSE fw \ {c.r}
  BY FwControlEffect
<1>3. c.r \in Ring /\ c.m \in {"create", "delete"} /\ CtlFrom(r, 1)
  BY <1>1, CtlHead
<1> DEFINE msg == [m |-> m, r |-> c.r, ok |-> ok]
<1>4. msg \in Answers /\ msg.m = m /\ msg.r = c.r /\ msg.ok = ok /\ rsp' = Append(rsp, msg)
  BY <1>2, <1>3 DEF Answers
<1>5. m = IF c.m = "create" THEN "created" ELSE "deleted"
  OBVIOUS
<1> HIDE DEF msg, m
<1>6. /\ Len(rsp') = Len(rsp) + 1 /\ Len(rsp) \in Nat
      /\ \A k \in 1..Len(rsp) : rsp'[k] = rsp[k]
      /\ rsp'[Len(rsp) + 1] = msg
      /\ \A k \in 1..Len(rsp') : rsp'[k] # msg => k \in 1..Len(rsp) /\ rsp[k] = rsp'[k]
  BY <1>4, Appended, AppendedFrom DEF TypeOK
<1>7. CASE r # c.r
  <2>1. CrqFrom(r, 0) /\ RspFrom(r, 0)
    BY <1>1, <1>4, <1>6, <1>7, SameQueues DEF RspFrom
  <2>2. r \in fw' <=> r \in fw
    BY <1>2, <1>7
  <2>3. QED
    BY <1>1, <1>3, <2>1, <2>2, Elsewhere
<1>8. CASE r = c.r
  <2>1. /\ com[r].dma
        /\ c.m = "create" => ring[r].status = "closed" /\ r \notin fw
        /\ c.m = "delete" => ring[r].status = "closing" /\ r \in fw
        /\ \A k \in 1..Len(crq) : crq[k] # r
        /\ \A k \in 1..Len(ctl') : ctl'[k].r # r
        /\ \A k \in 1..Len(rsp) : rsp[k].r # r
        /\ ~(op.pc = "wait" /\ op.r = r)
    BY <1>1, <1>8, CtlHead
  <2>2. \A k \in 1..Len(rsp') : rsp'[k].r = r => k = Len(rsp) + 1 /\ rsp'[k] = msg
    BY <1>6, <2>1
  <2>3. CrqLife(r)' /\ CtlLife(r)' /\ WaitLife(r)'
    BY <1>1, <2>1 DEF CrqLife, CtlLife, WaitLife
  <2>4. OnePlace(r)'
    BY <1>1, <2>1, <2>2 DEF OnePlace
  <2>5. /\ c.m = "create" => m = "created" /\ (r \in fw' <=> ok)
        /\ c.m = "delete" => m = "deleted" /\ r \notin fw' /\ ok
    BY <1>2, <1>5, <1>8, <2>1
  <2>6. RspLife(r)'
    <3> SUFFICES ASSUME NEW k \in 1..Len(rsp'), rsp'[k].r = r
                 PROVE  /\ com'[r].dma
                        /\ rsp'[k].m = "created" =>
                             ring'[r].status = "closed" /\ (rsp'[k].ok <=> r \in fw')
                        /\ rsp'[k].m = "deleted" =>
                             ring'[r].status = "closing" /\ rsp'[k].ok /\ r \notin fw'
      BY DEF RspLife
    <3>1. rsp'[k].m = m /\ rsp'[k].ok = ok
      BY <1>4, <2>2
    <3>2. QED
      BY <1>1, <1>3, <2>1, <2>5, <3>1
  <2>7. HeldLife(r)'
    <3>1. CASE c.m = "create"
      BY <1>1, <2>1, <3>1 DEF HeldLife, Exists, Open
    <3>2. CASE c.m = "delete"
      BY <1>1, <2>1, <2>5, <3>2 DEF HeldLife, Open
    <3>3. QED
      BY <1>3, <3>1, <3>2
  <2>8. QED
    BY <2>3, <2>4, <2>6, <2>7 DEF Life
<1>9. QED
  BY <1>7, <1>8

\* The ring of the answer at the head is nowhere else, and the answer tells what
\* the firmware holds.
LEMMA RspHead ==
  ASSUME TypeOK, rsp # <<>>, rsp' = Tail(rsp)
  PROVE  /\ Head(rsp).r \in Ring /\ Head(rsp).m \in {"created", "deleted"}
         /\ \A r \in Ring : RspFrom(r, 1)
         /\ \A r \in Ring : Life(r) /\ r = Head(rsp).r =>
              /\ com[r].dma
              /\ Head(rsp).m = "created" =>
                   ring[r].status = "closed" /\ (Head(rsp).ok <=> r \in fw)
              /\ Head(rsp).m = "deleted" =>
                   ring[r].status = "closing" /\ Head(rsp).ok /\ r \notin fw
              /\ \A k \in 1..Len(crq) : crq[k] # r
              /\ \A k \in 1..Len(ctl) : ctl[k].r # r
              /\ \A k \in 1..Len(rsp') : rsp'[k].r # r
              /\ ~(op.pc = "wait" /\ op.r = r)
<1>1. rsp \in Seq(Answers)
  BY DEF TypeOK
<1>2. /\ Head(rsp) = rsp[1] /\ Len(rsp) \in Nat /\ Len(rsp) >= 1 /\ 1 \in 1..Len(rsp)
      /\ \A k \in 1..Len(rsp') : k + 1 \in 1..Len(rsp) /\ rsp[k + 1] = rsp'[k]
  BY <1>1, Tailed, TailedFrom
<1>3. ASSUME NEW r \in Ring, Life(r), r = Head(rsp).r
      PROVE  /\ com[r].dma
             /\ Head(rsp).m = "created" =>
                  ring[r].status = "closed" /\ (Head(rsp).ok <=> r \in fw)
             /\ Head(rsp).m = "deleted" =>
                  ring[r].status = "closing" /\ Head(rsp).ok /\ r \notin fw
             /\ \A k \in 1..Len(crq) : crq[k] # r
             /\ \A k \in 1..Len(ctl) : ctl[k].r # r
             /\ \A k \in 1..Len(rsp') : rsp'[k].r # r
             /\ ~(op.pc = "wait" /\ op.r = r)
  <2>1. rsp[1].r = r /\ 1 \in 1..Len(rsp)
    BY <1>2, <1>3
  <2>2. /\ com[r].dma
        /\ Head(rsp).m = "created" =>
             ring[r].status = "closed" /\ (Head(rsp).ok <=> r \in fw)
        /\ Head(rsp).m = "deleted" =>
             ring[r].status = "closing" /\ Head(rsp).ok /\ r \notin fw
    BY <1>2, <1>3, <2>1 DEF Life, RspLife
  <2>3. ~(op.pc = "wait" /\ op.r = r)
    BY <1>3, <2>1 DEF Life, WaitLife
  <2>4. /\ \A k \in 1..Len(crq) : crq[k] # r
        /\ \A k \in 1..Len(ctl) : ctl[k].r # r
    BY <1>3, <2>1 DEF Life, OnePlace
  <2>5. ASSUME NEW k \in 1..Len(rsp'), rsp'[k].r = r PROVE FALSE
    <3>1. k + 1 \in 1..Len(rsp) /\ rsp[k + 1].r = r
      BY <1>2, <2>5
    <3>2. k + 1 = 1
      BY <1>3, <2>1, <3>1 DEF Life, OnePlace
    <3>3. k \in Nat /\ k >= 1
      OBVIOUS
    <3>4. QED
      BY <3>2, <3>3
  <2>6. QED
    BY <2>2, <2>3, <2>4, <2>5
<1>4. QED
  BY <1>1, <1>2, <1>3, QueuedTypes DEF RspFrom

\* The answers, read by the interrupt thread
LEMMA AnswerLife ==
  ASSUME TypeOK, NEW r \in Ring, Life(r), Created \/ Deleted PROVE Life(r)'
<1> DEFINE a == Head(rsp)
<1>1. /\ rsp # <<>> /\ rsp' = Tail(rsp) /\ UNCHANGED <<crq, ctl, fw, op>>
  BY DEF Created, Deleted
<1>2. a.r \in Ring /\ a.m \in {"created", "deleted"} /\ RspFrom(r, 1)
  BY <1>1, RspHead
<1>3. \/ Remove(a.r) /\ (com' = com \/ com' = Freed(com, a.r))
      \/ Created /\ a.ok /\ com' = com
           /\ (ring' = ring \/ ring' = [ring EXCEPT ![a.r].status = "open"])
  BY CreatedEffect DEF Deleted
<1>4. /\ a.m = "created" => Created
      /\ a.m = "deleted" => Deleted
  BY DEF Created, Deleted
<1>5. CASE r # a.r
  <2>1. ring'[r].status = ring[r].status
    <3>1. CASE Remove(a.r)
      BY <1>2, <1>5, <3>1, RemoveEffect
    <3>2. CASE ring' = ring \/ ring' = [ring EXCEPT ![a.r].status = "open"]
      BY <1>2, <1>5, <3>2 DEF TypeOK
    <3>3. QED
      BY <1>3, <3>1, <3>2
  <2>2. com'[r].dma = com[r].dma
    BY <1>2, <1>3, <1>5 DEF Freed, TypeOK
  <2>3. CrqFrom(r, 0) /\ CtlFrom(r, 0)
    BY <1>1, SameQueues
  <2>4. QED
    BY <1>1, <1>2, <2>1, <2>2, <2>3, Elsewhere
<1>6. CASE r = a.r
  <2>1. /\ com[r].dma
        /\ a.m = "created" => ring[r].status = "closed" /\ (a.ok <=> r \in fw)
        /\ a.m = "deleted" => ring[r].status = "closing" /\ a.ok /\ r \notin fw
        /\ \A k \in 1..Len(crq) : crq[k] # r
        /\ \A k \in 1..Len(ctl) : ctl[k].r # r
        /\ \A k \in 1..Len(rsp') : rsp'[k].r # r
        /\ ~(op.pc = "wait" /\ op.r = r)
    BY <1>1, <1>6, RspHead
  <2>2. Absent(r)'
    BY <1>1, <2>1 DEF Absent
  <2>3. CASE Remove(a.r)
    <3>1. ring'[r].status = "none"
      BY <1>2, <1>6, <2>3, RemoveEffect DEF NoRing
    <3>2. r \notin fw
      <4>1. CASE a.m = "deleted"
        BY <2>1, <4>1
      <4>2. CASE a.m = "created"
        <5>1. Created /\ Exists(a.r)
          BY <1>4, <1>6, <2>1, <4>2 DEF Exists
        <5>2. ~a.ok
          <6>1. ring'[r] = NoRing
            BY <1>2, <1>6, <2>3, RemoveEffect
          <6>2. a.ok => ring' = [ring EXCEPT ![a.r].status = "open"]
            BY <5>1 DEF Created
          <6>3. ring[r] \in Rings /\ r \in DOMAIN ring
            BY DEF TypeOK
          <6>4. QED
            BY <1>6, <6>1, <6>2, <6>3 DEF NoRing, Rings
        <5>3. QED
          BY <2>1, <4>2, <5>2
      <4>3. QED
        BY <1>2, <4>1, <4>2
    <3>3. HeldLife(r)'
      BY <1>1, <3>1, <3>2 DEF HeldLife, Open
    <3>4. QED
      BY <2>2, <3>3, AbsentLife, PTL
  <2>4. CASE /\ Created /\ a.ok /\ com' = com
             /\ ring' = ring \/ ring' = [ring EXCEPT ![a.r].status = "open"]
    <3>1. a.m = "created"
      BY <2>4 DEF Created
    <3>2. r \in fw
      BY <2>1, <2>4, <3>1
    <3>3. Exists(r)'
      <4>1. ring[r] \in Rings /\ r \in DOMAIN ring
        BY DEF TypeOK
      <4>2. ring' = ring \/ ring' = [ring EXCEPT ![r].status = "open"]
        BY <1>6, <2>4
      <4>3. ring'[r].status = ring[r].status \/ ring'[r].status = "open"
        BY <4>1, <4>2 DEF Rings
      <4>4. QED
        BY <2>1, <3>1, <4>3 DEF Exists
    <3>4. HeldLife(r)'
      BY <1>1, <2>1, <2>4, <3>2, <3>3 DEF HeldLife
    <3>5. QED
      BY <2>2, <3>4, AbsentLife, PTL
  <2>5. QED
    BY <1>3, <2>3, <2>4
<1>7. QED
  BY <1>5, <1>6

LEMMA CloseLife ==
  ASSUME TypeOK, AtRing, NEW r \in Ring, Life(r), OpClose PROVE Life(r)'
<1>1. /\ op.r \in Ring /\ ring[op.r].status = "open" /\ UNCHANGED <<com, crq, ctl, rsp, fw>>
      /\ ring' = [ring EXCEPT ![op.r].status = "closing"] /\ op' = [op EXCEPT !.pc = "wait"]
  BY DEF OpClose, OpAt, AtRing, Open, msgVars
<1>2. op'.r = op.r /\ op'.pc = "wait"
  BY <1>1 DEF TypeOK, Operations
<1>3. CASE r # op.r
  BY <1>1, <1>2, <1>3, QuietLife DEF TypeOK, msgVars
<1>4. CASE r = op.r
  <2>1. Absent(r) /\ r \in fw /\ com[r].dma
    BY <1>1, <1>4, OpenAbsent DEF Life, HeldLife, Open
  <2>2. ring'[r].status = "closing"
    BY <1>1, <1>4 DEF TypeOK, Rings
  <2>3. CrqLife(r)' /\ CtlLife(r)' /\ RspLife(r)' /\ WaitLife(r)'
    BY <1>1, <2>1, <2>2 DEF Absent, CrqLife, CtlLife, RspLife, WaitLife
  <2>4. OnePlace(r)' /\ HeldLife(r)'
    BY <1>1, <2>1, <2>2 DEF Absent, OnePlace, HeldLife, Exists, Open
  <2>5. QED
    BY <2>3, <2>4 DEF Life
<1>5. QED
  BY <1>3, <1>4

\* A deletion submitted, or not: what it does to the queue of messages
LEMMA DeletesFrom ==
  ASSUME TypeOK, NEW s \in Ring, ctl' \in {ctl, Deletes(s)}
  PROVE  \A r \in Ring \ {s} : CtlFrom(r, 0)
<1> DEFINE msg == [m |-> "delete", r |-> s]
<1>1. msg \in Controls /\ msg.r = s
  BY DEF Controls
<1>2. ctl' = ctl \/ ctl' = Append(ctl, msg)
  BY DEF Deletes
<1> HIDE DEF msg
<1>3. \A k \in 1..Len(Append(ctl, msg)) :
        Append(ctl, msg)[k] # msg => k \in 1..Len(ctl) /\ ctl[k] = Append(ctl, msg)[k]
  BY <1>1, AppendedFrom DEF TypeOK
<1>4. QED
  BY <1>1, <1>2, <1>3, SameQueues DEF CtlFrom

LEMMA SubmitLife ==
  ASSUME TypeOK, AtRing, NEW r \in Ring, Life(r), OpSubmit PROVE Life(r)'
<1>1. op.r \in Ring /\ op.pc = "wait" /\ UNCHANGED <<ring, crq, rsp, fw>>
  BY DEF OpSubmit, Waited, OpAt, AtRing
<1>2. /\ com'[r].dma = com[r].dma
      /\ ctl' \in {ctl, Deletes(op.r)}
      /\ Exists(op.r) => ctl' = Deletes(op.r) /\ op'.pc = "scan"
      /\ op'.pc = "wait" /\ op'.r = r => op.pc = "wait" /\ op.r = r
  <2>1. com'[r].dma = com[r].dma
    BY <1>1, ForgottenType DEF OpSubmit
  <2>2. \/ Exists(op.r) /\ ctl' = Deletes(op.r) /\ op' = [op EXCEPT !.pc = "scan", !.r = op.r + 1]
        \/ ~Exists(op.r) /\ ctl' = ctl /\ op' = op
    BY DEF OpSubmit
  <2>3. op' = [op EXCEPT !.pc = "scan", !.r = op.r + 1] => op'.pc = "scan"
    BY DEF TypeOK, Operations
  <2>4. QED
    BY <2>1, <2>2, <2>3
<1>3. CASE r # op.r
  <2>1. CrqFrom(r, 0) /\ CtlFrom(r, 0) /\ RspFrom(r, 0)
    BY <1>1, <1>2, <1>3, SameQueues, DeletesFrom
  <2>2. QED
    BY <1>1, <1>2, <2>1, Elsewhere
<1>4. CASE r = op.r
  <2>1. /\ ring[r].status = "closing" /\ r \in fw /\ com[r].dma
        /\ \A k \in 1..Len(ctl) : ctl[k].r # r
        /\ \A k \in 1..Len(rsp) : rsp[k].r # r
        /\ \A k \in 1..Len(crq) : crq[k] # r
    BY <1>1, <1>4, QueuedTypes DEF Life, WaitLife, HeldLife, CrqLife
  <2>2. PICK msg \in Controls : ctl' = Append(ctl, msg) /\ msg.r = r /\ msg.m = "delete"
    BY <1>2, <1>4, <2>1, DeletesType DEF Exists, Deletes
  <2>3. /\ Len(ctl') = Len(ctl) + 1 /\ Len(ctl) \in Nat
        /\ \A k \in 1..Len(ctl) : ctl'[k] = ctl[k]
        /\ ctl'[Len(ctl) + 1] = msg
    BY <2>2, Appended DEF TypeOK
  <2>4. \A k \in 1..Len(ctl') : ctl'[k].r = r => k = Len(ctl) + 1 /\ ctl'[k].m = "delete"
    BY <2>1, <2>2, <2>3
  <2>5. op'.pc # "wait"
    BY <1>2, <1>4, <2>1 DEF Exists
  <2>6. CrqLife(r)' /\ CtlLife(r)' /\ RspLife(r)' /\ WaitLife(r)'
    BY <1>1, <1>2, <2>1, <2>4, <2>5 DEF CrqLife, CtlLife, RspLife, WaitLife
  <2>7. OnePlace(r)' /\ HeldLife(r)'
    BY <1>1, <1>2, <2>1, <2>4 DEF OnePlace, HeldLife, Exists, Open
  <2>8. QED
    BY <2>6, <2>7 DEF Life
<1>5. QED
  BY <1>3, <1>4

LEMMA UnsentElsewhere ==
  ASSUME TypeOK, AtRing, NEW r \in Ring, Life(r), OpUnsent, r # op.r PROVE Life(r)'
<1>1. op.r \in Ring /\ UNCHANGED <<crq, rsp, fw>> /\ Remove(op.r)
  BY DEF OpUnsent, Waited, OpAt, AtRing
<1>2. com'[r].dma = com[r].dma
  <2>1. com' = [Forgotten(op.r) EXCEPT ![op.r].dma = FALSE]
    BY DEF OpUnsent, Freed
  <2>2. /\ Forgotten(op.r) \in [Ring -> Commons] /\ Forgotten(op.r)[r].dma = com[r].dma
    BY <1>1, ForgottenType
  <2>3. QED
    BY <1>1, <2>1, <2>2
<1>3. ring'[r].status = ring[r].status
  BY <1>1, RemoveEffect
<1>4. CrqFrom(r, 0) /\ CtlFrom(r, 0) /\ RspFrom(r, 0)
  BY <1>1, SameQueues, DeletesFrom DEF OpUnsent
<1>5. op'.pc = "scan"
  BY DEF OpUnsent, TypeOK, Operations
<1>6. QED
  BY <1>1, <1>2, <1>3, <1>4, <1>5, Elsewhere

\* Packets come and go: no ring changes its status.
LEMMA TransmitStatus ==
  ASSUME TypeOK, NEW i \in If, Transmit(i), NEW r \in Ring
  PROVE  ring'[r].status = ring[r].status /\ UNCHANGED <<com, msgVars, op>>
<1>1. tx[i].r \in Ring
  BY Target
<1>2. \/ ring' = ring
      \/ \E x : ring' = [ring EXCEPT ![tx[i].r].qlen = x]
      \/ \E x : ring' = [ring EXCEPT ![tx[i].r].blocked = x]
  BY DEF Transmit, Enqueue, Block, Recheck, Scheduling, Blocked
<1>3. ring'[r].status = ring[r].status
  <2>1. ring \in [Ring -> Rings] /\ ring[tx[i].r] \in Rings
    BY <1>1 DEF TypeOK
  <2>2. ASSUME NEW x, ring' = [ring EXCEPT ![tx[i].r].qlen = x]
        PROVE  ring'[r].status = ring[r].status
    BY <1>1, <2>1, <2>2 DEF Rings
  <2>3. ASSUME NEW x, ring' = [ring EXCEPT ![tx[i].r].blocked = x]
        PROVE  ring'[r].status = ring[r].status
    BY <1>1, <2>1, <2>3 DEF Rings
  <2>4. QED
    BY <1>2, <2>2, <2>3
<1>4. QED
  BY <1>3 DEF Transmit, Enqueue, Block, Recheck, Scheduling

LEMMA PostStatus ==
  ASSUME TypeOK, Post, NEW r \in Ring
  PROVE  ring'[r].status = ring[r].status /\ com'[r].dma = com[r].dma /\ UNCHANGED <<msgVars, op>>
<1>1. PICK opens, fits \in BOOLEAN :
        /\ ring' = [ring EXCEPT ![txw].blocked = @ /\ ~opens,
                               ![txw].qlen = IF fits THEN @ - 1 ELSE @]
        /\ IF fits
           THEN com' = [com EXCEPT ![txw].vis = @ + 1, ![txw].out = @ + 1]
           ELSE \E full : Pick(txw + 1, full)
  BY PostEffect
<1>2. txw \in Ring
  BY PostEffect
<1>3. ring'[r].status = ring[r].status
  <2>1. PICK x, y : ring' = [ring EXCEPT ![txw].blocked = x, ![txw].qlen = y]
    <3>1. ring' = [ring EXCEPT ![txw].blocked = ring[txw].blocked /\ ~opens,
                              ![txw].qlen = IF fits THEN ring[txw].qlen - 1 ELSE ring[txw].qlen]
      BY <1>1
    <3>2. QED
      BY <3>1, Zenon
  <2>2. ring \in [Ring -> Rings] /\ ring[txw] \in Rings
    BY <1>2 DEF TypeOK
  <2>3. QED
    BY <1>2, <2>1, <2>2 DEF Rings
<1>4. com'[r].dma = com[r].dma
  <2>1. CASE fits
    <3>1. com \in [Ring -> Commons] /\ com[txw] \in Commons
      BY <1>2 DEF TypeOK
    <3>2. com' = [com EXCEPT ![txw] = [com[txw] EXCEPT !.vis = @ + 1, !.out = @ + 1]]
      BY <1>1, <2>1
    <3>3. QED
      BY <1>2, <3>1, <3>2 DEF Commons
  <2>2. CASE ~fits
    BY <1>1, <2>2, PickEffect
  <2>3. QED
    BY <2>1, <2>2
<1>5. QED
  BY <1>3, <1>4 DEF Post

LEMMA LifeStep == ASSUME TypeOK, AtRing, LifeInv, [Next]_vars PROVE LifeInv'
<1>1. unsent \subseteq unsent'
  BY DEF Next, vars, badVars, Xmit, Transmit, Enqueue, Block, Recheck, Scheduling, Oops, Worker,
         TxwStart, Post, PostEnd, Creation, Create, CreateFails, CreateUnsent, Firmware,
         FwComplete, FwControl, Interrupt, TxStatus, RxTxEmpty, Created, Deleted, RxCtlEmpty,
         Trigger, DeletePeer, ConfigureAddrMode, AddTdlsPeer, Deletion, OpLook, OpTest, OpClose,
         OpSubmit, OpUnsent, OpEnd
<1> SUFFICES ASSUME NEW r \in Ring, r \notin unsent' PROVE Life(r)'
  BY DEF LifeInv
<1>2. Life(r)
  BY <1>1 DEF LifeInv
<1>3. CASE \E i \in If, a \in Da : Xmit(i, a)
  BY <1>2, <1>3, XmitLife
<1>4. CASE \E i \in If : Transmit(i)
  BY <1>2, <1>4, TransmitStatus, QuietLife
<1>5. CASE Worker
  <2>1. CASE Post
    BY <1>2, <2>1, PostStatus, QuietLife
  <2>2. CASE TxwStart \/ PostEnd
    <3>1. UNCHANGED <<ring, msgVars, op>> /\ com'[r].dma = com[r].dma
      BY <2>2, PickEffect DEF TxwStart, PostEnd
    <3>2. QED
      BY <1>2, <3>1, QuietLife
  <2>3. QED
    BY <1>5, <2>1, <2>2 DEF Worker
<1>6. CASE Creation
  <2>1. CASE r # Head(crq)
    BY <1>2, <1>6, <2>1, CreationElsewhere
  <2>2. CASE r = Head(crq)
    <3>1. ~CreateUnsent
      BY <2>2 DEF CreateUnsent
    <3>2. QED
      BY <1>2, <1>6, <2>2, <3>1, CreateLife, CreateFailsLife DEF Creation
  <2>3. QED
    BY <2>1, <2>2
<1>7. CASE Firmware
  <2>1. ASSUME NEW s \in Ring, FwComplete(s) PROVE Life(r)'
    <3>1. UNCHANGED <<ring, msgVars, op>> /\ com'[r].dma = com[r].dma
      BY <2>1, FwCompleteEffect DEF FwComplete
    <3>2. QED
      BY <1>2, <3>1, QuietLife
  <2>2. QED
    BY <1>2, <1>7, <2>1, FwControlLife DEF Firmware
<1>8. ASSUME NEW s \in Ring, TxStatus(s) PROVE Life(r)'
  <2>1. UNCHANGED <<ring, msgVars, op>> /\ com'[r].dma = com[r].dma
    <3>1. com \in [Ring -> Commons] /\ com[s] \in Commons
      BY DEF TypeOK
    <3>2. com' = [com EXCEPT ![s] = [com[s] EXCEPT !.dn = @ - 1, !.out = @ - 1]]
      BY <1>8 DEF TxStatus, Completed
    <3>3. com'[r].dma = com[r].dma
      BY <3>1, <3>2 DEF Commons
    <3>4. QED
      BY <1>8, <3>3 DEF TxStatus
  <2>2. QED
    BY <1>2, <2>1, QuietLife
<1>9. CASE Created \/ Deleted
  BY <1>2, <1>9, AnswerLife
<1>10. CASE UNCHANGED <<ring, com, msgVars, op>>
  BY <1>2, <1>10, QuietLife
<1>11. CASE Interrupt
  BY <1>8, <1>9, <1>10, <1>11 DEF Interrupt, RxTxEmpty, RxCtlEmpty, Trigger
<1>12. ASSUME UNCHANGED <<ring, com, msgVars>>, op'.pc # "wait" \/ op' = op PROVE Life(r)'
  BY <1>2, <1>12, QuietLife
<1>13. CASE \/ \E i \in If, a \in Da : DeletePeer(i, a)
            \/ \E i \in If : ConfigureAddrMode(i)
            \/ \E i \in If, a \in Da : AddTdlsPeer(i, a)
  <2>1. op \in Operations
    BY DEF TypeOK
  <2>2. UNCHANGED <<ring, com, msgVars>>
    BY <1>13 DEF DeletePeer, ConfigureAddrMode, AddTdlsPeer
  <2>3. op'.pc # "wait" \/ op' = op
    BY <1>13, <2>1 DEF DeletePeer, ConfigureAddrMode, AddTdlsPeer, Operations
  <2>4. QED
    BY <1>12, <2>2, <2>3
<1>14. CASE (\E s \in Ring : OpLook(s)) \/ OpTest \/ OpEnd
  <2>1. op \in Operations
    BY DEF TypeOK
  <2>2. UNCHANGED <<ring, com, msgVars>>
    BY <1>14 DEF OpLook, OpTest, OpEnd
  <2>3. op'.pc # "wait" \/ op' = op
    <3>1. ASSUME NEW s \in Ring, OpLook(s) PROVE op'.pc # "wait"
      BY <2>1, <3>1 DEF OpLook, Operations
    <3>2. CASE OpTest
      <4>1. op' = [op EXCEPT !.pc = "scan", !.r = op.r + 1] \/ op' = op
        BY <3>2 DEF OpTest
      <4>2. QED
        BY <2>1, <4>1 DEF Operations
    <3>3. CASE OpEnd
      BY <3>3 DEF OpEnd, OpIdle
    <3>4. QED
      BY <1>14, <3>1, <3>2, <3>3
  <2>4. QED
    BY <1>12, <2>2, <2>3
<1>15. CASE OpUnsent
  <2>1. r # op.r
    BY <1>15 DEF OpUnsent
  <2>2. QED
    BY <1>2, <1>15, <2>1, UnsentElsewhere
<1>16. CASE Deletion
  BY <1>2, <1>14, <1>15, <1>16, CloseLife, SubmitLife DEF Deletion
<1>17. CASE UNCHANGED vars
  BY <1>10, <1>17 DEF vars
<1>18. QED
  BY <1>3, <1>4, <1>5, <1>6, <1>7, <1>11, <1>13, <1>16, <1>17 DEF Next

LEMMA LifeInit == Init => LifeInv
<1> SUFFICES ASSUME Init, NEW r \in Ring PROVE Life(r)
  BY DEF LifeInv
<1>1. /\ crq = <<>> /\ ctl = <<>> /\ rsp = <<>> /\ fw = {} /\ op.pc = "idle"
      /\ ring[r].status = "none"
  BY DEF Init, OpIdle, NoRing
<1>2. Absent(r) /\ HeldLife(r)
  BY <1>1 DEF Absent, HeldLife, Open
<1>3. QED
  BY <1>2, AbsentLife

(* The firmware never reads a ring whose memory was freed, for any rings:    *)
(* memory is freed only by the answer that says the firmware does not hold   *)
(* the ring, and no message about it is under way then.  Of a ring about     *)
(* which a message could not be submitted nothing is said.                   *)
THEOREM MemoryOutlivesUse == Spec => []RingMemory
<1>1. TypeOK /\ AtRing /\ LifeInv /\ [Next]_vars => LifeInv'
  BY LifeStep
<1>2. TypeOK /\ LifeInv => RingMemory
  BY DEF TypeOK, LifeInv, Life, HeldLife, RingMemory
<1>3. QED
  BY <1>1, <1>2, LifeInit, TypeCorrect, PTL DEF Spec

-----------------------------------------------------------------------------
(* The use of a ring by its transmitter, who knows whether it has gone.      *)
Bears(i) == tx[i].pc \in {"enqueue", "high", "recheck"} /\ ~tx[i].lost
UsedExist == \A i \in If : Bears(i) => Exists(tx[i].r)

LEMMA UsedKept ==
  ASSUME TypeOK, UsedExist, \A r \in Ring : Exists(r) => Exists(r)', NEW i \in If,
         Bears(i)' => (Bears(i) /\ tx'[i].r = tx[i].r) \/ Exists(tx[i].r)'
  PROVE  Bears(i)' => Exists(tx[i].r)'
BY Target DEF UsedExist, Exists

\* A ring goes, and its transmitters have lost it.
LEMMA RemoveUsed ==
  ASSUME TypeOK, UsedExist, NEW r \in Ring, Remove(r) PROVE UsedExist'
<1> SUFFICES ASSUME NEW i \in If, Bears(i)' PROVE Exists(tx[i].r)'
  BY DEF UsedExist
<1>1. tx[i] \in Transmissions /\ tx[i].r \in Ring
  BY Target
<1>2. tx'[i].pc = tx[i].pc /\ tx'[i].r = tx[i].r
      /\ \A s \in Ring \ {r} : ring'[s] = ring[s]
  BY RemoveEffect
<1>3. tx'[i] = [tx[i] EXCEPT !.lost = tx[i].lost \/ (tx[i].pc \notin {"idle", "sched"} /\ tx[i].r = r)]
  <2>1. tx' = [j \in If |->
             [tx[j] EXCEPT !.lost = tx[j].lost \/ (tx[j].pc \notin {"idle", "sched"} /\ tx[j].r = r)]]
    BY Zenon DEF Remove
  <2>2. QED
    BY <2>1, Zenon
<1>4. tx'[i].lost <=> tx[i].lost \/ (tx[i].pc \notin {"idle", "sched"} /\ tx[i].r = r)
  <2>1. tx'[i].lost = (tx[i].lost \/ (tx[i].pc \notin {"idle", "sched"} /\ tx[i].r = r))
    BY <1>1, <1>3, Zenon DEF Transmissions
  <2>2. QED
    BY <2>1
<1>5. Bears(i) /\ tx[i].r # r
  BY <1>2, <1>4 DEF Bears
<1>6. QED
  BY <1>1, <1>2, <1>5 DEF UsedExist, Exists

LEMMA XmitUsed ==
  ASSUME TypeOK, UsedExist, NEW i \in If, NEW a \in Da, Xmit(i, a) PROVE UsedExist'
<1>1. PICK r \in Ring :
        \/ Exists(r) /\ ring' = ring /\ tx' = [tx EXCEPT ![i] = Bound(r, FALSE)]
        \/ /\ ring' = [ring EXCEPT ![r] = [status |-> "closed", if |-> i, da |-> a,
                                           blocked |-> FALSE, qlen |-> 0]]
           /\ tx' = [tx EXCEPT ![i] = Bound(r, TRUE)]
  BY Zenon DEF Xmit, Serves
<1>2. /\ Exists(r)' /\ \A s \in Ring : Exists(s) => Exists(s)'
      /\ tx'[i].r = r /\ \A j \in If \ {i} : tx'[j] = tx[j]
  BY <1>1 DEF TypeOK, Exists, Bound
<1>3. ASSUME NEW j \in If PROVE Bears(j)' => Exists(tx[j].r)'
  <2>1. CASE j = i
    BY <1>2, <2>1 DEF Exists
  <2>2. CASE j # i
    BY <1>2, <2>2, UsedKept DEF Bears
  <2>3. QED
    BY <2>1, <2>2
<1>4. QED
  BY <1>3 DEF UsedExist

LEMMA TransmitUsed == ASSUME TypeOK, UsedExist, NEW i \in If, Transmit(i) PROVE UsedExist'
<1>1. /\ \A r \in Ring : Exists(r) => Exists(r)'
      /\ tx[i].r \in Ring /\ tx[i] \in Transmissions
  BY TransmitStatus, Target DEF Exists
<1>2. \A j \in If \ {i} : tx'[j] = tx[j]
  BY DEF Transmit, Enqueue, Block, Recheck, Scheduling, TypeOK
<1>3. Bears(i)' => tx'[i].r = tx[i].r /\ (Bears(i) \/ Exists(tx[i].r))
  <2>1. tx \in [If -> Transmissions] /\ TxIdle.pc = "idle"
    BY DEF TypeOK, TxIdle
  <2>2. CASE Enqueue(i)
    <3>1. CASE tx' = tx
      BY <3>1 DEF Bears
    <3>2. CASE tx' # tx
      <4>1. Exists(tx[i].r)
        BY <2>2, <3>2 DEF Enqueue
      <4>2. tx'[i].pc = "idle" \/ \E p, n : tx'[i] = [tx[i] EXCEPT !.pc = p, !.lost = FALSE, !.n = n]
        <5> DEFINE over == ~ring[tx[i].r].blocked /\ ring[tx[i].r].qlen + 1 > High
                   next == IF over THEN "high" ELSE IF tx[i].first THEN "idle" ELSE "sched"
                   n == IF over THEN 0 ELSE (ring[tx[i].r].qlen + 1) % Trickle
        <5>1. tx' = [tx EXCEPT ![i] = IF next = "idle" THEN TxIdle
                       ELSE [@ EXCEPT !.pc = next, !.lost = FALSE, !.n = n]]
          BY <2>2, <4>1 DEF Enqueue
        <5> HIDE DEF next, n
        <5>2. tx'[i] = IF next = "idle" THEN TxIdle
                       ELSE [tx[i] EXCEPT !.pc = next, !.lost = FALSE, !.n = n]
          BY <2>1, <5>1
        <5>3. QED
          BY <2>1, <5>2
      <4>3. tx'[i].pc = "idle" \/ tx'[i].r = tx[i].r
        BY <1>1, <4>2 DEF Transmissions
      <4>4. QED
        BY <4>1, <4>3 DEF Bears
    <3>3. QED
      BY <3>1, <3>2
  <2>3. CASE Block(i)
    <3>1. CASE tx' = tx
      BY <3>1 DEF Bears
    <3>2. CASE tx' # tx
      <4>1. Exists(tx[i].r) /\ tx'[i] = [tx[i] EXCEPT !.pc = "recheck"]
        BY <2>1, <2>3, <3>2 DEF Block
      <4>2. QED
        BY <1>1, <4>1 DEF Transmissions
    <3>3. QED
      BY <3>1, <3>2
  <2>4. CASE Recheck(i)
    <3>1. \/ tx' = tx \/ tx' = [tx EXCEPT ![i] = TxIdle]
          \/ tx' = [tx EXCEPT ![i] = [@ EXCEPT !.pc = "sched", !.n = ring[tx[i].r].qlen % Trickle]]
      BY <2>4 DEF Recheck
    <3>2. tx' = tx \/ tx'[i].pc \in {"idle", "sched"}
      BY <1>1, <2>1, <3>1 DEF Transmissions
    <3>3. QED
      BY <3>2 DEF Bears
  <2>5. CASE Scheduling(i)
    BY <2>1, <2>5 DEF Scheduling, Bears
  <2>6. QED
    BY <2>2, <2>3, <2>4, <2>5 DEF Transmit
<1>4. ASSUME NEW j \in If PROVE Bears(j)' => Exists(tx[j].r)'
  <2>1. CASE j = i
    <3>1. Bears(j)' => tx'[j].r = tx[j].r /\ (Bears(j) \/ Exists(tx[j].r)')
      BY <1>1, <1>3, <2>1 DEF Exists
    <3>2. QED
      BY <1>1, <3>1, UsedKept
  <2>2. CASE j # i
    BY <1>1, <1>2, <2>2, UsedKept DEF Bears
  <2>3. QED
    BY <2>1, <2>2
<1>5. QED
  BY <1>4 DEF UsedExist

\* The steps that remove no ring and bind no transmitter
LEMMA QuietUsed ==
  ASSUME TypeOK, UsedExist, tx' = tx, \A r \in Ring : ring'[r].status = ring[r].status
  PROVE  UsedExist'
BY UsedKept DEF UsedExist, Bears, Exists

LEMMA UsedStep == ASSUME TypeOK, AtRing, UsedExist, [Next]_vars PROVE UsedExist'
<1>1. CASE (\E i \in If, a \in Da : Xmit(i, a)) \/ (\E i \in If : Transmit(i))
  BY <1>1, XmitUsed, TransmitUsed
<1>2. CASE Worker
  <2>1. tx' = tx /\ \A r \in Ring : ring'[r].status = ring[r].status
    BY <1>2, PostStatus DEF Worker, TxwStart, Post, PostEnd
  <2>2. QED
    BY <2>1, QuietUsed
<1>3. CASE UNCHANGED <<ring, tx>>
  BY <1>3, QuietUsed
<1>4. CASE CreateFails \/ CreateUnsent
  BY <1>4, RemoveUsed, CreatingType DEF CreateFails, CreateUnsent, Failing
<1>5. CASE Created \/ Deleted
  <2>1. Head(rsp).r \in Ring
    BY <1>5, HeadOfAnswers DEF Created, Deleted
  <2>2. CASE Remove(Head(rsp).r)
    BY <2>1, <2>2, RemoveUsed
  <2>3. CASE /\ tx' = tx /\ Exists(Head(rsp).r)
             /\ ring' = [ring EXCEPT ![Head(rsp).r].status = "open"]
    <3>1. \A r \in Ring : Exists(r) => Exists(r)'
      BY <2>3 DEF TypeOK, Rings, Exists
    <3>2. QED
      BY <2>3, <3>1, UsedKept DEF UsedExist, Bears
  <2>4. QED
    BY <1>3, <1>5, <2>2, <2>3, CreatedEffect DEF Deleted
<1>6. CASE OpUnsent
  BY <1>6, RemoveUsed DEF OpUnsent, Waited, OpAt, AtRing
<1>7. CASE OpClose
  <2>1. op.r \in Ring /\ ring' = [ring EXCEPT ![op.r].status = "closing"] /\ tx' = tx
    BY <1>7 DEF OpClose, OpAt, AtRing
  <2>2. \A r \in Ring : Exists(r) => Exists(r)'
    BY <2>1 DEF TypeOK, Rings, Exists
  <2>3. QED
    BY <2>1, <2>2, UsedKept DEF UsedExist, Bears
<1>8. QED
  BY <1>1, <1>2, <1>3, <1>4, <1>5, <1>6, <1>7
     DEF Next, vars, Creation, Create, Firmware, FwComplete, FwControl, Interrupt, TxStatus,
         RxTxEmpty, RxCtlEmpty, Trigger, DeletePeer, ConfigureAddrMode, AddTdlsPeer, Deletion,
         OpLook, OpTest, OpSubmit, OpEnd

-----------------------------------------------------------------------------
\* After an oops there is no step.
LEMMA OopsEnds == ASSUME [Next]_vars, oops # {} PROVE UNCHANGED vars
BY DEF Next, vars, Xmit, Transmit, Enqueue, Block, Recheck, Scheduling, At, Worker, TxwStart,
       Post, PostEnd, Creation, Create, CreateFails, CreateUnsent, Failing, Creating, Firmware,
       FwComplete, FwControl, Interrupt, RxAt, TxStatus, RxTxEmpty, Created, Deleted, RxCtlEmpty,
       Trigger, DeletePeer, ConfigureAddrMode, AddTdlsPeer, Deletion, OpLook, OpTest, OpClose,
       OpSubmit, OpUnsent, OpEnd, Waited, OpAt

LEMMA TransmitOops ==
  ASSUME TypeOK, UsedExist, NEW i \in If, Transmit(i), oops = {} PROVE NoOops'
<1>1. CASE oops' = {}
  BY <1>1 DEF NoOops
<1>2. CASE oops' # {}
  <2>1. oops' = {tx[i].r} /\ tx' = tx /\ tx[i].lost
    BY <1>2 DEF Transmit, Enqueue, Block, Recheck, Scheduling, At, Oops, badVars, UsedExist, Bears
  <2>2. QED
    BY <2>1 DEF NoOops, Snatched
<1>3. QED
  BY <1>1, <1>2

\* The creation worker and the answers find their ring, and its memory.
LEMMA CreationOops ==
  ASSUME TypeOK, LifeInv, Creation, oops = {} PROVE NoOops'
<1>1. CASE oops' = {}
  BY <1>1 DEF NoOops
<1>2. CASE oops' # {}
  <2> DEFINE r == Head(crq)
  <2>1. Create /\ ~Exists(r) /\ oops' = {r} /\ unsent' = unsent
    BY <1>2 DEF Creation, Create, CreateFails, CreateUnsent, Failing, Creating, Oops, badVars
  <2>2. r \in Ring /\ (Life(r) => Exists(r))
    BY <2>1, CrqHead DEF Create, Creating, Exists
  <2>3. QED
    BY <2>1, <2>2 DEF LifeInv, NoOops
<1>3. QED
  BY <1>1, <1>2

LEMMA AnswerOops ==
  ASSUME TypeOK, LifeInv, Created \/ Deleted, oops = {} PROVE NoOops'
<1> DEFINE r == Head(rsp).r
<1>1. /\ rsp # <<>> /\ rsp' = Tail(rsp) /\ unsent' = unsent
      /\ oops' = {} \/ oops' = FreedTwice(r)
  BY CreatedEffect DEF Created, Deleted
<1>2. r \in Ring /\ (Life(r) => com[r].dma)
  BY <1>1, RspHead
<1>3. QED
  BY <1>1, <1>2 DEF LifeInv, NoOops, FreedTwice

LEMMA DeletionOops ==
  ASSUME TypeOK, AtRing, LifeInv, Deletion, oops = {} PROVE NoOops'
<1>1. CASE oops' = {}
  BY <1>1 DEF NoOops
<1>2. CASE OpTest /\ oops' # {}
  <2>1. oops' = {op.r} /\ ~Exists(op.r) /\ op.pc = "seen" /\ UNCHANGED <<op, ring>>
    BY <1>2 DEF OpTest, OpAt, Oops, badVars
  <2>2. QED
    BY <2>1 DEF NoOops, Snatched, Exists
<1>3. CASE OpSubmit /\ oops' # {}
  <2>1. oops' = {op.r} /\ ~Exists(op.r) /\ op.pc = "wait" /\ unsent' = unsent
    BY <1>3 DEF OpSubmit, Waited, OpAt, Oops, badVars
  <2>2. op.r \in Ring /\ ~Life(op.r)
    BY <2>1 DEF AtRing, Life, WaitLife, Exists
  <2>3. QED
    BY <2>1, <2>2 DEF LifeInv, NoOops
<1>4. CASE OpUnsent
  BY <1>4 DEF OpUnsent, NoOops, FreedTwice
<1>5. QED
  BY <1>1, <1>2, <1>3, <1>4 DEF Deletion, OpLook, OpClose, OpEnd, badVars

LEMMA OopsStep ==
  ASSUME TypeOK, AtRing, LifeInv, UsedExist, NoOops, [Next]_vars PROVE NoOops'
<1>1. CASE oops # {}
  <2>1. UNCHANGED <<oops, unsent, tx, op, ring>>
    BY <1>1, OopsEnds DEF vars, badVars
  <2>2. QED
    BY <2>1 DEF NoOops, Snatched, Exists
<1>2. CASE oops = {} /\ oops' = {}
  BY <1>2 DEF NoOops
<1>3. CASE oops = {} /\ oops' # {}
  <2>1. \/ \E i \in If : Transmit(i)
        \/ Creation \/ Created \/ Deleted \/ Deletion
    BY <1>3 DEF Next, vars, badVars, Xmit, Worker, TxwStart, Post, PostEnd, Firmware, FwComplete,
                FwControl, Interrupt, TxStatus, Logged, RxTxEmpty, RxCtlEmpty, Trigger, DeletePeer,
                ConfigureAddrMode, AddTdlsPeer
  <2>2. QED
    BY <1>3, <2>1, TransmitOops, CreationOops, AnswerOops, DeletionOops
<1>4. QED
  BY <1>1, <1>2, <1>3

(* No ring is used, and no memory freed, that is not there, for any rings:   *)
(* whoever finds a ring gone was a transmitter or a deletion whose ring was  *)
(* removed between the lookup and the use, or the ring is one of which a     *)
(* message could not be submitted.                                           *)
THEOREM RingsExist == Spec => []NoOops
<1>1. Init => UsedExist /\ NoOops
  BY DEF Init, UsedExist, Bears, TxIdle, NoOops
<1>2. TypeOK /\ AtRing /\ LifeInv /\ UsedExist /\ NoOops /\ [Next]_vars
        => LifeInv' /\ UsedExist' /\ NoOops'
  BY LifeStep, UsedStep, OopsStep
<1>3. QED
  BY <1>1, <1>2, LifeInit, TypeCorrect, PTL DEF Spec

-----------------------------------------------------------------------------
(* Queued packets.                                                           *)
Excused(r) == r \in starved \cup late
Remembered(r) == Qlen(r) > 0 /\ Idle(r) => InFlight(r) > 0 \/ Excused(r)

LEMMA RememberedKept ==
  ASSUME NEW r \in Ring, Remembered(r),
         Qlen(r)' > 0 /\ Idle(r)' => Qlen(r) > 0 /\ Idle(r),
         InFlight(r)' = InFlight(r), Excused(r) => Excused(r)'
  PROVE  Remembered(r)'
BY DEF Remembered

\* A step that does not touch the ring, nor takes it from who will look at it
LEMMA Aside ==
  ASSUME NEW r \in Ring, Remembered(r), ring'[r] = ring[r], txw' = txw,
         flowMap \subseteq flowMap', r \in doneMap => r \in doneMap',
         Pledged(r) => Pledged(r)', InFlight(r)' = InFlight(r), Excused(r) => Excused(r)'
  PROVE  Remembered(r)'
<1>1. Qlen(r)' = Qlen(r)
  BY DEF Qlen, Open
<1>2. Idle(r)' => Idle(r)
  BY DEF Idle
<1>3. QED
  BY <1>1, <1>2, RememberedKept

\* A ring loses its bit without a turn only when it is full.
LEMMA PickLeaves ==
  ASSUME TypeOK, NEW c, NEW full, Pick(c, full), NEW r \in Ring, r \in flowMap, r \notin flowMap'
  PROVE  r = txw' \/ com[r].vis > 0
<1> DEFINE cand == {s \in flowMap : s >= c}
           room == {s \in cand : WriteAvailable(s)}
           passed == IF room = {} THEN cand ELSE {s \in cand : \A t \in room : s <= t}
<1>1. /\ flowMap' = flowMap \ passed
      /\ IF room = {} THEN txw' = Resting ELSE txw' \in room \cap passed
  BY DEF Pick
<1>2. r \in passed /\ r \in cand
  BY <1>1
<1>3. CASE r \in room
  <2>1. txw' \in room /\ txw' <= r /\ r <= txw'
    BY <1>1, <1>2, <1>3
  <2>2. txw' \in Nat /\ r \in Nat
    BY <2>1, Ids DEF TypeOK
  <2>3. QED
    BY <2>1, <2>2
<1>4. CASE r \notin room
  <2>1. ~WriteAvailable(r)
    BY <1>2, <1>4
  <2>2. Depth - com[r].vis <= 1 \/ Depth - com[r].vis <= Refill
    BY <2>1, Thresholds DEF WriteAvailable, Free, TypeOK, Commons
  <2>3. com[r].vis \in Nat
    BY DEF TypeOK, Commons
  <2>4. QED
    BY <2>2, <2>3, Thresholds
<1>5. QED
  BY <1>3, <1>4

\* The worker moves on: the other rings are as they were, or have packets in
\* flight.
LEMMA PickRemembers ==
  ASSUME TypeOK, NEW c, NEW full, Pick(c, full), NEW r \in Ring, Remembered(r),
         txw # r \/ Qlen(r)' = 0, Qlen(r)' = Qlen(r) \/ Qlen(r)' = 0, tx' = tx,
         doneMap' = doneMap, Excused(r) => Excused(r)'
  PROVE  Remembered(r)'
<1>1. com'[r].vis = com[r].vis /\ com'[r].dn = com[r].dn /\ com[r] \in Commons
  BY PickEffect DEF TypeOK
<1>2. CASE r \in flowMap /\ r \notin flowMap'
  BY <1>1, <1>2, PickLeaves DEF Remembered, Idle, InFlight, Commons
<1>3. CASE ~(r \in flowMap /\ r \notin flowMap')
  <2>1. Qlen(r)' > 0 /\ Idle(r)' => Qlen(r) > 0 /\ Idle(r)
    BY <1>3 DEF Idle, Pledged
  <2>2. QED
    BY <1>1, <2>1, RememberedKept DEF InFlight
<1>4. QED
  BY <1>2, <1>3

LEMMA XmitRemembers ==
  ASSUME TypeOK, NEW i \in If, NEW a \in Da, Xmit(i, a), NEW r \in Ring, Remembered(r)
  PROVE  Remembered(r)'
<1>1. PICK s \in Ring :
        \/ ring' = ring /\ tx' = [tx EXCEPT ![i] = Bound(s, FALSE)]
        \/ /\ ring' = [ring EXCEPT ![s] = [status |-> "closed", if |-> i, da |-> a,
                                           blocked |-> FALSE, qlen |-> 0]]
           /\ tx' = [tx EXCEPT ![i] = Bound(s, TRUE)]
  BY Zenon DEF Xmit
<1>2. tx[i].pc = "idle" /\ UNCHANGED <<com, flowMap, doneMap, txw, starved, late>>
  BY DEF Xmit, At, mapVars, turnVars, leftVars
<1>3. ring'[r] = ring[r] \/ ring'[r].status = "closed"
  <2>1. ring \in [Ring -> Rings]
    BY DEF TypeOK
  <2> DEFINE made == [status |-> "closed", if |-> i, da |-> a, blocked |-> FALSE, qlen |-> 0]
  <2>2. made.status = "closed" /\ (ring' = ring \/ ring' = [ring EXCEPT ![s] = made])
    BY <1>1
  <2> HIDE DEF made
  <2>3. QED
    BY <2>1, <2>2
<1>4. Pledged(r) => Pledged(r)'
  <2>1. \A j \in If \ {i} : tx'[j] = tx[j]
    BY <1>1 DEF TypeOK
  <2>2. QED
    BY <1>2, <2>1 DEF Pledged
<1>5. CASE ring'[r] = ring[r]
  BY <1>2, <1>4, <1>5, Aside DEF InFlight, Excused
<1>6. CASE ring'[r].status = "closed"
  BY <1>6 DEF Remembered, Qlen, Open
<1>7. QED
  BY <1>3, <1>5, <1>6

\* What a step of a transmission does to its pledge, and to other rings
LEMMA TransmitMoves ==
  ASSUME TypeOK, NEW i \in If, Transmit(i)
  PROVE  /\ \A t \in Ring \ {tx[i].r} : ring'[t] = ring[t]
         /\ \A j \in If \ {i} : tx'[j] = tx[j]
         /\ tx'[i].pc = "idle" \/ (tx'[i].r = tx[i].r /\ tx'[i].first = tx[i].first)
<1>1. tx \in [If -> Transmissions] /\ tx[i] \in Transmissions /\ tx[i].r \in Ring
  BY Target DEF TypeOK
<1>2. TxIdle.pc = "idle"
  BY DEF TxIdle
<1>3. \/ tx' = tx
      \/ tx' = [tx EXCEPT ![i] = TxIdle]
      \/ tx' = [tx EXCEPT ![i].pc = "recheck"]
      \/ \E n : tx' = [tx EXCEPT ![i] = [@ EXCEPT !.pc = "sched", !.n = n]]
      \/ \E p, n : tx' = [tx EXCEPT ![i] = [@ EXCEPT !.pc = p, !.lost = FALSE, !.n = n]]
  <2>1. CASE Enqueue(i)
    <3> DEFINE over == ~ring[tx[i].r].blocked /\ ring[tx[i].r].qlen + 1 > High
               next == IF over THEN "high" ELSE IF tx[i].first THEN "idle" ELSE "sched"
               n == IF over THEN 0 ELSE (ring[tx[i].r].qlen + 1) % Trickle
    <3>1. \/ tx' = tx
          \/ tx' = [tx EXCEPT ![i] = IF next = "idle" THEN TxIdle
                       ELSE [@ EXCEPT !.pc = next, !.lost = FALSE, !.n = n]]
      BY <2>1 DEF Enqueue
    <3> HIDE DEF next, n
    <3>2. QED
      BY <3>1
  <2>2. CASE Block(i) \/ Recheck(i) \/ Scheduling(i)
    BY <2>2 DEF Block, Recheck, Scheduling
  <2>3. QED
    BY <2>1, <2>2 DEF Transmit
<1>4. \A j \in If \ {i} : tx'[j] = tx[j]
  BY <1>1, <1>3
<1>5. tx'[i].pc = "idle" \/ (tx'[i].r = tx[i].r /\ tx'[i].first = tx[i].first)
  BY <1>1, <1>2, <1>3 DEF Transmissions
<1>6. \A t \in Ring \ {tx[i].r} : ring'[t] = ring[t]
  BY <1>1 DEF Transmit, Enqueue, Block, Recheck, Scheduling, Blocked, TypeOK
<1>7. QED
  BY <1>4, <1>5, <1>6

LEMMA TransmitRemembers ==
  ASSUME TypeOK, NEW i \in If, Transmit(i), NEW r \in Ring, Remembered(r)
  PROVE  Remembered(r)'
<1> DEFINE s == tx[i].r
<1>1. /\ \A t \in Ring \ {s} : ring'[t] = ring[t]
      /\ \A j \in If \ {i} : tx'[j] = tx[j]
      /\ tx'[i].pc = "idle" \/ (tx'[i].r = s /\ tx'[i].first = tx[i].first)
      /\ s \in Ring /\ tx[i] \in Transmissions /\ tx[i].pc # "idle"
  BY TransmitMoves, Target DEF Transmit, Enqueue, Block, Recheck, Scheduling, At
<1>2. /\ doneMap' = doneMap /\ txw' = txw /\ com' = com
      /\ flowMap \subseteq flowMap' /\ starved \ {s} \subseteq starved' /\ late \ {s} \subseteq late'
  <2>1. CASE Enqueue(i)
    BY <2>1 DEF Enqueue
  <2>2. CASE Block(i) \/ Recheck(i)
    BY <2>2 DEF Block, Recheck, mapVars, turnVars, leftVars
  <2>3. CASE Scheduling(i)
    BY <2>3 DEF Scheduling, Schedule
  <2>4. QED
    BY <2>1, <2>2, <2>3 DEF Transmit
<1>3. CASE r # s
  <2>1. Pledged(r) => Pledged(r)'
    BY <1>1, <1>3 DEF Pledged
  <2>2. Excused(r) => Excused(r)'
    BY <1>2, <1>3 DEF Excused
  <2>3. QED
    BY <1>1, <1>2, <1>3, <2>1, <2>2, Aside DEF InFlight
<1>4. CASE r = s
  <2>1. CASE tx'[i].pc # "idle" /\ ~tx[i].first
    BY <1>1, <1>4, <2>1 DEF Remembered, Idle, Pledged
  <2>2. CASE Scheduling(i)
    BY <1>4, <2>2 DEF Remembered, Idle, Scheduling, Schedule
  <2>3. CASE Enqueue(i) /\ (tx'[i].pc = "idle" \/ tx[i].first)
    <3>1. CASE ~Exists(s)
      <4>1. UNCHANGED <<ring, tx, late, starved, flowMap>>
        BY <2>3, <3>1 DEF Enqueue
      <4>2. QED
        BY <1>2, <4>1, Aside DEF InFlight, Excused, Pledged
    <3>2. CASE Exists(s) /\ ~Open(s)
      <4>1. ring'[r].status = ring[r].status
        BY <2>3, TransmitStatus DEF Transmit
      <4>2. QED
        BY <1>4, <3>2, <4>1 DEF Remembered, Qlen, Open
    <3>3. CASE Exists(s) /\ Open(s)
      <4>1. tx[i].first
        <5> DEFINE over == ~ring[s].blocked /\ ring[s].qlen + 1 > High
                   next == IF over THEN "high" ELSE IF tx[i].first THEN "idle" ELSE "sched"
                   n == IF over THEN 0 ELSE (ring[s].qlen + 1) % Trickle
        <5>1. tx' = [tx EXCEPT ![i] = IF next = "idle" THEN TxIdle
                       ELSE [@ EXCEPT !.pc = next, !.lost = FALSE, !.n = n]]
          BY <2>3, <3>3 DEF Enqueue
        <5> HIDE DEF n
        <5>2. ~tx[i].first => tx'[i].pc = next /\ next # "idle"
          <6>1. ~tx[i].first => next # "idle"
            OBVIOUS
          <6> HIDE DEF next
          <6>2. tx \in [If -> Transmissions]
            BY DEF TypeOK
          <6>3. QED
            BY <1>1, <5>1, <6>1, <6>2 DEF Transmissions
        <5>3. QED
          BY <2>3, <5>2
      <4>2. r \in late'
        BY <1>4, <2>3, <3>3, <4>1 DEF Enqueue
      <4>3. QED
        BY <4>2 DEF Remembered, Excused
    <3>4. QED
      BY <3>1, <3>2, <3>3
  <2>4. CASE Block(i) \/ Recheck(i)
    <3>1. ring'[r].qlen = ring[r].qlen /\ ring'[r].status = ring[r].status
      <4>1. ring \in [Ring -> Rings] /\ ring[r] \in Rings
        BY DEF TypeOK
      <4>2. ring' = ring \/ ring' = Blocked(r, TRUE) \/ ring' = Blocked(r, FALSE)
        BY <1>4, <2>4 DEF Block, Recheck
      <4>3. QED
        BY <4>1, <4>2 DEF Rings, Blocked
    <3>2. UNCHANGED <<flowMap, starved, late>>
      BY <2>4 DEF Block, Recheck, mapVars, turnVars, leftVars
    <3>3. CASE tx[i].first
      <4>1. Pledged(r) => Pledged(r)'
        BY <1>1, <3>3 DEF Pledged
      <4>2. Qlen(r)' = Qlen(r) /\ (Idle(r)' => Idle(r))
        BY <1>2, <3>1, <3>2, <4>1 DEF Qlen, Open, Idle
      <4>3. QED
        BY <1>2, <3>2, <4>2, RememberedKept DEF InFlight, Excused
    <3>4. CASE ~tx[i].first
      <4>1. tx'[i].pc # "idle"
        <5>1. tx \in [If -> Transmissions]
          BY DEF TypeOK
        <5>2. \/ tx' = tx \/ tx' = [tx EXCEPT ![i].pc = "recheck"]
              \/ \E n : tx' = [tx EXCEPT ![i] = [@ EXCEPT !.pc = "sched", !.n = n]]
          BY <2>4, <3>4 DEF Block, Recheck
        <5>3. QED
          BY <1>1, <5>1, <5>2 DEF Transmissions
      <4>2. QED
        BY <2>1, <3>4, <4>1
    <3>5. QED
      BY <3>3, <3>4
  <2>5. QED
    BY <2>1, <2>2, <2>3, <2>4 DEF Transmit
<1>5. QED
  BY <1>3, <1>4

\* The worker posts a packet, or puts it back and moves on: the ring it leaves
\* is full, has packets of its own in flight, or wants an id or a mapping.
LEMMA PostRemembers ==
  ASSUME TypeOK, Post, NEW r \in Ring, Remembered(r) PROVE Remembered(r)'
<1>1. PICK opens, fits \in BOOLEAN :
        /\ ring' = [ring EXCEPT ![txw].blocked = @ /\ ~opens,
                               ![txw].qlen = IF fits THEN @ - 1 ELSE @]
        /\ IF fits
           THEN /\ com' = [com EXCEPT ![txw].vis = @ + 1, ![txw].out = @ + 1]
                /\ UNCHANGED <<flowMap, txw, starved>>
           ELSE /\ \E full : Pick(txw + 1, full)
                /\ \/ com[txw].vis > 0 /\ starved' = starved
                   \/ InFlight(txw) > 0 /\ starved' = starved
                   \/ starved' = starved \cup {txw}
  BY PostEffect
<1>2. txw \in Ring /\ UNCHANGED <<doneMap, tx, late>> /\ com[r] \in Commons
  BY PostEffect DEF Post, TypeOK
<1>3. \A s \in Ring \ {txw} : ring'[s] = ring[s]
  <2>1. PICK x, y : ring' = [ring EXCEPT ![txw].blocked = x, ![txw].qlen = y]
    <3>1. ring' = [ring EXCEPT ![txw].blocked = ring[txw].blocked /\ ~opens,
                              ![txw].qlen = IF fits THEN ring[txw].qlen - 1 ELSE ring[txw].qlen]
      BY <1>1
    <3>2. QED
      BY <3>1, Zenon
  <2>2. QED
    BY <1>2, <2>1 DEF TypeOK
<1>4. CASE fits
  <2>1. CASE r = txw
    BY <1>1, <1>4, <2>1 DEF Remembered, Idle
  <2>2. CASE r # txw
    <3>1. com'[r] = com[r]
      BY <1>1, <1>2, <1>4, <2>2 DEF TypeOK
    <3>2. QED
      BY <1>1, <1>2, <1>3, <1>4, <2>2, <3>1, Aside DEF InFlight, Excused, Pledged
  <2>3. QED
    BY <2>1, <2>2
<1>5. CASE ~fits
  <2>1. PICK full : Pick(txw + 1, full)
    BY <1>1, <1>5
  <2>2. com'[r].vis = com[r].vis /\ com'[r].dn = com[r].dn
    BY <2>1, PickEffect
  <2>3. \/ com[txw].vis > 0 /\ starved' = starved
        \/ InFlight(txw) > 0 /\ starved' = starved
        \/ starved' = starved \cup {txw}
    BY <1>1, <1>5
  <2>4. CASE r = txw
    <3>1. InFlight(r) > 0 \/ r \in starved'
      BY <1>2, <2>3, <2>4 DEF InFlight, Commons
    <3>2. QED
      BY <2>2, <3>1 DEF Remembered, InFlight, Excused
  <2>5. CASE r # txw
    <3>1. Qlen(r)' = Qlen(r)
      BY <1>3, <2>5 DEF Qlen, Open
    <3>2. Excused(r) => Excused(r)'
      BY <1>2, <2>3 DEF Excused
    <3>3. QED
      BY <1>2, <2>1, <2>5, <3>1, <3>2, PickRemembers
  <2>6. QED
    BY <2>4, <2>5
<1>6. QED
  BY <1>4, <1>5

\* A ring goes.
LEMMA RemoveRemembers ==
  ASSUME TypeOK, NEW s \in Ring, Remove(s), UNCHANGED turnVars, txw' = txw,
         NEW r \in Ring, Remembered(r), InFlight(r)' = InFlight(r)
  PROVE  Remembered(r)'
<1>1. CASE r = s
  <2>1. ring'[r].status = "none"
    BY <1>1, RemoveEffect DEF NoRing
  <2>2. QED
    BY <2>1 DEF Remembered, Qlen, Open
<1>2. CASE r # s
  <2>1. ring'[r] = ring[r] /\ (Pledged(r) => Pledged(r)')
    BY <1>2, RemoveEffect DEF Pledged
  <2>2. Excused(r) => Excused(r)'
    BY <1>2 DEF Remove, Excused
  <2>3. QED
    BY <2>1, <2>2, Aside DEF turnVars
<1>3. QED
  BY <1>1, <1>2

LEMMA AnswerRemembers ==
  ASSUME TypeOK, Created \/ Deleted, NEW r \in Ring, Remembered(r) PROVE Remembered(r)'
<1> DEFINE s == Head(rsp).r
<1>1. s \in Ring /\ UNCHANGED <<doneMap, txw>>
  BY HeadOfAnswers DEF Created, Deleted, turnVars
<1>2. CASE Remove(s)
  <2>1. com' = com \/ com' = Freed(com, s)
    BY CreatedEffect DEF Deleted
  <2>2. InFlight(r)' = InFlight(r)
    <3>1. com \in [Ring -> Commons]
      BY DEF TypeOK
    <3>2. Freed(com, s)[r].vis = com[r].vis /\ Freed(com, s)[r].dn = com[r].dn
      BY <1>1, <3>1, FreedType
    <3> HIDE DEF s
    <3>3. QED
      BY <2>1, <3>2 DEF InFlight
  <2>3. CASE UNCHANGED turnVars
    BY <1>1, <1>2, <2>2, <2>3, RemoveRemembers
  <2>4. CASE ~UNCHANGED turnVars
    <3>1. Created /\ s \in flowMap' /\ starved \ {s} \subseteq starved' /\ late \ {s} \subseteq late'
          /\ flowMap' = flowMap \cup {s}
      BY <1>1, <2>4, CreatedEffect DEF Deleted, Created, turnVars, Schedule
    <3>2. CASE r = s
      BY <3>1, <3>2 DEF Remembered, Idle
    <3>3. CASE r # s
      <4>1. ring'[r] = ring[r] /\ (Pledged(r) => Pledged(r)')
        BY <1>1, <1>2, <3>3, RemoveEffect DEF Pledged
      <4>2. Excused(r) => Excused(r)'
        BY <3>1, <3>3 DEF Excused
      <4>3. QED
        BY <1>1, <2>2, <3>1, <4>1, <4>2, Aside
    <3>4. QED
      BY <3>2, <3>3
  <2>5. QED
    BY <2>3, <2>4
<1>3. CASE ~Remove(s)
  <2>1. /\ UNCHANGED <<com, tx>> /\ flowMap' = flowMap \cup {s}
        /\ starved' = starved \ {s} /\ late' = late \ {s}
        /\ ring' = ring \/ ring' = [ring EXCEPT ![s].status = "open"]
    BY <1>3, CreatedEffect DEF Deleted
  <2>2. CASE r = s
    BY <2>1, <2>2 DEF Remembered, Idle
  <2>3. CASE r # s
    <3>1. ring'[r] = ring[r]
      BY <1>1, <2>1, <2>3 DEF TypeOK
    <3>2. QED
      BY <1>1, <2>1, <2>3, <3>1, Aside DEF InFlight, Excused, Pledged
  <2>4. QED
    BY <2>2, <2>3
<1>4. QED
  BY <1>2, <1>3

\* The last completion counted, an unposted packet is scheduled.
LEMMA TriggerRemembers ==
  ASSUME TypeOK, NeverOvercounted, NEW s \in Ring, Trigger(s), NEW r \in Ring, Remembered(r)
  PROVE  Remembered(r)'
<1>1. /\ doneMap' = doneMap \ {s} /\ UNCHANGED <<ring, com, tx, txw>>
      /\ IF HasRoom(s) THEN Schedule(s, TRUE) ELSE UNCHANGED <<flowMap, queued, leftVars>>
  BY DEF Trigger
<1>2. CASE r = s
  <2>1. CASE HasRoom(r)
    BY <1>1, <1>2, <2>1 DEF Remembered, Idle, Schedule
  <2>2. CASE ~HasRoom(r)
    <3>1. Qlen(r) > 0 => ~(com[r].out < Trickle)
      BY <2>2 DEF HasRoom
    <3>2. com[r].out <= InFlight(r) /\ com[r] \in Commons
      BY DEF NeverOvercounted, TypeOK
    <3>3. Qlen(r) > 0 => InFlight(r) > 0
      BY <3>1, <3>2, Thresholds DEF InFlight, Commons
    <3>4. Qlen(r)' = Qlen(r) /\ InFlight(r)' = InFlight(r)
      BY <1>1 DEF Qlen, Open, InFlight
    <3>5. QED
      BY <3>3, <3>4 DEF Remembered
  <2>3. QED
    BY <2>1, <2>2
<1>3. CASE r # s
  <2>1. flowMap \subseteq flowMap' /\ (Excused(r) => Excused(r)')
    BY <1>1, <1>3 DEF Schedule, Excused, leftVars
  <2>2. QED
    BY <1>1, <1>3, <2>1, Aside DEF InFlight, Pledged
<1>4. QED
  BY <1>2, <1>3

LEMMA RememberedStep ==
  ASSUME TypeOK, AtRing, NeverOvercounted, NoStranded, [Next]_vars PROVE NoStranded'
<1> SUFFICES ASSUME NEW r \in Ring PROVE Remembered(r)'
  BY DEF NoStranded, Remembered, Excused
<1>0. Remembered(r) /\ com \in [Ring -> Commons] /\ com[r] \in Commons
  BY DEF NoStranded, Remembered, Excused, TypeOK
<1>1. CASE (\E i \in If, a \in Da : Xmit(i, a)) \/ (\E i \in If : Transmit(i))
  BY <1>0, <1>1, XmitRemembers, TransmitRemembers
<1>2. CASE Worker
  <2>1. CASE TxwStart
    <3>1. /\ Pick(0, {}) /\ txw = Resting /\ UNCHANGED <<ring, tx, doneMap, starved, late>>
      BY <2>1 DEF TxwStart, leftVars
    <3>2. txw # r
      BY <3>1, Ids DEF Resting
    <3>3. QED
      BY <1>0, <3>1, <3>2, PickRemembers DEF Qlen, Open, Excused
  <2>2. CASE PostEnd
    <3>1. /\ Pick(txw + 1, {}) /\ Qlen(txw) = 0 /\ UNCHANGED <<ring, tx, doneMap, starved, late>>
      BY <2>2 DEF PostEnd, leftVars
    <3>2. txw # r \/ Qlen(r)' = 0
      BY <3>1 DEF Qlen, Open
    <3>3. QED
      BY <1>0, <3>1, <3>2, PickRemembers DEF Qlen, Open, Excused
  <2>3. QED
    BY <1>0, <1>2, <2>1, <2>2, PostRemembers DEF Worker
\* A step of the counts, the messages or the caller that deletes
<1>3. ASSUME UNCHANGED <<mapVars, tx, txw>>, ring'[r] = ring[r], InFlight(r)' = InFlight(r)
      PROVE  Remembered(r)'
  BY <1>0, <1>3, Aside DEF mapVars, turnVars, leftVars, Excused, Pledged
<1>4. CASE UNCHANGED <<ring, com, mapVars, tx, txw>>
  BY <1>3, <1>4 DEF InFlight
<1>5. ASSUME NEW s \in Ring, Remove(s), UNCHANGED <<turnVars, txw>>,
             com' \in {com, Freed(com, s), Freed(Forgotten(s), s)}
      PROVE  Remembered(r)'
  <2>1. InFlight(r)' = InFlight(r)
    <3>1. CASE com' \in {com, Freed(com, s)}
      BY <1>0, <3>1, FreedType DEF InFlight
    <3>2. CASE com' = Freed(Forgotten(s), s)
      <4>1. PICK c \in [Ring -> Commons] :
              c = Forgotten(s) /\ c[r].vis = com[r].vis /\ c[r].dn = com[r].dn
        BY ForgottenType
      <4>2. Freed(c, s)[r].vis = c[r].vis /\ Freed(c, s)[r].dn = c[r].dn
        BY FreedType
      <4>3. QED
        BY <3>2, <4>1, <4>2 DEF InFlight
    <3>3. QED
      BY <1>5, <3>1, <3>2
  <2>2. QED
    BY <1>0, <1>5, <2>1, RemoveRemembers
<1>6. CASE Creation
  <2>1. CASE Create
    <3>1. UNCHANGED <<ring, mapVars, tx, txw>>
          /\ (com' = com \/ com' = [com EXCEPT ![Head(crq)].dma = TRUE])
      BY <2>1 DEF Create
    <3>2. com'[r].vis = com[r].vis /\ com'[r].dn = com[r].dn
      BY <1>0, <3>1 DEF Commons
    <3>3. QED
      BY <1>3, <3>1, <3>2 DEF InFlight
  <2>2. CASE CreateFails \/ CreateUnsent
    BY <1>5, <2>2, CreatingType DEF CreateFails, CreateUnsent, Failing
  <2>3. QED
    BY <1>6, <2>1, <2>2 DEF Creation
<1>7. CASE Firmware
  <2>1. ASSUME NEW s \in Ring, FwComplete(s) PROVE Remembered(r)'
    <3>1. UNCHANGED <<ring, mapVars, tx, txw>>
      BY <2>1 DEF FwComplete
    <3>2. InFlight(r)' = InFlight(r)
      <4>1. CASE r = s
        BY <1>0, <2>1, <4>1, FwCompleteEffect DEF InFlight, Commons
      <4>2. CASE r # s
        BY <2>1, <4>2, FwCompleteEffect DEF InFlight
      <4>3. QED
        BY <4>1, <4>2
    <3>3. QED
      BY <1>3, <3>1, <3>2
  <2>2. CASE FwControl
    BY <1>3, <2>2, FwControlEffect DEF FwControl, InFlight
  <2>3. QED
    BY <1>7, <2>1, <2>2 DEF Firmware
<1>8. ASSUME NEW s \in Ring, TxStatus(s) PROVE Remembered(r)'
  <2>1. /\ com' = [com EXCEPT ![s].dn = @ - 1, ![s].out = @ - 1]
        /\ doneMap' = doneMap \cup {s} /\ UNCHANGED <<ring, flowMap, leftVars, tx, txw>>
    BY <1>8 DEF TxStatus, Completed
  <2>2. CASE r = s
    BY <2>1, <2>2 DEF Remembered, Idle
  <2>3. CASE r # s
    BY <1>0, <2>1, <2>3, Aside DEF InFlight, Excused, Pledged, leftVars
  <2>4. QED
    BY <2>2, <2>3
<1>9. CASE Interrupt
  BY <1>0, <1>4, <1>8, <1>9, AnswerRemembers, TriggerRemembers DEF Interrupt, RxTxEmpty, RxCtlEmpty
<1>10. CASE OpClose
  <2>1. /\ op.r \in Ring /\ ring' = [ring EXCEPT ![op.r].status = "closing"]
        /\ UNCHANGED <<com, mapVars, tx, txw>>
    BY <1>10 DEF OpClose, OpAt, AtRing
  <2>2. CASE r = op.r
    <3>1. ring'[r].status = "closing"
      BY <2>1, <2>2 DEF TypeOK, Rings
    <3>2. QED
      BY <3>1 DEF Remembered, Qlen, Open
  <2>3. CASE r # op.r
    BY <1>3, <2>1, <2>3 DEF TypeOK, InFlight
  <2>4. QED
    BY <2>2, <2>3
<1>11. CASE OpSubmit \/ OpUnsent
  <2>1. op.r \in Ring
    BY <1>11 DEF OpSubmit, OpUnsent, Waited, OpAt, AtRing
  <2>2. CASE OpSubmit
    <3>1. com'[r].vis = com[r].vis /\ com'[r].dn = com[r].dn
      BY <1>0, <2>1, <2>2, ForgottenType DEF OpSubmit
    <3>2. QED
      BY <1>3, <2>2, <3>1 DEF OpSubmit, InFlight
  <2>3. CASE OpUnsent
    BY <1>5, <2>1, <2>3 DEF OpUnsent
  <2>4. QED
    BY <1>11, <2>2, <2>3
<1>12. CASE Deletion
  BY <1>4, <1>10, <1>11, <1>12 DEF Deletion, OpLook, OpTest, OpEnd
<1>13. CASE \/ UNCHANGED vars
            \/ \E i \in If, a \in Da : DeletePeer(i, a)
            \/ \E i \in If : ConfigureAddrMode(i)
            \/ \E i \in If, a \in Da : AddTdlsPeer(i, a)
  BY <1>4, <1>13 DEF DeletePeer, ConfigureAddrMode, AddTdlsPeer, vars
<1>14. QED
  BY <1>1, <1>2, <1>6, <1>7, <1>9, <1>12, <1>13 DEF Next

(* Nobody forgets a queued packet of an open ring, for any rings and         *)
(* thresholds: its ring is on a map, in a thread's hands, or has packets in  *)
(* flight whose completions will schedule it again; or the worker got no     *)
(* packet id or mapping for it with nothing in flight, or it was the ring's  *)
(* first and the ring's creation had been answered before it was queued.     *)
THEOREM NoPacketForgotten == Spec => []NoStranded
<1>1. Init => NeverOvercounted /\ NoStranded
  BY DEF Init, NeverOvercounted, InFlight, NoStranded, NoRing, Qlen, Open
<1>2. TypeOK /\ AtRing /\ NeverOvercounted /\ NoStranded /\ [Next]_vars
        => NeverOvercounted' /\ NoStranded'
  BY CountedStep, RememberedStep
<1>3. QED
  BY <1>1, <1>2, TypeCorrect, PTL DEF Spec
=============================================================================
