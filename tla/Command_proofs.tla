--------------------------- MODULE Command_proofs ---------------------------
(***************************************************************************)
(* Proofs about module Command, for any sizes and any number of commands,  *)
(* timeouts and refused buffers.                                           *)
(***************************************************************************)
EXTENDS Command, FiniteSetTheorems, TLAPS

(* The answers.  Commands are read, and their answers taken, in the order    *)
(* they were sent, so what is not answered yet is younger than the last      *)
(* answer.                                                                   *)
Asked(k)    == ctl[k].m = "ioctl"
Answered(k) == rsp[k].m = "answer"

InOrder ==
  /\ answer.t <= reqid
  /\ \A k \in 1..Len(rsp) : Answered(k) => answer.t < rsp[k].t /\ rsp[k].t <= reqid
  /\ \A k \in 1..Len(ctl) : Asked(k) => answer.t < ctl[k].t /\ ctl[k].t <= reqid
  /\ \A j, k \in 1..Len(rsp) : j < k /\ Answered(j) /\ Answered(k) => rsp[j].t < rsp[k].t
  /\ \A j, k \in 1..Len(ctl) : j < k /\ Asked(j) /\ Asked(k) => ctl[j].t < ctl[k].t
  /\ \A j \in 1..Len(rsp), k \in 1..Len(ctl) : Answered(j) /\ Asked(k) => rsp[j].t < ctl[k].t

\* What the asker has not been given: commands, and the buffer of an answer.
Waits     == IF cmd = "waiting" THEN 1 ELSE 0
Unread    == IF answer.unread THEN 1 ELSE 0
Owed      == IF cmd = "waiting" /\ ~completed THEN 1 ELSE 0

SlipInv ==
  /\ slip >= 0 /\ slip <= late.cmd
  /\ reqid - answer.t <= late.cmd + Owed
  /\ cmd = "waiting" => answer.unread \/ ~completed
  /\ cmd = "waiting" /\ ~completed => answer.t < reqid

\* The buffers.
CountsAgree ==
  /\ post["resp"] = fw.has["resp"] + Count(ctl, "resp") + Count(rsp, "answer")
  /\ post["event"] = fw.has["event"] + Count(ctl, "event") + Count(rsp, "event")
  /\ post["data"] = fw.has["data"] + rxc

LostInv == Lost >= 0 /\ Lost + Unread + (reqid - answer.t) <= late.cmd + Waits

-----------------------------------------------------------------------------
(* The device's sleep, until a suspension is given up.  A D3 message or its  *)
(* acknowledgement is under way once, for the suspension at hand; a wake-up  *)
(* comes before the D3 that follows it.                                      *)
None(s, m) == \A k \in 1..Len(s) : s[k].m # m

Asleep == ~fw.awake /\ None(ctl, "d0") /\ None(ctl, "d3") /\ None(rsp, "d3ack")

HostKnows == (dev <=> sus # "asleep") /\ (bus <=> sus = "no")

InformOnce ==
  \A k \in 1..Len(ctl) : ctl[k].m = "d3" =>
    /\ sus = "informed" /\ ~mbdata /\ None(rsp, "d3ack")
    /\ \A j \in 1..Len(ctl) : j # k => ctl[j].m # "d3"
    /\ \A j \in 1..Len(ctl) : ctl[j].m = "d0" => j < k

AckOnce ==
  \A k \in 1..Len(rsp) : rsp[k].m = "d3ack" =>
    /\ sus = "informed" /\ ~mbdata /\ ~fw.awake /\ None(ctl, "d0") /\ None(ctl, "d3")
    /\ \A j \in 1..Len(rsp) : j # k => rsp[j].m # "d3ack"

AckTrue == sus = "asleep" \/ (sus = "informed" /\ mbdata) => Asleep

ToldToWake == sus = "no" => fw.awake \/ Contains(ctl, Msg("d0", 0))

Agreed   == HostKnows /\ InformOnce /\ AckOnce /\ AckTrue /\ ToldToWake
SleepInv == late.sus = 0 => Agreed

IInv == TypeOK /\ InOrder /\ SlipInv /\ CountsAgree /\ LostInv /\ Fed /\ SleepInv

-----------------------------------------------------------------------------
(* Counting the messages of a kind in a sequence.                            *)
Places(s, m) == {i \in DOMAIN s : s[i].m = m}

\* Of n messages of kind k, those of kind m.
OfKind(m, k, n) == IF k = m THEN n ELSE 0

LEMMA CountIsNat ==
  ASSUME NEW S, NEW s \in Seq(S), NEW m
  PROVE  /\ Places(s, m) \subseteq 1..Len(s) /\ IsFiniteSet(Places(s, m))
         /\ Count(s, m) = Cardinality(Places(s, m)) /\ Count(s, m) \in Nat
<1>1. Places(s, m) \in SUBSET (1..Len(s)) /\ Len(s) \in Nat
  BY DEF Places
<1>2. IsFiniteSet(Places(s, m))
  <2>1. IsFiniteSet(1 .. Len(s))
    BY <1>1, FS_Interval
  <2>2. QED
    BY <1>1, <2>1, FS_Subset, Zenon
<1>3. QED
  BY <1>1, <1>2, FS_CardinalityType DEF Count, Places

LEMMA CountConcat ==
  ASSUME NEW S, NEW s \in Seq(S), NEW u \in Seq(S), NEW k, NEW m,
         \A i \in 1..Len(u) : u[i].m = k
  PROVE  Count(s \o u, m) = Count(s, m) + OfKind(m, k, Len(u))
<1> DEFINE t == s \o u
           New == IF k = m THEN Len(s) + 1 .. Len(s) + Len(u) ELSE {}
<1>1. /\ t \in Seq(S) /\ Len(s) \in Nat /\ Len(u) \in Nat /\ Len(t) = Len(s) + Len(u)
      /\ \A i \in 1..Len(t) : t[i] = IF i <= Len(s) THEN s[i] ELSE u[i - Len(s)]
  OBVIOUS
<1>2. Places(t, m) = Places(s, m) \cup New
  <2>1. DOMAIN t = 1..Len(t) /\ DOMAIN s = 1..Len(s)
    BY <1>1
  <2>2. \A i \in 1..Len(t) : i > Len(s) => i - Len(s) \in 1..Len(u)
    BY <1>1
  <2>3. \A i \in 1..Len(t) : t[i].m = m <=> i \in Places(s, m) \/ i \in New
    BY <1>1, <2>1, <2>2 DEF Places
  <2> HIDE DEF t
  <2>4. \A i \in Places(s, m) \cup New : i \in 1..Len(t)
    BY <1>1, <2>1 DEF Places
  <2> HIDE DEF New
  <2>5. QED
    BY <2>1, <2>3, <2>4 DEF Places
<1>3. Places(s, m) \cap New = {}
  BY <1>1, CountIsNat
<1>4. IsFiniteSet(New) /\ Cardinality(New) = IF k = m THEN Len(u) ELSE 0
  <2>1. LET a == Len(s) + 1  b == Len(s) + Len(u) IN
          IsFiniteSet(a .. b) /\ Cardinality(a .. b) = IF a > b THEN 0 ELSE b - a + 1
    <3> DEFINE a == Len(s) + 1
               b == Len(s) + Len(u)
    <3>1. a \in Int /\ b \in Int
      BY <1>1
    <3> HIDE DEF a, b
    <3>2. IsFiniteSet(a .. b) /\ Cardinality(a .. b) = IF a > b THEN 0 ELSE b - a + 1
      BY <3>1, FS_Interval, Zenon
    <3>3. QED
      BY <3>2 DEF a, b
  <2>2. QED
    BY <1>1, <2>1, FS_EmptySet
<1> HIDE DEF New, t
<1>5. Cardinality(Places(s, m) \cup New) = Cardinality(Places(s, m)) + Cardinality(New)
  <2>1. IsFiniteSet(Places(s, m))
    BY CountIsNat
  <2>2. Cardinality(Places(s, m) \cap New) = 0
    BY <1>3, FS_EmptySet
  <2>3. Cardinality(Places(s, m)) \in Nat /\ Cardinality(New) \in Nat
    BY <1>4, <2>1, FS_CardinalityType
  <2>4. Cardinality(Places(s, m) \cup New)
          = Cardinality(Places(s, m)) + Cardinality(New) - Cardinality(Places(s, m) \cap New)
    BY <1>4, <2>1, FS_Union, Zenon
  <2>5. QED
    BY <2>2, <2>3, <2>4
<1>6. QED
  BY <1>1, <1>2, <1>4, <1>5, CountIsNat DEF t, OfKind

LEMMA CountAppend ==
  ASSUME NEW S, NEW s \in Seq(S), NEW e \in S, NEW m
  PROVE  Count(Append(s, e), m) = Count(s, m) + OfKind(m, e.m, 1)
<1>1. PICK u \in Seq(S) : u = <<e>>
  <2>1. <<e>> \in Seq(S)
    OBVIOUS
  <2>2. QED
    BY <2>1, Zenon
<1>2. Len(u) = 1 /\ Append(s, e) = s \o u /\ \A i \in 1..Len(u) : u[i].m = e.m
  BY <1>1
<1>3. Count(s \o u, m) = Count(s, m) + OfKind(m, e.m, Len(u))
  BY <1>2, CountConcat, ZenonT(40)
<1>4. QED
  BY <1>2, <1>3

LEMMA CountTail ==
  ASSUME NEW S, NEW s \in Seq(S), s # <<>>, NEW m
  PROVE  Count(Tail(s), m) = Count(s, m) - OfKind(m, Head(s).m, 1)
<1> DEFINE t == Tail(s)
           f == [i \in Places(t, m) |-> i + 1]
           Rest == Places(s, m) \ {1}
<1>1. /\ t \in Seq(S) /\ Len(s) \in Nat \ {0} /\ Len(t) = Len(s) - 1 /\ Head(s) = s[1]
      /\ \A i \in 1..Len(t) : t[i] = s[i + 1]
      /\ DOMAIN s = 1..Len(s) /\ DOMAIN t = 1..Len(t)
  OBVIOUS
<1> HIDE DEF t
<1>2. f \in Bijection(Places(t, m), Rest)
  <2>1. \A i \in Places(t, m) : i \in Int /\ f[i] = i + 1 /\ f[i] \in Rest
    BY <1>1 DEF Places
  <2>2. \A j \in Rest : j - 1 \in Places(t, m) /\ f[j - 1] = j
    BY <1>1 DEF Places
  <2>3. f \in [Places(t, m) -> Rest]
    BY <2>1
  <2> HIDE DEF f, Rest
  <2>4. \A i, j \in Places(t, m) : f[i] = f[j] => i = j
    BY <2>1
  <2>5. QED
    BY <2>2, <2>3, <2>4 DEF Bijection, Injection, Surjection, IsInjective
<1>3. Cardinality(Rest) = Cardinality(Places(t, m))
  <2>1. IsFiniteSet(Places(t, m))
    BY <1>1, CountIsNat
  <2>2. QED
    BY <1>2, <2>1, FS_Bijection DEF ExistsBijection
<1>4. Cardinality(Rest) = Cardinality(Places(s, m)) - OfKind(m, Head(s).m, 1)
  <2>1. 1 \in Places(s, m) <=> Head(s).m = m
    BY <1>1 DEF Places
  <2>2. IsFiniteSet(Places(s, m)) /\ Cardinality(Places(s, m)) \in Nat
    BY CountIsNat
  <2>3. Cardinality(Rest) = IF 1 \in Places(s, m) THEN Cardinality(Places(s, m)) - 1
                            ELSE Cardinality(Places(s, m))
    BY <2>2, FS_RemoveElement, Zenon
  <2>4. QED
    BY <2>1, <2>2, <2>3 DEF OfKind
<1>5. QED
  BY <1>1, <1>3, <1>4, CountIsNat DEF t

-----------------------------------------------------------------------------
(* What a step does to the two rings: it adds n messages of one kind at the  *)
(* end, or takes the first.                                                  *)
Grows(k, n) ==
  /\ ctl' \in Seq(CtlMsgs) /\ Len(ctl') = Len(ctl) + n
  /\ \A i \in 1..Len(ctl) : ctl'[i] = ctl[i]
  /\ \A i \in 1..Len(ctl') : i > Len(ctl) => ctl'[i].m = k
  /\ hidden' \in 0..Len(ctl')
  /\ \A m : Count(ctl', m) = Count(ctl, m) + OfKind(m, k, n)

LEMMA WriteGrows ==
  ASSUME TypeOK, NEW u \in Seq(CtlMsgs), NEW k, \A i \in 1..Len(u) : u[i].m = k,
         ctl' = ctl \o u, hidden' \in {0, hidden, hidden + Len(u)}
  PROVE  Grows(k, Len(u)) /\ \A i \in 1..Len(u) : ctl'[Len(ctl) + i] = u[i]
<1>1. ctl \in Seq(CtlMsgs) /\ hidden \in 0..Len(ctl) /\ Len(ctl) \in Nat /\ Len(u) \in Nat
  BY DEF TypeOK
<1>2. /\ ctl' \in Seq(CtlMsgs) /\ Len(ctl') = Len(ctl) + Len(u)
      /\ \A i \in 1..Len(ctl) : ctl'[i] = ctl[i]
      /\ \A i \in 1..Len(ctl') : i > Len(ctl) => i - Len(ctl) \in 1..Len(u) /\ ctl'[i] = u[i - Len(ctl)]
      /\ \A i \in 1..Len(u) : ctl'[Len(ctl) + i] = u[i]
  BY <1>1
<1>3. ASSUME NEW m PROVE Count(ctl', m) = Count(ctl, m) + OfKind(m, k, Len(u))
  <2> ctl \in Seq(CtlMsgs)
    BY <1>1
  <2>1. Count(ctl \o u, m) = Count(ctl, m) + OfKind(m, k, Len(u))
    BY CountConcat, ZenonT(40)
  <2>2. QED
    BY <2>1
<1>4. hidden' \in 0..Len(ctl')
  BY <1>1, <1>2
<1>5. QED
  BY <1>2, <1>3, <1>4 DEF Grows

LEMMA OneGrows ==
  ASSUME TypeOK, NEW e \in CtlMsgs, ctl' = ctl \o <<e>>, hidden' \in {0, hidden, hidden + 1}
  PROVE  Grows(e.m, 1) /\ ctl'[Len(ctl) + 1] = e
<1>1. /\ <<e>> \in Seq(CtlMsgs) /\ Len(<<e>>) = 1 /\ 1 \in 1..Len(<<e>>) /\ <<e>>[1] = e
      /\ \A i \in 1..Len(<<e>>) : <<e>>[i].m = e.m
  OBVIOUS
<1> DEFINE u == <<e>>
<1> HIDE DEF u
<1>2. Grows(e.m, Len(u)) /\ \A i \in 1..Len(u) : ctl'[Len(ctl) + i] = u[i]
  <2>1. \A i \in 1..Len(u) : u[i].m = e.m
    BY <1>1 DEF u
  <2>2. u \in Seq(CtlMsgs) /\ ctl' = ctl \o u /\ hidden' \in {0, hidden, hidden + Len(u)}
    BY <1>1 DEF u
  <2>3. QED
    BY <2>1, <2>2, WriteGrows
<1>3. QED
  BY <1>1, <1>2 DEF u

\* The answers of a posting: at least one buffer was out, and it came back.
LEMMA PostGrows ==
  ASSUME TypeOK, NEW k \in {"resp", "event"}, CtrlPost(k), post[k] >= 1
  PROVE  \E n \in Nat :
           /\ Grows(k, n)
           /\ post' = [post EXCEPT ![k] = @ - 1 + n] /\ post' \in [Kinds -> Nat]
           /\ post'[k] = post[k] - 1 + n /\ \A j \in Kinds \ {k} : post'[j] = post[j]
           /\ ids' = ids - (IF k = "event" THEN 1 ELSE 0) + n
           /\ refused' \in Nat /\ refused' >= refused
<1>1. post[k] \in Nat /\ Missing(k) \in Int /\ k \in Kinds /\ refused \in Nat
  <2>1. MaxResp \in Nat /\ MaxEvent \in Nat
    BY Sizes
  <2>2. k \in Kinds /\ post[k] \in Nat /\ refused \in Nat
    BY DEF TypeOK, Kinds
  <2>3. MaxOf[k] \in Nat
    BY <2>1 DEF MaxOf
  <2>4. QED
    BY <2>2, <2>3 DEF Missing
<1>2. PICK n \in 0..Missing(k) :
        /\ refused' = IF n = 0 /\ Room > 0 THEN refused + 1 ELSE refused
        /\ post' = [post EXCEPT ![k] = @ - 1 + n]
        /\ ids' = ids - (IF k = "event" THEN 1 ELSE 0) + n
        /\ Write([i \in 1..n |-> Msg(k, 0)])
  BY DEF CtrlPost, Posted
<1> DEFINE u == [i \in 1..n |-> Msg(k, 0)]
<1>3. n \in Nat
  BY <1>1
<1>4. Msg(k, 0) \in CtlMsgs /\ Msg(k, 0).m = k
  BY DEF Msg, CtlMsgs
<1>5. /\ u \in Seq(CtlMsgs) /\ Len(u) = n
      /\ \A i \in 1..Len(u) : u[i].m = k
  BY <1>3, <1>4
<1>6. Grows(k, n)
  <2>1. ctl' = ctl \o u /\ hidden' \in {0, hidden, hidden + Len(u)}
    BY <1>2 DEF Write
  <2> HIDE DEF u
  <2>2. QED
    BY <1>5, <2>1, WriteGrows
<1>7. post' \in [Kinds -> Nat] /\ post'[k] = post[k] - 1 + n /\ \A j \in Kinds \ {k} : post'[j] = post[j]
  BY <1>1, <1>2, <1>3 DEF TypeOK
<1>8. refused' \in Nat /\ refused' >= refused
  BY <1>1, <1>2
<1>9. QED
  <2> WITNESS n \in Nat
  <2>1. QED
    BY <1>2, <1>6, <1>7, <1>8

Takes(m) ==
  /\ rsp # <<>> /\ rsp' \in Seq(RspMsgs) /\ Len(rsp') = Len(rsp) - 1
  /\ rsp[1] \in RspMsgs /\ rsp[1] = Head(rsp) /\ rsp[1].m = m /\ Len(rsp) >= 1
  /\ \A i \in 1..Len(rsp') : rsp'[i] = rsp[i + 1]
  /\ \A x : Count(rsp', x) = Count(rsp, x) - OfKind(x, m, 1)
  /\ \A x : Count(rsp, x) \in Nat /\ Count(rsp', x) \in Nat

LEMMA RxTakes == ASSUME TypeOK, NEW m, Rx(m) PROVE Takes(m)
<1>1. rsp \in Seq(RspMsgs) /\ rsp # <<>> /\ Head(rsp).m = m /\ rsp' = Tail(rsp)
  BY DEF TypeOK, Rx
<1>2. /\ rsp' \in Seq(RspMsgs) /\ Len(rsp') = Len(rsp) - 1
      /\ rsp[1] \in RspMsgs /\ rsp[1] = Head(rsp) /\ Len(rsp) >= 1
      /\ \A i \in 1..Len(rsp') : rsp'[i] = rsp[i + 1]
  BY <1>1
<1>3. \A x : Count(rsp', x) = Count(rsp, x) - OfKind(x, m, 1)
  BY <1>1, CountTail, Zenon
<1>4. \A x : Count(rsp, x) \in Nat /\ Count(rsp', x) \in Nat
  BY <1>1, <1>2, CountIsNat
<1>5. QED
  BY <1>1, <1>2, <1>3, <1>4 DEF Takes

Says(m, t) ==
  /\ rsp' \in Seq(RspMsgs) /\ Len(rsp') = Len(rsp) + 1
  /\ \A i \in 1..Len(rsp) : rsp'[i] = rsp[i]
  /\ rsp'[Len(rsp) + 1] = Msg(m, t)
  /\ \A x : Count(rsp', x) = Count(rsp, x) + OfKind(x, m, 1)

LEMMA FwSays ==
  ASSUME TypeOK, NEW m \in {"answer", "event", "d3ack", "ds"}, NEW t \in Nat,
         rsp' = Append(rsp, Msg(m, t))
  PROVE  Says(m, t)
<1> DEFINE e == Msg(m, t)
<1>1. rsp \in Seq(RspMsgs) /\ e \in RspMsgs /\ e.m = m
  BY DEF TypeOK, RspMsgs, Msg
<1>2. rsp' = Append(rsp, e)
  OBVIOUS
<1> HIDE DEF e
<1>3. /\ rsp' \in Seq(RspMsgs) /\ Len(rsp') = Len(rsp) + 1
      /\ \A i \in 1..Len(rsp) : rsp'[i] = rsp[i]
      /\ rsp'[Len(rsp) + 1] = e
  BY <1>1, <1>2
<1>4. \A x : Count(rsp', x) = Count(rsp, x) + OfKind(x, m, 1)
  <2>1. \A x : Count(Append(rsp, e), x) = Count(rsp, x) + OfKind(x, e.m, 1)
    BY <1>1, CountAppend, Zenon
  <2>2. QED
    BY <1>1, <1>2, <2>1
<1>5. QED
  BY <1>3, <1>4 DEF Says, e

\* The firmware reads the first message of the control ring.
Reads ==
  /\ ctl # <<>> /\ ctl' \in Seq(CtlMsgs) /\ Len(ctl') = Len(ctl) - 1 /\ Len(ctl) >= 1
  /\ ctl[1] \in CtlMsgs /\ ctl[1] = Head(ctl)
  /\ hidden' \in 0..Len(ctl')
  /\ \A i \in 1..Len(ctl') : ctl'[i] = ctl[i + 1]
  /\ \A x : Count(ctl', x) = Count(ctl, x) - OfKind(x, ctl[1].m, 1)
  /\ \A x : Count(ctl, x) \in Nat /\ Count(ctl', x) \in Nat

LEMMA FwReads == ASSUME TypeOK, FwRead PROVE Reads
<1>1. ctl \in Seq(CtlMsgs) /\ hidden \in 0..Len(ctl) /\ Len(ctl) \in Nat
  BY DEF TypeOK
<1>2. hidden < Len(ctl)
  <2>1. Shown # <<>>
    BY DEF FwRead
  <2>2. CASE hidden = Len(ctl)
    BY <1>1, <2>1, <2>2 DEF Shown
  <2>3. QED
    BY <1>1, <2>2
<1>3. ctl # <<>> /\ ctl' = Tail(ctl) /\ hidden' = hidden
  BY <1>1, <1>2 DEF FwRead
<1>4. /\ ctl' \in Seq(CtlMsgs) /\ Len(ctl') = Len(ctl) - 1 /\ Len(ctl) >= 1
      /\ ctl[1] \in CtlMsgs /\ ctl[1] = Head(ctl)
      /\ \A i \in 1..Len(ctl') : ctl'[i] = ctl[i + 1]
  BY <1>1, <1>3
<1>5. \A x : Count(ctl', x) = Count(ctl, x) - OfKind(x, ctl[1].m, 1)
  <2>1. \A x : Count(Tail(ctl), x) = Count(ctl, x) - OfKind(x, Head(ctl).m, 1)
    BY <1>1, <1>3, CountTail, Zenon
  <2>2. QED
    BY <1>3, <1>4, <2>1
<1>6. \A x : Count(ctl, x) \in Nat /\ Count(ctl', x) \in Nat
  BY <1>1, <1>4, CountIsNat
<1>7. QED
  BY <1>1, <1>2, <1>3, <1>4, <1>5, <1>6 DEF Reads

-----------------------------------------------------------------------------
(* Types and counts.                                                         *)
Typed == TypeOK /\ CountsAgree /\ LostInv

LEMMA Grown == ASSUME TypeOK, NEW k, NEW n \in Nat, Grows(k, n)
  PROVE  /\ ctl' \in Seq(CtlMsgs) /\ hidden' \in 0..Len(ctl')
         /\ Count(ctl, "resp") \in Nat /\ Count(ctl, "event") \in Nat
         /\ k \notin {"resp", "event"} =>
              Count(ctl', "resp") = Count(ctl, "resp") /\ Count(ctl', "event") = Count(ctl, "event")
         /\ k = "resp" => /\ Count(ctl', "resp") = Count(ctl, "resp") + n
                          /\ Count(ctl', "event") = Count(ctl, "event")
         /\ k = "event" => /\ Count(ctl', "resp") = Count(ctl, "resp")
                           /\ Count(ctl', "event") = Count(ctl, "event") + n
<1>1. \A m : Count(ctl, m) \in Nat
  BY CountIsNat, Zenon DEF TypeOK
<1>2. QED
  BY <1>1 DEF Grows, OfKind

LEMMA TakenCounts == ASSUME TypeOK, NEW m, Takes(m)
  PROVE  /\ m = "answer" => /\ Count(rsp', "answer") = Count(rsp, "answer") - 1
                            /\ Count(rsp', "event") = Count(rsp, "event")
         /\ m = "event" => /\ Count(rsp', "answer") = Count(rsp, "answer")
                           /\ Count(rsp', "event") = Count(rsp, "event") - 1
<1>1. /\ Count(rsp, "answer") \in Nat /\ Count(rsp, "event") \in Nat
      /\ Count(rsp', "answer") = Count(rsp, "answer") - OfKind("answer", m, 1)
      /\ Count(rsp', "event") = Count(rsp, "event") - OfKind("event", m, 1)
  BY DEF Takes
<1>2. QED
  BY <1>1 DEF OfKind

LEMMA Numbers ==
  ASSUME TypeOK
  PROVE  /\ reqid \in Nat /\ ids \in Nat /\ slip \in Int /\ rxc \in Nat /\ refused \in Nat
         /\ late \in [cmd : Nat, sus : Nat] /\ late.cmd \in Nat /\ late.sus \in Nat
         /\ answer \in [t : Nat, unread : BOOLEAN] /\ answer.t \in Nat /\ answer.unread \in BOOLEAN
         /\ post \in [Kinds -> Nat]
         /\ post["resp"] \in Nat /\ post["event"] \in Nat /\ post["data"] \in Nat
         /\ fw \in [has : [Kinds -> Nat], awake : BOOLEAN]
         /\ fw.has["resp"] \in Nat /\ fw.has["event"] \in Nat /\ fw.has["data"] \in Nat
         /\ \A m : Count(rsp, m) \in Nat /\ Count(ctl, m) \in Nat
<1>1. \A m : Count(rsp, m) \in Nat
  BY CountIsNat, Zenon DEF TypeOK
<1>2. \A m : Count(ctl, m) \in Nat
  BY CountIsNat, Zenon DEF TypeOK
<1>3. QED
  BY <1>1, <1>2 DEF TypeOK, Kinds

LEMMA ReadUpdate ==
  ASSUME NEW a \in [t : Nat, unread : BOOLEAN], NEW b \in BOOLEAN
  PROVE  [a EXCEPT !.unread = b] \in [t : Nat, unread : BOOLEAN]
OBVIOUS

LEMMA CallerType == ASSUME Typed, Caller PROVE TypeOK' /\ CountsAgree'
<1>1. CASE CmdCheck
  BY <1>1 DEF CmdCheck, Typed, TypeOK, CountsAgree, bufVars, ringVars, susVars
<1>2. CASE CmdSend
  <2> DEFINE e == Msg("ioctl", reqid + 1)
  <2>1. e \in CtlMsgs /\ e.m = "ioctl"
    BY DEF Msg, CtlMsgs, Typed, TypeOK
  <2>2. ctl' = ctl \o <<e>> /\ hidden' \in {0, hidden, hidden + 1}
    BY <1>2 DEF CmdSend, Write
  <2>3. TypeOK
    BY DEF Typed
  <2> HIDE DEF e
  <2>4. Grows("ioctl", 1)
    BY <2>1, <2>2, <2>3, OneGrows
  <2>5. late' \in [cmd : Nat, sus : Nat] /\ reqid' \in Nat /\ cmd' \in {"none", "waiting"}
        /\ completed' = FALSE
    BY <1>2, <2>3, Numbers DEF CmdSend, Armed
  <2>6. /\ ctl' \in Seq(CtlMsgs) /\ hidden' \in 0..Len(ctl')
        /\ Count(ctl', "resp") = Count(ctl, "resp") /\ Count(ctl', "event") = Count(ctl, "event")
    BY <2>3, <2>4, Grown
  <2>7. UNCHANGED <<slip, answer, post, ids, refused, rsp, rxc, fw, bus, dev, sus, mbdata>>
    BY <1>2 DEF CmdSend, bufVars, susVars
  <2>8. TypeOK'
    BY <2>3, <2>5, <2>6, <2>7 DEF TypeOK
  <2>9. CountsAgree'
    BY <2>6, <2>7 DEF Typed, CountsAgree
  <2>10. QED
    BY <2>8, <2>9
<1>3. CASE CmdNoRoom
  BY <1>3 DEF CmdNoRoom, Armed, Typed, TypeOK, CountsAgree, bufVars, ringVars, susVars
<1>4. CASE CmdTake
  <2>1. ids' \in Nat
    BY <1>4, Numbers DEF CmdTake, Taken, Typed, LostInv, Lost
  <2>2. answer' \in [t : Nat, unread : BOOLEAN] /\ slip' \in Int
    <3>1. answer \in [t : Nat, unread : BOOLEAN] /\ reqid \in Nat /\ answer.t \in Nat
      BY Numbers DEF Typed
    <3>2. slip' = reqid - answer.t /\ answer' = [answer EXCEPT !.unread = FALSE]
      BY <1>4 DEF CmdTake
    <3>3. slip' \in Int
      BY <3>1, <3>2
    <3>4. QED
      BY <3>1, <3>2, <3>3, ReadUpdate
  <2>3. QED
    BY <1>4, <2>1, <2>2 DEF CmdTake, Typed, TypeOK, CountsAgree, ringVars, susVars
<1>5. CASE CmdTimeout
  <2>1. late' \in [cmd : Nat, sus : Nat]
    BY <1>5, Numbers DEF CmdTimeout, Typed
  <2>2. QED
    BY <1>5, <2>1 DEF CmdTimeout, Typed, TypeOK, CountsAgree, bufVars, ringVars, susVars
<1>6. QED
  BY <1>1, <1>2, <1>3, <1>4, <1>5 DEF Caller

LEMMA HasUpdate ==
  ASSUME NEW f \in [has : [Kinds -> Nat], awake : BOOLEAN], NEW k \in Kinds, NEW n \in Nat
  PROVE  /\ [f EXCEPT !.has[k] = n] \in [has : [Kinds -> Nat], awake : BOOLEAN]
         /\ [f EXCEPT !.has[k] = n].awake = f.awake
         /\ [f EXCEPT !.has[k] = n].has[k] = n
         /\ \A j \in Kinds \ {k} : [f EXCEPT !.has[k] = n].has[j] = f.has[j]
OBVIOUS

\* What the firmware's reading of one message does.
LEMMA FwReadEffect ==
  ASSUME TypeOK, FwRead
  PROVE  /\ Reads
         /\ \/ /\ ctl[1].m = "ioctl" /\ fw.has["resp"] > 0 /\ Says("answer", ctl[1].t)
               /\ fw' = [fw EXCEPT !.has["resp"] = fw.has["resp"] - 1]
            \/ /\ ctl[1].m \in {"resp", "event"} /\ rsp' = rsp
               /\ fw' = [fw EXCEPT !.has[ctl[1].m] = fw.has[ctl[1].m] + 1]
            \/ /\ ctl[1].m = "d3" /\ Says("d3ack", 0) /\ fw' = [fw EXCEPT !.awake = FALSE]
            \/ /\ ctl[1].m = "d0" /\ rsp' = rsp /\ fw' = [fw EXCEPT !.awake = TRUE]
            \/ ctl[1].m = "dsack" /\ rsp' = rsp /\ fw' = fw
<1>1. Reads
  BY FwReads
<1>2. ctl[1] = Head(ctl) /\ ctl[1].m \in {"ioctl", "resp", "event", "d3", "d0", "dsack"}
      /\ ctl[1].t \in Nat
  BY <1>1 DEF Reads, CtlMsgs
<1>3. CASE ctl[1].m = "ioctl"
  <2>1. /\ fw.has["resp"] > 0 /\ rsp' = Append(rsp, Msg("answer", ctl[1].t))
        /\ fw' = [fw EXCEPT !.has["resp"] = fw.has["resp"] - 1]
    BY <1>2, <1>3 DEF FwRead
  <2>2. QED
    BY <1>1, <1>2, <1>3, <2>1, FwSays
<1>4. CASE ctl[1].m = "d3"
  <2>1. rsp' = Append(rsp, Msg("d3ack", 0)) /\ fw' = [fw EXCEPT !.awake = FALSE]
    BY <1>2, <1>4 DEF FwRead
  <2>2. QED
    BY <1>1, <1>4, <2>1, FwSays
<1>5. CASE ctl[1].m \in {"resp", "event"}
  BY <1>1, <1>2, <1>5 DEF FwRead
<1>6. CASE ctl[1].m \in {"d0", "dsack"}
  BY <1>1, <1>2, <1>6 DEF FwRead
<1>7. QED
  BY <1>2, <1>3, <1>4, <1>5, <1>6

LEMMA FwReadType == ASSUME Typed, FwRead PROVE TypeOK' /\ CountsAgree'
<1>0. TypeOK /\ CountsAgree /\ fw \in [has : [Kinds -> Nat], awake : BOOLEAN]
  BY DEF Typed, TypeOK
<1>1. Reads
  BY <1>0, FwReadEffect
<1>2. ctl' \in Seq(CtlMsgs) /\ hidden' \in 0..Len(ctl')
  BY <1>1 DEF Reads
<1>3. /\ Count(ctl', "resp") = Count(ctl, "resp") - (IF ctl[1].m = "resp" THEN 1 ELSE 0)
      /\ Count(ctl', "event") = Count(ctl, "event") - (IF ctl[1].m = "event" THEN 1 ELSE 0)
      /\ Count(ctl, "resp") \in Nat /\ Count(ctl, "event") \in Nat
  BY <1>1 DEF Reads, OfKind
<1>4. Count(rsp, "answer") \in Nat /\ Count(rsp, "event") \in Nat
  BY <1>0, Numbers
<1>5. UNCHANGED <<cmd, reqid, completed, slip, answer, post, ids, refused, rxc, bus, dev, sus, mbdata, late>>
  BY DEF FwRead, cmdVars, bufVars, susVars
<1> DEFINE Kept == /\ fw' \in [has : [Kinds -> Nat], awake : BOOLEAN] /\ rsp' \in Seq(RspMsgs)
                   /\ CountsAgree'
<1>10. Kept => TypeOK' /\ CountsAgree'
  BY <1>0, <1>2, <1>5 DEF TypeOK
<1> HIDE DEF Kept
<1>6. CASE ctl[1].m = "ioctl"
  <2>1. fw.has["resp"] > 0 /\ Says("answer", ctl[1].t)
        /\ fw' = [fw EXCEPT !.has["resp"] = fw.has["resp"] - 1]
    BY <1>0, <1>6, FwReadEffect
  <2>2. fw.has["resp"] - 1 \in Nat /\ "resp" \in Kinds
    BY <1>0, <2>1 DEF Kinds
  <2>3. /\ fw' \in [has : [Kinds -> Nat], awake : BOOLEAN]
        /\ fw'.has["resp"] = fw.has["resp"] - 1
        /\ \A j \in Kinds \ {"resp"} : fw'.has[j] = fw.has[j]
    BY <1>0, <2>1, <2>2, HasUpdate
  <2>4. rsp' \in Seq(RspMsgs) /\ Count(rsp', "answer") = Count(rsp, "answer") + 1
        /\ Count(rsp', "event") = Count(rsp, "event")
    BY <1>4, <2>1 DEF Says, OfKind
  <2>5. CountsAgree'
    BY <1>0, <1>3, <1>4, <1>5, <1>6, <2>3, <2>4 DEF CountsAgree, Kinds
  <2>6. QED
    BY <1>10, <2>3, <2>4, <2>5 DEF Kept
<1>7. CASE ctl[1].m \in {"resp", "event"}
  <2> DEFINE k == ctl[1].m
  <2>1. rsp' = rsp /\ fw' = [fw EXCEPT !.has[k] = fw.has[k] + 1]
    BY <1>0, <1>7, FwReadEffect
  <2>2. fw.has[k] + 1 \in Nat /\ k \in Kinds
    BY <1>0, <1>7 DEF Kinds
  <2>3. /\ fw' \in [has : [Kinds -> Nat], awake : BOOLEAN]
        /\ fw'.has[k] = fw.has[k] + 1
        /\ \A j \in Kinds \ {k} : fw'.has[j] = fw.has[j]
    BY <1>0, <2>1, <2>2, HasUpdate
  <2>4. CountsAgree'
    BY <1>0, <1>3, <1>4, <1>5, <1>7, <2>1, <2>3 DEF CountsAgree, Kinds
  <2>5. rsp' \in Seq(RspMsgs)
    BY <1>0, <2>1 DEF TypeOK
  <2>6. QED
    BY <1>10, <2>3, <2>4, <2>5 DEF Kept
<1>8. CASE ctl[1].m \in {"d3", "d0", "dsack"}
  <2>1. \/ Says("d3ack", 0) /\ fw' = [fw EXCEPT !.awake = FALSE]
        \/ rsp' = rsp /\ fw' = [fw EXCEPT !.awake = TRUE]
        \/ rsp' = rsp /\ fw' = fw
    BY <1>0, <1>8, FwReadEffect
  <2>2. fw' \in [has : [Kinds -> Nat], awake : BOOLEAN] /\ fw'.has = fw.has
    BY <1>0, <2>1
  <2>3. rsp' \in Seq(RspMsgs) /\ Count(rsp', "answer") = Count(rsp, "answer")
        /\ Count(rsp', "event") = Count(rsp, "event")
    <3>1. CASE rsp' = rsp
      BY <1>0, <3>1 DEF TypeOK
    <3>2. CASE Says("d3ack", 0)
      BY <1>4, <3>2 DEF Says, OfKind
    <3>3. QED
      BY <2>1, <3>1, <3>2
  <2>4. CountsAgree'
    <3>1. Count(ctl', "resp") = Count(ctl, "resp") /\ Count(ctl', "event") = Count(ctl, "event")
      BY <1>3, <1>8
    <3>2. post' = post /\ rxc' = rxc
      BY <1>5
    <3>3. QED
      BY <1>0, <2>2, <2>3, <3>1, <3>2 DEF CountsAgree
  <2>5. QED
    BY <1>10, <2>2, <2>3, <2>4 DEF Kept
<1>9. QED
  <2>1. ctl[1].m \in {"ioctl", "resp", "event", "d3", "d0", "dsack"}
    BY <1>1 DEF Reads, CtlMsgs
  <2>2. QED
    BY <1>6, <1>7, <1>8, <2>1

\* A firmware that reports, and the interrupt thread that posts anew.
LEMMA FirmwareType == ASSUME Typed, Firmware PROVE TypeOK' /\ CountsAgree'
<1>0. TypeOK /\ CountsAgree
  BY DEF Typed
<1>6. /\ Count(rsp, "answer") \in Nat /\ Count(rsp, "event") \in Nat
      /\ Count(ctl, "resp") \in Nat /\ Count(ctl, "event") \in Nat
  BY <1>0, Numbers
<1>7. fw.has["event"] \in Nat
  BY <1>0, Numbers
<1>1. CASE FwRead
  BY <1>1, FwReadType
<1>2. CASE FwEvent
  <2>1. Says("event", 0)
    BY <1>0, <1>2, FwSays DEF FwEvent
  <2>2. rsp' \in Seq(RspMsgs) /\ Count(rsp', "answer") = Count(rsp, "answer")
        /\ Count(rsp', "event") = Count(rsp, "event") + 1
    BY <1>6, <2>1 DEF Says, OfKind
  <2>3. /\ fw.has["event"] - 1 \in Nat /\ "event" \in Kinds
        /\ fw' = [fw EXCEPT !.has["event"] = fw.has["event"] - 1]
    BY <1>0, <1>2, Numbers DEF FwEvent, Kinds
  <2>4. /\ fw' \in [has : [Kinds -> Nat], awake : BOOLEAN]
        /\ fw'.has["event"] = fw.has["event"] - 1
        /\ fw'.has["resp"] = fw.has["resp"] /\ fw'.has["data"] = fw.has["data"]
    BY <1>0, <2>3, HasUpdate, Numbers DEF Kinds
  <2>5. UNCHANGED <<cmd, reqid, completed, slip, answer, post, ids, refused, ctl, hidden, rxc, bus, dev,
                    sus, mbdata, late>>
    BY <1>2 DEF FwEvent, cmdVars, bufVars, susVars
  <2>6. TypeOK'
    BY <1>0, <2>2, <2>4, <2>5 DEF TypeOK
  <2>7. CountsAgree'
    <3>1. Count(ctl', "resp") = Count(ctl, "resp") /\ Count(ctl', "event") = Count(ctl, "event")
      BY <2>5
    <3>2. post'["event"] = fw'.has["event"] + Count(ctl, "event") + Count(rsp', "event")
      <4>1. post["event"] = fw.has["event"] + Count(ctl, "event") + Count(rsp, "event")
        BY <1>0 DEF CountsAgree
      <4>2. post'["event"] = post["event"] /\ fw'.has["event"] = fw.has["event"] - 1
        BY <2>4, <2>5
      <4>3. Count(rsp', "event") = Count(rsp, "event") + 1
        BY <2>2
      <4>4. QED
        BY <1>6, <1>7, <4>1, <4>2, <4>3
    <3>3. /\ post'["resp"] = fw'.has["resp"] + Count(ctl, "resp") + Count(rsp', "answer")
          /\ post'["data"] = fw'.has["data"] + rxc'
      BY <1>0, <2>2, <2>4, <2>5 DEF CountsAgree
    <3>4. QED
      BY <3>1, <3>2, <3>3 DEF CountsAgree
  <2>8. QED
    BY <2>6, <2>7
<1>3. CASE FwFrame
  <2>1. /\ fw.has["data"] - 1 \in Nat /\ "data" \in Kinds /\ rxc' = rxc + 1 /\ rxc' \in Nat
        /\ fw' = [fw EXCEPT !.has["data"] = fw.has["data"] - 1]
    BY <1>0, <1>3, Numbers DEF FwFrame, Kinds
  <2>2. /\ fw' \in [has : [Kinds -> Nat], awake : BOOLEAN]
        /\ fw'.has["data"] = fw.has["data"] - 1
        /\ fw'.has["resp"] = fw.has["resp"] /\ fw'.has["event"] = fw.has["event"]
    BY <1>0, <2>1, HasUpdate, Numbers DEF Kinds
  <2>3. UNCHANGED <<cmd, reqid, completed, slip, answer, post, ids, refused, ctl, hidden, rsp, bus, dev,
                    sus, mbdata, late>>
    BY <1>3 DEF FwFrame, cmdVars, bufVars, susVars
  <2>4. TypeOK'
    BY <1>0, <2>1, <2>2, <2>3 DEF TypeOK
  <2>5. CountsAgree'
    BY <1>0, <2>1, <2>2, <2>3, Numbers DEF CountsAgree
  <2>6. QED
    BY <2>4, <2>5
<1>4. CASE FwDeepSleep
  <2>1. Says("ds", 0)
    BY <1>0, <1>4, FwSays DEF FwDeepSleep
  <2>2. rsp' \in Seq(RspMsgs) /\ Count(rsp', "answer") = Count(rsp, "answer")
        /\ Count(rsp', "event") = Count(rsp, "event")
    BY <1>6, <2>1 DEF Says, OfKind
  <2>3. UNCHANGED <<cmd, reqid, completed, slip, answer, post, ids, refused, ctl, hidden, rxc, fw, bus, dev,
                    sus, mbdata, late>>
    BY <1>4 DEF FwDeepSleep, cmdVars, bufVars, susVars
  <2>4. TypeOK'
    BY <1>0, <2>2, <2>3 DEF TypeOK
  <2>5. CountsAgree'
    BY <1>0, <2>2, <2>3 DEF CountsAgree
  <2>6. QED
    BY <2>4, <2>5
<1>5. QED
  BY <1>1, <1>2, <1>3, <1>4 DEF Firmware

\* What is left after a step of the interrupt thread that posts buffers of kind k.
LEMMA PostedEffect ==
  ASSUME Typed, NEW k \in {"resp", "event"}, NEW m, m = (IF k = "resp" THEN "answer" ELSE "event"),
         Rx(m), CtrlPost(k)
  PROVE  \E n \in Nat :
           /\ Takes(m) /\ Grows(k, n)
           /\ post' \in [Kinds -> Nat]
           /\ post'[k] = post[k] - 1 + n /\ \A j \in Kinds \ {k} : post'[j] = post[j]
           /\ ids' = ids - (IF k = "event" THEN 1 ELSE 0) + n /\ ids' \in Nat
           /\ refused' \in Nat /\ refused' >= refused
<1>0. TypeOK /\ CountsAgree /\ LostInv
  BY DEF Typed
<1>1. Takes(m)
  BY <1>0, RxTakes
<1>2. Count(rsp, m) >= 1
  BY <1>1 DEF Takes, OfKind
<1>3. post[k] >= 1
  BY <1>0, <1>2, Numbers DEF CountsAgree
<1>4. PICK n \in Nat :
        /\ Grows(k, n)
        /\ post' \in [Kinds -> Nat]
        /\ post'[k] = post[k] - 1 + n /\ \A j \in Kinds \ {k} : post'[j] = post[j]
        /\ ids' = ids - (IF k = "event" THEN 1 ELSE 0) + n
        /\ refused' \in Nat /\ refused' >= refused
  BY <1>0, <1>3, PostGrows
<1>5. ids >= post["event"]
  BY <1>0, Numbers DEF LostInv, Lost
<1>6. ids' \in Nat
  BY <1>0, <1>3, <1>4, <1>5, Numbers
<1>7. QED
  BY <1>1, <1>4, <1>6

LEMMA InterruptType == ASSUME Typed, Interrupt PROVE TypeOK' /\ CountsAgree'
<1>0. TypeOK /\ CountsAgree
  BY DEF Typed
<1>1. /\ Count(rsp, "answer") \in Nat /\ Count(rsp, "event") \in Nat
      /\ Count(ctl, "resp") \in Nat /\ Count(ctl, "event") \in Nat
      /\ fw.has["resp"] \in Nat /\ fw.has["event"] \in Nat /\ fw.has["data"] \in Nat
      /\ post["resp"] \in Nat /\ post["event"] \in Nat /\ post["data"] \in Nat
  BY <1>0, Numbers
<1>2. CASE RxAnswer
  <2>1. PICK n \in Nat :
          /\ Takes("answer") /\ Grows("resp", n) /\ post' \in [Kinds -> Nat]
          /\ post'["resp"] = post["resp"] - 1 + n /\ \A j \in Kinds \ {"resp"} : post'[j] = post[j]
          /\ ids' \in Nat /\ refused' \in Nat
    BY <1>2, PostedEffect DEF RxAnswer
  <2>2. /\ ctl' \in Seq(CtlMsgs) /\ hidden' \in 0..Len(ctl')
        /\ Count(ctl', "resp") = Count(ctl, "resp") + n /\ Count(ctl', "event") = Count(ctl, "event")
    BY <1>0, <2>1, Grown
  <2>3. /\ rsp' \in Seq(RspMsgs) /\ Head(rsp).t \in Nat
        /\ Count(rsp', "answer") = Count(rsp, "answer") - 1 /\ Count(rsp', "event") = Count(rsp, "event")
    BY <1>0, <2>1, TakenCounts DEF Takes, RspMsgs
  <2>4. /\ answer' \in [t : Nat, unread : BOOLEAN] /\ completed' = TRUE
        /\ UNCHANGED <<cmd, reqid, slip, rxc, fw, bus, dev, sus, mbdata, late>>
    BY <1>2, <2>3 DEF RxAnswer, susVars
  <2>5. TypeOK'
    BY <1>0, <2>1, <2>2, <2>3, <2>4 DEF TypeOK
  <2>6. post'["event"] = post["event"] /\ post'["data"] = post["data"]
    BY <2>1 DEF Kinds
  <2>7. CountsAgree'
    <3>1. post["resp"] = fw.has["resp"] + Count(ctl, "resp") + Count(rsp, "answer")
      BY <1>0 DEF CountsAgree
    <3>2. post'["resp"] = fw'.has["resp"] + Count(ctl', "resp") + Count(rsp', "answer")
      <4>1. post'["resp"] = post["resp"] - 1 + n /\ fw'.has["resp"] = fw.has["resp"]
        BY <2>1, <2>4
      <4>2. Count(ctl', "resp") = Count(ctl, "resp") + n /\ Count(rsp', "answer") = Count(rsp, "answer") - 1
        BY <2>2, <2>3
      <4>3. QED
        BY <1>1, <3>1, <4>1, <4>2
    <3>3. /\ post'["event"] = fw'.has["event"] + Count(ctl', "event") + Count(rsp', "event")
          /\ post'["data"] = fw'.has["data"] + rxc'
      BY <1>0, <2>2, <2>3, <2>4, <2>6 DEF CountsAgree
    <3>4. QED
      BY <3>2, <3>3 DEF CountsAgree
  <2>8. QED
    BY <2>5, <2>7
<1>3. CASE RxEvent
  <2>1. PICK n \in Nat :
          /\ Takes("event") /\ Grows("event", n) /\ post' \in [Kinds -> Nat]
          /\ post'["event"] = post["event"] - 1 + n /\ \A j \in Kinds \ {"event"} : post'[j] = post[j]
          /\ ids' \in Nat /\ refused' \in Nat
    BY <1>3, PostedEffect DEF RxEvent
  <2>2. /\ ctl' \in Seq(CtlMsgs) /\ hidden' \in 0..Len(ctl')
        /\ Count(ctl', "event") = Count(ctl, "event") + n /\ Count(ctl', "resp") = Count(ctl, "resp")
    BY <1>0, <2>1, Grown
  <2>3. /\ rsp' \in Seq(RspMsgs)
        /\ Count(rsp', "event") = Count(rsp, "event") - 1 /\ Count(rsp', "answer") = Count(rsp, "answer")
    BY <1>0, <2>1, TakenCounts DEF Takes
  <2>4. UNCHANGED <<cmd, reqid, completed, slip, answer, rxc, fw, bus, dev, sus, mbdata, late>>
    BY <1>3 DEF RxEvent, susVars, cmdVars
  <2>5. TypeOK'
    BY <1>0, <2>1, <2>2, <2>3, <2>4 DEF TypeOK
  <2>6. post'["resp"] = post["resp"] /\ post'["data"] = post["data"]
    BY <2>1 DEF Kinds
  <2>7. CountsAgree'
    <3>1. post["event"] = fw.has["event"] + Count(ctl, "event") + Count(rsp, "event")
      BY <1>0 DEF CountsAgree
    <3>2. post'["event"] = fw'.has["event"] + Count(ctl', "event") + Count(rsp', "event")
      <4>1. post'["event"] = post["event"] - 1 + n /\ fw'.has["event"] = fw.has["event"]
        BY <2>1, <2>4
      <4>2. Count(ctl', "event") = Count(ctl, "event") + n /\ Count(rsp', "event") = Count(rsp, "event") - 1
        BY <2>2, <2>3
      <4>3. QED
        BY <1>1, <3>1, <4>1, <4>2
    <3>3. /\ post'["resp"] = fw'.has["resp"] + Count(ctl', "resp") + Count(rsp', "answer")
          /\ post'["data"] = fw'.has["data"] + rxc'
      BY <1>0, <2>2, <2>3, <2>4, <2>6 DEF CountsAgree
    <3>4. QED
      BY <3>2, <3>3 DEF CountsAgree
  <2>8. QED
    BY <2>5, <2>7
<1>4. CASE RxFrame
  <2>1. PICK n \in Nat :
          /\ post' = [post EXCEPT !["data"] = post["data"] - 1 + n]
          /\ ids' = ids - 1 + n
          /\ fw' = [fw EXCEPT !.has["data"] = fw.has["data"] + n]
          /\ refused' \in {refused, refused + 1}
    <3>1. MaxRx - (post["data"] - 1) \in Int
      BY <1>1, Sizes
    <3>2. PICK n \in IF Low(post["data"] - 1) THEN 0..(MaxRx - (post["data"] - 1)) ELSE {0} :
            /\ post' = [post EXCEPT !["data"] = post["data"] - 1 + n]
            /\ ids' = ids - 1 + n
            /\ fw' = [fw EXCEPT !.has["data"] = fw.has["data"] + n]
            /\ refused' \in {refused, refused + 1}
      BY <1>4 DEF RxFrame
    <3>3. n \in Nat
      BY <3>1, <3>2
    <3>4. QED
      BY <3>2, <3>3
  <2>2. rxc \in Nat /\ rxc > 0 /\ rxc' = rxc - 1 /\ rxc' \in Nat /\ refused' \in Nat
    BY <1>0, <1>4, <2>1, Numbers DEF RxFrame
  <2>3. post["data"] >= 1 /\ ids >= post["data"] /\ "data" \in Kinds
    <3>1. post["data"] >= 1
      BY <1>0, <1>1, <2>2 DEF CountsAgree
    <3>2. ids >= post["data"]
      BY Numbers DEF Typed, LostInv, Lost
    <3>3. QED
      BY <3>1, <3>2 DEF Kinds
  <2>4. ids' \in Nat /\ post["data"] - 1 + n \in Nat /\ fw.has["data"] + n \in Nat
    BY <1>0, <1>1, <2>1, <2>3, Numbers
  <2>5. /\ fw' \in [has : [Kinds -> Nat], awake : BOOLEAN]
        /\ fw'.has["data"] = fw.has["data"] + n
        /\ fw'.has["resp"] = fw.has["resp"] /\ fw'.has["event"] = fw.has["event"]
    BY <1>0, <2>1, <2>3, <2>4, HasUpdate, Numbers DEF Kinds
  <2>6. /\ post' \in [Kinds -> Nat] /\ post'["data"] = post["data"] - 1 + n
        /\ post'["resp"] = post["resp"] /\ post'["event"] = post["event"]
    BY <1>0, <2>1, <2>3, <2>4 DEF TypeOK, Kinds
  <2>7. UNCHANGED <<cmd, reqid, completed, slip, answer, ctl, hidden, rsp, bus, dev, sus, mbdata, late>>
    BY <1>4 DEF RxFrame, cmdVars, susVars
  <2>8. TypeOK'
    BY <1>0, <2>2, <2>4, <2>5, <2>6, <2>7 DEF TypeOK
  <2>9. CountsAgree'
    <3>1. /\ post'["resp"] = fw'.has["resp"] + Count(ctl', "resp") + Count(rsp', "answer")
          /\ post'["event"] = fw'.has["event"] + Count(ctl', "event") + Count(rsp', "event")
      BY <1>0, <2>5, <2>6, <2>7 DEF CountsAgree
    <3>2. post'["data"] = fw'.has["data"] + rxc'
      BY <1>0, <1>1, <2>1, <2>2, <2>5, <2>6 DEF CountsAgree
    <3>3. QED
      BY <3>1, <3>2 DEF CountsAgree
  <2>10. QED
    BY <2>8, <2>9
<1>5. ASSUME NEW m, m \notin {"answer", "event"}, Rx(m),
             \/ UNCHANGED <<ctl, hidden>> \/ Grows("dsack", 1),
             mbdata' \in BOOLEAN,
             UNCHANGED <<cmd, reqid, completed, slip, answer, post, ids, refused, rxc, fw, bus, dev, sus, late>>
      PROVE  TypeOK' /\ CountsAgree'
  <2>1. /\ ctl' \in Seq(CtlMsgs) /\ hidden' \in 0..Len(ctl')
        /\ Count(ctl', "event") = Count(ctl, "event") /\ Count(ctl', "resp") = Count(ctl, "resp")
    <3>1. CASE UNCHANGED <<ctl, hidden>>
      BY <1>0, <3>1 DEF TypeOK
    <3>2. CASE Grows("dsack", 1)
      BY <1>0, <3>2, Grown
    <3>3. QED
      BY <1>5, <3>1, <3>2
  <2>2. Takes(m)
    BY <1>0, <1>5, RxTakes
  <2>3. /\ rsp' \in Seq(RspMsgs)
        /\ Count(rsp', "event") = Count(rsp, "event") /\ Count(rsp', "answer") = Count(rsp, "answer")
    BY <1>1, <1>5, <2>2 DEF Takes, OfKind
  <2>4. TypeOK'
    BY <1>0, <1>5, <2>1, <2>3 DEF TypeOK
  <2>5. CountsAgree'
    BY <1>0, <1>5, <2>1, <2>3 DEF CountsAgree
  <2>6. QED
    BY <2>4, <2>5
<1>6. CASE RxD3Ack
  BY <1>5, <1>6 DEF RxD3Ack, cmdVars, bufVars
<1>7. CASE RxDeepSleep
  <2>1. UNCHANGED <<ctl, hidden>> \/ Grows("dsack", 1)
    <3>1. Msg("dsack", 0) \in CtlMsgs /\ Msg("dsack", 0).m = "dsack"
      BY DEF Msg, CtlMsgs
    <3>2. UNCHANGED <<ctl, hidden>> \/ Write(<<Msg("dsack", 0)>>)
      BY <1>7 DEF RxDeepSleep
    <3>3. QED
      BY <1>0, <3>1, <3>2, OneGrows DEF Write
  <2>2. mbdata' \in BOOLEAN
    BY <1>0, <1>7 DEF TypeOK, RxDeepSleep, susVars
  <2>3. QED
    BY <1>5, <1>7, <2>1, <2>2 DEF RxDeepSleep, cmdVars, bufVars, susVars
<1>8. QED
  BY <1>2, <1>3, <1>4, <1>6, <1>7 DEF Interrupt

LEMMA SuspendType == ASSUME Typed, Suspend PROVE TypeOK' /\ CountsAgree'
<1>0. TypeOK /\ CountsAgree
  BY DEF Typed
<1>1. ASSUME UNCHANGED <<ctl, hidden>> \/ \E m \in {"d3", "d0"} : Grows(m, 1),
             bus' \in BOOLEAN, dev' \in BOOLEAN, mbdata' \in BOOLEAN,
             sus' \in {"no", "informed", "asleep"}, late' \in [cmd : Nat, sus : Nat],
             UNCHANGED <<cmd, reqid, completed, slip, answer, post, ids, refused, rsp, rxc, fw>>
      PROVE  TypeOK' /\ CountsAgree'
  <2>1. /\ ctl' \in Seq(CtlMsgs) /\ hidden' \in 0..Len(ctl')
        /\ Count(ctl', "event") = Count(ctl, "event") /\ Count(ctl', "resp") = Count(ctl, "resp")
    <3>1. CASE UNCHANGED <<ctl, hidden>>
      BY <1>0, <3>1 DEF TypeOK
    <3>2. ASSUME NEW m \in {"d3", "d0"}, Grows(m, 1)
          PROVE  /\ ctl' \in Seq(CtlMsgs) /\ hidden' \in 0..Len(ctl')
                 /\ Count(ctl', "event") = Count(ctl, "event")
                 /\ Count(ctl', "resp") = Count(ctl, "resp")
      BY <1>0, <3>2, Grown
    <3>3. QED
      BY <1>1, <3>1, <3>2
  <2>2. TypeOK'
    BY <1>0, <1>1, <2>1 DEF TypeOK
  <2>3. CountsAgree'
    BY <1>0, <1>1, <2>1 DEF CountsAgree
  <2>4. QED
    BY <2>2, <2>3
<1>2. CASE EnterD3
  <2>1. UNCHANGED <<ctl, hidden>> \/ Grows("d3", 1)
    <3>1. Msg("d3", 0) \in CtlMsgs /\ Msg("d3", 0).m = "d3"
      BY DEF Msg, CtlMsgs
    <3>2. UNCHANGED <<ctl, hidden>> \/ Write(<<Msg("d3", 0)>>)
      BY <1>2 DEF EnterD3
    <3>3. QED
      BY <1>0, <3>1, <3>2, OneGrows DEF Write
  <2>2. QED
    BY <1>0, <1>1, <1>2, <2>1 DEF EnterD3, ForgetAck, cmdVars, bufVars, TypeOK
<1>3. CASE D3Acked
  BY <1>0, <1>1, <1>3 DEF D3Acked, cmdVars, bufVars, ringVars, TypeOK
<1>4. CASE D3Timeout
  <2>1. late' \in [cmd : Nat, sus : Nat]
    BY <1>0, <1>4, Numbers DEF D3Timeout
  <2>2. QED
    BY <1>0, <1>1, <1>4, <2>1 DEF D3Timeout, cmdVars, bufVars, ringVars, TypeOK
<1>5. CASE LeaveD3
  <2>1. Grows("d0", 1)
    <3>1. Msg("d0", 0) \in CtlMsgs /\ Msg("d0", 0).m = "d0"
      BY DEF Msg, CtlMsgs
    <3>2. QED
      BY <1>0, <1>5, <3>1, OneGrows DEF LeaveD3, WakeUp
  <2>2. QED
    BY <1>0, <1>1, <1>5, <2>1 DEF LeaveD3, cmdVars, bufVars, TypeOK
<1>6. QED
  BY <1>2, <1>3, <1>4, <1>5 DEF Suspend

LEMMA TypeStep == ASSUME Typed, [Next]_vars PROVE TypeOK' /\ CountsAgree'
<1>1. CASE UNCHANGED vars
  BY <1>1 DEF vars, cmdVars, bufVars, susVars, ringVars, Typed, TypeOK, CountsAgree
<1>2. QED
  BY <1>1, CallerType, FirmwareType, InterruptType, SuspendType DEF Next

\* What each action does to the rings.
LEMMA Moves ==
  ASSUME Typed
  PROVE  /\ CmdSend => Grows("ioctl", 1) /\ ctl'[Len(ctl) + 1].t = reqid + 1
         /\ FwEvent => Says("event", 0)
         /\ FwDeepSleep => Says("ds", 0)
         /\ RxAnswer => Takes("answer") /\ \E n \in Nat : Grows("resp", n)
         /\ RxEvent => Takes("event") /\ \E n \in Nat : Grows("event", n)
         /\ RxD3Ack => Takes("d3ack") /\ ctl' = ctl
         /\ RxDeepSleep => Takes("ds") /\ (ctl' = ctl \/ Grows("dsack", 1))
         /\ EnterD3 => ctl' = ctl \/ Grows("d3", 1)
         /\ LeaveD3 => Grows("d0", 1) /\ ctl'[Len(ctl) + 1] = Msg("d0", 0)
<1>0. TypeOK
  BY DEF Typed
<1>1. ASSUME CmdSend PROVE Grows("ioctl", 1) /\ ctl'[Len(ctl) + 1].t = reqid + 1
  <2>1. Msg("ioctl", reqid + 1) \in CtlMsgs
    BY <1>0 DEF Msg, CtlMsgs, TypeOK
  <2>2. Msg("ioctl", reqid + 1).m = "ioctl" /\ Msg("ioctl", reqid + 1).t = reqid + 1
    BY DEF Msg
  <2>3. QED
    BY <1>0, <1>1, <2>1, <2>2, OneGrows DEF CmdSend, Write
<1>2. ASSUME FwEvent PROVE Says("event", 0)
  BY <1>0, <1>2, FwSays DEF FwEvent
<1>3. ASSUME FwDeepSleep PROVE Says("ds", 0)
  BY <1>0, <1>3, FwSays DEF FwDeepSleep
<1>4. ASSUME RxAnswer PROVE Takes("answer") /\ \E n \in Nat : Grows("resp", n)
  BY <1>4, PostedEffect DEF RxAnswer
<1>5. ASSUME RxEvent PROVE Takes("event") /\ \E n \in Nat : Grows("event", n)
  BY <1>5, PostedEffect DEF RxEvent
<1>6. ASSUME RxD3Ack PROVE Takes("d3ack") /\ ctl' = ctl
  BY <1>0, <1>6, RxTakes DEF RxD3Ack
<1>7. ASSUME RxDeepSleep PROVE Takes("ds") /\ (ctl' = ctl \/ Grows("dsack", 1))
  <2>1. Msg("dsack", 0) \in CtlMsgs /\ Msg("dsack", 0).m = "dsack"
    BY DEF Msg, CtlMsgs
  <2>2. Takes("ds")
    BY <1>0, <1>7, RxTakes DEF RxDeepSleep
  <2>3. ctl' = ctl \/ Write(<<Msg("dsack", 0)>>)
    BY <1>7 DEF RxDeepSleep
  <2>4. QED
    BY <1>0, <2>1, <2>2, <2>3, OneGrows DEF Write
<1>8. ASSUME EnterD3 PROVE ctl' = ctl \/ Grows("d3", 1)
  <2>1. Msg("d3", 0) \in CtlMsgs /\ Msg("d3", 0).m = "d3"
    BY DEF Msg, CtlMsgs
  <2>2. ctl' = ctl \/ Write(<<Msg("d3", 0)>>)
    BY <1>8 DEF EnterD3
  <2>3. QED
    BY <1>0, <2>1, <2>2, OneGrows DEF Write
<1>9. ASSUME LeaveD3 PROVE Grows("d0", 1) /\ ctl'[Len(ctl) + 1] = Msg("d0", 0)
  <2>1. Msg("d0", 0) \in CtlMsgs /\ Msg("d0", 0).m = "d0"
    BY DEF Msg, CtlMsgs
  <2>2. QED
    BY <1>0, <1>9, <2>1, OneGrows DEF LeaveD3, WakeUp
<1>10. QED
  BY <1>1, <1>2, <1>3, <1>4, <1>5, <1>6, <1>7, <1>8, <1>9

-----------------------------------------------------------------------------
(* The order of the answers.                                                 *)
LEMMA OrderKept ==
  ASSUME TypeOK, TypeOK', InOrder, answer'.t = answer.t, reqid' = reqid, NEW d \in Nat, NEW e \in Nat,
         \A k \in 1..Len(ctl') : Asked(k)' => k + d \in 1..Len(ctl) /\ ctl'[k] = ctl[k + d],
         \A k \in 1..Len(rsp') : Answered(k)' => k + e \in 1..Len(rsp) /\ rsp'[k] = rsp[k + e]
  PROVE  InOrder'
<1>1. \A k \in 1..Len(ctl') : Asked(k)' => Asked(k + d)
  BY DEF Asked
<1>2. \A k \in 1..Len(rsp') : Answered(k)' => Answered(k + e)
  BY DEF Answered
<1>3. \A k \in 1..Len(rsp') : Answered(k)' => answer'.t < rsp'[k].t /\ rsp'[k].t <= reqid'
  BY <1>2 DEF InOrder
<1>4. \A k \in 1..Len(ctl') : Asked(k)' => answer'.t < ctl'[k].t /\ ctl'[k].t <= reqid'
  BY <1>1 DEF InOrder
<1>5. \A j, k \in 1..Len(rsp') : j < k /\ Answered(j)' /\ Answered(k)' => rsp'[j].t < rsp'[k].t
  <2> SUFFICES ASSUME NEW j \in 1..Len(rsp'), NEW k \in 1..Len(rsp'), j < k, Answered(j)', Answered(k)'
               PROVE  rsp'[j].t < rsp'[k].t
    OBVIOUS
  <2>1. j + e < k + e /\ Answered(j + e) /\ Answered(k + e)
    BY <1>2
  <2>2. QED
    BY <2>1 DEF InOrder
<1>6. \A j, k \in 1..Len(ctl') : j < k /\ Asked(j)' /\ Asked(k)' => ctl'[j].t < ctl'[k].t
  <2> SUFFICES ASSUME NEW j \in 1..Len(ctl'), NEW k \in 1..Len(ctl'), j < k, Asked(j)', Asked(k)'
               PROVE  ctl'[j].t < ctl'[k].t
    OBVIOUS
  <2>1. j + d < k + d /\ Asked(j + d) /\ Asked(k + d)
    BY <1>1
  <2>2. QED
    BY <2>1 DEF InOrder
<1>7. \A j \in 1..Len(rsp'), k \in 1..Len(ctl') : Answered(j)' /\ Asked(k)' => rsp'[j].t < ctl'[k].t
  BY <1>1, <1>2 DEF InOrder
<1>8. QED
  BY <1>3, <1>4, <1>5, <1>6, <1>7 DEF InOrder

\* A ring that gains messages of another kind, or loses its first.
LEMMA AskedKept ==
  ASSUME TypeOK, \/ ctl' = ctl \/ \E k, n : k # "ioctl" /\ Grows(k, n)
  PROVE  \A k \in 1..Len(ctl') : Asked(k)' => k + 0 \in 1..Len(ctl) /\ ctl'[k] = ctl[k + 0]
<1>1. ctl \in Seq(CtlMsgs)
  BY DEF TypeOK
<1>2. CASE ctl' = ctl
  BY <1>1, <1>2
<1>3. ASSUME NEW m, NEW n, m # "ioctl", Grows(m, n)
      PROVE  \A k \in 1..Len(ctl') : Asked(k)' => k + 0 \in 1..Len(ctl) /\ ctl'[k] = ctl[k + 0]
  BY <1>1, <1>3 DEF Grows, Asked
<1>4. QED
  BY <1>2, <1>3

LEMMA AnsweredKept ==
  ASSUME TypeOK, \/ rsp' = rsp \/ \E m, t : m # "answer" /\ Says(m, t)
  PROVE  \A k \in 1..Len(rsp') : Answered(k)' => k + 0 \in 1..Len(rsp) /\ rsp'[k] = rsp[k + 0]
<1>1. rsp \in Seq(RspMsgs)
  BY DEF TypeOK
<1>2. CASE rsp' = rsp
  BY <1>1, <1>2
<1>3. ASSUME NEW m, NEW t, m # "answer", Says(m, t)
      PROVE  \A k \in 1..Len(rsp') : Answered(k)' => k + 0 \in 1..Len(rsp) /\ rsp'[k] = rsp[k + 0]
  <2>1. rsp'[Len(rsp) + 1].m = m
    BY <1>3 DEF Says, Msg
  <2>2. QED
    BY <1>1, <1>3, <2>1 DEF Says, Answered
<1>4. QED
  BY <1>2, <1>3

LEMMA OrderStep == ASSUME Typed, TypeOK', InOrder, [Next]_vars PROVE InOrder'
<1>0. /\ TypeOK /\ ctl \in Seq(CtlMsgs) /\ rsp \in Seq(RspMsgs)
      /\ ctl' \in Seq(CtlMsgs) /\ rsp' \in Seq(RspMsgs)
  BY DEF Typed, TypeOK
<1>1. CASE UNCHANGED <<ctl, rsp, reqid>> /\ answer'.t = answer.t
  BY <1>0, <1>1, AskedKept, AnsweredKept, OrderKept
<1>2. CASE CmdSend
  <2>1. Grows("ioctl", 1) /\ ctl'[Len(ctl) + 1].t = reqid + 1
    BY <1>2, Moves
  <2>2. UNCHANGED <<rsp, answer>> /\ reqid' = reqid + 1 /\ reqid \in Nat
    BY <1>0, <1>2, Numbers DEF CmdSend
  <2>3. /\ Len(ctl) \in Nat /\ Len(ctl') = Len(ctl) + 1
        /\ \A k \in 1..Len(ctl') : \/ k \in 1..Len(ctl) /\ ctl'[k] = ctl[k]
                                   \/ k = Len(ctl) + 1 /\ ctl'[k].t = reqid + 1
    BY <1>0, <2>1 DEF Grows
  <2>4. /\ \A k \in 1..Len(rsp') : Answered(k)' => Answered(k) /\ rsp'[k] = rsp[k] /\ k \in 1..Len(rsp)
        /\ \A k \in 1..Len(rsp) : rsp[k].t \in Nat
        /\ \A k \in 1..Len(ctl) : ctl[k].t \in Nat /\ (ctl'[k] = ctl[k] => (Asked(k)' <=> Asked(k)))
    <3>1. \A k \in 1..Len(rsp) : rsp[k] \in RspMsgs
      BY <1>0
    <3>2. \A k \in 1..Len(ctl) : ctl[k] \in CtlMsgs
      BY <1>0
    <3>3. /\ \A k \in 1..Len(rsp) : rsp[k].t \in Nat
          /\ \A k \in 1..Len(ctl) : ctl[k].t \in Nat
      BY <3>1, <3>2 DEF RspMsgs, CtlMsgs
    <3>4. QED
      BY <2>2, <3>3 DEF Answered, Asked
  <2>5. /\ answer.t <= reqid /\ answer.t \in Nat
        /\ \A k \in 1..Len(rsp) : Answered(k) => answer.t < rsp[k].t /\ rsp[k].t <= reqid
        /\ \A k \in 1..Len(ctl) : Asked(k) => answer.t < ctl[k].t /\ ctl[k].t <= reqid
    BY <1>0, Numbers DEF InOrder
  <2>6. answer'.t <= reqid' /\ answer'.t = answer.t
    BY <2>2, <2>5
  <2>7. \A k \in 1..Len(rsp') : Answered(k)' => answer'.t < rsp'[k].t /\ rsp'[k].t <= reqid'
    BY <2>2, <2>4, <2>5
  <2>8. \A k \in 1..Len(ctl') : Asked(k)' => answer'.t < ctl'[k].t /\ ctl'[k].t <= reqid'
    BY <2>2, <2>3, <2>4, <2>5
  <2>9. \A j, k \in 1..Len(rsp') : j < k /\ Answered(j)' /\ Answered(k)' => rsp'[j].t < rsp'[k].t
    BY <2>4 DEF InOrder
  <2>10. \A j, k \in 1..Len(ctl') : j < k /\ Asked(j)' /\ Asked(k)' => ctl'[j].t < ctl'[k].t
    <3> SUFFICES ASSUME NEW j \in 1..Len(ctl'), NEW k \in 1..Len(ctl'), j < k, Asked(j)', Asked(k)'
                 PROVE  ctl'[j].t < ctl'[k].t
      OBVIOUS
    <3>1. j \in 1..Len(ctl) /\ ctl'[j] = ctl[j] /\ Asked(j) /\ ctl[j].t <= reqid /\ ctl[j].t \in Nat
      BY <2>3, <2>4, <2>5
    <3>2. CASE k = Len(ctl) + 1
      BY <2>2, <2>3, <3>1, <3>2
    <3>3. CASE k \in 1..Len(ctl)
      BY <2>3, <2>4, <3>1, <3>3 DEF InOrder
    <3>4. QED
      BY <2>3, <3>2, <3>3
  <2>11. \A j \in 1..Len(rsp'), k \in 1..Len(ctl') : Answered(j)' /\ Asked(k)' => rsp'[j].t < ctl'[k].t
    <3> SUFFICES ASSUME NEW j \in 1..Len(rsp'), NEW k \in 1..Len(ctl'), Answered(j)', Asked(k)'
                 PROVE  rsp'[j].t < ctl'[k].t
      OBVIOUS
    <3>1. j \in 1..Len(rsp) /\ rsp'[j] = rsp[j] /\ Answered(j) /\ rsp[j].t <= reqid /\ rsp[j].t \in Nat
      BY <2>4, <2>5
    <3>2. CASE k = Len(ctl) + 1
      BY <2>2, <2>3, <3>1, <3>2
    <3>3. CASE k \in 1..Len(ctl)
      BY <2>3, <2>4, <3>1, <3>3 DEF InOrder
    <3>4. QED
      BY <2>3, <3>2, <3>3
  <2>12. QED
    BY <2>6, <2>7, <2>8, <2>9, <2>10, <2>11 DEF InOrder
<1>3. CASE FwRead
  <2>1. Reads /\ UNCHANGED <<reqid, answer>>
    BY <1>0, <1>3, FwReadEffect DEF FwRead, cmdVars
  <2>2. \A k \in 1..Len(ctl') : k + 1 \in 1..Len(ctl) /\ ctl'[k] = ctl[k + 1]
    BY <1>0, <2>1 DEF Reads
  <2>3. CASE ctl[1].m # "ioctl"
    <3>1. rsp' = rsp \/ Says("d3ack", 0)
      BY <1>0, <1>3, <2>3, FwReadEffect
    <3>2. \A k \in 1..Len(rsp') : Answered(k)' => k + 0 \in 1..Len(rsp) /\ rsp'[k] = rsp[k + 0]
      BY <1>0, <3>1, AnsweredKept
    <3>3. QED
      BY <1>0, <2>1, <2>2, <3>2, OrderKept
  <2>4. CASE ctl[1].m = "ioctl"
    <3>1. Says("answer", ctl[1].t) /\ Len(ctl) >= 1 /\ Asked(1)
      BY <1>0, <1>3, <2>4, FwReadEffect DEF Reads, Asked
    <3>2. /\ Len(rsp) \in Nat /\ Len(rsp') = Len(rsp) + 1
          /\ \A k \in 1..Len(rsp') : \/ k \in 1..Len(rsp) /\ rsp'[k] = rsp[k]
                                     \/ k = Len(rsp) + 1 /\ rsp'[k].t = ctl[1].t
      BY <1>0, <3>1 DEF Says, Msg
    <3>3. /\ \A k \in 1..Len(rsp) : rsp'[k] = rsp[k] => (Answered(k)' <=> Answered(k))
          /\ \A k \in 1..Len(ctl') : Asked(k)' <=> Asked(k + 1)
          /\ 1 \in 1..Len(ctl) /\ \A k \in 1..Len(ctl') : 1 < k + 1
      BY <1>0, <2>2, <3>1 DEF Answered, Asked
    <3>4. /\ answer.t < ctl[1].t /\ ctl[1].t <= reqid
          /\ \A j \in 1..Len(rsp) : Answered(j) => rsp[j].t < ctl[1].t
          /\ \A k \in 1..Len(ctl') : Asked(k)' => ctl[1].t < ctl'[k].t
      BY <2>2, <3>1, <3>3 DEF InOrder
    <3>5. \A k \in 1..Len(rsp') : Answered(k)' => answer'.t < rsp'[k].t /\ rsp'[k].t <= reqid'
      BY <2>1, <3>2, <3>3, <3>4 DEF InOrder
    <3>6. \A k \in 1..Len(ctl') : Asked(k)' => answer'.t < ctl'[k].t /\ ctl'[k].t <= reqid'
      BY <2>1, <2>2, <3>3 DEF InOrder
    <3>7. \A j, k \in 1..Len(rsp') : j < k /\ Answered(j)' /\ Answered(k)' => rsp'[j].t < rsp'[k].t
      <4> SUFFICES ASSUME NEW j \in 1..Len(rsp'), NEW k \in 1..Len(rsp'), j < k, Answered(j)', Answered(k)'
                   PROVE  rsp'[j].t < rsp'[k].t
        OBVIOUS
      <4>1. j \in 1..Len(rsp) /\ rsp'[j] = rsp[j] /\ Answered(j)
        BY <3>2, <3>3
      <4>2. CASE k = Len(rsp) + 1
        BY <3>2, <3>4, <4>1, <4>2
      <4>3. CASE k \in 1..Len(rsp)
        BY <3>2, <3>3, <4>1, <4>3 DEF InOrder
      <4>4. QED
        BY <3>2, <4>2, <4>3
    <3>8. \A j, k \in 1..Len(ctl') : j < k /\ Asked(j)' /\ Asked(k)' => ctl'[j].t < ctl'[k].t
      <4> SUFFICES ASSUME NEW j \in 1..Len(ctl'), NEW k \in 1..Len(ctl'), j < k, Asked(j)', Asked(k)'
                   PROVE  ctl'[j].t < ctl'[k].t
        OBVIOUS
      <4>1. j + 1 < k + 1 /\ Asked(j + 1) /\ Asked(k + 1)
        BY <3>3
      <4>2. j + 1 \in 1..Len(ctl) /\ k + 1 \in 1..Len(ctl) /\ ctl[j + 1].t < ctl[k + 1].t
        BY <2>2, <4>1 DEF InOrder
      <4>3. QED
        BY <2>2, <4>2
    <3>9. \A j \in 1..Len(rsp'), k \in 1..Len(ctl') : Answered(j)' /\ Asked(k)' => rsp'[j].t < ctl'[k].t
      <4> SUFFICES ASSUME NEW j \in 1..Len(rsp'), NEW k \in 1..Len(ctl'), Answered(j)', Asked(k)'
                   PROVE  rsp'[j].t < ctl'[k].t
        OBVIOUS
      <4>1. CASE j = Len(rsp) + 1
        <5>1. rsp'[j].t = ctl[1].t
          BY <3>2, <4>1
        <5>2. QED
          BY <3>4, <5>1
      <4>2. CASE j \in 1..Len(rsp) /\ rsp'[j] = rsp[j]
        <5>1. Answered(j) /\ Asked(k + 1)
          BY <3>3, <4>2
        <5>2. k + 1 \in 1..Len(ctl) /\ ctl'[k] = ctl[k + 1]
          BY <2>2
        <5>3. rsp[j].t < ctl[k + 1].t
          BY <4>2, <5>1, <5>2 DEF InOrder
        <5>4. QED
          BY <4>2, <5>2, <5>3
      <4>3. QED
        BY <3>2, <4>1, <4>2
    <3>10. answer'.t <= reqid'
      BY <2>1 DEF InOrder
    <3>11. QED
      BY <3>5, <3>6, <3>7, <3>8, <3>9, <3>10 DEF InOrder
  <2>5. QED
    BY <2>3, <2>4
<1>4. CASE RxAnswer
  <2>1. Takes("answer") /\ answer'.t = rsp[1].t /\ reqid' = reqid
    BY <1>4, Moves DEF RxAnswer, Takes
  <2>2. PICK n \in Nat : Grows("resp", n)
    BY <1>4, Moves
  <2>3. \A k \in 1..Len(ctl') : Asked(k)' => k \in 1..Len(ctl) /\ ctl'[k] = ctl[k] /\ Asked(k)
    <3>1. \A k \in 1..Len(ctl') : Asked(k)' => k + 0 \in 1..Len(ctl) /\ ctl'[k] = ctl[k + 0]
      BY <1>0, <2>2, AskedKept
    <3>2. \A k \in 1..Len(ctl') : k + 0 = k
      BY <1>0
    <3>3. QED
      BY <3>1, <3>2 DEF Asked
  <2>4. /\ \A k \in 1..Len(rsp') : k + 1 \in 1..Len(rsp) /\ rsp'[k] = rsp[k + 1] /\ 1 < k + 1
        /\ 1 \in 1..Len(rsp) /\ Answered(1)
    BY <1>0, <2>1 DEF Takes, Answered
  <2>5. \A k \in 1..Len(rsp') : Answered(k)' => Answered(k + 1)
    BY <2>4 DEF Answered
  <2>6. answer'.t <= reqid'
    BY <2>1, <2>4 DEF InOrder
  <2>7. \A k \in 1..Len(rsp') : Answered(k)' => answer'.t < rsp'[k].t /\ rsp'[k].t <= reqid'
    BY <2>1, <2>4, <2>5 DEF InOrder
  <2>8. \A k \in 1..Len(ctl') : Asked(k)' => answer'.t < ctl'[k].t /\ ctl'[k].t <= reqid'
    BY <2>1, <2>3, <2>4 DEF InOrder
  <2>9. \A j, k \in 1..Len(rsp') : j < k /\ Answered(j)' /\ Answered(k)' => rsp'[j].t < rsp'[k].t
    <3> SUFFICES ASSUME NEW j \in 1..Len(rsp'), NEW k \in 1..Len(rsp'), j < k, Answered(j)', Answered(k)'
                 PROVE  rsp'[j].t < rsp'[k].t
      OBVIOUS
    <3>1. j + 1 < k + 1 /\ Answered(j + 1) /\ Answered(k + 1)
      BY <2>5
    <3>2. QED
      BY <2>4, <3>1 DEF InOrder
  <2>10. \A j, k \in 1..Len(ctl') : j < k /\ Asked(j)' /\ Asked(k)' => ctl'[j].t < ctl'[k].t
    BY <2>3 DEF InOrder
  <2>11. \A j \in 1..Len(rsp'), k \in 1..Len(ctl') : Answered(j)' /\ Asked(k)' => rsp'[j].t < ctl'[k].t
    BY <2>3, <2>4, <2>5 DEF InOrder
  <2>12. QED
    BY <2>6, <2>7, <2>8, <2>9, <2>10, <2>11 DEF InOrder
\* The interrupt takes what is no answer.
<1>5. ASSUME NEW m, m # "answer", Takes(m), ctl' = ctl \/ \E k, n : k # "ioctl" /\ Grows(k, n),
             UNCHANGED <<reqid, answer>>
      PROVE  InOrder'
  <2>1. \A k \in 1..Len(rsp') : Answered(k)' => k + 1 \in 1..Len(rsp) /\ rsp'[k] = rsp[k + 1]
    BY <1>0, <1>5 DEF Takes
  <2>2. \A k \in 1..Len(ctl') : Asked(k)' => k + 0 \in 1..Len(ctl) /\ ctl'[k] = ctl[k + 0]
    BY <1>0, <1>5, AskedKept
  <2>3. QED
    BY <1>0, <1>5, <2>1, <2>2, OrderKept
<1>6. CASE RxEvent \/ RxD3Ack \/ RxDeepSleep
  <2>1. UNCHANGED <<reqid, answer>>
    BY <1>6 DEF RxEvent, RxD3Ack, RxDeepSleep, cmdVars
  <2>2. CASE RxEvent
    <3>1. PICK n \in Nat : Takes("event") /\ Grows("event", n)
      BY <2>2, Moves
    <3>2. QED
      BY <1>5, <2>1, <3>1
  <2>3. CASE RxD3Ack
    BY <1>5, <2>1, <2>3, Moves
  <2>4. CASE RxDeepSleep
    BY <1>5, <2>1, <2>4, Moves
  <2>5. QED
    BY <1>6, <2>2, <2>3, <2>4
\* Messages of the firmware and of a suspension.
<1>7. ASSUME rsp' = rsp \/ \E m, t : m # "answer" /\ Says(m, t),
             ctl' = ctl \/ \E k, n : k # "ioctl" /\ Grows(k, n),
             UNCHANGED <<reqid, answer>>
      PROVE  InOrder'
  <2>1. \A k \in 1..Len(ctl') : Asked(k)' => k + 0 \in 1..Len(ctl) /\ ctl'[k] = ctl[k + 0]
    BY <1>0, <1>7, AskedKept
  <2>2. \A k \in 1..Len(rsp') : Answered(k)' => k + 0 \in 1..Len(rsp) /\ rsp'[k] = rsp[k + 0]
    BY <1>0, <1>7, AnsweredKept
  <2>3. QED
    BY <1>0, <1>7, <2>1, <2>2, OrderKept
<1>8. CASE FwEvent \/ FwDeepSleep
  <2>1. Says("event", 0) \/ Says("ds", 0)
    BY <1>8, Moves
  <2>2. UNCHANGED <<ctl, reqid, answer>>
    BY <1>8 DEF FwEvent, FwDeepSleep, cmdVars
  <2>3. QED
    BY <1>7, <2>1, <2>2
<1>9. CASE EnterD3 \/ LeaveD3
  <2>1. ctl' = ctl \/ Grows("d3", 1) \/ Grows("d0", 1)
    BY <1>9, Moves
  <2>2. UNCHANGED <<rsp, reqid, answer>>
    BY <1>9 DEF EnterD3, LeaveD3, cmdVars
  <2>3. QED
    BY <1>7, <2>1, <2>2
<1>10. CASE CmdTake
  <2>1. answer'.t = answer.t
    BY <1>0, <1>10, Numbers DEF CmdTake
  <2>2. QED
    BY <1>1, <1>10, <2>1 DEF CmdTake, ringVars
<1>11. CASE CmdCheck \/ CmdNoRoom \/ CmdTimeout \/ FwFrame \/ RxFrame \/ D3Acked \/ D3Timeout
            \/ UNCHANGED vars
  <2>1. UNCHANGED <<ctl, rsp, reqid, answer>>
    BY <1>11 DEF CmdCheck, CmdNoRoom, CmdTimeout, FwFrame, RxFrame, D3Acked, D3Timeout, vars,
                 cmdVars, ringVars
  <2>2. QED
    BY <1>1, <2>1
<1>12. QED
  BY <1>2, <1>3, <1>4, <1>6, <1>8, <1>9, <1>10, <1>11
     DEF Next, Caller, Firmware, Interrupt, Suspend

-----------------------------------------------------------------------------
(* How far the answers slip, and what is lost with them.                     *)
LEMMA FirstAnswer ==
  ASSUME Typed, InOrder, RxAnswer
  PROVE  /\ answer'.t > answer.t /\ answer'.t <= reqid /\ answer'.unread = TRUE /\ completed' = TRUE
         /\ answer'.t \in Nat /\ UNCHANGED <<cmd, reqid, slip, late>>
<1>1. Takes("answer")
  BY Moves
<1>2. 1 \in 1..Len(rsp) /\ Answered(1) /\ rsp[1] = Head(rsp) /\ rsp[1].t \in Nat
  <2>1. Len(rsp) \in Nat
    BY DEF Typed, TypeOK
  <2>2. QED
    BY <1>1, <2>1 DEF Takes, Answered, RspMsgs
<1>3. answer' = [t |-> Head(rsp).t, unread |-> TRUE] /\ completed' = TRUE
      /\ UNCHANGED <<cmd, reqid, slip, late>>
  BY DEF RxAnswer
<1>4. answer.t < rsp[1].t /\ rsp[1].t <= reqid
  BY <1>2 DEF InOrder
<1>5. QED
  BY <1>2, <1>3, <1>4, Numbers DEF Typed

LEMMA SlipStep == ASSUME Typed, InOrder, SlipInv, [Next]_vars PROVE SlipInv'
<1>0. /\ reqid \in Nat /\ slip \in Int /\ answer.t \in Nat /\ late \in [cmd : Nat, sus : Nat]
      /\ late.cmd \in Nat /\ answer.unread \in BOOLEAN /\ answer \in [t : Nat, unread : BOOLEAN]
      /\ answer.t <= reqid
  BY Numbers DEF Typed, InOrder
<1>1. CASE UNCHANGED <<slip, reqid, answer, cmd, completed>> /\ late'.cmd = late.cmd
  BY <1>1 DEF SlipInv, Owed
<1>2. CASE CmdCheck
  BY <1>2 DEF CmdCheck, SlipInv, Owed
<1>3. CASE CmdSend
  <2>1. /\ cmd = "checked" /\ completed' = FALSE /\ reqid' = reqid + 1 /\ answer' = answer /\ slip' = slip
        /\ \/ cmd' = "waiting" /\ late'.cmd = late.cmd
           \/ cmd' = "none" /\ late'.cmd = late.cmd + 1
    BY <1>0, <1>3 DEF CmdSend, Armed
  <2>2. slip >= 0 /\ slip <= late.cmd /\ reqid - answer.t <= late.cmd
    BY <1>0, <2>1 DEF SlipInv, Owed
  <2>3. QED
    BY <1>0, <2>1, <2>2 DEF SlipInv, Owed
<1>4. CASE CmdNoRoom
  BY <1>4 DEF CmdNoRoom, SlipInv, Owed
<1>5. CASE CmdTake
  <2>1. /\ cmd = "waiting" /\ completed /\ cmd' = "none" /\ slip' = reqid - answer.t
        /\ answer'.t = answer.t /\ UNCHANGED <<reqid, late>>
    BY <1>0, <1>5 DEF CmdTake
  <2>2. reqid - answer.t <= late.cmd
    BY <1>0, <2>1 DEF SlipInv, Owed
  <2>3. QED
    BY <1>0, <2>1, <2>2 DEF SlipInv, Owed
<1>6. CASE CmdTimeout
  <2>1. /\ cmd = "waiting" /\ ~completed /\ cmd' = "none" /\ late'.cmd = late.cmd + 1
        /\ UNCHANGED <<reqid, completed, slip, answer>>
    BY <1>0, <1>6 DEF CmdTimeout
  <2>2. QED
    BY <1>0, <2>1 DEF SlipInv, Owed
<1>7. CASE RxAnswer
  <2>1. /\ answer'.t > answer.t /\ answer'.t <= reqid /\ answer'.unread = TRUE /\ completed' = TRUE
        /\ answer'.t \in Nat /\ UNCHANGED <<cmd, reqid, slip, late>>
    BY <1>7, FirstAnswer
  <2>2. slip >= 0 /\ slip <= late.cmd /\ reqid - answer.t <= late.cmd + 1
    BY <1>0 DEF SlipInv, Owed
  <2>3. QED
    BY <1>0, <2>1, <2>2 DEF SlipInv, Owed
<1>8. CASE D3Timeout
  BY <1>0, <1>1, <1>8 DEF D3Timeout, cmdVars
<1>9. CASE Firmware \/ RxEvent \/ RxFrame \/ RxD3Ack \/ RxDeepSleep \/ EnterD3 \/ D3Acked \/ LeaveD3
           \/ UNCHANGED vars
  <2>1. UNCHANGED <<slip, reqid, answer, cmd, completed, late>>
    BY <1>9 DEF Firmware, FwRead, FwEvent, FwFrame, FwDeepSleep, RxEvent, RxFrame, RxD3Ack, RxDeepSleep,
                EnterD3, D3Acked, LeaveD3, vars, cmdVars
  <2>2. QED
    BY <1>1, <2>1
<1>10. QED
  BY <1>2, <1>3, <1>4, <1>5, <1>6, <1>7, <1>8, <1>9 DEF Next, Caller, Interrupt, Suspend

LEMMA LostStep == ASSUME Typed, TypeOK', InOrder, SlipInv, [Next]_vars PROVE LostInv'
<1> DEFINE Posts == post["resp"] + post["event"] + post["data"]
<1>0. /\ reqid \in Nat /\ ids \in Nat /\ answer.t \in Nat /\ late \in [cmd : Nat, sus : Nat]
      /\ late.cmd \in Nat /\ answer.unread \in BOOLEAN /\ answer \in [t : Nat, unread : BOOLEAN]
      /\ post["resp"] \in Nat /\ post["event"] \in Nat /\ post["data"] \in Nat
      /\ answer.t <= reqid
  BY Numbers DEF Typed, InOrder
<1>14. post'["resp"] \in Nat /\ post'["event"] \in Nat /\ post'["data"] \in Nat /\ ids' \in Nat
  BY DEF TypeOK, Kinds
<1>15. Posts \in Nat /\ Posts' \in Nat
  BY <1>0, <1>14
<1>1. /\ Lost = ids - Posts - Unread /\ Lost' = ids' - Posts' - Unread'
      /\ Lost \in Int /\ Unread \in {0, 1} /\ Waits \in {0, 1}
      /\ Lost >= 0 /\ Lost + Unread + (reqid - answer.t) <= late.cmd + Waits
  <2>1. Lost = ids - Posts - Unread
    BY <1>0 DEF Lost, Unread
  <2>2. Lost' = ids' - Posts' - Unread'
    BY <1>14 DEF Lost, Unread
  <2>3. Unread \in {0, 1} /\ Waits \in {0, 1} /\ Lost \in Int
    BY <1>0, <1>15, <2>1 DEF Unread, Waits
  <2>4. QED
    BY <2>1, <2>2, <2>3 DEF Typed, LostInv
<1> HIDE DEF Posts
<1>2. CASE UNCHANGED <<answer, reqid, cmd>> /\ late'.cmd = late.cmd /\ ids' - Posts' = ids - Posts
  BY <1>1, <1>2 DEF LostInv, Lost, Unread, Waits
<1>3. CASE CmdCheck
  BY <1>1, <1>3 DEF CmdCheck, LostInv, Lost, Unread, Waits, bufVars, Posts
<1>4. CASE CmdSend
  <2>1. /\ cmd = "checked" /\ reqid' = reqid + 1 /\ UNCHANGED <<answer, ids, post>>
        /\ \/ cmd' = "waiting" /\ late'.cmd = late.cmd
           \/ cmd' = "none" /\ late'.cmd = late.cmd + 1
    BY <1>0, <1>4 DEF CmdSend, bufVars
  <2>2. Lost' = Lost /\ Unread' = Unread /\ Waits = 0
    BY <2>1 DEF Lost, Unread, Waits
  <2>3. late'.cmd + Waits' = late.cmd + 1
    BY <1>0, <2>1 DEF Waits
  <2>4. QED
    BY <1>0, <1>1, <2>1, <2>2, <2>3 DEF LostInv
<1>5. CASE CmdNoRoom
  BY <1>1, <1>5 DEF CmdNoRoom, LostInv, Lost, Unread, Waits, bufVars
<1>6. CASE CmdTake
  <2>1. /\ cmd = "waiting" /\ completed /\ cmd' = "none" /\ ids' = ids - Taken
        /\ answer'.t = answer.t /\ answer'.unread = FALSE /\ UNCHANGED <<reqid, late, post>>
    BY <1>0, <1>6 DEF CmdTake
  <2>2. answer.unread
    BY <2>1 DEF SlipInv
  <2>3. Taken = 1 /\ Unread = 1 /\ Unread' = 0 /\ Waits = 1 /\ Waits' = 0 /\ Posts' = Posts
    BY <2>1, <2>2 DEF Taken, Unread, Waits, Posts
  <2>4. Lost' = Lost
    <3>1. Lost = ids - Posts - 1 /\ Lost' = ids' - Posts
      BY <1>1, <1>14, <1>15, <2>3
    <3>2. ids' = ids - 1 /\ ids \in Nat
      BY <1>0, <2>1, <2>3
    <3>3. QED
      BY <1>15, <3>1, <3>2
  <2>5. QED
    BY <1>0, <1>1, <2>1, <2>3, <2>4 DEF LostInv
<1>7. CASE CmdTimeout
  <2>1. /\ cmd = "waiting" /\ cmd' = "none" /\ late'.cmd = late.cmd + 1
        /\ UNCHANGED <<reqid, answer, ids, post>>
    BY <1>0, <1>7 DEF CmdTimeout, bufVars
  <2>2. Lost' = Lost /\ Unread' = Unread /\ Waits = 1 /\ Waits' = 0
    BY <2>1 DEF Lost, Unread, Waits
  <2>3. QED
    BY <1>0, <1>1, <2>1, <2>2 DEF LostInv
<1>8. CASE RxAnswer
  <2>1. /\ answer'.t > answer.t /\ answer'.t <= reqid /\ answer'.unread = TRUE
        /\ answer'.t \in Nat /\ UNCHANGED <<cmd, reqid, late>>
    BY <1>8, FirstAnswer
  <2>2. PICK n \in Nat :
          /\ post'["resp"] = post["resp"] - 1 + n /\ \A j \in Kinds \ {"resp"} : post'[j] = post[j]
          /\ ids' = ids - 0 + n
    BY <1>8, PostedEffect DEF RxAnswer
  <2>3. ids' - Posts' = ids - Posts + 1 /\ Unread' = 1 /\ Waits' = Waits
    <3>1. post'["event"] = post["event"] /\ post'["data"] = post["data"]
      BY <2>2 DEF Kinds
    <3>2. ids' - Posts' = ids - Posts + 1
      BY <1>0, <2>2, <3>1 DEF Posts
    <3>3. QED
      BY <2>1, <3>2 DEF Unread, Waits
  <2>4. Lost' = Lost + Unread
    <3>1. Lost = ids - Posts - Unread /\ Lost' = ids' - Posts' - 1 /\ Unread \in {0, 1}
      BY <1>1, <2>3
    <3>2. ids \in Nat /\ ids' \in Nat
      BY <1>0, <1>14
    <3>3. Lost' = ids - Posts
      <4>1. ids - Posts \in Int
        BY <1>15, <3>2
      <4>2. ids' - Posts' = (ids - Posts) + 1
        BY <2>3
      <4>3. QED
        BY <3>1, <4>1, <4>2
    <3>4. Unread \in Int /\ ids - Posts \in Int
      BY <1>15, <3>1, <3>2
    <3>5. QED
      BY <3>1, <3>3, <3>4
  <2>5. QED
    BY <1>0, <1>1, <2>1, <2>3, <2>4 DEF LostInv
<1>9. CASE RxEvent
  <2>1. PICK n \in Nat :
          /\ post'["event"] = post["event"] - 1 + n /\ \A j \in Kinds \ {"event"} : post'[j] = post[j]
          /\ ids' = ids - 1 + n
    BY <1>9, PostedEffect DEF RxEvent
  <2>2. post'["resp"] = post["resp"] /\ post'["data"] = post["data"]
    BY <2>1 DEF Kinds
  <2>3. ids' - Posts' = ids - Posts
    BY <1>0, <2>1, <2>2 DEF Posts
  <2>4. QED
    BY <1>2, <1>9, <2>3 DEF RxEvent, cmdVars
<1>10. CASE RxFrame
  <2>1. PICK n \in Nat : post' = [post EXCEPT !["data"] = post["data"] - 1 + n] /\ ids' = ids - 1 + n
    <3>1. MaxRx - (post["data"] - 1) \in Int
      BY <1>0, Sizes
    <3>2. PICK n \in IF Low(post["data"] - 1) THEN 0..(MaxRx - (post["data"] - 1)) ELSE {0} :
            post' = [post EXCEPT !["data"] = post["data"] - 1 + n] /\ ids' = ids - 1 + n
      BY <1>10 DEF RxFrame
    <3>3. n \in Nat
      BY <3>1, <3>2
    <3>4. QED
      BY <3>2, <3>3
  <2>2. /\ post'["data"] = post["data"] - 1 + n
        /\ post'["resp"] = post["resp"] /\ post'["event"] = post["event"]
    BY <2>1 DEF Typed, TypeOK, Kinds
  <2>3. ids' - Posts' = ids - Posts
    BY <1>0, <2>1, <2>2 DEF Posts
  <2>4. QED
    BY <1>2, <1>10, <2>3 DEF RxFrame, cmdVars
<1>11. CASE D3Timeout
  BY <1>0, <1>2, <1>11 DEF D3Timeout, cmdVars, bufVars, Posts
<1>12. CASE Firmware \/ RxD3Ack \/ RxDeepSleep \/ EnterD3 \/ D3Acked \/ LeaveD3 \/ UNCHANGED vars
  <2>1. UNCHANGED <<answer, reqid, cmd, late, ids, post>>
    BY <1>12 DEF Firmware, FwRead, FwEvent, FwFrame, FwDeepSleep, RxD3Ack, RxDeepSleep, EnterD3, D3Acked,
                 LeaveD3, vars, cmdVars, bufVars
  <2>2. QED
    BY <1>2, <2>1 DEF Posts
<1>13. QED
  BY <1>3, <1>4, <1>5, <1>6, <1>7, <1>8, <1>9, <1>10, <1>11, <1>12
     DEF Next, Caller, Interrupt, Suspend

-----------------------------------------------------------------------------
(* The receive buffers.                                                      *)
LEMMA FedStep == ASSUME Typed, Fed, [Next]_vars PROVE Fed'
<1>0. /\ refused \in Nat /\ post["data"] \in Nat /\ MaxRx \in Nat /\ Threshold \in Nat /\ Threshold >= 1
      /\ post["data"] + refused > MaxRx - Threshold
  BY Numbers, Sizes DEF Typed, Fed
<1>1. ASSUME post'["data"] = post["data"], refused' \in Nat, refused' >= refused PROVE Fed'
  BY <1>0, <1>1 DEF Fed
<1>2. CASE RxAnswer
  BY <1>1, <1>2, PostedEffect DEF RxAnswer, Kinds
<1>3. CASE RxEvent
  BY <1>1, <1>3, PostedEffect DEF RxEvent, Kinds
<1>4. CASE RxFrame
  <2> DEFINE left == post["data"] - 1
  <2>1. PICK n \in IF Low(left) THEN 0..(MaxRx - left) ELSE {0} :
          /\ refused' = IF Low(left) /\ n < MaxRx - left THEN refused + 1 ELSE refused
          /\ post' = [post EXCEPT !["data"] = left + n]
    BY <1>4 DEF RxFrame
  <2>2. post'["data"] = left + n /\ left \in Int
    BY <1>0, <2>1 DEF Typed, TypeOK, Kinds
  <2>3. CASE Low(left) /\ n < MaxRx - left
    BY <1>0, <2>1, <2>2, <2>3 DEF Fed
  <2>4. CASE Low(left) /\ ~(n < MaxRx - left)
    BY <1>0, <2>1, <2>2, <2>4 DEF Fed
  <2>5. CASE ~Low(left)
    BY <1>0, <2>1, <2>2, <2>5 DEF Fed, Low
  <2>6. QED
    BY <2>3, <2>4, <2>5
<1>5. CASE Caller \/ Firmware \/ RxD3Ack \/ RxDeepSleep \/ Suspend \/ UNCHANGED vars
  <2>1. UNCHANGED <<post, refused>>
    BY <1>5 DEF Caller, CmdCheck, CmdSend, CmdNoRoom, CmdTake, CmdTimeout, Firmware, FwRead, FwEvent, FwFrame,
                FwDeepSleep, RxD3Ack, RxDeepSleep, Suspend, EnterD3, D3Acked, D3Timeout, LeaveD3, vars, bufVars
  <2>2. QED
    BY <1>0, <1>1, <2>1
<1>6. QED
  BY <1>2, <1>3, <1>4, <1>5 DEF Next, Interrupt

-----------------------------------------------------------------------------
(* The device's sleep.                                                       *)
\* A step that neither writes nor takes a message of the suspension, nor reads.
LEMMA AgreedKept ==
  ASSUME Typed, TypeOK', Agreed, UNCHANGED <<bus, dev, sus, mbdata>>, fw'.awake = fw.awake, NEW e \in Nat,
         \A k \in 1..Len(ctl) : k \in 1..Len(ctl') /\ ctl'[k] = ctl[k],
         \A k \in 1..Len(ctl') : ctl'[k].m \in {"d3", "d0"} => k \in 1..Len(ctl),
         \A k \in 1..Len(rsp') : rsp'[k].m = "d3ack" => k + e \in 1..Len(rsp) /\ rsp'[k] = rsp[k + e]
  PROVE  Agreed'
<1>1. HostKnows'
  BY DEF Agreed, HostKnows
<1>2. \A m \in {"d3", "d0"} : None(ctl, m) => None(ctl', m)
  BY DEF None
<1>3. None(rsp, "d3ack") => None(rsp', "d3ack")
  BY DEF None
<1>4. ASSUME NEW k \in 1..Len(ctl'), ctl'[k].m = "d3"
      PROVE  /\ sus' = "informed" /\ ~mbdata' /\ None(rsp', "d3ack")
             /\ \A j \in 1..Len(ctl') : j # k => ctl'[j].m # "d3"
             /\ \A j \in 1..Len(ctl') : ctl'[j].m = "d0" => j < k
  BY <1>3, <1>4 DEF Agreed, InformOnce
<1>5. ASSUME NEW k \in 1..Len(rsp'), rsp'[k].m = "d3ack"
      PROVE  /\ sus' = "informed" /\ ~mbdata' /\ ~fw'.awake /\ None(ctl', "d0") /\ None(ctl', "d3")
             /\ \A j \in 1..Len(rsp') : j # k => rsp'[j].m # "d3ack"
  <2>1. k + e \in 1..Len(rsp) /\ rsp[k + e].m = "d3ack"
    BY <1>5
  <2>2. /\ sus = "informed" /\ ~mbdata /\ ~fw.awake /\ None(ctl, "d0") /\ None(ctl, "d3")
        /\ \A j \in 1..Len(rsp) : j # k + e => rsp[j].m # "d3ack"
    BY <2>1 DEF Agreed, AckOnce
  <2>3. \A j \in 1..Len(rsp') : j # k => j + e # k + e
    OBVIOUS
  <2>4. QED
    BY <1>2, <2>2, <2>3
<1>6. AckTrue'
  BY <1>2, <1>3 DEF Agreed, AckTrue, Asleep
<1>7. ToldToWake'
  BY DEF Agreed, ToldToWake, Contains
<1>8. QED
  BY <1>1, <1>4, <1>5, <1>6, <1>7 DEF Agreed, InformOnce, AckOnce

\* The rings of such a step.
LEMMA NoInform ==
  ASSUME TypeOK, ctl' = ctl \/ \E k, n : k \notin {"d3", "d0"} /\ n \in Nat /\ Grows(k, n)
  PROVE  /\ \A k \in 1..Len(ctl) : k \in 1..Len(ctl') /\ ctl'[k] = ctl[k]
         /\ \A k \in 1..Len(ctl') : ctl'[k].m \in {"d3", "d0"} => k \in 1..Len(ctl)
<1>1. Len(ctl) \in Nat
  BY DEF TypeOK
<1>2. ASSUME NEW m, NEW n \in Nat, m \notin {"d3", "d0"}, Grows(m, n)
      PROVE  /\ \A k \in 1..Len(ctl) : k \in 1..Len(ctl') /\ ctl'[k] = ctl[k]
             /\ \A k \in 1..Len(ctl') : ctl'[k].m \in {"d3", "d0"} => k \in 1..Len(ctl)
  BY <1>1, <1>2 DEF Grows
<1>3. QED
  BY <1>2

LEMMA NoAck ==
  ASSUME TypeOK, rsp' = rsp \/ \E m, t : m # "d3ack" /\ (Says(m, t) \/ Takes(m))
  PROVE  \E e \in Nat : \A k \in 1..Len(rsp') :
           rsp'[k].m = "d3ack" => k + e \in 1..Len(rsp) /\ rsp'[k] = rsp[k + e]
<1>1. Len(rsp) \in Nat
  BY DEF TypeOK
<1>2. CASE rsp' = rsp
  <2>1. \A k \in 1..Len(rsp') : k + 0 = k
    BY <1>1, <1>2
  <2>2. QED
    BY <1>2, <2>1
<1>3. ASSUME NEW m, NEW t, m # "d3ack", Says(m, t)
      PROVE  \A k \in 1..Len(rsp') : rsp'[k].m = "d3ack" => k + 0 \in 1..Len(rsp) /\ rsp'[k] = rsp[k + 0]
  <2>1. rsp'[Len(rsp) + 1].m = m
    BY <1>3 DEF Says, Msg
  <2>2. QED
    BY <1>1, <1>3, <2>1 DEF Says
<1>4. ASSUME NEW m, Takes(m)
      PROVE  \A k \in 1..Len(rsp') : rsp'[k].m = "d3ack" => k + 1 \in 1..Len(rsp) /\ rsp'[k] = rsp[k + 1]
  BY <1>1, <1>4 DEF Takes
<1>5. QED
  BY <1>2, <1>3, <1>4

LEMMA QuietSleep ==
  ASSUME Typed, TypeOK', Agreed, UNCHANGED <<bus, dev, sus, mbdata>>, fw'.awake = fw.awake,
         ctl' = ctl \/ \E k, n : k \notin {"d3", "d0"} /\ n \in Nat /\ Grows(k, n),
         rsp' = rsp \/ \E m, t : m # "d3ack" /\ (Says(m, t) \/ Takes(m))
  PROVE  Agreed'
<1>1. TypeOK
  BY DEF Typed
<1>2. PICK e \in Nat : \A k \in 1..Len(rsp') :
        rsp'[k].m = "d3ack" => k + e \in 1..Len(rsp) /\ rsp'[k] = rsp[k + e]
  BY <1>1, NoAck
<1>3. QED
  BY <1>1, <1>2, NoInform, AgreedKept

LEMMA ReadSleep == ASSUME Typed, TypeOK', Agreed, FwRead PROVE Agreed'
<1>0. /\ TypeOK /\ Len(ctl) \in Nat /\ Len(rsp) \in Nat
      /\ fw \in [has : [Kinds -> Nat], awake : BOOLEAN]
      /\ UNCHANGED <<bus, dev, sus, mbdata>>
  <2>1. TypeOK
    BY DEF Typed
  <2>2. Len(ctl) \in Nat /\ Len(rsp) \in Nat
    <3>1. ctl \in Seq(CtlMsgs) /\ rsp \in Seq(RspMsgs)
      BY <2>1 DEF TypeOK
    <3>2. QED
      BY <3>1
  <2>3. UNCHANGED <<bus, dev, sus, mbdata>>
    BY DEF FwRead, susVars
  <2>4. QED
    BY <2>1, <2>2, <2>3, Numbers
<1>1. /\ Reads /\ Len(ctl) >= 1 /\ 1 \in 1..Len(ctl)
      /\ \A k \in 1..Len(ctl') : k + 1 \in 1..Len(ctl) /\ ctl'[k] = ctl[k + 1] /\ k + 1 # 1
      /\ \A k \in 1..Len(ctl) : k # 1 => k - 1 \in 1..Len(ctl') /\ ctl'[k - 1] = ctl[k]
  <2>1. Reads
    BY <1>0, FwReadEffect
  <2>2. QED
    BY <1>0, <2>1 DEF Reads
<1>2. \A m : None(ctl, m) => None(ctl', m)
  BY <1>1 DEF None
<1>3. HostKnows'
  BY <1>0 DEF Agreed, HostKnows
<1>4. ASSUME None(rsp, "d3ack") => None(rsp', "d3ack") PROVE InformOnce'
  <2> SUFFICES ASSUME NEW k \in 1..Len(ctl'), ctl'[k].m = "d3"
               PROVE  /\ sus' = "informed" /\ ~mbdata' /\ None(rsp', "d3ack")
                      /\ \A j \in 1..Len(ctl') : j # k => ctl'[j].m # "d3"
                      /\ \A j \in 1..Len(ctl') : ctl'[j].m = "d0" => j < k
    BY DEF InformOnce
  <2>1. k + 1 \in 1..Len(ctl) /\ ctl[k + 1].m = "d3"
    BY <1>1
  <2>2. /\ sus = "informed" /\ ~mbdata /\ None(rsp, "d3ack")
        /\ \A j \in 1..Len(ctl) : j # k + 1 => ctl[j].m # "d3"
        /\ \A j \in 1..Len(ctl) : ctl[j].m = "d0" => j < k + 1
    BY <2>1 DEF Agreed, InformOnce
  <2>3. \A j \in 1..Len(ctl') : (j # k => j + 1 # k + 1) /\ (j + 1 < k + 1 => j < k)
    OBVIOUS
  <2>4. sus' = "informed" /\ ~mbdata' /\ None(rsp', "d3ack")
    BY <1>0, <1>4, <2>2
  <2>5. \A j \in 1..Len(ctl') : j # k => ctl'[j].m # "d3"
    BY <1>1, <2>2, <2>3
  <2>6. \A j \in 1..Len(ctl') : ctl'[j].m = "d0" => j < k
    BY <1>1, <2>2, <2>3
  <2>7. QED
    BY <2>4, <2>5, <2>6
<1>5. CASE ctl[1].m \notin {"d3", "d0"}
  <2>1. fw'.awake = fw.awake /\ (rsp' = rsp \/ Says("answer", ctl[1].t))
    <3>1. CASE ctl[1].m = "ioctl"
      <4>1. /\ fw.has["resp"] > 0 /\ Says("answer", ctl[1].t)
            /\ fw' = [fw EXCEPT !.has["resp"] = fw.has["resp"] - 1]
        BY <1>0, <3>1, FwReadEffect
      <4>2. QED
        BY <1>0, <4>1
    <3>2. CASE ctl[1].m \in {"resp", "event"}
      <4>1. rsp' = rsp /\ fw' = [fw EXCEPT !.has[ctl[1].m] = fw.has[ctl[1].m] + 1]
        BY <1>0, <3>2, FwReadEffect
      <4>2. QED
        BY <1>0, <4>1
    <3>3. CASE ctl[1].m \notin {"ioctl", "resp", "event"}
      BY <1>0, <1>5, <3>3, FwReadEffect
    <3>4. QED
      BY <3>1, <3>2, <3>3
  <2>2. \A k \in 1..Len(rsp') : rsp'[k].m = "d3ack" => k \in 1..Len(rsp) /\ rsp'[k] = rsp[k]
    <3>1. \E e \in {0} : \A k \in 1..Len(rsp') :
            rsp'[k].m = "d3ack" => k + e \in 1..Len(rsp) /\ rsp'[k] = rsp[k + e]
      <4>1. CASE rsp' = rsp
        <5>1. \A k \in 1..Len(rsp) : k + 0 = k
          BY <1>0
        <5>2. QED
          BY <4>1, <5>1
      <4>2. CASE Says("answer", ctl[1].t)
        <5>1. rsp'[Len(rsp) + 1].m = "answer"
          BY <4>2 DEF Says, Msg
        <5>2. QED
          BY <1>0, <4>2, <5>1 DEF Says
      <4>3. QED
        BY <2>1, <4>1, <4>2
    <3>2. \A k \in 1..Len(rsp') : k + 0 = k
      OBVIOUS
    <3>3. QED
      BY <3>1, <3>2
  <2>3. None(rsp, "d3ack") => None(rsp', "d3ack")
    BY <2>2 DEF None
  <2>4. AckOnce'
    BY <1>0, <1>2, <2>1, <2>2 DEF Agreed, AckOnce
  <2>5. AckTrue'
    BY <1>0, <1>2, <2>1, <2>3 DEF Agreed, AckTrue, Asleep
  <2>6. ToldToWake'
    <3> SUFFICES ASSUME sus = "no", ~fw.awake PROVE Contains(ctl', Msg("d0", 0))
      BY <1>0, <2>1 DEF ToldToWake
    <3>1. PICK i \in 1..Len(ctl) : ctl[i] = Msg("d0", 0)
      BY DEF Agreed, ToldToWake, Contains
    <3>2. i # 1
      BY <1>5, <3>1 DEF Msg
    <3>3. QED
      BY <1>1, <3>1, <3>2 DEF Contains
  <2>7. QED
    BY <1>3, <1>4, <2>3, <2>4, <2>5, <2>6 DEF Agreed
<1>6. CASE ctl[1].m = "d0"
  <2>1. rsp' = rsp /\ fw'.awake = TRUE
    BY <1>0, <1>6, FwReadEffect
  <2>2. ~None(ctl, "d0")
    BY <1>1, <1>6 DEF None
  <2>3. \A k \in 1..Len(rsp) : rsp[k].m # "d3ack"
    BY <2>2 DEF Agreed, AckOnce
  <2>4. ~(sus = "asleep" \/ (sus = "informed" /\ mbdata))
    BY <2>2 DEF Agreed, AckTrue, Asleep
  <2>5. AckOnce' /\ AckTrue' /\ ToldToWake'
    BY <1>0, <2>1, <2>3, <2>4 DEF AckOnce, AckTrue, ToldToWake
  <2>6. QED
    BY <1>3, <1>4, <2>1, <2>5 DEF Agreed
<1>7. CASE ctl[1].m = "d3"
  <2>1. Says("d3ack", 0) /\ fw'.awake = FALSE
    BY <1>0, <1>7, FwReadEffect
  <2>2. /\ sus = "informed" /\ ~mbdata /\ None(rsp, "d3ack")
        /\ \A j \in 1..Len(ctl) : j # 1 => ctl[j].m # "d3"
        /\ \A j \in 1..Len(ctl) : ctl[j].m = "d0" => j < 1
    BY <1>1, <1>7 DEF Agreed, InformOnce
  <2>3. None(ctl', "d3")
    BY <1>1, <2>2 DEF None
  <2>4. None(ctl', "d0")
    <3>1. \A j \in 1..Len(ctl) : ~(j < 1)
      BY <1>0
    <3>2. QED
      BY <1>1, <2>2, <3>1 DEF None
  <2>5. \A k \in 1..Len(rsp') : rsp'[k].m = "d3ack" => k = Len(rsp) + 1
    BY <1>0, <2>1, <2>2 DEF Says, None
  <2>6. InformOnce'
    BY <2>3 DEF InformOnce, None
  <2>7. AckOnce'
    BY <1>0, <2>1, <2>2, <2>3, <2>4, <2>5 DEF AckOnce
  <2>8. AckTrue' /\ ToldToWake'
    BY <1>0, <2>2 DEF AckTrue, ToldToWake
  <2>9. QED
    BY <1>3, <2>6, <2>7, <2>8 DEF Agreed
<1>8. QED
  BY <1>5, <1>6, <1>7

LEMMA SleepStep == ASSUME Typed, TypeOK', SleepInv, [Next]_vars PROVE SleepInv'
<1>0. /\ TypeOK /\ Len(ctl) \in Nat /\ Len(rsp) \in Nat /\ late \in [cmd : Nat, sus : Nat]
      /\ fw \in [has : [Kinds -> Nat], awake : BOOLEAN]
  <2>1. TypeOK
    BY DEF Typed
  <2>2. Len(ctl) \in Nat /\ Len(rsp) \in Nat
    <3>1. ctl \in Seq(CtlMsgs) /\ rsp \in Seq(RspMsgs)
      BY <2>1 DEF TypeOK
    <3>2. QED
      BY <3>1
  <2>3. QED
    BY <2>1, <2>2, Numbers
<1>1. CASE D3Timeout
  <2>1. late'.sus = late.sus + 1 /\ late.sus \in Nat
    BY <1>0, <1>1 DEF D3Timeout
  <2>2. late'.sus # 0
    BY <2>1
  <2>3. QED
    BY <2>2 DEF SleepInv
<1>2. CASE ~D3Timeout
  <2>1. late'.sus = late.sus
    BY <1>0, <1>2 DEF Next, Caller, CmdCheck, CmdSend, CmdNoRoom, CmdTake, CmdTimeout, Firmware, FwRead, FwEvent,
       FwFrame, FwDeepSleep, Interrupt, RxAnswer, RxEvent, RxFrame, RxD3Ack, RxDeepSleep, Suspend, EnterD3,
       D3Acked, LeaveD3, vars
  <2> SUFFICES ASSUME Agreed PROVE Agreed'
    BY <2>1 DEF SleepInv
  <2>2. CASE Caller
    <3>1. UNCHANGED <<rsp, fw, bus, dev, sus, mbdata>>
      BY <2>2 DEF Caller, CmdCheck, CmdSend, CmdNoRoom, CmdTake, CmdTimeout, ringVars, susVars
    <3>2. ctl' = ctl \/ Grows("ioctl", 1)
      BY <2>2, Moves DEF Caller, CmdCheck, CmdNoRoom, CmdTake, CmdTimeout, ringVars
    <3>3. QED
      BY <3>1, <3>2, QuietSleep
  <2>3. CASE FwEvent \/ FwDeepSleep
    <3>1. Says("event", 0) \/ Says("ds", 0)
      BY <2>3, Moves
    <3>2. UNCHANGED <<ctl, fw.awake, bus, dev, sus, mbdata>>
      BY <1>0, <2>3 DEF FwEvent, FwDeepSleep, susVars
    <3>3. QED
      BY <3>1, <3>2, QuietSleep
  <2>4. CASE FwFrame \/ RxFrame \/ UNCHANGED vars
    <3>1. UNCHANGED <<ctl, rsp, fw.awake, bus, dev, sus, mbdata>>
      <4>1. CASE FwFrame
        BY <1>0, <4>1 DEF FwFrame, susVars
      <4>2. CASE RxFrame
        <5>1. PICK n : fw' = [fw EXCEPT !.has["data"] = n]
          BY <4>2 DEF RxFrame
        <5>2. QED
          BY <1>0, <4>2, <5>1 DEF RxFrame, susVars
      <4>3. CASE UNCHANGED vars
        BY <4>3 DEF vars, ringVars, susVars
      <4>4. QED
        BY <2>4, <4>1, <4>2, <4>3
    <3>2. QED
      BY <3>1, QuietSleep
  <2>5. CASE RxAnswer \/ RxEvent
    <3>1. UNCHANGED <<fw, bus, dev, sus, mbdata>>
      BY <2>5 DEF RxAnswer, RxEvent, susVars
    <3>2. PICK m \in {"answer", "event"}, k \in {"resp", "event"}, n \in Nat : Takes(m) /\ Grows(k, n)
      BY <2>5, Moves
    <3>3. QED
      BY <3>1, <3>2, QuietSleep
  <2>6. CASE RxDeepSleep
    <3>1. UNCHANGED <<fw, bus, dev, sus, mbdata>>
      BY <2>6 DEF RxDeepSleep, susVars
    <3>2. Takes("ds") /\ (ctl' = ctl \/ Grows("dsack", 1))
      BY <2>6, Moves
    <3>3. QED
      BY <3>1, <3>2, QuietSleep
  <2>7. CASE FwRead
    BY <2>7, ReadSleep
  <2>8. CASE RxD3Ack
    <3>1. /\ Takes("d3ack") /\ ctl' = ctl /\ mbdata' = TRUE /\ UNCHANGED <<fw, bus, dev, sus>>
      BY <2>8, Moves DEF RxD3Ack
    <3>2. 1 \in 1..Len(rsp) /\ rsp[1].m = "d3ack"
      BY <1>0, <3>1 DEF Takes
    <3>3. /\ sus = "informed" /\ ~fw.awake /\ None(ctl, "d0") /\ None(ctl, "d3")
          /\ \A j \in 1..Len(rsp) : j # 1 => rsp[j].m # "d3ack"
      BY <3>2 DEF Agreed, AckOnce
    <3>4. \A k \in 1..Len(rsp') : k + 1 \in 1..Len(rsp) /\ k + 1 # 1 /\ rsp'[k] = rsp[k + 1]
      BY <1>0, <3>1 DEF Takes
    <3>5. None(rsp', "d3ack") /\ None(ctl', "d0") /\ None(ctl', "d3")
      BY <3>1, <3>3, <3>4 DEF None
    <3>6. HostKnows' /\ AckTrue' /\ ToldToWake'
      BY <3>1, <3>3, <3>5 DEF Agreed, HostKnows, AckTrue, Asleep, ToldToWake
    <3>7. InformOnce' /\ AckOnce'
      BY <3>5 DEF InformOnce, AckOnce, None
    <3>8. QED
      BY <3>6, <3>7 DEF Agreed
  <2>9. CASE EnterD3
    <3>1. /\ sus = "no" /\ sus' = "informed" /\ bus' = FALSE /\ mbdata' = FALSE
          /\ UNCHANGED <<rsp, fw, dev>> /\ (ctl' = ctl \/ Grows("d3", 1))
      BY <2>9, Moves DEF EnterD3, ForgetAck
    <3>2. None(rsp, "d3ack") /\ None(ctl, "d3")
      BY <3>1 DEF Agreed, InformOnce, AckOnce, None
    <3>3. \A k \in 1..Len(ctl') : k \in 1..Len(ctl) \/ (k = Len(ctl) + 1 /\ ctl'[k].m = "d3")
      BY <1>0, <3>1 DEF Grows
    <3>4. \A k \in 1..Len(ctl) : ctl'[k] = ctl[k]
      BY <3>1 DEF Grows
    <3>5. None(rsp', "d3ack") /\ AckOnce'
      BY <3>1, <3>2 DEF None, AckOnce
    <3>6. HostKnows' /\ AckTrue' /\ ToldToWake'
      BY <3>1 DEF Agreed, HostKnows, AckTrue, ToldToWake
    <3>7. ASSUME NEW k \in 1..Len(ctl'), ctl'[k].m = "d3"
          PROVE  /\ sus' = "informed" /\ ~mbdata' /\ None(rsp', "d3ack")
                 /\ \A j \in 1..Len(ctl') : j # k => ctl'[j].m # "d3"
                 /\ \A j \in 1..Len(ctl') : ctl'[j].m = "d0" => j < k
      <4>1. k = Len(ctl) + 1
        BY <3>2, <3>3, <3>4, <3>7 DEF None
      <4>2. \A j \in 1..Len(ctl') : j # k => j \in 1..Len(ctl) /\ ctl'[j].m # "d3" /\ j < k
        BY <1>0, <3>2, <3>3, <3>4, <4>1 DEF None
      <4>3. QED
        BY <3>1, <3>5, <3>7, <4>2
    <3>8. QED
      BY <3>5, <3>6, <3>7 DEF Agreed, InformOnce
  <2>10. CASE D3Acked
    <3>1. /\ sus = "informed" /\ mbdata /\ sus' = "asleep" /\ dev' = FALSE
          /\ UNCHANGED <<ctl, rsp, fw, bus, mbdata>>
      BY <2>10 DEF D3Acked, ringVars
    <3>2. Asleep
      BY <3>1 DEF Agreed, AckTrue
    <3>3. QED
      BY <3>1, <3>2 DEF Agreed, HostKnows, InformOnce, AckOnce, AckTrue, Asleep, ToldToWake, None
  <2>11. CASE LeaveD3
    <3>1. /\ sus = "asleep" /\ sus' = "no" /\ dev' = TRUE /\ bus' = TRUE /\ UNCHANGED <<rsp, fw, mbdata>>
          /\ Grows("d0", 1) /\ ctl'[Len(ctl) + 1] = Msg("d0", 0)
      BY <2>11, Moves DEF LeaveD3
    <3>2. None(ctl, "d3") /\ None(rsp, "d3ack")
      BY <3>1 DEF Agreed, AckTrue, Asleep
    <3>3. None(ctl', "d3")
      BY <1>0, <3>1, <3>2 DEF None, Grows
    <3>4. Contains(ctl', Msg("d0", 0))
      BY <1>0, <3>1 DEF Contains, Grows
    <3>5. QED
      BY <3>1, <3>2, <3>3, <3>4 DEF Agreed, HostKnows, InformOnce, AckOnce, AckTrue, ToldToWake, None
  <2>12. QED
    BY <1>2, <2>2, <2>3, <2>4, <2>5, <2>6, <2>7, <2>8, <2>9, <2>10, <2>11
       DEF Next, Firmware, Interrupt, Suspend
<1>3. QED
  BY <1>1, <1>2

-----------------------------------------------------------------------------
LEMMA InitIInv == Init => IInv
<1> SUFFICES ASSUME Init PROVE IInv
  OBVIOUS
<1> USE DEF Init
<1>1. /\ {MaxResp, MaxEvent, MaxRx, Threshold} \subseteq Nat \ {0} /\ Threshold <= MaxRx
      /\ \A k \in Kinds : MaxOf[k] \in Nat
      /\ MaxOf["resp"] = MaxResp /\ MaxOf["event"] = MaxEvent /\ MaxOf["data"] = MaxRx
  BY Sizes DEF MaxOf, Kinds
<1>2. \A m : Count(ctl, m) = 0 /\ Count(rsp, m) = 0
  <2>1. \A m : {i \in DOMAIN ctl : ctl[i].m = m} = {} /\ {i \in DOMAIN rsp : rsp[i].m = m} = {}
    OBVIOUS
  <2>2. QED
    BY <2>1, FS_EmptySet DEF Count
<1>3. TypeOK
  <2>1. MaxOf \in [Kinds -> Nat]
    BY <1>1 DEF MaxOf, Kinds
  <2>2. post \in [Kinds -> Nat] /\ fw \in [has : [Kinds -> Nat], awake : BOOLEAN]
    BY <2>1
  <2>3. ids \in Nat
    BY <1>1
  <2>4. ctl \in Seq(CtlMsgs) /\ rsp \in Seq(RspMsgs) /\ hidden \in 0..Len(ctl)
    OBVIOUS
  <2>5. /\ answer \in [t : Nat, unread : BOOLEAN] /\ late \in [cmd : Nat, sus : Nat]
        /\ cmd \in {"none", "checked", "waiting"} /\ sus \in {"no", "informed", "asleep"}
        /\ reqid \in Nat /\ slip \in Int /\ rxc \in Nat /\ refused \in Nat
        /\ {completed, bus, dev, mbdata} \subseteq BOOLEAN
    <3>1. [t |-> 0, unread |-> FALSE] \in [t : Nat, unread : BOOLEAN]
          /\ [cmd |-> 0, sus |-> 0] \in [cmd : Nat, sus : Nat]
      OBVIOUS
    <3>2. answer \in [t : Nat, unread : BOOLEAN] /\ late \in [cmd : Nat, sus : Nat]
      BY <3>1
    <3>3. {completed, bus, dev, mbdata} \subseteq BOOLEAN
      OBVIOUS
    <3>4. cmd = "none" /\ sus = "no" /\ reqid = 0 /\ slip = 0 /\ rxc = 0 /\ refused = 0
      OBVIOUS
    <3> HIDE DEF Init
    <3>5. QED
      BY <3>2, <3>3, <3>4
  <2> HIDE DEF Init
  <2>6. QED
    BY <2>2, <2>3, <2>4, <2>5 DEF TypeOK
<1>4. Len(ctl) = 0 /\ Len(rsp) = 0
  OBVIOUS
<1>5. InOrder
  BY <1>4 DEF InOrder
<1>6. SlipInv
  BY DEF SlipInv, Owed
<1>7. CountsAgree
  BY <1>1, <1>2 DEF CountsAgree
<1>8. LostInv
  <2>1. Lost = 0
    BY <1>1 DEF Lost
  <2>2. QED
    BY <2>1 DEF LostInv, Unread, Waits
<1>9. Fed
  BY <1>1 DEF Fed
<1>10. SleepInv
  BY <1>4 DEF SleepInv, Agreed, HostKnows, InformOnce, AckOnce, AckTrue, ToldToWake
<1>11. QED
  BY <1>3, <1>5, <1>6, <1>7, <1>8, <1>9, <1>10 DEF IInv

LEMMA StepIInv == IInv /\ [Next]_vars => IInv'
<1> SUFFICES ASSUME IInv, [Next]_vars PROVE IInv'
  OBVIOUS
<1>1. Typed /\ InOrder /\ SlipInv /\ Fed /\ SleepInv
  BY DEF IInv, Typed
<1>2. TypeOK' /\ CountsAgree'
  BY <1>1, TypeStep
<1>3. InOrder' /\ SlipInv' /\ LostInv'
  BY <1>1, <1>2, OrderStep, SlipStep, LostStep
<1>4. Fed' /\ SleepInv'
  BY <1>1, <1>2, FedStep, SleepStep
<1>5. QED
  BY <1>2, <1>3, <1>4 DEF IInv

LEMMA Inductive == Spec => []IInv
  BY InitIInv, StepIInv, PTL DEF Spec

\* The state is well typed: in particular no count of buffers or of packet ids
\* goes below zero, and what is hidden of the control ring is part of it.
THEOREM TypeCorrect == Spec => []TypeOK
<1>1. IInv => TypeOK
  BY DEF IInv
<1>2. QED
  BY <1>1, Inductive, PTL

\* A command is given its own answer or that of a command given up before it,
\* never one of a later command, and never from further back than commands were
\* given up.
THEOREM SlipIsBounded == Spec => []SlipBounded
<1>1. IInv => SlipBounded
  BY DEF IInv, SlipInv, SlipBounded
<1>2. QED
  BY <1>1, Inductive, PTL

\* Every posted buffer is with the firmware, on its way to it or on its way
\* back, and packet ids leak only with answers never read, at most one for each
\* command given up.
THEOREM NoBufferLost == Spec => []BuffersAccounted
<1>1. ASSUME IInv PROVE BuffersAccounted
  <2>1. /\ reqid \in Nat /\ ids \in Nat /\ answer.t \in Nat /\ late.cmd \in Nat
        /\ post["resp"] \in Nat /\ post["event"] \in Nat /\ post["data"] \in Nat
        /\ answer.unread \in BOOLEAN
    BY <1>1, Numbers DEF IInv
  <2>2. Lost \in Int /\ Unread \in {0, 1} /\ Waits \in {0, 1}
    BY <2>1 DEF Lost, Unread, Waits
  <2>3. reqid - answer.t >= 0 /\ (Waits = 1 => Unread = 1 \/ reqid - answer.t >= 1)
    BY <1>1, <2>1 DEF IInv, InOrder, SlipInv, Waits, Unread
  <2>4. Lost >= 0 /\ Lost + Unread + (reqid - answer.t) <= late.cmd + Waits
    BY <1>1 DEF IInv, LostInv
  <2>5. Lost <= late.cmd
    BY <2>1, <2>2, <2>3, <2>4
  <2>6. QED
    BY <1>1, <2>4, <2>5 DEF IInv, CountsAgree, BuffersAccounted
<1>2. QED
  BY <1>1, Inductive, PTL

\* However frames, refusals and refills interleave, the receive buffers posted
\* fall below what the driver aims at only by what the allocator refused.
THEOREM ReceiverIsFed == Spec => []Fed
<1>1. IInv => Fed
  BY DEF IInv
<1>2. QED
  BY <1>1, Inductive, PTL

\* Until a suspension is given up, a device the host takes for asleep sleeps,
\* and one behind a bus that is up is awake or has its wake-up in the ring.
THEOREM HostAndDeviceAgree == Spec => []PowerAgrees
<1>1. ASSUME IInv PROVE PowerAgrees
  <2>1. CASE late.sus = 0
    <3>1. HostKnows /\ AckTrue /\ ToldToWake
      BY <1>1, <2>1 DEF IInv, SleepInv, Agreed
    <3>2. QED
      BY <3>1 DEF HostKnows, AckTrue, ToldToWake, Asleep, PowerAgrees
  <2>2. CASE late.sus # 0
    BY <2>2 DEF PowerAgrees
  <2>3. QED
    BY <2>1, <2>2
<1>2. QED
  BY <1>1, Inductive, PTL
=============================================================================
