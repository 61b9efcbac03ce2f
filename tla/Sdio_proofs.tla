----------------------------- MODULE Sdio_proofs -----------------------------
(***************************************************************************)
(* Proofs about modules Sdio and FwSignal, what brcmfmac keeps between the   *)
(* stack and a device on the SDIO bus: the bus data path first, then the     *)
(* firmware signalling above it.  For any sizes, windows, thresholds and     *)
(* credits, and any number of commands, frames, packets and faults.          *)
(***************************************************************************)
EXTENDS Sdio, FwSignal, FiniteSetTheorems, WellFoundedInduction, TLAPS

-----------------------------------------------------------------------------
(* The control slot.  A frame in it was not sent, and its caller still       *)
(* waits; a slot emptied under a waiting caller tells it the truth.          *)
SlotType ==
  /\ stat \in BOOLEAN /\ ctlerr \in BOOLEAN /\ onbus \in BOOLEAN
  /\ cmd \in {"idle", "sending", "late", "asked"}

Waiting == cmd \in {"sending", "late"}

SlotInv ==
  /\ SlotType
  /\ stat => Waiting /\ ~onbus
  /\ Waiting /\ ~stat => (ctlerr <=> ~onbus)
  /\ cmd # "idle" => res = "none"
  /\ CtlOutcome

LEMMA SlotKept ==
  ASSUME SlotInv, UNCHANGED <<stat, ctlerr, onbus, cmd, res>> PROVE SlotInv'
BY DEF SlotInv, SlotType, Waiting, CtlOutcome

LEMMA CallerStep ==
  ASSUME SlotInv,
         CmdSend \/ CmdSent \/ CmdLate \/ CmdTimeout \/ CmdAnswer \/ CmdNoAnswer
  PROVE  SlotInv'
<1>1. CASE CmdSend
  BY <1>1 DEF CmdSend, SlotInv, SlotType, Waiting, CtlOutcome
<1>2. CASE CmdSent
  BY <1>2 DEF CmdSent, ctlVars, SlotInv, SlotType, Waiting, CtlOutcome
<1>3. CASE CmdLate
  BY <1>3 DEF CmdLate, ctlVars, SlotInv, SlotType, Waiting, CtlOutcome
<1>4. CASE CmdTimeout
  BY <1>4 DEF CmdTimeout, StillArmed, SlotInv, SlotType, Waiting, CtlOutcome
<1>5. CASE CmdAnswer
  BY <1>5 DEF CmdAnswer, ctlVars, SlotInv, SlotType, Waiting, CtlOutcome
<1>6. CASE CmdNoAnswer
  BY <1>6 DEF CmdNoAnswer, ctlVars, SlotInv, SlotType, Waiting, CtlOutcome
<1>7. QED
  BY <1>1, <1>2, <1>3, <1>4, <1>5, <1>6

LEMMA EmptyingStep == ASSUME SlotInv, TxControl \/ DpcEnd PROVE SlotInv'
<1>1. cmd' = cmd /\ res' = res
  BY DEF TxControl, DpcEnd, cmdVars
<1>2. ASSUME stat, stat' = FALSE, NEW ok \in BOOLEAN, ctlerr' = ~ok,
             onbus' = IF ok THEN TRUE ELSE onbus
      PROVE  SlotInv'
  <2>1. Waiting /\ ~onbus /\ res = "none"
    BY <1>2 DEF SlotInv, SlotType, Waiting
  <2>2. cmd' \in {"sending", "late"} /\ res' = "none"
    BY <1>1, <2>1 DEF Waiting
  <2>3. onbus' \in BOOLEAN /\ ctlerr' \in BOOLEAN /\ (ctlerr' <=> ~onbus')
    <3>1. CASE ok
      BY <1>2, <3>1
    <3>2. CASE ~ok
      BY <1>2, <2>1, <3>2 DEF SlotInv, SlotType
    <3>3. QED
      BY <3>1, <3>2
  <2>4. QED
    BY <1>2, <2>2, <2>3 DEF SlotInv, SlotType, Waiting, CtlOutcome
<1>3. CASE TxControl
  <2>1. stat /\ stat' = FALSE
    BY <1>3 DEF TxControl, Held
  <2>2. \E ok \in BOOLEAN : ctlerr' = ~ok /\ onbus' = IF ok THEN TRUE ELSE onbus
    BY <1>3, Zenon DEF TxControl
  <2>3. QED
    BY <1>2, <2>1, <2>2, Zenon
<1>4. CASE DpcEnd
  <2>1. onbus' = onbus
    BY <1>4 DEF DpcEnd
  <2>2. \/ stat' = stat /\ ctlerr' = ctlerr
        \/ stat' = FALSE /\ ctlerr' = (ctlerr \/ stat)
    BY <1>4 DEF DpcEnd
  <2>3. CASE stat /\ stat' = FALSE /\ ctlerr' = (ctlerr \/ stat)
    <3>1. ctlerr' = ~FALSE /\ onbus' = IF FALSE THEN TRUE ELSE onbus
      BY <2>1, <2>3
    <3>2. QED
      BY <1>2, <2>3, <3>1, Zenon
  <2>4. CASE stat' = stat /\ ctlerr' = ctlerr
    BY <1>1, <2>1, <2>4, SlotKept
  <2>5. QED
    <3>1. CASE ~stat
      BY <2>2, <2>4, <3>1 DEF SlotInv, SlotType
    <3>2. QED
      BY <2>2, <2>3, <2>4, <3>1 DEF SlotInv, SlotType
<1>5. QED
  BY <1>3, <1>4

LEMMA SlotStep == ASSUME SlotInv, [Next]_vars PROVE SlotInv'
<1>1. CASE UNCHANGED <<stat, ctlerr, onbus, cmd, res>>
  BY <1>1, SlotKept
<1>2. QED
  BY <1>1, CallerStep, EmptyingStep
     DEF Next, vars, ctlVars, cmdVars, TxData, Isr, WorkStart, WorkEnd, Status, RxNone, RxData,
         RxControl, RxFail, RxDone, DpcControl, TxControlGone, DpcData, TxFrames, TxUnflow,
         TxUnblock, WatchdogIdle, WatchdogSleep, DevFrame, DevNakHandled, DevClock

(* What the caller of a command is told is what happened to its control      *)
(* frame, whoever empties the slot: the dpc that sends it, the dpc that gives*)
(* up after an error, or the caller whose wait is over.                      *)
THEOREM OutcomeIsTrue == Spec => []CtlOutcome
<1>1. Init => SlotInv
  BY DEF Init, SlotInv, SlotType, Waiting, CtlOutcome
<1>2. SlotInv /\ [Next]_vars => SlotInv'
  BY SlotStep
<1>3. SlotInv => CtlOutcome
  BY DEF SlotInv
<1>4. QED
  BY <1>1, <1>2, <1>3, PTL DEF Spec

-----------------------------------------------------------------------------
LEMMA ServedStep == ASSUME TriggerServed, [Next]_vars PROVE TriggerServed'
<1>1. CASE TxData \/ CmdSend
  BY <1>1 DEF TxData, CmdSend, Trigger, TriggerServed, dpcVars
<1>2. CASE Isr \/ DevClock
  BY <1>2 DEF Isr, DevClock, TriggerServed
<1>3. CASE WorkStart \/ WorkEnd \/ Status \/ DpcEnd
  BY <1>3 DEF WorkStart, WorkEnd, Status, DpcEnd, TriggerServed, runVars
<1>4. CASE /\ UNCHANGED runVars
           /\ (pc # "idle" => pc' # "idle")
  BY <1>4 DEF TriggerServed, runVars
<1>5. CASE \/ CmdSent \/ CmdLate \/ CmdTimeout \/ CmdAnswer \/ CmdNoAnswer \/ WatchdogIdle
           \/ WatchdogSleep \/ DevFrame \/ DevNakHandled \/ UNCHANGED vars
  BY <1>4, <1>5 DEF CmdSent, CmdLate, CmdTimeout, CmdAnswer, CmdNoAnswer, WatchdogIdle,
                    WatchdogSleep, DevFrame, DevNakHandled, vars, dpcVars
<1>6. CASE \/ RxNone \/ RxData \/ RxControl \/ RxFail \/ RxDone \/ DpcControl \/ TxControl
           \/ TxControlGone \/ DpcData \/ TxFrames \/ TxUnflow \/ TxUnblock
  BY <1>4, <1>6 DEF RxNone, RxData, RxControl, RxFail, RxDone, DpcControl, TxControl, TxControlGone,
                    DpcData, TxFrames, TxUnflow, TxUnblock
<1>7. QED
  BY <1>1, <1>2, <1>3, <1>5, <1>6 DEF Next

(* No trigger of the dpc is lost between the flag its callers set and the    *)
(* work item they queue only when the flag was clear.                        *)
THEOREM NoTriggerLost == Spec => []TriggerServed
<1>1. Init => TriggerServed
  BY DEF Init, TriggerServed
<1>2. TriggerServed /\ [Next]_vars => TriggerServed'
  BY ServedStep
<1>3. QED
  BY <1>1, <1>2, PTL DEF Spec

-----------------------------------------------------------------------------
(* A NAK and its answer.  The mailbox bit is never left among the status     *)
(* bits kept between rounds, so it is in the device or its work was done.    *)
SkipInv ==
  /\ rxskip => nak \/ "mbox" \in line
  /\ "mbox" \notin ints

LEMMA SkipStep == ASSUME SkipInv, [Next]_vars PROVE SkipInv'
<1>1. CASE Status
  <2>1. PICK ok \in BOOLEAN :
          /\ line' = IF ipend /\ ok THEN {} ELSE line
          /\ rxskip' = Hostmail(Rstatus(ok)).skip
          /\ ints' = IF Hostmail(Rstatus(ok)).skip
                     THEN Hostmail(Rstatus(ok)).bits \ {"frame"}
                     ELSE Hostmail(Rstatus(ok)).bits
    BY <1>1 DEF Status
  <2>2. nak' = nak
    BY <1>1 DEF Status
  <2>3. CASE ipend /\ ok
    BY <2>1, <2>2, <2>3 DEF SkipInv, Hostmail, Rstatus
  <2>4. CASE ~(ipend /\ ok)
    BY <2>1, <2>2, <2>4 DEF SkipInv, Hostmail, Rstatus
  <2>5. QED
    BY <2>3, <2>4
<1>2. CASE RxFail
  <2>1. ints' = ints /\ line' = line
    BY <1>2 DEF RxFail, intVars
  <2>2. (rxskip' = TRUE /\ nak' = TRUE) \/ (rxskip' = rxskip /\ nak' = nak)
    BY <1>2 DEF RxFail
  <2>3. CASE rxskip' = TRUE /\ nak' = TRUE
    BY <2>1, <2>3 DEF SkipInv
  <2>4. CASE rxskip' = rxskip /\ nak' = nak
    BY <2>1, <2>4 DEF SkipInv
  <2>5. QED
    BY <2>2, <2>3, <2>4
<1>3. CASE RxDone \/ DpcEnd
  <2>1. rxskip' = rxskip /\ nak' = nak /\ line' = line
    BY <1>3 DEF RxDone, DpcEnd, rxVars, devVars
  <2>2. ints' \subseteq ints
    BY <1>3 DEF RxDone, DpcEnd
  <2>3. QED
    BY <2>1, <2>2 DEF SkipInv
<1>4. CASE DevFrame \/ DevNakHandled
  BY <1>4 DEF DevFrame, DevNakHandled, Raise, SkipInv, rxVars, intVars
<1>5. CASE /\ UNCHANGED <<rxskip, ints, nak, line>>
  BY <1>5 DEF SkipInv
<1>6. CASE \/ TxData \/ CmdSend \/ CmdSent \/ CmdLate \/ CmdTimeout \/ CmdAnswer
           \/ CmdNoAnswer \/ Isr \/ WorkStart \/ WorkEnd \/ UNCHANGED vars
  BY <1>5, <1>6 DEF TxData, CmdSend, CmdSent, CmdLate, CmdTimeout, CmdAnswer,
                    CmdNoAnswer, Isr, WorkStart, WorkEnd, vars, rxVars, intVars, devVars
<1>7. CASE \/ RxNone \/ RxData \/ RxControl \/ DpcControl \/ TxControl \/ TxControlGone
           \/ DpcData \/ TxFrames
  BY <1>5, <1>7 DEF RxNone, RxData, RxControl, DpcControl, TxControl, TxControlGone,
                    DpcData, TxFrames, rxVars, intVars, devVars
<1>8. CASE TxUnflow \/ TxUnblock \/ WatchdogIdle \/ WatchdogSleep \/ DevClock
  BY <1>5, <1>8 DEF TxUnflow, TxUnblock, WatchdogIdle, WatchdogSleep, DevClock,
                    rxVars, intVars, devVars
<1>9. QED
  BY <1>1, <1>2, <1>3, <1>4, <1>6, <1>7, <1>8 DEF Next

(* Reading does not stop for ever after a NAK: while rxskip is set the       *)
(* firmware still owes NAKHANDLED, or its bit waits in the device.           *)
THEOREM NakIsRemembered == Spec => []SkipEnds
<1>1. Init => SkipInv
  BY DEF Init, SkipInv
<1>2. SkipInv /\ [Next]_vars => SkipInv'
  BY SkipStep
<1>3. SkipInv => SkipEnds
  BY DEF SkipInv, SkipEnds
<1>4. QED
  BY <1>1, <1>2, <1>3, PTL DEF Spec

-----------------------------------------------------------------------------
(* The window.  Sequence numbers are compared modulo Wrap; the lemmas say    *)
(* what the remainders are for the differences that occur.                   *)
Ahead == (max - seq) % Wrap

WinInv ==
  /\ seq \in 0..(Wrap - 1) /\ max \in 0..(Wrap - 1)
  /\ Ahead <= Sane
  /\ pc = "ctlsend" => Ahead > 0

LEMMA Half == Wrap \in Nat \ {0} /\ Sane \in Nat \ {0} /\ Window \in Nat \ {0}
              /\ Window <= Sane /\ 2 * (Wrap \div 2) <= Wrap /\ Wrap \div 2 \in Nat
              /\ Sane < Wrap \div 2
<1>1. Wrap \in Nat \ {0} /\ Sane \in Nat \ {0} /\ Window \in Nat \ {0}
      /\ Window <= Sane /\ Sane < Wrap \div 2
  BY Sizes
<1>2. 2 * (Wrap \div 2) <= Wrap /\ Wrap \div 2 \in Nat
  BY <1>1
<1>3. QED
  BY <1>1, <1>2

LEMMA Mod0 == ASSUME NEW a \in 0..(Wrap - 1) PROVE a % Wrap = a
BY Half

LEMMA ModUp == ASSUME NEW a \in (-Wrap)..(-1) PROVE a % Wrap = a + Wrap
BY Half

LEMMA ModUp2 == ASSUME NEW a \in (-(2 * Wrap))..(-Wrap - 1) PROVE a % Wrap = a + 2 * Wrap
BY Half

LEMMA ModDown == ASSUME NEW a \in Wrap..(2 * Wrap - 1) PROVE a % Wrap = a - Wrap
BY Half

LEMMA AheadIs ==
  ASSUME NEW s \in 0..(Wrap - 1), NEW m \in 0..(Wrap - 1)
  PROVE  (m - s) % Wrap = IF m >= s THEN m - s ELSE m - s + Wrap
<1>1. CASE m >= s
  <2>1. m - s \in 0..(Wrap - 1)
    BY Half, <1>1
  <2>2. QED
    BY <1>1, <2>1, Mod0
<1>2. CASE ~(m >= s)
  <2>1. m - s \in (-Wrap)..(-1)
    BY Half, <1>2
  <2>2. QED
    BY <1>2, <2>1, ModUp
<1>3. QED
  BY <1>1, <1>2

LEMMA AheadType ==
  ASSUME NEW s \in 0..(Wrap - 1), NEW m \in 0..(Wrap - 1)
  PROVE  (m - s) % Wrap \in 0..(Wrap - 1)
<1>1. (m - s) % Wrap = IF m >= s THEN m - s ELSE m - s + Wrap
  BY AheadIs
<1>2. QED
  BY <1>1, Half

\* Within the window believed, what counts is whether it is empty.
LEMMA OpenIs ==
  ASSUME NEW s \in 0..(Wrap - 1), NEW m \in 0..(Wrap - 1), (m - s) % Wrap <= Sane
  PROVE  Open(m - s) <=> (m - s) % Wrap > 0
<1>1. (m - s) % Wrap = IF m >= s THEN m - s ELSE m - s + Wrap
  BY AheadIs
<1>2. m - s = 0 <=> (m - s) % Wrap = 0
  BY <1>1, Half
<1>3. (m - s) % Wrap \in 0..(Wrap - 1)
  BY AheadType
<1>4. (m - s) % Wrap < Wrap \div 2
  BY <1>3, Half
<1>5. QED
  BY <1>2, <1>3, <1>4 DEF Open

LEMMA AheadFacts ==
  ASSUME WinInv
  PROVE  /\ seq \in 0..(Wrap - 1) /\ max \in 0..(Wrap - 1)
         /\ Ahead = IF max >= seq THEN max - seq ELSE max - seq + Wrap
         /\ Ahead \in 0..(Wrap - 1) /\ Ahead <= Sane
         /\ txctl_ok <=> Ahead > 0
<1>1. seq \in 0..(Wrap - 1) /\ max \in 0..(Wrap - 1) /\ (max - seq) % Wrap <= Sane
  BY DEF WinInv, Ahead
<1>2. /\ Ahead = IF max >= seq THEN max - seq ELSE max - seq + Wrap
      /\ Ahead \in 0..(Wrap - 1)
  BY <1>1, AheadIs, AheadType DEF Ahead
<1>3. txctl_ok <=> Ahead > 0
  BY <1>1, OpenIs DEF txctl_ok, Ahead
<1>4. QED
  BY <1>1, <1>2, <1>3 DEF Ahead

LEMMA CtlOkNext == ASSUME WinInv' PROVE txctl_ok' <=> Ahead' > 0
<1>1. seq' \in 0..(Wrap - 1) /\ max' \in 0..(Wrap - 1) /\ (max' - seq') % Wrap <= Sane
  BY DEF WinInv, Ahead
<1>2. QED
  BY <1>1, OpenIs DEF txctl_ok, Ahead

LEMMA DataOk ==
  ASSUME WinInv, Reserve = 2, data_ok
  PROVE  Ahead > 0 /\ (stat => Ahead >= 2)
<1>1. /\ seq \in 0..(Wrap - 1) /\ max \in 0..(Wrap - 1)
      /\ Ahead = IF max >= seq THEN max - seq ELSE max - seq + Wrap
      /\ Ahead >= 0
  BY AheadFacts, Half
<1>2. CASE ~stat
  <2>1. data_ok <=> Open(max - seq - 0)
    BY <1>2 DEF data_ok
  <2>2. max - seq - 0 = max - seq
    BY <1>1, Half
  <2>3. QED
    BY <1>2, <2>1, <2>2, AheadFacts DEF txctl_ok
<1>3. CASE stat
  <2>1. /\ max - seq - 2 # 0
        /\ (max - seq - 2) % Wrap < Wrap \div 2
    BY <1>3 DEF data_ok, Open
  <2>2. ASSUME Ahead = 0 PROVE FALSE
    <3>1. max - seq - 2 \in (-Wrap)..(-1) /\ max - seq = 0
      BY <1>1, <2>2, Half
    <3>2. (max - seq - 2) % Wrap = max - seq - 2 + Wrap
      BY <3>1, ModUp
    <3>3. max - seq - 2 + Wrap >= Wrap \div 2
      BY <1>1, <3>1, Half
    <3>4. QED
      BY <1>1, <2>1, <3>2, <3>3, Half
  <2>3. ASSUME Ahead = 1 PROVE FALSE
    <3>1. CASE max >= seq
      <4>1. max - seq - 2 \in (-Wrap)..(-1) /\ max - seq = 1
        BY <1>1, <2>3, <3>1, Half
      <4>2. (max - seq - 2) % Wrap = max - seq - 2 + Wrap
        BY <4>1, ModUp
      <4>3. max - seq - 2 + Wrap >= Wrap \div 2
        BY <1>1, <4>1, Half
      <4>4. QED
        BY <1>1, <2>1, <4>2, <4>3, Half
    <3>2. CASE ~(max >= seq)
      <4>1. max - seq - 2 \in (-(2 * Wrap))..(-Wrap - 1) /\ max - seq - 2 = -Wrap - 1
        BY <1>1, <2>3, <3>2, Half
      <4>2. (max - seq - 2) % Wrap = max - seq - 2 + 2 * Wrap
        BY <4>1, ModUp2
      <4>3. max - seq - 2 + 2 * Wrap >= Wrap \div 2
        BY <1>1, <4>1, Half
      <4>4. QED
        BY <1>1, <2>1, <4>2, <4>3, Half
    <3>3. QED
      BY <3>1, <3>2
  <2>4. QED
    BY <1>1, <2>2, <2>3, Half
<1>4. QED
  BY <1>2, <1>3

LEMMA WindowGrows ==
  ASSUME WinInv, Header, seq' = seq
  PROVE  max' \in 0..(Wrap - 1) /\ Ahead' >= Ahead /\ Ahead' <= Sane
<1>1. PICK w \in Ahead .. Window :
        max' = IF (((seq + w) % Wrap) - seq) % Wrap > Sane THEN (seq + 2) % Wrap
                                                        ELSE (seq + w) % Wrap
  BY DEF Header, Ahead
<1>2. /\ seq \in 0..(Wrap - 1) /\ max \in 0..(Wrap - 1)
      /\ Ahead \in 0..(Wrap - 1)
  BY Half, AheadIs DEF WinInv, Ahead
<1>3. w \in 0..Sane /\ w >= Ahead /\ w < Wrap
  BY <1>1, <1>2, Half
<1> DEFINE m == (seq + w) % Wrap
<1>4. m = IF seq + w < Wrap THEN seq + w ELSE seq + w - Wrap
  <2>1. CASE seq + w < Wrap
    <3>1. seq + w \in 0..(Wrap - 1)
      BY <1>2, <1>3, <2>1, Half
    <3>2. QED
      BY <2>1, <3>1, Mod0
  <2>2. CASE ~(seq + w < Wrap)
    <3>1. seq + w \in Wrap..(2 * Wrap - 1)
      BY <1>2, <1>3, <2>2, Half
    <3>2. (seq + w) % Wrap = seq + w - Wrap
      BY <1>2, <1>3, <3>1, ModDown, Half
    <3>3. QED
      BY <2>2, <3>2
  <2>3. QED
    BY <2>1, <2>2
<1>5. m \in 0..(Wrap - 1)
  BY <1>2, <1>3, <1>4, Half
<1> HIDE DEF m
<1>6. (m - seq) % Wrap = w
  <2>1. (m - seq) % Wrap = IF m >= seq THEN m - seq ELSE m - seq + Wrap
    BY <1>2, <1>5, AheadIs
  <2>2. QED
    BY <1>2, <1>3, <1>4, <2>1, Half
<1>7. max' = m
  BY <1>1, <1>3, <1>6, Half DEF m
<1>8. QED
  BY <1>3, <1>5, <1>6, <1>7 DEF Ahead

LEMMA FramesSent ==
  ASSUME WinInv, NEW n \in Nat, n > 0, n <= Ahead, seq' = (seq + n) % Wrap, max' = max
  PROVE  seq' \in 0..(Wrap - 1) /\ Ahead' = Ahead - n
<1>1. /\ seq \in 0..(Wrap - 1) /\ max \in 0..(Wrap - 1)
      /\ Ahead = IF max >= seq THEN max - seq ELSE max - seq + Wrap
      /\ Ahead \in 0..(Wrap - 1)
  BY AheadFacts
<1>2. seq' = IF seq + n < Wrap THEN seq + n ELSE seq + n - Wrap
  <2>1. CASE seq + n < Wrap
    <3>1. seq + n \in 0..(Wrap - 1)
      BY <1>1, <2>1, Half
    <3>2. QED
      BY <2>1, <3>1, Mod0
  <2>2. CASE ~(seq + n < Wrap)
    <3>1. seq + n \in Wrap..(2 * Wrap - 1)
      BY <1>1, <2>2, Half
    <3>2. (seq + n) % Wrap = seq + n - Wrap
      BY <1>1, <3>1, ModDown, Half
    <3>3. QED
      BY <2>2, <3>2
  <2>3. QED
    BY <2>1, <2>2
<1>3. seq' \in 0..(Wrap - 1)
  BY <1>1, <1>2, Half
<1>4. (max' - seq') % Wrap = IF max' >= seq' THEN max' - seq' ELSE max' - seq' + Wrap
  BY <1>1, <1>3, AheadIs
<1>5. QED
  BY <1>1, <1>2, <1>3, <1>4, Half DEF Ahead

LEMMA BatchIs ==
  ASSUME txq \in Nat, txq > 0, WinInv, Ahead > 0
  PROVE  Batch \in 1..txq /\ Batch <= Ahead
<1>1. Glom \in Nat \ {0} /\ Ahead \in Nat
  BY Sizes, AheadFacts, Half
<1>2. CASE Glom = 1
  BY <1>1, <1>2 DEF Batch
<1>3. CASE Glom # 1
  <2> DEFINE S == {Glom, txq, Ahead}
  <2>1. \E x \in S : \A y \in S : x <= y
    BY <1>1
  <2>2. Min(S) \in S /\ \A y \in S : Min(S) <= y
    BY <2>1 DEF Min
  <2>3. Batch = Min(S)
    BY <1>3 DEF Batch, Ahead
  <2>4. QED
    BY <1>1, <2>2, <2>3
<1>4. QED
  BY <1>2, <1>3

LEMMA WinInit == Init => WinInv
<1> SUFFICES ASSUME Init PROVE WinInv
  OBVIOUS
<1>1. seq = Wrap - 1 /\ max = 0 /\ pc = "idle"
  BY DEF Init
<1>2. seq \in 0..(Wrap - 1) /\ max \in 0..(Wrap - 1) /\ ~(max >= seq)
  BY <1>1, Half
<1>3. Ahead = 1
  BY <1>1, <1>2, Half, AheadIs DEF Ahead
<1>4. QED
  BY <1>1, <1>2, <1>3, Half DEF WinInv

\* A step of the driver leaves the window alone, or is one of these.
WindowStep ==
  \/ RxData \/ RxControl
  \/ TxControl \/ TxFrames

LEMMA OtherSteps ==
  ASSUME [Next]_vars, ~WindowStep
  PROVE  seq' = seq /\ max' = max /\ (pc' = "ctlsend" => pc = "ctlsend" \/ DpcControl)
<1>1. CASE TxData \/ CmdSend \/ CmdSent \/ CmdLate \/ CmdTimeout \/ CmdAnswer \/ CmdNoAnswer
  BY <1>1 DEF TxData, CmdSend, CmdSent, CmdLate, CmdTimeout, CmdAnswer, CmdNoAnswer, winVars, dpcVars
<1>2. CASE Isr \/ WorkStart \/ WorkEnd \/ Status \/ RxNone \/ RxFail \/ RxDone
  BY <1>2 DEF Isr, WorkStart, WorkEnd, Status, RxNone, RxFail, RxDone, winVars, dpcVars
<1>3. CASE DpcControl \/ TxControlGone \/ DpcData \/ TxUnflow \/ TxUnblock \/ DpcEnd
  BY <1>3 DEF DpcControl, TxControlGone, DpcData, TxUnflow, TxUnblock, DpcEnd, winVars
<1>4. CASE WatchdogIdle \/ WatchdogSleep \/ DevFrame \/ DevNakHandled \/ DevClock \/ UNCHANGED vars
  BY <1>4 DEF WatchdogIdle, WatchdogSleep, DevFrame, DevNakHandled, DevClock, winVars, dpcVars, vars
<1>5. QED
  BY <1>1, <1>2, <1>3, <1>4 DEF Next, WindowStep

\* The window stays believable: what is sent is covered by the credits left.
LEMMA WinStep ==
  ASSUME Reserve = 2, txq \in Nat, WinInv, [Next]_vars PROVE WinInv'
<1>1. CASE ~WindowStep
  <2>1. seq' = seq /\ max' = max /\ (pc' = "ctlsend" => pc = "ctlsend" \/ DpcControl)
    BY <1>1, OtherSteps
  <2>2. Ahead' = Ahead
    BY <2>1 DEF Ahead
  <2>3. pc' = "ctlsend" => Ahead > 0
    <3>1. ASSUME DpcControl, pc' = "ctlsend" PROVE txctl_ok
      BY <3>1 DEF DpcControl
    <3>2. QED
      BY <2>1, <3>1, AheadFacts DEF WinInv
  <2>4. QED
    BY <2>1, <2>2, <2>3 DEF WinInv
<1>2. CASE RxData \/ RxControl
  <2>1. Header /\ seq' = seq /\ pc = "rx" /\ pc' = pc
    BY <1>2 DEF RxData, RxControl, Reading
  <2>2. QED
    BY <2>1, WindowGrows DEF WinInv
<1>3. ASSUME NEW n \in Nat, n > 0, n <= Ahead, seq' = (seq + n) % Wrap, max' = max,
             pc' # "ctlsend"
      PROVE  WinInv'
  <2>1. seq' \in 0..(Wrap - 1) /\ Ahead' = Ahead - n
    BY <1>3, FramesSent
  <2>2. Ahead' <= Sane
    BY <1>3, <2>1, AheadFacts, Half
  <2>3. QED
    BY <1>3, <2>1, <2>2 DEF WinInv
<1>4. CASE seq' = seq /\ max' = max /\ pc' # "ctlsend"
  BY <1>4 DEF WinInv, Ahead
<1>5. CASE TxControl
  <2>1. pc = "ctlsend" /\ pc' = "tx" /\ max' = max
    BY <1>5 DEF TxControl
  <2>2. seq' = seq \/ seq' = (seq + 1) % Wrap
    BY <1>5 DEF TxControl
  <2>3. 1 \in Nat /\ 1 > 0 /\ 1 <= Ahead
    BY <2>1, AheadFacts, Half DEF WinInv
  <2>4. QED
    BY <1>3, <1>4, <2>1, <2>2, <2>3
<1>6. CASE TxFrames
  <2>1. pc = "send" /\ pc' = pc /\ max' = max /\ txq > 0 /\ data_ok
    BY <1>6 DEF TxFrames
  <2>2. seq' = seq \/ seq' = (seq + Batch) % Wrap
    BY <1>6 DEF TxFrames
  <2>3. Batch \in Nat /\ Batch > 0 /\ Batch <= Ahead
    BY <2>1, DataOk, BatchIs
  <2>4. QED
    BY <1>3, <1>4, <2>1, <2>2, <2>3
<1>7. QED
  BY <1>1, <1>2, <1>5, <1>6 DEF WindowStep

\* A frame that waits in the control slot keeps a credit.
Credit == stat /\ stat' /\ txctl_ok => txctl_ok'

LEMMA CreditStep ==
  ASSUME Glom = 1, Reserve = 2, WinInv, WinInv', [Next]_vars
  PROVE  Credit
<1>1. (txctl_ok <=> Ahead > 0) /\ (txctl_ok' <=> Ahead' > 0)
  BY AheadFacts, CtlOkNext
<1>2. CASE ~WindowStep
  <2>1. seq' = seq /\ max' = max
    BY <1>2, OtherSteps
  <2>2. QED
    BY <1>1, <2>1 DEF Ahead, Credit
<1>3. CASE RxData \/ RxControl
  <2>1. Header /\ seq' = seq
    BY <1>3 DEF RxData, RxControl
  <2>2. Ahead' >= Ahead /\ Ahead \in Int /\ Ahead' \in Int
    <3>1. seq' \in 0..(Wrap - 1) /\ max' \in 0..(Wrap - 1)
      BY DEF WinInv
    <3>2. Ahead' \in 0..(Wrap - 1)
      BY <3>1, AheadType DEF Ahead
    <3>3. QED
      BY <2>1, <3>2, WindowGrows, AheadFacts, Half
  <2>3. QED
    BY <1>1, <2>2 DEF Credit
<1>4. CASE TxControl
  BY <1>4 DEF TxControl, Credit
<1>5. CASE TxFrames
  <2>1. max' = max /\ data_ok /\ (seq' = seq \/ seq' = (seq + 1) % Wrap)
    BY <1>5 DEF TxFrames, Batch
  <2>2. (stat => Ahead >= 2) /\ Ahead \in Int /\ 1 <= Ahead
    BY <2>1, DataOk, AheadFacts, Half
  <2>3. CASE seq' = seq
    BY <1>1, <2>1, <2>3 DEF Ahead, Credit
  <2>4. CASE seq' = (seq + 1) % Wrap
    <3>1. Ahead' = Ahead - 1
      BY <2>1, <2>2, <2>4, FramesSent
    <3>2. QED
      BY <1>1, <2>2, <3>1 DEF Credit
  <2>5. QED
    BY <2>1, <2>3, <2>4
<1>6. QED
  BY <1>2, <1>3, <1>4, <1>5 DEF WindowStep

-----------------------------------------------------------------------------
(* What a round leaves undone.  The data queue and its flow control: the     *)
(* stack is stopped only with txoff set, but for the moment between clearing *)
(* txoff and waking the stack, and txoff outlives a short queue only until   *)
(* brcmf_sdio_sendfromq() looks at it.                                       *)
FlowInv ==
  /\ txq \in Nat /\ txoff \in BOOLEAN
  /\ blocked => txoff \/ pc = "unblock"
  /\ txoff => txq >= Low \/ pc = "send"

LEMMA FlowStep == ASSUME FlowInv, WinInv, Reserve = 2, [Next]_vars PROVE FlowInv'
<1> USE Sizes DEF FlowInv
<1>1. CASE TxData
  <2>1. txq' = (IF txq < QueueLen THEN txq + 1 ELSE txq) /\ pc' = pc
    BY <1>1 DEF TxData, dpcVars
  <2>2. \/ txq' >= Hi /\ txoff' = TRUE /\ blocked' = TRUE
        \/ txoff' = txoff /\ blocked' = blocked
    BY <1>1 DEF TxData
  <2>3. txq' \in Nat /\ (txq >= Low => txq' >= Low) /\ (txq' >= Hi => txq' >= Low)
    BY <2>1
  <2>4. CASE txq' >= Hi /\ txoff' = TRUE /\ blocked' = TRUE
    BY <2>3, <2>4
  <2>5. CASE txoff' = txoff /\ blocked' = blocked
    BY <2>1, <2>3, <2>5
  <2>6. QED
    BY <2>2, <2>4, <2>5
<1>2. CASE TxFrames
  <2>1. txq > 0 /\ data_ok /\ txq' = txq - Batch /\ pc' = pc /\ pc = "send"
        /\ txoff' = txoff /\ blocked' = blocked
    BY <1>2 DEF TxFrames
  <2>2. Batch \in 1..txq
    BY <2>1, BatchIs, DataOk
  <2>3. QED
    BY <2>1, <2>2
<1>3. CASE TxUnflow
  <2>1. txq' = txq /\ blocked' = blocked /\ pc = "send"
    BY <1>3 DEF TxUnflow
  <2>2. CASE Drained
    <3>1. txoff' = FALSE /\ pc' = "unblock"
      BY <1>3, <2>2 DEF TxUnflow
    <3>2. QED
      BY <2>1, <3>1
  <2>3. CASE ~Drained
    <3>1. txoff' = txoff
      BY <1>3, <2>3 DEF TxUnflow
    <3>2. txoff => txq >= Low
      BY <2>3 DEF Drained
    <3>3. QED
      BY <2>1, <3>1, <3>2
  <2>4. QED
    BY <2>2, <2>3
<1>4. CASE TxUnblock
  BY <1>4 DEF TxUnblock
<1>5. CASE UNCHANGED queueVars /\ (pc' = pc \/ pc \notin {"send", "unblock"})
  BY <1>5 DEF queueVars
<1>6. QED
  BY <1>1, <1>2, <1>3, <1>4, <1>5
     DEF Next, vars, dpcVars, CmdSend, CmdSent, CmdLate, CmdTimeout, CmdAnswer, CmdNoAnswer, Isr,
         WorkStart, WorkEnd, Status, RxNone, RxData, RxControl, RxFail, RxDone, DpcControl,
         TxControl, TxControlGone, DpcData, DpcEnd, WatchdogIdle, WatchdogSleep, DevFrame,
         DevNakHandled, DevClock

LEMMA FlowInit == Init => FlowInv
<1> SUFFICES ASSUME Init PROVE FlowInv
  OBVIOUS
<1>1. txq = 0 /\ txoff = FALSE /\ blocked = FALSE
  BY DEF Init
<1>2. QED
  BY <1>1 DEF FlowInv

(* With txglom off, and two credits kept back, data never takes the last     *)
(* credit from under a control frame that waits, whatever windows the        *)
(* firmware announces and wherever the sequence numbers wrap.                *)
THEOREM CreditIsKept == ASSUME Glom = 1, Reserve = 2 PROVE Spec => KeepsCredit
<1>1. Init => WinInv /\ FlowInv
  BY WinInit, FlowInit
<1>2. WinInv /\ FlowInv /\ [Next]_vars => (WinInv /\ FlowInv)' /\ [Credit]_vars
  BY WinStep, FlowStep, CreditStep DEF FlowInv
<1>3. KeepsCredit <=> [][Credit]_vars
  BY DEF KeepsCredit, Credit
<1>4. QED
  BY <1>1, <1>2, <1>3, PTL DEF Spec

-----------------------------------------------------------------------------
(* The frames in the device: their indication is in the device, among the    *)
(* status bits kept, with the round that reads, or was forgotten.  A round   *)
(* that triggers nothing keeps no bit.                                       *)
FrameInv ==
  /\ line \subseteq {"frame", "mbox"}
  /\ pc = "rx" => "frame" \in ints
  /\ ~triggered /\ pc \in {"idle", "loop"} => ints = {}
  /\ dq # <<>> => \/ line # {} \/ lost \/ (rxskip /\ nak)
                  \/ "frame" \in ints /\ (pc = "rx" => rxpending)

LEMMA FrameStep == ASSUME SkipInv, FrameInv, [Next]_vars PROVE FrameInv'
<1> USE DEF FrameInv
<1>1. CASE Status
  <2>1. PICK ok \in BOOLEAN :
          /\ line' = IF ipend /\ ok THEN {} ELSE line
          /\ rxskip' = Hostmail(Rstatus(ok)).skip
          /\ ints' = IF Hostmail(Rstatus(ok)).skip
                     THEN Hostmail(Rstatus(ok)).bits \ {"frame"}
                     ELSE Hostmail(Rstatus(ok)).bits
    BY <1>1 DEF Status
  <2>2. /\ dq' = dq /\ nak' = nak /\ lost' = lost
        /\ pc' = "rx" => "frame" \in ints' /\ rxpending'
        /\ pc' \in {"rx", "ctl"}
    BY <1>1 DEF Status
  <2>3. CASE ipend /\ ok
    BY <2>1, <2>2, <2>3 DEF SkipInv, Hostmail, Rstatus
  <2>4. CASE ~(ipend /\ ok)
    BY <2>1, <2>2, <2>4 DEF SkipInv, Hostmail, Rstatus
  <2>5. QED
    BY <2>3, <2>4
<1>2. CASE RxFail
  BY <1>2 DEF RxFail, Reading, intVars, runVars
<1>3. CASE RxNone
  BY <1>3 DEF RxNone, Reading, intVars, runVars, devVars
<1>4. CASE RxData \/ RxControl
  BY <1>4 DEF RxData, RxControl, Reading, intVars, rxVars, runVars
<1>5. CASE RxDone
  BY <1>5 DEF RxDone, Unread, rxVars, runVars, devVars
<1>6. CASE DpcEnd
  BY <1>6 DEF DpcEnd, Again, rxVars
<1>7. CASE DevFrame \/ DevNakHandled
  BY <1>7 DEF DevFrame, DevNakHandled, Raise, rxVars, intVars, runVars, dpcVars
<1>8. CASE /\ UNCHANGED <<ints, dq, line, nak, lost, rxskip, rxpending>>
           /\ pc' = "rx" <=> pc = "rx"
           /\ ~triggered' /\ pc' \in {"idle", "loop"} => ~triggered /\ pc \in {"idle", "loop"}
  BY <1>8
<1>9. CASE \/ TxData \/ CmdSend \/ CmdSent \/ CmdLate \/ CmdTimeout \/ CmdAnswer
           \/ CmdNoAnswer \/ Isr \/ WorkStart \/ WorkEnd \/ UNCHANGED vars
  BY <1>8, <1>9 DEF TxData, Trigger, CmdSend, CmdSent, CmdLate, CmdTimeout, CmdAnswer, runVars,
                    CmdNoAnswer, Isr, WorkStart, WorkEnd, vars, rxVars, intVars, devVars, dpcVars
<1>10. CASE \/ DpcControl \/ TxControl \/ TxControlGone \/ DpcData \/ TxFrames
            \/ TxUnflow \/ TxUnblock \/ WatchdogIdle \/ WatchdogSleep \/ DevClock
  BY <1>8, <1>10 DEF DpcControl, TxControl, TxControlGone, DpcData, TxFrames, runVars, dpcVars,
                    TxUnflow, TxUnblock, WatchdogIdle, WatchdogSleep, DevClock, rxVars, intVars, devVars
<1>11. QED
  BY <1>1, <1>2, <1>3, <1>4, <1>5, <1>6, <1>7, <1>9, <1>10 DEF Next

(* The control frame and the data frames: past the step that sends it, a     *)
(* control frame that could be sent stays only in a round that failed or     *)
(* without the clock; between rounds the same holds of data.                 *)
Excused == err \/ clk # "avail"

SendInv ==
  /\ ~triggered /\ pc \in {"idle", "loop", "tx", "send", "unblock", "end"}
       => (stat /\ txctl_ok => Excused)
  /\ ~triggered /\ pc \in {"idle", "loop"} => (Sendable => Excused)


\* What is added to the window, or freed of it, triggers the next round.
LEMMA SendStep ==
  ASSUME SendInv, SlotInv, WinInv, WinInv', FlowInv, Reserve = 2, [Next]_vars
  PROVE  SendInv'
<1> USE DEF SendInv, Excused, Asleep
<1>1. CASE TxData \/ CmdSend \/ Isr \/ DevClock
  BY <1>1 DEF TxData, CmdSend, Isr, DevClock, Trigger
<1>2. CASE CmdTimeout
  <2>1. stat' = FALSE /\ stat
    BY <1>2 DEF CmdTimeout, StillArmed
  <2>2. Sendable' => txctl_ok
    BY <1>2, <2>1, AheadFacts DEF CmdTimeout, Sendable, data_ok, txctl_ok, winVars, queueVars
  <2>3. QED
    BY <1>2, <2>1, <2>2 DEF CmdTimeout, runVars, dpcVars, clkVars
<1>3. CASE Status \/ RxDone
  BY <1>3 DEF Status, RxDone
<1>4. CASE RxNone \/ RxData \/ RxControl \/ RxFail
  BY <1>4 DEF RxNone, RxData, RxControl, RxFail, Reading
<1>5. CASE DpcControl
  BY <1>5 DEF DpcControl, ctlVars, winVars, clkVars, txctl_ok
<1>6. CASE TxControl
  BY <1>6 DEF TxControl
<1>7. CASE TxControlGone
  BY <1>7 DEF TxControlGone, Held, ctlVars
<1>8. CASE TxFrames
  <2>1. /\ pc = "send" /\ pc' = pc /\ max' = max /\ txq > 0 /\ data_ok
        /\ UNCHANGED <<stat, triggered, err, clk>>
    BY <1>8 DEF TxFrames, ctlVars, runVars, clkVars
  <2>2. seq' = seq \/ seq' = (seq + Batch) % Wrap
    BY <1>8 DEF TxFrames
  <2>3. txctl_ok
    BY <2>1, DataOk, AheadFacts
  <2>4. QED
    BY <2>1, <2>3
<1>9. CASE DpcEnd
  <2>1. pc' = "loop" /\ UNCHANGED <<queueVars, winVars, clkVars, err>> /\ pc = "end"
    BY <1>9 DEF DpcEnd
  <2>2. CASE err
    BY <1>9, <2>1, <2>2 DEF DpcEnd
  <2>3. CASE ~err
    <3>1. /\ ~triggered' => ~triggered /\ ~Sendable
          /\ stat' = stat
      BY <1>9, <2>3 DEF DpcEnd, Again
    <3>2. (Sendable' <=> Sendable) /\ (txctl_ok' <=> txctl_ok)
      BY <2>1, <3>1 DEF queueVars, winVars, Sendable, data_ok, txctl_ok
    <3>3. QED
      BY <2>1, <3>1, <3>2 DEF clkVars
  <2>4. QED
    BY <2>2, <2>3
<1>10. CASE /\ UNCHANGED <<stat, seq, max, fc, txq, triggered, err>>
            /\ clk' = clk \/ clk' = "none"
            /\ \/ pc' = pc
               \/ pc = "idle" /\ pc' = "loop"
               \/ pc = "loop" /\ pc' = "idle"
               \/ pc \in {"tx", "send", "unblock"} /\ pc' \in {"send", "unblock", "end"}
  BY <1>10 DEF Sendable, data_ok, txctl_ok
<1>11. CASE \/ CmdSent \/ CmdLate \/ CmdAnswer \/ CmdNoAnswer \/ WatchdogIdle
            \/ WatchdogSleep \/ DevFrame \/ DevNakHandled \/ UNCHANGED vars
  BY <1>10, <1>11 DEF CmdSent, CmdLate, CmdAnswer, CmdNoAnswer, WatchdogIdle, WatchdogSleep, DevFrame,
                      DevNakHandled, vars, ctlVars, winVars, queueVars, runVars, dpcVars, clkVars
<1>12. CASE WorkStart \/ WorkEnd \/ DpcData \/ TxUnflow \/ TxUnblock
  BY <1>10, <1>12 DEF WorkStart, WorkEnd, DpcData, TxUnflow, TxUnblock, ctlVars, winVars, queueVars,
                      runVars, clkVars
<1>13. QED
  BY <1>1, <1>2, <1>3, <1>4, <1>5, <1>6, <1>7, <1>8, <1>9, <1>11, <1>12 DEF Next

WorkInv == SlotInv /\ SkipInv /\ WinInv /\ FlowInv /\ FrameInv /\ SendInv

(* Nothing is left undone: when nothing is triggered and the worker rests, a *)
(* frame that could be sent waits only after a round that failed or for the  *)
(* clock, a frame of the device only when its indication was forgotten by a  *)
(* failed round or a NAK is unanswered, and a short queue never stops the    *)
(* stack.  Whatever the sizes, with the two credits the code keeps back.     *)
THEOREM NothingLeftUndone == ASSUME Reserve = 2 PROVE Spec => []NoLostWork
<1>1. Init => WorkInv
  <2>1. Init => SlotInv /\ SkipInv /\ FrameInv /\ WinInv /\ FlowInv
    BY WinInit, FlowInit DEF Init, SlotInv, SlotType, Waiting, CtlOutcome, SkipInv, FrameInv
  <2>2. Init => SendInv
    BY DEF Init, SendInv, Sendable
  <2>3. QED
    BY <2>1, <2>2 DEF WorkInv
<1>2. WorkInv /\ [Next]_vars => WorkInv'
  <2> SUFFICES ASSUME WorkInv, [Next]_vars PROVE WorkInv'
    OBVIOUS
  <2>1. SlotInv' /\ SkipInv' /\ FrameInv' /\ WinInv' /\ FlowInv'
    BY SlotStep, SkipStep, FrameStep, WinStep, FlowStep DEF WorkInv, FlowInv
  <2>2. SendInv'
    BY <2>1, SendStep DEF WorkInv
  <2>3. QED
    BY <2>1, <2>2 DEF WorkInv
<1>3. WorkInv => NoLostWork
  BY DEF WorkInv, FlowInv, FrameInv, SendInv, Excused, NoLostWork, Resting
<1>4. QED
  BY <1>1, <1>2, <1>3, PTL DEF Spec

-----------------------------------------------------------------------------
(* Module FwSignal.  Four parts make the invariant: every slot of the hanger *)
(* is in one place and every queue holds its own packets (Core), no counter  *)
(* of packets in transit exceeds those on their way (Transit), the credits   *)
(* balance loan by loan (Loans), and what came while the worker looked       *)
(* elsewhere has woken it (Rested, further down).                            *)
Packets == [e : Entry \cup {0}, f : Fifo, gen : 0..1, req : BOOLEAN, n : Nat]
Descriptors == [occupied : BOOLEAN, open : BOOLEAN, suppressed : BOOLEAN, gen : 0..1,
                transit : Int, supprTransit : Int, request : Nat]
Tells == {"sent", "suppressed"}
Signals == [m : Tells, s : Slot, e : Entry, gen : 0..1]
           \cup [m : {"open", "close", "request", "del"}, s : {0}, e : Entry, gen : {0}]

Types ==
  /\ hanger \in [Slot -> {"free", "inuse", "suppressed"}]
  /\ pkt \in [Slot -> Packets]
  /\ delayq \in Queues /\ supprq \in Queues
  /\ ent \in [Entry -> Descriptors]
  /\ pktSeq \in [Entry -> [Fifo -> Nat]]
  /\ credit \in [Fifo -> Int] /\ borrowed \in [Fifo -> [Fifo -> Nat]]
  /\ creditMap \in SUBSET Fifo /\ delayMap \in SUBSET Fifo /\ enqpkt \in [Fifo -> Int]
  /\ stopped \in BOOLEAN /\ busBlocked \in BOOLEAN /\ deqQueued \in BOOLEAN
  /\ wk \in [at : {"idle", "own", "borrow", "hand"}, fifo : Fifo, from : {"own", "borrow"},
             slot : Nat]
  /\ wk.at = "hand" => wk.slot \in Slot
  /\ bus \in Seq(Slot) /\ sig \in Seq(Signals) /\ orphan \in SUBSET Slot
  /\ fw \in [Entry -> [asleep : BOOLEAN, gone : BOOLEAN, gen : 0..1, ask : Nat]]
  /\ air \in [Entry -> [Fifo -> Nat]]
  /\ used \in [pkt : Nat, sleep : Nat, refuse : Nat, other : Nat]

\* No packet is in a queue twice, nor in two of the places that will report it.
Once(q) == \A i, j \in 1..Len(q) : q[i] = q[j] => i = j
Hand == IF wk.at = "hand" THEN {wk.slot} ELSE {}
Told(q) == {i \in 1..Len(q) : q[i].m \in Tells}
ToldBy(q) == {q[i].s : i \in Told(q)}
ToldOnce(q) == \A i, j \in Told(q) : q[i].s = q[j].s => i = j

Flights ==
  /\ Once(bus) /\ ToldOnce(sig)
  /\ Hand \cap ToSet(bus) = {} /\ Hand \cap ToldBy(sig) = {}
  /\ ToSet(bus) \cap ToldBy(sig) = {}

\* The packets of a queue are of its destination and fifo, and of its state.
Filed(q, state) ==
  \A e \in Entry, f \in Fifo :
    /\ Once(q[e][f])
    /\ \A i \in 1..Len(q[e][f]) :
         LET s == q[e][f][i] IN hanger[s] = state /\ pkt[s].e = e /\ pkt[s].f = f

\* The hanger, the queues and what is on its way.
Places ==
  /\ InFlight \cup InQueue \cup orphan = {s \in Slot : hanger[s] # "free"}
  /\ InFlight \cap InQueue = {} /\ orphan \cap (InFlight \cup InQueue) = {}
  /\ \A s \in Slot : hanger[s] # "free" => pkt[s].e \in Entry

Core == Types /\ Flights /\ Filed(delayq, "inuse") /\ Filed(supprq, "suppressed") /\ Places

Of(e) == {s \in InFlight : pkt[s].e = e}
In(f) == {s \in InFlight : pkt[s].f = f}
Waits(f) == {s \in InQueue : pkt[s].f = f}

\* What a destination waits for is on its way; as long as the bus refused no
\* packet, all of what is on its way.
Transit ==
  \A e \in Entry :
    /\ ent[e].transit <= Cardinality(Of(e))
    /\ ent[e].suppressed => ent[e].supprTransit <= Cardinality(Of(e))
    /\ used.refuse = 0 => ent[e].transit = Cardinality(Of(e)) /\ ent[e].supprTransit >= 0

\* A fifo borrows from lower ones; brcmf_fws_return_credits() finds the lender
\* as long as there is one.
Loans ==
  /\ \A f, l \in Fifo : borrowed[f][l] > 0 => l < f
  /\ \A f \in Fifo : /\ IsFiniteSet(Lent(f)) /\ IsFiniteSet(Owed(f))
  /\ CreditsKept

\* The fifos the worker has looked at in this round.
Done(f) == \/ wk.at = "idle" \/ f > wk.fifo
           \/ f = wk.fifo /\ (wk.at = "borrow" \/ (wk.at = "hand" /\ wk.from = "borrow"))

-----------------------------------------------------------------------------
(* Least and greatest elements.                                              *)
LEMMA LeastIn == ASSUME NEW T \in SUBSET Nat, T # {} PROVE \E x \in T : \A y \in T : x <= y
<1>1. PICK x \in T : \A y \in T : ~(<<y, x>> \in OpToRel(<, Nat))
  BY NatLessThanWellFounded, WFMin, Zenon
<1>2. \A y \in T : ~(y < x)
  BY <1>1 DEF OpToRel
<1>3. QED
  BY <1>2

LEMMA MinIn == ASSUME NEW T \in SUBSET Nat, T # {} PROVE Min(T) \in T /\ \A y \in T : Min(T) <= y
  BY LeastIn DEF Min

LEMMA MaxIn == ASSUME NEW n \in Nat, NEW T \in SUBSET (0..n), T # {}
  PROVE Max(T) \in T /\ \A y \in T : Max(T) >= y
<1> DEFINE U == {n - x : x \in T}
<1>0. \A x \in T : x \in 0..n /\ n - x \in Nat /\ n - x \in U
  OBVIOUS
<1>1. U \in SUBSET Nat /\ U # {}
  <2>1. \A y \in U : y \in Nat
    BY <1>0
  <2>2. PICK x \in T : TRUE
    OBVIOUS
  <2>3. n - x \in U
    BY <1>0, <2>2
  <2> HIDE DEF U
  <2>4. QED
    BY <2>1, <2>3
<1>2. PICK u \in U : \A y \in U : u <= y
  BY <1>1, LeastIn
<1>3. PICK x \in T : u = n - x
  BY <1>2
<1>4. \A y \in T : x >= y
  <2> SUFFICES ASSUME NEW y \in T PROVE x >= y
    OBVIOUS
  <2>1. n - x <= n - y /\ x \in 0..n /\ y \in 0..n
    BY <1>0, <1>2, <1>3
  <2>2. QED
    BY <2>1
<1>5. QED
  BY <1>4 DEF Max

-----------------------------------------------------------------------------
(* Queues without repetition.                                                *)
LEMMA AsSet == ASSUME NEW S, NEW q \in Seq(S)
  PROVE  /\ Len(q) \in Nat /\ ToSet(q) = {q[i] : i \in 1..Len(q)} /\ ToSet(q) \subseteq S
         /\ \A x : x \in ToSet(q) <=> \E i \in 1..Len(q) : q[i] = x
  BY DEF ToSet

LEMMA OnceAppend == ASSUME NEW S, NEW q \in Seq(S), NEW s \in S, Once(q), s \notin ToSet(q)
  PROVE  Append(q, s) \in Seq(S) /\ Once(Append(q, s)) /\ ToSet(Append(q, s)) = ToSet(q) \cup {s}
<1>1. Append(q, s) \in Seq(S) /\ Len(Append(q, s)) = Len(q) + 1
  OBVIOUS
<1>2. /\ \A i \in 1..Len(q) : Append(q, s)[i] = q[i]
      /\ Append(q, s)[Len(q) + 1] = s
  OBVIOUS
<1>3. \A i \in 1..Len(q) : q[i] # s
  BY AsSet
<1>4. Once(Append(q, s))
  <2> SUFFICES ASSUME NEW i \in 1..Len(q) + 1, NEW j \in 1..Len(q) + 1,
                      Append(q, s)[i] = Append(q, s)[j]
               PROVE  i = j
    BY <1>1 DEF Once
  <2>1. CASE i = Len(q) + 1 \/ j = Len(q) + 1
    BY <2>1, <1>2, <1>3
  <2>2. CASE i # Len(q) + 1 /\ j # Len(q) + 1
    <3>1. i \in 1..Len(q) /\ j \in 1..Len(q)
      BY <2>2
    <3>2. QED
      BY <3>1, <1>2 DEF Once
  <2>3. QED
    BY <2>1, <2>2
<1>5. ASSUME NEW x PROVE x \in ToSet(Append(q, s)) <=> x \in ToSet(q) \cup {s}
  <2>1. x \in ToSet(Append(q, s)) <=> \E i \in 1..Len(q) + 1 : Append(q, s)[i] = x
    BY <1>1, AsSet
  <2>2. x \in ToSet(q) <=> \E i \in 1..Len(q) : q[i] = x
    BY AsSet
  <2>3. \A i \in 1..Len(q) + 1 : i \in 1..Len(q) \/ i = Len(q) + 1
    OBVIOUS
  <2>4. 1..Len(q) \subseteq 1..Len(q) + 1 /\ Len(q) + 1 \in 1..Len(q) + 1
    OBVIOUS
  <2>5. QED
    BY <2>1, <2>2, <2>3, <2>4, <1>2
<1>6. QED
  BY <1>1, <1>4, <1>5

LEMMA OnceTail == ASSUME NEW S, NEW q \in Seq(S), Once(q), q # <<>>
  PROVE  /\ Tail(q) \in Seq(S) /\ Head(q) \in ToSet(q) /\ Head(q) \in S /\ Head(q) = q[1]
         /\ Once(Tail(q)) /\ ToSet(Tail(q)) = ToSet(q) \ {Head(q)}
<1>1. /\ Tail(q) \in Seq(S) /\ Len(Tail(q)) = Len(q) - 1 /\ Len(q) >= 1 /\ Len(q) \in Nat
      /\ Head(q) = q[1]
  OBVIOUS
<1>2. \A i \in 1..Len(q) - 1 : Tail(q)[i] = q[i + 1] /\ i + 1 \in 1..Len(q) /\ i + 1 # 1
  BY <1>1
<1>3. Once(Tail(q))
  <2> SUFFICES ASSUME NEW i \in 1..Len(q) - 1, NEW j \in 1..Len(q) - 1, Tail(q)[i] = Tail(q)[j]
               PROVE  i = j
    BY <1>1 DEF Once
  <2>1. i + 1 = j + 1
    BY <1>2 DEF Once
  <2>2. QED
    BY <2>1
<1>4. Head(q) \in ToSet(q) /\ Head(q) \in S /\ 1 \in 1..Len(q)
  BY <1>1, AsSet
<1>5. ASSUME NEW x PROVE x \in ToSet(Tail(q)) <=> x \in ToSet(q) \ {Head(q)}
  <2>1. x \in ToSet(Tail(q)) <=> \E i \in 1..Len(q) - 1 : q[i + 1] = x
    <3>1. \A t \in Seq(S) : x \in ToSet(t) <=> \E i \in 1..Len(t) : t[i] = x
      BY AsSet
    <3>2. x \in ToSet(Tail(q)) <=> \E i \in 1..Len(Tail(q)) : Tail(q)[i] = x
      BY <1>1, <3>1
    <3>3. QED
      BY <1>1, <1>2, <3>2
  <2>2. x \in ToSet(q) <=> \E i \in 1..Len(q) : q[i] = x
    BY AsSet
  <2>3. \A i \in 1..Len(q) : i = 1 \/ (i - 1 \in 1..Len(q) - 1 /\ (i - 1) + 1 = i)
    BY <1>1
  <2>4. \A i \in 1..Len(q) - 1 : i + 1 \in 1..Len(q) /\ q[i + 1] # q[1]
    BY <1>1, <1>2, <1>4 DEF Once
  <2>5. QED
    BY <1>1, <2>1, <2>2, <2>3, <2>4
<1>6. QED
  BY <1>1, <1>3, <1>4, <1>5

LEMMA OnceShift == ASSUME NEW S, NEW q \in Seq(S), NEW s \in S, Once(q), s \notin ToSet(q),
                          NEW k \in 1..Len(q) + 1, NEW r \in Seq(S), Len(r) = Len(q) + 1, r[k] = s,
                          \A i \in 1..Len(q) : r[IF i < k THEN i ELSE i + 1] = q[i]
  PROVE  Once(r) /\ ToSet(r) = ToSet(q) \cup {s}
<1> DEFINE at(i) == IF i < k THEN i ELSE i + 1
<1>1. Len(q) \in Nat
  OBVIOUS
<1>2. \A i \in 1..Len(q) : r[at(i)] = q[i]
  OBVIOUS
<1>3. /\ \A i \in 1..Len(q) : at(i) \in 1..Len(q) + 1 /\ at(i) # k
      /\ \A i \in 1..Len(q) + 1 : i = k \/ \E j \in 1..Len(q) : i = at(j)
      /\ k \in 1..Len(q) + 1
  <2>1. \A i \in 1..Len(q) + 1 : i < k => i \in 1..Len(q) /\ at(i) = i
    OBVIOUS
  <2>2. \A i \in 1..Len(q) + 1 : i > k => i - 1 \in 1..Len(q) /\ at(i - 1) = i
    OBVIOUS
  <2>3. \A i \in 1..Len(q) : at(i) \in 1..Len(q) + 1 /\ at(i) # k
    BY <1>1
  <2>4. \A i \in 1..Len(q) + 1 : i < k \/ i = k \/ i > k
    BY <1>1
  <2>5. QED
    BY <2>1, <2>2, <2>3, <2>4
<1>4. \A i \in 1..Len(q) : q[i] # s
  BY AsSet
<1> HIDE DEF at
<1>5. Once(r)
  <2> SUFFICES ASSUME NEW i \in 1..Len(q) + 1, NEW j \in 1..Len(q) + 1, r[i] = r[j] PROVE i = j
    BY DEF Once
  <2>1. CASE i = k \/ j = k
    BY <2>1, <1>2, <1>3, <1>4
  <2>2. CASE i # k /\ j # k
    BY <2>2, <1>2, <1>3 DEF Once
  <2>3. QED
    BY <2>1, <2>2
<1>6. ASSUME NEW x PROVE x \in ToSet(r) <=> x \in ToSet(q) \cup {s}
  <2>1. x \in ToSet(r) <=> \E i \in 1..Len(q) + 1 : r[i] = x
    BY AsSet
  <2>2. x \in ToSet(q) <=> \E i \in 1..Len(q) : q[i] = x
    BY AsSet
  <2>3. QED
    BY <2>1, <2>2, <1>2, <1>3
<1>7. QED
  BY <1>5, <1>6

LEMMA InsertAtIs == ASSUME NEW S, NEW q \in Seq(S), NEW s \in S, NEW k \in 1..Len(q) + 1
  PROVE  /\ InsertAt(q, k, s) \in Seq(S) /\ Len(InsertAt(q, k, s)) = Len(q) + 1 /\ Len(q) \in Nat
         /\ InsertAt(q, k, s)[k] = s /\ \A i \in 1..k - 1 : InsertAt(q, k, s)[i] = q[i]
         /\ \A i \in k..Len(q) : InsertAt(q, k, s)[i + 1] = q[i]
<1> DEFINE r == InsertAt(q, k, s)
           p == SubSeq(q, 1, k - 1) \o <<s>>
           t == SubSeq(q, k, Len(q))
<1>1. /\ SubSeq(q, 1, k - 1) \in Seq(S) /\ Len(SubSeq(q, 1, k - 1)) = k - 1
      /\ \A i \in 1..k - 1 : SubSeq(q, 1, k - 1)[i] = q[i]
  OBVIOUS
<1>2. /\ t \in Seq(S) /\ Len(t) = Len(q) - k + 1
      /\ \A i \in 1..Len(q) - k + 1 : t[i] = q[k + i - 1]
  OBVIOUS
<1>3. p \in Seq(S) /\ Len(p) = k /\ p[k] = s /\ \A i \in 1..k - 1 : p[i] = q[i]
  BY <1>1
<1>4. r = p \o t
  BY DEF InsertAt
<1> HIDE DEF p, t, r
<1>5. r \in Seq(S) /\ Len(r) = Len(q) + 1 /\ Len(q) \in Nat
  BY <1>2, <1>3, <1>4
<1>6. r[k] = s /\ \A i \in 1..k - 1 : r[i] = q[i]
  BY <1>2, <1>3, <1>4
<1>7. ASSUME NEW i \in k..Len(q) PROVE r[i + 1] = q[i]
  <2>1. i + 1 - k \in 1..Len(q) - k + 1 /\ k + (i + 1 - k) - 1 = i
    OBVIOUS
  <2>2. r[i + 1] = t[i + 1 - k]
    BY <1>2, <1>3, <1>4, <2>1
  <2>3. QED
    BY <1>2, <2>1, <2>2
<1>8. QED
  BY <1>5, <1>6, <1>7 DEF r

LEMMA OnceInsert == ASSUME NEW S, NEW q \in Seq(S), NEW s \in S, Once(q), s \notin ToSet(q),
                           NEW k \in 1..Len(q) + 1
  PROVE  /\ InsertAt(q, k, s) \in Seq(S) /\ Once(InsertAt(q, k, s))
         /\ ToSet(InsertAt(q, k, s)) = ToSet(q) \cup {s}
<1> DEFINE r == InsertAt(q, k, s)
<1>1. r \in Seq(S) /\ Len(r) = Len(q) + 1 /\ r[k] = s
  BY InsertAtIs
<1>2. \A i \in 1..Len(q) : r[IF i < k THEN i ELSE i + 1] = q[i]
  <2>1. /\ \A i \in 1..k - 1 : r[i] = q[i]
        /\ \A i \in k..Len(q) : r[i + 1] = q[i]
    BY InsertAtIs
  <2> HIDE DEF r
  <2>2. QED
    BY <2>1
<1> HIDE DEF r
<1>3. Once(r) /\ ToSet(r) = ToSet(q) \cup {s}
  BY <1>1, <1>2, OnceShift
<1>4. QED
  BY <1>1, <1>3 DEF r

LEMMA OnceBack == ASSUME NEW S, NEW q \in Seq(S), NEW s \in S, Once(q), s \notin ToSet(q)
  PROVE  Back(q, s) \in Seq(S) /\ Once(Back(q, s)) /\ ToSet(Back(q, s)) = ToSet(q) \cup {s}
<1> DEFINE r == Back(q, s)
<1>1. r \in Seq(S) /\ Len(r) = Len(q) + 1 /\ r[1] = s /\ \A i \in 1..Len(q) : r[i + 1] = q[i]
  BY DEF Back
<1>2. 1 \in 1..Len(q) + 1 /\ \A i \in 1..Len(q) : r[IF i < 1 THEN i ELSE i + 1] = q[i]
  BY <1>1
<1> HIDE DEF r
<1>3. Once(r) /\ ToSet(r) = ToSet(q) \cup {s}
  BY <1>1, <1>2, OnceShift
<1>4. QED
  BY <1>1, <1>3 DEF r

-----------------------------------------------------------------------------
(* The queues of all destinations.                                           *)
Members(q) == {s \in Slot : \E e \in Entry, f \in Fifo : s \in ToSet(q[e][f])}

LEMMA FwsConsts ==
  /\ Top \in Nat /\ Fifo = 0..Top /\ Top \in Fifo /\ 0 \in Fifo
  /\ Slot \subseteq Nat /\ IsFiniteSet(Slot) /\ Init_credit \in [Fifo -> Nat]
  /\ LoWater \in Nat /\ HiWater \in Nat /\ PsqLen \in Nat
BY FwsSizes

LEMMA QueueOf == ASSUME NEW q \in Queues, NEW e \in Entry, NEW f \in Fifo
  PROVE  /\ q[e][f] \in Seq(Slot) /\ ToSet(q[e][f]) \subseteq Slot
         /\ \A s \in ToSet(q[e][f]) : s \in Members(q)
<1>1. q[e][f] \in Seq(Slot)
  BY DEF Queues
<1>2. ToSet(q[e][f]) \subseteq Slot
  BY <1>1, AsSet
<1>3. QED
  BY <1>1, <1>2 DEF Members

LEMMA FiledAt == ASSUME NEW q \in Queues, NEW state, Filed(q, state),
                        NEW e \in Entry, NEW f \in Fifo
  PROVE  /\ Once(q[e][f])
         /\ \A s \in ToSet(q[e][f]) : hanger[s] = state /\ pkt[s].e = e /\ pkt[s].f = f
<1>1. \A s \in ToSet(q[e][f]) : \E i \in 1..Len(q[e][f]) : q[e][f][i] = s
  BY QueueOf, AsSet
<1>2. QED
  BY <1>1 DEF Filed

LEMMA FiledMembers == ASSUME NEW q \in Queues, NEW state, Filed(q, state), NEW s \in Members(q)
  PROVE  /\ hanger[s] = state /\ pkt[s].e \in Entry /\ pkt[s].f \in Fifo
         /\ s \in ToSet(q[pkt[s].e][pkt[s].f]) /\ s \in Slot
  BY FiledAt DEF Members

LEMMA WaitingIs == ASSUME NEW d \in Queues, NEW q \in Queues
  PROVE  UNION {HeldFor(d, e) \cup HeldFor(q, e) : e \in Entry} = Members(d) \cup Members(q)
<1>1. \A e \in Entry, f \in Fifo : ToSet(d[e][f]) \subseteq Slot /\ ToSet(q[e][f]) \subseteq Slot
  BY QueueOf
<1>2. \A s : s \in UNION {HeldFor(d, e) \cup HeldFor(q, e) : e \in Entry} <=>
              \E e \in Entry, f \in Fifo : s \in ToSet(d[e][f]) \/ s \in ToSet(q[e][f])
  BY DEF HeldFor
<1>3. QED
  BY <1>1, <1>2 DEF Members

\* r is q but for the queue x of entry e0 and fifo f0.
Changed(r, q, e0, f0, x) ==
  /\ r \in Queues
  /\ \A e \in Entry, f \in Fifo : r[e][f] = IF e = e0 /\ f = f0 THEN x ELSE q[e][f]
\* The packets of S stay what they are, or become of the state, e and f.
KeptIn(S, state) ==
  \A s \in S : hanger'[s] = state /\ pkt'[s].e = pkt[s].e /\ pkt'[s].f = pkt[s].f
NowIn(S, state, e, f) == \A s \in S : hanger'[s] = state /\ pkt'[s].e = e /\ pkt'[s].f = f
FiledNext(q, state) ==
  \A e \in Entry, f \in Fifo :
    /\ Once(q[e][f])
    /\ \A i \in 1..Len(q[e][f]) :
         LET s == q[e][f][i] IN hanger'[s] = state /\ pkt'[s].e = e /\ pkt'[s].f = f

LEMMA FiledPrime ==
  /\ Filed(delayq, "inuse")' <=> FiledNext(delayq', "inuse")
  /\ Filed(supprq, "suppressed")' <=> FiledNext(supprq', "suppressed")
  BY DEF Filed, FiledNext, Once

LEMMA Refiled == ASSUME NEW q \in Queues, NEW e0 \in Entry, NEW f0 \in Fifo, NEW x \in Seq(Slot)
  PROVE  Changed([q EXCEPT ![e0][f0] = x], q, e0, f0, x)
  BY DEF Queues, Changed

LEMMA PutIn == ASSUME NEW q \in Queues, NEW r, NEW e0 \in Entry, NEW f0 \in Fifo,
                      NEW x, NEW s \in Slot, Changed(r, q, e0, f0, x),
                      ToSet(x) = ToSet(q[e0][f0]) \cup {s}
  PROVE  Members(r) = Members(q) \cup {s}
  BY DEF Members, Changed

LEMMA TakenOut == ASSUME NEW q \in Queues, NEW r, NEW e0 \in Entry, NEW f0 \in Fifo,
                         NEW x, NEW s \in Slot, NEW state, Filed(q, state),
                         Changed(r, q, e0, f0, x),
                         s \in ToSet(q[e0][f0]), ToSet(x) = ToSet(q[e0][f0]) \ {s}
  PROVE  Members(r) = Members(q) \ {s}
<1>1. \A e \in Entry, f \in Fifo : s \in ToSet(q[e][f]) => e = e0 /\ f = f0
  BY FiledAt
<1>2. QED
  BY <1>1 DEF Members, Changed

\* What stays in a queue stays filed.
LEMMA FiledStep == ASSUME NEW q \in Queues, NEW r, NEW e0 \in Entry, NEW f0 \in Fifo,
                          NEW x \in Seq(Slot), NEW state, Filed(q, state), Once(x),
                          Changed(r, q, e0, f0, x), NowIn(ToSet(x), state, e0, f0),
                          KeptIn(Members(q), state)
  PROVE  FiledNext(r, state)
<1> SUFFICES ASSUME NEW e \in Entry, NEW f \in Fifo
             PROVE  /\ Once(r[e][f])
                    /\ \A i \in 1..Len(r[e][f]) :
                         LET s == r[e][f][i]
                         IN hanger'[s] = state /\ pkt'[s].e = e /\ pkt'[s].f = f
  BY DEF FiledNext
<1>1. CASE e = e0 /\ f = f0
  <2>1. \A i \in 1..Len(x) : x[i] \in ToSet(x)
    BY AsSet
  <2>2. r[e][f] = x
    BY <1>1 DEF Changed
  <2>3. QED
    BY <1>1, <2>1, <2>2 DEF NowIn
<1>2. CASE ~(e = e0 /\ f = f0)
  <2>1. r[e][f] = q[e][f] /\ q[e][f] \in Seq(Slot)
    BY <1>2, QueueOf DEF Changed
  <2>2. \A i \in 1..Len(q[e][f]) : q[e][f][i] \in Members(q)
    BY <2>1, AsSet, QueueOf
  <2>3. Once(q[e][f])
    BY FiledAt
  <2>4. \A i \in 1..Len(q[e][f]) : pkt[q[e][f][i]].e = e /\ pkt[q[e][f][i]].f = f
    BY DEF Filed
  <2>5. QED
    BY <2>1, <2>2, <2>3, <2>4 DEF KeptIn
<1>3. QED
  BY <1>1, <1>2

LEMMA FiledKept == ASSUME NEW q \in Queues, NEW state, Filed(q, state), KeptIn(Members(q), state)
  PROVE  FiledNext(q, state)
<1> SUFFICES ASSUME NEW e \in Entry, NEW f \in Fifo
             PROVE  /\ Once(q[e][f])
                    /\ \A i \in 1..Len(q[e][f]) :
                         LET s == q[e][f][i]
                         IN hanger'[s] = state /\ pkt'[s].e = e /\ pkt'[s].f = f
  BY DEF FiledNext
<1>1. q[e][f] \in Seq(Slot)
  BY QueueOf
<1>2. \A i \in 1..Len(q[e][f]) : q[e][f][i] \in Members(q)
  BY <1>1, AsSet, QueueOf
<1>3. Once(q[e][f])
  BY FiledAt
<1>4. \A i \in 1..Len(q[e][f]) : pkt[q[e][f][i]].e = e /\ pkt[q[e][f][i]].f = f
  BY DEF Filed
<1>5. QED
  BY <1>2, <1>3, <1>4 DEF KeptIn

-----------------------------------------------------------------------------
(* What is on its way.                                                       *)
LEMMA InFlightIs == InFlight = Hand \cup ToSet(bus) \cup ToldBy(sig)
  BY DEF InFlight, Hand, ToldBy, Told, Tells

LEMMA InFlightIsNext == InFlight' = Hand' \cup ToSet(bus') \cup ToldBy(sig')
  BY DEF InFlight, Hand, ToldBy, Told, Tells

LEMMA ToldSlots == ASSUME NEW q \in Seq(Signals) PROVE ToldBy(q) \subseteq Slot
<1>1. \A i \in Told(q) : q[i] \in Signals /\ q[i].m \in Tells
  BY DEF Told
<1>2. \A x \in Signals : x.m \in Tells => x.s \in Slot
  BY DEF Signals, Tells
<1>3. QED
  BY <1>1, <1>2 DEF ToldBy

LEMMA ToldTail == ASSUME NEW q \in Seq(Signals), q # <<>>, ToldOnce(q)
  PROVE  /\ Tail(q) \in Seq(Signals) /\ Head(q) \in Signals /\ ToldOnce(Tail(q))
         /\ IF Head(q).m \in Tells
            THEN Head(q).s \in ToldBy(q) /\ ToldBy(Tail(q)) = ToldBy(q) \ {Head(q).s}
            ELSE ToldBy(Tail(q)) = ToldBy(q)
<1>1. /\ Tail(q) \in Seq(Signals) /\ Len(Tail(q)) = Len(q) - 1 /\ Len(q) >= 1 /\ Len(q) \in Nat
      /\ Head(q) = q[1] /\ q[1] \in Signals /\ 1 \in 1..Len(q)
  OBVIOUS
<1>2. \A i \in 1..Len(q) - 1 : Tail(q)[i] = q[i + 1] /\ i + 1 \in 1..Len(q) /\ i + 1 # 1
  BY <1>1
<1>3. \A i \in 1..Len(q) : i # 1 => i - 1 \in 1..Len(q) - 1 /\ (i - 1) + 1 = i
  BY <1>1
<1>4. \A i : i \in Told(Tail(q)) <=> i \in 1..Len(q) - 1 /\ i + 1 \in Told(q)
  BY <1>1, <1>2 DEF Told
<1>5. ToldOnce(Tail(q))
  <2> SUFFICES ASSUME NEW i \in Told(Tail(q)), NEW j \in Told(Tail(q)),
                      Tail(q)[i].s = Tail(q)[j].s
               PROVE  i = j
    BY DEF ToldOnce
  <2>1. i \in 1..Len(q) - 1 /\ j \in 1..Len(q) - 1 /\ i + 1 \in Told(q) /\ j + 1 \in Told(q)
    BY <1>4
  <2>2. i + 1 = j + 1
    BY <1>2, <2>1 DEF ToldOnce
  <2>3. QED
    BY <2>1, <2>2
<1>6. ASSUME NEW x PROVE x \in ToldBy(Tail(q)) <=> \E i \in Told(q) : i # 1 /\ q[i].s = x
  <2>1. ASSUME x \in ToldBy(Tail(q)) PROVE \E i \in Told(q) : i # 1 /\ q[i].s = x
    <3>1. PICK i \in Told(Tail(q)) : Tail(q)[i].s = x
      BY <2>1 DEF ToldBy
    <3>2. i + 1 \in Told(q) /\ i + 1 # 1 /\ q[i + 1].s = x
      BY <1>2, <1>4, <3>1
    <3>3. QED
      BY <3>2
  <2>2. ASSUME NEW i \in Told(q), i # 1, q[i].s = x PROVE x \in ToldBy(Tail(q))
    <3>1. i \in 1..Len(q)
      BY DEF Told
    <3>2. i - 1 \in Told(Tail(q)) /\ Tail(q)[i - 1].s = x
      BY <1>2, <1>3, <1>4, <2>2, <3>1
    <3>3. QED
      BY <3>2 DEF ToldBy
  <2>3. QED
    BY <2>1, <2>2
<1>10. \A x : x \in ToldBy(q) <=> \E i \in Told(q) : q[i].s = x
  BY DEF ToldBy
<1>7. CASE Head(q).m \in Tells
  <2>1. 1 \in Told(q)
    BY <1>1, <1>7 DEF Told
  <2>2. \A i \in Told(q) : i # 1 => q[i].s # q[1].s
    BY <2>1 DEF ToldOnce
  <2>3. \A x : x \in ToldBy(Tail(q)) <=> x \in ToldBy(q) \ {q[1].s}
    BY <1>6, <1>10, <2>2
  <2>4. QED
    BY <1>1, <1>5, <1>7, <2>1, <2>3 DEF ToldBy
<1>8. CASE Head(q).m \notin Tells
  <2>1. 1 \notin Told(q)
    BY <1>1, <1>8 DEF Told
  <2>2. \A x : x \in ToldBy(Tail(q)) <=> x \in ToldBy(q)
    BY <1>6, <1>10, <2>1
  <2>3. ToldBy(Tail(q)) = ToldBy(q)
    BY <2>2, Zenon
  <2>4. QED
    BY <1>1, <1>5, <1>8, <2>3
<1>9. QED
  BY <1>7, <1>8

LEMMA ToldAppend == ASSUME NEW q \in Seq(Signals), NEW x \in Signals, ToldOnce(q),
                           x.m \in Tells => x.s \notin ToldBy(q)
  PROVE  /\ Append(q, x) \in Seq(Signals) /\ ToldOnce(Append(q, x))
         /\ ToldBy(Append(q, x)) = ToldBy(q) \cup (IF x.m \in Tells THEN {x.s} ELSE {})
<1> DEFINE r == Append(q, x)  n == Len(q) + 1
<1>1. /\ r \in Seq(Signals) /\ Len(r) = n /\ r[n] = x /\ Len(q) \in Nat
      /\ \A i \in 1..Len(q) : r[i] = q[i] /\ i # n
      /\ \A i \in 1..n : i = n \/ i \in 1..Len(q)
      /\ \A i \in 1..Len(q) : i \in 1..n
      /\ n \in 1..n
  OBVIOUS
<1> HIDE DEF r, n
<1>2. /\ \A i \in Told(q) : i \in Told(r) /\ r[i] = q[i]
      /\ \A i \in Told(r) : i # n => i \in Told(q) /\ r[i] = q[i]
      /\ n \in Told(r) <=> x.m \in Tells
  BY <1>1 DEF Told
<1>3. \A i \in Told(q) : q[i].s \in ToldBy(q)
  BY DEF ToldBy
<1>4. ToldOnce(r)
  <2> SUFFICES ASSUME NEW i \in Told(r), NEW j \in Told(r), r[i].s = r[j].s PROVE i = j
    BY DEF ToldOnce
  <2>1. CASE i = n \/ j = n
    BY <2>1, <1>1, <1>2, <1>3
  <2>2. CASE i # n /\ j # n
    BY <2>2, <1>2 DEF ToldOnce
  <2>3. QED
    BY <2>1, <2>2
<1>5. ToldBy(r) = ToldBy(q) \cup (IF x.m \in Tells THEN {x.s} ELSE {})
  <2>1. \A y \in ToldBy(r) : y \in ToldBy(q) \/ (x.m \in Tells /\ y = x.s)
    BY <1>1, <1>2 DEF ToldBy
  <2>2. \A y \in ToldBy(q) : y \in ToldBy(r)
    BY <1>2 DEF ToldBy
  <2>3. x.m \in Tells => x.s \in ToldBy(r)
    BY <1>1, <1>2 DEF ToldBy
  <2>4. QED
    BY <2>1, <2>2, <2>3
<1>6. QED
  BY <1>1, <1>4, <1>5 DEF r

LEMMA FlightSlots == ASSUME Types PROVE InFlight \in SUBSET Slot /\ IsFiniteSet(InFlight)
<1>1. ToSet(bus) \subseteq Slot /\ ToldBy(sig) \subseteq Slot /\ Hand \subseteq Slot
  BY AsSet, ToldSlots DEF Types, Hand
<1>2. InFlight \in SUBSET Slot
  BY <1>1, InFlightIs
<1>3. QED
  BY <1>2, FwsConsts, FS_Subset

\* The packets of S keep their destination and fifo.
Keep(S) == \A s \in S : pkt'[s].e = pkt[s].e /\ pkt'[s].f = pkt[s].f
AsideRequest(x, y) ==
  /\ x.occupied = y.occupied /\ x.open = y.open /\ x.suppressed = y.suppressed
  /\ x.gen = y.gen /\ x.transit = y.transit /\ x.supprTransit = y.supprTransit

-----------------------------------------------------------------------------
(* The operators on the descriptors.                                         *)
LEMMA RecoveredIs == ASSUME ent \in [Entry -> Descriptors], NEW seen
  PROVE  /\ Recovered(seen) \in [Entry -> Descriptors]
         /\ \A x \in Entry : Recovered(seen)[x] =
              [ent[x] EXCEPT !.suppressed = ent[x].suppressed /\ x \notin seen]
  BY DEF Recovered, Descriptors

LEMMA OutIs == ASSUME NEW en \in [Entry -> Descriptors], NEW s, pkt[s].e \in Entry
  PROVE  /\ Out(en, s) \in [Entry -> Descriptors]
         /\ \A x \in Entry : Out(en, s)[x] =
              IF x = pkt[s].e
              THEN [en[x] EXCEPT !.transit = en[x].transit - 1,
                      !.supprTransit = IF en[x].suppressed /\ en[x].supprTransit > 0
                                       THEN en[x].supprTransit - 1 ELSE en[x].supprTransit]
              ELSE en[x]
<1> DEFINE e == pkt[s].e
           n == IF en[e].suppressed /\ en[e].supprTransit > 0
                THEN en[e].supprTransit - 1 ELSE en[e].supprTransit
           d == [en[e] EXCEPT !.transit = en[e].transit - 1, !.supprTransit = n]
<1>1. en[e] \in Descriptors /\ en[e].transit \in Int /\ en[e].supprTransit \in Int
  BY DEF Descriptors
<1>2. n \in Int
  BY <1>1
<1>3. Out(en, s) = [en EXCEPT ![e] = d]
  BY <1>1 DEF Out, Descriptors
<1> HIDE DEF n
<1>4. d \in Descriptors
  <2>1. en[e].transit - 1 \in Int
    BY <1>1
  <2>2. QED
    BY <1>1, <1>2, <2>1 DEF Descriptors
<1> HIDE DEF d
<1>5. Out(en, s) \in [Entry -> Descriptors] /\ \A x \in Entry : Out(en, s)[x] = IF x = e THEN d ELSE en[x]
  BY <1>3, <1>4
<1>6. QED
  BY <1>5 DEF d, n

LEMMA ReqBackIs == ASSUME NEW en \in [Entry -> Descriptors], NEW s, pkt[s].e \in Entry
  PROVE  /\ ReqBack(en, s) \in [Entry -> Descriptors]
         /\ \A x \in Entry : AsideRequest(ReqBack(en, s)[x], en[x])
  BY DEF ReqBack, Descriptors, AsideRequest

-----------------------------------------------------------------------------
(* The operators on the credits.                                             *)
Credits0 == [credit : [Fifo -> Int], borrowed : [Fifo -> [Fifo -> Nat]], map : SUBSET Fifo]
OwedBy(c, f) == {l \in Fifo : c.borrowed[f][l] > 0}

LEMMA CredIs == ASSUME Types PROVE Cred \in Credits0
  BY DEF Types, Cred, Credits0

LEMMA LenderOf == ASSUME NEW T \in SUBSET Fifo, T # {}
  PROVE  Max(T) \in T /\ Min(T) \in T
<1>1. Top \in Nat /\ T \in SUBSET (0..Top) /\ T \in SUBSET Nat
  BY FwsConsts
<1>2. QED
  BY <1>1, MinIn, MaxIn

\* A credit given back: to a lender, or to the fifo itself.
PaysBack(c, d, f, l) ==
  /\ l \in OwedBy(c, f)
  /\ d.credit = [c.credit EXCEPT ![l] = c.credit[l] + 1]
  /\ d.borrowed = [c.borrowed EXCEPT ![f] = [c.borrowed[f] EXCEPT ![l] = c.borrowed[f][l] - 1]]
  /\ d.map = c.map \cup {f, l}
Keeps(c, d, f) ==
  /\ OwedBy(c, f) = {} \/ f = 0
  /\ d.credit = [c.credit EXCEPT ![f] = Min({c.credit[f] + 1, Init_credit[f]})]
  /\ d.borrowed = c.borrowed /\ d.map = c.map \cup {f}

LEMMA ReturnedIs == ASSUME NEW c \in Credits0, NEW f \in Fifo
  PROVE  /\ Returned(c, f) \in Credits0
         /\ (\E l \in Fifo : PaysBack(c, Returned(c, f), f, l)) \/ Keeps(c, Returned(c, f), f)
<1> DEFINE d == Returned(c, f)
<1>0. f \in Nat /\ Init_credit[f] \in Nat
  BY FwsConsts
<1>1. CASE OwedBy(c, f) # {} /\ f > 0
  <2> DEFINE l == Max(OwedBy(c, f))
  <2>1. l \in OwedBy(c, f)
    BY <1>1, LenderOf DEF OwedBy
  <2>2. d = [c EXCEPT !.borrowed[f][l] = @ - 1, !.credit[l] = @ + 1, !.map = @ \cup {f, l}]
    BY <1>1 DEF Returned, OwedBy
  <2> HIDE DEF l, d
  <2>3. l \in Fifo /\ c.borrowed[f][l] - 1 \in Nat
    BY <2>1 DEF OwedBy, Credits0
  <2>4. PaysBack(c, d, f, l)
    BY <2>1, <2>2, <2>3 DEF PaysBack, Credits0
  <2>5. d \in Credits0
    <3>1. d.credit \in [Fifo -> Int] /\ d.map \in SUBSET Fifo
      BY <2>3, <2>4 DEF PaysBack, Credits0
    <3>2. d.borrowed \in [Fifo -> [Fifo -> Nat]]
      BY <2>3, <2>4 DEF PaysBack, Credits0
    <3>3. QED
      BY <2>2, <3>1, <3>2 DEF Credits0
  <2>6. QED
    BY <2>3, <2>4, <2>5 DEF d
<1>2. CASE ~(OwedBy(c, f) # {} /\ f > 0)
  <2>1. d = [c EXCEPT !.credit[f] = Min({@ + 1, Init_credit[f]}), !.map = @ \cup {f}]
    BY <1>2 DEF Returned, OwedBy
  <2>2. Min({c.credit[f] + 1, Init_credit[f]}) \in Int
    <3>1. c.credit[f] + 1 \in Int /\ Init_credit[f] \in Int
      BY <1>0 DEF Credits0
    <3>2. \A x, y \in Int : Min({x, y}) \in Int
      BY DEF Min
    <3>3. QED
      BY <3>1, <3>2
  <2> HIDE DEF d
  <2>3. Keeps(c, d, f)
    BY <1>0, <1>2, <2>1 DEF Keeps, Credits0
  <2>4. d \in Credits0
    BY <2>1, <2>2 DEF Credits0
  <2>5. QED
    BY <2>3, <2>4 DEF d
<1>3. QED
  BY <1>1, <1>2

\* A credit lent.
LEMMA BorrowedIs == ASSUME Types, NEW f \in Fifo, CanLend(f) # {}
  PROVE  /\ Borrowed(f) \in Credits0
         /\ \E l \in CanLend(f) :
              /\ l \in Fifo /\ l < f /\ credit[l] > 0
              /\ Borrowed(f).credit = [credit EXCEPT ![l] = credit[l] - 1]
              /\ Borrowed(f).borrowed =
                   [borrowed EXCEPT ![f] = [borrowed[f] EXCEPT ![l] = borrowed[f][l] + 1]]
              /\ Borrowed(f).map =
                   (IF credit[l] = 1 THEN creditMap \ {l} ELSE creditMap) \cup {f}
<1> DEFINE l == Min(CanLend(f))
<1>0. credit \in [Fifo -> Int] /\ borrowed \in [Fifo -> [Fifo -> Nat]] /\ creditMap \in SUBSET Fifo
  BY DEF Types
<1>1. CanLend(f) \in SUBSET Fifo /\ \A x \in CanLend(f) : x < f /\ credit[x] > 0
  BY DEF CanLend, Lenders
<1>2. l \in CanLend(f)
  BY <1>1, LenderOf
<1>3. Borrowed(f) = [credit |-> [credit EXCEPT ![l] = @ - 1],
                     borrowed |-> [borrowed EXCEPT ![f][l] = @ + 1],
                     map |-> (IF credit[l] = 1 THEN creditMap \ {l} ELSE creditMap) \cup {f}]
  BY DEF Borrowed
<1> HIDE DEF l
<1>4. l \in Fifo /\ l < f /\ credit[l] > 0
  BY <1>1, <1>2
<1>5. /\ Borrowed(f).borrowed =
           [borrowed EXCEPT ![f] = [borrowed[f] EXCEPT ![l] = borrowed[f][l] + 1]]
      /\ Borrowed(f).credit = [credit EXCEPT ![l] = credit[l] - 1]
      /\ Borrowed(f).map = (IF credit[l] = 1 THEN creditMap \ {l} ELSE creditMap) \cup {f}
  BY <1>3, <1>4 DEF Types
<1>6. Borrowed(f) \in Credits0
  <2>1. Borrowed(f).credit \in [Fifo -> Int] /\ Borrowed(f).map \in SUBSET Fifo
    BY <1>0, <1>4, <1>5
  <2>2. borrowed[f][l] + 1 \in Nat
    BY <1>0, <1>4
  <2>3. Borrowed(f).borrowed \in [Fifo -> [Fifo -> Nat]]
    BY <1>0, <1>4, <1>5, <2>2
  <2>4. QED
    BY <1>3, <2>1, <2>3 DEF Credits0
<1>7. QED
  BY <1>2, <1>4, <1>5, <1>6

\* The packet s leaves the queue of e and f, or joins it.
Taken(q, r, s, state, e, f) ==
  /\ s \in Slot /\ s \in Members(q) /\ hanger[s] = state /\ pkt[s].e = e /\ pkt[s].f = f
  /\ r \in Queues /\ Members(r) = Members(q) \ {s} /\ FiledNext(r, state)
Joined(q, r, s, state) ==
  r \in Queues /\ Members(r) = Members(q) \cup {s} /\ FiledNext(r, state)

LEMMA TakeOne == ASSUME NEW q \in Queues, NEW state, Filed(q, state), NEW e \in Entry, NEW f \in Fifo,
                        q[e][f] # <<>>, KeptIn(Members(q), state),
                        NEW s, s = Head(q[e][f]), NEW r, r = [q EXCEPT ![e][f] = Tail(q[e][f])]
  PROVE  Taken(q, r, s, state, e, f)
<1> DEFINE x == Tail(q[e][f])
<1>1. q[e][f] \in Seq(Slot) /\ Once(q[e][f])
  BY QueueOf, FiledAt
<1>2. /\ x \in Seq(Slot) /\ s \in ToSet(q[e][f]) /\ s \in Slot /\ Once(x)
      /\ ToSet(x) = ToSet(q[e][f]) \ {s}
  BY <1>1, OnceTail
<1> HIDE DEF x
<1>3. Changed(r, q, e, f, x)
  BY <1>2, Refiled DEF x
<1>4. Members(r) = Members(q) \ {s} /\ r \in Queues
  <2>1. Members(r) = Members(q) \ {s}
    BY SMTT(30), <1>2, <1>3, TakenOut
  <2>2. QED
    BY <1>3, <2>1 DEF Changed
<1>5. /\ s \in Members(q) /\ hanger[s] = state /\ pkt[s].e = e /\ pkt[s].f = f
      /\ \A y \in ToSet(x) : y \in Members(q) /\ pkt[y].e = e /\ pkt[y].f = f
  BY <1>2, FiledAt, QueueOf
<1>6. NowIn(ToSet(x), state, e, f)
  BY <1>5 DEF KeptIn, NowIn
<1>7. FiledNext(r, state)
  BY <1>2, <1>3, <1>6, FiledStep
<1>8. QED
  BY <1>2, <1>4, <1>5, <1>7 DEF Taken

LEMMA PutOne == ASSUME NEW q \in Queues, NEW state, Filed(q, state), NEW e \in Entry, NEW f \in Fifo,
                       NEW s \in Slot, NEW x \in Seq(Slot), Once(x),
                       ToSet(x) = ToSet(q[e][f]) \cup {s},
                       NowIn({s}, state, e, f), KeptIn(Members(q), state),
                       NEW r, r = [q EXCEPT ![e][f] = x]
  PROVE  Joined(q, r, s, state)
<1>1. Changed(r, q, e, f, x)
  BY Refiled
<1>2. r \in Queues /\ Members(r) = Members(q) \cup {s}
  <2>1. Members(r) = Members(q) \cup {s}
    BY ONLY q \in Queues, e \in Entry, f \in Fifo, s \in Slot, <1>1,
            ToSet(x) = ToSet(q[e][f]) \cup {s}, PutIn
  <2>2. QED
    BY <1>1, <2>1 DEF Changed
<1>3. \A y \in ToSet(q[e][f]) : y \in Members(q) /\ pkt[y].e = e /\ pkt[y].f = f
  BY FiledAt, QueueOf
<1>4. NowIn(ToSet(x), state, e, f)
  BY <1>3 DEF KeptIn, NowIn
<1>5. FiledNext(r, state)
  BY <1>1, <1>4, FiledStep
<1>6. QED
  BY <1>2, <1>5 DEF Joined

LEMMA OfferIs == ASSUME Core, NEW f \in Fifo, NEW e \in Ready(f)
  PROVE  /\ e \in Entry /\ ent[e].occupied
         /\ IF supprq[e][f] # <<>> THEN Offer(e, f) = supprq[e][f]
            ELSE Offer(e, f) = delayq[e][f] /\ delayq[e][f] # <<>> /\ ~HoldsBack(e, f)
  BY DEF Ready, Served, Offer

\* What the dequeue of a packet does.
Dequeued(e, f, s) ==
  /\ s \in Slot /\ s \in InQueue /\ pkt[s].e = e /\ pkt[s].f = f
  /\ hanger[s] \in {"inuse", "suppressed"}
  /\ delayq' \in Queues /\ supprq' \in Queues
  /\ Filed(delayq, "inuse")' /\ Filed(supprq, "suppressed")'
  /\ InQueue' = InQueue \ {s}
  /\ pkt' \in [Slot -> Packets] /\ Keep(Slot)

LEMMA DeqIs == ASSUME Core, NEW f \in Fifo, NEW e \in Ready(f), NEW seen, Deq(e, f, seen),
                      hanger' = hanger
  PROVE  Dequeued(e, f, Head(Offer(e, f)))
<1> DEFINE s == Head(Offer(e, f))
<1>1. /\ delayq \in Queues /\ supprq \in Queues /\ pkt \in [Slot -> Packets]
      /\ hanger \in [Slot -> {"free", "inuse", "suppressed"}]
      /\ ent \in [Entry -> Descriptors] /\ e \in Entry
      /\ Filed(delayq, "inuse") /\ Filed(supprq, "suppressed")
  BY OfferIs DEF Core, Types
<1>2. InQueue = Members(delayq) \cup Members(supprq)
  BY <1>1, WaitingIs DEF InQueue
<1>3. ent[e].gen \in 0..1 /\ (ent[e].request > 0) \in BOOLEAN
  BY <1>1 DEF Descriptors
<1>4. pkt' = [pkt EXCEPT ![s].gen = IF hanger[s] = "suppressed" THEN @ ELSE ent[e].gen,
                         ![s].req = ent[e].request > 0]
  BY DEF Deq
<1>5. pkt' \in [Slot -> Packets] /\ Keep(Slot)
  <2> DEFINE g == IF hanger[s] = "suppressed" THEN pkt[s].gen ELSE ent[e].gen
             p == [pkt[s] EXCEPT !.gen = g, !.req = ent[e].request > 0]
  <2> HIDE DEF s
  <2>1. CASE s \in Slot
    <3>1. pkt[s] \in Packets /\ g \in 0..1
      BY <1>1, <1>3, <2>1 DEF Packets
    <3> HIDE DEF g
    <3>2. p \in Packets /\ p.e = pkt[s].e /\ p.f = pkt[s].f
      BY <1>3, <3>1 DEF Packets
    <3>3. pkt' = [pkt EXCEPT ![s] = p]
      BY <1>1, <1>4, <2>1, <3>1 DEF Packets, g
    <3> HIDE DEF p
    <3>4. QED
      BY <1>1, <2>1, <3>2, <3>3 DEF Keep
  <2>2. CASE s \notin Slot
    <3>1. pkt' = pkt
      BY <1>1, <1>4, <2>2
    <3>2. QED
      BY <1>1, <3>1 DEF Keep
  <2>3. QED
    BY <2>1, <2>2
<1>6. KeptIn(Members(delayq), "inuse") /\ KeptIn(Members(supprq), "suppressed")
  BY <1>1, <1>5, FiledMembers DEF KeptIn, Keep
<1>7. CASE supprq[e][f] # <<>>
  <2>1. s = Head(supprq[e][f]) /\ delayq' = delayq
        /\ supprq' = [supprq EXCEPT ![e][f] = Tail(supprq[e][f])]
    BY <1>7, OfferIs DEF Deq
  <2> HIDE DEF s
  <2>2. Taken(supprq, supprq', s, "suppressed", e, f)
    BY <1>1, <1>6, <1>7, <2>1, TakeOne
  <2>3. s \notin Members(delayq)
    BY <1>1, <2>2, FiledMembers DEF Taken
  <2>4. FiledNext(delayq', "inuse")
    BY <1>1, <1>6, <2>1, FiledKept
  <2>5. InQueue' = Members(delayq) \cup Members(supprq')
    BY <1>1, <2>1, <2>2, WaitingIs DEF InQueue, Taken
  <2>6. QED
    BY <1>1, <1>2, <1>5, <2>1, <2>2, <2>3, <2>4, <2>5, FiledPrime DEF Dequeued, Taken, s
<1>8. CASE supprq[e][f] = <<>>
  <2>1. s = Head(delayq[e][f]) /\ supprq' = supprq /\ delayq[e][f] # <<>>
        /\ delayq' = [delayq EXCEPT ![e][f] = Tail(delayq[e][f])]
    BY <1>8, OfferIs DEF Deq
  <2> HIDE DEF s
  <2>2. Taken(delayq, delayq', s, "inuse", e, f)
    BY <1>1, <1>6, <2>1, TakeOne
  <2>3. s \notin Members(supprq)
    BY <1>1, <2>2, FiledMembers DEF Taken
  <2>4. FiledNext(supprq', "suppressed")
    BY <1>1, <1>6, <2>1, FiledKept
  <2>5. InQueue' = Members(delayq') \cup Members(supprq)
    BY <1>1, <2>1, <2>2, WaitingIs DEF InQueue, Taken
  <2>6. QED
    BY <1>1, <1>2, <1>5, <2>1, <2>2, <2>3, <2>4, <2>5, FiledPrime DEF Dequeued, Taken, s
<1>9. QED
  BY <1>7, <1>8

-----------------------------------------------------------------------------
(* What a step does to what is on its way.                                   *)
\* What is on its way stays the same; a queued packet joins it; one leaves it.
Still == InFlight' = InFlight /\ Keep(InFlight)
Joins(s) == s \in InQueue /\ s \notin InFlight /\ InFlight' = InFlight \cup {s} /\ Keep(InFlight')
Leaves(s) == s \in InFlight /\ InFlight' = InFlight \ {s} /\ Keep(InFlight')

LEMMA FlightPkt == ASSUME Core, NEW s \in InFlight
  PROVE  s \in Slot /\ hanger[s] # "free" /\ pkt[s] \in Packets /\ pkt[s].e \in Entry /\ pkt[s].f \in Fifo
<1>1. s \in Slot /\ hanger[s] # "free"
  BY FlightSlots DEF Core, Places
<1>2. pkt[s] \in Packets /\ pkt[s].e \in Entry
  BY <1>1 DEF Core, Places, Types
<1>3. QED
  BY <1>1, <1>2 DEF Packets

\* The packets stay where they are.
LEMMA PlacesStill == ASSUME Core, Types', Flights', InFlight' = InFlight,
                            UNCHANGED <<hanger, pkt, delayq, supprq, orphan>>
  PROVE  Core' /\ Still /\ InQueue' = InQueue
<1>1. InQueue' = InQueue
  BY DEF InQueue, HeldFor
<1>2. Places'
  BY <1>1 DEF Core, Places
<1>3. Filed(delayq, "inuse")' /\ Filed(supprq, "suppressed")'
  BY DEF Core, Filed, Once
<1>4. Still
  BY DEF Still, Keep
<1>5. QED
  BY <1>1, <1>2, <1>3, <1>4 DEF Core

\* Only signals of no packet come or go.
Quiet == \/ sig' = sig
         \/ sig # <<>> /\ sig' = Tail(sig) /\ Head(sig).m \notin Tells
         \/ \E x \in Signals : sig' = Append(sig, x) /\ x.m \notin Tells

LEMMA FlightsStill == ASSUME Core, bus' = bus, Hand' = Hand, Quiet
  PROVE  sig' \in Seq(Signals) /\ Flights' /\ InFlight' = InFlight
<1>1. sig \in Seq(Signals) /\ Flights
  BY DEF Core, Types
<1>2. sig' \in Seq(Signals) /\ ToldOnce(sig') /\ ToldBy(sig') = ToldBy(sig)
  <2>1. CASE sig' = sig
    BY <1>1, <2>1 DEF Flights
  <2>2. CASE sig # <<>> /\ sig' = Tail(sig) /\ Head(sig).m \notin Tells
    BY <1>1, <2>2, ToldTail DEF Flights
  <2>3. CASE \E x \in Signals : sig' = Append(sig, x) /\ x.m \notin Tells
    <3>1. PICK x \in Signals : sig' = Append(sig, x) /\ x.m \notin Tells
      BY <2>3
    <3>2. QED
      BY <1>1, <3>1, ToldAppend DEF Flights
  <2>4. QED
    BY <2>1, <2>2, <2>3 DEF Quiet
<1>3. InFlight' = InFlight
  BY <1>2, InFlightIs, InFlightIsNext
<1>4. Flights'
  <2>1. Flights' <=> /\ Once(bus') /\ ToldOnce(sig')
                     /\ Hand' \cap ToSet(bus') = {} /\ Hand' \cap ToldBy(sig') = {}
                     /\ ToSet(bus') \cap ToldBy(sig') = {}
    BY DEF Flights, ToldOnce, Once, ToldBy, Told
  <2>2. QED
    BY <1>1, <1>2, <2>1 DEF Flights
<1>5. QED
  BY <1>2, <1>3, <1>4

-----------------------------------------------------------------------------
(* The steps that move no packet.                                            *)
LEMMA NextFifoIs == ASSUME Types
  PROVE  /\ \A f \in Fifo : NextFifo(f).at # "hand" /\ NextFifo(f) \in
              [at : {"idle", "own"}, fifo : Fifo, from : {"own", "borrow"}, slot : Nat]
         /\ \A f \in Fifo : \A cr : Own2(f, cr).at # "hand" /\ Own2(f, cr) \in
              [at : {"idle", "own", "borrow"}, fifo : Fifo, from : {"own", "borrow"}, slot : Nat]
<1>1. \A f \in Fifo : f # 0 => f - 1 \in Fifo
  BY FwsConsts
<1>2. Top \in Fifo
  BY FwsConsts
<1>3. QED
  BY <1>1, <1>2 DEF NextFifo, Own2, At, Idle

LEMMA WorkBeginCore == ASSUME Core, WorkBegin PROVE Core' /\ Still /\ InQueue' = InQueue
<1>1. Hand' = Hand
  BY DEF WorkBegin, Hand, Idle, At
<1>2. sig' \in Seq(Signals) /\ Flights' /\ InFlight' = InFlight
  BY <1>1, FlightsStill DEF WorkBegin, Quiet
<1>3. Types'
  BY FwsConsts DEF Core, Types, WorkBegin, qVars, pktSeqVars, credVars, fwVars, Idle, At
<1>4. QED
  BY <1>2, <1>3, PlacesStill DEF WorkBegin, qVars, pktSeqVars

LEMMA WorkOwnDoneCore == ASSUME Core, WorkOwnDone PROVE Core' /\ Still /\ InQueue' = InQueue
<1>0. wk.fifo \in Fifo /\ ent \in [Entry -> Descriptors] /\ Types
  BY DEF Core, Types
<1>1. Hand' = Hand
  BY <1>0, NextFifoIs DEF WorkOwnDone, Hand
<1>2. sig' \in Seq(Signals) /\ Flights' /\ InFlight' = InFlight
  BY <1>1, FlightsStill DEF WorkOwnDone, Quiet
<1>3. ent' \in [Entry -> Descriptors]
  BY <1>0, RecoveredIs DEF WorkOwnDone
<1>4. wk' \in [at : {"idle", "own", "borrow", "hand"}, fifo : Fifo, from : {"own", "borrow"},
             slot : Nat] /\ wk'.at # "hand"
  BY <1>0, NextFifoIs DEF WorkOwnDone
<1>5. Types'
  BY <1>3, <1>4 DEF Core, Types, WorkOwnDone, qVars, pktSeqVars, credVars, fwVars
<1>6. QED
  BY <1>2, <1>5, PlacesStill DEF WorkOwnDone, qVars, pktSeqVars

LEMMA WorkBorrowDoneCore == ASSUME Core, WorkBorrowDone PROVE Core' /\ Still /\ InQueue' = InQueue
<1>0. wk.fifo \in Fifo /\ ent \in [Entry -> Descriptors] /\ Types
  BY DEF Core, Types
<1>1. Hand' = Hand
  BY <1>0, NextFifoIs DEF WorkBorrowDone, Hand
<1>2. sig' \in Seq(Signals) /\ Flights' /\ InFlight' = InFlight
  BY <1>1, FlightsStill DEF WorkBorrowDone, Quiet
<1>3. /\ ent' \in [Entry -> Descriptors]
      /\ credit' \in [Fifo -> Int] /\ borrowed' \in [Fifo -> [Fifo -> Nat]]
      /\ creditMap' \in SUBSET Fifo
  <2>1. CASE CanLend(wk.fifo) = {}
    BY <1>0, <2>1 DEF WorkBorrowDone, Types
  <2>2. CASE CanLend(wk.fifo) # {}
    <3>1. Returned(Borrowed(wk.fifo), wk.fifo) \in Credits0
      BY <1>0, <2>2, BorrowedIs, ReturnedIs
    <3>2. QED
      BY <1>0, <2>2, <3>1, RecoveredIs DEF WorkBorrowDone, SetCred, Credits0
  <2>3. QED
    BY <2>1, <2>2
<1>4. wk' \in [at : {"idle", "own", "borrow", "hand"}, fifo : Fifo, from : {"own", "borrow"},
             slot : Nat] /\ wk'.at # "hand"
  BY <1>0, NextFifoIs DEF WorkBorrowDone
<1>5. Types'
  BY <1>3, <1>4 DEF Core, Types, WorkBorrowDone, qVars, pktSeqVars, credVars, fwVars
<1>6. QED
  BY <1>2, <1>5, PlacesStill DEF WorkBorrowDone, qVars, pktSeqVars

LEMMA BusBlockCore == ASSUME Core, BusBlock \/ BusUnblock PROVE Core' /\ Still /\ InQueue' = InQueue
<1>1. Hand' = Hand /\ bus' = bus /\ Quiet
  BY DEF BusBlock, BusUnblock, Hand, Quiet
<1>2. sig' \in Seq(Signals) /\ Flights' /\ InFlight' = InFlight
  BY <1>1, FlightsStill
<1>3. deqQueued' \in BOOLEAN
  BY DEF BusBlock, BusUnblock, Schedule, Core, Types
<1>4. Types'
  <2>0. used' \in [pkt : Nat, sleep : Nat, refuse : Nat, other : Nat]
    BY DEF BusBlock, BusUnblock, Core, Types
  <2>1. CASE BusBlock
    BY <1>3, <2>0, <2>1 DEF Core, Types, BusBlock, qVars, pktSeqVars, credVars, fwVars
  <2>2. CASE BusUnblock
    BY <1>3, <2>2 DEF Core, Types, BusUnblock, qVars, pktSeqVars, credVars, fwVars
  <2>3. QED
    BY <2>1, <2>2
<1>5. QED
  BY <1>2, <1>4, PlacesStill DEF BusBlock, BusUnblock, qVars, pktSeqVars

LEMMA MacCore == ASSUME Core, NEW m \in {"open", "close"}, MacState(m) \/ MacRequest
  PROVE  Core' /\ Still /\ InQueue' = InQueue
<1>0. ent \in [Entry -> Descriptors] /\ sig \in Seq(Signals)
  BY DEF Core, Types
<1>1. Hand' = Hand /\ bus' = bus /\ Quiet
  BY DEF MacState, MacRequest, Got, Hand, Quiet, Tells
<1>2. sig' \in Seq(Signals) /\ Flights' /\ InFlight' = InFlight
  BY <1>1, FlightsStill
<1>3. deqQueued' \in BOOLEAN
  BY DEF MacState, MacRequest, Schedule, Core, Types
<1>4. ent' \in [Entry -> Descriptors]
  <2> DEFINE e == Head(sig).e
  <2>1. e \in Entry
    <3>1. sig # <<>> => Head(sig) \in Signals
      BY <1>0
    <3>2. QED
      BY <3>1 DEF MacState, MacRequest, Got, Signals
  <2> HIDE DEF e
  <2>2. \A x \in Descriptors : /\ [x EXCEPT !.open = (m = "open"), !.request = 0] \in Descriptors
                              /\ [x EXCEPT !.request = 1] \in Descriptors
    BY DEF Descriptors
  <2>3. \E x \in Descriptors : ent' = [ent EXCEPT ![e] = x]
    <3>1. \/ ent' = [ent EXCEPT ![e] = [ent[e] EXCEPT !.open = (m = "open"), !.request = 0]]
          \/ ent' = [ent EXCEPT ![e] = [ent[e] EXCEPT !.request = 1]]
          \/ ent' = [ent EXCEPT ![e] = ent[e]]
      BY <1>0, <2>1 DEF MacState, MacRequest, e
    <3>2. QED
      BY <1>0, <2>1, <2>2, <3>1
  <2>4. QED
    BY <1>0, <2>1, <2>3
<1>5. Types'
  <2>1. CASE MacState(m)
    BY <1>2, <1>3, <1>4, <2>1 DEF Core, Types, MacState, qVars, pktSeqVars, credVars, fwVars
  <2>2. CASE MacRequest
    BY <1>2, <1>3, <1>4, <2>2 DEF Core, Types, MacRequest, qVars, pktSeqVars, credVars, fwVars
  <2>3. QED
    BY <2>1, <2>2
<1>6. QED
  BY <1>2, <1>5, PlacesStill DEF MacState, MacRequest, qVars, pktSeqVars

FwStep(e) == FwSleep(e) \/ FwWake(e) \/ FwRequest(e) \/ FwDel(e)

LEMMA FwCore == ASSUME Core, NEW e \in Entry, FwStep(e) PROVE Core' /\ Still /\ InQueue' = InQueue
<1>1. Hand' = Hand /\ bus' = bus /\ UNCHANGED Rest
  BY DEF FwStep, FwSleep, FwWake, FwRequest, FwDel, Rest, Hand
<1>2. Quiet
  <2>1. ASSUME NEW m \in {"open", "close", "request", "del"}, Signal(m, e) PROVE Quiet
    <3>1. [m |-> m, s |-> 0, e |-> e, gen |-> 0] \in Signals /\ m \notin Tells
      BY DEF Signals, Tells
    <3>2. QED
      BY <2>1, <3>1 DEF Signal, Quiet
  <2>2. QED
    BY <2>1 DEF FwStep, FwSleep, FwWake, FwRequest, FwDel
<1>3. sig' \in Seq(Signals) /\ Flights' /\ InFlight' = InFlight
  BY <1>1, <1>2, FlightsStill
<1>4. /\ fw' \in [Entry -> [asleep : BOOLEAN, gone : BOOLEAN, gen : 0..1, ask : Nat]]
      /\ used' \in [pkt : Nat, sleep : Nat, refuse : Nat, other : Nat]
  <2> DEFINE F == [asleep : BOOLEAN, gone : BOOLEAN, gen : 0..1, ask : Nat]
             U == [pkt : Nat, sleep : Nat, refuse : Nat, other : Nat]
  <2>1. fw \in [Entry -> F] /\ used \in U /\ fw[e] \in F
    BY DEF Core, Types
  <2>2. \A x \in F : /\ [x EXCEPT !.asleep = TRUE] \in F /\ [x EXCEPT !.asleep = FALSE, !.ask = 0] \in F
                     /\ [x EXCEPT !.ask = 1] \in F /\ [x EXCEPT !.gone = TRUE] \in F
    OBVIOUS
  <2>3. /\ [used EXCEPT !.sleep = @ + 1] \in U /\ [used EXCEPT !.other = @ + 1] \in U
    BY <2>1
  <2>4. used' = used \/ used' = [used EXCEPT !.sleep = @ + 1] \/ used' = [used EXCEPT !.other = @ + 1]
    BY DEF FwStep, FwSleep, FwWake, FwRequest, FwDel
  <2>5. \E x \in F : fw' = [fw EXCEPT ![e] = x]
    <3>1. \/ fw' = [fw EXCEPT ![e] = [fw[e] EXCEPT !.asleep = TRUE]]
          \/ fw' = [fw EXCEPT ![e] = [fw[e] EXCEPT !.asleep = FALSE, !.ask = 0]]
          \/ fw' = [fw EXCEPT ![e] = [fw[e] EXCEPT !.ask = 1]]
          \/ fw' = [fw EXCEPT ![e] = [fw[e] EXCEPT !.gone = TRUE]]
      BY <2>1 DEF FwStep, FwSleep, FwWake, FwRequest, FwDel
    <3> HIDE DEF F
    <3>2. QED
      BY <2>1, <2>2, <3>1
  <2> HIDE DEF F, U
  <2>6. QED
    BY <2>1, <2>3, <2>4, <2>5 DEF F, U
<1>5. Types'
  BY <1>1, <1>3, <1>4 DEF Core, Types, Rest, qVars, pktSeqVars, credVars
<1>6. QED
  BY <1>1, <1>3, <1>5, PlacesStill DEF Rest, qVars, pktSeqVars

-----------------------------------------------------------------------------
(* The steps that hand a packet on.                                          *)
LEMMA FlightsNext == Flights' <=> /\ Once(bus') /\ ToldOnce(sig')
                                  /\ Hand' \cap ToSet(bus') = {} /\ Hand' \cap ToldBy(sig') = {}
                                  /\ ToSet(bus') \cap ToldBy(sig') = {}
BY DEF Flights, ToldOnce, Once, ToldBy, Told

LEMMA WorkSentCore == ASSUME Core, WorkSent PROVE Core' /\ Still /\ InQueue' = InQueue
<1>0. /\ Types /\ Flights /\ bus \in Seq(Slot) /\ sig \in Seq(Signals) /\ wk.slot \in Slot
      /\ wk.fifo \in Fifo /\ wk.from \in {"own", "borrow"}
  BY DEF Core, Types, WorkSent
<1>1. Hand = {wk.slot} /\ Hand' = {} /\ bus' = Append(bus, wk.slot) /\ sig' = sig
  BY <1>0 DEF WorkSent, Hand, Idle, At
<1>2. bus' \in Seq(Slot) /\ Once(bus') /\ ToSet(bus') = ToSet(bus) \cup {wk.slot}
  <2>1. wk.slot \notin ToSet(bus)
    BY <1>0, <1>1 DEF Flights
  <2>2. QED
    BY <1>0, <1>1, <2>1, OnceAppend DEF Flights
<1>3. InFlight' = InFlight
  BY <1>1, <1>2, InFlightIs, InFlightIsNext
<1>4. Flights'
  BY <1>0, <1>1, <1>2, FlightsNext DEF Flights
<1>5. wk' \in [at : {"idle", "own", "borrow", "hand"}, fifo : Fifo, from : {"own", "borrow"},
             slot : Nat] /\ wk'.at # "hand"
  BY <1>0, FwsConsts DEF WorkSent, Idle, At
<1>6. Types'
  BY <1>2, <1>5 DEF Core, Types, WorkSent, qVars, pktSeqVars, credVars, fwVars
<1>7. QED
  BY <1>3, <1>4, <1>6, PlacesStill DEF WorkSent, qVars, pktSeqVars

LEMMA FwTakesCore == ASSUME Core, FwTakes PROVE Core' /\ Still /\ InQueue' = InQueue
<1> DEFINE s == Head(bus)
           F == [asleep : BOOLEAN, gone : BOOLEAN, gen : 0..1, ask : Nat]
<1>0. Types /\ Flights /\ bus \in Seq(Slot) /\ bus # <<>> /\ sig \in Seq(Signals)
  BY DEF Core, Types, FwTakes
<1>1. /\ bus' = Tail(bus) /\ bus' \in Seq(Slot) /\ Once(bus') /\ ToSet(bus') = ToSet(bus) \ {s}
      /\ s \in ToSet(bus) /\ s \in Slot
  BY <1>0, OnceTail DEF FwTakes, Flights
<1>2. pkt[s] \in Packets /\ pkt[s].e \in Entry /\ pkt[s].f \in Fifo
  BY <1>1, InFlightIs, FlightPkt
<1>3. PICK m \in Tells, g \in 0..1 :
        /\ sig' = Append(sig, [m |-> m, s |-> s, e |-> pkt[s].e, gen |-> g])
        /\ fw' = [fw EXCEPT ![pkt[s].e].gen = g]
        /\ air' = air \/ air' = [air EXCEPT ![pkt[s].e][pkt[s].f] = pkt[s].n]
  <2>1. fw[pkt[s].e].gen \in 0..1
    BY <1>0, <1>2 DEF Types
  <2>2. 1 - fw[pkt[s].e].gen \in 0..1
    BY <2>1
  <2> HIDE DEF s
  <2> DEFINE e == pkt[s].e
             first == ~fw[e].gone /\ pkt[s].gen = fw[e].gen /\ fw[e].asleep /\ ~pkt[s].req
             sup == first \/ (~fw[e].gone /\ pkt[s].gen # fw[e].gen)
             g == IF first THEN 1 - fw[e].gen ELSE fw[e].gen
             m == IF sup THEN "suppressed" ELSE "sent"
  <2>3. g \in 0..1 /\ m \in Tells
    BY <2>1, <2>2 DEF Tells
  <2>4. /\ sig' = Append(sig, [m |-> m, s |-> s, e |-> e, gen |-> g])
        /\ fw' = [fw EXCEPT ![e].gen = g]
        /\ air' = air \/ air' = [air EXCEPT ![e][pkt[s].f] = pkt[s].n]
    BY DEF FwTakes, s
  <2> HIDE DEF g, m
  <2>5. QED
    BY <2>3, <2>4
<1> DEFINE x == [m |-> m, s |-> s, e |-> pkt[s].e, gen |-> g]
<1>4. x \in Signals /\ x.m \in Tells /\ x.s = s
  BY <1>1, <1>2 DEF Signals, Tells
<1> HIDE DEF s
<1>5. s \notin ToldBy(sig) /\ s \notin Hand
  BY <1>0, <1>1 DEF Flights
<1>6. sig' = Append(sig, x)
  BY <1>3
<1> HIDE DEF x
<1>7. sig' \in Seq(Signals) /\ ToldOnce(sig') /\ ToldBy(sig') = ToldBy(sig) \cup {s}
  BY <1>0, <1>4, <1>5, <1>6, ToldAppend DEF Flights
<1>8. Hand' = Hand
  BY DEF FwTakes, Hand
<1>9. InFlight' = InFlight
  BY <1>1, <1>7, <1>8, InFlightIs, InFlightIsNext
<1>10. Flights'
  BY <1>0, <1>1, <1>5, <1>7, <1>8, FlightsNext DEF Flights
<1>11. fw' \in [Entry -> F]
  <2>1. fw \in [Entry -> F] /\ fw[pkt[s].e] \in F
    BY <1>0, <1>2 DEF Types
  <2>2. [fw[pkt[s].e] EXCEPT !.gen = g] \in F
    BY <2>1
  <2>3. fw' = [fw EXCEPT ![pkt[s].e] = [fw[pkt[s].e] EXCEPT !.gen = g]]
    BY <1>2, <1>3, <2>1
  <2> HIDE DEF F
  <2>4. QED
    BY <1>2, <2>1, <2>2, <2>3
<1>12. air' \in [Entry -> [Fifo -> Nat]]
  <2>1. air \in [Entry -> [Fifo -> Nat]] /\ pkt[s].n \in Nat
    BY <1>0, <1>2 DEF Types, Packets
  <2>2. CASE air' = [air EXCEPT ![pkt[s].e][pkt[s].f] = pkt[s].n]
    BY <1>2, <2>1, <2>2
  <2>3. QED
    BY <1>3, <2>1, <2>2
<1>13. Types'
  BY <1>0, <1>1, <1>7, <1>11, <1>12 DEF Core, Types, FwTakes, qVars, pktSeqVars, credVars
<1>14. QED
  BY <1>9, <1>10, <1>13, PlacesStill DEF FwTakes, qVars, pktSeqVars

-----------------------------------------------------------------------------
(* The steps that take a packet out of what is on its way.                   *)
LEMMA LeaveHand == ASSUME Core, wk.at = "hand", wk'.at # "hand", bus' = bus, sig' = sig
  PROVE  wk.slot \in InFlight /\ InFlight' = InFlight \ {wk.slot} /\ Flights'
<1>1. Flights /\ Hand = {wk.slot} /\ Hand' = {}
  BY DEF Core, Hand
<1>2. QED
  BY <1>1, InFlightIs, InFlightIsNext, FlightsNext DEF Flights

LEMMA LeaveBus == ASSUME Core, bus # <<>>, bus' = Tail(bus), wk' = wk, sig' = sig
  PROVE  /\ Head(bus) \in InFlight /\ InFlight' = InFlight \ {Head(bus)} /\ Flights'
         /\ bus' \in Seq(Slot)
<1>1. Flights /\ Hand' = Hand /\ bus \in Seq(Slot)
  BY DEF Core, Types, Hand
<1>2. /\ bus' \in Seq(Slot) /\ Once(bus') /\ ToSet(bus') = ToSet(bus) \ {Head(bus)}
      /\ Head(bus) \in ToSet(bus)
  BY <1>1, OnceTail DEF Flights
<1>3. QED
  BY <1>1, <1>2, InFlightIs, InFlightIsNext, FlightsNext DEF Flights

LEMMA LeaveSig == ASSUME Core, NEW m \in Tells, Got(m), wk' = wk, bus' = bus
  PROVE  /\ Head(sig).s \in InFlight /\ InFlight' = InFlight \ {Head(sig).s} /\ Flights'
         /\ sig' \in Seq(Signals) /\ Head(sig) \in Signals
<1>1. Flights /\ Hand' = Hand /\ sig \in Seq(Signals)
  BY DEF Core, Types, Hand
<1>2. /\ sig' \in Seq(Signals) /\ ToldOnce(sig') /\ ToldBy(sig') = ToldBy(sig) \ {Head(sig).s}
      /\ Head(sig).s \in ToldBy(sig) /\ Head(sig) \in Signals
  BY <1>1, ToldTail DEF Flights, Got
<1>3. QED
  BY <1>1, <1>2, InFlightIs, InFlightIsNext, FlightsNext DEF Flights

LEMMA QueueSlots == ASSUME Core PROVE InQueue \in SUBSET Slot /\ InQueue = Members(delayq) \cup Members(supprq)
<1>1. delayq \in Queues /\ supprq \in Queues
  BY DEF Core, Types
<1>2. InQueue = Members(delayq) \cup Members(supprq)
  BY <1>1, WaitingIs DEF InQueue
<1>3. QED
  BY <1>2 DEF Members

LEMMA FreedTypes == ASSUME Types, NEW S, Freed(S)
  PROVE  /\ hanger' \in [Slot -> {"free", "inuse", "suppressed"}] /\ pkt' \in [Slot -> Packets]
         /\ \A x \in Slot : x \in S => hanger'[x] = "free"
         /\ \A x \in Slot : x \notin S => hanger'[x] = hanger[x] /\ pkt'[x] = pkt[x]
<1>1. NoPkt \in Packets
  BY FwsConsts DEF NoPkt, Packets
<1>2. QED
  BY <1>1 DEF Freed, Types

\* A packet freed.
LEMMA Dropped == ASSUME Core, NEW s \in InFlight, Freed({s}), InFlight' = InFlight \ {s},
                        UNCHANGED <<delayq, supprq, orphan>>, Types', Flights'
  PROVE  Core' /\ Leaves(s) /\ InQueue' = InQueue /\ Keep(InQueue)
<1>1. InQueue' = InQueue
  BY DEF InQueue, HeldFor
<1>2. /\ InFlight \in SUBSET Slot /\ InQueue \in SUBSET Slot /\ orphan \in SUBSET Slot
      /\ InFlight \cap InQueue = {} /\ Types
  BY FlightSlots, QueueSlots DEF Core, Types, Places
<1>3. \A x \in Slot : IF x = s THEN hanger'[x] = "free" ELSE hanger'[x] = hanger[x] /\ pkt'[x] = pkt[x]
  BY <1>2, FreedTypes
<1>4. Places'
  BY <1>1, <1>2, <1>3 DEF Places, Core
<1>5. Leaves(s) /\ Keep(InQueue)
  BY <1>2, <1>3 DEF Leaves, Keep
<1>6. Filed(delayq, "inuse")' /\ Filed(supprq, "suppressed")'
  <2>1. delayq \in Queues /\ supprq \in Queues /\ Filed(delayq, "inuse") /\ Filed(supprq, "suppressed")
    BY DEF Core, Types
  <2>2. s \notin Members(delayq) /\ s \notin Members(supprq)
    BY <1>2, QueueSlots
  <2>3. KeptIn(Members(delayq), "inuse") /\ KeptIn(Members(supprq), "suppressed")
    BY <1>3, <2>1, <2>2, FiledMembers DEF KeptIn
  <2>4. QED
    BY <2>1, <2>3, FiledKept, FiledPrime
<1>7. QED
  BY <1>1, <1>4, <1>5, <1>6 DEF Core

LEMMA BusFailedCore == ASSUME Core, BusFailed
  PROVE  Core' /\ Leaves(Head(bus)) /\ InQueue' = InQueue /\ Keep(InQueue)
<1> DEFINE s == Head(bus)
<1>1. s \in InFlight /\ InFlight' = InFlight \ {s} /\ Flights' /\ bus' \in Seq(Slot)
  BY LeaveBus DEF BusFailed
<1>2. pkt[s].e \in Entry /\ pkt[s].f \in Fifo /\ Types
  BY <1>1, FlightPkt DEF Core
<1> HIDE DEF s
<1>3. hanger' \in [Slot -> {"free", "inuse", "suppressed"}] /\ pkt' \in [Slot -> Packets]
  BY <1>2, FreedTypes DEF BusFailed, Finalize, s
<1>4. ent' \in [Entry -> Descriptors]
  BY <1>2, OutIs, ReqBackIs DEF BusFailed, s, Types
<1>5. /\ credit' \in [Fifo -> Int] /\ borrowed' \in [Fifo -> [Fifo -> Nat]]
      /\ creditMap' \in SUBSET Fifo
  <2>1. Returned(Cred, pkt[s].f) \in Credits0
    BY <1>2, CredIs, ReturnedIs
  <2>2. QED
    BY <2>1 DEF BusFailed, SetCred, Credits0, s
<1>6. used' \in [pkt : Nat, sleep : Nat, refuse : Nat, other : Nat] /\ deqQueued' \in BOOLEAN
  <2>1. used' = [used EXCEPT !.other = @ + 1] /\ used \in [pkt : Nat, sleep : Nat, refuse : Nat, other : Nat]
    BY <1>2 DEF BusFailed, Types
  <2>2. used' \in [pkt : Nat, sleep : Nat, refuse : Nat, other : Nat]
    BY <2>1
  <2>3. deqQueued' \in BOOLEAN
    BY <1>2 DEF BusFailed, Types, Schedule
  <2>4. QED
    BY <2>2, <2>3
<1>7. Types'
  BY <1>1, <1>2, <1>3, <1>4, <1>5, <1>6 DEF Types, BusFailed, qVars, pktSeqVars, fwVars
<1>8. Freed({s}) /\ UNCHANGED <<delayq, supprq, orphan>>
  BY DEF BusFailed, qVars, pktSeqVars, Finalize, s
<1>9. QED
  BY <1>1, <1>7, <1>8, Dropped DEF s

LEMMA StatusSentCore == ASSUME Core, StatusSent
  PROVE  Core' /\ Leaves(Head(sig).s) /\ InQueue' = InQueue /\ Keep(InQueue)
<1> DEFINE s == Head(sig).s
<1>1. s \in InFlight /\ InFlight' = InFlight \ {s} /\ Flights' /\ sig' \in Seq(Signals)
  BY LeaveSig DEF StatusSent, Tells
<1>2. pkt[s].e \in Entry /\ pkt[s].f \in Fifo /\ Types
  BY <1>1, FlightPkt DEF Core
<1> HIDE DEF s
<1>3. hanger' \in [Slot -> {"free", "inuse", "suppressed"}] /\ pkt' \in [Slot -> Packets]
  BY <1>2, FreedTypes DEF StatusSent, Finalize, s
<1>4. ent' \in [Entry -> Descriptors]
  BY <1>2, OutIs, ReqBackIs DEF StatusSent, s, Types
<1>5. /\ credit' \in [Fifo -> Int] /\ borrowed' \in [Fifo -> [Fifo -> Nat]]
      /\ creditMap' \in SUBSET Fifo
  <2>1. Returned(Cred, pkt[s].f) \in Credits0
    BY <1>2, CredIs, ReturnedIs
  <2>2. QED
    BY <2>1 DEF StatusSent, SetCred, Credits0, s
<1>6. deqQueued' \in BOOLEAN
  BY <1>2 DEF StatusSent, Types, Schedule
<1>7. Types'
  BY <1>1, <1>2, <1>3, <1>4, <1>5, <1>6 DEF Types, StatusSent, qVars, pktSeqVars, fwVars
<1>8. Freed({s}) /\ UNCHANGED <<delayq, supprq, orphan>>
  BY DEF StatusSent, qVars, pktSeqVars, Finalize, s
<1>9. QED
  BY <1>1, <1>7, <1>8, Dropped DEF s

\* A packet goes back into a queue.
LEMMA PutBack == ASSUME Core, NEW s \in InFlight, InFlight' = InFlight \ {s}, orphan' = orphan,
                        Keep(Slot), hanger' \in [Slot -> {"free", "inuse", "suppressed"}],
                        \A x \in Slot : hanger'[x] = "free" <=> hanger[x] = "free",
                        InQueue' = InQueue \cup {s}, Types', Flights',
                        FiledNext(delayq', "inuse"), FiledNext(supprq', "suppressed")
  PROVE  Core' /\ Leaves(s) /\ Keep(InQueue)
<1>1. InFlight \in SUBSET Slot /\ InQueue \in SUBSET Slot /\ Places
  BY FlightSlots, QueueSlots DEF Core
<1>2. Places'
  BY <1>1 DEF Places, Keep
<1>3. Leaves(s) /\ Keep(InQueue)
  BY <1>1 DEF Leaves, Keep
<1>4. QED
  BY <1>2, <1>3, FiledPrime DEF Core

LEMMA FlightNotQueued == ASSUME Core, NEW s \in InFlight
  PROVE  /\ delayq \in Queues /\ supprq \in Queues
         /\ Filed(delayq, "inuse") /\ Filed(supprq, "suppressed")
         /\ s \notin Members(delayq) /\ s \notin Members(supprq) /\ s \notin InQueue
         /\ \A e \in Entry, f \in Fifo : s \notin ToSet(delayq[e][f]) /\ s \notin ToSet(supprq[e][f])
<1>1. /\ delayq \in Queues /\ supprq \in Queues
      /\ Filed(delayq, "inuse") /\ Filed(supprq, "suppressed")
  BY DEF Core, Types
<1>2. s \notin Members(delayq) /\ s \notin Members(supprq) /\ s \notin InQueue
  BY QueueSlots DEF Core, Places
<1>3. QED
  BY <1>1, <1>2, QueueOf

\* Back into the queue of delayed packets, or into that of suppressed ones.
LEMMA BackDelayed == ASSUME Core, NEW s \in InFlight, InFlight' = InFlight \ {s}, Flights', Types',
                            hanger[s] = "inuse", hanger' = hanger, pkt' = pkt, orphan' = orphan,
                            supprq' = supprq, NEW x \in Seq(Slot), Once(x),
                            ToSet(x) = ToSet(delayq[pkt[s].e][pkt[s].f]) \cup {s},
                            delayq' = [delayq EXCEPT ![pkt[s].e][pkt[s].f] = x]
  PROVE  Core' /\ Leaves(s) /\ InQueue' = InQueue \cup {s} /\ Keep(InQueue)
<1> DEFINE e == pkt[s].e  f == pkt[s].f
<1>1. s \in Slot /\ e \in Entry /\ f \in Fifo
  BY FlightPkt
<1>2. /\ delayq \in Queues /\ supprq \in Queues
      /\ Filed(delayq, "inuse") /\ Filed(supprq, "suppressed")
  BY FlightNotQueued
<1>3. /\ KeptIn(Members(delayq), "inuse") /\ KeptIn(Members(supprq), "suppressed")
      /\ NowIn({s}, "inuse", e, f)
  BY <1>2, FiledMembers DEF KeptIn, NowIn
<1>4. Joined(delayq, delayq', s, "inuse")
  BY <1>1, <1>2, <1>3, PutOne
<1>5. FiledNext(supprq', "suppressed")
  BY <1>2, <1>3, FiledKept
<1>6. InQueue' = InQueue \cup {s}
  <2>1. InQueue' = Members(delayq') \cup Members(supprq')
    BY <1>2, <1>4, WaitingIs DEF InQueue, Joined
  <2>2. QED
    BY <1>4, <2>1, QueueSlots DEF Joined
<1>7. /\ Keep(Slot) /\ hanger' \in [Slot -> {"free", "inuse", "suppressed"}]
      /\ \A y \in Slot : hanger'[y] = "free" <=> hanger[y] = "free"
  BY DEF Keep, Core, Types
<1>8. QED
  BY <1>4, <1>5, <1>6, <1>7, PutBack DEF Joined

LEMMA BackSuppressed == ASSUME Core, NEW s \in InFlight, InFlight' = InFlight \ {s}, Flights', Types',
                            hanger' = [hanger EXCEPT ![s] = "suppressed"], Keep(Slot), orphan' = orphan,
                            delayq' = delayq, NEW x \in Seq(Slot), Once(x),
                            ToSet(x) = ToSet(supprq[pkt[s].e][pkt[s].f]) \cup {s},
                            supprq' = [supprq EXCEPT ![pkt[s].e][pkt[s].f] = x]
  PROVE  Core' /\ Leaves(s) /\ InQueue' = InQueue \cup {s} /\ Keep(InQueue)
<1> DEFINE e == pkt[s].e  f == pkt[s].f
<1>1. s \in Slot /\ e \in Entry /\ f \in Fifo /\ hanger[s] # "free"
  BY FlightPkt
<1>2. /\ delayq \in Queues /\ supprq \in Queues
      /\ Filed(delayq, "inuse") /\ Filed(supprq, "suppressed")
      /\ s \notin Members(delayq)
      /\ hanger \in [Slot -> {"free", "inuse", "suppressed"}]
  BY FlightNotQueued DEF Core, Types
<1>3. /\ KeptIn(Members(delayq), "inuse") /\ KeptIn(Members(supprq), "suppressed")
      /\ NowIn({s}, "suppressed", e, f)
  BY <1>1, <1>2, FiledMembers DEF KeptIn, NowIn, Keep
<1>4. Joined(supprq, supprq', s, "suppressed")
  BY <1>1, <1>2, <1>3, PutOne
<1>5. FiledNext(delayq', "inuse")
  BY <1>2, <1>3, FiledKept
<1>6. InQueue' = InQueue \cup {s}
  <2>1. InQueue' = Members(delayq') \cup Members(supprq')
    BY <1>2, <1>4, WaitingIs DEF InQueue, Joined
  <2>2. QED
    BY <1>4, <2>1, QueueSlots DEF Joined
<1>7. /\ hanger' \in [Slot -> {"free", "inuse", "suppressed"}]
      /\ \A y \in Slot : hanger'[y] = "free" <=> hanger[y] = "free"
  BY <1>1, <1>2
<1>8. QED
  BY <1>4, <1>5, <1>6, <1>7, PutBack DEF Joined

\* Where the suppressed packet goes.
LEMMA InsertedIs == ASSUME Core, NEW s \in InFlight, NEW q \in Seq(Slot), Once(q), s \notin ToSet(q)
  PROVE  Inserted(q, s) \in Seq(Slot) /\ Once(Inserted(q, s)) /\ ToSet(Inserted(q, s)) = ToSet(q) \cup {s}
<1> DEFINE T == {0} \cup {i \in DOMAIN q : pkt[q[i]].n < pkt[s].n}  k == 1 + Max(T)
<1>1. Len(q) \in Nat /\ DOMAIN q = 1..Len(q) /\ s \in Slot
  BY FlightPkt
<1>2. T \in SUBSET (0..Len(q)) /\ T # {}
  BY <1>1
<1>3. Max(T) \in 0..Len(q)
  BY <1>1, <1>2, MaxIn
<1>4. k \in 1..Len(q) + 1
  BY <1>1, <1>3
<1>5. Inserted(q, s) = InsertAt(q, k, s)
  BY DEF Inserted
<1> HIDE DEF k, T
<1>6. QED
  BY <1>1, <1>4, <1>5, OnceInsert

\* One step of a fifo's credits.
LEMMA CreditTypes == ASSUME Types, NEW f \in Fifo, SetCred(Returned(Cred, f))
  PROVE  /\ credit' \in [Fifo -> Int] /\ borrowed' \in [Fifo -> [Fifo -> Nat]]
         /\ creditMap' \in SUBSET Fifo
<1>1. Returned(Cred, f) \in Credits0
  BY CredIs, ReturnedIs
<1>2. QED
  BY <1>1 DEF SetCred, Credits0

LEMMA FlowIs == ASSUME stopped \in BOOLEAN, NEW d, NEW q, NEW e PROVE Flow(d, q, e) \in BOOLEAN
  BY DEF Flow

-----------------------------------------------------------------------------
(* A refused packet.                                                         *)
Rolled(s) == [ent EXCEPT
  ![pkt[s].e].transit = @ - 1,
  ![pkt[s].e].supprTransit = IF ent[pkt[s].e].suppressed THEN @ - 1 ELSE @]
Fits(s) == ent[pkt[s].e].occupied /\ Psq(delayq, supprq, pkt[s].e) < PsqLen

LEMMA RolledIs == ASSUME ent \in [Entry -> Descriptors], NEW s, pkt[s].e \in Entry
  PROVE  /\ Rolled(s) \in [Entry -> Descriptors]
         /\ \A x \in Entry : Rolled(s)[x] =
              IF x = pkt[s].e
              THEN [ent[x] EXCEPT !.transit = ent[x].transit - 1,
                      !.supprTransit = IF ent[x].suppressed THEN ent[x].supprTransit - 1
                                       ELSE ent[x].supprTransit]
              ELSE ent[x]
<1> DEFINE e == pkt[s].e
           n == IF ent[e].suppressed THEN ent[e].supprTransit - 1 ELSE ent[e].supprTransit
           d == [ent[e] EXCEPT !.transit = ent[e].transit - 1, !.supprTransit = n]
<1>1. ent[e] \in Descriptors /\ ent[e].transit \in Int /\ ent[e].supprTransit \in Int
  BY DEF Descriptors
<1>2. n \in Int
  BY <1>1
<1>3. Rolled(s) = [ent EXCEPT ![e] = d]
  BY <1>1 DEF Rolled, Descriptors
<1> HIDE DEF n
<1>4. d \in Descriptors
  <2>1. ent[e].transit - 1 \in Int
    BY <1>1
  <2>2. QED
    BY <1>1, <1>2, <2>1 DEF Descriptors
<1> HIDE DEF d
<1>5. Rolled(s) \in [Entry -> Descriptors] /\ \A x \in Entry : Rolled(s)[x] = IF x = e THEN d ELSE ent[x]
  BY <1>3, <1>4
<1>6. QED
  BY <1>5 DEF d, n

\* The two ways of brcmf_fws_rollback_toq().
LEMMA RefusedIs == ASSUME WorkRefused
  PROVE  LET s == wk.slot IN
         /\ SetCred(Returned(Cred, pkt[s].f))
         /\ IF Fits(s)
            THEN /\ IF hanger[s] = "suppressed"
                    THEN /\ supprq' = [supprq EXCEPT ![pkt[s].e][pkt[s].f] = Back(@, s)]
                         /\ delayq' = delayq
                    ELSE /\ delayq' = [delayq EXCEPT ![pkt[s].e][pkt[s].f] = Back(@, s)]
                         /\ supprq' = supprq
                 /\ ent' = ReqBack(Rolled(s), s)
                 /\ UNCHANGED <<hanger, pkt, deqQueued>>
            ELSE /\ Freed({s}) /\ ent' = ReqBack(Out(Rolled(s), s), s)
                 /\ deqQueued' = Schedule(creditMap', delayMap)
                 /\ UNCHANGED <<delayq, supprq>>
  BY DEF WorkRefused, Fits, Rolled, RollCred, Finalize

LEMMA WorkRefusedCore == ASSUME Core, WorkRefused
  PROVE  /\ Core' /\ Leaves(wk.slot) /\ Keep(InQueue)
         /\ InQueue' = IF Fits(wk.slot) THEN InQueue \cup {wk.slot} ELSE InQueue
<1> DEFINE s == wk.slot  e == pkt[s].e  f == pkt[s].f
<1>0. /\ Types /\ wk.at = "hand" /\ wk.fifo \in Fifo
      /\ bus' = bus /\ sig' = sig /\ orphan' = orphan
  BY DEF Core, Types, WorkRefused, pktSeqVars
<1>1. wk' \in [at : {"idle", "own", "borrow", "hand"}, fifo : Fifo, from : {"own", "borrow"},
             slot : Nat] /\ wk'.at # "hand"
  BY <1>0, NextFifoIs DEF WorkRefused
<1>2. s \in InFlight /\ InFlight' = InFlight \ {s} /\ Flights'
  BY <1>0, <1>1, LeaveHand
<1>3. s \in Slot /\ e \in Entry /\ f \in Fifo /\ hanger[s] # "free"
  BY <1>2, FlightPkt
<1>4. /\ credit' \in [Fifo -> Int] /\ borrowed' \in [Fifo -> [Fifo -> Nat]]
      /\ creditMap' \in SUBSET Fifo
  BY <1>0, <1>3, RefusedIs, CreditTypes
<1>5. ent' \in [Entry -> Descriptors]
  <2>1. ent \in [Entry -> Descriptors]
    BY <1>0 DEF Types
  <2>2. Rolled(s) \in [Entry -> Descriptors]
    BY <1>3, <2>1, RolledIs
  <2>3. Out(Rolled(s), s) \in [Entry -> Descriptors]
    BY <1>3, <2>2, OutIs
  <2>4. /\ ReqBack(Rolled(s), s) \in [Entry -> Descriptors]
        /\ ReqBack(Out(Rolled(s), s), s) \in [Entry -> Descriptors]
    BY <1>3, <2>2, <2>3, ReqBackIs
  <2>5. QED
    BY <2>4, RefusedIs
<1>6. used' \in [pkt : Nat, sleep : Nat, refuse : Nat, other : Nat]
  <2>1. used' = [used EXCEPT !.refuse = @ + 1] /\ used \in [pkt : Nat, sleep : Nat, refuse : Nat, other : Nat]
    BY <1>0 DEF WorkRefused, Types
  <2>2. QED
    BY <2>1
<1>7. deqQueued' \in BOOLEAN
  BY <1>0, RefusedIs DEF Types, Schedule
<1>8. ASSUME hanger' \in [Slot -> {"free", "inuse", "suppressed"}], pkt' \in [Slot -> Packets],
             delayq' \in Queues, supprq' \in Queues
      PROVE  Types'
  BY <1>0, <1>1, <1>4, <1>5, <1>6, <1>7, <1>8 DEF Types, WorkRefused, pktSeqVars, fwVars
<1>9. /\ delayq \in Queues /\ supprq \in Queues
      /\ Filed(delayq, "inuse") /\ Filed(supprq, "suppressed")
      /\ delayq[e][f] \in Seq(Slot) /\ s \notin ToSet(delayq[e][f]) /\ Once(delayq[e][f])
      /\ supprq[e][f] \in Seq(Slot) /\ s \notin ToSet(supprq[e][f]) /\ Once(supprq[e][f])
  BY <1>2, <1>3, FlightNotQueued, QueueOf, FiledAt
<1> HIDE DEF s, e, f
<1>10. CASE ~Fits(s)
  <2>1. Freed({s}) /\ UNCHANGED <<delayq, supprq>>
    BY <1>10, RefusedIs DEF s
  <2>2. Types'
    BY <1>0, <1>8, <1>9, <2>1, FreedTypes
  <2>3. QED
    BY <1>0, <1>2, <1>10, <2>1, <2>2, Dropped DEF s
<1>11. CASE Fits(s) /\ hanger[s] = "suppressed"
  <2> DEFINE x == Back(supprq[e][f], s)
  <2>1. /\ supprq' = [supprq EXCEPT ![e][f] = x] /\ delayq' = delayq
        /\ hanger' = hanger /\ pkt' = pkt
    BY <1>11, RefusedIs DEF s, e, f
  <2>2. x \in Seq(Slot) /\ Once(x) /\ ToSet(x) = ToSet(supprq[e][f]) \cup {s}
    BY <1>3, <1>9, OnceBack
  <2> HIDE DEF x
  <2>3. Types'
    BY <1>0, <1>3, <1>8, <1>9, <2>1, <2>2, Refiled DEF Types, Changed
  <2>4. hanger' = [hanger EXCEPT ![s] = "suppressed"] /\ Keep(Slot)
    BY <1>0, <1>11, <2>1 DEF Types, Keep
  <2>5. QED
    BY <1>0, <1>2, <1>11, <2>1, <2>2, <2>3, <2>4, BackSuppressed DEF s, e, f
<1>12. CASE Fits(s) /\ hanger[s] # "suppressed"
  <2> DEFINE x == Back(delayq[e][f], s)
  <2>1. /\ delayq' = [delayq EXCEPT ![e][f] = x] /\ supprq' = supprq
        /\ hanger' = hanger /\ pkt' = pkt
    BY <1>12, RefusedIs DEF s, e, f
  <2>2. x \in Seq(Slot) /\ Once(x) /\ ToSet(x) = ToSet(delayq[e][f]) \cup {s}
    BY <1>3, <1>9, OnceBack
  <2> HIDE DEF x
  <2>3. Types'
    BY <1>0, <1>3, <1>8, <1>9, <2>1, <2>2, Refiled DEF Types, Changed
  <2>4. hanger[s] = "inuse"
    BY <1>0, <1>3, <1>12 DEF Types
  <2>5. QED
    BY <1>0, <1>2, <1>12, <2>1, <2>2, <2>3, <2>4, BackDelayed DEF s, e, f
<1>13. QED
  BY <1>10, <1>11, <1>12

-----------------------------------------------------------------------------
(* A suppressed packet.                                                      *)
\* Its destination after brcmf_fws_txs_process() has taken it off the counters,
\* and after brcmf_fws_txstatus_suppressed().
Backed(s) == ReqBack(Out(ent, s), s)
Room(e) == Psq(delayq, supprq, e) < PsqLen
Counted(s, g) ==
  [Backed(s) EXCEPT
     ![pkt[s].e].suppressed = TRUE, ![pkt[s].e].gen = g,
     ![pkt[s].e].supprTransit = IF Backed(s)[pkt[s].e].suppressed THEN @
                                ELSE Backed(s)[pkt[s].e].transit]

LEMMA BackedIs == ASSUME ent \in [Entry -> Descriptors], NEW s, pkt[s].e \in Entry
  PROVE  /\ Backed(s) \in [Entry -> Descriptors]
         /\ \A x \in Entry : AsideRequest(Backed(s)[x], Out(ent, s)[x])
  BY OutIs, ReqBackIs DEF Backed

Suppresses(d, b, g) ==
  /\ d.occupied = b.occupied /\ d.open = b.open /\ d.request = b.request
  /\ d.suppressed = TRUE /\ d.gen = g /\ d.transit = b.transit
  /\ d.supprTransit = IF b.suppressed THEN b.supprTransit ELSE b.transit

LEMMA CountedIs == ASSUME ent \in [Entry -> Descriptors], NEW s, pkt[s].e \in Entry, NEW g \in 0..1
  PROVE  /\ Counted(s, g) \in [Entry -> Descriptors]
         /\ \A x \in Entry : x # pkt[s].e => Counted(s, g)[x] = Backed(s)[x]
         /\ Suppresses(Counted(s, g)[pkt[s].e], Backed(s)[pkt[s].e], g)
<1> DEFINE e == pkt[s].e  b == Backed(s)[e]
           n == IF b.suppressed THEN b.supprTransit ELSE b.transit
           d == [b EXCEPT !.suppressed = TRUE, !.gen = g, !.supprTransit = n]
<1>1. Backed(s) \in [Entry -> Descriptors] /\ b \in Descriptors
  BY BackedIs
<1>2. n \in Int
  BY <1>1 DEF Descriptors
<1>3. Counted(s, g) = [Backed(s) EXCEPT ![e] = d]
  BY <1>1 DEF Counted, Descriptors
<1> HIDE DEF n
<1>4. /\ d \in Descriptors
      /\ d.occupied = b.occupied /\ d.open = b.open /\ d.request = b.request
      /\ d.suppressed = TRUE /\ d.gen = g /\ d.transit = b.transit /\ d.supprTransit = n
  BY <1>1, <1>2 DEF Descriptors
<1> HIDE DEF d
<1>5. Counted(s, g)[e] = d /\ Counted(s, g) \in [Entry -> Descriptors]
      /\ \A x \in Entry : x # e => Counted(s, g)[x] = Backed(s)[x]
  BY <1>1, <1>3, <1>4
<1>6. QED
  BY <1>4, <1>5 DEF n, Suppresses

LEMMA SuppressedIs == ASSUME StatusSuppressed
  PROVE  LET s == Head(sig).s IN
         /\ Got("suppressed") /\ SetCred(Returned(Cred, pkt[s].f))
         /\ IF Room(pkt[s].e)
            THEN /\ hanger' = [hanger EXCEPT ![s] = "suppressed"]
                 /\ pkt' = [pkt EXCEPT ![s].gen = Head(sig).gen]
                 /\ supprq' = [supprq EXCEPT ![pkt[s].e][pkt[s].f] = Inserted(@, s)]
                 /\ enqpkt' = [enqpkt EXCEPT ![pkt[s].f] = @ + 1]
                 /\ delayMap' = delayMap \cup {pkt[s].f}
                 /\ stopped' = Flow(delayq, supprq', pkt[s].e)
            ELSE Freed({s}) /\ UNCHANGED <<supprq, enqpkt, delayMap, stopped>>
         /\ ent' = Counted(s, Head(sig).gen)
         /\ deqQueued' = Schedule(creditMap', delayMap')
         /\ UNCHANGED <<delayq, pktSeqVars, busBlocked, wk, bus, fwVars, used>>
  BY DEF StatusSuppressed, Room, Counted, Backed, Finalize

LEMMA StatusSuppressedCore == ASSUME Core, StatusSuppressed
  PROVE  /\ Core' /\ Leaves(Head(sig).s) /\ Keep(InQueue)
         /\ InQueue' = IF Room(pkt[Head(sig).s].e) THEN InQueue \cup {Head(sig).s} ELSE InQueue
<1> DEFINE s == Head(sig).s  e == pkt[s].e  f == pkt[s].f
<1>0. Types /\ Got("suppressed") /\ wk' = wk /\ bus' = bus /\ orphan' = orphan
  BY SuppressedIs DEF Core, pktSeqVars
<1>1. /\ s \in InFlight /\ InFlight' = InFlight \ {s} /\ Flights' /\ sig' \in Seq(Signals)
      /\ Head(sig) \in Signals
  BY <1>0, LeaveSig DEF Tells
<1>2. s \in Slot /\ e \in Entry /\ f \in Fifo /\ pkt[s] \in Packets
  BY <1>1, FlightPkt
<1>3. Head(sig).gen \in 0..1
  BY <1>1 DEF Signals
<1>4. /\ credit' \in [Fifo -> Int] /\ borrowed' \in [Fifo -> [Fifo -> Nat]]
      /\ creditMap' \in SUBSET Fifo
  BY <1>0, <1>2, SuppressedIs, CreditTypes
<1>5. ent' \in [Entry -> Descriptors]
  <2>1. ent \in [Entry -> Descriptors]
    BY <1>0 DEF Types
  <2>2. QED
    <3>1. Counted(s, Head(sig).gen) \in [Entry -> Descriptors]
      BY <1>2, <1>3, <2>1, CountedIs
    <3>2. ent' = Counted(s, Head(sig).gen)
      BY SuppressedIs
    <3>3. QED
      BY <3>1, <3>2
<1>6. deqQueued' \in BOOLEAN
  BY <1>0, SuppressedIs DEF Types, Schedule
<1>7. ASSUME hanger' \in [Slot -> {"free", "inuse", "suppressed"}], pkt' \in [Slot -> Packets],
             supprq' \in Queues, enqpkt' \in [Fifo -> Int], delayMap' \in SUBSET Fifo,
             stopped' \in BOOLEAN
      PROVE  Types'
  BY <1>0, <1>1, <1>4, <1>5, <1>6, <1>7, SuppressedIs DEF Types, pktSeqVars, fwVars
<1>8. /\ supprq \in Queues /\ supprq[e][f] \in Seq(Slot) /\ s \notin ToSet(supprq[e][f])
      /\ Once(supprq[e][f])
  BY <1>1, <1>2, FlightNotQueued, QueueOf, FiledAt
<1> HIDE DEF s, e, f
<1>9. CASE ~Room(e)
  <2>1. Freed({s}) /\ UNCHANGED <<supprq, enqpkt, delayMap, stopped>> /\ delayq' = delayq
    BY <1>9, SuppressedIs DEF s, e
  <2>2. Types'
    BY <1>0, <1>7, <2>1, FreedTypes DEF Types
  <2>3. QED
    BY <1>0, <1>1, <1>9, <2>1, <2>2, Dropped DEF s, e
<1>10. CASE Room(e)
  <2> DEFINE x == Inserted(supprq[e][f], s)
  <2>1. /\ supprq' = [supprq EXCEPT ![e][f] = x] /\ delayq' = delayq
        /\ hanger' = [hanger EXCEPT ![s] = "suppressed"]
        /\ pkt' = [pkt EXCEPT ![s].gen = Head(sig).gen]
        /\ enqpkt' = [enqpkt EXCEPT ![f] = @ + 1] /\ delayMap' = delayMap \cup {f}
        /\ stopped' = Flow(delayq, supprq', e)
    BY <1>10, SuppressedIs DEF s, e, f
  <2>2. x \in Seq(Slot) /\ Once(x) /\ ToSet(x) = ToSet(supprq[e][f]) \cup {s}
    BY <1>1, <1>8, InsertedIs
  <2> HIDE DEF x
  <2>3. pkt' \in [Slot -> Packets] /\ Keep(Slot)
    <3> DEFINE p == [pkt[s] EXCEPT !.gen = Head(sig).gen]
    <3>1. p \in Packets /\ p.e = pkt[s].e /\ p.f = pkt[s].f
      BY <1>2, <1>3 DEF Packets, e, f
    <3>2. pkt' = [pkt EXCEPT ![s] = p]
      BY <2>1
    <3> HIDE DEF p
    <3>3. QED
      BY <1>0, <1>2, <3>1, <3>2 DEF Types, Keep
  <2>4. Types'
    <3>1. stopped' \in BOOLEAN
      BY <1>0, <2>1, FlowIs DEF Types
    <3>2. supprq' \in Queues
      BY <1>2, <1>8, <2>1, <2>2, Refiled DEF Changed
    <3>3. hanger' \in [Slot -> {"free", "inuse", "suppressed"}]
      BY <1>0, <2>1 DEF Types
    <3>4. enqpkt' \in [Fifo -> Int] /\ delayMap' \in SUBSET Fifo
      BY SMTT(30), <1>0, <1>2, <2>1 DEF Types
    <3>5. QED
      BY <1>7, <2>3, <3>1, <3>2, <3>3, <3>4
  <2>5. Core' /\ Leaves(s) /\ InQueue' = InQueue \cup {s} /\ Keep(InQueue)
    BY <1>0, <1>1, <2>1, <2>2, <2>3, <2>4, BackSuppressed DEF e, f
  <2>6. QED
    BY <1>10, <2>5 DEF s, e
<1>11. QED
  BY <1>9, <1>10

-----------------------------------------------------------------------------
(* A dequeued packet.                                                        *)
\* The descriptor of x after the dequeue of e's packet.
EntAfter(x, e, f, seen) ==
  /\ ent'[x].occupied = ent[x].occupied /\ ent'[x].open = ent[x].open
  /\ ent'[x].gen = ent[x].gen
  /\ ent'[x].request <= ent[x].request
  /\ ent'[x].transit = IF x = e THEN ent[x].transit + 1 ELSE ent[x].transit
  /\ ent'[x].suppressed = (ent[x].suppressed /\ x \notin seen /\ (x = e => supprq[e][f] # <<>>))
  /\ ent'[x].supprTransit = IF x = e /\ ent[e].suppressed /\ supprq[e][f] # <<>>
                            THEN ent[x].supprTransit + 1 ELSE ent[x].supprTransit

LEMMA DeqEntIs == ASSUME Core, NEW f \in Fifo, NEW e \in Ready(f), NEW seen \in SUBSET Vain(f),
                         Deq(e, f, seen)
  PROVE  ent' \in [Entry -> Descriptors] /\ \A x \in Entry : EntAfter(x, e, f, seen)
<1> DEFINE R == Recovered(seen)
           sup == supprq[e][f] # <<>>
           req == ent[e].request > 0
           clear == ent[e].suppressed /\ ~sup
           r == IF req THEN R[e].request - 1 ELSE R[e].request
           u == R[e].suppressed /\ ~clear
           t == IF ent[e].suppressed /\ ~clear THEN R[e].supprTransit + 1 ELSE R[e].supprTransit
           d == [R[e] EXCEPT !.request = r, !.suppressed = u, !.transit = R[e].transit + 1,
                             !.supprTransit = t]
<1>1. ent \in [Entry -> Descriptors] /\ e \in Entry
  BY OfferIs DEF Core, Types
<1>2. /\ R \in [Entry -> Descriptors]
      /\ \A x \in Entry : R[x] = [ent[x] EXCEPT !.suppressed = ent[x].suppressed /\ x \notin seen]
  BY <1>1, RecoveredIs
<1>3. ent' = [R EXCEPT ![e].request = IF req THEN @ - 1 ELSE @,
                       ![e].suppressed = @ /\ ~clear,
                       ![e].transit = @ + 1,
                       ![e].supprTransit = IF ent[e].suppressed /\ ~clear THEN @ + 1 ELSE @]
  BY DEF Deq
<1>4. R[e] \in Descriptors /\ ent[e] \in Descriptors
  BY <1>1, <1>2
<1>5. /\ R[e].occupied = ent[e].occupied /\ R[e].open = ent[e].open /\ R[e].gen = ent[e].gen
      /\ R[e].transit = ent[e].transit /\ R[e].supprTransit = ent[e].supprTransit
      /\ R[e].request = ent[e].request
      /\ R[e].suppressed = (ent[e].suppressed /\ e \notin seen)
  BY <1>1, <1>2, <1>4 DEF Descriptors
<1> HIDE DEF R
<1>6. ent' = [R EXCEPT ![e] = d]
  BY <1>1, <1>2, <1>3, <1>4 DEF Descriptors
<1>7. r \in Nat /\ r <= ent[e].request /\ u \in BOOLEAN /\ t \in Int /\ R[e].transit + 1 \in Int
  BY <1>4, <1>5 DEF Descriptors
<1>8. /\ t = IF ent[e].suppressed /\ sup THEN ent[e].supprTransit + 1 ELSE ent[e].supprTransit
      /\ u = (ent[e].suppressed /\ e \notin seen /\ sup)
  BY <1>4, <1>5 DEF Descriptors
<1> HIDE DEF r, u, t
<1>9. /\ d \in Descriptors
      /\ d.occupied = ent[e].occupied /\ d.open = ent[e].open /\ d.request = r
      /\ d.gen = ent[e].gen
      /\ d.transit = ent[e].transit + 1 /\ d.suppressed = u /\ d.supprTransit = t
  BY <1>4, <1>5, <1>7 DEF Descriptors
<1> HIDE DEF d
<1>10. ent' \in [Entry -> Descriptors] /\ ent'[e] = d /\ \A x \in Entry : x # e => ent'[x] = R[x]
  BY <1>1, <1>2, <1>6, <1>9
<1>11. ASSUME NEW x \in Entry, x # e
       PROVE  /\ ent'[x].occupied = ent[x].occupied /\ ent'[x].open = ent[x].open
              /\ ent'[x].gen = ent[x].gen
              /\ ent'[x].request = ent[x].request /\ ent[x].request \in Nat
              /\ ent'[x].transit = ent[x].transit
              /\ ent'[x].suppressed = (ent[x].suppressed /\ x \notin seen)
              /\ ent'[x].supprTransit = ent[x].supprTransit
  <2>1. ent[x] \in Descriptors /\ ent'[x] = [ent[x] EXCEPT !.suppressed = ent[x].suppressed /\ x \notin seen]
    BY <1>1, <1>2, <1>10, <1>11
  <2>2. QED
    BY <2>1 DEF Descriptors
<1>12. QED
  <2> SUFFICES ASSUME NEW x \in Entry PROVE EntAfter(x, e, f, seen)
    BY <1>10
  <2>1. CASE x = e
    BY <1>7, <1>8, <1>9, <1>10, <2>1 DEF EntAfter
  <2>2. CASE x # e
    BY <1>11, <2>2 DEF EntAfter
  <2>3. QED
    BY <2>1, <2>2

LEMMA DeqCore == ASSUME Core, NEW f \in Fifo, NEW e \in Ready(f), NEW seen \in SUBSET Vain(f),
                        Deq(e, f, seen), NEW a \in {"own", "borrow"}, wk.at # "hand",
                        NEW s, s = Head(Offer(e, f)),
                        wk' = [at |-> "hand", fifo |-> f, from |-> a, slot |-> s],
                        credit' \in [Fifo -> Int], borrowed' \in [Fifo -> [Fifo -> Nat]],
                        creditMap' \in SUBSET Fifo,
                        UNCHANGED <<hanger, pktSeqVars, busBlocked, deqQueued, bus, fwVars, sig, used>>
  PROVE  Core' /\ Joins(s) /\ InQueue' = InQueue \ {s} /\ Keep(Slot) /\ pkt[s].e = e /\ pkt[s].f = f
<1>1. Dequeued(e, f, s)
  BY DeqIs
<1>2. Types /\ Flights /\ Hand = {} /\ Hand' = {s} /\ bus' = bus /\ sig' = sig
  BY DEF Core, Hand
<1>3. s \notin InFlight /\ InFlight \in SUBSET Slot
  BY <1>1, FlightSlots DEF Core, Places, Dequeued
<1>4. InFlight' = InFlight \cup {s}
  BY <1>2, InFlightIs, InFlightIsNext
<1>5. Flights'
  BY <1>2, <1>3, InFlightIs, FlightsNext DEF Flights
<1>6. ent' \in [Entry -> Descriptors]
  BY DeqEntIs
<1>7. stopped' \in BOOLEAN /\ enqpkt' \in [Fifo -> Int] /\ delayMap' \in SUBSET Fifo
  <2>1. stopped' \in BOOLEAN
    BY <1>2, FlowIs DEF Deq, Types
  <2>2. enqpkt' = [enqpkt EXCEPT ![f] = enqpkt[f] - 1] /\ enqpkt \in [Fifo -> Int]
    BY <1>2 DEF Deq, Types
  <2>3. (delayMap' = delayMap \/ delayMap' = delayMap \ {f}) /\ delayMap \in SUBSET Fifo
    BY <1>2 DEF Deq, Types
  <2>4. enqpkt' \in [Fifo -> Int]
    BY <2>2
  <2>5. delayMap' \in SUBSET Fifo
    BY <2>3
  <2>6. QED
    BY <2>1, <2>4, <2>5
<1>8. wk' \in [at : {"idle", "own", "borrow", "hand"}, fifo : Fifo, from : {"own", "borrow"},
               slot : Nat] /\ wk'.slot \in Slot
  <2>1. s \in Nat /\ s \in Slot
    BY <1>1, FwsConsts DEF Dequeued
  <2>2. QED
    BY <2>1
<1>9. Types'
  BY <1>1, <1>2, <1>6, <1>7, <1>8 DEF Types, Dequeued, pktSeqVars, fwVars
<1>10. Places'
  <2>1. orphan' = orphan /\ hanger' = hanger
    BY DEF pktSeqVars
  <2>2. QED
    BY <1>1, <1>3, <1>4, <2>1, QueueSlots DEF Places, Dequeued, Keep, Core
<1>11. Joins(s)
  BY <1>1, <1>3, <1>4 DEF Joins, Dequeued, Keep
<1>12. QED
  BY <1>1, <1>5, <1>9, <1>10, <1>11 DEF Core, Dequeued

LEMMA WorkOwnCore == ASSUME Core, WorkOwn
  PROVE  \E e \in Ready(wk.fifo) : \E seen \in SUBSET Vain(wk.fifo), s \in Slot :
           /\ Deq(e, wk.fifo, seen) /\ s = Head(Offer(e, wk.fifo))
           /\ Core' /\ Joins(s) /\ InQueue' = InQueue \ {s} /\ Keep(Slot)
           /\ pkt[s].e = e /\ pkt[s].f = wk.fifo
           /\ wk' = [at |-> "hand", fifo |-> wk.fifo, from |-> "own", slot |-> s]
<1>1. PICK e \in Ready(wk.fifo), seen \in SUBSET Vain(wk.fifo) :
        /\ Deq(e, wk.fifo, seen)
        /\ wk' = [at |-> "hand", fifo |-> wk.fifo, from |-> "own", slot |-> Head(Offer(e, wk.fifo))]
  BY DEF WorkOwn
<1>2. wk.fifo \in Fifo /\ wk.at # "hand"
  BY DEF Core, Types, WorkOwn
<1>3. /\ credit' \in [Fifo -> Int] /\ borrowed' \in [Fifo -> [Fifo -> Nat]]
      /\ creditMap' \in SUBSET Fifo
  BY <1>2 DEF Core, Types, WorkOwn
<1>4. UNCHANGED <<hanger, pktSeqVars, busBlocked, deqQueued, bus, fwVars, sig, used>>
  BY DEF WorkOwn
<1>0. PICK s : s = Head(Offer(e, wk.fifo))
  OBVIOUS
<1>5. /\ Core' /\ Joins(s) /\ InQueue' = InQueue \ {s} /\ Keep(Slot)
      /\ pkt[s].e = e /\ pkt[s].f = wk.fifo
  BY <1>0, <1>1, <1>2, <1>3, <1>4, DeqCore
<1>6. s \in Slot
  BY <1>5, QueueSlots DEF Joins
<1>7. QED
  BY <1>0, <1>1, <1>5, <1>6

LEMMA WorkBorrowCore == ASSUME Core, WorkBorrow
  PROVE  \E e \in Ready(wk.fifo) : \E seen \in SUBSET Vain(wk.fifo), s \in Slot :
           /\ Deq(e, wk.fifo, seen) /\ s = Head(Offer(e, wk.fifo))
           /\ Core' /\ Joins(s) /\ InQueue' = InQueue \ {s} /\ Keep(Slot)
           /\ pkt[s].e = e /\ pkt[s].f = wk.fifo
           /\ wk' = [at |-> "hand", fifo |-> wk.fifo, from |-> "borrow", slot |-> s]
<1>1. PICK e \in Ready(wk.fifo), seen \in SUBSET Vain(wk.fifo) :
        /\ Deq(e, wk.fifo, seen)
        /\ wk' = [at |-> "hand", fifo |-> wk.fifo, from |-> "borrow", slot |-> Head(Offer(e, wk.fifo))]
  BY DEF WorkBorrow
<1>2. wk.fifo \in Fifo /\ wk.at # "hand"
  BY DEF Core, Types, WorkBorrow
<1>3. /\ credit' \in [Fifo -> Int] /\ borrowed' \in [Fifo -> [Fifo -> Nat]]
      /\ creditMap' \in SUBSET Fifo
  BY <1>2, BorrowedIs DEF Core, WorkBorrow, SetCred, Credits0
<1>4. UNCHANGED <<hanger, pktSeqVars, busBlocked, deqQueued, bus, fwVars, sig, used>>
  BY DEF WorkBorrow
<1>0. PICK s : s = Head(Offer(e, wk.fifo))
  OBVIOUS
<1>5. /\ Core' /\ Joins(s) /\ InQueue' = InQueue \ {s} /\ Keep(Slot)
      /\ pkt[s].e = e /\ pkt[s].f = wk.fifo
  BY <1>0, <1>1, <1>2, <1>3, <1>4, DeqCore
<1>6. s \in Slot
  BY <1>5, QueueSlots DEF Joins
<1>7. QED
  BY <1>0, <1>1, <1>5, <1>6

-----------------------------------------------------------------------------
(* A new packet.                                                             *)
LEMMA FreeIs == ASSUME Core, FreeSlots # {}
  PROVE  LET s == Min(FreeSlots) IN
         /\ s \in Slot /\ hanger[s] = "free" /\ s \notin InFlight /\ s \notin InQueue /\ s \notin orphan
<1>1. FreeSlots \in SUBSET Nat /\ \A x \in FreeSlots : x \in Slot /\ hanger[x] = "free"
  BY FwsConsts DEF FreeSlots
<1>2. Min(FreeSlots) \in FreeSlots
  BY <1>1, MinIn
<1>3. QED
  BY <1>1, <1>2 DEF Core, Places

\* The new packet's slot, and the queue it joins or is refused by.
Arrived(e, f, s) ==
  /\ s \in Slot /\ hanger[s] = "free" /\ s \notin InFlight /\ s \notin InQueue
  /\ pkt'[s].e = e /\ pkt'[s].f = f
  /\ Keep(Slot \ {s})
  /\ IF Room(e)
     THEN InQueue' = InQueue \cup {s} /\ delayq' = [delayq EXCEPT ![e][f] = Append(@, s)]
     ELSE InQueue' = InQueue /\ delayq' = delayq

Fresh(p, e, f) == p \in Packets /\ p.e = e /\ p.f = f
LEMMA NewPkt == ASSUME NEW e \in Entry, NEW f \in Fifo, NEW n \in Nat
  PROVE  Fresh([NoPkt EXCEPT !.e = e, !.f = f, !.n = n], e, f)
<1>1. NoPkt \in Packets
  BY FwsConsts DEF NoPkt, Packets
<1>2. QED
  BY <1>1 DEF Packets, Fresh

LEMMA ProcessSkbCore == ASSUME Core, NEW e \in Entry, NEW f \in Fifo, ProcessSkb(e, f)
  PROVE  Core' /\ Still /\ \E s \in Slot : Arrived(e, f, s)
<1>0. /\ Types /\ Flights /\ Places /\ FreeSlots # {} /\ supprq' = supprq
      /\ bus' = bus /\ sig' = sig /\ wk' = wk
  BY DEF Core, ProcessSkb
<1>1. PICK s : s = Min(FreeSlots)
  OBVIOUS
<1>2. s \in Slot /\ hanger[s] = "free" /\ s \notin InFlight /\ s \notin InQueue /\ s \notin orphan
  BY <1>0, <1>1, FreeIs
<1>3. /\ hanger' = [hanger EXCEPT ![s] = "inuse"]
      /\ pkt' = [pkt EXCEPT ![s] = [NoPkt EXCEPT !.e = e, !.f = f, !.n = pktSeq[e][f] + 1]]
      /\ IF Room(e)
         THEN /\ delayq' = [delayq EXCEPT ![e][f] = Append(@, s)]
              /\ enqpkt' = [enqpkt EXCEPT ![f] = @ + 1]
              /\ delayMap' = delayMap \cup {f}
              /\ stopped' = Flow(delayq', supprq, e)
              /\ orphan' = orphan
         ELSE orphan' = orphan \cup {s} /\ UNCHANGED <<delayq, enqpkt, delayMap, stopped>>
      /\ pktSeq' = [pktSeq EXCEPT ![e][f] = @ + 1]
      /\ deqQueued' = Schedule(creditMap, delayMap')
      /\ used' = [used EXCEPT !.pkt = @ + 1]
      /\ UNCHANGED <<supprq, ent, credVars, busBlocked, wk, bus, fwVars, sig>>
  BY <1>1 DEF ProcessSkb, Room
<1>4. /\ hanger' \in [Slot -> {"free", "inuse", "suppressed"}] /\ hanger'[s] = "inuse"
      /\ \A x \in Slot : x # s => hanger'[x] = hanger[x]
  BY <1>0, <1>2, <1>3 DEF Types
<1>5. /\ pkt' \in [Slot -> Packets] /\ pkt'[s].e = e /\ pkt'[s].f = f
      /\ \A x \in Slot : x # s => pkt'[x] = pkt[x]
  <2>1. PICK n \in Nat : n = pktSeq[e][f] + 1
    BY SMTT(30), <1>0 DEF Types
  <2>2. PICK p : p = [NoPkt EXCEPT !.e = e, !.f = f, !.n = n]
    OBVIOUS
  <2>3. Fresh(p, e, f)
    BY ONLY <2>2, e \in Entry, f \in Fifo, n \in Nat, NewPkt
  <2>4. pkt' = [pkt EXCEPT ![s] = p]
    BY <1>3, <2>1, <2>2
  <2>5. QED
    BY <1>0, <1>2, <2>3, <2>4 DEF Types, Fresh
<1>6. /\ delayq \in Queues /\ supprq \in Queues
      /\ Filed(delayq, "inuse") /\ Filed(supprq, "suppressed")
      /\ InQueue = Members(delayq) \cup Members(supprq)
      /\ delayq[e][f] \in Seq(Slot) /\ s \notin ToSet(delayq[e][f]) /\ Once(delayq[e][f])
  <2>1. /\ delayq \in Queues /\ supprq \in Queues
        /\ Filed(delayq, "inuse") /\ Filed(supprq, "suppressed")
        /\ InQueue = Members(delayq) \cup Members(supprq)
    BY QueueSlots DEF Core, Types
  <2>2. QED
    BY <1>2, <2>1, QueueOf, FiledAt
<1>7. KeptIn(Members(delayq), "inuse") /\ KeptIn(Members(supprq), "suppressed")
  BY <1>2, <1>4, <1>5, <1>6, FiledMembers DEF KeptIn
<1>8. FiledNext(supprq', "suppressed")
  BY <1>0, <1>6, <1>7, FiledKept
<1>9. /\ IF Room(e) THEN InQueue' = InQueue \cup {s} ELSE InQueue' = InQueue
      /\ FiledNext(delayq', "inuse") /\ delayq' \in Queues
  <2>1. CASE Room(e)
    <3> DEFINE x == Append(delayq[e][f], s)
    <3>1. x \in Seq(Slot) /\ Once(x) /\ ToSet(x) = ToSet(delayq[e][f]) \cup {s}
      BY <1>2, <1>6, OnceAppend
    <3> HIDE DEF x
    <3>2. delayq' = [delayq EXCEPT ![e][f] = x]
      BY <1>3, <2>1 DEF x
    <3>3. NowIn({s}, "inuse", e, f)
      BY <1>4, <1>5 DEF NowIn
    <3>4. Joined(delayq, delayq', s, "inuse")
      BY <1>2, <1>6, <1>7, <3>1, <3>2, <3>3, PutOne
    <3>5. InQueue' = Members(delayq') \cup Members(supprq')
      BY <1>0, <1>6, <3>4, WaitingIs DEF InQueue, Joined
    <3>6. QED
      BY <1>0, <1>6, <2>1, <3>4, <3>5 DEF Joined
  <2>2. CASE ~Room(e)
    <3>1. delayq' = delayq
      BY <1>3, <2>2
    <3>2. QED
      BY <1>0, <1>6, <1>7, <2>2, <3>1, FiledKept DEF InQueue, HeldFor
  <2>3. QED
    BY <2>1, <2>2
<1>10. Hand' = Hand /\ InFlight' = InFlight /\ Flights'
  <2>1. Hand' = Hand
    BY <1>0 DEF Hand
  <2>2. QED
    BY <1>0, <2>1, FlightsStill DEF Quiet
<1>11. InFlight \in SUBSET Slot /\ InQueue \in SUBSET Slot /\ orphan \in SUBSET Slot
  BY <1>0, FlightSlots, QueueSlots DEF Types
<1>12. Places'
  <2>1. orphan' = IF Room(e) THEN orphan ELSE orphan \cup {s}
    BY <1>3
  <2>2. /\ (InFlight \cup InQueue \cup orphan) \cup {s} = {x \in Slot : hanger'[x] # "free"}
        /\ \A x \in Slot : hanger'[x] # "free" => pkt'[x].e \in Entry
    BY <1>0, <1>2, <1>4, <1>5 DEF Places
  <2>3. InFlight' \cup InQueue' \cup orphan' = (InFlight \cup InQueue \cup orphan) \cup {s}
    BY <1>9, <1>10, <2>1
  <2>4. InFlight' \cap InQueue' = {} /\ orphan' \cap (InFlight' \cup InQueue') = {}
    BY <1>0, <1>2, <1>9, <1>10, <2>1 DEF Places
  <2>5. QED
    BY <2>2, <2>3, <2>4 DEF Places
<1>13. Types'
  <2>1. stopped' \in BOOLEAN /\ orphan' \in SUBSET Slot
    <3>1. stopped \in BOOLEAN /\ orphan \in SUBSET Slot /\ Flow(delayq', supprq, e) \in BOOLEAN
      BY <1>0, FlowIs DEF Types
    <3>2. QED
      BY <1>2, <1>3, <3>1
  <2>2. enqpkt' \in [Fifo -> Int]
    <3>1. enqpkt' = [enqpkt EXCEPT ![f] = enqpkt[f] + 1] \/ enqpkt' = enqpkt
      BY <1>3
    <3>2. enqpkt \in [Fifo -> Int]
      BY <1>0 DEF Types
    <3>3. QED
      BY <3>1, <3>2
  <2>3. delayMap' \in SUBSET Fifo /\ deqQueued' \in BOOLEAN
    <3>1. delayMap' = delayMap \cup {f} \/ delayMap' = delayMap
      BY <1>3
    <3>2. deqQueued' \in BOOLEAN
      BY <1>0, <1>3 DEF Types, Schedule
    <3>3. delayMap \in SUBSET Fifo
      BY <1>0 DEF Types
    <3>4. QED
      BY <3>1, <3>2, <3>3
  <2>4. pktSeq' \in [Entry -> [Fifo -> Nat]]
    <3>1. pktSeq' = [pktSeq EXCEPT ![e] = [pktSeq[e] EXCEPT ![f] = pktSeq[e][f] + 1]]
      BY <1>3
    <3>2. pktSeq \in [Entry -> [Fifo -> Nat]]
      BY <1>0 DEF Types
    <3>3. QED
      BY <3>1, <3>2
  <2>5. used' \in [pkt : Nat, sleep : Nat, refuse : Nat, other : Nat]
    <3>1. used' = [used EXCEPT !.pkt = @ + 1] /\ used \in [pkt : Nat, sleep : Nat, refuse : Nat, other : Nat]
      BY <1>0, <1>3 DEF Types
    <3>2. QED
      BY <3>1
  <2>6. UNCHANGED <<supprq, ent, credit, borrowed, creditMap, busBlocked, wk, bus, fw, air, sig>>
    BY <1>3 DEF credVars, fwVars
  <2>7. QED
    BY <1>0, <1>4, <1>5, <1>9, <2>1, <2>2, <2>3, <2>4, <2>5, <2>6 DEF Types
<1>14. Still /\ Keep(Slot \ {s})
  BY <1>2, <1>5, <1>10, <1>11 DEF Still, Keep
<1>15. Arrived(e, f, s)
  BY <1>2, <1>3, <1>5, <1>9, <1>14 DEF Arrived
<1>16. QED
  BY <1>2, <1>8, <1>9, <1>10, <1>12, <1>13, <1>14, <1>15, FiledPrime DEF Core

-----------------------------------------------------------------------------
(* A destination that leaves.                                                *)
LEMMA MacDelCore == ASSUME Core, MacDel
  PROVE  Core' /\ Still /\ InQueue' \subseteq InQueue /\ Keep(InQueue')
<1> DEFINE e == Head(sig).e  S == Flushed(e)
<1>0. Types /\ Places /\ ent \in [Entry -> Descriptors] /\ sig \in Seq(Signals) /\ sig # <<>>
  BY DEF Core, Types, MacDel, Got
<1>1. Hand' = Hand /\ bus' = bus /\ Quiet
  BY DEF MacDel, Got, Hand, Quiet, Tells
<1>2. sig' \in Seq(Signals) /\ Flights' /\ InFlight' = InFlight
  BY <1>1, FlightsStill
<1>3. e \in Entry
  <2>1. Head(sig) \in Signals
    BY <1>0
  <2>2. QED
    BY <2>1 DEF Signals
<1>4. /\ Freed(S)
      /\ delayq' = [delayq EXCEPT ![e] = Empty[e]] /\ supprq' = [supprq EXCEPT ![e] = Empty[e]]
      /\ ent' = [ent EXCEPT ![e].occupied = FALSE, ![e].open = FALSE, ![e].request = 0]
      /\ UNCHANGED <<enqpkt, delayMap, pktSeqVars, credVars, stopped, busBlocked, deqQueued,
                     wk, bus, fwVars, used>>
  BY DEF MacDel
<1> HIDE DEF e
<1>5. /\ delayq \in Queues /\ supprq \in Queues
      /\ Filed(delayq, "inuse") /\ Filed(supprq, "suppressed")
      /\ InQueue = Members(delayq) \cup Members(supprq)
  BY <1>0, QueueSlots DEF Core, Types
<1>6. ASSUME NEW q \in Queues, NEW r, r = [q EXCEPT ![e] = Empty[e]]
      PROVE  /\ r \in Queues
             /\ \A f \in Fifo : r[e][f] = <<>>
             /\ \A x \in Entry, f \in Fifo : x # e => r[x][f] = q[x][f]
  BY <1>3, <1>6 DEF Queues, Empty
<1>7. delayq' \in Queues /\ supprq' \in Queues
  BY <1>4, <1>5, <1>6
<1>8. /\ hanger' \in [Slot -> {"free", "inuse", "suppressed"}] /\ pkt' \in [Slot -> Packets]
      /\ \A x \in Slot : x \in S => hanger'[x] = "free"
      /\ \A x \in Slot : x \notin S => hanger'[x] = hanger[x] /\ pkt'[x] = pkt[x]
  BY <1>0, <1>4, FreedTypes
<1>9. \A x : x \in S <=> \E f \in Fifo : x \in ToSet(delayq[e][f]) \/ x \in ToSet(supprq[e][f])
  BY DEF Flushed, HeldFor
<1> HIDE DEF S
<1>10. \A x \in InQueue : x \in S <=> pkt[x].e = e
  <2> SUFFICES ASSUME NEW x \in InQueue PROVE x \in S <=> pkt[x].e = e
    OBVIOUS
  <2>1. x \in S => pkt[x].e = e
    BY <1>3, <1>5, <1>9, FiledAt
  <2>2. x \in Members(delayq) \/ x \in Members(supprq)
    BY <1>5
  <2>3. pkt[x].e = e => x \in S
    BY <1>5, <1>9, <2>2, FiledMembers
  <2>4. QED
    BY <2>1, <2>3
<1>11. S \subseteq InQueue
  BY <1>3, <1>5, <1>9, QueueOf
<1>12. ASSUME NEW q \in Queues, NEW r, r = [q EXCEPT ![e] = Empty[e]], NEW state, Filed(q, state),
              Members(q) \subseteq InQueue
       PROVE  Members(r) = Members(q) \ S /\ FiledNext(r, state)
  <2>1. /\ r \in Queues
        /\ \A f \in Fifo : r[e][f] = <<>>
        /\ \A x \in Entry, f \in Fifo : x # e => r[x][f] = q[x][f]
    BY <1>3, <1>12 DEF Queues, Empty
  <2>2. ToSet(<<>>) = {} /\ Once(<<>>) /\ Len(<<>>) = 0
    BY DEF ToSet, Once
  <2>3. \A x \in Members(r) : x \in Members(q) /\ pkt[x].e # e
    <3> SUFFICES ASSUME NEW x \in Members(r) PROVE x \in Members(q) /\ pkt[x].e # e
      OBVIOUS
    <3>1. PICK y \in Entry, f \in Fifo : x \in ToSet(r[y][f])
      BY DEF Members
    <3>2. y # e
      BY <2>1, <2>2, <3>1
    <3>3. x \in ToSet(q[y][f])
      BY <2>1, <3>1, <3>2
    <3>4. pkt[x].e = y /\ x \in Members(q)
      BY <1>12, <3>3, FiledAt, QueueOf
    <3>5. QED
      BY <3>2, <3>4
  <2>4. \A x \in Members(q) : pkt[x].e # e => x \in Members(r)
    <3> SUFFICES ASSUME NEW x \in Members(q), pkt[x].e # e PROVE x \in Members(r)
      OBVIOUS
    <3>0. pkt[x].e # e
      OBVIOUS
    <3> DEFINE y == pkt[x].e  f == pkt[x].f
    <3>1. pkt[x].e \in Entry /\ pkt[x].f \in Fifo /\ x \in ToSet(q[pkt[x].e][pkt[x].f]) /\ x \in Slot
      BY <1>12, FiledMembers
    <3>4. y \in Entry /\ f \in Fifo /\ y # e
      BY <3>0, <3>1
    <3> HIDE DEF y, f
    <3>5. r[y][f] = q[y][f]
      BY <2>1, <3>4
    <3>2. x \in ToSet(r[pkt[x].e][pkt[x].f])
      BY <3>1, <3>5 DEF y, f
    <3>3. QED
      BY <3>1, <3>2 DEF Members
  <2>5. Members(r) = Members(q) \ S
    BY <1>10, <1>12, <2>3, <2>4
  <2>6. ASSUME NEW y \in Entry, NEW f \in Fifo
        PROVE  /\ Once(r[y][f])
               /\ \A i \in 1..Len(r[y][f]) :
                    LET s == r[y][f][i] IN hanger'[s] = state /\ pkt'[s].e = y /\ pkt'[s].f = f
    <3>1. CASE y = e
      BY <2>1, <2>2, <3>1
    <3>2. CASE y # e
      <4>1. r[y][f] = q[y][f] /\ q[y][f] \in Seq(Slot) /\ Once(q[y][f])
        BY <1>12, <2>1, <3>2, QueueOf, FiledAt
      <4>2. \A i \in 1..Len(q[y][f]) : q[y][f][i] \in Members(q) /\ q[y][f][i] \in Slot
        BY <4>1, AsSet, QueueOf
      <4>3. \A i \in 1..Len(q[y][f]) :
              hanger[q[y][f][i]] = state /\ pkt[q[y][f][i]].e = y /\ pkt[q[y][f][i]].f = f
        BY <1>12 DEF Filed
      <4>4. \A i \in 1..Len(q[y][f]) : q[y][f][i] \notin S
        BY <1>10, <1>12, <3>2, <4>2, <4>3
      <4>5. QED
        BY <1>8, <4>1, <4>2, <4>3, <4>4
    <3>3. QED
      BY <3>1, <3>2
  <2>7. FiledNext(r, state)
    BY <2>6 DEF FiledNext
  <2>8. QED
    BY <2>5, <2>7
<1>13. /\ Members(delayq') = Members(delayq) \ S /\ FiledNext(delayq', "inuse")
       /\ Members(supprq') = Members(supprq) \ S /\ FiledNext(supprq', "suppressed")
  BY <1>4, <1>5, <1>12
<1>14. InQueue' = InQueue \ S
  <2>1. InQueue' = Members(delayq') \cup Members(supprq')
    BY <1>7, WaitingIs DEF InQueue
  <2>2. QED
    BY <1>5, <1>13, <2>1
<1>15. InFlight \in SUBSET Slot /\ InQueue \in SUBSET Slot /\ orphan \in SUBSET Slot
  BY <1>0, FlightSlots, QueueSlots DEF Types
<1>16. Places'
  <2>1. orphan' = orphan
    BY <1>4 DEF pktSeqVars
  <2>2. QED
    BY <1>0, <1>2, <1>8, <1>11, <1>14, <1>15, <2>1 DEF Places
<1>17. ent' \in [Entry -> Descriptors]
  <2> DEFINE d == [ent[e] EXCEPT !.occupied = FALSE, !.open = FALSE, !.request = 0]
  <2>1. ent[e] \in Descriptors /\ d \in Descriptors
    BY <1>0, <1>3 DEF Descriptors
  <2>2. ent' = [ent EXCEPT ![e] = d]
    BY <1>0, <1>3, <1>4, <2>1 DEF Descriptors
  <2> HIDE DEF d
  <2>3. QED
    BY <1>0, <1>3, <2>1, <2>2
<1>18. Types'
  BY <1>0, <1>2, <1>4, <1>7, <1>8, <1>17 DEF Types, pktSeqVars, credVars, fwVars
<1>19. Still /\ Keep(InQueue')
  BY <1>0, <1>2, <1>8, <1>11, <1>14, <1>15 DEF Still, Keep, Places
<1>20. QED
  BY <1>2, <1>13, <1>14, <1>16, <1>18, <1>19, FiledPrime DEF Core

-----------------------------------------------------------------------------
(* How many packets are on their way, per destination and per fifo.          *)
\* The packets of a destination and of a fifo on their way after a step.
NowOf(e) == {s \in InFlight' : pkt'[s].e = e}
NowFor(f) == {s \in InFlight' : pkt'[s].f = f}

LEMMA FlightCounts == ASSUME Core, NEW e, NEW f
  PROVE  /\ IsFiniteSet(Of(e)) /\ Cardinality(Of(e)) \in Nat /\ Of(e) \subseteq InFlight
         /\ IsFiniteSet(In(f)) /\ Cardinality(In(f)) \in Nat /\ In(f) \subseteq InFlight
<1>1. IsFiniteSet(InFlight) /\ Of(e) \subseteq InFlight /\ In(f) \subseteq InFlight
  BY FlightSlots DEF Core, Of, In
<1>2. QED
  BY <1>1, FS_Subset, FS_CardinalityType

LEMMA StillCounts == ASSUME Core, Still, NEW e, NEW f PROVE NowOf(e) = Of(e) /\ NowFor(f) = In(f)
  BY DEF Still, Keep, NowOf, NowFor, Of, In

LEMMA JoinsCounts == ASSUME Core, NEW s, Joins(s), NEW e, NEW f
  PROVE  /\ NowOf(e) = (IF pkt[s].e = e THEN Of(e) \cup {s} ELSE Of(e))
         /\ NowFor(f) = (IF pkt[s].f = f THEN In(f) \cup {s} ELSE In(f))
         /\ Cardinality(NowOf(e)) = Cardinality(Of(e)) + (IF pkt[s].e = e THEN 1 ELSE 0)
         /\ Cardinality(NowFor(f)) = Cardinality(In(f)) + (IF pkt[s].f = f THEN 1 ELSE 0)
<1>1. /\ NowOf(e) = (IF pkt[s].e = e THEN Of(e) \cup {s} ELSE Of(e))
      /\ NowFor(f) = (IF pkt[s].f = f THEN In(f) \cup {s} ELSE In(f))
      /\ s \notin Of(e) /\ s \notin In(f)
  BY DEF Joins, Keep, NowOf, NowFor, Of, In
<1>2. /\ Cardinality(Of(e) \cup {s}) = Cardinality(Of(e)) + 1
      /\ Cardinality(In(f) \cup {s}) = Cardinality(In(f)) + 1
  BY <1>1, FlightCounts, FS_AddElement
<1>3. Cardinality(Of(e)) \in Nat /\ Cardinality(In(f)) \in Nat
  BY FlightCounts
<1>4. QED
  BY <1>1, <1>2, <1>3

LEMMA LeavesCounts == ASSUME Core, NEW s, Leaves(s), NEW e, NEW f
  PROVE  /\ NowOf(e) = (IF pkt[s].e = e THEN Of(e) \ {s} ELSE Of(e))
         /\ NowFor(f) = (IF pkt[s].f = f THEN In(f) \ {s} ELSE In(f))
         /\ Cardinality(NowOf(e)) = Cardinality(Of(e)) - (IF pkt[s].e = e THEN 1 ELSE 0)
         /\ Cardinality(NowFor(f)) = Cardinality(In(f)) - (IF pkt[s].f = f THEN 1 ELSE 0)
         /\ pkt[s].e = e => Cardinality(Of(e)) > 0
         /\ pkt[s].f = f => Cardinality(In(f)) > 0
<1>1. /\ NowOf(e) = (IF pkt[s].e = e THEN Of(e) \ {s} ELSE Of(e))
      /\ NowFor(f) = (IF pkt[s].f = f THEN In(f) \ {s} ELSE In(f))
      /\ pkt[s].e = e => s \in Of(e)
      /\ pkt[s].f = f => s \in In(f)
  BY DEF Leaves, Keep, NowOf, NowFor, Of, In
<1>2. Cardinality(Of(e)) \in Nat /\ Cardinality(In(f)) \in Nat
      /\ IsFiniteSet(Of(e)) /\ IsFiniteSet(In(f))
  BY FlightCounts
<1>3. ASSUME NEW T, IsFiniteSet(T), s \in T
      PROVE  Cardinality(T \ {s}) = Cardinality(T) - 1 /\ Cardinality(T) > 0
  <2>1. IsFiniteSet(T \ {s}) /\ Cardinality(T \ {s}) = Cardinality(T) - 1
    BY <1>3, FS_RemoveElement
  <2>2. Cardinality(T) \in Nat /\ Cardinality(T \ {s}) \in Nat
    BY <1>3, <2>1, FS_CardinalityType
  <2>3. QED
    BY <2>1, <2>2
<1>4. /\ pkt[s].e = e => Cardinality(Of(e) \ {s}) = Cardinality(Of(e)) - 1 /\ Cardinality(Of(e)) > 0
      /\ pkt[s].f = f => Cardinality(In(f) \ {s}) = Cardinality(In(f)) - 1 /\ Cardinality(In(f)) > 0
  BY <1>1, <1>2, <1>3
<1>5. QED
  BY <1>1, <1>2, <1>4

-----------------------------------------------------------------------------
(* The packets a destination waits for.                                      *)
LEMMA TransitNext == Transit' <=>
  \A e \in Entry :
    /\ ent'[e].transit <= Cardinality(NowOf(e))
    /\ ent'[e].suppressed => ent'[e].supprTransit <= Cardinality(NowOf(e))
    /\ used'.refuse = 0 => ent'[e].transit = Cardinality(NowOf(e)) /\ ent'[e].supprTransit >= 0
BY DEF Transit, NowOf, Of

LEMMA TransitStill == ASSUME Core, Transit, Still, used'.refuse = used.refuse,
                             \A x \in Entry : /\ ent'[x].transit = ent[x].transit
                                              /\ ent'[x].supprTransit = ent[x].supprTransit
                                              /\ ent'[x].suppressed => ent[x].suppressed
  PROVE  Transit'
BY StillCounts, TransitNext DEF Transit

LEMMA TransitTypes == ASSUME Core, NEW e \in Entry
  PROVE  /\ ent[e] \in Descriptors /\ ent[e].transit \in Int /\ ent[e].supprTransit \in Int
         /\ ent[e].suppressed \in BOOLEAN /\ Cardinality(Of(e)) \in Nat
         /\ used.refuse \in Nat /\ ent \in [Entry -> Descriptors]
BY FlightCounts DEF Core, Types, Descriptors

LEMMA TransitDeq == ASSUME Core, Transit, NEW f \in Fifo, NEW e \in Ready(f), NEW seen \in SUBSET Vain(f),
                           Deq(e, f, seen), NEW s, Joins(s), pkt[s].e = e, used' = used
  PROVE  Transit'
<1> SUFFICES ASSUME NEW x \in Entry
             PROVE /\ ent'[x].transit <= Cardinality(NowOf(x))
                   /\ ent'[x].suppressed => ent'[x].supprTransit <= Cardinality(NowOf(x))
                   /\ used'.refuse = 0 =>
                        ent'[x].transit = Cardinality(NowOf(x)) /\ ent'[x].supprTransit >= 0
  BY TransitNext
<1>1. Cardinality(NowOf(x)) = Cardinality(Of(x)) + (IF e = x THEN 1 ELSE 0)
  BY JoinsCounts
<1>2. /\ ent'[x].transit = IF x = e THEN ent[x].transit + 1 ELSE ent[x].transit
      /\ ent'[x].suppressed => ent[x].suppressed
      /\ ent'[x].supprTransit = IF x = e /\ ent[e].suppressed /\ supprq[e][f] # <<>>
                                THEN ent[x].supprTransit + 1 ELSE ent[x].supprTransit
  <2>1. EntAfter(x, e, f, seen)
    BY DeqEntIs
  <2>2. QED
    BY <2>1 DEF EntAfter
<1>3. /\ ent[x].transit \in Int /\ ent[x].supprTransit \in Int /\ Cardinality(Of(x)) \in Nat
      /\ ent[x].transit <= Cardinality(Of(x))
      /\ ent[x].suppressed => ent[x].supprTransit <= Cardinality(Of(x))
      /\ used.refuse = 0 => ent[x].transit = Cardinality(Of(x)) /\ ent[x].supprTransit >= 0
  BY TransitTypes DEF Transit
<1>4. QED
  BY <1>1, <1>2, <1>3

\* What Out does, to each descriptor.
Down(y, x) ==
  /\ y.transit = x.transit - 1
  /\ y.suppressed = x.suppressed
  /\ y.supprTransit = IF x.suppressed /\ x.supprTransit > 0 THEN x.supprTransit - 1
                      ELSE x.supprTransit
Alike(y, x) ==
  y.transit = x.transit /\ y.suppressed = x.suppressed /\ y.supprTransit = x.supprTransit

LEMMA BackedDown == ASSUME Core, NEW s, pkt[s].e \in Entry, NEW en \in [Entry -> Descriptors]
  PROVE  /\ ReqBack(Out(en, s), s) \in [Entry -> Descriptors]
         /\ Down(ReqBack(Out(en, s), s)[pkt[s].e], en[pkt[s].e])
         /\ \A x \in Entry : x # pkt[s].e => Alike(ReqBack(Out(en, s), s)[x], en[x])
<1>1. /\ Out(en, s) \in [Entry -> Descriptors]
      /\ \A x \in Entry : Out(en, s)[x] =
              IF x = pkt[s].e
              THEN [en[x] EXCEPT !.transit = en[x].transit - 1,
                      !.supprTransit = IF en[x].suppressed /\ en[x].supprTransit > 0
                                       THEN en[x].supprTransit - 1 ELSE en[x].supprTransit]
              ELSE en[x]
  BY OutIs
<1>2. /\ ReqBack(Out(en, s), s) \in [Entry -> Descriptors]
      /\ \A x \in Entry : AsideRequest(ReqBack(Out(en, s), s)[x], Out(en, s)[x])
  BY <1>1, ReqBackIs
<1>3. \A x \in Entry : en[x] \in Descriptors
  OBVIOUS
<1>4. Down(Out(en, s)[pkt[s].e], en[pkt[s].e])
  BY <1>1, <1>3 DEF Down, Descriptors
<1>5. \A x \in Entry : x # pkt[s].e => Out(en, s)[x] = en[x]
  BY <1>1
<1>6. QED
  BY <1>2, <1>4, <1>5 DEF AsideRequest, Down, Alike

LEMMA TransitOut == ASSUME Core, Transit, NEW s, Leaves(s), ent' = ReqBack(Out(ent, s), s),
                           used'.refuse = used.refuse
  PROVE  Transit'
<1>0. pkt[s].e \in Entry
  BY FlightPkt DEF Leaves
<1> SUFFICES ASSUME NEW x \in Entry
             PROVE /\ ent'[x].transit <= Cardinality(NowOf(x))
                   /\ ent'[x].suppressed => ent'[x].supprTransit <= Cardinality(NowOf(x))
                   /\ used'.refuse = 0 =>
                        ent'[x].transit = Cardinality(NowOf(x)) /\ ent'[x].supprTransit >= 0
  BY TransitNext
<1>1. /\ Cardinality(NowOf(x)) = Cardinality(Of(x)) - (IF pkt[s].e = x THEN 1 ELSE 0)
      /\ pkt[s].e = x => Cardinality(Of(x)) > 0
  BY LeavesCounts
<1>2. IF pkt[s].e = x THEN Down(ent'[x], ent[x]) ELSE Alike(ent'[x], ent[x])
  BY <1>0, TransitTypes, BackedDown
<1>3. /\ ent[x].transit \in Int /\ ent[x].supprTransit \in Int /\ Cardinality(Of(x)) \in Nat
      /\ ent[x].transit <= Cardinality(Of(x))
      /\ ent[x].suppressed => ent[x].supprTransit <= Cardinality(Of(x))
      /\ used.refuse = 0 => ent[x].transit = Cardinality(Of(x)) /\ ent[x].supprTransit >= 0
  BY TransitTypes DEF Transit
<1>4. QED
  BY <1>1, <1>2, <1>3 DEF Down, Alike

LEMMA TransitSuppressed == ASSUME Core, Transit, StatusSuppressed, NEW s, s = Head(sig).s, Leaves(s)
  PROVE  Transit'
<1>0. pkt[s].e \in Entry /\ Head(sig).gen \in 0..1 /\ used' = used /\ ent' = Counted(s, Head(sig).gen)
  <2>1. Head(sig) \in Signals
    <3>1. sig \in Seq(Signals) /\ sig # <<>>
      BY DEF Core, Types, StatusSuppressed, Got
    <3>2. QED
      BY <3>1
  <2>2. QED
    BY SMTT(30), <2>1, SuppressedIs, FlightPkt DEF Leaves, Signals
<1> SUFFICES ASSUME NEW x \in Entry
             PROVE /\ ent'[x].transit <= Cardinality(NowOf(x))
                   /\ ent'[x].suppressed => ent'[x].supprTransit <= Cardinality(NowOf(x))
                   /\ used'.refuse = 0 =>
                        ent'[x].transit = Cardinality(NowOf(x)) /\ ent'[x].supprTransit >= 0
  BY TransitNext
<1>1. /\ Cardinality(NowOf(x)) = Cardinality(Of(x)) - (IF pkt[s].e = x THEN 1 ELSE 0)
      /\ pkt[s].e = x => Cardinality(Of(x)) > 0
  BY LeavesCounts
<1>2. /\ Down(Backed(s)[pkt[s].e], ent[pkt[s].e])
      /\ x # pkt[s].e => Alike(Backed(s)[x], ent[x])
  BY <1>0, TransitTypes, BackedDown DEF Backed
<1>3. /\ x # pkt[s].e => ent'[x] = Backed(s)[x]
      /\ Suppresses(ent'[pkt[s].e], Backed(s)[pkt[s].e], Head(sig).gen)
  BY <1>0, TransitTypes, CountedIs
<1>4. /\ ent[x].transit \in Int /\ ent[x].supprTransit \in Int /\ Cardinality(Of(x)) \in Nat
      /\ ent[x].transit <= Cardinality(Of(x))
      /\ ent[x].suppressed => ent[x].supprTransit <= Cardinality(Of(x))
      /\ used.refuse = 0 => ent[x].transit = Cardinality(Of(x)) /\ ent[x].supprTransit >= 0
  BY TransitTypes DEF Transit
<1>5. CASE x = pkt[s].e
  BY SMTT(30), <1>0, <1>1, <1>2, <1>3, <1>4, <1>5 DEF Down, Suppresses
<1>6. CASE x # pkt[s].e
  BY SMTT(30), <1>0, <1>1, <1>2, <1>3, <1>4, <1>6 DEF Alike
<1>7. QED
  BY <1>5, <1>6

LEMMA TransitRefused == ASSUME Core, Transit, WorkRefused, NEW s, s = wk.slot, Leaves(s)
  PROVE  Transit'
<1>0. pkt[s].e \in Entry /\ used'.refuse # 0 /\ ent \in [Entry -> Descriptors]
  <2>1. used' = [used EXCEPT !.refuse = @ + 1] /\ used \in [pkt : Nat, sleep : Nat, refuse : Nat, other : Nat]
    BY DEF WorkRefused, Core, Types
  <2>2. used'.refuse = used.refuse + 1 /\ used.refuse \in Nat
    BY <2>1
  <2>3. QED
    BY <2>2, FlightPkt DEF Leaves, Core, Types
<1> SUFFICES ASSUME NEW x \in Entry
             PROVE /\ ent'[x].transit <= Cardinality(NowOf(x))
                   /\ ent'[x].suppressed => ent'[x].supprTransit <= Cardinality(NowOf(x))
  BY <1>0, TransitNext
<1>1. /\ Cardinality(NowOf(x)) = Cardinality(Of(x)) - (IF pkt[s].e = x THEN 1 ELSE 0)
      /\ pkt[s].e = x => Cardinality(Of(x)) > 0
  BY LeavesCounts
<1>2. /\ Rolled(s) \in [Entry -> Descriptors]
      /\ Rolled(s)[x].transit = IF x = pkt[s].e THEN ent[x].transit - 1 ELSE ent[x].transit
      /\ Rolled(s)[x].suppressed = ent[x].suppressed
      /\ Rolled(s)[x].supprTransit = IF x = pkt[s].e /\ ent[x].suppressed
                                     THEN ent[x].supprTransit - 1 ELSE ent[x].supprTransit
  <2>1. ent[x] \in Descriptors
    BY <1>0
  <2>2. QED
    <3>1. /\ Rolled(s) \in [Entry -> Descriptors]
          /\ Rolled(s)[x] =
              IF x = pkt[s].e
              THEN [ent[x] EXCEPT !.transit = ent[x].transit - 1,
                      !.supprTransit = IF ent[x].suppressed THEN ent[x].supprTransit - 1
                                       ELSE ent[x].supprTransit]
              ELSE ent[x]
      BY <1>0, RolledIs
    <3>2. QED
      BY <2>1, <3>1 DEF Descriptors
<1>3. \/ AsideRequest(ent'[x], Rolled(s)[x])
      \/ x = pkt[s].e /\ Down(ent'[x], Rolled(s)[x])
      \/ x # pkt[s].e /\ Alike(ent'[x], Rolled(s)[x])
  <2>1. CASE Fits(s)
    <3>1. ent' = ReqBack(Rolled(s), s)
      BY <2>1, RefusedIs
    <3>2. QED
      BY <1>0, <1>2, <3>1, ReqBackIs
  <2>2. CASE ~Fits(s)
    <3>1. ent' = ReqBack(Out(Rolled(s), s), s)
      BY <2>2, RefusedIs
    <3>2. QED
      BY <1>0, <1>2, <3>1, BackedDown
  <2>3. QED
    BY <2>1, <2>2
<1>4. /\ ent[x].transit \in Int /\ ent[x].supprTransit \in Int /\ Cardinality(Of(x)) \in Nat
      /\ ent[x].transit <= Cardinality(Of(x))
      /\ ent[x].suppressed => ent[x].supprTransit <= Cardinality(Of(x))
  BY TransitTypes DEF Transit
<1>5. QED
  BY <1>1, <1>2, <1>3, <1>4 DEF Down, Alike, AsideRequest

-----------------------------------------------------------------------------
(* The loans, credit by credit.                                              *)
\* The credits f has lent and owes, of the loans b.
LentIn(b, f) == UNION {{g} \X (1..b[g][f]) : g \in Fifo}
OwedIn(b, f) == UNION {{l} \X (1..b[f][l]) : l \in Fifo}

\* d is b and one more loan, of l to f.
OneMore(b, d, f, l) ==
  /\ d \in [Fifo -> [Fifo -> Nat]]
  /\ \A g, k \in Fifo : d[g][k] = IF g = f /\ k = l THEN b[g][k] + 1 ELSE b[g][k]

LEMMA PairsOf == ASSUME NEW b \in [Fifo -> [Fifo -> Nat]], NEW f \in Fifo, NEW x, NEW y
  PROVE  /\ <<x, y>> \in LentIn(b, f) <=> x \in Fifo /\ y \in 1..b[x][f]
         /\ <<x, y>> \in OwedIn(b, f) <=> x \in Fifo /\ y \in 1..b[f][x]
<1>1. \A S, T : <<x, y>> \in S \X T <=> x \in S /\ y \in T
  OBVIOUS
<1>2. <<x, y>> \in LentIn(b, f) <=> \E g \in Fifo : <<x, y>> \in {g} \X (1..b[g][f])
  BY DEF LentIn
<1>3. <<x, y>> \in OwedIn(b, f) <=> \E l \in Fifo : <<x, y>> \in {l} \X (1..b[f][l])
  BY DEF OwedIn
<1>4. QED
  BY <1>1, <1>2, <1>3

LEMMA PairsOnly == ASSUME NEW b, NEW f, NEW p, p \in LentIn(b, f) \/ p \in OwedIn(b, f)
  PROVE  p = <<p[1], p[2]>>
  BY DEF LentIn, OwedIn

\* T is S, and one more element when the condition holds.
Grown(T, S, yes) == IF yes THEN \E p : p \notin S /\ T = S \cup {p} ELSE T = S

LEMMA LoanPairs == ASSUME NEW b \in [Fifo -> [Fifo -> Nat]], NEW d, NEW f \in Fifo, NEW l \in Fifo,
                          OneMore(b, d, f, l), NEW x \in Fifo
  PROVE  Grown(LentIn(d, x), LentIn(b, x), x = l) /\ Grown(OwedIn(d, x), OwedIn(b, x), x = f)
<1> DEFINE n == b[f][l]
<1>0. n \in Nat /\ d \in [Fifo -> [Fifo -> Nat]]
  BY DEF OneMore
<1>1. n + 1 \notin 1..n
  BY <1>0
<1>2. <<f, n + 1>> \notin LentIn(b, l) /\ <<l, n + 1>> \notin OwedIn(b, f)
  BY <1>1, PairsOf
<1>3. \A y : y \in 1..(n + 1) <=> y \in 1..n \/ y = n + 1
  <2>1. ASSUME NEW m \in Nat, NEW y PROVE y \in 1..(m + 1) <=> y \in 1..m \/ y = m + 1
    <3>1. y \in 1..m => y \in 1..(m + 1)
      OBVIOUS
    <3>2. m + 1 \in 1..(m + 1)
      OBVIOUS
    <3>3. y \in 1..(m + 1) => y \in 1..m \/ y = m + 1
      OBVIOUS
    <3>4. QED
      BY <3>1, <3>2, <3>3
  <2> HIDE DEF n
  <2>2. QED
    BY <1>0, <2>1
<1> HIDE DEF n
<1>4. ASSUME NEW g \in Fifo, NEW k \in Fifo, NEW y
      PROVE  y \in 1..d[g][k] <=> y \in 1..b[g][k] \/ (g = f /\ k = l /\ y = n + 1)
  <2>1. CASE g = f /\ k = l
    BY <1>3, <2>1 DEF OneMore, n
  <2>2. CASE ~(g = f /\ k = l)
    BY <2>2 DEF OneMore
  <2>3. QED
    BY <2>1, <2>2
<1>5. \A u, v : <<u, v>> \in LentIn(d, x) <=> <<u, v>> \in LentIn(b, x) \/ (u = f /\ x = l /\ v = n + 1)
  BY <1>0, <1>4, PairsOf
<1>6. \A u, v : <<u, v>> \in OwedIn(d, x) <=> <<u, v>> \in OwedIn(b, x) \/ (x = f /\ u = l /\ v = n + 1)
  BY <1>0, <1>4, PairsOf
<1>7. LentIn(d, x) = (IF x = l THEN LentIn(b, x) \cup {<<f, n + 1>>} ELSE LentIn(b, x))
  <2>1. ASSUME NEW p PROVE p \in LentIn(d, x) <=> p \in LentIn(b, x) \/ (x = l /\ p = <<f, n + 1>>)
    <3>1. p \in LentIn(d, x) \/ p \in LentIn(b, x) \/ p = <<f, n + 1>> => \E u, v : p = <<u, v>>
      BY PairsOnly
    <3>2. ASSUME NEW u, NEW v
          PROVE  <<u, v>> \in LentIn(d, x) <=> <<u, v>> \in LentIn(b, x) \/ (x = l /\ <<u, v>> = <<f, n + 1>>)
      BY <1>5
    <3>3. QED
      BY <3>1, <3>2
  <2>2. QED
    BY <2>1
<1>8. OwedIn(d, x) = (IF x = f THEN OwedIn(b, x) \cup {<<l, n + 1>>} ELSE OwedIn(b, x))
  <2>1. ASSUME NEW p PROVE p \in OwedIn(d, x) <=> p \in OwedIn(b, x) \/ (x = f /\ p = <<l, n + 1>>)
    <3>1. p \in OwedIn(d, x) \/ p \in OwedIn(b, x) \/ p = <<l, n + 1>> => \E u, v : p = <<u, v>>
      BY PairsOnly
    <3>2. ASSUME NEW u, NEW v
          PROVE  <<u, v>> \in OwedIn(d, x) <=> <<u, v>> \in OwedIn(b, x) \/ (x = f /\ <<u, v>> = <<l, n + 1>>)
      BY <1>6
    <3>3. QED
      BY <3>1, <3>2
  <2>2. QED
    BY <2>1
<1>9. QED
  BY <1>2, <1>7, <1>8 DEF Grown

\* How many credits a fifo has lent and owes, one loan more or less.
Sums(b, d, f, l) == \A x \in Fifo :
  /\ Cardinality(LentIn(d, x)) = Cardinality(LentIn(b, x)) + (IF x = l THEN 1 ELSE 0)
  /\ Cardinality(OwedIn(d, x)) = Cardinality(OwedIn(b, x)) + (IF x = f THEN 1 ELSE 0)
Finite(b) == \A x \in Fifo : IsFiniteSet(LentIn(b, x)) /\ IsFiniteSet(OwedIn(b, x))

LEMMA SumTypes == ASSUME NEW b, Finite(b), NEW x \in Fifo
  PROVE  Cardinality(LentIn(b, x)) \in Nat /\ Cardinality(OwedIn(b, x)) \in Nat
  BY FS_CardinalityType DEF Finite

LEMMA LoanSums == ASSUME NEW b \in [Fifo -> [Fifo -> Nat]], NEW d, NEW f \in Fifo, NEW l \in Fifo,
                         OneMore(b, d, f, l), Finite(b) \/ Finite(d)
  PROVE  Finite(b) /\ Finite(d) /\ Sums(b, d, f, l)
<1>1. Finite(b)
  <2> SUFFICES ASSUME Finite(d), NEW x \in Fifo
               PROVE  IsFiniteSet(LentIn(b, x)) /\ IsFiniteSet(OwedIn(b, x))
    BY DEF Finite
  <2>1. LentIn(b, x) \subseteq LentIn(d, x) /\ OwedIn(b, x) \subseteq OwedIn(d, x)
    <3>1. Grown(LentIn(d, x), LentIn(b, x), x = l) /\ Grown(OwedIn(d, x), OwedIn(b, x), x = f)
      BY LoanPairs
    <3>2. QED
      BY <3>1 DEF Grown
  <2>2. QED
    BY <2>1, FS_Subset DEF Finite
<1>2. ASSUME NEW x \in Fifo
      PROVE  /\ IsFiniteSet(LentIn(d, x)) /\ IsFiniteSet(OwedIn(d, x))
             /\ Cardinality(LentIn(d, x)) = Cardinality(LentIn(b, x)) + (IF x = l THEN 1 ELSE 0)
             /\ Cardinality(OwedIn(d, x)) = Cardinality(OwedIn(b, x)) + (IF x = f THEN 1 ELSE 0)
  <2>1. IsFiniteSet(LentIn(b, x)) /\ IsFiniteSet(OwedIn(b, x))
    BY <1>1 DEF Finite
  <2>2. ASSUME NEW S, NEW T, NEW yes \in BOOLEAN, IsFiniteSet(S), Grown(T, S, yes)
        PROVE  IsFiniteSet(T) /\ Cardinality(T) = Cardinality(S) + (IF yes THEN 1 ELSE 0)
    <3>1. Cardinality(S) \in Nat
      BY <2>2, FS_CardinalityType
    <3>2. CASE yes
      <4>1. PICK p : p \notin S /\ T = S \cup {p}
        BY <2>2, <3>2 DEF Grown
      <4>2. QED
        BY <2>2, <3>2, <4>1, FS_AddElement
    <3>3. CASE ~yes
      BY <2>2, <3>1, <3>3 DEF Grown
    <3>4. QED
      BY <3>2, <3>3
  <2>3. Grown(LentIn(d, x), LentIn(b, x), x = l) /\ Grown(OwedIn(d, x), OwedIn(b, x), x = f)
    BY LoanPairs
  <2>4. QED
    BY <2>1, <2>2, <2>3
<1>3. QED
  BY <1>1, <1>2 DEF Finite, Sums

-----------------------------------------------------------------------------
(* The balance of a fifo with own[f] packets in flight.                      *)
Balanced(c, own) ==
  /\ \A f, l \in Fifo : c.borrowed[f][l] > 0 => l < f
  /\ Finite(c.borrowed)
  /\ \A f \in Fifo :
       /\ c.credit[f] \in 0..Init_credit[f]
       /\ c.credit[f] + own[f] + Cardinality(LentIn(c.borrowed, f))
            = Init_credit[f] + Cardinality(OwedIn(c.borrowed, f))
       /\ Cardinality(OwedIn(c.borrowed, f)) <= own[f]
Less(own, f) == [own EXCEPT ![f] = own[f] - 1]
More(own, f) == [own EXCEPT ![f] = own[f] + 1]

\* A credit spent on a packet.
LEMMA BalanceSpent == ASSUME NEW c \in Credits0, NEW own \in [Fifo -> Nat], Balanced(c, own),
                             NEW f \in Fifo, c.credit[f] # 0, NEW d \in Credits0,
                             d.credit = [c.credit EXCEPT ![f] = c.credit[f] - 1], d.borrowed = c.borrowed
  PROVE  Balanced(d, More(own, f))
<1> SUFFICES ASSUME NEW x \in Fifo
             PROVE  /\ d.credit[x] \in 0..Init_credit[x]
                    /\ d.credit[x] + More(own, f)[x] + Cardinality(LentIn(c.borrowed, x))
                         = Init_credit[x] + Cardinality(OwedIn(c.borrowed, x))
                    /\ Cardinality(OwedIn(c.borrowed, x)) <= More(own, f)[x]
  BY DEF Balanced
<1>1. /\ c.credit[x] \in 0..Init_credit[x] /\ Init_credit[x] \in Nat /\ own[x] \in Nat
      /\ c.credit[x] + own[x] + Cardinality(LentIn(c.borrowed, x))
           = Init_credit[x] + Cardinality(OwedIn(c.borrowed, x))
      /\ Cardinality(OwedIn(c.borrowed, x)) <= own[x]
  BY FwsConsts DEF Balanced
<1>2. Cardinality(LentIn(c.borrowed, x)) \in Nat /\ Cardinality(OwedIn(c.borrowed, x)) \in Nat
  BY SumTypes DEF Balanced
<1>3. /\ d.credit[x] = IF x = f THEN c.credit[x] - 1 ELSE c.credit[x]
      /\ More(own, f)[x] = IF x = f THEN own[x] + 1 ELSE own[x]
  BY DEF More, Credits0
<1>4. QED
  BY <1>1, <1>2, <1>3

\* A credit lent, and spent at once.
LEMMA BalanceLent == ASSUME NEW c \in Credits0, NEW own \in [Fifo -> Nat], Balanced(c, own),
                            NEW f \in Fifo, NEW l \in Fifo, l < f, c.credit[l] > 0, NEW d \in Credits0,
                            d.credit = [c.credit EXCEPT ![l] = c.credit[l] - 1],
                            OneMore(c.borrowed, d.borrowed, f, l)
  PROVE  Balanced(d, More(own, f))
<1>0. /\ Finite(c.borrowed) /\ Finite(d.borrowed) /\ Sums(c.borrowed, d.borrowed, f, l)
      /\ c.borrowed \in [Fifo -> [Fifo -> Nat]]
  BY LoanSums DEF Balanced, Credits0
<1>1. \A g, k \in Fifo : d.borrowed[g][k] > 0 => k < g
  BY <1>0 DEF OneMore, Balanced
<1> SUFFICES ASSUME NEW x \in Fifo
             PROVE  /\ d.credit[x] \in 0..Init_credit[x]
                    /\ d.credit[x] + More(own, f)[x] + Cardinality(LentIn(d.borrowed, x))
                         = Init_credit[x] + Cardinality(OwedIn(d.borrowed, x))
                    /\ Cardinality(OwedIn(d.borrowed, x)) <= More(own, f)[x]
  BY <1>0, <1>1 DEF Balanced
<1>2. /\ c.credit[x] \in 0..Init_credit[x] /\ Init_credit[x] \in Nat /\ own[x] \in Nat
      /\ c.credit[x] + own[x] + Cardinality(LentIn(c.borrowed, x))
           = Init_credit[x] + Cardinality(OwedIn(c.borrowed, x))
      /\ Cardinality(OwedIn(c.borrowed, x)) <= own[x]
  BY FwsConsts DEF Balanced
<1>3. Cardinality(LentIn(c.borrowed, x)) \in Nat /\ Cardinality(OwedIn(c.borrowed, x)) \in Nat
  BY <1>0, SumTypes
<1>4. /\ Cardinality(LentIn(d.borrowed, x)) = Cardinality(LentIn(c.borrowed, x)) + (IF x = l THEN 1 ELSE 0)
      /\ Cardinality(OwedIn(d.borrowed, x)) = Cardinality(OwedIn(c.borrowed, x)) + (IF x = f THEN 1 ELSE 0)
  BY <1>0 DEF Sums
<1>5. /\ d.credit[x] = IF x = l THEN c.credit[x] - 1 ELSE c.credit[x]
      /\ More(own, f)[x] = IF x = f THEN own[x] + 1 ELSE own[x]
  BY DEF More, Credits0
<1>6. f \in Nat /\ l \in Nat
  BY FwsConsts
<1>7. QED
  BY <1>2, <1>3, <1>4, <1>5, <1>6

\* A credit given back.
LEMMA BalanceReturned == ASSUME NEW c \in Credits0, NEW own \in [Fifo -> Nat], Balanced(c, own),
                                NEW f \in Fifo, own[f] > 0, NEW d, d = Returned(c, f)
  PROVE  Balanced(d, Less(own, f))
<1>0. /\ d \in Credits0 /\ c.borrowed \in [Fifo -> [Fifo -> Nat]] /\ d.borrowed \in [Fifo -> [Fifo -> Nat]]
      /\ (\E l \in Fifo : PaysBack(c, d, f, l)) \/ Keeps(c, d, f)
  BY ReturnedIs DEF Credits0
<1>1. ASSUME NEW x \in Fifo
      PROVE  /\ c.credit[x] \in 0..Init_credit[x] /\ Init_credit[x] \in Nat /\ own[x] \in Nat
             /\ c.credit[x] + own[x] + Cardinality(LentIn(c.borrowed, x))
                  = Init_credit[x] + Cardinality(OwedIn(c.borrowed, x))
             /\ Cardinality(OwedIn(c.borrowed, x)) <= own[x]
             /\ Cardinality(LentIn(c.borrowed, x)) \in Nat /\ Cardinality(OwedIn(c.borrowed, x)) \in Nat
             /\ Less(own, f)[x] = IF x = f THEN own[x] - 1 ELSE own[x]
  BY FwsConsts, SumTypes DEF Balanced, Less
<1>2. ASSUME NEW l \in Fifo, PaysBack(c, d, f, l) PROVE Balanced(d, Less(own, f))
  <2>1. c.borrowed[f][l] > 0 /\ l < f /\ f \in Nat /\ l \in Nat
    BY <1>2, FwsConsts DEF PaysBack, OwedBy, Balanced
  <2>2. OneMore(d.borrowed, c.borrowed, f, l)
    <3>1. \A g, k \in Fifo : d.borrowed[g][k] = IF g = f /\ k = l THEN c.borrowed[g][k] - 1 ELSE c.borrowed[g][k]
      BY <1>0, <1>2 DEF PaysBack
    <3>2. \A g, k \in Fifo : c.borrowed[g][k] \in Nat
      BY <1>0
    <3>3. QED
      BY <1>0, <3>1, <3>2 DEF OneMore
  <2>3. Finite(d.borrowed) /\ Sums(d.borrowed, c.borrowed, f, l)
    BY <1>0, <2>2, LoanSums DEF Balanced
  <2>4. \A g, k \in Fifo : d.borrowed[g][k] > 0 => k < g
    <3>1. \A g, k \in Fifo : d.borrowed[g][k] \in Nat
      BY <1>0
    <3>2. \A g, k \in Fifo : d.borrowed[g][k] > 0 => c.borrowed[g][k] > 0
      BY <2>2, <3>1 DEF OneMore
    <3>3. QED
      BY <3>2 DEF Balanced
  <2>5. ASSUME NEW x \in Fifo
        PROVE  /\ d.credit[x] \in 0..Init_credit[x]
               /\ d.credit[x] + Less(own, f)[x] + Cardinality(LentIn(d.borrowed, x))
                    = Init_credit[x] + Cardinality(OwedIn(d.borrowed, x))
               /\ Cardinality(OwedIn(d.borrowed, x)) <= Less(own, f)[x]
    <3>1. /\ Cardinality(LentIn(c.borrowed, x)) = Cardinality(LentIn(d.borrowed, x)) + (IF x = l THEN 1 ELSE 0)
          /\ Cardinality(OwedIn(c.borrowed, x)) = Cardinality(OwedIn(d.borrowed, x)) + (IF x = f THEN 1 ELSE 0)
          /\ Cardinality(LentIn(d.borrowed, x)) \in Nat /\ Cardinality(OwedIn(d.borrowed, x)) \in Nat
      BY <2>3, SumTypes DEF Sums
    <3>2. d.credit[x] = IF x = l THEN c.credit[x] + 1 ELSE c.credit[x]
      BY <1>2 DEF PaysBack, Credits0
    <3>3. QED
      BY <1>1, <2>1, <3>1, <3>2
  <2>6. QED
    BY <2>3, <2>4, <2>5 DEF Balanced
<1>3. ASSUME Keeps(c, d, f) PROVE Balanced(d, Less(own, f))
  <2>1. d.borrowed = c.borrowed
    BY <1>3 DEF Keeps
  <2>2. OwedIn(c.borrowed, f) = {}
    <3>1. \A l \in Fifo : c.borrowed[f][l] \in Nat /\ l >= 0
      <4>1. \A l \in Fifo : l >= 0
        BY FwsConsts
      <4>2. QED
        BY <1>0, <4>1
    <3>2. \A l \in Fifo : c.borrowed[f][l] = 0
      <4>1. CASE OwedBy(c, f) = {}
        BY <3>1, <4>1 DEF OwedBy
      <4>2. CASE f = 0
        BY <3>1, <4>2 DEF Balanced
      <4>3. QED
        BY <1>3, <4>1, <4>2 DEF Keeps
    <3>3. \A l \in Fifo : {l} \X (1..c.borrowed[f][l]) = {}
      BY <3>2
    <3>4. QED
      BY <3>3 DEF OwedIn
  <2>3. Cardinality(OwedIn(c.borrowed, f)) = 0
    BY <2>2, FS_EmptySet
  <2>4. c.credit[f] + 1 \in 0..Init_credit[f]
    BY <1>1, <2>3
  <2>5. Min({c.credit[f] + 1, Init_credit[f]}) = c.credit[f] + 1
    <3>1. Init_credit[f] \in Nat /\ c.credit[f] + 1 \in Nat /\ c.credit[f] + 1 <= Init_credit[f]
      BY <1>1, <2>4
    <3>2. {c.credit[f] + 1, Init_credit[f]} \in SUBSET Nat
      BY <3>1
    <3>3. QED
      BY <3>1, <3>2, MinIn
  <2>6. ASSUME NEW x \in Fifo
        PROVE  /\ d.credit[x] \in 0..Init_credit[x]
               /\ d.credit[x] + Less(own, f)[x] + Cardinality(LentIn(c.borrowed, x))
                    = Init_credit[x] + Cardinality(OwedIn(c.borrowed, x))
               /\ Cardinality(OwedIn(c.borrowed, x)) <= Less(own, f)[x]
    <3>1. d.credit[x] = IF x = f THEN c.credit[x] + 1 ELSE c.credit[x]
      BY <1>3, <2>5 DEF Keeps, Credits0
    <3>2. QED
      BY <1>1, <2>3, <2>4, <3>1
  <2>7. QED
    BY <2>1, <2>6 DEF Balanced
<1>4. QED
  BY <1>0, <1>2, <1>3

-----------------------------------------------------------------------------
(* The loans over the steps.                                                 *)
Own == [f \in Fifo |-> Cardinality(In(f))]
OwnNext == [f \in Fifo |-> Cardinality(NowFor(f))]

LEMMA LoansAre == Loans <=> Balanced(Cred, Own)
<1>1. \A f : Lent(f) = LentIn(borrowed, f) /\ Owed(f) = OwedIn(borrowed, f)
  BY DEF Lent, Owed, LentIn, OwedIn
<1>2. Cred.credit = credit /\ Cred.borrowed = borrowed
  BY DEF Cred
<1>3. \A f \in Fifo : Own[f] = Cardinality({s \in InFlight : pkt[s].f = f})
  BY DEF Own, In
<1>4. CreditsKept <=> \A f \in Fifo :
        /\ credit[f] \in 0..Init_credit[f]
        /\ credit[f] + Own[f] + Cardinality(LentIn(borrowed, f))
             = Init_credit[f] + Cardinality(OwedIn(borrowed, f))
        /\ Cardinality(OwedIn(borrowed, f)) <= Own[f]
  BY <1>1, <1>3 DEF CreditsKept
<1> HIDE DEF Own
<1>5. (\A f \in Fifo : /\ IsFiniteSet(Lent(f)) /\ IsFiniteSet(Owed(f))) <=> Finite(borrowed)
  BY <1>1 DEF Finite
<1>6. Loans <=> /\ \A f, l \in Fifo : borrowed[f][l] > 0 => l < f
                /\ Finite(borrowed) /\ CreditsKept
  BY <1>5 DEF Loans
<1>7. QED
  BY <1>2, <1>4, <1>6 DEF Balanced

LEMMA LoansNext == ASSUME NEW d, d.credit = credit', d.borrowed = borrowed', Balanced(d, OwnNext)
  PROVE  Loans'
<1>1. /\ \A f : Lent(f)' = LentIn(borrowed', f)
      /\ \A f : Owed(f)' = OwedIn(borrowed', f)
  BY DEF Lent, Owed, LentIn, OwedIn
<1>3. \A f \in Fifo : OwnNext[f] = Cardinality({s \in InFlight' : pkt'[s].f = f})
  BY DEF OwnNext, NowFor
<1>4. CreditsKept' <=> \A f \in Fifo :
        /\ credit'[f] \in 0..Init_credit[f]
        /\ credit'[f] + OwnNext[f] + Cardinality(LentIn(borrowed', f))
             = Init_credit[f] + Cardinality(OwedIn(borrowed', f))
        /\ Cardinality(OwedIn(borrowed', f)) <= OwnNext[f]
  BY <1>1, <1>3 DEF CreditsKept
<1> HIDE DEF OwnNext
<1>5. (\A f \in Fifo : /\ IsFiniteSet(Lent(f)) /\ IsFiniteSet(Owed(f)))' <=> Finite(borrowed')
  BY <1>1 DEF Finite
<1>6. Loans' <=> /\ \A f, l \in Fifo : borrowed'[f][l] > 0 => l < f
                 /\ Finite(borrowed') /\ CreditsKept'
  BY <1>5 DEF Loans
<1>7. /\ Finite(borrowed') /\ \A f, l \in Fifo : borrowed'[f][l] > 0 => l < f
      /\ \A f \in Fifo :
        /\ credit'[f] \in 0..Init_credit[f]
        /\ credit'[f] + OwnNext[f] + Cardinality(LentIn(borrowed', f))
             = Init_credit[f] + Cardinality(OwedIn(borrowed', f))
        /\ Cardinality(OwedIn(borrowed', f)) <= OwnNext[f]
  BY DEF Balanced
<1>8. QED
  BY <1>4, <1>6, <1>7

LEMMA OwnIs == ASSUME Core PROVE Own \in [Fifo -> Nat]
  BY FlightCounts DEF Own

LEMMA OwnStill == ASSUME Core, Still PROVE OwnNext = Own
<1>1. \A f \in Fifo : NowFor(f) = In(f)
  BY StillCounts
<1>2. QED
  BY <1>1 DEF Own, OwnNext

LEMMA OwnJoins == ASSUME Core, NEW s, Joins(s), NEW f \in Fifo, pkt[s].f = f PROVE OwnNext = More(Own, f)
<1>1. ASSUME NEW x \in Fifo
      PROVE  Cardinality(NowFor(x)) = Cardinality(In(x)) + (IF f = x THEN 1 ELSE 0) /\ Cardinality(In(x)) \in Nat
  BY JoinsCounts, FlightCounts
<1>2. \A x \in Fifo : Cardinality(NowFor(x)) = (IF x = f THEN Cardinality(In(x)) + 1 ELSE Cardinality(In(x)))
  BY <1>1
<1>3. QED
  BY <1>2 DEF Own, OwnNext, More

LEMMA OwnLeaves == ASSUME Core, NEW s, Leaves(s)
  PROVE  pkt[s].f \in Fifo /\ Own[pkt[s].f] > 0 /\ OwnNext = Less(Own, pkt[s].f)
<1> DEFINE f == pkt[s].f
<1>0. f \in Fifo
  BY FlightPkt DEF Leaves
<1>1. ASSUME NEW x \in Fifo
      PROVE  /\ Cardinality(NowFor(x)) = Cardinality(In(x)) - (IF f = x THEN 1 ELSE 0)
             /\ Cardinality(In(x)) \in Nat
             /\ f = x => Cardinality(In(x)) > 0
  BY LeavesCounts, FlightCounts
<1> HIDE DEF f
<1>2. \A x \in Fifo : Cardinality(NowFor(x)) = (IF x = f THEN Cardinality(In(x)) - 1 ELSE Cardinality(In(x)))
  BY <1>1
<1>3. Own[f] > 0
  BY <1>0, <1>1 DEF Own
<1>4. OwnNext = Less(Own, f)
  BY <1>0, <1>2 DEF Own, OwnNext, Less
<1>5. QED
  BY <1>0, <1>3, <1>4 DEF f

LEMMA LoansStill == ASSUME Core, Loans, Still, credit' = credit, borrowed' = borrowed PROVE Loans'
<1>1. Balanced(Cred, OwnNext) /\ Cred.credit = credit' /\ Cred.borrowed = borrowed'
  BY LoansAre, OwnStill DEF Cred
<1>2. QED
  BY <1>1, LoansNext

LEMMA LoansReturned == ASSUME Core, Loans, NEW s, Leaves(s), SetCred(Returned(Cred, pkt[s].f))
  PROVE  Loans'
<1>1. pkt[s].f \in Fifo /\ Own[pkt[s].f] > 0 /\ OwnNext = Less(Own, pkt[s].f)
  BY OwnLeaves
<1>2. PICK d : d = Returned(Cred, pkt[s].f)
  OBVIOUS
<1>3. Balanced(d, OwnNext)
  BY <1>1, <1>2, CredIs, OwnIs, LoansAre, BalanceReturned DEF Core
<1>4. d.credit = credit' /\ d.borrowed = borrowed'
  BY <1>2 DEF SetCred
<1>5. QED
  BY <1>3, <1>4, LoansNext

LEMMA LoansSpent == ASSUME Core, Loans, NEW s, Joins(s), NEW f \in Fifo, pkt[s].f = f, credit[f] # 0,
                           credit' = [credit EXCEPT ![f] = @ - 1], borrowed' = borrowed
  PROVE  Loans'
<1> DEFINE d == [credit |-> credit', borrowed |-> borrowed', map |-> creditMap]
<1>1. Cred \in Credits0 /\ Cred.credit = credit /\ Cred.borrowed = borrowed
  BY CredIs DEF Core, Cred
<1>2. d \in Credits0 /\ d.credit = [Cred.credit EXCEPT ![f] = Cred.credit[f] - 1] /\ d.borrowed = Cred.borrowed
      /\ d.credit = credit' /\ d.borrowed = borrowed'
  BY <1>1 DEF Credits0, Cred
<1> HIDE DEF d
<1>3. Cred.credit[f] # 0 /\ Balanced(Cred, Own) /\ Own \in [Fifo -> Nat]
  BY <1>1, LoansAre, OwnIs
<1>4. Balanced(d, OwnNext)
  <2>1. OwnNext = More(Own, f)
    BY OwnJoins
  <2>2. Balanced(d, More(Own, f))
    BY ONLY <1>1, <1>2, <1>3, f \in Fifo, BalanceSpent
  <2>3. QED
    BY <2>1, <2>2
<1>5. QED
  BY <1>2, <1>4, LoansNext

\* A loan, as one credit spent by the fifo that borrows.
LEMMA LoanMade == ASSUME Core, Loans, NEW f \in Fifo, CanLend(f) # {}, NEW d, d = Borrowed(f)
  PROVE  d \in Credits0 /\ Balanced(d, More(Own, f))
<1>1. PICK l \in Fifo :
        /\ l < f /\ credit[l] > 0 /\ d \in Credits0
        /\ d.credit = [credit EXCEPT ![l] = credit[l] - 1]
        /\ d.borrowed = [borrowed EXCEPT ![f] = [borrowed[f] EXCEPT ![l] = borrowed[f][l] + 1]]
  BY BorrowedIs DEF Core
<1>2. Cred \in Credits0 /\ Cred.credit = credit /\ Cred.borrowed = borrowed
  BY CredIs DEF Core, Cred
<1>3. OneMore(Cred.borrowed, d.borrowed, f, l)
  <2>1. borrowed \in [Fifo -> [Fifo -> Nat]] /\ d.borrowed \in [Fifo -> [Fifo -> Nat]]
    BY <1>1 DEF Core, Types, Credits0
  <2>2. QED
    BY <1>1, <1>2, <2>1 DEF OneMore
<1>4. Balanced(Cred, Own) /\ Own \in [Fifo -> Nat]
  BY LoansAre, OwnIs
<1>5. QED
  BY <1>1, <1>2, <1>3, <1>4, BalanceLent

LEMMA LoansBorrowed == ASSUME Core, Loans, NEW s, Joins(s), NEW f \in Fifo, pkt[s].f = f,
                              CanLend(f) # {}, SetCred(Borrowed(f))
  PROVE  Loans'
<1>1. PICK d : d = Borrowed(f)
  OBVIOUS
<1>2. Balanced(d, OwnNext)
  BY <1>1, LoanMade, OwnJoins
<1>3. d.credit = credit' /\ d.borrowed = borrowed'
  BY <1>1 DEF SetCred
<1>4. QED
  BY <1>2, <1>3, LoansNext

LEMMA LoansBack == ASSUME Core, Loans, Still, NEW f \in Fifo, CanLend(f) # {},
                          SetCred(Returned(Borrowed(f), f))
  PROVE  Loans'
<1>1. PICK b : b = Borrowed(f)
  OBVIOUS
<1>2. PICK d : d = Returned(b, f)
  OBVIOUS
<1>3. b \in Credits0 /\ Balanced(b, More(Own, f)) /\ Own \in [Fifo -> Nat]
  BY <1>1, LoanMade, OwnIs
<1>4. /\ More(Own, f) \in [Fifo -> Nat] /\ More(Own, f)[f] > 0 /\ Less(More(Own, f), f) = Own
  <2>1. Own[f] \in Nat /\ Own[f] + 1 \in Nat /\ (Own[f] + 1) - 1 = Own[f] /\ Own[f] + 1 > 0
    BY <1>3
  <2>2. More(Own, f) \in [Fifo -> Nat] /\ More(Own, f)[f] = Own[f] + 1
    BY <1>3, <2>1 DEF More
  <2>3. \A x \in Fifo : x # f => More(Own, f)[x] = Own[x]
    BY <1>3 DEF More
  <2>4. Less(More(Own, f), f) = [More(Own, f) EXCEPT ![f] = Own[f]]
    BY <2>1, <2>2 DEF Less
  <2>5. Less(More(Own, f), f) = Own
    BY <1>3, <2>2, <2>3, <2>4
  <2>6. QED
    BY <2>1, <2>2, <2>5
<1>5. Balanced(d, OwnNext)
  BY <1>2, <1>3, <1>4, BalanceReturned, OwnStill
<1>6. d.credit = credit' /\ d.borrowed = borrowed'
  BY <1>1, <1>2 DEF SetCred
<1>7. QED
  BY <1>5, <1>6, LoansNext

\* The slots, the counters and the credits.
FwsInv == Core /\ Transit /\ Loans

LEMMA AlikeStill == ASSUME Core, Transit, Still, used'.refuse = used.refuse,
                           \/ ent' = ent \/ \E seen : ent' = Recovered(seen)
                           \/ \E e \in Entry, o \in BOOLEAN, p \in BOOLEAN, r \in Nat :
                                ent' = [ent EXCEPT ![e].occupied = o, ![e].open = p, ![e].request = r]
  PROVE  Transit'
<1>1. ent \in [Entry -> Descriptors] /\ \A x \in Entry : ent[x] \in Descriptors
  BY DEF Core, Types
<1> SUFFICES ASSUME NEW x \in Entry
             PROVE  /\ ent'[x].transit = ent[x].transit
                    /\ ent'[x].supprTransit = ent[x].supprTransit
                    /\ ent'[x].suppressed => ent[x].suppressed
  BY TransitStill
<1>2. CASE ent' = ent
  BY <1>2
<1>3. CASE \E seen : ent' = Recovered(seen)
  <2>1. PICK seen : ent' = Recovered(seen)
    BY <1>3
  <2>2. ent'[x] = ent[x] \/ ent'[x] = [ent[x] EXCEPT !.suppressed = FALSE]
    BY <2>1 DEF Recovered
  <2>3. QED
    BY <1>1, <2>2 DEF Descriptors
<1>4. ASSUME NEW e \in Entry, NEW o \in BOOLEAN, NEW p \in BOOLEAN, NEW r \in Nat,
             ent' = [ent EXCEPT ![e].occupied = o, ![e].open = p, ![e].request = r]
      PROVE  /\ ent'[x].transit = ent[x].transit
             /\ ent'[x].supprTransit = ent[x].supprTransit
             /\ ent'[x].suppressed => ent[x].suppressed
  <2>1. CASE x = e
    <3>1. ent'[x] = [ent[x] EXCEPT !.occupied = o, !.open = p, !.request = r]
      BY <1>1, <1>4, <2>1 DEF Descriptors
    <3>2. QED
      BY <1>1, <3>1 DEF Descriptors
  <2>2. CASE x # e
    <3>1. ent'[x] = ent[x]
      BY <1>1, <1>4, <2>2
    <3>2. QED
      BY <3>1
  <2>3. QED
    BY <2>1, <2>2
<1>5. QED
  BY <1>2, <1>3, <1>4

LEMMA UsedIs == ASSUME Core
  PROVE  /\ used.refuse \in Nat
         /\ [used EXCEPT !.pkt = @ + 1].refuse = used.refuse
         /\ [used EXCEPT !.sleep = @ + 1].refuse = used.refuse
         /\ [used EXCEPT !.other = @ + 1].refuse = used.refuse
         /\ [used EXCEPT !.refuse = @ + 1].refuse = used.refuse + 1
<1>1. used \in [pkt : Nat, sleep : Nat, refuse : Nat, other : Nat]
  BY DEF Core, Types
<1>2. QED
  BY <1>1

-----------------------------------------------------------------------------
(* Each step keeps the packets, their counters and the loans.                *)
LEMMA ProcessSkbInv == ASSUME FwsInv, NEW e \in Entry, NEW f \in Fifo, ProcessSkb(e, f) PROVE FwsInv'
<1>1. Core' /\ Still
  BY ProcessSkbCore DEF FwsInv
<1>2. Transit'
  BY <1>1, AlikeStill, UsedIs DEF FwsInv, ProcessSkb
<1>3. Loans'
  BY <1>1, LoansStill DEF FwsInv, ProcessSkb, credVars
<1>4. QED
  BY <1>1, <1>2, <1>3 DEF FwsInv

LEMMA WorkerInv == ASSUME FwsInv, WorkBegin \/ WorkOwnDone \/ WorkSent PROVE FwsInv'
<1>1. Core' /\ Still
  BY WorkBeginCore, WorkOwnDoneCore, WorkSentCore DEF FwsInv
<1>2. Transit'
  <2>1. used' = used /\ (ent' = ent \/ \E seen : ent' = Recovered(seen))
    BY DEF WorkBegin, WorkOwnDone, WorkSent
  <2>2. QED
    BY <1>1, <2>1, AlikeStill DEF FwsInv
<1>3. Loans'
  BY <1>1, LoansStill DEF FwsInv, WorkBegin, WorkOwnDone, WorkSent, credVars
<1>4. QED
  BY <1>1, <1>2, <1>3 DEF FwsInv

LEMMA WorkBorrowDoneInv == ASSUME FwsInv, WorkBorrowDone PROVE FwsInv'
<1>1. Core' /\ Still /\ wk.fifo \in Fifo
  BY WorkBorrowDoneCore DEF FwsInv, Core, Types
<1>2. Transit'
  <2>1. used' = used /\ (ent' = ent \/ \E seen : ent' = Recovered(seen))
    BY DEF WorkBorrowDone
  <2>2. QED
    BY <1>1, <2>1, AlikeStill DEF FwsInv
<1>3. Loans'
  <2>1. CASE CanLend(wk.fifo) = {}
    BY <1>1, <2>1, LoansStill DEF FwsInv, WorkBorrowDone
  <2>2. CASE CanLend(wk.fifo) # {}
    BY <1>1, <2>2, LoansBack DEF FwsInv, WorkBorrowDone
  <2>3. QED
    BY <2>1, <2>2
<1>4. QED
  BY <1>1, <1>2, <1>3 DEF FwsInv

LEMMA WorkOwnInv == ASSUME FwsInv, WorkOwn PROVE FwsInv'
<1>1. PICK e \in Ready(wk.fifo), seen \in SUBSET Vain(wk.fifo), s \in Slot :
        /\ Deq(e, wk.fifo, seen) /\ Core' /\ Joins(s) /\ pkt[s].e = e /\ pkt[s].f = wk.fifo
  BY WorkOwnCore DEF FwsInv
<1>2. wk.fifo \in Fifo
  BY DEF FwsInv, Core, Types
<1>3. Transit'
  BY <1>1, <1>2, TransitDeq DEF FwsInv, WorkOwn
<1>4. Loans'
  <2>1. credit[wk.fifo] # 0 /\ credit' = [credit EXCEPT ![wk.fifo] = @ - 1] /\ borrowed' = borrowed
    BY DEF WorkOwn
  <2>2. QED
    BY <1>1, <1>2, <2>1, LoansSpent DEF FwsInv
<1>5. QED
  BY <1>1, <1>3, <1>4 DEF FwsInv

LEMMA WorkBorrowInv == ASSUME FwsInv, WorkBorrow PROVE FwsInv'
<1>1. PICK e \in Ready(wk.fifo), seen \in SUBSET Vain(wk.fifo), s \in Slot :
        /\ Deq(e, wk.fifo, seen) /\ Core' /\ Joins(s) /\ pkt[s].e = e /\ pkt[s].f = wk.fifo
  BY WorkBorrowCore DEF FwsInv
<1>2. wk.fifo \in Fifo
  BY DEF FwsInv, Core, Types
<1>3. Transit'
  BY <1>1, <1>2, TransitDeq DEF FwsInv, WorkBorrow
<1>4. Loans'
  BY <1>1, <1>2, LoansBorrowed DEF FwsInv, WorkBorrow
<1>5. QED
  BY <1>1, <1>3, <1>4 DEF FwsInv

LEMMA WorkRefusedInv == ASSUME FwsInv, WorkRefused PROVE FwsInv'
<1>1. Core' /\ Leaves(wk.slot)
  BY WorkRefusedCore DEF FwsInv
<1>2. Transit'
  BY <1>1, TransitRefused DEF FwsInv
<1>3. Loans'
  BY <1>1, RefusedIs, LoansReturned DEF FwsInv
<1>4. QED
  BY <1>1, <1>2, <1>3 DEF FwsInv

LEMMA BusBlockInv == ASSUME FwsInv, BusBlock \/ BusUnblock PROVE FwsInv'
<1>1. Core' /\ Still
  BY BusBlockCore DEF FwsInv
<1>2. Transit'
  <2>1. ent' = ent /\ used'.refuse = used.refuse
    BY UsedIs DEF BusBlock, BusUnblock, FwsInv
  <2>2. QED
    BY <1>1, <2>1, AlikeStill DEF FwsInv
<1>3. Loans'
  BY <1>1, LoansStill DEF FwsInv, BusBlock, BusUnblock, credVars
<1>4. QED
  BY <1>1, <1>2, <1>3 DEF FwsInv

LEMMA BusFailedInv == ASSUME FwsInv, BusFailed PROVE FwsInv'
<1>1. Core' /\ Leaves(Head(bus))
  BY BusFailedCore DEF FwsInv
<1>2. /\ ent' = ReqBack(Out(ent, Head(bus)), Head(bus))
      /\ SetCred(Returned(Cred, pkt[Head(bus)].f)) /\ used'.refuse = used.refuse
  BY UsedIs DEF BusFailed, FwsInv
<1>3. Transit' /\ Loans'
  BY <1>1, <1>2, TransitOut, LoansReturned DEF FwsInv
<1>4. QED
  BY <1>1, <1>3 DEF FwsInv

LEMMA FwTakesInv == ASSUME FwsInv, FwTakes PROVE FwsInv'
<1>1. Core' /\ Still
  BY FwTakesCore DEF FwsInv
<1>2. ent' = ent /\ used' = used /\ credit' = credit /\ borrowed' = borrowed
  BY DEF FwTakes, credVars
<1>3. Transit' /\ Loans'
  BY <1>1, <1>2, AlikeStill, LoansStill DEF FwsInv
<1>4. QED
  BY <1>1, <1>3 DEF FwsInv

LEMMA StatusSentInv == ASSUME FwsInv, StatusSent PROVE FwsInv'
<1>1. Core' /\ Leaves(Head(sig).s)
  BY StatusSentCore DEF FwsInv
<1>2. /\ ent' = ReqBack(Out(ent, Head(sig).s), Head(sig).s)
      /\ SetCred(Returned(Cred, pkt[Head(sig).s].f)) /\ used' = used
  BY DEF StatusSent
<1>3. Transit' /\ Loans'
  BY <1>1, <1>2, TransitOut, LoansReturned DEF FwsInv
<1>4. QED
  BY <1>1, <1>3 DEF FwsInv

LEMMA StatusSuppressedInv == ASSUME FwsInv, StatusSuppressed PROVE FwsInv'
<1>1. Core' /\ Leaves(Head(sig).s)
  BY StatusSuppressedCore DEF FwsInv
<1>2. SetCred(Returned(Cred, pkt[Head(sig).s].f))
  BY SuppressedIs
<1>3. Transit' /\ Loans'
  BY <1>1, <1>2, TransitSuppressed, LoansReturned DEF FwsInv
<1>4. QED
  BY <1>1, <1>3 DEF FwsInv

LEMMA MacEnt == ASSUME Core, NEW m \in {"open", "close"}, MacState(m) \/ MacRequest \/ MacDel
  PROVE  \/ ent' = ent
         \/ \E e \in Entry, o \in BOOLEAN, p \in BOOLEAN, r \in Nat :
              ent' = [ent EXCEPT ![e].occupied = o, ![e].open = p, ![e].request = r]
<1> DEFINE e == Head(sig).e
<1>1. e \in Entry
  <2>1. sig \in Seq(Signals) /\ sig # <<>>
    BY DEF Core, Types, MacState, MacRequest, MacDel, Got
  <2>2. Head(sig) \in Signals
    BY <2>1
  <2>3. QED
    BY <2>2 DEF Signals
<1>2. ent \in [Entry -> Descriptors]
  BY DEF Core, Types
<1> HIDE DEF e
<1>3. ent[e] \in Descriptors
  BY <1>1, <1>2
<1>4. CASE ent' = ent
  BY <1>4
<1>5. CASE ent' = [ent EXCEPT ![e].open = (m = "open"), ![e].request = 0]
  <2>1. ent' = [ent EXCEPT ![e].occupied = ent[e].occupied, ![e].open = (m = "open"), ![e].request = 0]
    BY <1>1, <1>2, <1>3, <1>5 DEF Descriptors
  <2>2. ent[e].occupied \in BOOLEAN /\ (m = "open") \in BOOLEAN
    BY <1>3 DEF Descriptors
  <2>3. QED
    BY <1>1, <2>1, <2>2
<1>6. CASE ent' = [ent EXCEPT ![e].request = 1]
  <2>1. ent' = [ent EXCEPT ![e].occupied = ent[e].occupied, ![e].open = ent[e].open, ![e].request = 1]
    BY <1>1, <1>2, <1>3, <1>6 DEF Descriptors
  <2>2. ent[e].occupied \in BOOLEAN /\ ent[e].open \in BOOLEAN
    BY <1>3 DEF Descriptors
  <2>3. QED
    BY <1>1, <2>1, <2>2
<1>7. CASE ent' = [ent EXCEPT ![e].occupied = FALSE, ![e].open = FALSE, ![e].request = 0]
  BY <1>1, <1>7
<1>8. QED
  BY <1>4, <1>5, <1>6, <1>7 DEF MacState, MacRequest, MacDel, e

LEMMA MacInv == ASSUME FwsInv, NEW m \in {"open", "close"}, MacState(m) \/ MacRequest \/ MacDel
  PROVE  FwsInv'
<1>1. Core' /\ Still
  BY MacCore, MacDelCore DEF FwsInv
<1>2. used' = used /\ credit' = credit /\ borrowed' = borrowed
  BY DEF MacState, MacRequest, MacDel, credVars
<1>3. Transit'
  BY <1>1, <1>2, MacEnt, AlikeStill DEF FwsInv
<1>4. Loans'
  BY <1>1, <1>2, LoansStill DEF FwsInv
<1>5. QED
  BY <1>1, <1>3, <1>4 DEF FwsInv

LEMMA FwInv == ASSUME FwsInv, NEW e \in Entry, FwStep(e) PROVE FwsInv'
<1>1. Core' /\ Still
  BY FwCore DEF FwsInv
<1>2. ent' = ent /\ used'.refuse = used.refuse /\ credit' = credit /\ borrowed' = borrowed
  <2>1. UNCHANGED Rest /\ used'.refuse = used.refuse
    BY UsedIs DEF FwStep, FwSleep, FwWake, FwRequest, FwDel, FwsInv, Rest
  <2>2. QED
    BY <2>1 DEF Rest, credVars
<1>3. Transit' /\ Loans'
  BY <1>1, <1>2, AlikeStill, LoansStill DEF FwsInv
<1>4. QED
  BY <1>1, <1>3 DEF FwsInv

LEMMA FwsInvStep == ASSUME FwsInv, [FwsNext]_fwsVars PROVE FwsInv'
<1>1. CASE UNCHANGED fwsVars
  <2>1. /\ UNCHANGED <<hanger, pkt, delayq, supprq, enqpkt, delayMap, ent, pktSeq, orphan, credit, borrowed>>
        /\ UNCHANGED <<creditMap, stopped, busBlocked, deqQueued, wk, bus, fw, air, sig, used>>
    BY <1>1 DEF fwsVars, qVars, pktSeqVars, credVars, fwVars
  <2>2. Hand' = Hand /\ Quiet
    BY <2>1 DEF Hand, Quiet
  <2>3. Types'
    BY <2>1 DEF FwsInv, Core, Types
  <2>4. Core' /\ Still
    BY <2>1, <2>2, <2>3, FlightsStill, PlacesStill DEF FwsInv
  <2>5. Transit' /\ Loans'
    BY <2>1, <2>4, AlikeStill, LoansStill DEF FwsInv
  <2>6. QED
    BY <2>4, <2>5 DEF FwsInv
<1>2. CASE FwsNext
  <2>1. \/ \E e \in Entry, f \in Fifo : ProcessSkb(e, f)
        \/ WorkBegin \/ WorkOwnDone \/ WorkSent
        \/ WorkOwn \/ WorkBorrow \/ WorkBorrowDone \/ WorkRefused
        \/ BusBlock \/ BusUnblock \/ BusFailed \/ FwTakes \/ StatusSent \/ StatusSuppressed
        \/ MacState("open") \/ MacState("close") \/ MacRequest \/ MacDel
        \/ \E e \in Entry : FwStep(e)
    BY <1>2 DEF FwsNext, FwStep
  <2>2. QED
    BY <2>1, ProcessSkbInv, WorkerInv, WorkOwnInv, WorkBorrowInv, WorkBorrowDoneInv, WorkRefusedInv,
       BusBlockInv, BusFailedInv, FwTakesInv, StatusSentInv, StatusSuppressedInv, MacInv, FwInv
<1>3. QED
  BY <1>1, <1>2

-----------------------------------------------------------------------------
(* The slots and the credits.                                                *)
LEMMA FwsInvInit == ASSUME FwsInit PROVE FwsInv
<1>1. Hand = {} /\ ToSet(bus) = {} /\ ToldBy(sig) = {} /\ Once(bus) /\ ToldOnce(sig)
  BY DEF FwsInit, Hand, Idle, ToSet, ToldBy, Told, Once, ToldOnce
<1>2. InFlight = {} /\ Flights
  BY <1>1, InFlightIs DEF Flights
<1>3. /\ Empty \in Queues /\ \A e \in Entry, f \in Fifo : Empty[e][f] = <<>>
  BY DEF Empty, Queues
<1>4. \A e \in Entry, f \in Fifo : delayq[e][f] = <<>> /\ supprq[e][f] = <<>>
  BY <1>3 DEF FwsInit
<1>5. Filed(delayq, "inuse") /\ Filed(supprq, "suppressed")
  BY <1>4 DEF Filed, Once
<1>6. InQueue = {}
  <2>1. ToSet(<<>>) = {}
    BY DEF ToSet
  <2>2. InQueue = Members(delayq) \cup Members(supprq)
    BY <1>3, WaitingIs DEF InQueue, FwsInit
  <2>3. QED
    BY <1>4, <2>1, <2>2 DEF Members
<1>7. Places
  BY <1>2, <1>6 DEF Places, FwsInit
<1>8. Types
  <2>1. /\ hanger \in [Slot -> {"free", "inuse", "suppressed"}]
        /\ delayq \in Queues /\ supprq \in Queues
        /\ pktSeq \in [Entry -> [Fifo -> Nat]] /\ air \in [Entry -> [Fifo -> Nat]]
    BY <1>3 DEF FwsInit, Zero
  <2>2. pkt \in [Slot -> Packets] /\ ent \in [Entry -> Descriptors]
    <3>1. NoPkt \in Packets
      BY FwsConsts DEF NoPkt, Packets
    <3>2. [occupied |-> TRUE, open |-> TRUE, suppressed |-> FALSE,
           gen |-> 0, transit |-> 0, supprTransit |-> 0, request |-> 0] \in Descriptors
      BY DEF Descriptors
    <3>3. QED
      BY <3>1, <3>2 DEF FwsInit
  <2>3. /\ credit \in [Fifo -> Int] /\ borrowed \in [Fifo -> [Fifo -> Nat]]
        /\ creditMap \in SUBSET Fifo /\ delayMap \in SUBSET Fifo /\ enqpkt \in [Fifo -> Int]
        /\ stopped \in BOOLEAN /\ busBlocked \in BOOLEAN /\ deqQueued \in BOOLEAN
    <3>1. credit = Init_credit /\ Init_credit \in [Fifo -> Int]
      BY FwsConsts DEF FwsInit
    <3>2. borrowed \in [Fifo -> [Fifo -> Nat]] /\ enqpkt \in [Fifo -> Int]
      BY DEF FwsInit
    <3>3. /\ creditMap \in SUBSET Fifo /\ delayMap \in SUBSET Fifo
          /\ stopped \in BOOLEAN /\ busBlocked \in BOOLEAN /\ deqQueued \in BOOLEAN
      BY DEF FwsInit
    <3>4. QED
      BY <3>1, <3>2, <3>3
  <2>4. /\ wk \in [at : {"idle", "own", "borrow", "hand"}, fifo : Fifo, from : {"own", "borrow"},
                   slot : Nat]
        /\ wk.at = "hand" => wk.slot \in Slot
    BY FwsConsts DEF FwsInit, Idle
  <2>5. /\ bus \in Seq(Slot) /\ sig \in Seq(Signals) /\ orphan \in SUBSET Slot
        /\ fw \in [Entry -> [asleep : BOOLEAN, gone : BOOLEAN, gen : 0..1, ask : Nat]]
        /\ used \in [pkt : Nat, sleep : Nat, refuse : Nat, other : Nat]
    BY DEF FwsInit
  <2>6. QED
    BY <2>1, <2>2, <2>3, <2>4, <2>5 DEF Types
<1>9. Core
  BY <1>2, <1>5, <1>7, <1>8 DEF Core
<1>10. \A x : Of(x) = {} /\ In(x) = {}
  BY <1>2 DEF Of, In
<1>11. Transit
  <2>1. \A e \in Entry : ent[e].transit = 0 /\ ent[e].supprTransit = 0 /\ ent[e].suppressed = FALSE
    BY DEF FwsInit
  <2>2. \A e \in Entry : Cardinality(Of(e)) = 0
    BY <1>10, FS_EmptySet
  <2>3. QED
    BY <2>1, <2>2 DEF Transit
<1>12. Loans
  <2>1. \A f, l \in Fifo : borrowed[f][l] = 0
    BY DEF FwsInit
  <2>2. \A f \in Fifo : LentIn(borrowed, f) = {} /\ OwedIn(borrowed, f) = {}
    BY <2>1 DEF LentIn, OwedIn
  <2>3. Finite(borrowed) /\ Cardinality({}) = 0
    BY <2>2, FS_EmptySet DEF Finite
  <2>4. \A f \in Fifo : Own[f] = 0
    BY <1>10, <2>3 DEF Own
  <2>5. Cred.borrowed = borrowed /\ Cred.credit = Init_credit
    BY DEF Cred, FwsInit
  <2>6. \A f \in Fifo : Init_credit[f] \in Nat /\ Init_credit[f] \in 0..Init_credit[f]
    BY FwsConsts
  <2>7. Balanced(Cred, Own)
    BY SMTT(30), <2>1, <2>2, <2>3, <2>4, <2>5, <2>6 DEF Balanced
  <2>8. QED
    BY <2>7, LoansAre
<1>13. QED
  BY <1>9, <1>11, <1>12 DEF FwsInv

(* The queues, the hanger, the descriptors, the credits and the worker keep   *)
(* their shape, whatever the sizes, credits, destinations and faults.        *)
THEOREM FwsTypes == FwsSpec => []FwsTypeOK
<1>1. ASSUME FwsInv PROVE FwsTypeOK
  <2>1. Types
    BY <1>1 DEF FwsInv, Core
  <2>2. \A e \in Entry : ent[e] \in Descriptors
    BY <2>1 DEF Types
  <2>3. \A e \in Entry : /\ ent[e].transit \in Int /\ ent[e].supprTransit \in Int
                         /\ ent[e].gen \in 0..1 /\ ent[e].request \in Nat
                         /\ {ent[e].occupied, ent[e].open, ent[e].suppressed} \subseteq BOOLEAN
    BY <2>2 DEF Descriptors
  <2>4. QED
    BY <2>1, <2>3 DEF Types, FwsTypeOK
<1>2. QED
  BY <1>1, FwsInvInit, FwsInvStep, PTL DEF FwsSpec

(* Every packet of the hanger is in one place that brcmf_fws_txs_process(), a  *)
(* dequeue or a flush will take it from, or met a full queue on its way in;  *)
(* and no destination waits for more packets than are on their way, though   *)
(* frames fail, are refused or come back suppressed while it sleeps or leaves*)
THEOREM SlotsAlwaysHeld == FwsSpec => []SlotsHeld
<1>1. ASSUME FwsInv PROVE SlotsHeld
  BY <1>1 DEF FwsInv, Core, Places, Transit, Of, SlotsHeld
<1>2. QED
  BY <1>1, FwsInvInit, FwsInvStep, PTL DEF FwsSpec

(* The credits of a fifo, those its packets in flight hold and those it has   *)
(* lent make up what the firmware granted and what the fifo owes, and what it *)
(* owes is in flight: brcmf_fws_borrow_credit() and _return_credits() lose    *)
(* and make none, for any number of fifos and credits and in any order.      *)
THEOREM CreditsAlwaysKept == FwsSpec => []CreditsKept
<1>1. FwsInv => CreditsKept
  BY DEF FwsInv, Loans
<1>2. QED
  BY <1>1, FwsInvInit, FwsInvStep, PTL DEF FwsSpec

-----------------------------------------------------------------------------
(* The worker's rest: what tells brcmf_fws_schedule_deq() of work.            *)

\* A fifo with a credit has its bit in fifo_credit_map, or a packet whose
\* status will set it again.
Marked == \A f \in Fifo : f \notin creditMap => credit[f] = 0 \/ In(f) # {}
\* The worker hands over a packet of its fifo, and borrows when the fifo has no
\* credit left, or has got one back meanwhile.
Handing ==
  /\ wk.at = "hand" => pkt[wk.slot].f = wk.fifo
  /\ wk.at = "borrow" => credit[wk.fifo] = 0 \/ (In(wk.fifo) # {} /\ wk.fifo \in creditMap)
  /\ wk.at = "hand" /\ wk.from = "borrow" => credit[wk.fifo] = 0 \/ wk.fifo \in creditMap
\* fifo_enqpkt counts the queued packets at least (a flush takes none off), so
\* the delay map knows of them.
Enqueued ==
  /\ \A f \in Fifo : enqpkt[f] > 0 => f \in delayMap
  /\ used.refuse = 0 => \A f \in Fifo : enqpkt[f] >= Cardinality(Waits(f))
\* With no work scheduled, a fifo the worker has looked at has nothing to send.
Looked == used.refuse = 0 /\ ~deqQueued /\ ~busBlocked =>
            \A f \in creditMap : Done(f) /\ credit[f] > 0 => Ready(f) = {}
Rested == FwsInv /\ Marked /\ Handing /\ Enqueued /\ Looked

-----------------------------------------------------------------------------
(* The fifos that have credits.                                              *)
LEMMA MarkedNext == Marked' <=> \A f \in Fifo : f \notin creditMap' => credit'[f] = 0 \/ NowFor(f) # {}
  BY DEF Marked, In, NowFor

\* A fifo that loses its mark has no credit, one that had none keeps its packets.
MapStep == \A f \in Fifo :
  f \notin creditMap' => credit'[f] = 0 \/ (f \notin creditMap /\ credit[f] # 0)
MapReturned == \A f \in Fifo :
  f \notin creditMap' => credit'[f] = credit[f] /\ f \notin creditMap

LEMMA MarkedStill == ASSUME Core, Marked, Still, MapStep PROVE Marked'
  BY StillCounts, MarkedNext DEF Marked, MapStep

LEMMA MarkedJoins == ASSUME Core, Marked, NEW s, Joins(s),
                            \A f \in Fifo : f \notin creditMap' =>
                               \/ credit'[f] = 0 \/ f = pkt[s].f
                               \/ f \notin creditMap /\ credit[f] # 0
  PROVE  Marked'
<1> SUFFICES ASSUME NEW f \in Fifo, f \notin creditMap' PROVE credit'[f] = 0 \/ NowFor(f) # {}
  BY MarkedNext
<1>1. NowFor(f) = (IF pkt[s].f = f THEN In(f) \cup {s} ELSE In(f))
  BY JoinsCounts
<1>2. f \notin creditMap /\ credit[f] # 0 => In(f) # {}
  BY DEF Marked
<1>3. QED
  BY <1>1, <1>2

LEMMA ReturnedMap == ASSUME Core, NEW f \in Fifo, SetCred(Returned(Cred, f))
  PROVE  f \in creditMap' /\ MapReturned
<1>1. PICK d : d = Returned(Cred, f)
  OBVIOUS
<1>2. Cred \in Credits0 /\ Cred.credit = credit /\ Cred.map = creditMap
  BY CredIs DEF Core, Cred
<1>3. (\E l \in Fifo : PaysBack(Cred, d, f, l)) \/ Keeps(Cred, d, f)
  BY <1>1, <1>2, ReturnedIs
<1>4. credit' = d.credit /\ creditMap' = d.map
  BY <1>1 DEF SetCred
<1>5. credit \in [Fifo -> Int]
  BY <1>2 DEF Credits0
<1>6. CASE \E l \in Fifo : PaysBack(Cred, d, f, l)
  BY <1>2, <1>4, <1>5, <1>6 DEF PaysBack, MapReturned
<1>7. CASE Keeps(Cred, d, f)
  BY <1>2, <1>4, <1>5, <1>7 DEF Keeps, MapReturned
<1>8. QED
  BY <1>3, <1>6, <1>7

LEMMA MarkedLeaves == ASSUME Core, Marked, NEW s, Leaves(s), SetCred(Returned(Cred, pkt[s].f))
  PROVE  Marked'
<1> SUFFICES ASSUME NEW f \in Fifo, f \notin creditMap' PROVE credit'[f] = 0 \/ NowFor(f) # {}
  BY MarkedNext
<1>1. pkt[s].f \in Fifo
  BY FlightPkt DEF Leaves
<1>2. f # pkt[s].f /\ credit'[f] = credit[f] /\ f \notin creditMap
  BY <1>1, ReturnedMap DEF MapReturned
<1>3. NowFor(f) = In(f)
  BY <1>2, LeavesCounts
<1>4. QED
  BY <1>2, <1>3 DEF Marked

-----------------------------------------------------------------------------
(* Packets enqueued.                                                         *)
NowWaits(f) == {s \in InQueue' : pkt'[s].f = f}

LEMMA EnqueuedNext == Enqueued' <=>
  /\ \A f \in Fifo : enqpkt'[f] > 0 => f \in delayMap'
  /\ used'.refuse = 0 => \A f \in Fifo : enqpkt'[f] >= Cardinality(NowWaits(f))
BY DEF Enqueued, Waits, NowWaits

LEMMA WaitCounts == ASSUME Core, NEW f
  PROVE  IsFiniteSet(Waits(f)) /\ Cardinality(Waits(f)) \in Nat
<1>1. Waits(f) \subseteq Slot /\ IsFiniteSet(Slot)
  BY QueueSlots, FwsConsts DEF Waits
<1>2. QED
  BY <1>1, FS_Subset, FS_CardinalityType

LEMMA EnqueuedKept == ASSUME Core, Enqueued, InQueue' \subseteq InQueue, Keep(InQueue'),
                             enqpkt' = enqpkt, delayMap' = delayMap,
                             used'.refuse = 0 => used.refuse = 0
  PROVE  Enqueued'
<1>1. ASSUME NEW f \in Fifo
      PROVE  Cardinality(NowWaits(f)) \in Nat /\ Cardinality(NowWaits(f)) <= Cardinality(Waits(f))
  <2>1. NowWaits(f) \subseteq Waits(f)
    BY DEF NowWaits, Waits, Keep
  <2>2. QED
    BY <2>1, WaitCounts, FS_Subset, FS_CardinalityType
<1>2. enqpkt \in [Fifo -> Int]
  BY DEF Core, Types
<1>3. ASSUME used'.refuse = 0, NEW f \in Fifo PROVE enqpkt'[f] >= Cardinality(NowWaits(f))
  <2>1. enqpkt[f] >= Cardinality(Waits(f)) /\ Cardinality(Waits(f)) \in Nat /\ enqpkt[f] \in Int
    BY <1>2, <1>3, WaitCounts DEF Enqueued
  <2>2. QED
    BY <1>1, <2>1
<1>4. \A f \in Fifo : enqpkt'[f] > 0 => f \in delayMap'
  BY DEF Enqueued
<1>5. QED
  BY <1>3, <1>4, EnqueuedNext

LEMMA EnqueuedMore == ASSUME Core, Enqueued, NEW s, NEW f \in Fifo,
                             InQueue' = InQueue \cup {s}, s \notin InQueue, Keep(InQueue), pkt'[s].f = f,
                             enqpkt' = [enqpkt EXCEPT ![f] = @ + 1], delayMap' = delayMap \cup {f},
                             used'.refuse = 0 => used.refuse = 0
  PROVE  Enqueued'
<1>1. enqpkt \in [Fifo -> Int]
  BY DEF Core, Types
<1>2. \A x \in Fifo : enqpkt[x] \in Int /\ enqpkt'[x] = IF x = f THEN enqpkt[x] + 1 ELSE enqpkt[x]
  BY <1>1
<1>3. ASSUME NEW x \in Fifo, used'.refuse = 0 PROVE enqpkt'[x] >= Cardinality(NowWaits(x))
  <2>1. /\ enqpkt[x] >= Cardinality(Waits(x)) /\ Cardinality(Waits(x)) \in Nat
        /\ IsFiniteSet(Waits(x))
    BY <1>3, WaitCounts DEF Enqueued
  <2>2. CASE x = f
    <3>1. NowWaits(x) = Waits(x) \cup {s} /\ s \notin Waits(x)
      BY <2>2 DEF NowWaits, Waits, Keep
    <3>2. Cardinality(NowWaits(x)) = Cardinality(Waits(x)) + 1
      BY <2>1, <3>1, FS_AddElement
    <3>3. QED
      BY <1>2, <2>1, <2>2, <3>2
  <2>3. CASE x # f
    <3>1. NowWaits(x) = Waits(x)
      BY <2>3 DEF NowWaits, Waits, Keep
    <3>2. QED
      BY <1>2, <2>1, <2>3, <3>1
  <2>4. QED
    BY <2>2, <2>3
<1>4. \A x \in Fifo : enqpkt'[x] > 0 => x \in delayMap'
  BY <1>2 DEF Enqueued
<1>5. QED
  BY <1>3, <1>4, EnqueuedNext

LEMMA EnqueuedLess == ASSUME Core, Enqueued, NEW s, NEW f \in Fifo,
                             InQueue' = InQueue \ {s}, s \in InQueue, Keep(InQueue), pkt[s].f = f,
                             enqpkt' = [enqpkt EXCEPT ![f] = @ - 1],
                             delayMap' = IF enqpkt[f] = 1 THEN delayMap \ {f} ELSE delayMap,
                             used'.refuse = 0 => used.refuse = 0
  PROVE  Enqueued'
<1>1. enqpkt \in [Fifo -> Int]
  BY DEF Core, Types
<1>2. \A x \in Fifo : enqpkt[x] \in Int /\ enqpkt'[x] = IF x = f THEN enqpkt[x] - 1 ELSE enqpkt[x]
  BY <1>1
<1>3. ASSUME NEW x \in Fifo, used'.refuse = 0 PROVE enqpkt'[x] >= Cardinality(NowWaits(x))
  <2>1. /\ enqpkt[x] >= Cardinality(Waits(x)) /\ Cardinality(Waits(x)) \in Nat
        /\ IsFiniteSet(Waits(x))
    BY <1>3, WaitCounts DEF Enqueued
  <2>2. CASE x = f
    <3>1. NowWaits(x) = Waits(x) \ {s} /\ s \in Waits(x)
      BY <2>2 DEF NowWaits, Waits, Keep
    <3>2. Cardinality(NowWaits(x)) = Cardinality(Waits(x)) - 1
      BY <2>1, <3>1, FS_RemoveElement
    <3>3. QED
      BY <1>2, <2>1, <2>2, <3>2
  <2>3. CASE x # f
    <3>1. NowWaits(x) = Waits(x)
      BY <2>3 DEF NowWaits, Waits, Keep
    <3>2. QED
      BY <1>2, <2>1, <2>3, <3>1
  <2>4. QED
    BY <2>2, <2>3
<1>4. \A x \in Fifo : enqpkt'[x] > 0 => x \in delayMap'
  BY <1>2 DEF Enqueued
<1>5. QED
  BY <1>3, <1>4, EnqueuedNext

-----------------------------------------------------------------------------
(* The worker's view.                                                        *)
LEMMA EmptyWaits ==
  Core /\ Enqueued /\ used.refuse = 0 /\ creditMap \cap delayMap = {}
    => \A f \in creditMap : Ready(f) = {}
<1> SUFFICES ASSUME Core, Enqueued, used.refuse = 0, creditMap \cap delayMap = {},
                    NEW f \in creditMap, NEW e \in Ready(f)
             PROVE  FALSE
  OBVIOUS
<1>1. /\ f \in Fifo /\ enqpkt \in [Fifo -> Int] /\ delayq \in Queues /\ supprq \in Queues
      /\ Filed(delayq, "inuse") /\ Filed(supprq, "suppressed")
  BY DEF Core, Types
<1>2. Cardinality(Waits(f)) = 0
  <2>1. f \notin delayMap
    OBVIOUS
  <2>2. ~(enqpkt[f] > 0) /\ enqpkt[f] >= Cardinality(Waits(f))
    BY <1>1, <2>1 DEF Enqueued
  <2>3. QED
    BY <1>1, <2>2, WaitCounts
<1>3. Waits(f) = {}
  BY <1>2, WaitCounts, FS_EmptySet
<1>4. e \in Entry /\ (supprq[e][f] # <<>> \/ delayq[e][f] # <<>>)
  BY <1>1, OfferIs
<1>5. ASSUME NEW q \in Queues, NEW state, Filed(q, state), q[e][f] # <<>>
      PROVE  \E s \in Members(q) : pkt[s].f = f
  <2>1. q[e][f] \in Seq(Slot)
    BY <1>1, <1>4, <1>5, QueueOf
  <2>2. q[e][f][1] \in ToSet(q[e][f])
    <3>1. 1 \in 1..Len(q[e][f])
      BY <1>5, <2>1
    <3>2. QED
      BY <2>1, <3>1, AsSet
  <2>3. q[e][f][1] \in Members(q)
    BY <1>1, <1>4, <1>5, <2>2, QueueOf
  <2>4. pkt[q[e][f][1]].f = f
    BY <1>1, <1>4, <1>5, <2>2, FiledAt
  <2>5. QED
    BY <2>3, <2>4
<1>6. \E s \in InQueue : pkt[s].f = f
  BY <1>1, <1>4, <1>5, QueueSlots
<1>7. QED
  BY <1>3, <1>6 DEF Waits

LEMMA LookedScheduled == ASSUME Core', Enqueued', deqQueued' = Schedule(creditMap', delayMap')
  PROVE  Looked'
<1>1. (Core /\ Enqueued /\ used.refuse = 0 /\ creditMap \cap delayMap = {})'
        => (\A f \in creditMap : Ready(f) = {})'
  BY EmptyWaits, PTL
<1>2. ~deqQueued' => creditMap' \cap delayMap' = {}
  BY DEF Schedule
<1>3. QED
  BY <1>1, <1>2 DEF Looked

\* What is looked for stays unfound.
LEMMA LookedKept == ASSUME Looked, deqQueued => deqQueued', busBlocked => busBlocked',
                           used'.refuse = 0 => used.refuse = 0,
                           used'.refuse = 0 => \A f \in creditMap' : Done(f)' /\ credit'[f] > 0 =>
                             \/ Ready(f)' = {}
                             \/ f \in creditMap /\ Done(f) /\ credit[f] > 0 /\ Ready(f)' \subseteq Ready(f)
  PROVE  Looked'
<1>1. ASSUME used'.refuse = 0, ~deqQueued', ~busBlocked', NEW f \in creditMap', Done(f)', credit'[f] > 0
      PROVE  Ready(f)' = {}
  <2>1. \/ Ready(f)' = {}
        \/ f \in creditMap /\ Done(f) /\ credit[f] > 0 /\ Ready(f)' \subseteq Ready(f)
    BY <1>1
  <2>2. used.refuse = 0 /\ ~deqQueued /\ ~busBlocked
    BY <1>1
  <2>3. QED
    BY <2>1, <2>2 DEF Looked
<1>2. QED
  BY <1>1 DEF Looked

\* A destination that offers no more than it did.
Dims(e, f) ==
  /\ delayq'[e][f] = delayq[e][f] /\ supprq'[e][f] = supprq[e][f]
  /\ ent[e].occupied
  /\ ent'[e].open \/ ent'[e].request # 0 => ent[e].open \/ ent[e].request # 0
  /\ ent[e].suppressed /\ ent[e].supprTransit # 0 => ent'[e].suppressed /\ ent'[e].supprTransit # 0

LEMMA ReadyDims == ASSUME NEW f, \A e \in Entry : ent'[e].occupied => Dims(e, f)
  PROVE  Ready(f)' \subseteq Ready(f)
<1> SUFFICES ASSUME NEW e \in Entry, e \in Ready(f)' PROVE e \in Ready(f)
  BY DEF Ready, Served
<1>1. ent'[e].occupied /\ (ent'[e].open \/ ent'[e].request # 0) /\ Offer(e, f)' # <<>>
  BY DEF Ready, Served, Closed
<1>2. Dims(e, f)
  BY <1>1
<1>3. Offer(e, f) # <<>>
  BY <1>1, <1>2 DEF Offer, HoldsBack, Dims
<1>4. QED
  BY <1>1, <1>2, <1>3 DEF Ready, Served, Closed, Dims

LEMMA DeqDims == ASSUME FwsInv, NEW f \in Fifo, NEW e \in Ready(f), NEW seen \in SUBSET Vain(f),
                        Deq(e, f, seen), used.refuse = 0, NEW x \in Fifo, x # f
  PROVE  Ready(x)' \subseteq Ready(x)
<1>0. /\ Core /\ Transit /\ delayq \in Queues /\ supprq \in Queues /\ e \in Entry
      /\ ent \in [Entry -> Descriptors]
  BY OfferIs DEF FwsInv, Core, Types
<1> SUFFICES ASSUME NEW y \in Entry, ent'[y].occupied PROVE Dims(y, x)
  BY ReadyDims
<1>1. EntAfter(y, e, f, seen)
  BY <1>0, DeqEntIs
<1>2. delayq'[y][x] = delayq[y][x] /\ supprq'[y][x] = supprq[y][x]
  <2>1. /\ delayq' = delayq \/ delayq' = [delayq EXCEPT ![e][f] = Tail(@)]
        /\ supprq' = supprq \/ supprq' = [supprq EXCEPT ![e][f] = Tail(@)]
    BY DEF Deq
  <2>2. ASSUME NEW q \in Queues, NEW r, r = q \/ r = [q EXCEPT ![e][f] = Tail(@)]
        PROVE  r[y][x] = q[y][x]
    BY <1>0, <2>2 DEF Queues
  <2>3. QED
    BY <1>0, <2>1, <2>2
<1>3. ent[y] \in Descriptors /\ ent[y].request \in Nat /\ ent[y].supprTransit \in Int
      /\ ent[y].supprTransit >= 0
  BY <1>0 DEF Transit, Descriptors
<1>4. ASSUME ent[y].suppressed, ent[y].supprTransit # 0
      PROVE  ent'[y].suppressed /\ ent'[y].supprTransit # 0
  <2>1. y \notin seen
    BY <1>4 DEF Vain
  <2>2. y = e => supprq[e][f] # <<>>
    BY <1>0, <1>4, OfferIs DEF HoldsBack
  <2>3. ent'[y].suppressed
    BY <1>1, <1>4, <2>1, <2>2 DEF EntAfter
  <2>4. ent'[y].supprTransit = ent[y].supprTransit \/ ent'[y].supprTransit = ent[y].supprTransit + 1
    BY <1>1 DEF EntAfter
  <2>5. QED
    BY <1>3, <1>4, <2>3, <2>4
<1>5. ent'[y].request # 0 => ent[y].request # 0
  <2>1. ent' \in [Entry -> Descriptors]
    BY <1>0, DeqEntIs
  <2>2. ent'[y].request \in Nat
    BY <2>1 DEF Descriptors
  <2>3. QED
    BY <1>1, <1>3, <2>2 DEF EntAfter
<1>6. QED
  BY <1>1, <1>2, <1>4, <1>5 DEF Dims, EntAfter

-----------------------------------------------------------------------------
(* The marked fifos over the steps.                                          *)
SameCredit == credit' = credit /\ creditMap' = creditMap

LEMMA MarkedSame == ASSUME Core, Marked, Still, SameCredit PROVE Marked'
  BY MarkedStill DEF SameCredit, MapStep

\* A loan given back at once: to the lender, or to another one.
SwapsLoan(f, l, m) ==
  /\ l < f /\ m < f /\ credit[l] > 0
  /\ creditMap' = (IF credit[l] = 1 THEN creditMap \ {l} ELSE creditMap) \cup {f, m}
  /\ \A x \in Fifo : x # l /\ x # m => credit'[x] = credit[x]
  /\ l # m => credit'[l] = credit[l] - 1

LEMMA LoanSwapped == ASSUME FwsInv, NEW f \in Fifo, CanLend(f) # {},
                            SetCred(Returned(Borrowed(f), f))
  PROVE  \E l \in Fifo, m \in Fifo : SwapsLoan(f, l, m)
<1>1. /\ Types /\ \A g, l \in Fifo : borrowed[g][l] > 0 => l < g
      /\ credit \in [Fifo -> Int] /\ borrowed \in [Fifo -> [Fifo -> Nat]]
      /\ \A x \in Fifo : x \in Nat
  <2>1. Types /\ \A g, l \in Fifo : borrowed[g][l] > 0 => l < g
    BY DEF FwsInv, Core, Loans
  <2>2. credit \in [Fifo -> Int] /\ borrowed \in [Fifo -> [Fifo -> Nat]]
    BY <2>1 DEF Types
  <2>3. \A x \in Fifo : x \in Nat
    BY FwsConsts
  <2>4. QED
    BY <2>1, <2>2, <2>3
<1>2. PICK c : c = Borrowed(f)
  OBVIOUS
<1>3. PICK l \in CanLend(f) :
        /\ l \in Fifo /\ l < f /\ credit[l] > 0
        /\ c.credit = [credit EXCEPT ![l] = credit[l] - 1]
        /\ c.borrowed = [borrowed EXCEPT ![f] = [borrowed[f] EXCEPT ![l] = borrowed[f][l] + 1]]
        /\ c.map = (IF credit[l] = 1 THEN creditMap \ {l} ELSE creditMap) \cup {f}
  BY <1>1, <1>2, BorrowedIs
<1>4. c \in Credits0
  BY <1>1, <1>2, BorrowedIs
<1>5. PICK d : d = Returned(c, f)
  OBVIOUS
<1>6. credit' = d.credit /\ creditMap' = d.map
  BY <1>2, <1>5 DEF SetCred
<1>7. (\E m \in Fifo : PaysBack(c, d, f, m)) \/ Keeps(c, d, f)
  BY <1>4, <1>5, ReturnedIs
<1>8. /\ c.borrowed[f][l] = borrowed[f][l] + 1
      /\ \A m \in Fifo : m # l => c.borrowed[f][m] = borrowed[f][m]
  BY <1>1, <1>3
<1>9. l \in OwedBy(c, f) /\ f # 0
  BY <1>1, <1>3, <1>8 DEF OwedBy
<1>10. PICK m \in Fifo : PaysBack(c, d, f, m)
  BY <1>7, <1>9 DEF Keeps
<1>11. m < f
  <2>1. c.borrowed[f][m] > 0
    BY <1>10 DEF PaysBack, OwedBy
  <2>2. QED
    BY <1>1, <1>3, <1>8, <2>1
<1>12. d.credit = [c.credit EXCEPT ![m] = c.credit[m] + 1] /\ d.map = c.map \cup {f, m}
  BY <1>10 DEF PaysBack
<1>13. \A x \in Fifo : c.credit[x] = IF x = l THEN credit[l] - 1 ELSE credit[x]
  BY <1>1, <1>3
<1>14. \A x \in Fifo : x # m => d.credit[x] = c.credit[x]
  BY <1>4, <1>12 DEF Credits0
<1>15. SwapsLoan(f, l, m)
  BY <1>3, <1>6, <1>11, <1>12, <1>13, <1>14 DEF SwapsLoan
<1>16. QED
  BY <1>3, <1>15

LEMMA SwapMap == ASSUME FwsInv, NEW f \in Fifo, NEW l \in Fifo, NEW m \in Fifo, SwapsLoan(f, l, m)
  PROVE  MapStep
<1>1. credit \in [Fifo -> Int]
  BY DEF FwsInv, Core, Types
<1> SUFFICES ASSUME NEW x \in Fifo, x \notin creditMap'
             PROVE  credit'[x] = 0 \/ (x \notin creditMap /\ credit[x] # 0)
  BY DEF MapStep
<1>2. x # m /\ (x \in creditMap => x = l /\ credit[l] = 1)
  BY DEF SwapsLoan
<1>3. CASE x = l
  BY <1>1, <1>2, <1>3 DEF SwapsLoan
<1>4. CASE x # l
  BY <1>2, <1>4 DEF SwapsLoan
<1>5. QED
  BY <1>3, <1>4

\* What is put into a fifo's credits when it borrows.
LEMMA LoanIs == ASSUME FwsInv, NEW f \in Fifo, CanLend(f) # {}, SetCred(Borrowed(f))
  PROVE  \E l \in Fifo : /\ l < f /\ credit[l] > 0 /\ credit'[l] = credit[l] - 1
                         /\ \A x \in Fifo : x # l => credit'[x] = credit[x]
                         /\ creditMap' = (IF credit[l] = 1 THEN creditMap \ {l} ELSE creditMap)
                                         \cup {f}
<1>1. Types /\ credit \in [Fifo -> Int]
  BY DEF FwsInv, Core, Types
<1>2. PICK c : c = Borrowed(f)
  OBVIOUS
<1>3. PICK l \in CanLend(f) :
        /\ l \in Fifo /\ l < f /\ credit[l] > 0
        /\ c.credit = [credit EXCEPT ![l] = credit[l] - 1]
        /\ c.map = (IF credit[l] = 1 THEN creditMap \ {l} ELSE creditMap) \cup {f}
  BY <1>1, <1>2, BorrowedIs
<1>4. credit' = c.credit /\ creditMap' = c.map
  BY <1>2 DEF SetCred
<1>5. QED
  BY <1>1, <1>3, <1>4

LEMMA MarkedWork == ASSUME Rested, WorkOwn \/ WorkBorrow \/ WorkBorrowDone PROVE Marked'
<1>1. Core /\ Marked /\ wk.fifo \in Fifo /\ credit \in [Fifo -> Int]
  BY DEF Rested, FwsInv, Core, Types
<1>2. CASE WorkOwn
  <2>1. PICK s \in Slot : Joins(s) /\ pkt[s].f = wk.fifo
    BY <1>1, <1>2, WorkOwnCore
  <2>2. creditMap' = creditMap /\ \A f \in Fifo : f # wk.fifo => credit'[f] = credit[f]
    BY <1>1, <1>2 DEF WorkOwn
  <2>3. QED
    BY <1>1, <2>1, <2>2, MarkedJoins
<1>3. CASE WorkBorrow
  <2>1. PICK s \in Slot : Joins(s) /\ pkt[s].f = wk.fifo
    BY <1>1, <1>3, WorkBorrowCore
  <2>2. PICK l \in Fifo : /\ credit[l] > 0 /\ credit'[l] = credit[l] - 1
                          /\ \A x \in Fifo : x # l => credit'[x] = credit[x]
                          /\ creditMap' = (IF credit[l] = 1 THEN creditMap \ {l} ELSE creditMap)
                                          \cup {wk.fifo}
    BY <1>1, <1>3, LoanIs DEF WorkBorrow, Rested
  <2>3. ASSUME NEW f \in Fifo, f \notin creditMap'
        PROVE  credit'[f] = 0 \/ (f \notin creditMap /\ credit[f] # 0)
    BY <1>1, <2>2, <2>3
  <2>4. QED
    BY <1>1, <2>1, <2>3, MarkedJoins
<1>4. CASE WorkBorrowDone
  <2>1. Still
    BY <1>1, <1>4, WorkBorrowDoneCore
  <2>2. CASE CanLend(wk.fifo) = {}
    <3>1. credit' = credit /\ creditMap' = creditMap \ {wk.fifo} /\ wk.at = "borrow"
      BY <1>4, <2>2 DEF WorkBorrowDone
    <3>2. credit[wk.fifo] = 0 \/ In(wk.fifo) # {}
      BY <3>1 DEF Rested, Handing
    <3>3. ASSUME NEW f \in Fifo, f \notin creditMap' PROVE credit'[f] = 0 \/ NowFor(f) # {}
      BY <1>1, <2>1, <3>1, <3>2, <3>3, StillCounts DEF Marked
    <3>4. QED
      BY <3>3, MarkedNext
  <2>3. CASE CanLend(wk.fifo) # {}
    <3>1. \E l \in Fifo, m \in Fifo : SwapsLoan(wk.fifo, l, m)
      BY <1>1, <1>4, <2>3, LoanSwapped DEF WorkBorrowDone, Rested
    <3>2. MapStep
      BY <1>1, <3>1, SwapMap DEF Rested
    <3>3. QED
      BY <1>1, <2>1, <3>2, MarkedStill
  <2>4. QED
    BY <2>2, <2>3
<1>5. QED
  BY <1>2, <1>3, <1>4

LEMMA MarkedStep == ASSUME Rested, [FwsNext]_fwsVars PROVE Marked'
<1>1. Core /\ Marked
  BY DEF Rested, FwsInv
<1>2. ASSUME \/ \E e \in Entry, f \in Fifo : ProcessSkb(e, f)
             \/ WorkBegin \/ WorkOwnDone \/ WorkSent \/ BusBlock \/ BusUnblock \/ FwTakes
             \/ MacState("open") \/ MacState("close") \/ MacRequest \/ MacDel
             \/ \E e \in Entry : FwStep(e)
      PROVE  Marked'
  <2>1. Still
    BY <1>1, <1>2, ProcessSkbCore, WorkBeginCore, WorkOwnDoneCore, WorkSentCore, BusBlockCore,
       FwTakesCore, MacCore, MacDelCore, FwCore
  <2>2. SameCredit
    BY <1>2 DEF SameCredit, credVars, ProcessSkb, WorkBegin, WorkOwnDone, WorkSent, BusBlock,
       BusUnblock, FwTakes, MacState, MacRequest, MacDel, FwStep, FwSleep, FwWake, FwRequest,
       FwDel, Rest
  <2>3. QED
    BY <1>1, <2>1, <2>2, MarkedSame
<1>3. ASSUME BusFailed \/ StatusSent \/ StatusSuppressed \/ WorkRefused PROVE Marked'
  <2>1. \E s : Leaves(s) /\ SetCred(Returned(Cred, pkt[s].f))
    <3>1. CASE BusFailed
      BY <1>1, <3>1, BusFailedCore DEF BusFailed
    <3>2. CASE StatusSent
      BY <1>1, <3>2, StatusSentCore DEF StatusSent
    <3>3. CASE StatusSuppressed
      BY <1>1, <3>3, StatusSuppressedCore, SuppressedIs
    <3>4. CASE WorkRefused
      BY <1>1, <3>4, WorkRefusedCore, RefusedIs
    <3>5. QED
      BY <1>3, <3>1, <3>2, <3>3, <3>4
  <2>2. QED
    BY <1>1, <2>1, MarkedLeaves
<1>4. CASE UNCHANGED fwsVars
  BY <1>1, <1>4, MarkedSame DEF SameCredit, fwsVars, credVars, Still, Keep, InFlight
<1>5. QED
  BY <1>2, <1>3, <1>4, MarkedWork DEF FwsNext, FwStep

-----------------------------------------------------------------------------
(* The packet handed over and the fifo that borrows.                         *)
LEMMA HandingRests == ASSUME wk'.at \notin {"hand", "borrow"} PROVE Handing'
  BY DEF Handing

LEMMA HandingBorrows == ASSUME wk'.at = "borrow", credit'[wk'.fifo] = 0 PROVE Handing'
  BY DEF Handing

\* The worker is away, credits come back at most.
LEMMA HandingKept == ASSUME Core, Handing, wk.at # "borrow", wk' = wk, Keep(InFlight'), MapReturned
  PROVE  Handing'
<1>1. CASE wk.at = "hand"
  <2>1. wk.slot \in InFlight'
    BY <1>1, InFlightIsNext DEF Hand
  <2>2. pkt'[wk.slot].f = wk.fifo
    BY <1>1, <2>1 DEF Keep, Handing
  <2>3. wk.fifo \in Fifo
    BY DEF Core, Types
  <2>4. wk.from = "borrow" => credit'[wk.fifo] = 0 \/ wk.fifo \in creditMap'
    BY <1>1, <2>3 DEF MapReturned, Handing
  <2>5. QED
    BY <1>1, <2>2, <2>4 DEF Handing
<1>2. CASE wk.at # "hand"
  BY <1>2 DEF Handing
<1>3. QED
  BY <1>1, <1>2

LEMMA HandingSame == ASSUME Core, Handing, Still, SameCredit, wk' = wk PROVE Handing'
<1>1. wk.fifo \in Fifo
  BY DEF Core, Types
<1>2. CASE wk.at = "borrow"
  <2>1. In(wk.fifo)' = In(wk.fifo)
    BY <1>1, StillCounts DEF In, NowFor
  <2>2. QED
    BY <1>2, <2>1 DEF Handing, SameCredit
<1>3. CASE wk.at # "borrow"
  BY <1>3, HandingKept DEF SameCredit, MapReturned, Still, Keep
<1>4. QED
  BY <1>2, <1>3

LEMMA HandingWork == ASSUME Rested, WorkOwnDone \/ WorkBorrowDone \/ WorkBegin \/ WorkRefused
  PROVE  Handing'
<1>1. /\ wk.fifo \in Fifo /\ Types
      /\ wk.from \in {"own", "borrow"}
  BY DEF Rested, FwsInv, Core, Types
<1>2. \/ wk' = Idle \/ wk' = At("own", Top) \/ wk' = NextFifo(wk.fifo)
      \/ wk' = Own2(wk.fifo, credit')
  BY DEF WorkOwnDone, WorkBorrowDone, WorkBegin, WorkRefused, credVars
<1>3. \/ wk'.at \notin {"hand", "borrow"}
      \/ wk'.at = "borrow" /\ credit'[wk'.fifo] = 0
  BY <1>2 DEF Idle, At, NextFifo, Own2
<1>4. QED
  BY <1>3, HandingRests, HandingBorrows

LEMMA HandingGives == ASSUME Rested, WorkOwn \/ WorkBorrow PROVE Handing'
<1>1. Core /\ wk.fifo \in Fifo
  BY DEF Rested, FwsInv, Core, Types
<1>2. PICK s \in Slot, a \in {"own", "borrow"} :
        /\ Keep(Slot) /\ pkt[s].f = wk.fifo
        /\ wk' = [at |-> "hand", fifo |-> wk.fifo, from |-> a, slot |-> s]
        /\ WorkBorrow \/ a = "own"
  BY <1>1, WorkOwnCore, WorkBorrowCore
<1>3. pkt'[s].f = wk.fifo
  BY <1>2 DEF Keep
<1>4. WorkBorrow => wk.fifo \in creditMap'
  BY <1>1, LoanIs DEF WorkBorrow, Rested
<1>5. QED
  BY <1>2, <1>3, <1>4 DEF Handing

LEMMA HandingSent == ASSUME Rested, WorkSent PROVE Handing'
<1>1. Core /\ Handing /\ wk.fifo \in Fifo /\ wk.from \in {"own", "borrow"} /\ wk.at = "hand"
  BY DEF Rested, FwsInv, Core, Types, WorkSent
<1>2. wk' = Idle \/ wk' = At(wk.from, wk.fifo)
  BY DEF WorkSent
<1>3. CASE wk' = Idle \/ wk.from = "own"
  BY <1>2, <1>3, HandingRests DEF Idle, At
<1>4. CASE wk' = At(wk.from, wk.fifo) /\ wk.from = "borrow"
  <2>1. Still /\ credit' = credit /\ creditMap' = creditMap
    BY <1>1, WorkSentCore DEF WorkSent, credVars
  <2>2. wk.slot \in InFlight /\ pkt[wk.slot].f = wk.fifo
    BY <1>1, InFlightIs DEF Hand, Handing
  <2>3. wk.slot \in In(wk.fifo) /\ NowFor(wk.fifo) = In(wk.fifo)
    BY <1>1, <2>1, <2>2, StillCounts DEF In
  <2>4. wk'.at = "borrow" /\ wk'.fifo = wk.fifo
    BY <1>4 DEF At
  <2>5. credit[wk.fifo] = 0 \/ wk.fifo \in creditMap
    BY <1>1, <1>4 DEF Handing
  <2>6. QED
    BY <2>1, <2>3, <2>4, <2>5 DEF Handing, In, NowFor
<1>5. QED
  BY <1>1, <1>2, <1>3, <1>4

LEMMA HandingStep == ASSUME Rested, [FwsNext]_fwsVars PROVE Handing'
<1>1. Core /\ Handing
  BY DEF Rested, FwsInv
<1>2. ASSUME \/ \E e \in Entry, f \in Fifo : ProcessSkb(e, f)
             \/ BusBlock \/ BusUnblock \/ FwTakes
             \/ MacState("open") \/ MacState("close") \/ MacRequest \/ MacDel
             \/ \E e \in Entry : FwStep(e)
      PROVE  Handing'
  <2>1. Still
    BY <1>1, <1>2, ProcessSkbCore, BusBlockCore, FwTakesCore, MacCore, MacDelCore, FwCore
  <2>2. SameCredit /\ wk' = wk
    BY <1>2 DEF SameCredit, credVars, ProcessSkb, BusBlock, BusUnblock, FwTakes, MacState,
       MacRequest, MacDel, FwStep, FwSleep, FwWake, FwRequest, FwDel, Rest
  <2>3. QED
    BY <1>1, <2>1, <2>2, HandingSame
<1>3. ASSUME BusFailed \/ StatusSent \/ StatusSuppressed PROVE Handing'
  <2>1. \E s : Leaves(s) /\ SetCred(Returned(Cred, pkt[s].f))
    <3>1. CASE BusFailed
      BY <1>1, <3>1, BusFailedCore DEF BusFailed
    <3>2. CASE StatusSent
      BY <1>1, <3>2, StatusSentCore DEF StatusSent
    <3>3. CASE StatusSuppressed
      BY <1>1, <3>3, StatusSuppressedCore, SuppressedIs
    <3>4. QED
      BY <1>3, <3>1, <3>2, <3>3
  <2>2. PICK s : Leaves(s) /\ SetCred(Returned(Cred, pkt[s].f))
    BY <2>1
  <2>3. pkt[s].f \in Fifo /\ Keep(InFlight')
    BY <1>1, <2>2, FlightPkt DEF Leaves
  <2>4. MapReturned
    BY <1>1, <2>2, <2>3, ReturnedMap
  <2>5. wk.at # "borrow" /\ wk' = wk
    BY <1>3, SuppressedIs DEF BusFailed, StatusSent, Unlocked, Got
  <2>6. QED
    BY <1>1, <2>3, <2>4, <2>5, HandingKept
<1>4. CASE UNCHANGED fwsVars
  <2>1. Still /\ SameCredit /\ wk' = wk
    BY <1>4 DEF SameCredit, fwsVars, credVars, Still, Keep, InFlight
  <2>2. QED
    BY <1>1, <2>1, HandingSame
<1>5. QED
  BY <1>2, <1>3, <1>4, HandingWork, HandingGives, HandingSent DEF FwsNext, FwStep

-----------------------------------------------------------------------------
(* The count of the queued packets over the steps.                           *)
LEMMA EnqueuedArrives == ASSUME Rested, NEW e \in Entry, NEW f \in Fifo, ProcessSkb(e, f)
  PROVE  Enqueued'
<1>1. Core /\ Enqueued
  BY DEF Rested, FwsInv
<1>2. PICK s \in Slot : Arrived(e, f, s)
  BY <1>1, ProcessSkbCore
<1>3. used'.refuse = used.refuse
  BY <1>1, UsedIs DEF ProcessSkb
<1>4. s \notin InQueue /\ InQueue \in SUBSET Slot /\ Keep(InQueue) /\ pkt'[s].f = f
  BY <1>1, <1>2, QueueSlots DEF Arrived, Keep
<1>5. CASE Room(e)
  <2>1. InQueue' = InQueue \cup {s}
    BY <1>2, <1>5 DEF Arrived
  <2>2. enqpkt' = [enqpkt EXCEPT ![f] = @ + 1] /\ delayMap' = delayMap \cup {f}
    BY <1>5 DEF ProcessSkb, Room
  <2>3. QED
    BY <1>1, <1>3, <1>4, <2>1, <2>2, EnqueuedMore
<1>6. CASE ~Room(e)
  <2>1. InQueue' = InQueue
    BY <1>2, <1>6 DEF Arrived
  <2>2. enqpkt' = enqpkt /\ delayMap' = delayMap
    BY <1>6 DEF ProcessSkb, Room
  <2>3. QED
    BY <1>1, <1>3, <1>4, <2>1, <2>2, EnqueuedKept
<1>7. QED
  BY <1>5, <1>6

LEMMA EnqueuedDeq == ASSUME Rested, WorkOwn \/ WorkBorrow PROVE Enqueued'
<1>1. Core /\ Enqueued /\ wk.fifo \in Fifo
  BY DEF Rested, FwsInv, Core, Types
<1>2. PICK e \in Ready(wk.fifo) : \E seen \in SUBSET Vain(wk.fifo), s \in Slot :
           /\ Deq(e, wk.fifo, seen) /\ Joins(s)
           /\ InQueue' = InQueue \ {s} /\ Keep(Slot) /\ pkt[s].f = wk.fifo
  BY <1>1, WorkOwnCore, WorkBorrowCore
<1>3. PICK seen \in SUBSET Vain(wk.fifo), s \in Slot :
           /\ Deq(e, wk.fifo, seen) /\ Joins(s)
           /\ InQueue' = InQueue \ {s} /\ Keep(Slot) /\ pkt[s].f = wk.fifo
  BY <1>2
<1>4. /\ enqpkt' = [enqpkt EXCEPT ![wk.fifo] = @ - 1]
      /\ delayMap' = IF enqpkt[wk.fifo] = 1 THEN delayMap \ {wk.fifo} ELSE delayMap
  BY <1>3 DEF Deq
<1>5. s \in InQueue /\ Keep(InQueue)
  BY <1>1, <1>3, QueueSlots DEF Joins, Keep
<1>6. used' = used
  BY DEF WorkOwn, WorkBorrow
<1>7. QED
  BY <1>1, <1>3, <1>4, <1>5, <1>6, EnqueuedLess

LEMMA EnqueuedSuppressed == ASSUME Rested, StatusSuppressed PROVE Enqueued'
<1> DEFINE s == Head(sig).s
<1>1. Core /\ Enqueued
  BY DEF Rested, FwsInv
<1>2. /\ Leaves(s) /\ Keep(InQueue)
      /\ InQueue' = IF Room(pkt[s].e) THEN InQueue \cup {s} ELSE InQueue
  BY <1>1, StatusSuppressedCore
<1>3. s \in Slot /\ pkt[s].f \in Fifo /\ s \notin InQueue /\ pkt \in [Slot -> Packets]
  BY <1>1, <1>2, FlightPkt, FlightNotQueued DEF Leaves, Core, Types
<1>4. used' = used
  BY SuppressedIs
<1>5. CASE Room(pkt[s].e)
  <2>1. /\ pkt' = [pkt EXCEPT ![s].gen = Head(sig).gen]
        /\ enqpkt' = [enqpkt EXCEPT ![pkt[s].f] = @ + 1] /\ delayMap' = delayMap \cup {pkt[s].f}
    BY <1>5, SuppressedIs
  <2>2. pkt'[s].f = pkt[s].f
    BY <1>3, <2>1 DEF Packets
  <2> HIDE DEF s
  <2>3. QED
    BY <1>1, <1>2, <1>3, <1>4, <1>5, <2>1, <2>2, EnqueuedMore
<1>6. CASE ~Room(pkt[s].e)
  <2>1. enqpkt' = enqpkt /\ delayMap' = delayMap
    BY <1>6, SuppressedIs
  <2> HIDE DEF s
  <2>2. QED
    BY <1>1, <1>2, <1>4, <1>6, <2>1, EnqueuedKept
<1>7. QED
  BY <1>5, <1>6

LEMMA EnqueuedStep == ASSUME Rested, [FwsNext]_fwsVars PROVE Enqueued'
<1>1. Core /\ Enqueued
  BY DEF Rested, FwsInv
<1>2. ASSUME \/ WorkBegin \/ WorkOwnDone \/ WorkBorrowDone \/ WorkSent \/ BusBlock \/ BusUnblock
             \/ FwTakes \/ MacState("open") \/ MacState("close") \/ MacRequest
             \/ \E e \in Entry : FwStep(e)
      PROVE  Enqueued'
  <2>1. Still /\ InQueue' = InQueue
    BY <1>1, <1>2, WorkBeginCore, WorkOwnDoneCore, WorkBorrowDoneCore, WorkSentCore,
       BusBlockCore, FwTakesCore, MacCore, FwCore
  <2>2. enqpkt' = enqpkt /\ delayMap' = delayMap /\ pkt' = pkt
    BY <1>2 DEF qVars, WorkBegin, WorkOwnDone, WorkBorrowDone, WorkSent, BusBlock,
       BusUnblock, FwTakes, MacState, MacRequest, FwStep, FwSleep, FwWake, FwRequest,
       FwDel, Rest
  <2>3. used'.refuse = used.refuse
    BY <1>1, <1>2, UsedIs DEF WorkBegin, WorkOwnDone, WorkBorrowDone, WorkSent, BusBlock,
       BusUnblock, FwTakes, MacState, MacRequest, FwStep, FwSleep, FwWake, FwRequest, FwDel
  <2>4. QED
    BY <1>1, <2>1, <2>2, <2>3, EnqueuedKept DEF Keep
<1>3. ASSUME BusFailed \/ StatusSent \/ MacDel PROVE Enqueued'
  <2>1. InQueue' \subseteq InQueue /\ Keep(InQueue')
    BY <1>1, <1>3, BusFailedCore, StatusSentCore, MacDelCore
  <2>2. enqpkt' = enqpkt /\ delayMap' = delayMap /\ used'.refuse = used.refuse
    BY <1>1, <1>3, UsedIs DEF qVars, BusFailed, StatusSent, MacDel
  <2>3. QED
    BY <1>1, <2>1, <2>2, EnqueuedKept
<1>4. CASE WorkRefused
  <2>1. used'.refuse # 0 /\ enqpkt' = enqpkt /\ delayMap' = delayMap
    BY SMTT(30), <1>1, <1>4, UsedIs DEF WorkRefused
  <2>2. QED
    BY <1>1, <2>1, EnqueuedNext DEF Enqueued
<1>5. CASE UNCHANGED fwsVars
  <2>1. InQueue' = InQueue /\ enqpkt' = enqpkt /\ delayMap' = delayMap /\ used' = used /\ pkt' = pkt
    BY <1>5 DEF fwsVars, qVars, InQueue, HeldFor
  <2>2. QED
    BY <1>1, <2>1, EnqueuedKept DEF Keep
<1>6. QED
  BY <1>2, <1>3, <1>4, <1>5, EnqueuedArrives, EnqueuedDeq, EnqueuedSuppressed DEF FwsNext, FwStep

-----------------------------------------------------------------------------
(* The worker has looked.                                                    *)
SameReady == ent' = ent /\ delayq' = delayq /\ supprq' = supprq

LEMMA ReadySame == ASSUME SameReady, NEW f PROVE Ready(f)' = Ready(f)
  BY DEF SameReady, Ready, Served, Closed, Offer, HoldsBack

\* Looking in vain makes no packet ready.
LEMMA ReadyVain == ASSUME FwsInv, NEW x, ent' = ent \/ ent' = Recovered(Vain(x)),
                          delayq' = delayq, supprq' = supprq, NEW f
  PROVE  Ready(f)' \subseteq Ready(f)
<1>1. ent \in [Entry -> Descriptors]
  BY DEF FwsInv, Core, Types
<1>2. CASE ent' = ent
  BY <1>2, ReadySame DEF SameReady
<1>3. CASE ent' = Recovered(Vain(x))
  <2> SUFFICES ASSUME NEW e \in Entry, ent'[e].occupied PROVE Dims(e, f)
    BY ReadyDims
  <2>1. ent[e] \in Descriptors /\ (e \in Vain(x) => ent[e].supprTransit = 0)
    BY <1>1 DEF Vain
  <2>2. ent'[e] = [ent[e] EXCEPT !.suppressed = ent[e].suppressed /\ e \notin Vain(x)]
    BY <1>1, <1>3, RecoveredIs
  <2>3. /\ ent'[e].occupied = ent[e].occupied /\ ent'[e].open = ent[e].open
        /\ ent'[e].request = ent[e].request /\ ent'[e].supprTransit = ent[e].supprTransit
        /\ ent'[e].suppressed = (ent[e].suppressed /\ e \notin Vain(x))
    BY <2>1, <2>2 DEF Descriptors
  <2>4. QED
    BY <2>1, <2>3 DEF Dims
<1>4. QED
  BY <1>2, <1>3

LEMMA LookedSame == ASSUME Looked, SameReady, SameCredit, wk' = wk, deqQueued' = deqQueued,
                           busBlocked' = busBlocked, used'.refuse = used.refuse
  PROVE  Looked'
<1>1. \A f : Ready(f)' = Ready(f)
  BY ReadySame
<1>2. \A f : Done(f)' = Done(f)
  BY DEF Done
<1>3. QED
  BY <1>1, <1>2 DEF Looked, SameCredit

\* The fifos the worker is done with when it goes on from f.
LEMMA PassedOn == ASSUME Types, ~busBlocked, NEW x \in Fifo, NEW f \in Fifo, Done(f)',
                         wk' = NextFifo(x) \/ wk' = At("borrow", x)
  PROVE  f >= x
<1>1. x \in Nat /\ f \in Nat
  BY FwsConsts
<1>2. \/ wk' = Idle /\ x = 0
      \/ wk' = At("own", x - 1)
      \/ wk' = At("borrow", x)
  BY DEF NextFifo
<1>3. CASE wk' = Idle /\ x = 0
  BY <1>1, <1>3
<1>4. CASE wk' = At("own", x - 1)
  <2>1. wk'.at = "own" /\ wk'.fifo = x - 1
    BY <1>4 DEF At
  <2>2. f > x - 1
    BY <2>1 DEF Done
  <2>3. QED
    BY <1>1, <2>2
<1>5. CASE wk' = At("borrow", x)
  <2>1. wk'.at = "borrow" /\ wk'.fifo = x
    BY <1>5 DEF At
  <2>2. QED
    BY <1>1, <2>1 DEF Done
<1>6. QED
  BY <1>2, <1>3, <1>4, <1>5

LEMMA LookedBlocked == ASSUME busBlocked' PROVE Looked'
  BY DEF Looked

LEMMA LookedBegin == ASSUME Rested, WorkBegin PROVE Looked'
<1>1. CASE busBlocked
  BY <1>1, LookedBlocked DEF WorkBegin
<1>2. CASE ~busBlocked
  <2>1. wk'.at = "own" /\ wk'.fifo = Top
    BY <1>2 DEF WorkBegin, At
  <2>2. \A f \in Fifo : ~(f > Top)
    BY FwsConsts
  <2>3. creditMap' \subseteq Fifo
    BY DEF WorkBegin, credVars, Rested, FwsInv, Core, Types
  <2>4. \A f \in creditMap' : ~Done(f)'
    BY <2>1, <2>2, <2>3 DEF Done
  <2>5. QED
    BY <2>4 DEF Looked
<1>3. QED
  BY <1>1, <1>2

LEMMA LookedOwnDone == ASSUME Rested, WorkOwnDone PROVE Looked'
<1>1. FwsInv /\ Looked /\ Types /\ wk.fifo \in Fifo /\ creditMap \subseteq Fifo /\ wk.at = "own"
  BY DEF Rested, FwsInv, Core, Types, WorkOwnDone
<1>2. CASE busBlocked
  BY <1>2, LookedBlocked DEF WorkOwnDone
<1>3. CASE ~busBlocked
  <2>1. /\ deqQueued' = deqQueued /\ busBlocked' = busBlocked /\ used' = used
        /\ creditMap' = creditMap /\ credit' = credit
        /\ wk' = NextFifo(wk.fifo) \/ wk' = At("borrow", wk.fifo)
        /\ credit[wk.fifo] = 0 \/ Ready(wk.fifo) = {}
    BY DEF WorkOwnDone, Own2, credVars
  <2>2. \A f \in Fifo : Ready(f)' \subseteq Ready(f)
    <3>1. /\ ent' = ent \/ ent' = Recovered(Vain(wk.fifo))
          /\ delayq' = delayq /\ supprq' = supprq
      BY DEF WorkOwnDone, qVars
    <3>2. QED
      BY <1>1, <3>1, ReadyVain
  <2>3. ASSUME NEW f \in creditMap', Done(f)', credit'[f] > 0
        PROVE  \/ Ready(f)' = {}
               \/ f \in creditMap /\ Done(f) /\ credit[f] > 0 /\ Ready(f)' \subseteq Ready(f)
    <3>1. f \in Fifo /\ f >= wk.fifo
      BY <1>1, <1>3, <2>1, <2>3, PassedOn
    <3>2. CASE f = wk.fifo
      BY <2>1, <2>2, <2>3, <3>1, <3>2
    <3>3. CASE f > wk.fifo
      BY <2>1, <2>2, <2>3, <3>1, <3>3 DEF Done
    <3>4. QED
      BY <1>1, <3>1, <3>2, <3>3, FwsConsts
  <2>4. QED
    BY <1>1, <2>1, <2>3, LookedKept
<1>4. QED
  BY <1>2, <1>3

LEMMA LookedOwn == ASSUME Rested, WorkOwn PROVE Looked'
<1>1. /\ FwsInv /\ Core /\ Looked /\ wk.fifo \in Fifo /\ creditMap \subseteq Fifo
      /\ credit \in [Fifo -> Int]
  BY DEF Rested, FwsInv, Core, Types
<1>2. PICK e \in Ready(wk.fifo) : \E seen \in SUBSET Vain(wk.fifo) : \E s \in Slot :
        /\ Deq(e, wk.fifo, seen)
        /\ wk' = [at |-> "hand", fifo |-> wk.fifo, from |-> "own", slot |-> s]
  BY <1>1, WorkOwnCore
<1>3. PICK seen \in SUBSET Vain(wk.fifo) :
        /\ Deq(e, wk.fifo, seen)
        /\ wk'.at = "hand" /\ wk'.fifo = wk.fifo /\ wk'.from = "own"
  BY <1>2
<1>4. /\ deqQueued' = deqQueued /\ busBlocked' = busBlocked /\ used' = used
      /\ creditMap' = creditMap /\ \A f \in Fifo : f # wk.fifo => credit'[f] = credit[f]
  BY <1>1 DEF WorkOwn
<1>5. ASSUME used'.refuse = 0, NEW f \in creditMap', Done(f)', credit'[f] > 0
      PROVE  f \in creditMap /\ Done(f) /\ credit[f] > 0 /\ Ready(f)' \subseteq Ready(f)
  <2>1. f \in Fifo /\ f > wk.fifo
    BY <1>1, <1>3, <1>4, <1>5 DEF Done
  <2>2. f # wk.fifo
    BY <1>1, <2>1, FwsConsts
  <2>3. Ready(f)' \subseteq Ready(f)
    BY <1>1, <1>3, <1>4, <1>5, <2>1, <2>2, DeqDims
  <2>4. QED
    BY <1>4, <1>5, <2>1, <2>2, <2>3 DEF Done
<1>6. QED
  BY <1>1, <1>4, <1>5, LookedKept

LEMMA LookedBorrow == ASSUME Rested, WorkBorrow PROVE Looked'
<1>1. /\ FwsInv /\ Core /\ Looked /\ Handing /\ wk.fifo \in Fifo /\ creditMap \subseteq Fifo
      /\ credit \in [Fifo -> Int] /\ wk.at = "borrow" /\ Ready(wk.fifo) # {}
  BY DEF Rested, FwsInv, Core, Types, WorkBorrow
<1>2. PICK e \in Ready(wk.fifo) : \E seen \in SUBSET Vain(wk.fifo) : \E s \in Slot :
        /\ Deq(e, wk.fifo, seen)
        /\ wk' = [at |-> "hand", fifo |-> wk.fifo, from |-> "borrow", slot |-> s]
  BY <1>1, WorkBorrowCore
<1>3. PICK seen \in SUBSET Vain(wk.fifo) :
        Deq(e, wk.fifo, seen) /\ wk'.at = "hand" /\ wk'.fifo = wk.fifo
  BY <1>2
<1>4. deqQueued' = deqQueued /\ busBlocked' = busBlocked /\ used' = used
  BY DEF WorkBorrow
<1>5. PICK l \in Fifo : /\ l < wk.fifo
                        /\ \A x \in Fifo : x # l => credit'[x] = credit[x]
                        /\ creditMap' = (IF credit[l] = 1 THEN creditMap \ {l} ELSE creditMap)
                                        \cup {wk.fifo}
  BY <1>1, LoanIs DEF WorkBorrow
<1> SUFFICES ASSUME used'.refuse = 0, ~deqQueued', ~busBlocked', NEW f \in creditMap', Done(f)',
                    credit'[f] > 0
             PROVE  Ready(f)' = {}
  BY DEF Looked
<1>6. f \in Fifo /\ (f > wk.fifo \/ f = wk.fifo)
  BY <1>1, <1>3, <1>5 DEF Done
<1>7. f # l /\ Done(f) /\ credit[f] > 0
  <2>1. f # l
    BY <1>5, <1>6, <1>1, FwsConsts
  <2>2. QED
    BY <1>1, <1>5, <1>6, <2>1 DEF Done
<1>8. CASE f = wk.fifo
  <2>1. f \in creditMap
    BY <1>1, <1>7, <1>8 DEF Handing
  <2>2. Ready(f) = {}
    BY <1>1, <1>4, <1>7, <2>1 DEF Looked
  <2>3. QED
    BY <1>1, <1>8, <2>2
<1>9. CASE f # wk.fifo
  <2>1. f \in creditMap
    BY <1>5, <1>7, <1>9
  <2>2. Ready(f) = {}
    BY <1>1, <1>4, <1>7, <2>1 DEF Looked
  <2>3. Ready(f)' \subseteq Ready(f)
    BY <1>1, <1>3, <1>4, <1>6, <1>9, DeqDims
  <2>4. QED
    BY <2>2, <2>3
<1>10. QED
  BY <1>8, <1>9

LEMMA LookedBorrowDone == ASSUME Rested, WorkBorrowDone PROVE Looked'
<1>1. /\ FwsInv /\ Types /\ Looked /\ wk.fifo \in Fifo /\ creditMap \subseteq Fifo
      /\ credit \in [Fifo -> Int] /\ wk.at = "borrow"
      /\ \A x \in Fifo : x \in Nat
  <2>1. FwsInv /\ Types /\ Looked /\ wk.at = "borrow"
    BY DEF Rested, FwsInv, Core, WorkBorrowDone
  <2>2. wk.fifo \in Fifo /\ creditMap \subseteq Fifo /\ credit \in [Fifo -> Int]
    BY <2>1 DEF Types
  <2>3. QED
    BY <2>1, <2>2, FwsConsts
<1>2. CASE busBlocked
  BY <1>2, LookedBlocked DEF WorkBorrowDone
<1>3. CASE ~busBlocked
  <2>1. /\ deqQueued' = deqQueued /\ busBlocked' = busBlocked /\ used' = used
        /\ wk' = NextFifo(wk.fifo)
    BY DEF WorkBorrowDone
  <2>2. \A f \in Fifo : Ready(f)' \subseteq Ready(f)
    <3>1. /\ ent' = ent \/ ent' = Recovered(Vain(wk.fifo))
          /\ delayq' = delayq /\ supprq' = supprq
      BY DEF WorkBorrowDone, qVars
    <3>2. QED
      BY <1>1, <3>1, ReadyVain
  <2>3. ASSUME NEW f \in creditMap', Done(f)', credit'[f] > 0, f \in Fifo
        PROVE  \/ Ready(f)' = {}
               \/ f \in creditMap /\ Done(f) /\ credit[f] > 0 /\ Ready(f)' \subseteq Ready(f)
    <3>1. f >= wk.fifo
      BY <1>1, <1>3, <2>1, <2>3, PassedOn
    <3>2. CASE CanLend(wk.fifo) = {}
      <4>1. creditMap' = creditMap \ {wk.fifo} /\ credit' = credit
        BY <3>2 DEF WorkBorrowDone
      <4>2. f > wk.fifo /\ f \in creditMap /\ credit[f] > 0
        BY <1>1, <2>3, <3>1, <4>1
      <4>3. QED
        BY <2>2, <2>3, <4>2 DEF Done
    <3>3. CASE CanLend(wk.fifo) # {}
      <4>1. Ready(wk.fifo) = {} /\ SetCred(Returned(Borrowed(wk.fifo), wk.fifo))
        BY <3>3 DEF WorkBorrowDone
      <4>2. CASE f = wk.fifo
        BY <2>2, <2>3, <4>1, <4>2
      <4>3. CASE f # wk.fifo
        <5>1. PICK l \in Fifo, m \in Fifo : SwapsLoan(wk.fifo, l, m)
          BY <1>1, <3>3, <4>1, LoanSwapped
        <5>2. f > wk.fifo /\ f # l /\ f # m
          BY <1>1, <2>3, <3>1, <4>3, <5>1 DEF SwapsLoan
        <5>3. f \in creditMap /\ credit[f] > 0
          BY <2>3, <4>3, <5>1, <5>2 DEF SwapsLoan
        <5>4. QED
          BY <2>2, <2>3, <5>2, <5>3 DEF Done
      <4>4. QED
        BY <4>2, <4>3
    <3>4. QED
      BY <3>2, <3>3
  <2>4. creditMap' \subseteq Fifo
    BY WorkBorrowDoneCore DEF Rested, FwsInv, Core, Types
  <2>5. QED
    BY <1>1, <2>1, <2>3, <2>4, LookedKept
<1>4. QED
  BY <1>2, <1>3

LEMMA LookedSent == ASSUME Rested, WorkSent PROVE Looked'
<1>1. FwsInv /\ Looked /\ wk.at = "hand" /\ wk.from \in {"own", "borrow"}
  BY DEF Rested, FwsInv, Core, Types, WorkSent
<1>2. CASE busBlocked
  BY <1>2, LookedBlocked DEF WorkSent
<1>3. CASE ~busBlocked
  <2>1. SameReady /\ SameCredit /\ used' = used /\ deqQueued' = deqQueued
        /\ busBlocked' = busBlocked
    BY DEF WorkSent, SameReady, SameCredit, qVars, credVars
  <2>2. wk'.at = wk.from /\ wk'.fifo = wk.fifo
    BY <1>3 DEF WorkSent, At
  <2>3. \A f : Done(f)' => Done(f)
    BY <1>1, <2>2 DEF Done
  <2>4. \A f : Ready(f)' = Ready(f)
    BY <2>1, ReadySame
  <2>5. QED
    BY <1>1, <2>1, <2>3, <2>4 DEF Looked, SameCredit
<1>4. QED
  BY <1>2, <1>3

\* A destination that closes, or leaves.
LEMMA LookedCloses == ASSUME Rested, MacState("close") \/ MacDel PROVE Looked'
<1>1. /\ Core /\ Looked /\ ent \in [Entry -> Descriptors] /\ delayq \in Queues /\ supprq \in Queues
      /\ sig # <<>> => Head(sig).e \in Entry
  <2>1. Core /\ Looked /\ Types
    BY DEF Rested, FwsInv, Core
  <2>2. ent \in [Entry -> Descriptors] /\ delayq \in Queues /\ supprq \in Queues
    BY <2>1 DEF Types
  <2>3. sig # <<>> => Head(sig) \in Signals
    BY <2>1 DEF Types
  <2>4. \A x \in Signals : x.e \in Entry
    BY DEF Signals
  <2>5. QED
    BY <2>1, <2>2, <2>3, <2>4
<1>2. /\ SameCredit /\ wk' = wk /\ deqQueued' = deqQueued /\ busBlocked' = busBlocked
      /\ used' = used
  BY DEF MacState, MacDel, SameCredit, credVars
<1>3. \A f \in Fifo : Ready(f)' \subseteq Ready(f)
  <2> SUFFICES ASSUME NEW f \in Fifo, NEW e \in Entry, ent'[e].occupied PROVE Dims(e, f)
    BY ReadyDims
  <2> DEFINE g == Head(sig).e
  <2>0. g \in Entry
    BY <1>1 DEF MacState, MacDel, Got
  <2>1. CASE e = g
    <3>1. ~MacDel
      <4>1. ASSUME MacDel PROVE FALSE
        <5>1. ent' = [ent EXCEPT ![g].occupied = FALSE, ![g].open = FALSE, ![g].request = 0]
          BY <4>1 DEF MacDel
        <5>2. ent'[g].occupied = FALSE
          BY <1>1, <2>0, <5>1 DEF Descriptors
        <5>3. QED
          BY <2>1, <5>2
      <4>2. QED
        BY <4>1
    <3>2. /\ ent' = IF ent[g].occupied
                    THEN [ent EXCEPT ![g].open = ("close" = "open"), ![g].request = 0] ELSE ent
          /\ delayq' = delayq /\ supprq' = supprq
      BY <3>1 DEF MacState, qVars
    <3>3. CASE ent[g].occupied
      <4>1. ent'[g] = [ent[g] EXCEPT !.open = FALSE, !.request = 0] /\ ent[g] \in Descriptors
        BY <1>1, <2>0, <3>2, <3>3
      <4>2. /\ ent'[g].open = FALSE /\ ent'[g].request = 0
            /\ ent'[g].suppressed = ent[g].suppressed /\ ent'[g].supprTransit = ent[g].supprTransit
        BY <4>1 DEF Descriptors
      <4>3. QED
        BY <2>1, <3>2, <3>3, <4>2 DEF Dims
    <3>4. CASE ~ent[g].occupied
      BY <2>1, <3>2, <3>4
    <3>5. QED
      BY <3>3, <3>4
  <2>2. CASE e # g
    <3>1. ent'[e] = ent[e]
      BY <1>1, <2>0, <2>2 DEF MacState, MacDel
    <3>2. delayq'[e] = delayq[e] /\ supprq'[e] = supprq[e]
      BY <1>1, <2>0, <2>2 DEF MacState, MacDel, qVars, Queues
    <3>3. QED
      BY <3>1, <3>2 DEF Dims
  <2>3. QED
    BY <2>1, <2>2
<1>4. \A f : Done(f)' = Done(f)
  BY <1>2 DEF Done
<1>5. creditMap \subseteq Fifo
  BY <1>1 DEF Core, Types
<1>6. QED
  BY <1>1, <1>2, <1>3, <1>4, <1>5, LookedKept DEF SameCredit

LEMMA LookedStep == ASSUME Rested, [FwsNext]_fwsVars PROVE Looked'
<1>1. Core /\ Looked /\ Core' /\ Enqueued'
  BY FwsInvStep, EnqueuedStep DEF Rested, FwsInv
<1>2. ASSUME \/ \E e \in Entry, f \in Fifo : ProcessSkb(e, f)
             \/ BusUnblock \/ BusFailed \/ StatusSent \/ StatusSuppressed \/ MacState("open")
             \/ MacRequest
      PROVE  Looked'
  <2>1. deqQueued' = Schedule(creditMap', delayMap')
    <3>1. CASE \E e \in Entry, f \in Fifo : ProcessSkb(e, f)
      BY <3>1 DEF ProcessSkb, credVars
    <3>2. CASE BusUnblock
      BY <3>2 DEF BusUnblock, credVars, qVars
    <3>3. CASE BusFailed
      BY <3>3 DEF BusFailed, qVars
    <3>4. CASE StatusSent
      BY <3>4 DEF StatusSent, qVars
    <3>5. CASE StatusSuppressed
      BY <3>5, SuppressedIs
    <3>6. CASE MacState("open") \/ MacRequest
      BY <3>6 DEF MacState, MacRequest, credVars, qVars
    <3>7. QED
      BY <1>2, <3>1, <3>2, <3>3, <3>4, <3>5, <3>6
  <2>2. QED
    BY <1>1, <2>1, LookedScheduled
<1>3. ASSUME FwTakes \/ \E e \in Entry : FwStep(e) PROVE Looked'
  <2>1. /\ SameReady /\ SameCredit /\ wk' = wk /\ deqQueued' = deqQueued
        /\ busBlocked' = busBlocked
    BY <1>3 DEF SameReady, SameCredit, qVars, credVars, FwTakes, FwStep, FwSleep, FwWake,
       FwRequest, FwDel, Rest
  <2>2. used'.refuse = used.refuse
    BY <1>1, <1>3, UsedIs DEF FwTakes, FwStep, FwSleep, FwWake, FwRequest, FwDel
  <2>3. QED
    BY <1>1, <2>1, <2>2, LookedSame
<1>4. CASE BusBlock
  BY <1>4, LookedBlocked DEF BusBlock
<1>5. CASE WorkRefused
  <2>1. used'.refuse # 0
    BY SMTT(30), <1>1, <1>5, UsedIs DEF WorkRefused
  <2>2. QED
    BY <2>1 DEF Looked
<1>6. CASE UNCHANGED fwsVars
  BY <1>1, <1>6, LookedSame DEF fwsVars, SameReady, SameCredit, qVars, credVars
<1>7. QED
  BY <1>2, <1>3, <1>4, <1>5, <1>6, LookedBegin, LookedOwn, LookedOwnDone, LookedBorrow,
     LookedBorrowDone, LookedSent, LookedCloses DEF FwsNext, FwStep

LEMMA RestedInit == ASSUME FwsInit PROVE Rested
<1>1. FwsInv
  BY FwsInvInit
<1>2. creditMap = Fifo /\ enqpkt = [f \in Fifo |-> 0] /\ wk.at = "idle"
  BY DEF FwsInit, Idle
<1>3. \A f \in Fifo : enqpkt[f] = 0
  BY <1>2
<1>4. \A e \in Entry, f \in Fifo : delayq[e][f] = <<>> /\ supprq[e][f] = <<>>
  BY DEF FwsInit, Empty
<1>5. InQueue = {}
  <2>1. ToSet(<<>>) = {}
    BY DEF ToSet
  <2>2. QED
    BY <1>4, <2>1 DEF InQueue, HeldFor
<1>6. \A f \in Fifo : Cardinality(Waits(f)) = 0 /\ Ready(f) = {}
  <2> SUFFICES ASSUME NEW f \in Fifo PROVE Cardinality(Waits(f)) = 0 /\ Ready(f) = {}
    OBVIOUS
  <2>1. Waits(f) = {} /\ Cardinality({}) = 0
    BY <1>5, FS_EmptySet DEF Waits
  <2>2. \A e \in Entry : Offer(e, f) = <<>>
    BY <1>4 DEF Offer
  <2>3. Ready(f) = {}
    BY <2>2 DEF Ready, Served
  <2>4. QED
    BY <2>1, <2>3
<1>7. QED
  BY <1>1, <1>2, <1>3, <1>6 DEF Rested, Marked, Handing, Enqueued, Looked

(* The worker never goes to rest with a packet it could send and nothing that *)
(* would wake it: what brcmf_fws_process_skb(), a status or a signal brings   *)
(* while it looks at another fifo or has dropped the lock has queued the work *)
(* again, until the bus refuses a packet.                                    *)
THEOREM NothingAlwaysStranded == FwsSpec => []NothingStranded
<1>1. ASSUME Rested PROVE NothingStranded
  <2> SUFFICES ASSUME wk.at = "idle", ~deqQueued, ~busBlocked, InFlight = {}, used.refuse = 0,
                      NEW f \in Fifo, credit[f] > 0
               PROVE  Ready(f) = {}
    BY DEF NothingStranded
  <2>1. f \in creditMap
    BY <1>1 DEF Rested, Marked, In
  <2>2. QED
    BY <1>1, <2>1 DEF Rested, Looked, Done
<1>2. Rested /\ [FwsNext]_fwsVars => Rested'
  BY FwsInvStep, MarkedStep, HandingStep, EnqueuedStep, LookedStep DEF Rested
<1>3. QED
  BY <1>1, <1>2, RestedInit, PTL DEF FwsSpec
=============================================================================
