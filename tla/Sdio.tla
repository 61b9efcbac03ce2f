-------------------------------- MODULE Sdio --------------------------------
(***************************************************************************)
(* The SDIO bus of the driver: the deferred procedure (dpc) that reads the   *)
(* status, reads frames, sends the one control frame and the queued data     *)
(* frames; the callers that fill the control slot and the data queue and     *)
(* trigger it; the watchdog that puts the bus to sleep; the BCDC command     *)
(* that waits for its answer.                                                *)
(*                                                                           *)
(* What runs under sdio_claim_host() is one step.  The chip has no           *)
(* save-restore (sr_enabled is false) and interrupts are used, not polling.  *)
(* A caller queues and triggers in one step, in this order.                  *)
(* fc stands for the firmware's two ways to stop data, fcstate and the bits  *)
(* of bus->flowcontrol; precedences of the queue are not told apart, a glom  *)
(* is read frame by frame.                                                   *)
(***************************************************************************)
EXTENDS Integers, Sequences, FiniteSets, FiniteSetsExt

CONSTANTS
  Wrap,        \* SDPCM_SEQ_WRAP, 256
  Sane,        \* the largest window believed, 0x40
  Window,      \* frames the firmware lets the host send ahead
  Reserve,     \* TXCTL_CREDITS, 2
  Glom,        \* txglomsz, 1 when txglom is off
  Hi, Low,     \* TXHI, TXLOW
  QueueLen,    \* TXQLEN
  RxBound, TxBound,   \* rxbound, txbound
  MaxFrames,   \* bound: frames waiting in the device
  MaxData,     \* bound: data frames the queue takes
  MaxCmd,      \* bound: commands
  MaxFaults    \* bound: waits that time out and transfers that fail

ASSUME Sizes ==
  /\ {Wrap, Sane, Window, Glom, Hi, Low, QueueLen, RxBound, TxBound} \subseteq Nat \ {0}
  /\ {Reserve, MaxFrames, MaxData, MaxCmd, MaxFaults} \subseteq Nat
  /\ Low <= Hi /\ Hi <= QueueLen /\ Window <= Sane /\ Sane < Wrap \div 2

VARIABLES
  txq, txoff, blocked,   \* frames of bus->txq; txoff; the stack is stopped
  seq, max,    \* tx_seq, tx_max
  fc,          \* the firmware stopped data
  stat, ctlerr,\* ctrl_frame_stat; ctrl_frame_err is not 0
  cmd, reqid,  \* the caller of a command, and bcdc->reqid
  res,         \* how the last command ended
  onbus,       \* its frame was written to the device
  rxctl,       \* the command whose answer is in bus->rxctl, or 0
  rxskip, rxpending, ints, ipend,
  triggered, queued,     \* dpc_triggered; datawork is queued
  pc, left, err,         \* datawork: where it is, frames it may still move, err
  clk, dog,    \* clkstate; the watchdog thread
  dq, line,    \* device: frames to read, status bits
  asks, nak,   \* device: commands not answered, a NAK not handled
  lost,        \* history: an error forgot the indication of the frames in dq
  fed,         \* data frames queued so far
  faults       \* waits timed out and transfers failed so far

queueVars == <<txq, txoff, blocked, fed>>
winVars == <<seq, max, fc>>
ctlVars == <<stat, ctlerr, onbus>>
cmdVars == <<cmd, reqid, res>>
rxVars == <<rxctl, rxskip, rxpending>>
intVars == <<ints, ipend>>
runVars == <<triggered, queued>>
dpcVars == <<pc, left, err>>
clkVars == <<clk, dog>>
devVars == <<dq, line, asks, nak, lost>>
vars == <<queueVars, winVars, ctlVars, cmdVars, rxVars, intVars, runVars,
          dpcVars, clkVars, devVars, faults>>

TypeOK ==
  /\ txq \in 0..QueueLen /\ {txoff, blocked, fc, stat, ctlerr, onbus} \subseteq BOOLEAN
  /\ {seq, max} \subseteq 0..(Wrap - 1)
  /\ cmd \in {"idle", "sending", "late", "asked"}
  /\ res \in {"none", "unsent"}
  /\ {reqid, rxctl} \subseteq 0..MaxCmd
  /\ {rxskip, rxpending, ipend, triggered, queued, err, nak, lost} \subseteq BOOLEAN
  /\ ints \subseteq {"frame", "mbox"} /\ line \subseteq {"frame", "mbox"}
  /\ pc \in {"idle", "loop", "rx", "ctl", "ctlsend", "tx", "send",
             "unblock", "end"}
  /\ left \in 0..(RxBound + TxBound)
  /\ clk \in {"none", "pending", "avail"} /\ dog \in {"idle", "claim"}
  /\ dq \in Seq(0..MaxCmd) /\ asks \in Seq(1..MaxCmd)
  /\ fed \in 0..MaxData /\ faults \in 0..MaxFaults

\* brcmf_sdio_probe() and brcmf_sdio_firmware_callback() are over.
Init ==
  /\ txq = 0 /\ txoff = FALSE /\ blocked = FALSE
  /\ seq = Wrap - 1 /\ max = 0 /\ fc = FALSE
  /\ stat = FALSE /\ ctlerr = FALSE /\ onbus = FALSE
  /\ cmd = "idle" /\ reqid = 0 /\ res = "none"
  /\ rxctl = 0 /\ rxskip = FALSE /\ rxpending = FALSE
  /\ ints = {} /\ ipend = FALSE /\ triggered = FALSE /\ queued = FALSE
  /\ pc = "idle" /\ left = 0 /\ err = FALSE
  /\ clk = "avail" /\ dog = "idle"
  /\ dq = <<>> /\ line = {} /\ asks = <<>> /\ nak = FALSE
  /\ lost = FALSE
  /\ fed = 0 /\ faults = 0

-----------------------------------------------------------------------------
\* brcmf_sdio_trigger_dpc()
Trigger ==
  /\ triggered' = TRUE
  /\ queued' = (queued \/ ~triggered)

\* u8 operands are promoted to int: the difference is negative when tx_max has
\* wrapped, and only its bit 0x80 is looked at.
Open(d) == d # 0 /\ d % Wrap < Wrap \div 2

MutData_ok == Open(max - seq)   \* nothing kept for the control frame
data_ok == Open(max - seq - (IF stat THEN Reserve ELSE 0))
txctl_ok == Open(max - seq)

CanFail == faults < MaxFaults
Fail(f) == faults' = IF f THEN faults + 1 ELSE faults

-----------------------------------------------------------------------------
(* Data from the stack: brcmf_sdio_bus_txdata().  A full queue refuses the   *)
(* frame, or drops one of lower precedence for it.                           *)
TxData ==
  /\ fed < MaxData \/ txq = QueueLen
  /\ fed' = IF txq < QueueLen THEN fed + 1 ELSE fed
  /\ txq' = IF txq < QueueLen THEN txq + 1 ELSE txq
  /\ IF txq' >= Hi THEN txoff' = TRUE /\ blocked' = TRUE
                   ELSE UNCHANGED <<txoff, blocked>>
  /\ Trigger
  /\ UNCHANGED <<winVars, ctlVars, cmdVars, rxVars, intVars, dpcVars, clkVars,
                 devVars, faults>>

-----------------------------------------------------------------------------
(* A command: brcmf_proto_bcdc_msg() and brcmf_sdio_bus_txctl(), then        *)
(* brcmf_proto_bcdc_cmplt() and brcmf_sdio_bus_rxctl().                      *)
CmdSend ==
  /\ cmd = "idle" /\ reqid < MaxCmd
  /\ reqid' = reqid + 1
  /\ stat' = TRUE /\ onbus' = FALSE
  /\ cmd' = "sending" /\ res' = "none"
  /\ Trigger
  /\ UNCHANGED <<queueVars, winVars, ctlerr, rxVars, intVars, dpcVars, clkVars,
                 devVars, faults>>

\* The wait ends because the slot was emptied, or late, claiming the host.
CmdSent ==
  /\ cmd \in {"sending", "late"} /\ ~stat
  /\ IF ctlerr THEN cmd' = "idle" /\ res' = "unsent"
               ELSE cmd' = "asked" /\ UNCHANGED res
  /\ UNCHANGED <<queueVars, winVars, ctlVars, reqid, rxVars, intVars,
                 runVars, dpcVars, clkVars, devVars, faults>>

CmdLate ==
  /\ cmd = "sending" /\ stat /\ CanFail
  /\ cmd' = "late" /\ Fail(TRUE)
  /\ UNCHANGED <<queueVars, winVars, ctlVars, reqid, res, rxVars, intVars,
                 runVars, dpcVars, clkVars, devVars>>

MutStillArmed == TRUE   \* ctrl_frame_stat is not read again under the claim
StillArmed == stat

CmdTimeout ==
  /\ cmd = "late" /\ StillArmed
  /\ stat' = FALSE
  /\ cmd' = "idle" /\ res' = "unsent"
  /\ UNCHANGED <<queueVars, winVars, ctlerr, onbus, reqid, rxVars,
                 intVars, runVars, dpcVars, clkVars, devVars, faults>>

\* An answer to an earlier command is thrown away and the wait goes on.
Mine(id) == id = reqid

CmdAnswer ==
  /\ cmd = "asked" /\ rxctl # 0
  /\ rxctl' = 0
  /\ cmd' = IF Mine(rxctl) THEN "idle" ELSE cmd
  /\ UNCHANGED <<queueVars, winVars, ctlVars, reqid, res, rxskip,
                 rxpending, intVars, runVars, dpcVars, clkVars, devVars, faults>>

CmdNoAnswer ==
  /\ cmd = "asked" /\ rxctl = 0 /\ CanFail
  /\ Fail(TRUE)
  /\ cmd' = "idle"
  /\ UNCHANGED <<queueVars, winVars, ctlVars, reqid, res, rxVars, intVars, runVars,
                 dpcVars, clkVars, devVars>>

-----------------------------------------------------------------------------
\* brcmf_sdio_isr()
Isr ==
  /\ line # {} /\ ~ipend
  /\ ipend' = TRUE
  /\ triggered' = TRUE /\ queued' = TRUE
  /\ UNCHANGED <<queueVars, winVars, ctlVars, cmdVars, rxVars, ints, dpcVars,
                 clkVars, devVars, faults>>

\* brcmf_sdio_dataworker()
WorkStart ==
  /\ pc = "idle" /\ queued
  /\ queued' = FALSE /\ pc' = "loop"
  /\ UNCHANGED <<queueVars, winVars, ctlVars, cmdVars, rxVars, intVars,
                 triggered, left, err, clkVars, devVars, faults>>

WorkEnd ==
  /\ pc = "loop" /\ ~triggered
  /\ pc' = "idle"
  /\ UNCHANGED <<queueVars, winVars, ctlVars, cmdVars, rxVars, intVars,
                 runVars, left, err, clkVars, devVars, faults>>

-----------------------------------------------------------------------------
(* brcmf_sdio_dpc(), the part under the first claim.                         *)
\* brcmf_sdio_bus_sleep(bus, false, true): the clock is on, or will be.
Wake == clk' \in IF clk = "avail" THEN {"avail"} ELSE {"avail", "pending"}

\* brcmf_sdio_intr_rstatus(): the bits read are cleared in the device.
Rstatus(ok) == IF ipend /\ ok THEN ints \cup line ELSE ints

\* brcmf_sdio_hostmail(): the firmware has the frames ready again.
Hostmail(bits) ==
  IF "mbox" \in bits THEN [bits |-> (bits \ {"mbox"}) \cup {"frame"}, skip |-> FALSE]
                     ELSE [bits |-> bits, skip |-> rxskip]

Status ==
  /\ pc = "loop" /\ triggered
  /\ triggered' = FALSE
  /\ Wake
  /\ \E ok \in BOOLEAN :
       /\ ~ok => ipend /\ CanFail
       /\ Fail(~ok) /\ err' = ~ok
       /\ line' = IF ipend /\ ok THEN {} ELSE line
       /\ LET h == Hostmail(Rstatus(ok)) IN
            /\ rxskip' = h.skip
            /\ ints' = IF h.skip THEN h.bits \ {"frame"} ELSE h.bits
  /\ ipend' = FALSE
  /\ IF "frame" \in ints' /\ clk' = "avail"
     THEN pc' = "rx" /\ left' = RxBound /\ rxpending' = TRUE
     ELSE pc' = "ctl" /\ UNCHANGED <<left, rxpending>>
  /\ UNCHANGED <<queueVars, winVars, ctlVars, cmdVars, rxctl, queued, dog,
                 dq, asks, nak, lost>>

-----------------------------------------------------------------------------
(* brcmf_sdio_readframes(), a frame at a time.                               *)
Reading == pc = "rx" /\ ~rxskip /\ left > 0
Asleep == clk # "avail"

\* brcmf_sdio_hdparse() of a good header: flow control, and a window that is
\* believed when it is not too far ahead.
Header ==
  /\ fc' \in BOOLEAN
  /\ \E w \in (max - seq) % Wrap .. Window :
       LET tx_seq_max == (seq + w) % Wrap IN
         max' = IF (tx_seq_max - seq) % Wrap > Sane THEN (seq + 2) % Wrap
                                                   ELSE tx_seq_max

\* All zero: nothing more to read.
RxNone ==
  /\ Reading /\ ~Asleep /\ dq = <<>>
  /\ rxpending' = FALSE /\ left' = 0
  /\ UNCHANGED <<queueVars, winVars, ctlVars, cmdVars, rxctl, rxskip, intVars,
                 runVars, pc, err, clkVars, devVars, faults>>

RxData ==
  /\ Reading /\ ~Asleep /\ dq # <<>> /\ Head(dq) = 0
  /\ Header
  /\ dq' = Tail(dq) /\ left' = left - 1
  /\ UNCHANGED <<queueVars, seq, ctlVars, cmdVars, rxVars, intVars, runVars,
                 pc, err, clkVars, line, asks, nak, lost, faults>>

\* brcmf_sdio_read_control(): dropped when the last one is still held.
RxControl ==
  /\ Reading /\ ~Asleep /\ dq # <<>> /\ Head(dq) # 0
  /\ Header
  /\ rxctl' = IF rxctl = 0 THEN Head(dq) ELSE rxctl
  /\ dq' = Tail(dq) /\ left' = left - 1
  /\ UNCHANGED <<queueVars, seq, ctlVars, cmdVars, rxskip, rxpending, intVars,
                 runVars, pc, err, clkVars, line, asks, nak, lost, faults>>

\* brcmf_sdio_rxfail(): the frame is terminated; with a NAK the firmware sends
\* it again, and nothing is read until it says so.  Asleep, neither reaches it.
RxFail ==
  /\ Reading
  /\ \/ Asleep /\ UNCHANGED <<rxskip, dq, nak, faults>>
     \/ /\ ~Asleep /\ dq # <<>> /\ CanFail /\ Fail(TRUE)
        /\ \/ rxskip' = TRUE /\ nak' = TRUE /\ UNCHANGED dq
           \/ dq' = Tail(dq) /\ UNCHANGED <<rxskip, nak>>
  /\ left' = left - 1
  /\ UNCHANGED <<queueVars, winVars, ctlVars, cmdVars, rxctl, rxpending,
                 intVars, runVars, pc, err, clkVars, line, asks, lost>>

Unread == IF rxpending THEN {} ELSE {"frame"}

RxDone ==
  /\ pc = "rx" /\ (rxskip \/ left = 0)
  /\ ints' = ints \ Unread
  /\ pc' = "ctl" /\ left' = 0
  /\ UNCHANGED <<queueVars, winVars, ctlVars, cmdVars, rxVars, ipend, runVars,
                 err, clkVars, devVars, faults>>

-----------------------------------------------------------------------------
(* The control frame, then the data frames.                                  *)
DpcControl ==
  /\ pc = "ctl"
  /\ pc' = IF stat /\ ~Asleep /\ txctl_ok THEN "ctlsend" ELSE "tx"
  /\ UNCHANGED <<queueVars, winVars, ctlVars, cmdVars, rxVars, intVars,
                 runVars, left, err, clkVars, devVars, faults>>

\* brcmf_sdio_tx_ctrlframe(), after its retries.
Held == stat

TxControl ==
  /\ pc = "ctlsend" /\ Held
  /\ stat' = FALSE
  /\ \E ok \in BOOLEAN :
       /\ ok => ~Asleep
       /\ ~ok => Asleep \/ CanFail
       /\ Fail(~ok /\ ~Asleep)
       /\ err' = ~ok /\ ctlerr' = ~ok
       /\ seq' = IF ok THEN (seq + 1) % Wrap ELSE seq
       /\ onbus' = IF ok THEN TRUE ELSE onbus
       /\ asks' = IF ok THEN Append(asks, reqid) ELSE asks
  /\ pc' = "tx"
  /\ UNCHANGED <<queueVars, max, fc, cmdVars, rxVars, intVars, runVars, left,
                 clkVars, dq, line, nak, lost>>

TxControlGone ==
  /\ pc = "ctlsend" /\ ~Held
  /\ pc' = "tx"
  /\ UNCHANGED <<queueVars, winVars, ctlVars, cmdVars, rxVars, intVars,
                 runVars, left, err, clkVars, devVars, faults>>

Sendable == ~fc /\ txq > 0 /\ data_ok

DpcData ==
  /\ pc = "tx"
  /\ IF ~Asleep /\ Sendable
     THEN pc' = "send" /\ left' = IF rxpending THEN 1 ELSE TxBound
     ELSE pc' = "end" /\ UNCHANGED left
  /\ UNCHANGED <<queueVars, winVars, ctlVars, cmdVars, rxVars, intVars,
                 runVars, err, clkVars, devVars, faults>>

\* brcmf_sdio_sendfromq(): one brcmf_sdio_txpkt(), a glom of at most Glom
\* frames; a failed one is completed without success.
Batch == IF Glom = 1 THEN 1 ELSE Min({Glom, txq, (max - seq) % Wrap})

TxFrames ==
  /\ pc = "send" /\ left > 0 /\ data_ok /\ txq > 0
  /\ txq' = txq - Batch
  /\ left' = IF left > Batch THEN left - Batch ELSE 0
  /\ \E ok \in BOOLEAN :
       /\ ok => ~Asleep
       /\ ~ok => Asleep \/ CanFail
       /\ Fail(~ok /\ ~Asleep)
       /\ seq' = IF ok THEN (seq + Batch) % Wrap ELSE seq
  /\ UNCHANGED <<txoff, blocked, fed, max, fc, ctlVars, cmdVars, rxVars,
                 intVars, runVars, pc, err, clkVars, devVars>>

\* txoff is tested and cleared without txq_lock.
Drained == txoff /\ txq < Low

TxUnflow ==
  /\ pc = "send" /\ ~(left > 0 /\ data_ok /\ txq > 0)
  /\ pc' = IF Drained THEN "unblock" ELSE "end"
  /\ txoff' = (txoff /\ ~Drained) /\ left' = 0
  /\ UNCHANGED <<txq, blocked, fed, winVars, ctlVars, cmdVars, rxVars,
                 intVars, runVars, err, clkVars, devVars, faults>>

TxUnblock ==
  /\ pc = "unblock"
  /\ blocked' = FALSE /\ pc' = "end"
  /\ UNCHANGED <<txq, txoff, fed, winVars, ctlVars, cmdVars, rxVars, intVars,
                 runVars, left, err, clkVars, devVars, faults>>

\* An error empties the control slot and forgets the status bits; otherwise
\* what is left to do triggers the next round.
MutAgain == ints # {} \/ ipend   \* the queue is not looked at
Again == ints # {} \/ ipend \/ Sendable

DpcEnd ==
  /\ pc = "end"
  /\ IF err
     THEN /\ ints' = {} /\ lost' = (lost \/ "frame" \in ints)
          /\ stat' = FALSE /\ ctlerr' = (ctlerr \/ stat)
          /\ UNCHANGED triggered
     ELSE /\ triggered' = (triggered \/ Again)
          /\ UNCHANGED <<ints, lost, stat, ctlerr>>
  /\ pc' = "loop"
  /\ UNCHANGED <<queueVars, winVars, onbus, cmdVars, rxVars, ipend, queued,
                 left, err, clkVars, dq, line, asks, nak, faults>>

-----------------------------------------------------------------------------
\* brcmf_sdio_bus_watchdog(): idle for longer than idletime, it claims the host.
\* The timer runs (wd_active) while the clock is on or asked for.
WatchdogIdle ==
  /\ dog = "idle" /\ ~triggered /\ pc = "idle" /\ clk = "avail"
  /\ dog' = "claim"
  /\ UNCHANGED <<queueVars, winVars, ctlVars, cmdVars, rxVars, intVars,
                 runVars, dpcVars, clk, devVars, faults>>

WatchdogSleep ==
  /\ dog = "claim"
  /\ dog' = "idle" /\ clk' = "none"
  /\ UNCHANGED <<queueVars, winVars, ctlVars, cmdVars, rxVars, intVars,
                 runVars, dpcVars, devVars, faults>>

-----------------------------------------------------------------------------
(* The device.                                                               *)
Raise(b) == line' = line \cup {b} /\ lost' = FALSE

DevFrame ==
  /\ Len(dq) < MaxFrames
  /\ \/ dq' = Append(dq, 0) /\ UNCHANGED asks
     \/ /\ asks # <<>>
        /\ dq' = Append(dq, Head(asks)) /\ asks' = Tail(asks)
  /\ Raise("frame")
  /\ UNCHANGED <<queueVars, winVars, ctlVars, cmdVars, rxVars, intVars,
                 runVars, dpcVars, clkVars, nak, faults>>

DevNakHandled ==
  /\ nak
  /\ nak' = FALSE
  /\ Raise("mbox")
  /\ UNCHANGED <<queueVars, winVars, ctlVars, cmdVars, rxVars, intVars,
                 runVars, dpcVars, clkVars, dq, asks, faults>>

\* The clock that was asked for is on: an interrupt of its own.
DevClock ==
  /\ clk = "pending" /\ ~triggered
  /\ triggered' = TRUE /\ queued' = TRUE
  /\ UNCHANGED <<queueVars, winVars, ctlVars, cmdVars, rxVars, intVars,
                 dpcVars, clkVars, devVars, faults>>

Next ==
  \/ TxData
  \/ CmdSend \/ CmdSent \/ CmdLate \/ CmdTimeout \/ CmdAnswer
  \/ CmdNoAnswer
  \/ Isr \/ WorkStart \/ WorkEnd \/ Status
  \/ RxNone \/ RxData \/ RxControl \/ RxFail \/ RxDone
  \/ DpcControl \/ TxControl \/ TxControlGone \/ DpcData \/ TxFrames
  \/ TxUnflow \/ TxUnblock \/ DpcEnd
  \/ WatchdogIdle \/ WatchdogSleep
  \/ DevFrame \/ DevNakHandled \/ DevClock

Spec == Init /\ [][Next]_vars

-----------------------------------------------------------------------------
Resting == pc = "idle" /\ ~triggered

(* What a command is told is what happened to its control frame: a frame     *)
(* reported as timed out or failed is never on the bus, and one whose answer *)
(* is awaited was sent.  The caller and the dpc empty the slot both.         *)
CtlOutcome ==
  /\ cmd = "asked" => onbus
  /\ cmd = "idle" /\ res = "unsent" => ~onbus

(* A trigger is never lost: dpc_triggered is set only while the work is      *)
(* queued or running.                                                        *)
TriggerServed == triggered => queued \/ pc # "idle"

(* Nothing is left undone.  When nothing is triggered, a frame that could be *)
(* sent waits only after an error of the last round or for the clock; a frame*)
(* in the device whose indication was taken, only because a round that failed*)
(* forgot it or for the answer to a NAK that is still to come; and the stack *)
(* is stopped only while the queue is long.                                  *)
NoLostWork ==
  Resting =>
    /\ Sendable \/ (stat /\ txctl_ok) => err \/ clk # "avail"
    /\ dq # <<>> /\ line = {} => lost \/ (rxskip /\ nak)
    /\ blocked => txq >= Low

(* Every NAK is remembered by someone until frames are read again: while     *)
(* rxskip is set the firmware still owes NAKHANDLED, or its bit is on its way.*)
SkipEnds == rxskip => nak \/ "mbox" \in line \/ "mbox" \in ints

(* With credit left, a control frame that waits finds one: data never takes  *)
(* the last one from under it (TXCTL_CREDITS).                               *)
KeepsCredit == [][stat /\ stat' /\ txctl_ok => txctl_ok']_vars
=============================================================================
