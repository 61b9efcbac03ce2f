------------------------------ MODULE Command -------------------------------
(***************************************************************************)
(* The control side of the msgbuf protocol on PCIe: the one firmware command *)
(* at a time, its answer or its timeout, the buffers the driver posts for    *)
(* answers, events and received frames, and the messages that put the device *)
(* to sleep and wake it.                                                     *)
(*                                                                           *)
(* A command is known by its trans_id.  The code between taking proto_block  *)
(* and sending is one step with what it sends; the interrupt thread takes a  *)
(* message of a completion ring in one step.  Buffers are counted.           *)
(***************************************************************************)
EXTENDS Integers, Sequences, FiniteSets, SequencesExt

CONSTANTS
  MaxResp,     \* BRCMF_MSGBUF_MAX_IOCTLRESPBUF_POST
  MaxEvent,    \* BRCMF_MSGBUF_MAX_EVENTBUF_POST
  MaxRx,       \* max_rxbufpost, which the firmware chooses
  Threshold,   \* BRCMF_MSGBUF_RXBUFPOST_THRESHOLD
  Depth,       \* items the control ring holds
  MaxCmd,      \* bound: commands
  MaxLate,     \* bound: requests and suspensions given up
  MaxRefused   \* bound: buffers the allocator refuses

ASSUME Sizes ==
  /\ {MaxResp, MaxEvent, MaxRx, Threshold, Depth} \subseteq Nat \ {0}
  /\ {MaxCmd, MaxLate, MaxRefused} \subseteq Nat
  /\ Threshold <= MaxRx

VARIABLES
  cmd,        \* the holder of proto_block: "none", "checked", "waiting"
  reqid,      \* trans_id of the last command
  completed,  \* ctl_completed
  answer,     \* ioctl_resp_*: whose answer it is, and if its buffer is unread
  slip,       \* of the last answer taken: commands between it and the asker
  post,       \* cur_ioctlrespbuf, cur_eventbuf, rxbufpost
  ids,        \* entries of rx_pktids in use
  ctl,        \* control submit ring, items the firmware has not read
  hidden,     \* its last items, written while the device was down
  rsp,        \* control complete ring
  rxc,        \* receive complete ring: frames
  fw,         \* buffers the firmware holds, and its power state
  bus,        \* bus_if->state is BRCMF_BUS_UP
  dev,        \* devinfo->state is BRCMFMAC_PCIE_STATE_UP
  sus,        \* suspension: "no", "informed", "asleep"
  mbdata,     \* mbdata_completed
  late,       \* requests, and D3 informs, given up so far
  refused     \* buffers the allocator refused so far

cmdVars == <<cmd, reqid, completed, slip>>
bufVars == <<post, ids, refused>>
susVars == <<bus, dev, sus, mbdata>>
ringVars == <<ctl, hidden, rsp, rxc>>
vars == <<cmdVars, answer, bufVars, ringVars, fw, susVars, late>>

Kinds == {"resp", "event", "data"}
MaxOf == [resp |-> MaxResp, event |-> MaxEvent, data |-> MaxRx]
CtlMsgs == [m : {"ioctl", "resp", "event", "d3", "d0", "dsack"}, t : Nat]
RspMsgs == [m : {"answer", "event", "d3ack", "ds"}, t : Nat]
Msg(m, t) == [m |-> m, t |-> t]

TypeOK ==
  /\ cmd \in {"none", "checked", "waiting"} /\ reqid \in Nat
  /\ answer \in [t : Nat, unread : BOOLEAN] /\ slip \in Int
  /\ post \in [Kinds -> Nat] /\ ids \in Nat
  /\ ctl \in Seq(CtlMsgs) /\ hidden \in 0..Len(ctl)
  /\ rsp \in Seq(RspMsgs) /\ rxc \in Nat
  /\ fw \in [has : [Kinds -> Nat], awake : BOOLEAN]
  /\ {completed, bus, dev, mbdata} \subseteq BOOLEAN
  /\ sus \in {"no", "informed", "asleep"}
  /\ late \in [cmd : Nat, sus : Nat] /\ refused \in Nat

\* brcmf_proto_msgbuf_attach() and brcmf_pcie_preinit() are over.
Init ==
  /\ cmd = "none" /\ reqid = 0 /\ completed = FALSE /\ slip = 0
  /\ answer = [t |-> 0, unread |-> FALSE]
  /\ post = MaxOf /\ ids = MaxResp + MaxEvent + MaxRx
  /\ ctl = <<>> /\ hidden = 0 /\ rsp = <<>> /\ rxc = 0
  /\ fw = [has |-> MaxOf, awake |-> TRUE]
  /\ bus = TRUE /\ dev = TRUE /\ sus = "no" /\ mbdata = FALSE
  /\ late = [cmd |-> 0, sus |-> 0] /\ refused = 0

-----------------------------------------------------------------------------
(* Writing the control ring: what is written while the device is down stays  *)
(* in the ring and is shown to the firmware by the next write.               *)
Room == Depth - Len(ctl)

Write(msgs) ==
  /\ ctl' = ctl \o msgs
  /\ hidden' = IF dev THEN 0 ELSE hidden + Len(msgs)

\* brcmf_msgbuf_rxbuf_ctrl_post(), after one buffer of kind k came back: as
\* many as are missing, fewer when the ring wraps, is full or memory is refused.
Missing(k) == MaxOf[k] - (post[k] - 1)

MutPosted(k, n) == [post EXCEPT ![k] = MaxOf[k]]   \* cancelled items count
Posted(k, n) == [post EXCEPT ![k] = @ - 1 + n]

CtrlPost(k) ==
  \E n \in 0..Missing(k) :
    /\ n <= Room
    /\ n = 0 /\ Room > 0 => refused < MaxRefused
    /\ refused' = IF n = 0 /\ Room > 0 THEN refused + 1 ELSE refused
    /\ post' = Posted(k, n)
    /\ ids' = ids - (IF k = "event" THEN 1 ELSE 0) + n
    /\ Write([i \in 1..n |-> Msg(k, 0)])

-----------------------------------------------------------------------------
(* A command: brcmf_fil_cmd_data() to brcmf_msgbuf_query_dcmd(), all under   *)
(* proto_block.                                                              *)
CmdCheck ==
  /\ cmd = "none" /\ bus /\ reqid < MaxCmd
  /\ cmd' = "checked"
  /\ UNCHANGED <<reqid, completed, slip, answer, bufVars, ringVars, fw, susVars, late>>

MutArmed == completed   \* the answer to the last command counts
Armed == FALSE

CmdSend ==
  /\ cmd = "checked" /\ Room > 0 /\ (dev \/ late.cmd < MaxLate)
  /\ completed' = Armed
  /\ reqid' = reqid + 1
  /\ Write(<<Msg("ioctl", reqid + 1)>>)
  /\ IF dev THEN cmd' = "waiting" /\ UNCHANGED late
            ELSE cmd' = "none" /\ late' = [late EXCEPT !.cmd = @ + 1]
  /\ UNCHANGED <<slip, answer, bufVars, rsp, rxc, fw, susVars>>

CmdNoRoom ==
  /\ cmd = "checked" /\ Room = 0
  /\ cmd' = "none" /\ completed' = Armed
  /\ UNCHANGED <<reqid, slip, answer, bufVars, ringVars, fw, susVars, late>>

\* The buffer is taken even when the answer is empty.
Taken == IF answer.unread THEN 1 ELSE 0

CmdTake ==
  /\ cmd = "waiting" /\ completed
  /\ cmd' = "none" /\ slip' = reqid - answer.t
  /\ ids' = ids - Taken
  /\ answer' = [answer EXCEPT !.unread = FALSE]
  /\ UNCHANGED <<reqid, completed, post, refused, ringVars, fw, susVars, late>>

CmdTimeout ==
  /\ cmd = "waiting" /\ ~completed /\ late.cmd < MaxLate
  /\ cmd' = "none" /\ late' = [late EXCEPT !.cmd = @ + 1]
  /\ UNCHANGED <<reqid, completed, slip, answer, bufVars, ringVars, fw, susVars>>

-----------------------------------------------------------------------------
(* The firmware: reads its messages in order, answers, reports events and    *)
(* frames in the buffers it holds.  Asleep, it waits for the wake-up.        *)
Shown == SubSeq(ctl, 1, Len(ctl) - hidden)
Reading == fw.awake \/ Contains(Shown, Msg("d0", 0))

FwRead ==
  LET c == Head(ctl) IN
  /\ Shown # <<>> /\ Reading
  /\ ctl' = Tail(ctl)
  /\ CASE c.m = "ioctl" ->
            /\ fw.has["resp"] > 0
            /\ fw' = [fw EXCEPT !.has["resp"] = @ - 1]
            /\ rsp' = Append(rsp, Msg("answer", c.t))
       [] c.m \in {"resp", "event"} ->
            fw' = [fw EXCEPT !.has[c.m] = @ + 1] /\ UNCHANGED rsp
       [] c.m = "d3" ->
            fw' = [fw EXCEPT !.awake = FALSE] /\ rsp' = Append(rsp, Msg("d3ack", 0))
       [] c.m = "d0" -> fw' = [fw EXCEPT !.awake = TRUE] /\ UNCHANGED rsp
       [] c.m = "dsack" -> UNCHANGED <<fw, rsp>>
  /\ UNCHANGED <<cmdVars, answer, bufVars, hidden, rxc, susVars, late>>

FwEvent ==
  /\ fw.awake /\ fw.has["event"] > 0
  /\ fw' = [fw EXCEPT !.has["event"] = @ - 1]
  /\ rsp' = Append(rsp, Msg("event", 0))
  /\ UNCHANGED <<cmdVars, answer, bufVars, ctl, hidden, rxc, susVars, late>>

FwFrame ==
  /\ fw.awake /\ fw.has["data"] > 0
  /\ fw' = [fw EXCEPT !.has["data"] = @ - 1] /\ rxc' = rxc + 1
  /\ UNCHANGED <<cmdVars, answer, bufVars, ctl, hidden, rsp, susVars, late>>

\* The firmware asks to enter deep sleep, once at a time.
FwDeepSleep ==
  /\ fw.awake /\ ~Contains(rsp, Msg("ds", 0)) /\ ~Contains(ctl, Msg("dsack", 0))
  /\ rsp' = Append(rsp, Msg("ds", 0))
  /\ UNCHANGED <<cmdVars, answer, bufVars, ctl, hidden, rxc, fw, susVars, late>>

-----------------------------------------------------------------------------
(* The interrupt thread: nothing while the device is down.                   *)
Rx(m) == dev /\ rsp # <<>> /\ Head(rsp).m = m /\ rsp' = Tail(rsp)

\* brcmf_msgbuf_process_ioctl_complete(): whoever waits is woken.
RxAnswer ==
  /\ Rx("answer")
  /\ answer' = [t |-> Head(rsp).t, unread |-> TRUE]
  /\ completed' = TRUE
  /\ CtrlPost("resp")
  /\ UNCHANGED <<cmd, reqid, slip, rxc, fw, susVars, late>>

RxEvent ==
  /\ Rx("event")
  /\ CtrlPost("event")
  /\ UNCHANGED <<cmdVars, answer, rxc, fw, susVars, late>>

MutLow(n) == n < MaxRx - Threshold
Low(n) == n <= MaxRx - Threshold

\* brcmf_msgbuf_process_rx_complete(); the post ring is as deep as there are
\* buffers.  An allocation that fails at once ends the filling.
RxFrame ==
  LET left == post["data"] - 1 IN
  /\ dev /\ rxc > 0 /\ rxc' = rxc - 1
  /\ \E n \in IF Low(left) THEN 0..(MaxRx - left) ELSE {0} :
       LET short == Low(left) /\ n < MaxRx - left IN
       /\ short => refused < MaxRefused
       /\ refused' = IF short THEN refused + 1 ELSE refused
       /\ post' = [post EXCEPT !["data"] = left + n]
       /\ ids' = ids - 1 + n
       /\ fw' = [fw EXCEPT !.has["data"] = @ + n]
  /\ UNCHANGED <<cmdVars, answer, ctl, hidden, rsp, susVars, late>>

RxD3Ack ==
  /\ Rx("d3ack")
  /\ mbdata' = TRUE
  /\ UNCHANGED <<cmdVars, answer, bufVars, ctl, hidden, rxc, fw, bus, dev, sus, late>>

\* The acknowledgement is dropped when the ring is full.
RxDeepSleep ==
  /\ Rx("ds")
  /\ IF Room > 0 THEN Write(<<Msg("dsack", 0)>>) ELSE UNCHANGED <<ctl, hidden>>
  /\ UNCHANGED <<cmdVars, answer, bufVars, rxc, fw, susVars, late>>

-----------------------------------------------------------------------------
(* brcmf_pcie_pm_enter_D3(), brcmf_pcie_pm_leave_D3()                        *)
MutForgetAck == mbdata   \* an older acknowledgement counts
ForgetAck == FALSE

EnterD3 ==
  /\ sus = "no" /\ bus
  /\ sus' = "informed" /\ bus' = FALSE /\ mbdata' = ForgetAck
  /\ IF Room > 0 THEN Write(<<Msg("d3", 0)>>) ELSE UNCHANGED <<ctl, hidden>>
  /\ UNCHANGED <<cmdVars, answer, bufVars, rsp, rxc, fw, dev, late>>

D3Acked ==
  /\ sus = "informed" /\ mbdata
  /\ sus' = "asleep" /\ dev' = FALSE
  /\ UNCHANGED <<cmdVars, answer, bufVars, ringVars, fw, bus, mbdata, late>>

D3Timeout ==
  /\ sus = "informed" /\ ~mbdata /\ late.sus < MaxLate
  /\ sus' = "no" /\ bus' = TRUE /\ late' = [late EXCEPT !.sus = @ + 1]
  /\ UNCHANGED <<cmdVars, answer, bufVars, ringVars, fw, dev, mbdata>>

WakeUp == <<Msg("d0", 0)>>

\* A device that kept its power
LeaveD3 ==
  /\ sus = "asleep" /\ Room > 0
  /\ ctl' = ctl \o WakeUp /\ hidden' = 0
  /\ dev' = TRUE /\ bus' = TRUE /\ sus' = "no"
  /\ UNCHANGED <<cmdVars, answer, bufVars, rsp, rxc, fw, mbdata, late>>

-----------------------------------------------------------------------------
Caller == CmdCheck \/ CmdSend \/ CmdNoRoom \/ CmdTake \/ CmdTimeout
Firmware == FwRead \/ FwEvent \/ FwFrame \/ FwDeepSleep
Interrupt == RxAnswer \/ RxEvent \/ RxFrame \/ RxD3Ack \/ RxDeepSleep
Suspend == EnterD3 \/ D3Acked \/ D3Timeout \/ LeaveD3

Next == Caller \/ Firmware \/ Interrupt \/ Suspend

Spec == Init /\ [][Next]_vars

-----------------------------------------------------------------------------
\* A command may be given an earlier one's answer, the late answer to one that
\* was given up; it is never further behind than commands were given up.
SlipBounded == slip >= 0 /\ slip <= late.cmd

Count(s, m) == Cardinality({i \in DOMAIN s : s[i].m = m})

Lost == ids - post["resp"] - post["event"] - post["data"]
          - (IF answer.unread THEN 1 ELSE 0)

\* No buffer is lost count of: the driver's counts are the buffers with the
\* firmware, on their way to it or on their way back, and a packet id outlives
\* its buffer only when the answer in it was never read, once for each command
\* given up.
BuffersAccounted ==
  /\ post["resp"] = fw.has["resp"] + Count(ctl, "resp") + Count(rsp, "answer")
  /\ post["event"] = fw.has["event"] + Count(ctl, "event") + Count(rsp, "event")
  /\ post["data"] = fw.has["data"] + rxc
  /\ Lost >= 0 /\ Lost <= late.cmd

\* The firmware is fed: what the driver has posted is short of its aim only by
\* what the allocator refused or the control ring had no room for.
Fed == post["data"] + refused > MaxRx - Threshold

\* Until a suspension is given up, host and device agree: a device taken for
\* asleep has said so, and when the bus is up it is awake or told to wake.
PowerAgrees ==
  late.sus = 0 =>
    /\ ~dev => ~fw.awake
    /\ bus => fw.awake \/ Contains(ctl, Msg("d0", 0))
=============================================================================
