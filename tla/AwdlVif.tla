------------------------------- MODULE AwdlVif -------------------------------
(***************************************************************************)
(* The life cycle of the AWDL virtual interface in the patched brcmfmac     *)
(* driver: the vendor command that asks the firmware for the interface, the *)
(* firmware event worker that links and registers it, the wiphy works that  *)
(* time a creation out or clean a failed one up, the vendor command that    *)
(* destroys it, another virtual-interface operation that shares the vif     *)
(* event, and the detach path.                                              *)
(*                                                                          *)
(* Every step is one critical section of the code: what runs between two    *)
(* acquisitions of vif_event_lock, or a call that may sleep.  The wiphy     *)
(* mutex is held exactly while op.pc is not "idle".                         *)
(***************************************************************************)
EXTENDS Naturals, Sequences, FiniteSets

CONSTANTS
  Vif,          \* brcmf_cfg80211_vif objects; an object is never allocated twice
  Ifp,          \* brcmf_if objects (with their net_device)
  Bss,          \* bsscfg indices the firmware gives to virtual interfaces
  None,         \* the null pointer
  OtherOps,     \* are other virtual interfaces added beside awdl0?
  Overlap,      \* may one be requested while an earlier IF_ADD is outstanding?
  IrqQuiesced   \* has the bus stopped its interrupt before brcmf_detach?

ASSUME NoneIsNoObject == None \notin Vif \cup Ifp \cup Bss
ASSUME SwitchTypes == {OtherOps, Overlap, IrqQuiesced} \subseteq BOOLEAN

VARIABLES
  vifState,  \* [Vif -> {"new","awdl","other","freed"}]
  vifIfp,    \* vif->ifp
  ifpState,  \* [Ifp -> {"new","alloc","awdl","sta","freed"}]; awdl, sta: registered
  ifpVif,    \* ifp->vif
  ifpBss,    \* ifp->bsscfgidx
  iflist,    \* drvr->iflist
  evVif,     \* cfg->vif_event.vif: the armed vif
  evAct,     \* cfg->vif_event.action
  awdlVif,   \* cfg->awdl_vif
  pending,   \* cfg->awdl_pending
  attaching, \* cfg->awdl_attaching
  failedIfp, \* cfg->awdl_failed_ifp
  tmo,       \* the wiphy delayed work awdl_timeout is queued
  cln,       \* the wiphy work awdl_cleanup is queued
  op,        \* the holder of the wiphy mutex: [pc, vif]
  wk,        \* the firmware event worker: [pc, ifp]
  evq,       \* fweh->event_q, in firmware order
  asked,     \* interface_create requests the firmware has not answered
  fwIf,      \* bsscfg indices in use in the firmware
  det,       \* progress of brcmf_detach
  nullFweh   \* an event was processed after drvr->fweh became NULL

vifVars == <<vifState, vifIfp>>
ifpVars == <<ifpState, ifpVif, ifpBss, iflist>>
evVars  == <<evVif, evAct>>
cfgVars == <<awdlVif, pending, attaching, failedIfp>>
wqVars  == <<tmo, cln>>
fwVars  == <<evq, asked, fwIf>>
detVars == <<det, nullFweh>>
vars == <<vifVars, ifpVars, evVars, cfgVars, wqVars, op, wk, fwVars, detVars>>

-----------------------------------------------------------------------------
Event == [act : {"ADD", "DEL"}, bss : Bss]

ObjectsOK ==
  /\ vifState \in [Vif -> {"new", "awdl", "other", "freed"}]
  /\ vifIfp \in [Vif -> Ifp \cup {None}]
  /\ ifpState \in [Ifp -> {"new", "alloc", "awdl", "sta", "freed"}]
  /\ ifpVif \in [Ifp -> Vif \cup {None}]
  /\ ifpBss \in [Ifp -> Bss \cup {None}]
  /\ iflist \in [Bss -> Ifp \cup {None}]

CfgOK ==
  /\ evVif \in Vif \cup {None}
  /\ evAct \in {"none", "ADD", "DEL"}
  /\ awdlVif \in Vif \cup {None}
  /\ pending \in BOOLEAN
  /\ attaching \in BOOLEAN
  /\ failedIfp \in Ifp \cup {None}
  /\ tmo \in BOOLEAN
  /\ cln \in BOOLEAN

ThreadsOK ==
  /\ op \in [pc : {"idle", "publish", "ask", "wait", "woken", "late"},
             vif : Vif \cup {None}]
  /\ wk \in [pc : {"idle", "added", "claim", "register", "attached", "fail",
                   "del", "remove"},
             ifp : Ifp \cup {None}]

FirmwareOK ==
  /\ evq \in Seq(Event)
  /\ asked \in Nat
  /\ fwIf \in SUBSET Bss
  /\ det \in {"no", "down", "drained", "stopped", "done"}
  /\ nullFweh \in BOOLEAN

TypeOK == ObjectsOK /\ CfgOK /\ ThreadsOK /\ FirmwareOK

Init ==
  /\ vifState = [v \in Vif |-> "new"]
  /\ vifIfp = [v \in Vif |-> None]
  /\ ifpState = [i \in Ifp |-> "new"]
  /\ ifpVif = [i \in Ifp |-> None]
  /\ ifpBss = [i \in Ifp |-> None]
  /\ iflist = [b \in Bss |-> None]
  /\ evVif = None /\ evAct = "none"
  /\ awdlVif = None /\ pending = FALSE /\ attaching = FALSE /\ failedIfp = None
  /\ tmo = FALSE /\ cln = FALSE
  /\ op = [pc |-> "idle", vif |-> None]
  /\ wk = [pc |-> "idle", ifp |-> None]
  /\ evq = <<>> /\ asked = 0 /\ fwIf = {}
  /\ det = "no" /\ nullFweh = FALSE

-----------------------------------------------------------------------------
Registered(i) == ifpState[i] \in {"awdl", "sta"}
Awdl0Exists   == \E i \in Ifp : ifpState[i] = "awdl"
WiphyFree     == op.pc = "idle"
BusUp         == det = "no"
WorkerIdle    == wk.pc = "idle"
IdleOp        == [pc |-> "idle", vif |-> None]
IdleWorker    == [pc |-> "idle", ifp |-> None]

(* An IF_ADD the driver has not finished with may still be on its way. *)
AddOutstanding ==
  \/ asked > 0
  \/ \E k \in DOMAIN evq : evq[k].act = "ADD"
  \/ wk.pc \in {"added", "claim"}

MayRequest == Overlap \/ ~AddOutstanding

(* The bus can still deliver a firmware event. *)
RxLive == det = "no" \/ (~IrqQuiesced /\ det # "done")

(* brcmf_cfg80211_arm_vif_event *)
ArmVifEvent(v) == evVif' = v /\ evAct' = "none"

(* Mutant: the armed vif is left armed. *)
MutNoDisarm(v) == UNCHANGED evVars

(* if (cfg->vif_event.vif == vif) { vif = NULL; action = 0; } *)
DisarmIf(v) ==
  IF evVif = v THEN ArmVifEvent(None) ELSE UNCHANGED evVars

(* brcmf_free_vif, for a pointer that may be null *)
FreeVif(v) ==
  vifState' = [u \in Vif |-> IF u = v THEN "freed" ELSE vifState[u]]

(* brcmf_del_if, brcmf_net_detach: the netdev, its private brcmf_if and,    *)
(* through brcmf_cfg80211_free_vif, the vif it is linked to.  Unregistering *)
(* takes the RTNL and, in cfg80211's notifier, the wiphy mutex.             *)
NetDetach(i) ==
  /\ Registered(i) => WiphyFree
  /\ ifpState' = [ifpState EXCEPT ![i] = "freed"]
  /\ FreeVif(ifpVif[i])

(* An interface_remove the firmware accepts: it drops the bsscfg and sends  *)
(* an IF_DEL, which is lost when the driver cannot allocate the event.      *)
FwRemove(b) ==
  /\ BusUp
  /\ b \in fwIf
  /\ fwIf' = fwIf \ {b}
  /\ evq' \in {evq, Append(evq, [act |-> "DEL", bss |-> b])}
  /\ UNCHANGED asked

-----------------------------------------------------------------------------
(* The vendor command BRCMF_VNDR_AWDL_OP_CREATE and brcmf_awdl_add_vif, up  *)
(* to arming the vif event.                                                 *)
CreateArm(v) ==
  /\ WiphyFree /\ MayRequest
  /\ ~Awdl0Exists
  /\ BusUp
  /\ evVif = None
  /\ ~pending
  /\ vifState[v] = "new"
  /\ vifState' = [vifState EXCEPT ![v] = "awdl"]
  /\ ArmVifEvent(v)
  /\ op' = [pc |-> "publish", vif |-> v]
  /\ UNCHANGED <<vifIfp, ifpVars, cfgVars, wqVars, wk, fwVars, detVars>>

(* cfg->awdl_vif and awdl_pending under the lock, then the timeout. *)
CreatePublish ==
  /\ op.pc = "publish"
  /\ awdlVif' = op.vif
  /\ pending' = TRUE
  /\ tmo' = TRUE
  /\ op' = [op EXCEPT !.pc = "ask"]
  /\ UNCHANGED <<vifVars, ifpVars, evVars, attaching, failedIfp, cln, wk,
                 fwVars, detVars>>

(* brcmf_cfg80211_request_awdl_if.  When it fails the request may have      *)
(* reached the firmware all the same; the timeout is queued again with no   *)
(* delay, which here is the same queued work.                               *)
CreateAsk ==
  /\ op.pc = "ask"
  /\ asked' \in {asked} \cup (IF BusUp THEN {asked + 1} ELSE {})
  /\ tmo' = TRUE
  /\ op' = IdleOp
  /\ UNCHANGED <<vifVars, ifpVars, evVars, cfgVars, cln, wk, evq, fwIf, detVars>>

(* BRCMF_VNDR_AWDL_OP_DESTROY and brcmf_awdl_del_vif: the firmware is asked *)
(* to drop the interface and nothing is torn down here.                     *)
Destroy(i) ==
  /\ WiphyFree
  /\ ifpState[i] = "awdl"
  /\ FwRemove(ifpBss[i])
  /\ UNCHANGED <<vifVars, ifpVars, evVars, cfgVars, wqVars, op, wk, detVars>>

-----------------------------------------------------------------------------
(* Mutant: a timeout that looks at awdl_pending alone.                      *)
MutTimeoutPendingOnly == ~pending

(* The wiphy work brcmf_awdl_timeout. *)
TimeoutDefers ==
  \/ ~pending
  \/ attaching
  \/ awdlVif # None /\ vifIfp[awdlVif] # None

Timeout ==
  /\ tmo /\ WiphyFree
  /\ tmo' = FALSE
  /\ IF TimeoutDefers
     THEN UNCHANGED <<vifState, evVars, awdlVif, pending>>
     ELSE /\ awdlVif' = None
          /\ pending' = FALSE
          /\ DisarmIf(awdlVif)
          /\ FreeVif(awdlVif)
  /\ UNCHANGED <<vifIfp, ifpVars, attaching, failedIfp, cln, op, wk, fwVars,
                 detVars>>

(* Mutant: brcmf_free_vif is forgotten. *)
MutCleanupKeepsVif ==
  /\ failedIfp' = None /\ awdlVif' = None
  /\ pending' = FALSE /\ attaching' = FALSE
  /\ DisarmIf(awdlVif)
  /\ ifpState' = [i \in Ifp |-> IF i = failedIfp THEN "freed" ELSE ifpState[i]]
  /\ UNCHANGED <<vifState, ifpVif, fwVars>>

(* brcmf_awdl_cleanup_locked, called with the wiphy mutex held. *)
CleanupLocked ==
  /\ failedIfp' = None /\ awdlVif' = None
  /\ pending' = FALSE /\ attaching' = FALSE
  /\ DisarmIf(awdlVif)
  /\ FreeVif(awdlVif)
  /\ ifpState' = [i \in Ifp |-> IF i = failedIfp THEN "freed" ELSE ifpState[i]]
  /\ ifpVif' = [i \in Ifp |-> IF i = failedIfp THEN None ELSE ifpVif[i]]
  /\ \/ UNCHANGED fwVars
     \/ failedIfp # None /\ FwRemove(ifpBss[failedIfp])

(* The wiphy work brcmf_awdl_cleanup. *)
Cleanup ==
  /\ cln /\ WiphyFree
  /\ cln' = FALSE
  /\ CleanupLocked
  /\ UNCHANGED <<vifIfp, ifpBss, iflist, tmo, op, wk, detVars>>

-----------------------------------------------------------------------------
(* The firmware event worker, IF_ADD: brcmf_add_if.  An interface already   *)
(* in the slot is deleted first.                                            *)
NextEventIs(act) ==
  /\ WorkerIdle
  /\ det \in {"no", "down"}
  /\ evq # <<>>
  /\ Head(evq).act = act

WkAddIf(i) ==
  /\ NextEventIs("ADD")
  /\ ifpState[i] = "new"
  /\ LET b == Head(evq).bss
         old == iflist[b]
     IN /\ old # None => (Registered(old) => WiphyFree)
        /\ ifpState' = [j \in Ifp |-> IF j = i THEN "alloc"
                                      ELSE IF j = old THEN "freed"
                                      ELSE ifpState[j]]
        /\ FreeVif(IF old = None THEN None ELSE ifpVif[old])
        /\ ifpBss' = [ifpBss EXCEPT ![i] = b]
        /\ iflist' = [iflist EXCEPT ![b] = i]
  /\ wk' = [pc |-> "added", ifp |-> i]
  /\ evq' = Tail(evq)
  /\ UNCHANGED <<vifIfp, ifpVif, evVars, cfgVars, wqVars, op, asked, fwIf,
                 detVars>>

(* brcmf_add_if cannot allocate the new netdev: the old one is gone. *)
WkAddIfNoMem ==
  /\ NextEventIs("ADD")
  /\ LET b == Head(evq).bss
         old == iflist[b]
     IN IF old = None
        THEN UNCHANGED <<vifState, ifpState, iflist>>
        ELSE NetDetach(old) /\ iflist' = [iflist EXCEPT ![b] = None]
  /\ evq' = Tail(evq)
  /\ UNCHANGED <<vifIfp, ifpVif, ifpBss, evVars, cfgVars, wqVars, op, wk, asked,
                 fwIf, detVars>>

(* brcmf_notify_vif_event, BRCMF_E_IF_ADD: link the interface to the armed  *)
(* vif, if there is one.                                                    *)
WkNotifyAdd ==
  /\ wk.pc = "added"
  /\ evAct' = "ADD"
  /\ IF evVif = None
     THEN UNCHANGED <<ifpVif, vifIfp>>
     ELSE /\ ifpVif' = [ifpVif EXCEPT ![wk.ifp] = evVif]
          /\ vifIfp' = [vifIfp EXCEPT ![evVif] = wk.ifp]
  /\ wk' = [wk EXCEPT !.pc = "claim"]
  /\ UNCHANGED <<vifState, ifpState, ifpBss, iflist, evVif, cfgVars, wqVars, op,
                 fwVars, detVars>>

(* brcmf_cfg80211_awdl_attach_pending, the first critical section. *)
Claims(i) ==
  /\ pending /\ ~attaching
  /\ awdlVif # None
  /\ ifpVif[i] = awdlVif

WkClaim ==
  /\ wk.pc = "claim"
  /\ IF Claims(wk.ifp)
     THEN attaching' = TRUE /\ wk' = [wk EXCEPT !.pc = "register"]
     ELSE wk' = IdleWorker /\ UNCHANGED attaching
  /\ UNCHANGED <<vifVars, ifpVars, evVars, awdlVif, pending, failedIfp, wqVars,
                 op, fwVars, detVars>>

(* brcmf_net_attach: register_netdev takes the RTNL and the wiphy mutex.    *)
(* It fails when a device of that name exists or memory is short.           *)
WkRegister ==
  /\ wk.pc = "register"
  /\ WiphyFree
  /\ \/ /\ ~Awdl0Exists
        /\ ifpState' = [ifpState EXCEPT ![wk.ifp] = "awdl"]
        /\ wk' = [wk EXCEPT !.pc = "attached"]
        /\ UNCHANGED iflist
     \/ /\ iflist' = [iflist EXCEPT ![ifpBss[wk.ifp]] = None]
        /\ wk' = [wk EXCEPT !.pc = "fail"]
        /\ UNCHANGED ifpState
  /\ UNCHANGED <<vifVars, ifpVif, ifpBss, evVars, cfgVars, wqVars, op, fwVars,
                 detVars>>

(* The critical section after a successful registration. *)
WkAttached ==
  /\ wk.pc = "attached"
  /\ awdlVif' = None /\ pending' = FALSE /\ attaching' = FALSE
  /\ DisarmIf(ifpVif[wk.ifp])
  /\ wk' = IdleWorker
  /\ UNCHANGED <<vifVars, ifpVars, failedIfp, wqVars, op, fwVars, detVars>>

(* Mutant: the cleanup work is not queued. *)
MutFailNoCleanup ==
  /\ wk.pc = "fail"
  /\ failedIfp' = wk.ifp
  /\ ArmVifEvent(None)
  /\ wk' = IdleWorker
  /\ UNCHANGED <<vifVars, ifpVars, awdlVif, pending, attaching, wqVars, op,
                 fwVars, detVars>>

(* The failure label: hand the objects to the cleanup work. *)
WkAttachFail ==
  /\ wk.pc = "fail"
  /\ LET b == ifpBss[wk.ifp]
     IN iflist' = [iflist EXCEPT ![b] = IF @ = wk.ifp THEN None ELSE @]
  /\ failedIfp' = wk.ifp
  /\ ArmVifEvent(None)
  /\ cln' = TRUE
  /\ wk' = IdleWorker
  /\ UNCHANGED <<vifVars, ifpState, ifpVif, ifpBss, awdlVif, pending, attaching,
                 tmo, op, fwVars, detVars>>

(* IF_DEL: brcmf_notify_vif_event records the action; an event for an empty *)
(* slot finds no interface object and is dropped.                           *)
WkDel ==
  /\ NextEventIs("DEL")
  /\ LET i == iflist[Head(evq).bss]
     IN IF i = None
        THEN UNCHANGED <<evAct, wk>>
        ELSE evAct' = "DEL" /\ wk' = [pc |-> "del", ifp |-> i]
  /\ evq' = Tail(evq)
  /\ UNCHANGED <<vifVars, ifpVars, evVif, cfgVars, wqVars, op, asked, fwIf,
                 detVars>>

(* armed = brcmf_cfg80211_vif_event_armed(): somebody waits, leave it to    *)
(* them.                                                                    *)
WkDelArmed ==
  /\ wk.pc = "del"
  /\ wk' = IF evVif # None THEN IdleWorker ELSE [wk EXCEPT !.pc = "remove"]
  /\ UNCHANGED <<vifVars, ifpVars, evVars, cfgVars, wqVars, op, fwVars, detVars>>

(* Mutant: the slot in drvr->iflist is not cleared. *)
MutRemoveKeepsSlot(i) == NetDetach(i) /\ UNCHANGED iflist

(* brcmf_remove_interface, which refuses an interface no longer listed. *)
RemoveInterface(i) ==
  IF iflist[ifpBss[i]] # i
  THEN UNCHANGED <<vifState, ifpState, iflist>>
  ELSE NetDetach(i) /\ iflist' = [iflist EXCEPT ![ifpBss[i]] = None]

WkRemove ==
  /\ wk.pc = "remove"
  /\ RemoveInterface(wk.ifp)
  /\ wk' = IdleWorker
  /\ UNCHANGED <<vifIfp, ifpVif, ifpBss, evVars, cfgVars, wqVars, op, fwVars,
                 detVars>>

-----------------------------------------------------------------------------
(* Another virtual interface, brcmf_apsta_add_vif: arm, ask the firmware,   *)
(* wait for the event with the wiphy mutex held.                            *)
OtherArm(v) ==
  /\ OtherOps /\ WiphyFree /\ MayRequest /\ BusUp
  /\ evVif = None
  /\ vifState[v] = "new"
  /\ \/ /\ vifState' = [vifState EXCEPT ![v] = "other"]
        /\ ArmVifEvent(v)
        /\ asked' = asked + 1
        /\ op' = [pc |-> "wait", vif |-> v]
     \/ /\ vifState' = [vifState EXCEPT ![v] = "freed"]   \* the request failed
        /\ ArmVifEvent(None)
        /\ UNCHANGED <<asked, op>>
  /\ UNCHANGED <<vifIfp, ifpVars, cfgVars, wqVars, wk, evq, fwIf, detVars>>

(* wait_event_timeout: the action matches, or 1.5 s pass without. *)
OtherWait ==
  /\ op.pc = "wait"
  /\ op' = [op EXCEPT !.pc = IF evAct = "ADD" THEN "woken" ELSE "late"]
  /\ UNCHANGED <<vifVars, ifpVars, evVars, cfgVars, wqVars, wk, fwVars, detVars>>

OtherFinish ==
  /\ op.pc \in {"woken", "late"}
  /\ ArmVifEvent(None)
  /\ op' = IdleOp
  /\ LET i == vifIfp[op.vif]
     IN \/ /\ op.pc = "late" \/ i = None
           /\ FreeVif(op.vif)
           /\ UNCHANGED <<ifpState, iflist>>
        \/ /\ op.pc = "woken" /\ i # None
           /\ \/ /\ ifpState' = [ifpState EXCEPT ![i] = "sta"]
                 /\ UNCHANGED <<vifState, iflist>>
              \/ /\ ifpState' = [ifpState EXCEPT ![i] = "freed"]
                 /\ iflist' = [iflist EXCEPT ![ifpBss[i]] = None]
                 /\ FreeVif(op.vif)
  /\ UNCHANGED <<vifIfp, ifpVif, ifpBss, cfgVars, wqVars, wk, fwVars, detVars>>

-----------------------------------------------------------------------------
(* The firmware answers an interface_create with an IF_ADD, late or never.  *)
(* brcmf_fweh_process_event queues it, unless it cannot allocate it.        *)
FwAnswer(b) ==
  /\ asked > 0 /\ RxLive
  /\ b \notin fwIf
  /\ asked' = asked - 1
  /\ fwIf' = fwIf \cup {b}
  /\ IF det \in {"no", "down"}
     THEN /\ evq' \in {evq, Append(evq, [act |-> "ADD", bss |-> b])}
          /\ UNCHANGED nullFweh
     ELSE nullFweh' = TRUE /\ UNCHANGED evq
  /\ UNCHANGED <<vifVars, ifpVars, evVars, cfgVars, wqVars, op, wk, det>>

FwIgnore ==
  /\ asked > 0
  /\ asked' = asked - 1
  /\ UNCHANGED <<vifVars, ifpVars, evVars, cfgVars, wqVars, op, wk, evq, fwIf,
                 detVars>>

-----------------------------------------------------------------------------
(* brcmf_detach: bus down, then brcmf_bus_stop and brcmf_fweh_detach, which *)
(* cancels the worker and waits for it, then brcmf_cfg80211_awdl_stop, then *)
(* the interfaces from the last slot to the first.                          *)
DetachDown ==
  /\ det = "no"
  /\ det' = "down"
  /\ UNCHANGED <<vifVars, ifpVars, evVars, cfgVars, wqVars, op, wk, fwVars,
                 nullFweh>>

FwehDetach ==
  /\ det = "down"
  /\ WorkerIdle
  /\ det' = "drained"
  /\ evq' = <<>>
  /\ UNCHANGED <<vifVars, ifpVars, evVars, cfgVars, wqVars, op, wk, asked, fwIf,
                 nullFweh>>

(* Mutant: the wiphy works are not cancelled. *)
MutStopNoCancel ==
  /\ det = "drained"
  /\ WiphyFree
  /\ det' = "stopped"
  /\ CleanupLocked
  /\ UNCHANGED <<vifIfp, ifpBss, iflist, wqVars, op, wk, nullFweh>>

AwdlStop ==
  /\ det = "drained"
  /\ WiphyFree
  /\ det' = "stopped"
  /\ tmo' = FALSE /\ cln' = FALSE
  /\ CleanupLocked
  /\ UNCHANGED <<vifIfp, ifpBss, iflist, op, wk, nullFweh>>

DetachRemove(b) ==
  /\ det = "stopped"
  /\ iflist[b] # None
  /\ RemoveInterface(iflist[b])
  /\ UNCHANGED <<vifIfp, ifpVif, ifpBss, evVars, cfgVars, wqVars, op, wk, fwVars,
                 detVars>>

DetachDone ==
  /\ det = "stopped"
  /\ WiphyFree
  /\ \A b \in Bss : iflist[b] = None
  /\ det' = "done"
  /\ UNCHANGED <<vifVars, ifpVars, evVars, cfgVars, wqVars, op, wk, fwVars,
                 nullFweh>>

-----------------------------------------------------------------------------
WorkerStep ==
  \/ \E i \in Ifp : WkAddIf(i)
  \/ WkAddIfNoMem \/ WkNotifyAdd \/ WkClaim \/ WkRegister \/ WkAttached
  \/ WkAttachFail \/ WkDel \/ WkDelArmed \/ WkRemove

OpStep == CreatePublish \/ CreateAsk \/ OtherWait \/ OtherFinish

DetachStep ==
  \/ FwehDetach \/ AwdlStop \/ DetachDone
  \/ \E b \in Bss : DetachRemove(b)

Next ==
  \/ \E v \in Vif : CreateArm(v) \/ OtherArm(v)
  \/ \E i \in Ifp : Destroy(i)
  \/ OpStep \/ WorkerStep \/ Timeout \/ Cleanup
  \/ \E b \in Bss : FwAnswer(b)
  \/ FwIgnore \/ DetachDown \/ DetachStep

Spec == Init /\ [][Next]_vars

(* The kernel schedules the worker, queued wiphy works, a thread that holds *)
(* the wiphy mutex and a detach that has begun; the mutexes they wait for   *)
(* are handed over in order, hence strong fairness where one is taken.      *)
(* Nothing obliges userspace or the firmware to act.                        *)
FairSpec ==
  /\ Spec
  /\ SF_vars(WorkerStep) /\ WF_vars(OpStep) /\ SF_vars(DetachStep)
  /\ SF_vars(Timeout) /\ SF_vars(Cleanup)

-----------------------------------------------------------------------------
(* What may be dereferenced is alive: the pending and the armed vif, the    *)
(* interface handed to the cleanup work, the one the worker holds and every *)
(* listed interface.  The code keeps these pointers in cfg and in iflist    *)
(* across the locks it drops (brcmf_awdl_timeout, _cleanup, attach_pending).*)
(* A registered awdl0 is the listed interface of its slot, and it and its   *)
(* vif name each other: netdev handlers, DESTROY and event delivery each    *)
(* follow the link from their own end.                                      *)
NoDangling ==
  /\ awdlVif # None => vifState[awdlVif] = "awdl"
  /\ evVif # None => vifState[evVif] \in {"awdl", "other"}
  /\ failedIfp # None => ifpState[failedIfp] = "alloc"
  /\ wk.pc \in {"register", "attached", "fail"} =>
        ifpState[wk.ifp] \in {"alloc", "awdl"}
  /\ \A b \in Bss : iflist[b] # None =>
        ifpState[iflist[b]] \in {"alloc", "awdl", "sta"} /\ ifpBss[iflist[b]] = b
  /\ \A i \in Ifp : ifpState[i] = "awdl" =>
        /\ iflist[ifpBss[i]] = i /\ ifpVif[i] # None
        /\ vifState[ifpVif[i]] = "awdl" /\ vifIfp[ifpVif[i]] = i

(* When no creation is in progress, every vif allocated for AWDL belongs to *)
(* a registered awdl0: neither the timeout nor a failed attach leaks one.   *)
NoVifLeak ==
  ~pending /\ WorkerIdle /\ WiphyFree =>
    \A v \in Vif : vifState[v] = "awdl" =>
      \E i \in Ifp : ifpState[i] = "awdl" /\ ifpVif[i] = v

(* brcmf_detach leaves no object and no queued work behind. *)
DetachClean ==
  det = "done" =>
    /\ ~tmo /\ ~cln /\ ~pending
    /\ \A v \in Vif : vifState[v] # "awdl"
    /\ \A i \in Ifp : ifpState[i] \in {"new", "freed"}

(* Once the worker has claimed the vif it is freed by the cleanup of the    *)
(* worker's own failure only: a timeout that fires late takes nothing away. *)
ClaimedIsWorkers ==
  [][attaching /\ failedIfp = None => vifState'[awdlVif] = vifState[awdlVif]]_vars

(* A creation ends: awdl0 appears, the timeout retires it or the cleanup    *)
(* does, and CREATE no longer answers -EBUSY.                               *)
CreationEnds == pending ~> ~pending

(* The vif life cycle implements the promise of AwdlLink: the link is what  *)
(* `ip link` and the answers of CREATE (-EEXIST, -EBUSY) tell userspace.    *)
Link == INSTANCE AwdlLink WITH
  link <- IF Awdl0Exists THEN "up" ELSE IF pending THEN "creating" ELSE "absent",
  gone <- det = "done"

ImplementsLink == Link!Spec
LinkSafety     == Link!Init /\ [][Link!Next]_(Link!linkVars)

(* A detach that has begun ends, whatever was in progress. *)
DetachEnds == (det = "down") ~> (det = "done")

-----------------------------------------------------------------------------
(* What comments of the code say and some instance refutes.                 *)

(* "IF_ADD has already claimed the vif; its worker owns completion": when   *)
(* the timeout defers because the vif is linked, the worker is on its way   *)
(* from the link to the claim.                                              *)
DeferredIsOwned ==
  tmo /\ WiphyFree /\ pending /\ ~attaching /\ awdlVif # None
      /\ vifIfp[awdlVif] # None
    => wk.pc = "claim" /\ ifpVif[wk.ifp] = awdlVif

(* "Stop event producers before draining their worker." *)
ProducersStopped == ~nullFweh
=============================================================================
