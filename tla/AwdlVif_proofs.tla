--------------------------- MODULE AwdlVif_proofs ---------------------------
(***************************************************************************)
(* Theorems about AwdlVif for every set of vifs, interfaces and slots:      *)
(* type correctness, that a claimed vif is its worker's alone, that no vif  *)
(* is lost, that the life cycle implements the safety part of AwdlLink, and *)
(* that no pointer dangles and a detach leaves nothing behind.              *)
(***************************************************************************)
EXTENDS AwdlVif, TLAPS

(* The worker between its claim and the end of the attach. *)
AttachPcs == {"register", "attached", "fail"}

(* Strengthening of ClaimedIsWorkers. *)
ClaimInv ==
  /\ wk.pc # "idle" => wk.ifp \in Ifp
  /\ attaching => pending /\ awdlVif # None
  /\ attaching /\ failedIfp = None => wk.pc \in AttachPcs
  /\ wk.pc \in AttachPcs => attaching /\ failedIfp = None
  /\ cln => failedIfp # None
  /\ failedIfp # None => attaching
  /\ det \in {"drained", "stopped", "done"} => wk.pc = "idle"
  /\ op.pc # "idle" => op.vif \in Vif
  /\ op.pc = "publish" => ~pending
  /\ op.pc = "publish" => vifState[op.vif] # "new"
  /\ awdlVif # None => vifState[awdlVif] # "new"
  /\ op.pc \in {"wait", "woken", "late"} => op.vif # awdlVif

(* Strengthening of the refinement. *)
LinkInv ==
  /\ op.pc \in {"idle", "publish", "ask"}
  /\ op.pc = "publish" => ~Awdl0Exists
  /\ op.pc # "idle" => det \notin {"stopped", "done"}
  /\ det \in {"stopped", "done"} => ~pending
  /\ pending /\ Awdl0Exists => wk.pc = "attached"
  /\ \A i \in Ifp : ifpState[i] = "awdl" =>
        ifpBss[i] \in Bss /\ iflist[ifpBss[i]] = i
  /\ wk.pc \in {"added", "claim", "register"} =>
        ifpBss[wk.ifp] \in Bss /\ iflist[ifpBss[wk.ifp]] = wk.ifp
  /\ det = "done" => ~Awdl0Exists

(* Strengthening of NoDangling, NoVifLeak and DetachClean, in four groups.    *)
(* At most one IF_ADD is outstanding, in one place.                          *)
Adds(q) == {k \in DOMAIN q : q[k].act = "ADD"}

OneAdd ==
  /\ asked > 0 => asked = 1 /\ Adds(evq) = {} /\ wk.pc \notin {"added", "claim"}
  /\ Adds(evq) # {} => wk.pc \notin {"added", "claim"}
  /\ \A j, k \in Adds(evq) : j = k
  /\ op.pc \in {"publish", "ask"} =>
        asked = 0 /\ Adds(evq) = {} /\ wk.pc \notin {"added", "claim"}

(* Whose the armed vif is, and that no IF_ADD finds it linked already.       *)
OtherPcs == {"wait", "woken", "late"}

Armed ==
  /\ pending <=> awdlVif # None
  /\ awdlVif # None => vifState[awdlVif] = "awdl"
  /\ op.pc \in {"publish", "ask"} =>
        evVif = op.vif /\ vifState[op.vif] = "awdl" /\ vifIfp[op.vif] = None
  /\ op.pc = "ask" => awdlVif = op.vif
  /\ op.pc \in OtherPcs => evVif = op.vif /\ vifState[op.vif] = "other"
  /\ evVif # None =>
        \/ evVif = awdlVif
        \/ evVif = op.vif /\ op.pc \in {"publish"} \cup OtherPcs
  /\ wk.pc \in AttachPcs => evVif = awdlVif
  /\ wk.pc = "claim" /\ awdlVif # None /\ ifpVif[wk.ifp] = awdlVif => evVif = awdlVif
  /\ evVif # None /\ (asked > 0 \/ Adds(evq) # {} \/ wk.pc \in {"added", "remove"})
        => vifIfp[evVif] = None

(* Vifs and interfaces name each other, and a linked pending vif is the      *)
(* worker's or the cleanup's.                                                *)
Linked ==
  /\ \A v \in Vif : vifState[v] = "new" => vifIfp[v] = None
  /\ \A i \in Ifp : ifpVif[i] # None => vifIfp[ifpVif[i]] = i
  /\ \A v \in Vif : vifIfp[v] # None =>
        \/ ifpState[vifIfp[v]] # "new" /\ ifpVif[vifIfp[v]] = v
        \/ ifpState[vifIfp[v]] = "freed" /\ ifpVif[vifIfp[v]] = None
  /\ wk.pc = "added" => ifpVif[wk.ifp] = None
  /\ awdlVif # None /\ vifIfp[awdlVif] # None => ifpVif[vifIfp[awdlVif]] = awdlVif
  /\ awdlVif # None /\ vifIfp[awdlVif] # None =>
        \/ wk.pc \in {"claim"} \cup AttachPcs /\ wk.ifp = vifIfp[awdlVif]
        \/ failedIfp = vifIfp[awdlVif]
  /\ wk.pc \in AttachPcs => ifpVif[wk.ifp] = awdlVif
  /\ failedIfp # None => ifpVif[failedIfp] = awdlVif
  /\ op.pc \in OtherPcs /\ vifIfp[op.vif] # None =>
        ifpState[vifIfp[op.vif]] = "alloc"

(* A live interface is listed in its slot, but for the one whose attach      *)
(* failed; a live vif of AWDL is pending or an awdl0's.                      *)
Live == {"alloc", "awdl", "sta"}

Owned(v) ==
  \/ v = awdlVif
  \/ op.pc = "publish" /\ op.vif = v
  \/ vifIfp[v] # None /\ ifpState[vifIfp[v]] = "awdl" /\ ifpVif[vifIfp[v]] = v

Listed ==
  /\ \A i \in Ifp : ifpState[i] # "new" => ifpBss[i] \in Bss
  /\ wk.pc # "idle" => ifpState[wk.ifp] # "new"
  /\ \A b \in Bss : iflist[b] # None =>
        ifpBss[iflist[b]] = b /\ ifpState[iflist[b]] \in Live
  /\ \A i \in Ifp : ifpState[i] \in Live =>
        iflist[ifpBss[i]] = i \/ i = failedIfp \/ (wk.pc = "fail" /\ wk.ifp = i)
  /\ failedIfp # None =>
        ifpState[failedIfp] = "alloc" /\ iflist[ifpBss[failedIfp]] # failedIfp
  /\ wk.pc = "fail" => ifpState[wk.ifp] = "alloc" /\ iflist[ifpBss[wk.ifp]] # wk.ifp
  /\ wk.pc \in {"added", "register"} => ifpState[wk.ifp] = "alloc"
  /\ wk.pc = "claim" /\ awdlVif # None /\ ifpVif[wk.ifp] = awdlVif =>
        ifpState[wk.ifp] = "alloc"
  /\ wk.pc = "attached" => ifpState[wk.ifp] = "awdl"
  /\ \A i \in Ifp : ifpState[i] = "awdl" =>
        ifpVif[i] # None /\ vifState[ifpVif[i]] = "awdl"
  /\ \A v \in Vif : vifState[v] = "awdl" => Owned(v)

Ends ==
  /\ op.pc # "idle" => det \notin {"stopped", "done"}
  /\ det \in {"stopped", "done"} => ~pending /\ ~tmo /\ ~cln /\ failedIfp = None
  /\ det = "done" => \A b \in Bss : iflist[b] = None

(* Strengthening of NoVifLeak that holds however requests overlap.           *)
HasAwdl0(v) == \E i \in Ifp : ifpState[i] = "awdl" /\ ifpVif[i] = v

Owners ==
  /\ pending <=> awdlVif # None
  /\ op.pc \in OtherPcs => vifState[op.vif] # "awdl"
  /\ op.pc \in OtherPcs /\ vifIfp[op.vif] # None => ifpVif[vifIfp[op.vif]] = op.vif
  /\ evVif # None => vifState[evVif] # "new"
  /\ \A v \in Vif : vifState[v] = "new" => vifIfp[v] = None
  /\ \A i \in Ifp : ifpState[i] = "new" => ifpVif[i] = None
  /\ \A v \in Vif : vifIfp[v] # None =>
        \/ ifpState[vifIfp[v]] # "new" /\ ifpVif[vifIfp[v]] = v
        \/ ifpState[vifIfp[v]] = "freed" /\ ifpVif[vifIfp[v]] = None
  /\ wk.pc = "added" => ifpState[wk.ifp] = "alloc" /\ ifpVif[wk.ifp] = None
  /\ wk.pc \in AttachPcs => ifpVif[wk.ifp] = awdlVif
  /\ wk.pc = "attached" => ifpState[wk.ifp] = "awdl"
  /\ failedIfp # None => ifpVif[failedIfp] = awdlVif
  /\ \A v \in Vif : vifState[v] = "awdl" =>
        v = awdlVif \/ (op.pc = "publish" /\ op.vif = v) \/ HasAwdl0(v)

(* Strengthening of DetachClean for creations of awdl0 alone.                *)
Slots ==
  /\ \A i \in Ifp : ifpState[i] # "new" => ifpBss[i] \in Bss
  /\ wk.pc # "idle" => ifpState[wk.ifp] # "new"
  /\ \A b \in Bss : iflist[b] # None =>
        ifpBss[iflist[b]] = b /\ ifpState[iflist[b]] \in Live
  /\ \A i \in Ifp : ifpState[i] \in Live =>
        iflist[ifpBss[i]] = i \/ i = failedIfp \/ (wk.pc = "fail" /\ wk.ifp = i)
  /\ failedIfp # None =>
        ifpState[failedIfp] # "new" /\ iflist[ifpBss[failedIfp]] # failedIfp
  /\ wk.pc = "fail" => iflist[ifpBss[wk.ifp]] # wk.ifp
  /\ det \in {"stopped", "done"} => ~tmo /\ ~cln /\ failedIfp = None
  /\ det = "done" => \A b \in Bss : iflist[b] = None

(* For requests that do not overlap.                                        *)
Inv == OneAdd /\ Armed /\ Linked /\ Listed /\ Ends

-----------------------------------------------------------------------------
LEMMA HeadSlot ==
  ASSUME evq \in Seq(Event), evq # <<>> PROVE Head(evq).bss \in Bss
<1>1. Head(evq) \in Event
  OBVIOUS
<1>2. \A e \in Event : e.bss \in Bss
  BY DEF Event
<1> QED
  BY <1>1, <1>2

(* Queueing either event of a slot keeps the type of the queue. *)
LEMMA EventQueued ==
  ASSUME NEW b \in Bss, evq \in Seq(Event)
  PROVE  /\ Append(evq, [act |-> "ADD", bss |-> b]) \in Seq(Event)
         /\ Append(evq, [act |-> "DEL", bss |-> b]) \in Seq(Event)
<1>1. \A e \in Event : Append(evq, e) \in Seq(Event)
  OBVIOUS
<1>2. /\ [act |-> "ADD", bss |-> b] \in Event
      /\ [act |-> "DEL", bss |-> b] \in Event
  BY DEF Event
<1> QED
  BY <1>1, <1>2, Zenon

LEMMA RemoveTypes ==
  ASSUME NEW b \in Bss, FirmwareOK, FwRemove(b)
  PROVE  evq' \in Seq(Event) /\ asked' \in Nat /\ fwIf' \in SUBSET Bss
<1>1. evq' \in Seq(Event)
  BY EventQueued, Zenon DEF FirmwareOK, FwRemove
<1> QED
  BY <1>1 DEF FirmwareOK, FwRemove

LEMMA InitTypeOK == ASSUME Init PROVE TypeOK
<1>1. ObjectsOK
  BY DEF Init, ObjectsOK
<1>2. CfgOK
  BY DEF Init, CfgOK
<1>3. ThreadsOK
  BY DEF Init, ThreadsOK
<1>4. evq \in Seq(Event) /\ asked \in Nat /\ fwIf \in SUBSET Bss
  BY DEF Init
<1>5. FirmwareOK
  BY <1>4 DEF Init, FirmwareOK
<1> QED
  BY <1>1, <1>2, <1>3, <1>5 DEF TypeOK

LEMMA StepTypeOK == ASSUME TypeOK, [Next]_vars PROVE TypeOK'
<1> USE DEF vifVars, ifpVars, evVars, cfgVars, wqVars, fwVars, detVars
<1>1. ASSUME NEW v \in Vif, CreateArm(v) PROVE TypeOK'
  BY <1>1 DEF TypeOK, ObjectsOK, CfgOK, ThreadsOK, FirmwareOK, CreateArm,
     ArmVifEvent
<1>2. ASSUME NEW v \in Vif, OtherArm(v) PROVE TypeOK'
  BY <1>2 DEF TypeOK, ObjectsOK, CfgOK, ThreadsOK, FirmwareOK, OtherArm,
     ArmVifEvent
<1>3. ASSUME NEW i \in Ifp, Destroy(i) PROVE TypeOK'
  <2>1. ifpBss[i] \in Bss /\ FwRemove(ifpBss[i])
    BY <1>3 DEF Destroy, FwRemove, TypeOK, ObjectsOK, FirmwareOK
  <2>2. ObjectsOK'
    BY <2>1, <1>3 DEF TypeOK, ObjectsOK, Destroy, FwRemove
  <2>3. CfgOK'
    BY <2>1, <1>3 DEF TypeOK, CfgOK, ObjectsOK, ThreadsOK, Destroy, FwRemove
  <2>4. ThreadsOK'
    BY <2>1, <1>3 DEF TypeOK, ThreadsOK, ObjectsOK, Destroy, FwRemove
  <2>5. FirmwareOK'
    <3>1. UNCHANGED detVars
      BY <1>3 DEF Destroy
    <3> QED
      BY <2>1, <3>1, RemoveTypes DEF TypeOK, FirmwareOK
  <2> QED
    BY <2>2, <2>3, <2>4, <2>5 DEF TypeOK
<1>4. CASE CreatePublish
  BY <1>4 DEF TypeOK, ObjectsOK, CfgOK, ThreadsOK, FirmwareOK, CreatePublish
<1>5. CASE CreateAsk
  BY <1>5 DEF TypeOK, ObjectsOK, CfgOK, ThreadsOK, FirmwareOK, CreateAsk,
     IdleOp
<1>6. CASE OtherWait
  BY <1>6, SMTT(30) DEF TypeOK, ObjectsOK, CfgOK, ThreadsOK, FirmwareOK, OtherWait
<1>7. CASE OtherFinish
  BY <1>7 DEF TypeOK, ObjectsOK, CfgOK, ThreadsOK, FirmwareOK, OtherFinish,
     ArmVifEvent, FreeVif, IdleOp
<1>8. ASSUME NEW i \in Ifp, WkAddIf(i) PROVE TypeOK'
  <2>1. evq \in Seq(Event) /\ evq # <<>> /\ Head(evq).bss \in Bss
    BY <1>8, HeadSlot DEF TypeOK, FirmwareOK, WkAddIf, NextEventIs
  <2>2. ObjectsOK'
    BY <2>1, <1>8 DEF TypeOK, ObjectsOK, WkAddIf, FreeVif
  <2>3. CfgOK'
    BY <2>1, <1>8 DEF TypeOK, CfgOK, ObjectsOK, ThreadsOK, WkAddIf, FreeVif
  <2>4. ThreadsOK'
    BY <2>1, <1>8 DEF TypeOK, ThreadsOK, ObjectsOK, WkAddIf, FreeVif
  <2>5. FirmwareOK'
    BY <2>1, <1>8 DEF TypeOK, FirmwareOK, WkAddIf, FreeVif
  <2> QED
    BY <2>2, <2>3, <2>4, <2>5 DEF TypeOK
<1>9. CASE WkAddIfNoMem
  <2>1. evq \in Seq(Event) /\ evq # <<>> /\ Head(evq).bss \in Bss
    BY <1>9, HeadSlot DEF TypeOK, FirmwareOK, WkAddIfNoMem, NextEventIs
  <2>2. ObjectsOK'
    BY <2>1, <1>9 DEF TypeOK, ObjectsOK, WkAddIfNoMem, NetDetach, FreeVif
  <2>3. CfgOK'
    BY <2>1, <1>9 DEF TypeOK, CfgOK, ObjectsOK, ThreadsOK, WkAddIfNoMem,
       NetDetach, FreeVif
  <2>4. ThreadsOK'
    BY <2>1, <1>9 DEF TypeOK, ThreadsOK, ObjectsOK, WkAddIfNoMem,
       NetDetach, FreeVif
  <2>5. FirmwareOK'
    BY <2>1, <1>9 DEF TypeOK, FirmwareOK, WkAddIfNoMem, NetDetach, FreeVif
  <2> QED
    BY <2>2, <2>3, <2>4, <2>5 DEF TypeOK
<1>10. CASE WkNotifyAdd
  <2>2. ObjectsOK'
    BY <1>10 DEF TypeOK, ObjectsOK, CfgOK, ThreadsOK, WkNotifyAdd
  <2>3. CfgOK'
    BY <1>10 DEF TypeOK, CfgOK, ObjectsOK, ThreadsOK, WkNotifyAdd
  <2>4. ThreadsOK'
    BY <1>10 DEF TypeOK, ThreadsOK, ObjectsOK, WkNotifyAdd
  <2>5. FirmwareOK'
    BY <1>10 DEF TypeOK, FirmwareOK, WkNotifyAdd
  <2> QED
    BY <2>2, <2>3, <2>4, <2>5 DEF TypeOK
<1>11. CASE WkClaim
  <2>2. ObjectsOK'
    BY <1>11 DEF TypeOK, ObjectsOK, WkClaim, Claims, IdleWorker
  <2>3. CfgOK'
    BY <1>11 DEF TypeOK, CfgOK, ObjectsOK, ThreadsOK, WkClaim, Claims,
       IdleWorker
  <2>4. ThreadsOK'
    BY <1>11 DEF TypeOK, ThreadsOK, ObjectsOK, WkClaim, Claims, IdleWorker
  <2>5. FirmwareOK'
    BY <1>11 DEF TypeOK, FirmwareOK, WkClaim, Claims, IdleWorker
  <2> QED
    BY <2>2, <2>3, <2>4, <2>5 DEF TypeOK
<1>12. CASE WkRegister
  <2>2. ObjectsOK'
    BY <1>12 DEF TypeOK, ObjectsOK, WkRegister
  <2>3. CfgOK'
    BY <1>12 DEF TypeOK, CfgOK, ObjectsOK, ThreadsOK, WkRegister
  <2>4. ThreadsOK'
    BY <1>12 DEF TypeOK, ThreadsOK, ObjectsOK, WkRegister
  <2>5. FirmwareOK'
    BY <1>12 DEF TypeOK, FirmwareOK, WkRegister
  <2> QED
    BY <2>2, <2>3, <2>4, <2>5 DEF TypeOK
<1>13. CASE WkAttached
  <2>2. ObjectsOK'
    BY <1>13 DEF TypeOK, ObjectsOK, WkAttached, DisarmIf, ArmVifEvent,
       IdleWorker
  <2>3. CfgOK'
    BY <1>13 DEF TypeOK, CfgOK, ObjectsOK, ThreadsOK, WkAttached,
       DisarmIf, ArmVifEvent, IdleWorker
  <2>4. ThreadsOK'
    BY <1>13 DEF TypeOK, ThreadsOK, ObjectsOK, WkAttached, DisarmIf,
       ArmVifEvent, IdleWorker
  <2>5. FirmwareOK'
    BY <1>13 DEF TypeOK, FirmwareOK, WkAttached, DisarmIf, ArmVifEvent,
       IdleWorker
  <2> QED
    BY <2>2, <2>3, <2>4, <2>5 DEF TypeOK
<1>14. CASE WkAttachFail
  <2>2. ObjectsOK'
    BY <1>14 DEF TypeOK, ObjectsOK, WkAttachFail, ArmVifEvent, IdleWorker
  <2>3. CfgOK'
    BY <1>14 DEF TypeOK, CfgOK, ObjectsOK, ThreadsOK, WkAttachFail,
       ArmVifEvent, IdleWorker
  <2>4. ThreadsOK'
    BY <1>14 DEF TypeOK, ThreadsOK, ObjectsOK, WkAttachFail, ArmVifEvent,
       IdleWorker
  <2>5. FirmwareOK'
    BY <1>14 DEF TypeOK, FirmwareOK, WkAttachFail, ArmVifEvent, IdleWorker
  <2> QED
    BY <2>2, <2>3, <2>4, <2>5 DEF TypeOK
<1>15. CASE WkDel
  <2>1. evq \in Seq(Event) /\ evq # <<>> /\ Head(evq).bss \in Bss
    BY <1>15, HeadSlot DEF TypeOK, FirmwareOK, WkDel, NextEventIs
  <2>2. ObjectsOK'
    BY <2>1, <1>15 DEF TypeOK, ObjectsOK, WkDel
  <2>3. CfgOK'
    BY <2>1, <1>15 DEF TypeOK, CfgOK, ObjectsOK, ThreadsOK, WkDel
  <2>4. ThreadsOK'
    BY <2>1, <1>15 DEF TypeOK, ThreadsOK, ObjectsOK, WkDel
  <2>5. FirmwareOK'
    BY <2>1, <1>15 DEF TypeOK, FirmwareOK, WkDel
  <2> QED
    BY <2>2, <2>3, <2>4, <2>5 DEF TypeOK
<1>16. CASE WkDelArmed
  BY <1>16 DEF TypeOK, ObjectsOK, CfgOK, ThreadsOK, FirmwareOK, WkDelArmed,
     IdleWorker
<1>17. CASE WkRemove
  <2>2. ObjectsOK'
    BY <1>17 DEF TypeOK, ObjectsOK, WkRemove, RemoveInterface, NetDetach,
       FreeVif, IdleWorker
  <2>3. CfgOK'
    BY <1>17 DEF TypeOK, CfgOK, ObjectsOK, ThreadsOK, WkRemove,
       RemoveInterface, NetDetach, FreeVif, IdleWorker
  <2>4. ThreadsOK'
    BY <1>17 DEF TypeOK, ThreadsOK, ObjectsOK, WkRemove, RemoveInterface,
       NetDetach, FreeVif, IdleWorker
  <2>5. FirmwareOK'
    BY <1>17 DEF TypeOK, FirmwareOK, WkRemove, RemoveInterface, NetDetach,
       FreeVif, IdleWorker
  <2> QED
    BY <2>2, <2>3, <2>4, <2>5 DEF TypeOK
<1>18. CASE Timeout
  <2>2. ObjectsOK'
    BY <1>18 DEF TypeOK, ObjectsOK, Timeout, DisarmIf, ArmVifEvent, FreeVif
  <2>3. CfgOK'
    BY <1>18 DEF TypeOK, CfgOK, ObjectsOK, ThreadsOK, Timeout, DisarmIf,
       ArmVifEvent, FreeVif
  <2>4. ThreadsOK'
    BY <1>18 DEF TypeOK, ThreadsOK, ObjectsOK, Timeout, DisarmIf,
       ArmVifEvent, FreeVif
  <2>5. FirmwareOK'
    BY <1>18 DEF TypeOK, FirmwareOK, Timeout, DisarmIf, ArmVifEvent, FreeVif
  <2> QED
    BY <2>2, <2>3, <2>4, <2>5 DEF TypeOK
<1>19. CASE Cleanup
  <2>2. ObjectsOK'
    BY <1>19 DEF TypeOK, ObjectsOK, Cleanup, CleanupLocked, DisarmIf,
       ArmVifEvent, FreeVif, FwRemove
  <2>3. CfgOK'
    BY <1>19 DEF TypeOK, CfgOK, ObjectsOK, ThreadsOK, Cleanup,
       CleanupLocked, DisarmIf, ArmVifEvent, FreeVif, FwRemove
  <2>4. ThreadsOK'
    BY <1>19 DEF TypeOK, ThreadsOK, ObjectsOK, Cleanup, CleanupLocked,
       DisarmIf, ArmVifEvent, FreeVif, FwRemove
  <2>5. FirmwareOK'
    <3>1. CASE UNCHANGED fwVars
      BY <3>1, <1>19 DEF TypeOK, FirmwareOK, Cleanup
    <3>2. CASE failedIfp # None /\ FwRemove(ifpBss[failedIfp])
      <4>1. failedIfp \in Ifp /\ ifpBss[failedIfp] \in Bss
        BY <3>2 DEF TypeOK, CfgOK, ObjectsOK, FirmwareOK, FwRemove
      <4>2. UNCHANGED nullFweh /\ det' \in {det, "stopped"}
        BY <1>19 DEF Cleanup
      <4> QED
        BY <3>2, <4>1, <4>2, RemoveTypes DEF TypeOK, FirmwareOK
    <3> QED
      BY <3>1, <3>2, <1>19 DEF Cleanup, CleanupLocked
  <2> QED
    BY <2>2, <2>3, <2>4, <2>5 DEF TypeOK
<1>20. ASSUME NEW b \in Bss, FwAnswer(b) PROVE TypeOK'
  <2>1. evq' \in Seq(Event)
    BY <1>20, EventQueued, Zenon DEF TypeOK, FirmwareOK, FwAnswer
  <2>2. ObjectsOK'
    BY <2>1, <1>20 DEF TypeOK, ObjectsOK, FwAnswer
  <2>3. CfgOK'
    BY <2>1, <1>20 DEF TypeOK, CfgOK, ObjectsOK, ThreadsOK, FwAnswer
  <2>4. ThreadsOK'
    BY <2>1, <1>20 DEF TypeOK, ThreadsOK, ObjectsOK, FwAnswer
  <2>5. asked' \in Nat /\ fwIf' \in SUBSET Bss
    BY <1>20 DEF TypeOK, FirmwareOK, FwAnswer
  <2>6. det' = det /\ nullFweh' \in BOOLEAN
    BY <1>20 DEF TypeOK, FirmwareOK, FwAnswer
  <2>7. FirmwareOK'
    BY <2>1, <2>5, <2>6 DEF TypeOK, FirmwareOK
  <2> QED
    BY <2>2, <2>3, <2>4, <2>7 DEF TypeOK
<1>21. CASE FwIgnore
  BY <1>21 DEF TypeOK, ObjectsOK, CfgOK, ThreadsOK, FirmwareOK, FwIgnore
<1>22. CASE DetachDown
  BY <1>22 DEF TypeOK, ObjectsOK, CfgOK, ThreadsOK, FirmwareOK, DetachDown
<1>23. CASE FwehDetach
  BY <1>23 DEF TypeOK, ObjectsOK, CfgOK, ThreadsOK, FirmwareOK, FwehDetach
<1>24. CASE AwdlStop
  <2>2. ObjectsOK'
    BY <1>24 DEF TypeOK, ObjectsOK, AwdlStop, CleanupLocked, DisarmIf,
       ArmVifEvent, FreeVif, FwRemove
  <2>3. CfgOK'
    BY <1>24 DEF TypeOK, CfgOK, ObjectsOK, ThreadsOK, AwdlStop,
       CleanupLocked, DisarmIf, ArmVifEvent, FreeVif, FwRemove
  <2>4. ThreadsOK'
    BY <1>24 DEF TypeOK, ThreadsOK, ObjectsOK, AwdlStop, CleanupLocked,
       DisarmIf, ArmVifEvent, FreeVif, FwRemove
  <2>5. FirmwareOK'
    <3>1. CASE UNCHANGED fwVars
      BY <3>1, <1>24 DEF TypeOK, FirmwareOK, AwdlStop
    <3>2. CASE failedIfp # None /\ FwRemove(ifpBss[failedIfp])
      <4>1. failedIfp \in Ifp /\ ifpBss[failedIfp] \in Bss
        BY <3>2 DEF TypeOK, CfgOK, ObjectsOK, FirmwareOK, FwRemove
      <4>2. UNCHANGED nullFweh /\ det' \in {det, "stopped"}
        BY <1>24 DEF AwdlStop
      <4> QED
        BY <3>2, <4>1, <4>2, RemoveTypes DEF TypeOK, FirmwareOK
    <3> QED
      BY <3>1, <3>2, <1>24 DEF AwdlStop, CleanupLocked
  <2> QED
    BY <2>2, <2>3, <2>4, <2>5 DEF TypeOK
<1>25. ASSUME NEW b \in Bss, DetachRemove(b) PROVE TypeOK'
  BY <1>25 DEF TypeOK, ObjectsOK, CfgOK, ThreadsOK, FirmwareOK,
     DetachRemove, RemoveInterface, NetDetach, FreeVif
<1>26. CASE DetachDone
  BY <1>26 DEF TypeOK, ObjectsOK, CfgOK, ThreadsOK, FirmwareOK, DetachDone
<1>27. CASE UNCHANGED vars
  BY <1>27 DEF vars, TypeOK, ObjectsOK, CfgOK, ThreadsOK, FirmwareOK
<1> QED
  BY <1>1, <1>2, <1>3, <1>4, <1>5, <1>6, <1>7, <1>8, <1>9, <1>10, <1>11,
     <1>12, <1>13, <1>14, <1>15, <1>16, <1>17, <1>18, <1>19, <1>20, <1>21,
     <1>22, <1>23, <1>24, <1>25, <1>26, <1>27
  DEF Next, OpStep, WorkerStep, DetachStep

(* Every variable keeps its type in every behaviour. *)
THEOREM TypeCorrect == Spec => []TypeOK
<1>1. Init => TypeOK
  BY InitTypeOK
<1>2. TypeOK /\ [Next]_vars => TypeOK'
  BY StepTypeOK
<1> QED
  BY <1>1, <1>2, PTL DEF Spec
-----------------------------------------------------------------------------
LEMMA InitClaimInv == ASSUME Init PROVE ClaimInv
  BY DEF Init, ClaimInv, AttachPcs

LEMMA StepClaimInv == ASSUME TypeOK, ClaimInv, [Next]_vars PROVE ClaimInv'
<1> USE DEF vifVars, ifpVars, evVars, cfgVars, wqVars, fwVars, detVars,
   AttachPcs
<1>1. ASSUME NEW v \in Vif, CreateArm(v) PROVE ClaimInv'
  BY NoneIsNoObject, <1>1 DEF TypeOK, ObjectsOK, CfgOK, ThreadsOK, ClaimInv,
     CreateArm, ArmVifEvent, WiphyFree
<1>2. ASSUME NEW v \in Vif, OtherArm(v) PROVE ClaimInv'
  BY NoneIsNoObject, <1>2 DEF TypeOK, ObjectsOK, CfgOK, ThreadsOK, ClaimInv,
     OtherArm, ArmVifEvent, WiphyFree
<1>3. ASSUME NEW i \in Ifp, Destroy(i) PROVE ClaimInv'
  BY NoneIsNoObject, <1>3 DEF TypeOK, ObjectsOK, CfgOK, ThreadsOK, ClaimInv,
     Destroy, FwRemove
<1>4. CASE CreatePublish
  BY NoneIsNoObject, <1>4 DEF TypeOK, ObjectsOK, CfgOK, ThreadsOK, ClaimInv,
     CreatePublish
<1>5. CASE CreateAsk
  BY NoneIsNoObject, <1>5 DEF TypeOK, ObjectsOK, CfgOK, ThreadsOK, ClaimInv,
     CreateAsk, IdleOp
<1>6. CASE OtherWait
  BY NoneIsNoObject, <1>6 DEF TypeOK, ObjectsOK, CfgOK, ThreadsOK, ClaimInv,
     OtherWait
<1>7. CASE OtherFinish
  BY NoneIsNoObject, <1>7 DEF TypeOK, ObjectsOK, CfgOK, ThreadsOK, ClaimInv,
     OtherFinish, ArmVifEvent, FreeVif, IdleOp
<1>8. ASSUME NEW i \in Ifp, WkAddIf(i) PROVE ClaimInv'
  BY NoneIsNoObject, <1>8 DEF TypeOK, ObjectsOK, CfgOK, ThreadsOK, ClaimInv,
     WkAddIf, FreeVif, NextEventIs, WorkerIdle
<1>9. CASE WkAddIfNoMem
  BY NoneIsNoObject, <1>9 DEF TypeOK, ObjectsOK, CfgOK, ThreadsOK, ClaimInv,
     WkAddIfNoMem, NetDetach, FreeVif, NextEventIs, WorkerIdle
<1>10. CASE WkNotifyAdd
  BY NoneIsNoObject, <1>10 DEF TypeOK, ObjectsOK, CfgOK, ThreadsOK,
     ClaimInv, WkNotifyAdd
<1>11. CASE WkClaim
  BY NoneIsNoObject, <1>11 DEF TypeOK, ObjectsOK, CfgOK, ThreadsOK,
     ClaimInv, WkClaim, Claims, IdleWorker
<1>12. CASE WkRegister
  BY NoneIsNoObject, <1>12 DEF TypeOK, ObjectsOK, CfgOK, ThreadsOK,
     ClaimInv, WkRegister, WiphyFree
<1>13. CASE WkAttached
  BY NoneIsNoObject, <1>13 DEF TypeOK, ObjectsOK, CfgOK, ThreadsOK,
     ClaimInv, WkAttached, DisarmIf, ArmVifEvent, IdleWorker
<1>14. CASE WkAttachFail
  BY NoneIsNoObject, <1>14 DEF TypeOK, ObjectsOK, CfgOK, ThreadsOK,
     ClaimInv, WkAttachFail, ArmVifEvent, IdleWorker
<1>15. CASE WkDel
  <2>1. Head(evq).bss \in Bss
    BY <1>15, HeadSlot DEF TypeOK, FirmwareOK, WkDel, NextEventIs
  <2> QED
    BY <2>1, NoneIsNoObject, <1>15 DEF TypeOK, ObjectsOK, CfgOK,
       ThreadsOK, ClaimInv, WkDel, NextEventIs, WorkerIdle
<1>16. CASE WkDelArmed
  BY NoneIsNoObject, <1>16 DEF TypeOK, ObjectsOK, CfgOK, ThreadsOK,
     ClaimInv, WkDelArmed, IdleWorker
<1>17. CASE WkRemove
  BY NoneIsNoObject, <1>17 DEF TypeOK, ObjectsOK, CfgOK, ThreadsOK,
     ClaimInv, WkRemove, RemoveInterface, NetDetach, FreeVif, IdleWorker
<1>18. CASE Timeout
  BY NoneIsNoObject, <1>18 DEF TypeOK, ObjectsOK, CfgOK, ThreadsOK,
     ClaimInv, Timeout, DisarmIf, ArmVifEvent, FreeVif, TimeoutDefers,
     WiphyFree
<1>19. CASE Cleanup
  BY NoneIsNoObject, <1>19 DEF TypeOK, ObjectsOK, CfgOK, ThreadsOK,
     ClaimInv, Cleanup, CleanupLocked, DisarmIf, ArmVifEvent, FreeVif,
     FwRemove, WiphyFree
<1>20. ASSUME NEW b \in Bss, FwAnswer(b) PROVE ClaimInv'
  BY NoneIsNoObject, <1>20 DEF TypeOK, ObjectsOK, CfgOK, ThreadsOK,
     ClaimInv, FwAnswer
<1>21. CASE FwIgnore
  BY NoneIsNoObject, <1>21 DEF TypeOK, ObjectsOK, CfgOK, ThreadsOK,
     ClaimInv, FwIgnore
<1>22. CASE DetachDown
  BY NoneIsNoObject, <1>22 DEF TypeOK, ObjectsOK, CfgOK, ThreadsOK,
     ClaimInv, DetachDown
<1>23. CASE FwehDetach
  BY NoneIsNoObject, <1>23 DEF TypeOK, ObjectsOK, CfgOK, ThreadsOK,
     ClaimInv, FwehDetach, WorkerIdle
<1>24. CASE AwdlStop
  BY NoneIsNoObject, <1>24 DEF TypeOK, ObjectsOK, CfgOK, ThreadsOK,
     ClaimInv, AwdlStop, CleanupLocked, DisarmIf, ArmVifEvent, FreeVif,
     FwRemove, WiphyFree
<1>25. ASSUME NEW b \in Bss, DetachRemove(b) PROVE ClaimInv'
  BY NoneIsNoObject, <1>25 DEF TypeOK, ObjectsOK, CfgOK, ThreadsOK,
     ClaimInv, DetachRemove, RemoveInterface, NetDetach, FreeVif
<1>26. CASE DetachDone
  BY NoneIsNoObject, <1>26 DEF TypeOK, ObjectsOK, CfgOK, ThreadsOK,
     ClaimInv, DetachDone, WiphyFree
<1>27. CASE UNCHANGED vars
  BY <1>27 DEF vars, ClaimInv
<1> QED
  BY <1>1, <1>2, <1>3, <1>4, <1>5, <1>6, <1>7, <1>8, <1>9, <1>10, <1>11,
     <1>12, <1>13, <1>14, <1>15, <1>16, <1>17, <1>18, <1>19, <1>20, <1>21,
     <1>22, <1>23, <1>24, <1>25, <1>26, <1>27
  DEF Next, OpStep, WorkerStep, DetachStep

LEMMA StepClaimed ==
  ASSUME TypeOK, ClaimInv, [Next]_vars, attaching, failedIfp = None
  PROVE  vifState'[awdlVif] = vifState[awdlVif]
<1> USE DEF vifVars, ifpVars, evVars, cfgVars, wqVars, fwVars, detVars
<1>1. /\ awdlVif \in Vif /\ vifState[awdlVif] # "new"
      /\ wk.pc \in AttachPcs /\ ~cln /\ pending
      /\ det \notin {"drained", "stopped", "done"}
  BY DEF TypeOK, CfgOK, ClaimInv, AttachPcs
<1>2. ASSUME NEW v \in Vif, CreateArm(v) \/ OtherArm(v)
      PROVE  vifState'[awdlVif] = vifState[awdlVif]
  BY <1>1, <1>2 DEF TypeOK, ObjectsOK, CreateArm, OtherArm
<1>3. CASE OtherFinish
  BY <1>1, <1>3 DEF TypeOK, ObjectsOK, ThreadsOK, ClaimInv, OtherFinish, FreeVif
<1>4. CASE Timeout
  BY <1>1, <1>4 DEF Timeout, TimeoutDefers
<1>5. CASE Cleanup
  BY <1>1, <1>5 DEF Cleanup
<1>6. ASSUME NEW i \in Ifp, WkAddIf(i)
      PROVE  vifState'[awdlVif] = vifState[awdlVif]
  BY <1>1, <1>6 DEF WkAddIf, NextEventIs, WorkerIdle, AttachPcs
<1>7. CASE WkAddIfNoMem \/ WkRemove \/ WkDel
  BY <1>1, <1>7 DEF WkAddIfNoMem, WkRemove, WkDel, NextEventIs, WorkerIdle,
     AttachPcs
<1>8. CASE WkNotifyAdd \/ WkClaim \/ WkRegister \/ WkAttached \/ WkAttachFail
           \/ WkDelArmed
  BY <1>8 DEF WkNotifyAdd, WkClaim, WkRegister, WkAttached, WkAttachFail,
     WkDelArmed
<1>9. CASE CreatePublish \/ CreateAsk \/ OtherWait \/ FwIgnore \/ DetachDown
  BY <1>9 DEF CreatePublish, CreateAsk, OtherWait, FwIgnore, DetachDown
<1>10. ASSUME NEW b \in Bss, FwAnswer(b)
       PROVE  vifState'[awdlVif] = vifState[awdlVif]
  BY <1>10 DEF FwAnswer
<1>11. ASSUME NEW i \in Ifp, Destroy(i)
       PROVE  vifState'[awdlVif] = vifState[awdlVif]
  BY <1>11 DEF Destroy
<1>12. CASE DetachStep
  BY <1>1, <1>12 DEF DetachStep, FwehDetach, AwdlStop, DetachRemove, DetachDone
<1>13. CASE UNCHANGED vars
  BY <1>13 DEF vars
<1> QED
  BY <1>2, <1>3, <1>4, <1>5, <1>6, <1>7, <1>8, <1>9, <1>10, <1>11, <1>12, <1>13
  DEF Next, OpStep, WorkerStep

(* Once the worker has claimed the pending vif, no timeout, cleanup, other  *)
(* operation or detach frees it: awdl_attaching and awdl_failed_ifp hand it *)
(* from the worker to its own cleanup (ClaimedIsWorkers of the runs).       *)
THEOREM ClaimIsExclusive == Spec => ClaimedIsWorkers
<1>1. Init => TypeOK /\ ClaimInv
  BY InitTypeOK, InitClaimInv
<1>2. TypeOK /\ ClaimInv /\ [Next]_vars => TypeOK' /\ ClaimInv'
  BY StepTypeOK, StepClaimInv
<1>3. TypeOK /\ ClaimInv /\ [Next]_vars
        => [attaching /\ failedIfp = None
              => vifState'[awdlVif] = vifState[awdlVif]]_vars
  BY StepClaimed
<1> QED
  BY <1>1, <1>2, <1>3, PTL DEF Spec, ClaimedIsWorkers

-----------------------------------------------------------------------------
LEMMA InitLinkInv == ASSUME Init PROVE LinkInv
  BY DEF Init, LinkInv, Awdl0Exists

LEMMA StepLinkInv ==
  ASSUME ~OtherOps, TypeOK, ClaimInv, LinkInv, [Next]_vars
  PROVE  LinkInv'
<1> USE DEF vifVars, ifpVars, evVars, cfgVars, wqVars, fwVars, detVars,
   AttachPcs, Awdl0Exists
<1>1. ASSUME NEW v \in Vif, CreateArm(v) PROVE LinkInv'
  BY NoneIsNoObject, <1>1 DEF TypeOK, ObjectsOK, CfgOK, ThreadsOK, ClaimInv,
     LinkInv, CreateArm, ArmVifEvent, WiphyFree, BusUp
<1>2. ASSUME NEW v \in Vif, OtherArm(v) PROVE LinkInv'
  BY NoneIsNoObject, <1>2 DEF TypeOK, ObjectsOK, CfgOK, ThreadsOK, ClaimInv,
     LinkInv, OtherArm, ArmVifEvent, WiphyFree, BusUp
<1>3. ASSUME NEW i \in Ifp, Destroy(i) PROVE LinkInv'
  BY NoneIsNoObject, <1>3 DEF TypeOK, ObjectsOK, CfgOK, ThreadsOK, ClaimInv,
     LinkInv, Destroy, FwRemove, WiphyFree
<1>4. CASE CreatePublish
  BY NoneIsNoObject, <1>4 DEF TypeOK, ObjectsOK, CfgOK, ThreadsOK, ClaimInv,
     LinkInv, CreatePublish
<1>5. CASE CreateAsk
  BY NoneIsNoObject, <1>5 DEF TypeOK, ObjectsOK, CfgOK, ThreadsOK, ClaimInv,
     LinkInv, CreateAsk, IdleOp
<1>6. CASE OtherWait
  BY NoneIsNoObject, <1>6 DEF TypeOK, ObjectsOK, CfgOK, ThreadsOK, ClaimInv,
     LinkInv, OtherWait
<1>7. CASE OtherFinish
  BY NoneIsNoObject, <1>7 DEF TypeOK, ObjectsOK, CfgOK, ThreadsOK, ClaimInv,
     LinkInv, OtherFinish, ArmVifEvent, FreeVif, IdleOp
<1>8. ASSUME NEW i \in Ifp, WkAddIf(i) PROVE LinkInv'
  <2>1. Head(evq).bss \in Bss
    BY <1>8, HeadSlot DEF TypeOK, FirmwareOK, WkAddIf, NextEventIs
  <2> QED
    BY <2>1, NoneIsNoObject, <1>8 DEF TypeOK, ObjectsOK, CfgOK, ThreadsOK,
       ClaimInv, LinkInv, WkAddIf, FreeVif, NextEventIs, WorkerIdle
<1>9. CASE WkAddIfNoMem
  <2>1. Head(evq).bss \in Bss
    BY <1>9, HeadSlot DEF TypeOK, FirmwareOK, WkAddIfNoMem, NextEventIs
  <2> QED
    BY <2>1, NoneIsNoObject, <1>9 DEF TypeOK, ObjectsOK, CfgOK, ThreadsOK,
       ClaimInv, LinkInv, WkAddIfNoMem, NetDetach, FreeVif, NextEventIs,
       WorkerIdle
<1>10. CASE WkNotifyAdd
  BY NoneIsNoObject, <1>10 DEF TypeOK, ObjectsOK, CfgOK, ThreadsOK,
     ClaimInv, LinkInv, WkNotifyAdd
<1>11. CASE WkClaim
  BY NoneIsNoObject, <1>11 DEF TypeOK, ObjectsOK, CfgOK, ThreadsOK,
     ClaimInv, LinkInv, WkClaim, Claims, IdleWorker
<1>12. CASE WkRegister
  BY NoneIsNoObject, <1>12 DEF TypeOK, ObjectsOK, CfgOK, ThreadsOK,
     ClaimInv, LinkInv, WkRegister, WiphyFree
<1>13. CASE WkAttached
  BY NoneIsNoObject, <1>13 DEF TypeOK, ObjectsOK, CfgOK, ThreadsOK,
     ClaimInv, LinkInv, WkAttached, DisarmIf, ArmVifEvent, IdleWorker
<1>14. CASE WkAttachFail
  BY NoneIsNoObject, <1>14 DEF TypeOK, ObjectsOK, CfgOK, ThreadsOK,
     ClaimInv, LinkInv, WkAttachFail, ArmVifEvent, IdleWorker
<1>15. CASE WkDel
  <2>1. Head(evq).bss \in Bss
    BY <1>15, HeadSlot DEF TypeOK, FirmwareOK, WkDel, NextEventIs
  <2> QED
    BY <2>1, NoneIsNoObject, <1>15 DEF TypeOK, ObjectsOK, CfgOK,
       ThreadsOK, ClaimInv, LinkInv, WkDel, NextEventIs, WorkerIdle
<1>16. CASE WkDelArmed
  BY NoneIsNoObject, <1>16 DEF TypeOK, ObjectsOK, CfgOK, ThreadsOK,
     ClaimInv, LinkInv, WkDelArmed, IdleWorker
<1>17. CASE WkRemove
  BY NoneIsNoObject, <1>17 DEF TypeOK, ObjectsOK, CfgOK, ThreadsOK,
     ClaimInv, LinkInv, WkRemove, RemoveInterface, NetDetach, FreeVif,
     IdleWorker
<1>18. CASE Timeout
  BY NoneIsNoObject, <1>18 DEF TypeOK, ObjectsOK, CfgOK, ThreadsOK,
     ClaimInv, LinkInv, Timeout, DisarmIf, ArmVifEvent, FreeVif,
     TimeoutDefers, WiphyFree
<1>19. CASE Cleanup
  BY NoneIsNoObject, <1>19 DEF TypeOK, ObjectsOK, CfgOK, ThreadsOK,
     ClaimInv, LinkInv, Cleanup, CleanupLocked, DisarmIf, ArmVifEvent,
     FreeVif, FwRemove, WiphyFree
<1>20. ASSUME NEW b \in Bss, FwAnswer(b) PROVE LinkInv'
  BY NoneIsNoObject, <1>20 DEF TypeOK, ObjectsOK, CfgOK, ThreadsOK,
     ClaimInv, LinkInv, FwAnswer
<1>21. CASE FwIgnore
  BY NoneIsNoObject, <1>21 DEF TypeOK, ObjectsOK, CfgOK, ThreadsOK,
     ClaimInv, LinkInv, FwIgnore
<1>22. CASE DetachDown
  BY NoneIsNoObject, <1>22 DEF TypeOK, ObjectsOK, CfgOK, ThreadsOK,
     ClaimInv, LinkInv, DetachDown
<1>23. CASE FwehDetach
  BY NoneIsNoObject, <1>23 DEF TypeOK, ObjectsOK, CfgOK, ThreadsOK,
     ClaimInv, LinkInv, FwehDetach, WorkerIdle
<1>24. CASE AwdlStop
  BY NoneIsNoObject, <1>24 DEF TypeOK, ObjectsOK, CfgOK, ThreadsOK,
     ClaimInv, LinkInv, AwdlStop, CleanupLocked, DisarmIf, ArmVifEvent,
     FreeVif, FwRemove, WiphyFree
<1>25. ASSUME NEW b \in Bss, DetachRemove(b) PROVE LinkInv'
  BY NoneIsNoObject, <1>25 DEF TypeOK, ObjectsOK, CfgOK, ThreadsOK,
     ClaimInv, LinkInv, DetachRemove, RemoveInterface, NetDetach, FreeVif
<1>26. CASE DetachDone
  BY NoneIsNoObject, <1>26 DEF TypeOK, ObjectsOK, CfgOK, ThreadsOK,
     ClaimInv, LinkInv, DetachDone, WiphyFree
<1>27. CASE UNCHANGED vars
  BY <1>27 DEF vars, LinkInv
<1> QED
  BY <1>1, <1>2, <1>3, <1>4, <1>5, <1>6, <1>7, <1>8, <1>9, <1>10, <1>11,
     <1>12, <1>13, <1>14, <1>15, <1>16, <1>17, <1>18, <1>19, <1>20, <1>21,
     <1>22, <1>23, <1>24, <1>25, <1>26, <1>27
  DEF Next, OpStep, WorkerStep, DetachStep

LEMMA StepLink ==
  ASSUME ~OtherOps, TypeOK, ClaimInv, LinkInv, [Next]_vars
  PROVE  [Link!Next]_(Link!linkVars)
<1> USE DEF vifVars, ifpVars, evVars, cfgVars, wqVars, fwVars, detVars,
   AttachPcs, Awdl0Exists,
  Link!Next, Link!Begin, Link!Resolve, Link!Drop, Link!Gone, Link!linkVars
<1>1. ASSUME NEW v \in Vif, CreateArm(v) PROVE [Link!Next]_(Link!linkVars)
  BY NoneIsNoObject, <1>1 DEF TypeOK, ObjectsOK, CfgOK, ThreadsOK, ClaimInv,
     LinkInv, CreateArm, ArmVifEvent, WiphyFree, BusUp
<1>2. ASSUME NEW v \in Vif, OtherArm(v) PROVE [Link!Next]_(Link!linkVars)
  BY NoneIsNoObject, <1>2 DEF TypeOK, ObjectsOK, CfgOK, ThreadsOK, ClaimInv,
     LinkInv, OtherArm, ArmVifEvent, WiphyFree, BusUp
<1>3. ASSUME NEW i \in Ifp, Destroy(i) PROVE [Link!Next]_(Link!linkVars)
  BY NoneIsNoObject, <1>3 DEF TypeOK, ObjectsOK, CfgOK, ThreadsOK, ClaimInv,
     LinkInv, Destroy, FwRemove, WiphyFree
<1>4. CASE CreatePublish
  BY NoneIsNoObject, <1>4 DEF TypeOK, ObjectsOK, CfgOK, ThreadsOK, ClaimInv,
     LinkInv, CreatePublish
<1>5. CASE CreateAsk
  BY NoneIsNoObject, <1>5 DEF TypeOK, ObjectsOK, CfgOK, ThreadsOK, ClaimInv,
     LinkInv, CreateAsk, IdleOp
<1>6. CASE OtherWait
  BY NoneIsNoObject, <1>6 DEF TypeOK, ObjectsOK, CfgOK, ThreadsOK, ClaimInv,
     LinkInv, OtherWait
<1>7. CASE OtherFinish
  BY NoneIsNoObject, <1>7 DEF TypeOK, ObjectsOK, CfgOK, ThreadsOK, ClaimInv,
     LinkInv, OtherFinish, ArmVifEvent, FreeVif, IdleOp
<1>8. ASSUME NEW i \in Ifp, WkAddIf(i) PROVE [Link!Next]_(Link!linkVars)
  BY NoneIsNoObject, <1>8 DEF TypeOK, ObjectsOK, CfgOK, ThreadsOK, ClaimInv,
     LinkInv, WkAddIf, FreeVif, NextEventIs, WorkerIdle
<1>9. CASE WkAddIfNoMem
  BY NoneIsNoObject, <1>9 DEF TypeOK, ObjectsOK, CfgOK, ThreadsOK, ClaimInv,
     LinkInv, WkAddIfNoMem, NetDetach, FreeVif, NextEventIs, WorkerIdle
<1>10. CASE WkNotifyAdd
  BY NoneIsNoObject, <1>10 DEF TypeOK, ObjectsOK, CfgOK, ThreadsOK,
     ClaimInv, LinkInv, WkNotifyAdd
<1>11. CASE WkClaim
  BY NoneIsNoObject, <1>11 DEF TypeOK, ObjectsOK, CfgOK, ThreadsOK,
     ClaimInv, LinkInv, WkClaim, Claims, IdleWorker
<1>12. CASE WkRegister
  BY NoneIsNoObject, <1>12 DEF TypeOK, ObjectsOK, CfgOK, ThreadsOK,
     ClaimInv, LinkInv, WkRegister, WiphyFree
<1>13. CASE WkAttached
  BY NoneIsNoObject, <1>13 DEF TypeOK, ObjectsOK, CfgOK, ThreadsOK,
     ClaimInv, LinkInv, WkAttached, DisarmIf, ArmVifEvent, IdleWorker
<1>14. CASE WkAttachFail
  BY NoneIsNoObject, <1>14 DEF TypeOK, ObjectsOK, CfgOK, ThreadsOK,
     ClaimInv, LinkInv, WkAttachFail, ArmVifEvent, IdleWorker
<1>15. CASE WkDel
  BY NoneIsNoObject, <1>15 DEF TypeOK, ObjectsOK, CfgOK, ThreadsOK,
     ClaimInv, LinkInv, WkDel, NextEventIs, WorkerIdle
<1>16. CASE WkDelArmed
  BY NoneIsNoObject, <1>16 DEF TypeOK, ObjectsOK, CfgOK, ThreadsOK,
     ClaimInv, LinkInv, WkDelArmed, IdleWorker
<1>17. CASE WkRemove
  BY NoneIsNoObject, <1>17 DEF TypeOK, ObjectsOK, CfgOK, ThreadsOK,
     ClaimInv, LinkInv, WkRemove, RemoveInterface, NetDetach, FreeVif,
     IdleWorker
<1>18. CASE Timeout
  BY NoneIsNoObject, <1>18 DEF TypeOK, ObjectsOK, CfgOK, ThreadsOK,
     ClaimInv, LinkInv, Timeout, DisarmIf, ArmVifEvent, FreeVif,
     TimeoutDefers, WiphyFree
<1>19. CASE Cleanup
  BY NoneIsNoObject, <1>19 DEF TypeOK, ObjectsOK, CfgOK, ThreadsOK,
     ClaimInv, LinkInv, Cleanup, CleanupLocked, DisarmIf, ArmVifEvent,
     FreeVif, FwRemove, WiphyFree
<1>20. ASSUME NEW b \in Bss, FwAnswer(b) PROVE [Link!Next]_(Link!linkVars)
  BY NoneIsNoObject, <1>20 DEF TypeOK, ObjectsOK, CfgOK, ThreadsOK,
     ClaimInv, LinkInv, FwAnswer
<1>21. CASE FwIgnore
  BY NoneIsNoObject, <1>21 DEF TypeOK, ObjectsOK, CfgOK, ThreadsOK,
     ClaimInv, LinkInv, FwIgnore
<1>22. CASE DetachDown
  BY NoneIsNoObject, <1>22 DEF TypeOK, ObjectsOK, CfgOK, ThreadsOK,
     ClaimInv, LinkInv, DetachDown
<1>23. CASE FwehDetach
  BY NoneIsNoObject, <1>23 DEF TypeOK, ObjectsOK, CfgOK, ThreadsOK,
     ClaimInv, LinkInv, FwehDetach, WorkerIdle
<1>24. CASE AwdlStop
  BY NoneIsNoObject, <1>24 DEF TypeOK, ObjectsOK, CfgOK, ThreadsOK,
     ClaimInv, LinkInv, AwdlStop, CleanupLocked, DisarmIf, ArmVifEvent,
     FreeVif, FwRemove, WiphyFree
<1>25. ASSUME NEW b \in Bss, DetachRemove(b) PROVE [Link!Next]_(Link!linkVars)
  BY NoneIsNoObject, <1>25 DEF TypeOK, ObjectsOK, CfgOK, ThreadsOK,
     ClaimInv, LinkInv, DetachRemove, RemoveInterface, NetDetach, FreeVif
<1>26. CASE DetachDone
  BY NoneIsNoObject, <1>26 DEF TypeOK, ObjectsOK, CfgOK, ThreadsOK,
     ClaimInv, LinkInv, DetachDone, WiphyFree
<1>27. CASE UNCHANGED vars
  BY <1>27 DEF vars, LinkInv
<1> QED
  BY <1>1, <1>2, <1>3, <1>4, <1>5, <1>6, <1>7, <1>8, <1>9, <1>10, <1>11,
     <1>12, <1>13, <1>14, <1>15, <1>16, <1>17, <1>18, <1>19, <1>20, <1>21,
     <1>22, <1>23, <1>24, <1>25, <1>26, <1>27
  DEF Next, OpStep, WorkerStep, DetachStep

LEMMA InitLink == ASSUME Init PROVE Link!Init
  BY DEF Init, Link!Init, Awdl0Exists

(* The safety part of the refinement: whatever the firmware answers, loses  *)
(* or delays, and however creations overlap, what userspace sees of awdl0   *)
(* moves as AwdlLink allows and nothing is left after brcmf_detach.         *)
THEOREM LinkRefinement == ~OtherOps => (Spec => LinkSafety)
<1> SUFFICES ASSUME ~OtherOps PROVE Spec => LinkSafety
  OBVIOUS
<1>1. Init => TypeOK /\ ClaimInv /\ LinkInv /\ Link!Init
  BY InitTypeOK, InitClaimInv, InitLinkInv, InitLink
<1>2. TypeOK /\ ClaimInv /\ LinkInv /\ [Next]_vars
        => TypeOK' /\ ClaimInv' /\ LinkInv'
  BY StepTypeOK, StepClaimInv, StepLinkInv
<1>3. TypeOK /\ ClaimInv /\ LinkInv /\ [Next]_vars
        => [Link!Next]_(Link!linkVars)
  BY StepLink
<1> QED
  BY <1>1, <1>2, <1>3, PTL DEF Spec, LinkSafety

(* With the interrupt stopped before brcmf_detach no event meets the freed  *)
(* event state: what the comment of brcmf_detach needs of every bus.        *)
THEOREM QuiescedProducers == IrqQuiesced => (Spec => []ProducersStopped)
<1> SUFFICES ASSUME IrqQuiesced PROVE Spec => []ProducersStopped
  OBVIOUS
<1>1. Init => ProducersStopped
  BY DEF Init, ProducersStopped
<1>2. ProducersStopped /\ [Next]_vars => ProducersStopped'
  <2> SUFFICES ASSUME ProducersStopped, [Next]_vars PROVE nullFweh' = nullFweh
    BY DEF ProducersStopped
  <2> USE DEF detVars
  <2>1. ASSUME NEW b \in Bss, FwAnswer(b) PROVE nullFweh' = nullFweh
    BY <2>1 DEF FwAnswer, RxLive
  <2>2. CASE FwIgnore \/ DetachDown \/ DetachStep \/ Timeout \/ Cleanup
    BY <2>2 DEF FwIgnore, DetachDown, DetachStep, FwehDetach, AwdlStop,
       DetachRemove, DetachDone, Timeout, Cleanup
  <2>3. CASE OpStep \/ WorkerStep
    BY <2>3 DEF OpStep, CreatePublish, CreateAsk, OtherWait, OtherFinish,
       WorkerStep, WkAddIf, WkAddIfNoMem, WkNotifyAdd, WkClaim, WkRegister,
       WkAttached, WkAttachFail, WkDel, WkDelArmed, WkRemove
  <2>4. ASSUME NEW v \in Vif, CreateArm(v) \/ OtherArm(v)
        PROVE  nullFweh' = nullFweh
    BY <2>4 DEF CreateArm, OtherArm
  <2>5. ASSUME NEW i \in Ifp, Destroy(i) PROVE nullFweh' = nullFweh
    BY <2>5 DEF Destroy
  <2>6. CASE UNCHANGED vars
    BY <2>6 DEF vars
  <2> QED
    BY <2>1, <2>2, <2>3, <2>4, <2>5, <2>6 DEF Next
<1> QED
  BY <1>1, <1>2, PTL DEF Spec

-----------------------------------------------------------------------------
(* Taking the first event, and queueing one: what becomes of the IF_ADDs.    *)
LEMMA AddsTail ==
  ASSUME NEW q \in Seq(Event), q # <<>>, \A j, k \in Adds(q) : j = k
  PROVE  /\ Head(q).act = "ADD" => Adds(Tail(q)) = {}
         /\ Adds(Tail(q)) # {} => Adds(q) # {}
         /\ \A j, k \in Adds(Tail(q)) : j = k
<1>1. /\ Len(q) \in Nat /\ Len(q) > 0 /\ Head(q) = q[1] /\ 1 \in DOMAIN q
      /\ DOMAIN Tail(q) = 1..(Len(q) - 1) /\ DOMAIN q = 1..Len(q)
      /\ \A k \in 1..(Len(q) - 1) : Tail(q)[k] = q[k + 1]
  OBVIOUS
<1>2. \A k \in Adds(Tail(q)) : k \in Nat /\ k + 1 \in Adds(q)
  BY <1>1 DEF Adds
<1>3. Head(q).act = "ADD" => 1 \in Adds(q)
  BY <1>1 DEF Adds
<1>4. ASSUME NEW k \in Adds(Tail(q)), Head(q).act = "ADD" PROVE FALSE
  <2>1. k \in Nat /\ k >= 1
    BY <1>1 DEF Adds
  <2> QED
    BY <1>2, <1>3, <1>4, <2>1
<1>5. \A j, k \in Adds(Tail(q)) : j = k
  BY <1>2
<1> QED
  BY <1>2, <1>4, <1>5

LEMMA AddsAppend ==
  ASSUME NEW q \in Seq(Event), NEW e \in Event
  PROVE  /\ e.act # "ADD" => Adds(Append(q, e)) = Adds(q)
         /\ Adds(q) = {} => \A j, k \in Adds(Append(q, e)) : j = k
<1>1. /\ Len(q) \in Nat /\ DOMAIN q = 1..Len(q)
      /\ DOMAIN Append(q, e) = 1..(Len(q) + 1)
      /\ \A k \in 1..Len(q) : Append(q, e)[k] = q[k]
      /\ Append(q, e)[Len(q) + 1] = e
  OBVIOUS
<1>2. \A k \in Adds(Append(q, e)) : k \in Adds(q) \/ k = Len(q) + 1
  BY <1>1 DEF Adds
<1>3. \A k \in Adds(q) : k \in Adds(Append(q, e))
  BY <1>1 DEF Adds
<1>4. e.act # "ADD" => Len(q) + 1 \notin Adds(Append(q, e))
  BY <1>1 DEF Adds
<1> QED
  BY <1>2, <1>3, <1>4

LEMMA RemoveAdds ==
  ASSUME NEW b \in Bss, FirmwareOK, FwRemove(b)
  PROVE  Adds(evq') = Adds(evq) /\ asked' = asked
<1>1. [act |-> "DEL", bss |-> b] \in Event
  BY DEF Event
<1>2. Adds(Append(evq, [act |-> "DEL", bss |-> b])) = Adds(evq)
  BY <1>1, AddsAppend DEF FirmwareOK
<1> QED
  BY <1>2 DEF FwRemove

LEMMA CleanupAdds ==
  ASSUME TypeOK, CleanupLocked
  PROVE  Adds(evq') = Adds(evq) /\ asked' = asked
<1>1. CASE UNCHANGED fwVars
  BY <1>1 DEF fwVars
<1>2. CASE failedIfp # None /\ FwRemove(ifpBss[failedIfp])
  <2>1. ifpBss[failedIfp] \in Bss
    BY <1>2 DEF TypeOK, FirmwareOK, FwRemove
  <2> QED
    BY <1>2, <2>1, RemoveAdds DEF TypeOK
<1> QED
  BY <1>1, <1>2 DEF CleanupLocked

LEMMA AddTaken ==
  ASSUME FirmwareOK, OneAdd, NextEventIs("ADD"), evq' = Tail(evq)
  PROVE  Adds(evq) # {} /\ Adds(evq') = {}
<1>1. Adds(evq') = {}
  BY AddsTail DEF FirmwareOK, OneAdd, NextEventIs
<1>2. evq \in Seq(Event) /\ evq # <<>> /\ Head(evq).act = "ADD"
  BY DEF FirmwareOK, NextEventIs
<1>3. 1 \in Adds(evq)
  BY <1>2 DEF Adds
<1> QED
  BY <1>1, <1>3

LEMMA StepArmed ==
  ASSUME ~Overlap, TypeOK, ClaimInv, Inv, [Next]_vars
  PROVE  Armed'
<1> USE NoneIsNoObject DEF vifVars, ifpVars, evVars, cfgVars, wqVars, fwVars, detVars,
   AttachPcs, OtherPcs, Live, TypeOK, ObjectsOK, CfgOK, ThreadsOK, Inv, OneAdd, Armed,
   Linked, Listed, Ends, ClaimInv
<1>1. ASSUME NEW v \in Vif, CreateArm(v) PROVE Armed'
  BY <1>1 DEF CreateArm, ArmVifEvent, WiphyFree, MayRequest, AddOutstanding, BusUp
<1>2. ASSUME NEW v \in Vif, OtherArm(v) PROVE Armed'
  BY <1>2 DEF OtherArm, ArmVifEvent, WiphyFree, MayRequest, AddOutstanding, BusUp
<1>3. ASSUME NEW i \in Ifp, Destroy(i) PROVE Armed'
  <2>1. ifpBss[i] \in Bss /\ FwRemove(ifpBss[i])
    BY <1>3 DEF Destroy, FwRemove, TypeOK, ObjectsOK, FirmwareOK
  <2>2. Adds(evq') = Adds(evq) /\ asked' = asked
    BY <2>1, RemoveAdds DEF TypeOK
  <2> QED
    BY <1>3, <2>1, <2>2 DEF Destroy, FwRemove, WiphyFree
<1>4. CASE CreatePublish
  BY <1>4 DEF CreatePublish
<1>5. CASE CreateAsk
  BY <1>5 DEF CreateAsk, IdleOp
<1>6. CASE OtherWait
  BY <1>6 DEF OtherWait
<1>7. CASE OtherFinish
  BY <1>7 DEF OtherFinish, ArmVifEvent, FreeVif, IdleOp
<1>8. ASSUME NEW i \in Ifp, WkAddIf(i) PROVE Armed'
  <2>1. Head(evq).bss \in Bss
    BY <1>8, HeadSlot DEF TypeOK, FirmwareOK, WkAddIf, NextEventIs
  <2>2. /\ Adds(evq) # {} /\ Adds(evq') = {}
    BY <1>8, AddTaken DEF TypeOK, Inv, WkAddIf, NextEventIs
  <2> QED
    BY <1>8, <2>1, <2>2 DEF WkAddIf, FreeVif, NextEventIs, WorkerIdle
<1>9. CASE WkAddIfNoMem
  <2>1. Head(evq).bss \in Bss
    BY <1>9, HeadSlot DEF TypeOK, FirmwareOK, WkAddIfNoMem, NextEventIs
  <2>2. /\ Adds(evq) # {} /\ Adds(evq') = {}
    BY <1>9, AddTaken DEF TypeOK, Inv, WkAddIfNoMem, NextEventIs
  <2> QED
    BY <1>9, <2>1, <2>2 DEF WkAddIfNoMem, NetDetach, FreeVif, NextEventIs, WorkerIdle
<1>10. CASE WkNotifyAdd
  BY <1>10 DEF WkNotifyAdd
<1>11. CASE WkClaim
  BY <1>11 DEF WkClaim, Claims, IdleWorker
<1>12. CASE WkRegister
  BY <1>12 DEF WkRegister, WiphyFree
<1>13. CASE WkAttached
  BY <1>13 DEF WkAttached, DisarmIf, ArmVifEvent, IdleWorker
<1>14. CASE WkAttachFail
  BY <1>14 DEF WkAttachFail, ArmVifEvent, IdleWorker
<1>15. CASE WkDel
  <2>1. Head(evq).bss \in Bss
    BY <1>15, HeadSlot DEF TypeOK, FirmwareOK, WkDel, NextEventIs
  <2>2. /\ Adds(evq') # {} => Adds(evq) # {}
       /\ \A j, k \in Adds(evq') : j = k
    BY <1>15, AddsTail DEF TypeOK, FirmwareOK, Inv, OneAdd, WkDel, NextEventIs
  <2> QED
    BY <1>15, <2>1, <2>2 DEF WkDel, NextEventIs, WorkerIdle
<1>16. CASE WkDelArmed
  BY <1>16 DEF WkDelArmed, IdleWorker
<1>17. CASE WkRemove
  BY <1>17 DEF WkRemove, RemoveInterface, NetDetach, FreeVif, IdleWorker
<1>18. CASE Timeout
  BY <1>18 DEF Timeout, DisarmIf, ArmVifEvent, FreeVif, TimeoutDefers, WiphyFree
<1>19. CASE Cleanup
  BY <1>19 DEF Cleanup, CleanupLocked, DisarmIf, ArmVifEvent, FreeVif, FwRemove,
     WiphyFree
<1>20. ASSUME NEW b \in Bss, FwAnswer(b) PROVE Armed'
  BY <1>20 DEF FwAnswer
<1>21. CASE FwIgnore
  BY <1>21 DEF FwIgnore
<1>22. CASE DetachDown
  BY <1>22 DEF DetachDown
<1>23. CASE FwehDetach
  <2>1. Adds(evq') = {}
    BY <1>23 DEF FwehDetach, Adds
  <2> QED
    BY <1>23, <2>1 DEF FwehDetach, WorkerIdle
<1>24. CASE AwdlStop
  BY <1>24 DEF AwdlStop, CleanupLocked, DisarmIf, ArmVifEvent, FreeVif, FwRemove,
     WiphyFree
<1>25. ASSUME NEW b \in Bss, DetachRemove(b) PROVE Armed'
  BY <1>25 DEF DetachRemove, RemoveInterface, NetDetach, FreeVif
<1>26. CASE DetachDone
  BY <1>26 DEF DetachDone, WiphyFree
<1>27. CASE UNCHANGED vars
  BY <1>27 DEF vars
<1> QED
  BY <1>1, <1>2, <1>3, <1>4, <1>5, <1>6, <1>7, <1>8, <1>9, <1>10, <1>11, <1>12, <1>13,
     <1>14, <1>15, <1>16, <1>17, <1>18, <1>19, <1>20, <1>21, <1>22, <1>23, <1>24, <1>25,
     <1>26, <1>27
  DEF Next, OpStep, WorkerStep, DetachStep

LEMMA StepLinked ==
  ASSUME ~Overlap, TypeOK, ClaimInv, Inv, [Next]_vars
  PROVE  Linked'
<1> USE NoneIsNoObject DEF vifVars, ifpVars, evVars, cfgVars, wqVars, fwVars, detVars,
   AttachPcs, OtherPcs, Live, TypeOK, ObjectsOK, CfgOK, ThreadsOK, Inv, OneAdd, Armed,
   Linked, Listed, Ends, ClaimInv
<1>1. ASSUME NEW v \in Vif, CreateArm(v) PROVE Linked'
  BY <1>1 DEF CreateArm, ArmVifEvent, WiphyFree, MayRequest, AddOutstanding, BusUp
<1>2. ASSUME NEW v \in Vif, OtherArm(v) PROVE Linked'
  BY <1>2 DEF OtherArm, ArmVifEvent, WiphyFree, MayRequest, AddOutstanding, BusUp
<1>3. ASSUME NEW i \in Ifp, Destroy(i) PROVE Linked'
  BY <1>3 DEF Destroy, FwRemove, WiphyFree
<1>4. CASE CreatePublish
  BY <1>4 DEF CreatePublish
<1>5. CASE CreateAsk
  BY <1>5 DEF CreateAsk, IdleOp
<1>6. CASE OtherWait
  BY <1>6 DEF OtherWait
<1>7. CASE OtherFinish
  BY <1>7 DEF OtherFinish, ArmVifEvent, FreeVif, IdleOp
<1>8. ASSUME NEW i \in Ifp, WkAddIf(i) PROVE Linked'
  <2>1. Head(evq).bss \in Bss
    BY <1>8, HeadSlot DEF TypeOK, FirmwareOK, WkAddIf, NextEventIs
  <2>2. /\ Adds(evq) # {} /\ Adds(evq') = {}
    BY <1>8, AddTaken DEF TypeOK, Inv, WkAddIf, NextEventIs
  <2> QED
    BY <1>8, <2>1, <2>2 DEF WkAddIf, FreeVif, NextEventIs, WorkerIdle
<1>9. CASE WkAddIfNoMem
  <2>1. Head(evq).bss \in Bss
    BY <1>9, HeadSlot DEF TypeOK, FirmwareOK, WkAddIfNoMem, NextEventIs
  <2>2. /\ Adds(evq) # {} /\ Adds(evq') = {}
    BY <1>9, AddTaken DEF TypeOK, Inv, WkAddIfNoMem, NextEventIs
  <2> QED
    BY <1>9, <2>1, <2>2 DEF WkAddIfNoMem, NetDetach, FreeVif, NextEventIs, WorkerIdle
<1>10. CASE WkNotifyAdd
  BY <1>10 DEF WkNotifyAdd
<1>11. CASE WkClaim
  BY <1>11 DEF WkClaim, Claims, IdleWorker
<1>12. CASE WkRegister
  BY <1>12 DEF WkRegister, WiphyFree
<1>13. CASE WkAttached
  BY <1>13 DEF WkAttached, DisarmIf, ArmVifEvent, IdleWorker
<1>14. CASE WkAttachFail
  BY <1>14 DEF WkAttachFail, ArmVifEvent, IdleWorker
<1>15. CASE WkDel
  BY <1>15 DEF WkDel, NextEventIs, WorkerIdle
<1>16. CASE WkDelArmed
  BY <1>16 DEF WkDelArmed, IdleWorker
<1>17. CASE WkRemove
  BY <1>17 DEF WkRemove, RemoveInterface, NetDetach, FreeVif, IdleWorker
<1>18. CASE Timeout
  BY <1>18 DEF Timeout, DisarmIf, ArmVifEvent, FreeVif, TimeoutDefers, WiphyFree
<1>19. CASE Cleanup
  BY <1>19 DEF Cleanup, CleanupLocked, DisarmIf, ArmVifEvent, FreeVif, FwRemove,
     WiphyFree
<1>20. ASSUME NEW b \in Bss, FwAnswer(b) PROVE Linked'
  BY <1>20 DEF FwAnswer
<1>21. CASE FwIgnore
  BY <1>21 DEF FwIgnore
<1>22. CASE DetachDown
  BY <1>22 DEF DetachDown
<1>23. CASE FwehDetach
  BY <1>23 DEF FwehDetach, WorkerIdle
<1>24. CASE AwdlStop
  BY <1>24 DEF AwdlStop, CleanupLocked, DisarmIf, ArmVifEvent, FreeVif, FwRemove,
     WiphyFree
<1>25. ASSUME NEW b \in Bss, DetachRemove(b) PROVE Linked'
  BY <1>25 DEF DetachRemove, RemoveInterface, NetDetach, FreeVif
<1>26. CASE DetachDone
  BY <1>26 DEF DetachDone, WiphyFree
<1>27. CASE UNCHANGED vars
  BY <1>27 DEF vars
<1> QED
  BY <1>1, <1>2, <1>3, <1>4, <1>5, <1>6, <1>7, <1>8, <1>9, <1>10, <1>11, <1>12, <1>13,
     <1>14, <1>15, <1>16, <1>17, <1>18, <1>19, <1>20, <1>21, <1>22, <1>23, <1>24, <1>25,
     <1>26, <1>27
  DEF Next, OpStep, WorkerStep, DetachStep

LEMMA StepListed ==
  ASSUME ~Overlap, TypeOK, ClaimInv, Inv, [Next]_vars
  PROVE  Listed'
<1> USE NoneIsNoObject DEF vifVars, ifpVars, evVars, cfgVars, wqVars, fwVars, detVars,
   AttachPcs, OtherPcs, Live, TypeOK, ObjectsOK, CfgOK, ThreadsOK, Inv, OneAdd, Armed,
   Linked, Listed, ClaimInv, Owned
<1>1. ASSUME NEW v \in Vif, CreateArm(v) PROVE Listed'
  BY <1>1 DEF CreateArm, ArmVifEvent, WiphyFree, MayRequest, AddOutstanding, BusUp
<1>2. ASSUME NEW v \in Vif, OtherArm(v) PROVE Listed'
  BY <1>2 DEF OtherArm, ArmVifEvent, WiphyFree, MayRequest, AddOutstanding, BusUp
<1>3. ASSUME NEW i \in Ifp, Destroy(i) PROVE Listed'
  BY <1>3 DEF Destroy, FwRemove, WiphyFree
<1>4. CASE CreatePublish
  BY <1>4 DEF CreatePublish
<1>5. CASE CreateAsk
  BY <1>5 DEF CreateAsk, IdleOp
<1>6. CASE OtherWait
  BY <1>6 DEF OtherWait
<1>7. CASE OtherFinish
  BY <1>7 DEF OtherFinish, ArmVifEvent, FreeVif, IdleOp
<1>8. ASSUME NEW i \in Ifp, WkAddIf(i) PROVE Listed'
  <2>1. Head(evq).bss \in Bss
    BY <1>8, HeadSlot DEF TypeOK, FirmwareOK, WkAddIf, NextEventIs
  <2>2. /\ Adds(evq) # {} /\ Adds(evq') = {}
    BY <1>8, AddTaken DEF TypeOK, Inv, WkAddIf, NextEventIs
  <2> QED
    BY <1>8, <2>1, <2>2 DEF WkAddIf, FreeVif, NextEventIs, WorkerIdle
<1>9. CASE WkAddIfNoMem
  <2>1. Head(evq).bss \in Bss
    BY <1>9, HeadSlot DEF TypeOK, FirmwareOK, WkAddIfNoMem, NextEventIs
  <2>2. /\ Adds(evq) # {} /\ Adds(evq') = {}
    BY <1>9, AddTaken DEF TypeOK, Inv, WkAddIfNoMem, NextEventIs
  <2>3. ASSUME iflist[Head(evq).bss] = None PROVE Listed'
    BY <1>9, <2>1, <2>2, <2>3 DEF WkAddIfNoMem, NetDetach, FreeVif, NextEventIs,
       WorkerIdle
  <2>4. ASSUME iflist[Head(evq).bss] # None PROVE Listed'
    BY <1>9, <2>1, <2>2, <2>4, SMTT(60) DEF WkAddIfNoMem, NetDetach, FreeVif,
       NextEventIs, WorkerIdle
  <2> QED
    BY <2>3, <2>4
<1>10. CASE WkNotifyAdd
  BY <1>10 DEF WkNotifyAdd
<1>11. CASE WkClaim
  BY <1>11 DEF WkClaim, Claims, IdleWorker
<1>12. CASE WkRegister
  BY <1>12 DEF WkRegister, WiphyFree
<1>13. CASE WkAttached
  BY <1>13 DEF WkAttached, DisarmIf, ArmVifEvent, IdleWorker
<1>14. CASE WkAttachFail
  BY <1>14 DEF WkAttachFail, ArmVifEvent, IdleWorker
<1>15. CASE WkDel
  <2>1. Head(evq).bss \in Bss
    BY <1>15, HeadSlot DEF TypeOK, FirmwareOK, WkDel, NextEventIs
  <2>2. /\ Adds(evq') # {} => Adds(evq) # {}
       /\ \A j, k \in Adds(evq') : j = k
    BY <1>15, AddsTail DEF TypeOK, FirmwareOK, Inv, OneAdd, WkDel, NextEventIs
  <2> QED
    BY <1>15, <2>1, <2>2, SMTT(30) DEF WkDel, NextEventIs, WorkerIdle
<1>16. CASE WkDelArmed
  BY <1>16 DEF WkDelArmed, IdleWorker
<1>17. CASE WkRemove
  BY <1>17 DEF WkRemove, RemoveInterface, NetDetach, FreeVif, IdleWorker
<1>18. CASE Timeout
  BY <1>18 DEF Timeout, DisarmIf, ArmVifEvent, FreeVif, TimeoutDefers, WiphyFree
<1>19. CASE Cleanup
  BY <1>19 DEF Cleanup, CleanupLocked, DisarmIf, ArmVifEvent, FreeVif, FwRemove,
     WiphyFree
<1>20. ASSUME NEW b \in Bss, FwAnswer(b) PROVE Listed'
  BY <1>20 DEF FwAnswer
<1>21. CASE FwIgnore
  BY <1>21 DEF FwIgnore
<1>22. CASE DetachDown
  BY <1>22 DEF DetachDown
<1>23. CASE FwehDetach
  BY <1>23 DEF FwehDetach, WorkerIdle
<1>24. CASE AwdlStop
  BY <1>24 DEF AwdlStop, CleanupLocked, DisarmIf, ArmVifEvent, FreeVif, FwRemove,
     WiphyFree
<1>25. ASSUME NEW b \in Bss, DetachRemove(b) PROVE Listed'
  BY <1>25 DEF DetachRemove, RemoveInterface, NetDetach, FreeVif
<1>26. CASE DetachDone
  BY <1>26 DEF DetachDone, WiphyFree
<1>27. CASE UNCHANGED vars
  BY <1>27 DEF vars
<1> QED
  BY <1>1, <1>2, <1>3, <1>4, <1>5, <1>6, <1>7, <1>8, <1>9, <1>10, <1>11, <1>12, <1>13,
     <1>14, <1>15, <1>16, <1>17, <1>18, <1>19, <1>20, <1>21, <1>22, <1>23, <1>24, <1>25,
     <1>26, <1>27
  DEF Next, OpStep, WorkerStep, DetachStep

LEMMA StepOneAdd ==
  ASSUME ~Overlap, TypeOK, ClaimInv, Inv, [Next]_vars
  PROVE  OneAdd'
<1> USE NoneIsNoObject DEF vifVars, ifpVars, evVars, cfgVars, wqVars, fwVars, detVars,
   AttachPcs, OtherPcs, Live, TypeOK, ObjectsOK, CfgOK, ThreadsOK, FirmwareOK, Inv,
   OneAdd, Armed, ClaimInv
<1>1. ASSUME NEW v \in Vif, CreateArm(v) PROVE OneAdd'
  <2>1. asked = 0 /\ Adds(evq) = {} /\ wk.pc \notin {"added", "claim"}
    BY <1>1 DEF CreateArm, MayRequest, AddOutstanding, Adds, TypeOK, FirmwareOK
  <2> QED
    BY <1>1, <2>1 DEF CreateArm, ArmVifEvent, WiphyFree, MayRequest, AddOutstanding,
       BusUp
<1>2. ASSUME NEW v \in Vif, OtherArm(v) PROVE OneAdd'
  <2>1. asked = 0 /\ Adds(evq) = {} /\ wk.pc \notin {"added", "claim"}
    BY <1>2 DEF OtherArm, MayRequest, AddOutstanding, Adds, TypeOK, FirmwareOK
  <2> QED
    BY <1>2, <2>1 DEF OtherArm, ArmVifEvent, WiphyFree, MayRequest, AddOutstanding,
       BusUp
<1>3. ASSUME NEW i \in Ifp, Destroy(i) PROVE OneAdd'
  <2>1. ifpBss[i] \in Bss /\ FwRemove(ifpBss[i])
    BY <1>3 DEF Destroy, FwRemove, TypeOK, ObjectsOK, FirmwareOK
  <2>2. Adds(evq') = Adds(evq) /\ asked' = asked
    BY <2>1, RemoveAdds DEF TypeOK
  <2> QED
    BY <1>3, <2>1, <2>2 DEF Destroy, FwRemove, WiphyFree
<1>4. CASE CreatePublish
  BY <1>4 DEF CreatePublish
<1>5. CASE CreateAsk
  BY <1>5 DEF CreateAsk, IdleOp
<1>6. CASE OtherWait
  BY <1>6 DEF OtherWait
<1>7. CASE OtherFinish
  BY <1>7 DEF OtherFinish, ArmVifEvent, FreeVif, IdleOp
<1>8. ASSUME NEW i \in Ifp, WkAddIf(i) PROVE OneAdd'
  <2>1. Head(evq).bss \in Bss
    BY <1>8, HeadSlot DEF TypeOK, FirmwareOK, WkAddIf, NextEventIs
  <2>2. /\ Adds(evq) # {} /\ Adds(evq') = {}
    BY <1>8, AddTaken DEF TypeOK, Inv, WkAddIf, NextEventIs
  <2> QED
    BY <1>8, <2>1, <2>2 DEF WkAddIf, FreeVif, NextEventIs, WorkerIdle
<1>9. CASE WkAddIfNoMem
  <2>1. Head(evq).bss \in Bss
    BY <1>9, HeadSlot DEF TypeOK, FirmwareOK, WkAddIfNoMem, NextEventIs
  <2>2. /\ Adds(evq) # {} /\ Adds(evq') = {}
    BY <1>9, AddTaken DEF TypeOK, Inv, WkAddIfNoMem, NextEventIs
  <2> QED
    BY <1>9, <2>1, <2>2 DEF WkAddIfNoMem, NetDetach, FreeVif, NextEventIs, WorkerIdle
<1>10. CASE WkNotifyAdd
  BY <1>10 DEF WkNotifyAdd
<1>11. CASE WkClaim
  BY <1>11 DEF WkClaim, Claims, IdleWorker
<1>12. CASE WkRegister
  BY <1>12 DEF WkRegister, WiphyFree
<1>13. CASE WkAttached
  BY <1>13 DEF WkAttached, DisarmIf, ArmVifEvent, IdleWorker
<1>14. CASE WkAttachFail
  BY <1>14 DEF WkAttachFail, ArmVifEvent, IdleWorker
<1>15. CASE WkDel
  <2>1. Head(evq).bss \in Bss
    BY <1>15, HeadSlot DEF TypeOK, FirmwareOK, WkDel, NextEventIs
  <2>2. /\ Adds(evq') # {} => Adds(evq) # {}
       /\ \A j, k \in Adds(evq') : j = k
    BY <1>15, AddsTail DEF TypeOK, FirmwareOK, Inv, OneAdd, WkDel, NextEventIs
  <2> QED
    BY <1>15, <2>1, <2>2 DEF WkDel, NextEventIs, WorkerIdle
<1>16. CASE WkDelArmed
  BY <1>16 DEF WkDelArmed, IdleWorker
<1>17. CASE WkRemove
  BY <1>17 DEF WkRemove, RemoveInterface, NetDetach, FreeVif, IdleWorker
<1>18. CASE Timeout
  BY <1>18 DEF Timeout, DisarmIf, ArmVifEvent, FreeVif, TimeoutDefers, WiphyFree
<1>19. CASE Cleanup
  <2>1. Adds(evq') = Adds(evq) /\ asked' = asked
    BY <1>19, CleanupAdds DEF Cleanup, TypeOK
  <2> QED
    BY <1>19, <2>1 DEF Cleanup, CleanupLocked, DisarmIf, ArmVifEvent, FreeVif, FwRemove,
       WiphyFree
<1>20. ASSUME NEW b \in Bss, FwAnswer(b) PROVE OneAdd'
  <2>1. asked = 1 /\ Adds(evq) = {} /\ wk.pc \notin {"added", "claim"} /\ asked' = 0
    BY <1>20 DEF FwAnswer, Inv, OneAdd, TypeOK, FirmwareOK
  <2>2. [act |-> "ADD", bss |-> b] \in Event
    BY DEF Event
  <2>3. evq' = evq \/ evq' = Append(evq, [act |-> "ADD", bss |-> b])
    BY <1>20, Zenon DEF FwAnswer
  <2>4. \A j, k \in Adds(Append(evq, [act |-> "ADD", bss |-> b])) : j = k
    BY <2>1, <2>2, AddsAppend
  <2>5. \A j, k \in Adds(evq') : j = k
    BY <2>1, <2>3, <2>4
  <2> QED
    BY <1>20, <2>1, <2>5 DEF FwAnswer
<1>21. CASE FwIgnore
  BY <1>21 DEF FwIgnore
<1>22. CASE DetachDown
  BY <1>22 DEF DetachDown
<1>23. CASE FwehDetach
  <2>1. Adds(evq') = {}
    BY <1>23 DEF FwehDetach, Adds
  <2> QED
    BY <1>23, <2>1 DEF FwehDetach, WorkerIdle
<1>24. CASE AwdlStop
  <2>1. Adds(evq') = Adds(evq) /\ asked' = asked
    BY <1>24, CleanupAdds DEF AwdlStop, TypeOK
  <2> QED
    BY <1>24, <2>1 DEF AwdlStop, CleanupLocked, DisarmIf, ArmVifEvent, FreeVif,
       FwRemove, WiphyFree
<1>25. ASSUME NEW b \in Bss, DetachRemove(b) PROVE OneAdd'
  BY <1>25 DEF DetachRemove, RemoveInterface, NetDetach, FreeVif
<1>26. CASE DetachDone
  BY <1>26 DEF DetachDone, WiphyFree
<1>27. CASE UNCHANGED vars
  BY <1>27 DEF vars
<1> QED
  BY <1>1, <1>2, <1>3, <1>4, <1>5, <1>6, <1>7, <1>8, <1>9, <1>10, <1>11, <1>12, <1>13,
     <1>14, <1>15, <1>16, <1>17, <1>18, <1>19, <1>20, <1>21, <1>22, <1>23, <1>24, <1>25,
     <1>26, <1>27
  DEF Next, OpStep, WorkerStep, DetachStep

LEMMA StepEnds ==
  ASSUME ~Overlap, TypeOK, ClaimInv, Inv, [Next]_vars
  PROVE  Ends'
<1> USE NoneIsNoObject DEF vifVars, ifpVars, evVars, cfgVars, wqVars, fwVars, detVars,
   AttachPcs, OtherPcs, Live, TypeOK, ObjectsOK, CfgOK, ThreadsOK, Inv, Ends, Armed,
   ClaimInv
<1>1. ASSUME NEW v \in Vif, CreateArm(v) PROVE Ends'
  BY <1>1 DEF CreateArm, ArmVifEvent, WiphyFree, MayRequest, AddOutstanding, BusUp
<1>2. ASSUME NEW v \in Vif, OtherArm(v) PROVE Ends'
  BY <1>2 DEF OtherArm, ArmVifEvent, WiphyFree, MayRequest, AddOutstanding, BusUp
<1>3. ASSUME NEW i \in Ifp, Destroy(i) PROVE Ends'
  BY <1>3 DEF Destroy, FwRemove, WiphyFree
<1>4. CASE CreatePublish
  BY <1>4 DEF CreatePublish
<1>5. CASE CreateAsk
  BY <1>5 DEF CreateAsk, IdleOp
<1>6. CASE OtherWait
  BY <1>6 DEF OtherWait
<1>7. CASE OtherFinish
  BY <1>7 DEF OtherFinish, ArmVifEvent, FreeVif, IdleOp
<1>8. ASSUME NEW i \in Ifp, WkAddIf(i) PROVE Ends'
  BY <1>8 DEF WkAddIf, FreeVif, NextEventIs, WorkerIdle
<1>9. CASE WkAddIfNoMem
  BY <1>9 DEF WkAddIfNoMem, NetDetach, FreeVif, NextEventIs, WorkerIdle
<1>10. CASE WkNotifyAdd
  BY <1>10 DEF WkNotifyAdd
<1>11. CASE WkClaim
  BY <1>11 DEF WkClaim, Claims, IdleWorker
<1>12. CASE WkRegister
  BY <1>12 DEF WkRegister, WiphyFree
<1>13. CASE WkAttached
  BY <1>13 DEF WkAttached, DisarmIf, ArmVifEvent, IdleWorker
<1>14. CASE WkAttachFail
  BY <1>14 DEF WkAttachFail, ArmVifEvent, IdleWorker
<1>15. CASE WkDel
  BY <1>15 DEF WkDel, NextEventIs, WorkerIdle
<1>16. CASE WkDelArmed
  BY <1>16 DEF WkDelArmed, IdleWorker
<1>17. CASE WkRemove
  BY <1>17 DEF WkRemove, RemoveInterface, NetDetach, FreeVif, IdleWorker
<1>18. CASE Timeout
  BY <1>18 DEF Timeout, DisarmIf, ArmVifEvent, FreeVif, TimeoutDefers, WiphyFree
<1>19. CASE Cleanup
  BY <1>19 DEF Cleanup, CleanupLocked, DisarmIf, ArmVifEvent, FreeVif, FwRemove,
     WiphyFree
<1>20. ASSUME NEW b \in Bss, FwAnswer(b) PROVE Ends'
  BY <1>20 DEF FwAnswer
<1>21. CASE FwIgnore
  BY <1>21 DEF FwIgnore
<1>22. CASE DetachDown
  BY <1>22 DEF DetachDown
<1>23. CASE FwehDetach
  BY <1>23 DEF FwehDetach, WorkerIdle
<1>24. CASE AwdlStop
  BY <1>24 DEF AwdlStop, CleanupLocked, DisarmIf, ArmVifEvent, FreeVif, FwRemove,
     WiphyFree
<1>25. ASSUME NEW b \in Bss, DetachRemove(b) PROVE Ends'
  BY <1>25 DEF DetachRemove, RemoveInterface, NetDetach, FreeVif
<1>26. CASE DetachDone
  BY <1>26 DEF DetachDone, WiphyFree
<1>27. CASE UNCHANGED vars
  BY <1>27 DEF vars
<1> QED
  BY <1>1, <1>2, <1>3, <1>4, <1>5, <1>6, <1>7, <1>8, <1>9, <1>10, <1>11, <1>12, <1>13,
     <1>14, <1>15, <1>16, <1>17, <1>18, <1>19, <1>20, <1>21, <1>22, <1>23, <1>24, <1>25,
     <1>26, <1>27
  DEF Next, OpStep, WorkerStep, DetachStep

LEMMA InitInv == ASSUME Init PROVE Inv
  BY NoneIsNoObject DEF Init, Inv, OneAdd, Armed, Linked, Listed, Ends, Adds, AttachPcs,
     OtherPcs, Live

(* Creations do not overlap: no interface is asked for while an earlier      *)
(* IF_ADD is on its way.  The life cycle then keeps Inv, whatever else       *)
(* arrives: timeouts, failures to attach or to allocate, IF_DELs and a       *)
(* detach.                                                                   *)
LEMMA InvHolds == ~Overlap => (Spec => [](TypeOK /\ ClaimInv /\ Inv))
<1> SUFFICES ASSUME ~Overlap PROVE Spec => [](TypeOK /\ ClaimInv /\ Inv)
  OBVIOUS
<1>1. Init => TypeOK /\ ClaimInv /\ Inv
  BY InitTypeOK, InitClaimInv, InitInv
<1>2. TypeOK /\ ClaimInv /\ Inv /\ [Next]_vars => TypeOK' /\ ClaimInv' /\ Inv'
  BY StepTypeOK, StepClaimInv, StepOneAdd, StepArmed, StepLinked, StepListed, StepEnds
     DEF Inv
<1> QED
  BY <1>1, <1>2, PTL DEF Spec

LEMMA InvNoDangling == ASSUME TypeOK, ClaimInv, Inv PROVE NoDangling
  BY NoneIsNoObject DEF TypeOK, ObjectsOK, CfgOK, ThreadsOK, ClaimInv, AttachPcs, Inv,
     Armed, Linked, Listed, OtherPcs, Live, NoDangling

LEMMA InvDetachClean == ASSUME TypeOK, ClaimInv, Inv PROVE DetachClean
<1> SUFFICES ASSUME det = "done" PROVE DetachClean
  BY DEF DetachClean
<1>1. ~pending /\ ~tmo /\ ~cln /\ failedIfp = None /\ \A b \in Bss : iflist[b] = None
  BY DEF Inv, Ends
<1>2. wk.pc = "idle" /\ op.pc = "idle" /\ awdlVif = None
  BY <1>1 DEF ClaimInv, Inv, Ends, Armed
<1>3. \A i \in Ifp : ifpState[i] \notin Live
  BY <1>1, <1>2, NoneIsNoObject DEF Inv, Listed, Live
<1>4. \A v \in Vif : vifState[v] # "awdl"
  BY <1>2, <1>3, NoneIsNoObject DEF TypeOK, ObjectsOK, Inv, Listed, Owned, Live
<1> QED
  BY <1>1, <1>3, <1>4 DEF DetachClean, TypeOK, ObjectsOK, Live

LEMMA InvDeferred == ASSUME TypeOK, ClaimInv, Inv PROVE DeferredIsOwned
  BY NoneIsNoObject DEF TypeOK, ObjectsOK, CfgOK, ThreadsOK, ClaimInv, AttachPcs, Inv,
     Armed, Linked, DeferredIsOwned

(* Nothing the driver keeps a pointer to across a lock it drops is freed:    *)
(* the pending and the armed vif, the interface of a failed attach, the      *)
(* worker's and the listed ones (NoDangling of the runs).                    *)
THEOREM PointersAreLive == ~Overlap => (Spec => []NoDangling)
<1> SUFFICES ASSUME ~Overlap PROVE Spec => []NoDangling
  OBVIOUS
<1>1. Spec => [](TypeOK /\ ClaimInv /\ Inv)
  BY InvHolds
<1>2. TypeOK /\ ClaimInv /\ Inv => NoDangling
  BY InvNoDangling
<1> QED
  BY <1>1, <1>2, PTL

LEMMA InitOwners == ASSUME Init PROVE Owners
  BY DEF Init, Owners, HasAwdl0, AttachPcs, OtherPcs

LEMMA InitSlots == ASSUME Init PROVE Slots
  BY DEF Init, Slots, Live

LEMMA StepOwners ==
  ASSUME TypeOK, ClaimInv, Owners, [Next]_vars
  PROVE  Owners'
<1> USE NoneIsNoObject DEF vifVars, ifpVars, evVars, cfgVars, wqVars, fwVars, detVars,
   AttachPcs, OtherPcs, Live, TypeOK, ObjectsOK, CfgOK, ThreadsOK, ClaimInv, Owners,
   HasAwdl0
<1>1. ASSUME NEW v \in Vif, CreateArm(v) PROVE Owners'
  BY <1>1 DEF CreateArm, ArmVifEvent, WiphyFree, MayRequest, AddOutstanding, BusUp
<1>2. ASSUME NEW v \in Vif, OtherArm(v) PROVE Owners'
  BY <1>2 DEF OtherArm, ArmVifEvent, WiphyFree, MayRequest, AddOutstanding, BusUp
<1>3. ASSUME NEW i \in Ifp, Destroy(i) PROVE Owners'
  BY <1>3 DEF Destroy, FwRemove, WiphyFree
<1>4. CASE CreatePublish
  BY <1>4 DEF CreatePublish
<1>5. CASE CreateAsk
  BY <1>5 DEF CreateAsk, IdleOp
<1>6. CASE OtherWait
  BY <1>6 DEF OtherWait
<1>7. CASE OtherFinish
  <2>1. \A v \in Vif : HasAwdl0(v) /\ vifState'[v] = "awdl" => HasAwdl0(v)'
    BY <1>7 DEF OtherFinish, ArmVifEvent, FreeVif, IdleOp
  <2>2. vifIfp[op.vif] # None => vifIfp[op.vif] # wk.ifp \/ wk.pc \notin {"added", "attached"}
    BY <1>7 DEF OtherFinish, ArmVifEvent, FreeVif, IdleOp
  <2>3. \A v \in Vif : vifIfp[v] # None =>
        \/ ifpState'[vifIfp[v]] # "new" /\ ifpVif[vifIfp[v]] = v
        \/ ifpState'[vifIfp[v]] = "freed" /\ ifpVif[vifIfp[v]] = None
    BY <1>7 DEF OtherFinish, ArmVifEvent, FreeVif, IdleOp
  <2>4. \A i \in Ifp : ifpState'[i] = "new" => ifpState[i] = "new"
    BY <1>7 DEF OtherFinish, ArmVifEvent, FreeVif, IdleOp
  <2> QED
    BY <1>7, <2>1, <2>2, <2>3, <2>4 DEF OtherFinish, ArmVifEvent, FreeVif, IdleOp
<1>8. ASSUME NEW i \in Ifp, WkAddIf(i) PROVE Owners'
  <2>1. Head(evq).bss \in Bss
    BY <1>8, HeadSlot DEF TypeOK, FirmwareOK, WkAddIf, NextEventIs
  <2>2. \A v \in Vif : HasAwdl0(v) /\ vifState'[v] = "awdl" => HasAwdl0(v)'
    BY <2>1, <1>8 DEF WkAddIf, FreeVif, NextEventIs, WorkerIdle
  <2> QED
    BY <1>8, <2>1, <2>2 DEF WkAddIf, FreeVif, NextEventIs, WorkerIdle
<1>9. CASE WkAddIfNoMem
  <2>1. Head(evq).bss \in Bss
    BY <1>9, HeadSlot DEF TypeOK, FirmwareOK, WkAddIfNoMem, NextEventIs
  <2> QED
    BY <1>9, <2>1 DEF WkAddIfNoMem, NetDetach, FreeVif, NextEventIs, WorkerIdle
<1>10. CASE WkNotifyAdd
  BY <1>10 DEF WkNotifyAdd
<1>11. CASE WkClaim
  BY <1>11 DEF WkClaim, Claims, IdleWorker
<1>12. CASE WkRegister
  BY <1>12 DEF WkRegister, WiphyFree
<1>13. CASE WkAttached
  BY <1>13 DEF WkAttached, DisarmIf, ArmVifEvent, IdleWorker
<1>14. CASE WkAttachFail
  BY <1>14 DEF WkAttachFail, ArmVifEvent, IdleWorker
<1>15. CASE WkDel
  <2>1. Head(evq).bss \in Bss
    BY <1>15, HeadSlot DEF TypeOK, FirmwareOK, WkDel, NextEventIs
  <2> QED
    BY <1>15, <2>1 DEF WkDel, NextEventIs, WorkerIdle
<1>16. CASE WkDelArmed
  BY <1>16 DEF WkDelArmed, IdleWorker
<1>17. CASE WkRemove
  BY <1>17 DEF WkRemove, RemoveInterface, NetDetach, FreeVif, IdleWorker
<1>18. CASE Timeout
  BY <1>18 DEF Timeout, DisarmIf, ArmVifEvent, FreeVif, TimeoutDefers, WiphyFree
<1>19. CASE Cleanup
  BY <1>19 DEF Cleanup, CleanupLocked, DisarmIf, ArmVifEvent, FreeVif, FwRemove,
     WiphyFree
<1>20. ASSUME NEW b \in Bss, FwAnswer(b) PROVE Owners'
  BY <1>20 DEF FwAnswer
<1>21. CASE FwIgnore
  BY <1>21 DEF FwIgnore
<1>22. CASE DetachDown
  BY <1>22 DEF DetachDown
<1>23. CASE FwehDetach
  BY <1>23 DEF FwehDetach, WorkerIdle
<1>24. CASE AwdlStop
  BY <1>24 DEF AwdlStop, CleanupLocked, DisarmIf, ArmVifEvent, FreeVif, FwRemove,
     WiphyFree
<1>25. ASSUME NEW b \in Bss, DetachRemove(b) PROVE Owners'
  BY <1>25 DEF DetachRemove, RemoveInterface, NetDetach, FreeVif
<1>26. CASE DetachDone
  BY <1>26 DEF DetachDone, WiphyFree
<1>27. CASE UNCHANGED vars
  BY <1>27 DEF vars
<1> QED
  BY <1>1, <1>2, <1>3, <1>4, <1>5, <1>6, <1>7, <1>8, <1>9, <1>10, <1>11, <1>12, <1>13,
     <1>14, <1>15, <1>16, <1>17, <1>18, <1>19, <1>20, <1>21, <1>22, <1>23, <1>24, <1>25,
     <1>26, <1>27
  DEF Next, OpStep, WorkerStep, DetachStep

LEMMA StepSlots ==
  ASSUME ~OtherOps, TypeOK, ClaimInv, LinkInv, Slots, [Next]_vars
  PROVE  Slots'
<1> USE NoneIsNoObject DEF vifVars, ifpVars, evVars, cfgVars, wqVars, fwVars, detVars,
   AttachPcs, OtherPcs, Live, TypeOK, ObjectsOK, CfgOK, ThreadsOK, ClaimInv, LinkInv,
   Slots
<1>1. ASSUME NEW v \in Vif, CreateArm(v) PROVE Slots'
  BY <1>1 DEF CreateArm, ArmVifEvent, WiphyFree, MayRequest, AddOutstanding, BusUp
<1>2. ASSUME NEW v \in Vif, OtherArm(v) PROVE Slots'
  BY <1>2 DEF OtherArm, ArmVifEvent, WiphyFree, MayRequest, AddOutstanding, BusUp
<1>3. ASSUME NEW i \in Ifp, Destroy(i) PROVE Slots'
  BY <1>3 DEF Destroy, FwRemove, WiphyFree
<1>4. CASE CreatePublish
  BY <1>4 DEF CreatePublish
<1>5. CASE CreateAsk
  BY <1>5 DEF CreateAsk, IdleOp
<1>6. CASE OtherWait
  BY <1>6 DEF OtherWait
<1>7. CASE OtherFinish
  BY <1>7 DEF OtherFinish, ArmVifEvent, FreeVif, IdleOp
<1>8. ASSUME NEW i \in Ifp, WkAddIf(i) PROVE Slots'
  <2>1. Head(evq).bss \in Bss
    BY <1>8, HeadSlot DEF TypeOK, FirmwareOK, WkAddIf, NextEventIs
  <2> QED
    BY <1>8, <2>1, SMTT(60) DEF WkAddIf, FreeVif, NextEventIs, WorkerIdle
<1>9. CASE WkAddIfNoMem
  <2>1. Head(evq).bss \in Bss
    BY <1>9, HeadSlot DEF TypeOK, FirmwareOK, WkAddIfNoMem, NextEventIs
  <2> QED
    BY <1>9, <2>1, SMTT(60) DEF WkAddIfNoMem, NetDetach, FreeVif, NextEventIs,
       WorkerIdle
<1>10. CASE WkNotifyAdd
  BY <1>10 DEF WkNotifyAdd
<1>11. CASE WkClaim
  BY <1>11 DEF WkClaim, Claims, IdleWorker
<1>12. CASE WkRegister
  BY <1>12 DEF WkRegister, WiphyFree
<1>13. CASE WkAttached
  BY <1>13 DEF WkAttached, DisarmIf, ArmVifEvent, IdleWorker
<1>14. CASE WkAttachFail
  BY <1>14 DEF WkAttachFail, ArmVifEvent, IdleWorker
<1>15. CASE WkDel
  <2>1. Head(evq).bss \in Bss
    BY <1>15, HeadSlot DEF TypeOK, FirmwareOK, WkDel, NextEventIs
  <2> QED
    BY <1>15, <2>1 DEF WkDel, NextEventIs, WorkerIdle
<1>16. CASE WkDelArmed
  BY <1>16 DEF WkDelArmed, IdleWorker
<1>17. CASE WkRemove
  BY <1>17 DEF WkRemove, RemoveInterface, NetDetach, FreeVif, IdleWorker
<1>18. CASE Timeout
  BY <1>18 DEF Timeout, DisarmIf, ArmVifEvent, FreeVif, TimeoutDefers, WiphyFree
<1>19. CASE Cleanup
  BY <1>19 DEF Cleanup, CleanupLocked, DisarmIf, ArmVifEvent, FreeVif, FwRemove,
     WiphyFree
<1>20. ASSUME NEW b \in Bss, FwAnswer(b) PROVE Slots'
  BY <1>20 DEF FwAnswer
<1>21. CASE FwIgnore
  BY <1>21 DEF FwIgnore
<1>22. CASE DetachDown
  BY <1>22 DEF DetachDown
<1>23. CASE FwehDetach
  BY <1>23 DEF FwehDetach, WorkerIdle
<1>24. CASE AwdlStop
  BY <1>24 DEF AwdlStop, CleanupLocked, DisarmIf, ArmVifEvent, FreeVif, FwRemove,
     WiphyFree
<1>25. ASSUME NEW b \in Bss, DetachRemove(b) PROVE Slots'
  BY <1>25 DEF DetachRemove, RemoveInterface, NetDetach, FreeVif
<1>26. CASE DetachDone
  BY <1>26 DEF DetachDone, WiphyFree
<1>27. CASE UNCHANGED vars
  BY <1>27 DEF vars
<1> QED
  BY <1>1, <1>2, <1>3, <1>4, <1>5, <1>6, <1>7, <1>8, <1>9, <1>10, <1>11, <1>12, <1>13,
     <1>14, <1>15, <1>16, <1>17, <1>18, <1>19, <1>20, <1>21, <1>22, <1>23, <1>24, <1>25,
     <1>26, <1>27
  DEF Next, OpStep, WorkerStep, DetachStep

(* However requests overlap, and whichever of the timeout, the cleanup and   *)
(* the worker ends a creation, its vif is freed or belongs to a registered   *)
(* awdl0 (NoVifLeak of the runs).                                            *)
THEOREM VifsAreOwned == Spec => []NoVifLeak
<1>1. Init => TypeOK /\ ClaimInv /\ Owners
  BY InitTypeOK, InitClaimInv, InitOwners
<1>2. TypeOK /\ ClaimInv /\ Owners /\ [Next]_vars => TypeOK' /\ ClaimInv' /\ Owners'
  BY StepTypeOK, StepClaimInv, StepOwners
<1>3. Owners => NoVifLeak
  BY NoneIsNoObject DEF Owners, HasAwdl0, NoVifLeak, WorkerIdle, WiphyFree
<1> QED
  BY <1>1, <1>2, <1>3, PTL DEF Spec

LEMMA SlotsDetachClean ==
  ASSUME TypeOK, ClaimInv, Owners, LinkInv, Slots PROVE DetachClean
<1> SUFFICES ASSUME det = "done" PROVE DetachClean
  BY DEF DetachClean
<1>1. /\ ~pending /\ ~tmo /\ ~cln /\ failedIfp = None /\ awdlVif = None
      /\ op.pc = "idle" /\ wk.pc = "idle" /\ \A b \in Bss : iflist[b] = None
  BY DEF LinkInv, Slots, ClaimInv, Owners
<1>2. \A i \in Ifp : ifpState[i] \notin Live
  BY <1>1, NoneIsNoObject DEF Slots, Live
<1>3. \A v \in Vif : vifState[v] # "awdl"
  BY <1>1, <1>2, NoneIsNoObject DEF Owners, HasAwdl0, Live
<1> QED
  BY <1>1, <1>2, <1>3 DEF DetachClean, TypeOK, ObjectsOK, Live

(* brcmf_detach leaves no interface, no AWDL vif and no queued work, at      *)
(* whatever point of a creation it comes, unless another interface is asked  *)
(* for while an earlier IF_ADD is on its way (DetachClean of the runs).      *)
THEOREM DetachLeavesNothing == ~Overlap \/ ~OtherOps => (Spec => []DetachClean)
<1>1. ASSUME ~Overlap PROVE Spec => []DetachClean
  <2>1. Spec => [](TypeOK /\ ClaimInv /\ Inv)
    BY <1>1, InvHolds
  <2>2. TypeOK /\ ClaimInv /\ Inv => DetachClean
    BY InvDetachClean
  <2> QED
    BY <2>1, <2>2, PTL
<1>2. ASSUME ~OtherOps PROVE Spec => []DetachClean
  <2> DEFINE I == TypeOK /\ ClaimInv /\ Owners /\ LinkInv /\ Slots
  <2>1. Init => I
    BY InitTypeOK, InitClaimInv, InitOwners, InitLinkInv, InitSlots
  <2>2. I /\ [Next]_vars => I'
    BY <1>2, StepTypeOK, StepClaimInv, StepOwners, StepLinkInv, StepSlots
  <2>3. I => DetachClean
    BY SlotsDetachClean
  <2> QED
    BY <2>1, <2>2, <2>3, PTL DEF Spec
<1> QED
  BY <1>1, <1>2

(* What the comment of brcmf_awdl_timeout claims holds when creations do not *)
(* overlap: the vif it leaves alone is in its worker's hands.  The run with  *)
(* Overlap refutes it.                                                       *)
THEOREM DeferralIsOwned == ~Overlap => (Spec => []DeferredIsOwned)
<1> SUFFICES ASSUME ~Overlap PROVE Spec => []DeferredIsOwned
  OBVIOUS
<1>1. Spec => [](TypeOK /\ ClaimInv /\ Inv)
  BY InvHolds
<1>2. TypeOK /\ ClaimInv /\ Inv => DeferredIsOwned
  BY InvDeferred
<1> QED
  BY <1>1, <1>2, PTL
=============================================================================
