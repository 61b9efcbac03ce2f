---------------------------- MODULE Radio_proofs ----------------------------
(***************************************************************************)
(* Proofs about module Radio, for any election states, number of enables   *)
(* and history of the firmware.  TypeOK and the bookkeeping of one write   *)
(* (WriteInv) hold always; the gate's invariant says what its guards missed*)
(* when awdl=0 meets a template, and the record's holds in a window whose  *)
(* awdl0 awdl-up does not rebuild under it.                                *)
(* The last section proves the guarantee of module Peers, which shares the *)
(* interface and the driver reload with it, and no variable.               *)
(***************************************************************************)
EXTENDS Radio, Peers, TLAPS

\* A window's supervisor and a start exclude each other; a state is held
\* between reading and writing by one of them, with nothing pending; what is
\* pending was just seen, and what is about to replace a recorded state was
\* seen twice.
WriteInv ==
  /\ win => start = "idle"
  /\ obs # None => win \/ start = "write"
  /\ obs # None => last = obs /\ pending = None
  /\ obs # None /\ recorded # None => twice
  /\ pending # None => last = pending
  /\ start = "write" => recorded = None

\* The gate disables only while it has an enable left.
TypeInv == TypeOK /\ (start = "off" => tries # 0)

IInv == TypeInv /\ WriteInv

\* Something let an awdl=0 through, as HungOnlyBySlip names it.
Slipped == slips \cap {"create", "get", "race"} # {}

\* A template under the gate's toggles, or under an awdl-up about to write
\* awdl=0, slipped past a guard.
GateInv ==
  /\ start \in {"off", "on", "probe"} /\ tmpl # None => Slipped
  /\ up = "apply" /\ tmpl # None => Slipped
  /\ hung => Slipped

\* What RecordedAdvertised says already holds when the start's write is done.
RecordInv ==
  /\ (win \/ start = "open") /\ iface # "absent" /\ recorded # None /\ "rebuilt" \notin slips
       => tmpl = recorded

-----------------------------------------------------------------------------
LEMMA InitType == Init => TypeInv
<1> SUFFICES ASSUME Init PROVE TypeInv
  OBVIOUS
<1>1. {awdl, parked, hung, healthy, again, win, twice} \subseteq BOOLEAN
  <2>1. /\ awdl \in BOOLEAN /\ parked \in BOOLEAN /\ hung \in BOOLEAN /\ healthy \in BOOLEAN
        /\ again \in BOOLEAN /\ win \in BOOLEAN /\ twice \in BOOLEAN
    BY DEF Init
  <2>2. QED
    BY <2>1, Zenon
<1>2. /\ iface \in {"absent", "down", "up"} /\ tree \in Trees /\ start = "idle"
      /\ start \in {"idle", "ready", "gate", "guard", "off", "on", "probe", "link", "identity",
                    "write", "open"}
  BY DEF Init
<1>3. /\ tmpl \in MaybeTree /\ recorded \in MaybeTree /\ pending \in MaybeTree
      /\ obs \in MaybeTree /\ last \in MaybeTree
      /\ up \in {"idle", "create", "apply"} /\ slips \subseteq {"create", "get", "race", "rebuilt"}
  BY DEF Init, MaybeTree
<1>4. tries \in 0..Enables
  BY EnablesAssumption DEF Init
<1>5. QED
  BY <1>1, <1>2, <1>3, <1>4 DEF TypeInv, TypeOK

LEMMA TypeStep == TypeInv /\ [Next]_vars => TypeInv'
<1> SUFFICES ASSUME TypeInv, [Next]_vars PROVE TypeInv'
  OBVIOUS
<1> USE TreesAssumption, EnablesAssumption DEF TypeInv, TypeOK, fw, files, hist, ups, gates, MaybeTree
<1>0. 0 \in 0..Enables
  OBVIOUS
<1>1. CASE Begin
  BY <1>1 DEF Begin
<1>2. CASE Ready
  BY <1>2 DEF Ready, Rebuild, Give
<1>3. CASE Gate
  BY <1>3 DEF Gate, Completes
<1>4. CASE Guard
  <2>1. Enables \in 0..Enables /\ Enables # 0
    OBVIOUS
  <2>2. \/ start' = "idle" /\ tries' = tries /\ slips' = slips
        \/ start' = "off" /\ tries' = Enables /\ slips' \in {slips, slips \cup {"get"}}
    BY <1>4, Zenon DEF Guard, Missed, Give
  <2>3. UNCHANGED <<iface, fw, tree, healthy, files, again, win, obs, hist, up>>
    BY <1>4, Zenon DEF Guard
  <2>4. QED
    BY <2>1, <2>2, <2>3
<1>5. CASE Off
  <2>1. tries' \in 0..Enables
    BY <1>5 DEF Off
  <2>2. hung' \in BOOLEAN /\ awdl' \in BOOLEAN /\ parked' \in BOOLEAN
    BY <1>5, Zenon DEF Off, Disable
  <2>3. iface' \in {"absent", "down", "up"} /\ start' = "on"
    BY <1>5 DEF Off, Disable
  <2>4. UNCHANGED <<tmpl, tree, healthy, files, again, win, obs, hist, ups>>
    BY <1>5 DEF Off
  <2>5. QED
    BY <2>1, <2>2, <2>3, <2>4
<1>6. CASE On
  BY <1>6 DEF On
<1>7. CASE Probe
  BY <1>0, <1>7, ZenonT(40) DEF Probe, Completes, GateDone
<1>8. CASE Link
  BY <1>8 DEF Link, Give
<1>9. CASE Identity
  BY <1>9 DEF Identity, Observed, MaybeTree
<1>10. CASE Open
  BY <1>10 DEF Open
<1>11. CASE TickQuiet
  BY <1>11 DEF TickQuiet, Observed, Settled, Flapped, See
<1>12. CASE TickChanged
  BY <1>12 DEF TickChanged, Observed, Settled, Flapped, See
<1>13. CASE WriteTemplate
  BY <1>13 DEF WriteTemplate, MaySucceed, MayFail, Raced
<1>14. CASE Close
  BY <1>14, ZenonT(40) DEF Close
<1>15. CASE Cancel
  BY <1>0, <1>15, ZenonT(40) DEF Cancel, GateDone
<1>16. CASE AwdlUp
  BY <1>16 DEF AwdlUp, Rebuild, Missed, TemplateReads, Reads
<1>17. CASE Reload
  BY <1>17 DEF Reload
<1>18. CASE Create
  BY <1>18 DEF Create, Advertising
<1>26. CASE Apply
  BY <1>26 DEF Apply, Disable
<1>27. CASE AwdlUpEnds
  BY <1>27 DEF AwdlUpEnds
<1>19. CASE Elect
  BY <1>19 DEF Elect
<1>20. CASE Park
  BY <1>20 DEF Park
<1>21. CASE Health
  BY <1>21 DEF Health
<1>22. CASE WifiToggle
  BY <1>22 DEF WifiToggle
<1>23. CASE LinkDrop
  BY <1>23 DEF LinkDrop
<1>24. CASE UNCHANGED vars
  BY <1>24 DEF vars
<1>25. QED
  BY <1>1, <1>2, <1>3, <1>4, <1>5, <1>6, <1>7, <1>8, <1>9, <1>10, <1>11, <1>12,
     <1>13, <1>14, <1>15, <1>16, <1>17, <1>18, <1>19, <1>20, <1>21, <1>22, <1>23, <1>24,
     <1>26, <1>27 DEF Next, StartStep, Tick, Env

\* Every reachable state has its type; in particular the gate's enables never
\* run below zero.
THEOREM TypeCorrect == Spec => []TypeOK
<1>1. TypeInv => TypeOK
  BY DEF TypeInv
<1>2. QED
  BY <1>1, InitType, TypeStep, PTL DEF Spec

-----------------------------------------------------------------------------
\* The bookkeeping of track_election, whatever the firmware does.
LEMMA WriteStep == IInv /\ [Next]_vars => WriteInv'
<1> SUFFICES ASSUME IInv, [Next]_vars PROVE WriteInv'
  OBVIOUS
<1> USE TreesAssumption DEF IInv, WriteInv, TypeInv, TypeOK, fw, files, hist, ups, gates, MaybeTree
<1>1. CASE Begin
  BY <1>1 DEF Begin
<1>2. CASE Ready
  BY <1>2 DEF Ready, Rebuild, Give
<1>3. CASE Gate
  BY <1>3 DEF Gate, Completes
<1>4. CASE Guard
  BY <1>4 DEF Guard, TemplateReads, Reads, Missed, Give
<1>5. CASE Off
  BY <1>5 DEF Off, Disable
<1>6. CASE On
  BY <1>6 DEF On
<1>7. CASE Probe
  BY <1>7 DEF Probe, Completes, GateDone
<1>8. CASE Link
  BY <1>8 DEF Link, Give
<1>9. CASE Identity
  BY <1>9 DEF Identity, Observed, MaybeTree
<1>10. CASE Open
  BY <1>10 DEF Open
<1>11. CASE TickQuiet
  BY <1>11 DEF TickQuiet, Observed, Settled, Flapped, See
<1>12. CASE TickChanged
  BY <1>12 DEF TickChanged, Observed, Settled, Flapped, See
<1>13. CASE WriteTemplate
  BY <1>13 DEF WriteTemplate, MaySucceed, MayFail, Raced
<1>14. CASE Close
  BY <1>14 DEF Close
<1>15. CASE Cancel
  BY <1>15 DEF Cancel, GateDone
<1>16. CASE AwdlUp
  BY <1>16 DEF AwdlUp, Rebuild, Missed, TemplateReads, Reads
<1>17. CASE Reload
  BY <1>17 DEF Reload
<1>18. CASE Create
  BY <1>18 DEF Create, Advertising
<1>26. CASE Apply
  BY <1>26 DEF Apply, Disable
<1>27. CASE AwdlUpEnds
  BY <1>27 DEF AwdlUpEnds
<1>19. CASE Elect
  BY <1>19 DEF Elect
<1>20. CASE Park
  BY <1>20 DEF Park
<1>21. CASE Health
  BY <1>21 DEF Health
<1>22. CASE WifiToggle
  BY <1>22 DEF WifiToggle
<1>23. CASE LinkDrop
  BY <1>23 DEF LinkDrop
<1>24. CASE UNCHANGED vars
  BY <1>24 DEF vars
<1>25. QED
  BY <1>1, <1>2, <1>3, <1>4, <1>5, <1>6, <1>7, <1>8, <1>9, <1>10, <1>11, <1>12,
     <1>13, <1>14, <1>15, <1>16, <1>17, <1>18, <1>19, <1>20, <1>21, <1>22, <1>23, <1>24,
     <1>26, <1>27 DEF Next, StartStep, Tick, Env

LEMMA WriteHolds == Spec => []IInv
<1>1. Init => IInv
  BY InitType DEF Init, IInv, WriteInv
<1>2. IInv /\ [Next]_vars => IInv'
  BY TypeStep, WriteStep DEF IInv
<1>3. QED
  BY <1>1, <1>2, PTL DEF Spec

\* track_election's hysteresis: a recorded state is replaced only by one seen
\* twice in a row.
THEOREM Hysteresis == Spec => FlapsIgnored
<1> DEFINE Kept == recorded # None /\ recorded' # recorded /\ recorded' # None =>
                     recorded' = last /\ twice
<1>1. IInv /\ [Next]_vars => [Kept]_vars
  <2> SUFFICES ASSUME IInv, Next PROVE Kept
    BY DEF vars
  <2>1. CASE Identity
    BY <2>1 DEF Identity
  <2>2. CASE WriteTemplate
    BY <2>2 DEF WriteTemplate, IInv, WriteInv
  <2>3. CASE ~Identity /\ ~WriteTemplate
    <3>1. recorded' = recorded
      BY <2>3 DEF Next, StartStep, Tick, Env, fw, files, hist, ups, gates,
        Begin, Ready, Gate, Guard, Off, On, Probe, Link, Open, TickQuiet, TickChanged,
        Close, Cancel, AwdlUp, Reload, Create, Apply, AwdlUpEnds, Rebuild, Elect, Park, Health, WifiToggle, LinkDrop
    <3>2. QED
      BY <3>1
  <2>4. QED
    BY <2>1, <2>2, <2>3
<1>2. QED
  BY <1>1, WriteHolds, PTL DEF Spec, FlapsIgnored

-----------------------------------------------------------------------------
\* The gate and awdl-up set awdl=0 on a loaded template only past a guard that
\* was passed by: the create path has none, a GET failed, or a template came
\* after the GET.
LEMMA GateStep ==
  ASSUME IInv, GateInv, [Next]_vars
  PROVE  GateInv'
<1> USE TreesAssumption DEF GateInv, Slipped, IInv, WriteInv, TypeInv, TypeOK, fw, files, hist, ups, gates, MaybeTree
<1>1. CASE Begin
  BY <1>1 DEF Begin
<1>2. CASE Ready
  BY <1>2 DEF Ready, Rebuild, Give
<1>3. CASE Gate
  BY <1>3 DEF Gate, Completes
<1>4. CASE Guard
  BY <1>4 DEF Guard, TemplateReads, Reads, Missed, Give
<1>5. CASE Off
  BY <1>5 DEF Off, Disable
<1>6. CASE On
  BY <1>6 DEF On
<1>7. CASE Probe
  BY <1>7, EnablesAssumption DEF Probe, Completes, GateDone
<1>8. CASE Link
  BY <1>8 DEF Link, Give
<1>9. CASE Identity
  BY <1>9 DEF Identity, Observed, MaybeTree
<1>10. CASE Open
  BY <1>10 DEF Open
<1>11. CASE TickQuiet
  BY <1>11 DEF TickQuiet, Observed, Settled, Flapped, See
<1>12. CASE TickChanged
  BY <1>12 DEF TickChanged, Observed, Settled, Flapped, See
<1>13. CASE WriteTemplate
  BY <1>13 DEF WriteTemplate, MaySucceed, MayFail, Raced
<1>14. CASE Close
  BY <1>14 DEF Close
<1>15. CASE Cancel
  BY <1>15, EnablesAssumption DEF Cancel, GateDone
<1>16. CASE AwdlUp
  BY <1>16 DEF AwdlUp, Rebuild, Missed, TemplateReads, Reads
<1>17. CASE Reload
  BY <1>17 DEF Reload
<1>18. CASE Create
  BY <1>18 DEF Create, Advertising
<1>26. CASE Apply
  BY <1>26 DEF Apply, Disable
<1>27. CASE AwdlUpEnds
  BY <1>27 DEF AwdlUpEnds
<1>19. CASE Elect
  BY <1>19 DEF Elect
<1>20. CASE Park
  BY <1>20 DEF Park
<1>21. CASE Health
  BY <1>21 DEF Health
<1>22. CASE WifiToggle
  BY <1>22 DEF WifiToggle
<1>23. CASE LinkDrop
  BY <1>23 DEF LinkDrop
<1>24. CASE UNCHANGED vars
  BY <1>24 DEF vars
<1>25. QED
  BY <1>1, <1>2, <1>3, <1>4, <1>5, <1>6, <1>7, <1>8, <1>9, <1>10, <1>11, <1>12,
     <1>13, <1>14, <1>15, <1>16, <1>17, <1>18, <1>19, <1>20, <1>21, <1>22, <1>23, <1>24,
     <1>26, <1>27 DEF Next, StartStep, Tick, Env

\* Whatever the firmware refuses or forgets and awdl-up does beside the start,
\* a hang has one of the three causes.
THEOREM GateSafe == Spec => []HungOnlyBySlip
<1>1. Init => GateInv
  BY DEF Init, GateInv
<1>2. IInv /\ GateInv /\ [Next]_vars => GateInv'
  BY GateStep
<1>3. GateInv => HungOnlyBySlip
  BY DEF GateInv, Slipped, HungOnlyBySlip
<1>4. QED
  BY <1>1, <1>2, <1>3, WriteHolds, PTL DEF Spec

-----------------------------------------------------------------------------
\* election.state is what the template on air advertises, as long as awdl-up
\* does not rebuild awdl0 while the window is open.
LEMMA RecordStep ==
  ASSUME IInv, RecordInv, [Next]_vars
  PROVE  RecordInv'
<1> USE TreesAssumption DEF RecordInv, IInv, WriteInv, TypeInv, TypeOK, fw, files, hist, ups, gates, MaybeTree
<1>1. CASE Begin
  BY <1>1 DEF Begin
<1>2. CASE Ready
  BY <1>2 DEF Ready, Rebuild, Give
<1>3. CASE Gate
  BY <1>3 DEF Gate, Completes
<1>4. CASE Guard
  BY <1>4 DEF Guard, TemplateReads, Reads, Missed, Give
<1>5. CASE Off
  BY <1>5 DEF Off, Disable
<1>6. CASE On
  BY <1>6 DEF On
<1>7. CASE Probe
  BY <1>7 DEF Probe, Completes, GateDone
<1>8. CASE Link
  BY <1>8 DEF Link, Give
<1>9. CASE Identity
  BY <1>9 DEF Identity, Observed, MaybeTree
<1>10. CASE Open
  BY <1>10 DEF Open
<1>11. CASE TickQuiet
  BY <1>11 DEF TickQuiet, Observed, Settled, Flapped, See
<1>12. CASE TickChanged
  BY <1>12 DEF TickChanged, Observed, Settled, Flapped, See
<1>13. CASE WriteTemplate
  BY <1>13 DEF WriteTemplate, MaySucceed, MayFail, Raced
<1>14. CASE Close
  BY <1>14 DEF Close
<1>15. CASE Cancel
  BY <1>15 DEF Cancel, GateDone
<1>16. CASE AwdlUp
  BY <1>16 DEF AwdlUp, Rebuild, Missed, TemplateReads, Reads
<1>17. CASE Reload
  BY <1>17 DEF Reload
<1>18. CASE Create
  BY <1>18 DEF Create, Advertising
<1>26. CASE Apply
  BY <1>26 DEF Apply, Disable
<1>27. CASE AwdlUpEnds
  BY <1>27 DEF AwdlUpEnds
<1>19. CASE Elect
  BY <1>19 DEF Elect
<1>20. CASE Park
  BY <1>20 DEF Park
<1>21. CASE Health
  BY <1>21 DEF Health
<1>22. CASE WifiToggle
  BY <1>22 DEF WifiToggle
<1>23. CASE LinkDrop
  BY <1>23 DEF LinkDrop
<1>24. CASE UNCHANGED vars
  BY <1>24 DEF vars
<1>25. QED
  BY <1>1, <1>2, <1>3, <1>4, <1>5, <1>6, <1>7, <1>8, <1>9, <1>10, <1>11, <1>12,
     <1>13, <1>14, <1>15, <1>16, <1>17, <1>18, <1>19, <1>20, <1>21, <1>22, <1>23, <1>24,
     <1>26, <1>27 DEF Next, StartStep, Tick, Env

\* The record is true of every window that awdl-up leaves its awdl0.
THEOREM RecordSafe == Spec => []RecordedAdvertised
<1>1. Init => RecordInv
  BY DEF Init, RecordInv
<1>2. IInv /\ RecordInv /\ [Next]_vars => RecordInv'
  BY RecordStep
<1>3. RecordInv => RecordedAdvertised
  BY DEF RecordInv, RecordedAdvertised
<1>4. QED
  BY <1>1, <1>2, <1>3, WriteHolds, PTL DEF Spec

-----------------------------------------------------------------------------
(* The peer table, awdl-peer-watch.py beside the radio backend.  The         *)
(* guarantee resync rests on, for any peers and any number of slots: the     *)
(* permanent neighbours cover the firmware's table at every step of every    *)
(* watcher and prime, wherever they are killed, as long as the link is not   *)
(* lost, the firmware takes a DEL and nothing is primed beside a watcher.    *)

\* The order of the calls, between any two of them: pin, add; delete, unpin.
NeighbourInv ==
  /\ hw \subseteq neigh
  /\ watch \in {"unpin", "released"} => cur \notin hw
  /\ watch = "evicted" => Head(registered) \notin hw
  /\ watch = "add" => cur \in neigh
  /\ prime = "add" => target \in neigh
  /\ prime # "off" => watch = "off"

LEMMA NeighbourStep ==
  ASSUME ~LinkLoss, ~DelFails, ~PrimeAny, NeighbourInv, [PeersNext]_peersVars
  PROVE  NeighbourInv'
<1> USE DEF NeighbourInv, table, watcher, primer
<1>1. CASE Start
  BY <1>1 DEF Start
<1>2. CASE ResyncDel
  BY <1>2 DEF ResyncDel, FwDel
<1>3. CASE ResyncUnpin
  BY <1>3 DEF ResyncUnpin, Unpin
<1>4. CASE Evict
  BY <1>4 DEF Evict, FwDel
<1>5. CASE Evicted
  BY <1>5 DEF Evicted, Unpin
<1>6. CASE Pin
  BY <1>6 DEF Pin
<1>7. CASE Add
  BY <1>7 DEF Add, FwAdd
<1>8. CASE AddRefused
  BY <1>8 DEF AddRefused
<1>9. CASE Record
  BY <1>9 DEF Record
<1>10. CASE Term
  BY <1>10 DEF Term, Busy
<1>11. CASE ReleaseDel
  BY <1>11 DEF ReleaseDel, FwDel
<1>12. CASE ReleaseUnpin
  BY <1>12 DEF ReleaseUnpin, Unpin
<1>13. CASE Die
  BY <1>13 DEF Die
<1>14. CASE PrimePin
  BY <1>14 DEF PrimePin
<1>15. CASE PrimeAdd
  BY <1>15 DEF PrimeAdd, FwAdd
<1>16. CASE LinkDown
  BY <1>16 DEF LinkDown
<1>17. CASE PeersReload
  BY <1>17 DEF PeersReload
<1>18. ASSUME NEW p \in Peer, HearKnown(p) PROVE NeighbourInv'
  BY <1>18 DEF HearKnown
<1>19. ASSUME NEW p \in Peer, HearNew(p) PROVE NeighbourInv'
  BY <1>19 DEF HearNew
<1>20. ASSUME NEW p \in Peer, Prime(p) PROVE NeighbourInv'
  BY <1>20 DEF Prime
<1>21. CASE UNCHANGED peersVars
  BY <1>21 DEF peersVars
<1>22. QED
  BY <1>1, <1>2, <1>3, <1>4, <1>5, <1>6, <1>7, <1>8, <1>9, <1>10, <1>11,
     <1>12, <1>13, <1>14, <1>15, <1>16, <1>17, <1>18, <1>19, <1>20, <1>21
     DEF PeersNext, Resync, Register, Release, Priming, Hear

\* Whatever step a watcher or a prime dies at, the next resync finds every
\* entry of the firmware's table.
THEOREM Resyncable == ~LinkLoss /\ ~DelFails /\ ~PrimeAny => (PeersSpec => []Recoverable)
<1> SUFFICES ASSUME ~LinkLoss, ~DelFails, ~PrimeAny PROVE PeersSpec => []Recoverable
  OBVIOUS
<1>1. PeersInit => NeighbourInv
  BY DEF PeersInit, NeighbourInv
<1>2. NeighbourInv /\ [PeersNext]_peersVars => NeighbourInv'
  BY NeighbourStep
<1>3. NeighbourInv => Recoverable
  BY DEF NeighbourInv, Recoverable
<1>4. QED
  BY <1>1, <1>2, <1>3, PTL DEF PeersSpec
=============================================================================
